------------------------- MODULE RunbookHistoryProofs -------------------------
(***************************************************************************)
(* OnlySafeActions, RunsPlanInOrder, LastRunIsLastSuccess, DedupSpacing,   *)
(* HandledOnce, LogBracketed and SettledForGood hold of RunbookWorker for  *)
(* every set of pods, payloads, configuration and bound; a plan drops      *)
(* nothing but repeats; and CooldownBetweenSteps, which the code does not  *)
(* keep, fails for no other reason than two actions of one plan that share *)
(* a cooldown key.                                                         *)
(*                                                                         *)
(* The invariants that are inductive are added to CooldownInv. Their       *)
(* proofs share one case distinction: StepShapes says that every step is   *)
(* one of nine shapes, each told in terms of the worker that makes it and  *)
(* of the others, which it leaves alone.                                   *)
(***************************************************************************)
EXTENDS RunbookWorkerProofs, WellFoundedInduction

-----------------------------------------------------------------------------
(* The shapes of steps.                                                    *)

Still(v) ==
    /\ pc'[v] = pc[v] /\ life'[v] = life[v] /\ hand'[v] = hand[v]
    /\ pending'[v] = pending[v] /\ todo'[v] = todo[v]
    /\ lastRun'[v] = lastRun[v] /\ seen'[v] = seen[v] /\ log'[v] = log[v]

\* A step of w that takes no time and pushes nothing.
Only(w) == now' = now /\ sent' = sent /\ \A v \in Workers : v # w => Still(v)

SentKept == \A m \in DOMAIN sent : m \in DOMAIN sent' /\ sent'[m] = sent[m]

Away == {"loop", "polling", "sleeping"}

\* The record of the message in hand is settled, the others stay.
Rewritten(w, status) ==
    /\ hand[w] \in DOMAIN fate /\ DOMAIN fate' = DOMAIN fate
    /\ fate'[hand[w]] = Settled(fate[hand[w]], status)
    /\ \A m \in DOMAIN fate : m # hand[w] => fate'[m] = fate[m]

\* Time, Agent 1, signals, and the turns of run() that take no message.
Rests ==
    /\ SentKept /\ Len(sent') \in {Len(sent), Len(sent) + 1}
    /\ now' \in Nat /\ now <= now'
    /\ UNCHANGED <<fate, steps, life, lastRun, seen, hand, pending, todo, log>>
    /\ \A v \in Workers : pc'[v] = pc[v] \/ (pc[v] \in Away /\ pc'[v] \in Away)

Starts(w) ==
    /\ Only(w) /\ UNCHANGED <<fate, steps, hand, pending, todo, lastRun, seen, log>>
    /\ pc[w] = "down" /\ pc'[w] = "loop" /\ life'[w] = life[w] + 1

\* The process ends, cleanly or not.
Leaves(w) ==
    /\ Only(w) /\ UNCHANGED <<steps, life>>
    /\ pc'[w] = "down" /\ hand'[w] = 0 /\ pending'[w] = {} /\ todo'[w] = {}
    /\ lastRun'[w] = [k \in CooldownKeys |-> Never]
    /\ log'[w] = <<>>
    /\ fate' = fate \/ Rewritten(w, "crashed")

\* A message leaves the list, for the worker or for nobody.
Takes(w) ==
    /\ Only(w) /\ UNCHANGED <<steps, life, pending, todo, lastRun, seen, log>>
    /\ pc[w] = "polling"
    /\ DOMAIN fate' = DOMAIN fate \cup {Len(fate) + 1} /\ Len(fate) + 1 \notin DOMAIN fate
    /\ \A m \in DOMAIN fate : fate'[m] = fate[m]
    /\ \E status \in {"in_hand", "reply_lost"} : fate'[Len(fate) + 1] = NewFate(w, status)
    /\ \/ pc'[w] = "polling" /\ hand'[w] = hand[w]
       \/ pc'[w] = "decoding" /\ hand'[w] = Len(fate) + 1

\* The handling of the message in hand ends with a status.
Lets(w, status) ==
    /\ Only(w) /\ UNCHANGED <<steps, life, lastRun>>
    /\ pc[w] \in Handling \ {"calling"} /\ pc'[w] \in Away
    /\ Rewritten(w, status) /\ hand'[w] = 0 /\ todo'[w] = {}
    /\ status # "in_hand"
    /\ status = "executed" => pc[w] = "executing" /\ todo[w] = {}
    /\ IF status \in Marked
       THEN /\ sent[hand[w]].kind = "runbook" /\ (pc[w] = "decoding" => IsNew(w))
            /\ \E s \in {seen[w], Fresh(w)} :
                  seen'[w] = MarkProcessed(s, sent[hand[w]].id, now)
       ELSE seen'[w] \in {seen[w], Fresh(w)}
    /\ log'[w] \in {log[w], Received(w), Logged(Parsed(w), "no_actions_found", hand[w], 0)}

\* The plan is built, and validated action by action.
Plans(w) ==
    /\ Only(w) /\ UNCHANGED <<fate, steps, life, lastRun, hand>>
    /\ pc'[w] = "validating"
    /\ \/ /\ pc[w] = "decoding" /\ IsNew(w) /\ UNCHANGED todo
          /\ seen'[w] = Fresh(w) /\ log'[w] = Parsed(w)
       \/ /\ pc[w] = "validating" /\ UNCHANGED <<seen, log>>
          /\ \/ todo'[w] = todo[w]
             \/ \E i \in pending[w] : /\ Approved(ActionOf(hand[w], i), lastRun[w], now)
                                      /\ todo'[w] = todo[w] \cup {i}

\* The plan is complete.
Commits(w) ==
    /\ Only(w) /\ UNCHANGED <<steps, life, lastRun, seen, hand, todo, log>>
    /\ pc[w] = "validating" /\ pc'[w] = "executing" /\ hand[w] \in DOMAIN fate
    /\ DOMAIN fate' = DOMAIN fate /\ fate'[hand[w]].plan = todo[w]
    /\ \A m \in DOMAIN fate :
          /\ fate'[m].status = fate[m].status /\ fate'[m].by = fate[m].by
          /\ fate'[m].life = fate[m].life /\ fate'[m].at = fate[m].at
          /\ m # hand[w] => fate'[m] = fate[m]

\* A Kubernetes call is started.
StartsCall(w, i) ==
    /\ Only(w) /\ UNCHANGED <<fate, steps, life, lastRun, seen, hand, todo>>
    /\ pc[w] = "executing" /\ pc'[w] = "calling" /\ i \in todo[w] /\ IsNext(i, todo[w])
    /\ log'[w] = StartedStep(w, i)

Outcome(status) ==
    IF status = "failed" THEN "command_execution_failed" ELSE "command_execution_success"

\* An action has been run, or has failed.
Runs(w, i, status) ==
    /\ Only(w) /\ UNCHANGED <<fate, life, seen, hand>>
    /\ pc[w] \in {"executing", "calling"} /\ pc'[w] = "executing"
    /\ i \in todo[w] /\ IsNext(i, todo[w])
    /\ StepEnds(w, i, status)
    /\ todo'[w] = IF status = "failed" THEN AfterFailure(todo[w], i) ELSE todo[w] \ {i}
    /\ lastRun'[w] = IF status = "failed" THEN lastRun[w]
                     ELSE Record(lastRun[w], CooldownKey(ActionOf(hand[w], i)), now)
    /\ log'[w] = Logged(IF pc[w] = "calling" THEN log[w] ELSE StartedStep(w, i),
                        Outcome(status), hand[w], i)

StepStatuses == {"success", "failed", "dry_run"}

Shapes ==
    \/ Rests
    \/ \E w \in Workers :
          \/ Starts(w) \/ Leaves(w) \/ Takes(w) \/ Plans(w) \/ Commits(w)
          \/ \E status \in Statuses : Lets(w, status)
          \/ \E i \in Nat : StartsCall(w, i) \/ \E status \in StepStatuses : Runs(w, i, status)

\* The clock, Agent 1 and the cluster.
LEMMA EnvironmentShape ==
    ASSUME CooldownInv, Environment
    PROVE  Shapes
<1>0. TypeOK /\ TypedInv
  BY DEF CooldownInv, TypedInv
<1>1. CASE Tick
  BY <1>0, <1>1 DEF Tick, Shapes, Rests, SentKept, queue, process, memory, work, TypeOK
<1>2. ASSUME NEW p \in Payloads, Push(p)
      PROVE  Shapes
  <2>1. SentKept
    BY <1>0, <1>2 DEF Push, SentKept, TypeOK
  <2>2. QED
    BY <1>0, <1>2, <2>1 DEF Push, Shapes, Rests, process, memory, work, TypeOK
<1>3. ASSUME NEW w \in Workers, Signal(w)
      PROVE  Shapes
  BY <1>0, <1>3 DEF Signal, Shapes, Rests, SentKept, queue, process, memory, work, TypeOK
<1>4. ASSUME NEW w \in Workers, Start(w)
      PROVE  Shapes
  <2>1. Starts(w)
    BY <1>0, <1>4 DEF Start, Starts, Only, Still, queue, process, memory, work, TypeOK
  <2>2. QED
    BY <2>1 DEF Shapes
<1>5. ASSUME NEW w \in Workers, Crash(w)
      PROVE  Shapes
  <2>1. fate' = fate \/ Rewritten(w, "crashed")
    <3>1. CASE hand[w] = 0
      BY <1>5, <3>1 DEF Crash
    <3>2. CASE hand[w] # 0
      BY <1>0, <1>5, <3>2 DEF Crash, Rewritten, TypeOK, TypedInv, InHandIsHeld
    <3>3. QED
      BY <3>1, <3>2
  <2>2. Leaves(w)
    BY <1>0, <1>5, <2>1 DEF Crash, ProcessEnds, Leaves, Only, Still, TypeOK
  <2>3. QED
    BY <2>2 DEF Shapes
<1>6. QED
  BY <1>1, <1>2, <1>3, <1>4, <1>5 DEF Environment

\* run() and _poll_once.
LEMMA LoopShape ==
    ASSUME CooldownInv, NEW w \in Workers, Loop(w)
    PROVE  Shapes
<1>0. TypeOK /\ TypedInv
  BY DEF CooldownInv, TypedInv
<1>1. CASE StopCleanly(w)
  <2>1. Leaves(w)
    BY <1>0, <1>1 DEF StopCleanly, ProcessEnds, Leaves, Only, Still, TypeOK
  <2>2. QED
    BY <2>1 DEF Shapes
<1>2. CASE \/ Connect(w) \/ ConnectRefused(w) \/ ConnectTimeout(w) \/ ConnectError(w)
           \/ Poll(w) \/ PollTimesOut(w) \/ PollConnectionError(w) \/ PollError(w)
           \/ Wake(w)
  <2>1. Rests
    BY <1>0, <1>2 DEF Connect, ConnectRefused, ConnectTimeout, ConnectError, Poll, Turns,
                PollTimesOut, PollConnectionError, PollError, Wake, Goes, Rests, SentKept,
                Away, process, memory, TypeOK
  <2>2. QED
    BY <2>1 DEF Shapes
<1>3. ASSUME NEW status \in {"in_hand", "reply_lost"}, pc[w] = "polling",
             fate' = Append(fate, NewFate(w, status))
      PROVE  /\ DOMAIN fate' = DOMAIN fate \cup {Len(fate) + 1}
             /\ Len(fate) + 1 \notin DOMAIN fate
             /\ \A m \in DOMAIN fate : fate'[m] = fate[m]
             /\ fate'[Len(fate) + 1] = NewFate(w, status)
  BY <1>0, <1>3 DEF TypeOK
<1>4. CASE Pop(w)
  <2>1. Takes(w)
    BY <1>0, <1>3, <1>4 DEF Pop, Goes, Takes, Only, Still, process, memory, TypeOK
  <2>2. QED
    BY <2>1 DEF Shapes
<1>5. CASE ReplyLost(w)
  <2>1. Takes(w)
    BY <1>0, <1>3, <1>5 DEF ReplyLost, Goes, Takes, Only, Still, process, memory, TypeOK
  <2>2. QED
    BY <2>1 DEF Shapes
<1>6. QED
  BY <1>1, <1>2, <1>4, <1>5 DEF Loop

\* Settling as a shape.
LEMMA SettleShape ==
    ASSUME CooldownInv, NEW w \in Workers, NEW status \in Statuses, pc[w] \in Handling,
           NEW location \in {"loop", "sleeping"}, Settle(w, status, location),
           \A v \in Workers : v # w => /\ pending'[v] = pending[v] /\ todo'[v] = todo[v]
                                       /\ seen'[v] = seen[v] /\ log'[v] = log[v]
    PROVE  /\ Only(w) /\ UNCHANGED <<steps, life, lastRun>>
           /\ pc'[w] \in Away /\ Rewritten(w, status) /\ hand'[w] = 0
<1>1. TypeOK /\ TypedInv
  BY DEF CooldownInv, TypedInv
<1>2. hand[w] \in DOMAIN fate
  BY <1>1, HandTaken DEF Handling
<1>3. Rewritten(w, status)
  BY <1>1, <1>2 DEF Settle, Rewritten, TypeOK
<1>4. QED
  BY <1>1, <1>3 DEF Settle, Only, Still, Away, process, TypeOK

\* The paths of _handle_message that end with a decoded payload.
LEMMA DecodeShape ==
    ASSUME CooldownInv, NEW w \in Workers,
           \/ DiscardPayload(w) \/ RejectNonObject(w) \/ SkipDuplicate(w)
           \/ ParseRaises(w) \/ NoActions(w)
    PROVE  \E status \in Statuses : Lets(w, status)
<1>1. TypeOK /\ TypedInv
  BY DEF CooldownInv, TypedInv
<1>2. /\ pc[w] = "decoding" /\ pc[w] \in Handling \ {"calling"}
      /\ UNCHANGED <<pending, todo>> /\ todo[w] = {}
  <2>1. pc[w] = "decoding" /\ UNCHANGED <<pending, todo>>
    BY DEF DiscardPayload, RejectNonObject, SkipDuplicate, ParseRaises, NoActions, IsNew, Decodes
  <2>2. QED
    BY <1>1, <2>1, NoWork DEF Handling, Planning
<1>3. seen \in [Workers -> [RunbookIds -> Timestamp]] /\ log \in [Workers -> Seq(LogEntry)]
  BY <1>1 DEF TypeOK
<1>4. ASSUME NEW status \in Statuses, status \notin {"in_hand", "executed"},
             NEW location \in {"loop", "sleeping"}, Settle(w, status, location),
             \A v \in Workers : v # w => seen'[v] = seen[v] /\ log'[v] = log[v],
             IF status \in Marked
             THEN /\ sent[hand[w]].kind = "runbook" /\ IsNew(w)
                  /\ \E s \in {seen[w], Fresh(w)} :
                        seen'[w] = MarkProcessed(s, sent[hand[w]].id, now)
             ELSE seen'[w] \in {seen[w], Fresh(w)},
             log'[w] \in {log[w], Received(w), Logged(Parsed(w), "no_actions_found", hand[w], 0)}
      PROVE  Lets(w, status)
  BY <1>2, <1>4, SettleShape DEF Lets
<1>5. ASSUME NEW d, NEW l, seen' = [seen EXCEPT ![w] = d], log' = [log EXCEPT ![w] = l]
      PROVE  /\ seen'[w] = d /\ log'[w] = l
             /\ \A v \in Workers : v # w => seen'[v] = seen[v] /\ log'[v] = log[v]
  BY <1>3, <1>5
<1>6. CASE DiscardPayload(w)
  <2>1. Lets(w, "discarded")
    BY <1>4, <1>6 DEF DiscardPayload, Statuses, Marked
  <2>2. QED
    BY <2>1 DEF Statuses
<1>7. CASE RejectNonObject(w)
  <2>1. Lets(w, "aborted")
    BY <1>4, <1>7 DEF RejectNonObject, Statuses, Marked
  <2>2. QED
    BY <2>1 DEF Statuses
<1>8. CASE SkipDuplicate(w)
  <2>1. /\ seen'[w] = Fresh(w) /\ log'[w] = Received(w)
        /\ \A v \in Workers : v # w => seen'[v] = seen[v] /\ log'[v] = log[v]
    BY <1>5, <1>8 DEF SkipDuplicate
  <2>2. Lets(w, "duplicate")
    BY <1>4, <1>8, <2>1 DEF SkipDuplicate, Statuses, Marked
  <2>3. QED
    BY <2>2 DEF Statuses
<1>9. CASE ParseRaises(w)
  <2>1. /\ seen'[w] = Fresh(w) /\ log'[w] = Received(w)
        /\ \A v \in Workers : v # w => seen'[v] = seen[v] /\ log'[v] = log[v]
    BY <1>5, <1>9 DEF ParseRaises
  <2>2. Lets(w, "aborted")
    BY <1>4, <1>9, <2>1 DEF ParseRaises, Statuses, Marked
  <2>3. QED
    BY <2>2 DEF Statuses
<1>10. CASE NoActions(w)
  <2>1. /\ seen'[w] = MarkProcessed(Fresh(w), sent[hand[w]].id, now)
        /\ log'[w] = Logged(Parsed(w), "no_actions_found", hand[w], 0)
        /\ \A v \in Workers : v # w => seen'[v] = seen[v] /\ log'[v] = log[v]
    BY <1>5, <1>10 DEF NoActions
  <2>2. sent[hand[w]].kind = "runbook" /\ IsNew(w) /\ Settle(w, "no_actions", "loop")
    BY <1>10 DEF NoActions, IsNew, Decodes
  <2>3. Lets(w, "no_actions")
    BY <1>4, <2>1, <2>2 DEF Statuses, Marked
  <2>4. QED
    BY <2>3 DEF Statuses, Marked
<1>11. QED
  BY <1>6, <1>7, <1>8, <1>9, <1>10

\* The paths that end with a planned runbook.
LEMMA DecidedShape ==
    ASSUME CooldownInv, NEW w \in Workers,
           ValidationRaises(w) \/ RejectAll(w) \/ FinishRun(w)
    PROVE  \E status \in Statuses : Lets(w, status)
<1>1. TypeOK /\ TypedInv
  BY DEF CooldownInv, TypedInv
<1>2. seen \in [Workers -> [RunbookIds -> Timestamp]]
      /\ pending \in [Workers -> SUBSET Nat] /\ todo \in [Workers -> SUBSET Nat]
  BY <1>1 DEF TypeOK
<1>3. pc[w] \in {"validating", "executing"} /\ log' = log
  BY DEF ValidationRaises, RejectAll, FinishRun, Validates
<1>4. sent[hand[w]].kind = "runbook" /\ pc[w] \in Handling \ {"calling"}
  BY <1>1, <1>3 DEF TypedInv, WorkIsPlanned, Handling
<1>5. CASE ValidationRaises(w)
  <2>1. /\ todo'[w] = {} /\ seen' = seen
        /\ \A v \in Workers : v # w => pending'[v] = pending[v] /\ todo'[v] = todo[v]
    BY <1>2, <1>5 DEF ValidationRaises
  <2>2. Settle(w, "aborted", "sleeping")
    BY <1>5 DEF ValidationRaises
  <2>3. Lets(w, "aborted")
    BY <1>3, <1>4, <2>1, <2>2, SettleShape DEF Lets, Statuses, Marked
  <2>4. QED
    BY <2>3 DEF Statuses
<1>6. CASE RejectAll(w)
  <2>1. /\ seen'[w] = MarkProcessed(seen[w], sent[hand[w]].id, now)
        /\ \A v \in Workers : v # w => seen'[v] = seen[v]
    BY <1>2, <1>6 DEF RejectAll
  <2>2. Settle(w, "rejected", "loop") /\ UNCHANGED <<pending, todo>> /\ todo[w] = {}
    BY <1>6 DEF RejectAll
  <2>3. Lets(w, "rejected")
    BY <1>3, <1>4, <2>1, <2>2, SettleShape DEF Lets, Statuses, Marked
  <2>4. QED
    BY <2>3 DEF Statuses, Marked
<1>7. CASE FinishRun(w)
  <2>1. /\ seen'[w] = MarkProcessed(seen[w], sent[hand[w]].id, now)
        /\ \A v \in Workers : v # w => seen'[v] = seen[v]
    BY <1>2, <1>7 DEF FinishRun
  <2>2. /\ Settle(w, "executed", "loop") /\ UNCHANGED <<pending, todo>> /\ todo[w] = {}
        /\ pc[w] = "executing"
    BY <1>7 DEF FinishRun
  <2>3. Lets(w, "executed")
    BY <1>3, <1>4, <2>1, <2>2, SettleShape DEF Lets, Statuses, Marked
  <2>4. QED
    BY <2>3 DEF Statuses, Marked
<1>8. QED
  BY <1>5, <1>6, <1>7

\* _handle_message.
LEMMA HandleShape ==
    ASSUME CooldownInv, NEW w \in Workers, Handle(w)
    PROVE  Shapes
<1>0. TypeOK /\ TypedInv
  BY DEF CooldownInv, TypedInv
<1>1. CASE DiscardPayload(w) \/ RejectNonObject(w) \/ SkipDuplicate(w)
           \/ ParseRaises(w) \/ NoActions(w)
  BY <1>1, DecodeShape DEF Shapes
<1>2. CASE BuildPlan(w)
  <2>1. Plans(w)
    BY <1>0, <1>2 DEF BuildPlan, IsNew, Decodes, Plans, Only, Still, queue, process, TypeOK
  <2>2. QED
    BY <2>1 DEF Shapes
<1>3. CASE ApproveAction(w)
  <2>1. PICK i \in pending[w] :
          /\ pc[w] = "validating" /\ Approved(ActionOf(hand[w], i), lastRun[w], now)
          /\ todo' = [todo EXCEPT ![w] = todo[w] \cup {i}]
          /\ pending' = [pending EXCEPT ![w] = pending[w] \ {i}]
          /\ UNCHANGED <<now, sent, fate, steps, life, pc, lastRun, seen, hand, log>>
    BY <1>3 DEF ApproveAction, Validates, queue, process, memory
  <2>2. todo'[w] = todo[w] \cup {i}
    BY <1>0, <2>1 DEF TypeOK
  <2>3. Only(w)
    BY <1>0, <2>1 DEF Only, Still, TypeOK
  <2>4. Plans(w)
    BY <2>1, <2>2, <2>3 DEF Plans
  <2>5. QED
    BY <2>4 DEF Shapes
<1>4. CASE RejectAction(w)
  <2>1. Plans(w)
    BY <1>0, <1>4 DEF RejectAction, Validates, Plans, Only, Still, queue, process, memory, TypeOK
  <2>2. QED
    BY <2>1 DEF Shapes
<1>5. CASE ValidationRaises(w) \/ RejectAll(w)
  BY <1>5, DecidedShape DEF Shapes
<1>6. CASE ApprovePlan(w)
  <2>1. hand[w] \in DOMAIN fate
    BY <1>0, <1>6, HandTaken DEF ApprovePlan
  <2> DEFINE h == hand[w]
             r == [fate[h] EXCEPT !.plan = todo[w]]
  <2>2. fate[h] \in Fate /\ fate \in Seq(Fate)
    BY <1>0, <2>1 DEF TypeOK
  <2>3. /\ r.plan = todo[w] /\ r.status = fate[h].status /\ r.by = fate[h].by
        /\ r.life = fate[h].life /\ r.at = fate[h].at
    BY <2>2 DEF Fate
  <2>4. fate' = [fate EXCEPT ![h] = r]
    BY <1>6 DEF ApprovePlan
  <2> HIDE DEF r
  <2>5. /\ DOMAIN fate' = DOMAIN fate /\ fate'[h] = r
        /\ \A m \in DOMAIN fate : m # h => fate'[m] = fate[m]
    BY <2>1, <2>2, <2>4
  <2>6. Commits(w)
    BY <1>0, <1>6, <2>1, <2>3, <2>5
       DEF ApprovePlan, Commits, Only, Still, process, memory, work, TypeOK
  <2>7. QED
    BY <2>6 DEF Shapes
<1>7. QED
  BY <1>1, <1>2, <1>3, <1>4, <1>5, <1>6 DEF Handle

\* Executor.run.
LEMMA ExecuteShape ==
    ASSUME CooldownInv, NEW w \in Workers, Execute(w)
    PROVE  Shapes
<1>0. TypeOK /\ TypedInv
  BY DEF CooldownInv, TypedInv
<1>1. /\ todo[w] \subseteq Nat
      /\ lastRun \in [Workers -> [CooldownKeys -> Timestamp]]
  BY <1>0 DEF TypeOK
<1>2. ASSUME NEW i \in todo[w], Recorded(w, i)
      PROVE  /\ lastRun'[w] = Record(lastRun[w], CooldownKey(ActionOf(hand[w], i)), now)
             /\ \A v \in Workers : v # w => lastRun'[v] = lastRun[v]
  BY <1>1, <1>2 DEF Recorded
<1>3. CASE DryRunStep(w)
  <2>1. PICK i \in todo[w] :
          /\ pc[w] = "executing" /\ IsNext(i, todo[w])
          /\ log' = [log EXCEPT ![w] =
                       Logged(StartedStep(w, i), "command_execution_success", hand[w], i)]
          /\ Recorded(w, i) /\ StepEnds(w, i, "dry_run")
          /\ todo' = [todo EXCEPT ![w] = todo[w] \ {i}]
          /\ UNCHANGED <<now, sent, fate, life, pc, seen, hand, pending>>
    BY <1>3 DEF DryRunStep, queue, process
  <2>2. Only(w)
    BY <1>0, <1>2, <2>1 DEF Only, Still, TypeOK
  <2>3. /\ todo'[w] = todo[w] \ {i}
        /\ log'[w] = Logged(StartedStep(w, i), "command_execution_success", hand[w], i)
    BY <1>0, <2>1 DEF TypeOK
  <2>4. Runs(w, i, "dry_run")
    BY <1>2, <2>1, <2>2, <2>3 DEF Runs, Outcome
  <2>5. QED
    BY <1>1, <2>4 DEF Shapes, StepStatuses
<1>4. CASE StartCall(w)
  <2>1. PICK i \in todo[w] :
          /\ pc[w] = "executing" /\ IsNext(i, todo[w])
          /\ log' = [log EXCEPT ![w] = StartedStep(w, i)]
          /\ pc' = [pc EXCEPT ![w] = "calling"]
          /\ UNCHANGED <<now, sent, fate, steps, life, lastRun, seen, hand, pending, todo>>
    BY <1>4 DEF StartCall, queue, process, memory, work
  <2>2. StartsCall(w, i)
    BY <1>0, <2>1 DEF StartsCall, Only, Still, TypeOK
  <2>3. QED
    BY <1>1, <2>2 DEF Shapes
<1>5. CASE CallReturns(w)
  <2>1. PICK i \in todo[w] :
          /\ pc[w] = "calling" /\ IsNext(i, todo[w])
          /\ log' = [log EXCEPT ![w] =
                       Logged(log[w], "command_execution_success", hand[w], i)]
          /\ Recorded(w, i) /\ StepEnds(w, i, "success")
          /\ todo' = [todo EXCEPT ![w] = todo[w] \ {i}]
          /\ pc' = [pc EXCEPT ![w] = "executing"]
          /\ UNCHANGED <<now, sent, fate, life, seen, hand, pending>>
    BY <1>5 DEF CallReturns, queue, process
  <2>2. Only(w)
    BY <1>0, <1>2, <2>1 DEF Only, Still, TypeOK
  <2>3. /\ todo'[w] = todo[w] \ {i} /\ pc'[w] = "executing"
        /\ log'[w] = Logged(log[w], "command_execution_success", hand[w], i)
    BY <1>0, <2>1 DEF TypeOK
  <2>4. Runs(w, i, "success")
    BY <1>2, <2>1, <2>2, <2>3 DEF Runs, Outcome
  <2>5. QED
    BY <1>1, <2>4 DEF Shapes, StepStatuses
<1>6. CASE CallRaises(w)
  <2>1. PICK i \in todo[w] :
          /\ pc[w] = "calling" /\ IsNext(i, todo[w])
          /\ log' = [log EXCEPT ![w] =
                       Logged(log[w], "command_execution_failed", hand[w], i)]
          /\ StepEnds(w, i, "failed")
          /\ todo' = [todo EXCEPT ![w] = AfterFailure(todo[w], i)]
          /\ pc' = [pc EXCEPT ![w] = "executing"]
          /\ UNCHANGED <<now, sent, fate, life, lastRun, seen, hand, pending>>
    BY <1>6 DEF CallRaises, queue, process, memory
  <2>2. Only(w)
    BY <1>0, <2>1 DEF Only, Still, TypeOK
  <2>3. /\ todo'[w] = AfterFailure(todo[w], i) /\ pc'[w] = "executing"
        /\ log'[w] = Logged(log[w], "command_execution_failed", hand[w], i)
    BY <1>0, <2>1 DEF TypeOK
  <2>4. Runs(w, i, "failed")
    BY <2>1, <2>2, <2>3 DEF Runs, Outcome
  <2>5. QED
    BY <1>1, <2>4 DEF Shapes, StepStatuses
<1>7. CASE FinishRun(w)
  BY <1>7, DecidedShape DEF Shapes
<1>8. QED
  BY <1>3, <1>4, <1>5, <1>6, <1>7 DEF Execute

\* Every step has one of the shapes.
LEMMA StepShapes ==
    ASSUME CooldownInv, [Next]_vars
    PROVE  Shapes
<1>1. CASE Next
  BY <1>1, EnvironmentShape, LoopShape, HandleShape, ExecuteShape DEF Next
<1>2. CASE UNCHANGED vars
  BY <1>2 DEF vars, queue, process, memory, work, Shapes, Rests, SentKept, CooldownInv, TypeOK
<1>3. QED
  BY <1>1, <1>2

-----------------------------------------------------------------------------
(* Only safe actions.                                                      *)

\* What no check of the plan lets through, but for the cooldown.
Safe(a) == Permitted(a) /\ WithinLimits(a)

\* An approved action is safe while it waits.
SafeWork == \A w \in Workers : \A i \in todo[w] : Safe(ActionOf(hand[w], i))

\* A step is one of a plan position, and its action is safe.
IsSafe(s) ==
    /\ s.msg \in DOMAIN sent /\ sent[s.msg].kind = "runbook" /\ ~PlanRaises(sent[s.msg])
    /\ s.index \in BuildExecutionPlan(sent[s.msg])
    /\ Safe(ActionOf(s.msg, s.index))

SafeInv == SafeWork /\ \A s \in steps : IsSafe(s)

\* A message keeps what it says.
LEMMA ActionStays ==
    ASSUME CooldownInv, NEW m, sent'[m] = sent[m], NEW i
    PROVE  ActionOf(m, i)' = ActionOf(m, i)
  BY DEF ActionOf

\* Steps that approve nothing and run nothing.
LEMMA SafeKept ==
    ASSUME CooldownInv, SafeInv, SentKept, steps' = steps,
           \A v \in Workers : /\ todo'[v] \subseteq todo[v]
                              /\ todo'[v] # {} => hand'[v] = hand[v]
    PROVE  SafeInv'
<1>1. ASSUME NEW v \in Workers, NEW i \in todo'[v]
      PROVE  Safe(ActionOf(hand[v], i))'
  <2>1. i \in todo[v] /\ hand'[v] = hand[v] /\ hand[v] \in DOMAIN fate
    BY <1>1, WorkHeld
  <2>2. hand[v] \in DOMAIN sent
    BY <2>1 DEF CooldownInv, TypeOK
  <2>3. ActionOf(hand[v], i)' = ActionOf(hand[v], i)
    BY <2>1, <2>2 DEF SentKept, ActionOf
  <2>4. QED
    BY <2>1, <2>3 DEF SafeInv, SafeWork, Safe
<1>2. ASSUME NEW s \in steps'
      PROVE  IsSafe(s)'
  <2>1. IsSafe(s) /\ s.msg \in DOMAIN sent
    BY <1>2 DEF SafeInv, IsSafe
  <2>2. s.msg \in DOMAIN sent' /\ sent'[s.msg] = sent[s.msg]
    BY <2>1 DEF SentKept
  <2>3. QED
    BY <2>1, <2>2 DEF IsSafe, Safe, ActionOf
<1>3. QED
  BY <1>1, <1>2 DEF SafeInv, SafeWork

\* SafeInv is inductive.
LEMMA NextSafe ==
    ASSUME CooldownInv, SafeInv, [Next]_vars
    PROVE  SafeInv'
<1>1. CASE Rests
  BY <1>1, SafeKept DEF Rests
<1>2. ASSUME NEW w \in Workers, Only(w)
      PROVE  /\ SentKept
             /\ \A v \in Workers : v # w => todo'[v] = todo[v] /\ hand'[v] = hand[v]
  BY <1>2 DEF Only, Still, SentKept
<1>3. ASSUME NEW w \in Workers,
             Starts(w) \/ Leaves(w) \/ Commits(w) \/ \E status \in Statuses : Lets(w, status)
      PROVE  SafeInv'
  <2>1. /\ steps' = steps /\ Only(w)
        /\ todo'[w] = {} \/ (todo'[w] = todo[w] /\ hand'[w] = hand[w])
    BY <1>3 DEF Starts, Leaves, Commits, Lets
  <2>2. QED
    BY <1>2, <2>1, SafeKept
<1>4. ASSUME NEW w \in Workers, Takes(w)
      PROVE  SafeInv'
  <2>1. todo[w] = {}
    BY <1>4, NoWork DEF Takes, CooldownInv, TypedInv, Planning
  <2>2. steps' = steps /\ todo'[w] = {} /\ Only(w)
    BY <1>4, <2>1 DEF Takes
  <2>3. QED
    BY <1>2, <2>2, SafeKept
<1>5. ASSUME NEW w \in Workers, Plans(w)
      PROVE  SafeInv'
  <2>1. Only(w) /\ SentKept /\ sent' = sent /\ hand'[w] = hand[w] /\ steps' = steps
    BY <1>2, <1>5 DEF Plans, Only
  <2>2. ASSUME NEW v \in Workers, NEW i \in todo'[v]
        PROVE  Safe(ActionOf(hand[v], i))'
    <3>1. hand'[v] = hand[v]
      BY <1>2, <2>1
    <3>2. i \in todo[v] \/ Safe(ActionOf(hand[v], i))
      BY <1>2, <1>5, <2>1, <2>2 DEF Plans, Approved, Safe
    <3>3. Safe(ActionOf(hand[v], i))
      BY <3>2 DEF SafeInv, SafeWork
    <3>4. QED
      BY <2>1, <3>1, <3>3 DEF Safe, ActionOf
  <2>3. ASSUME NEW s \in steps'
        PROVE  IsSafe(s)'
    BY <2>1, <2>3 DEF SafeInv, IsSafe, Safe, ActionOf
  <2>4. QED
    BY <2>2, <2>3 DEF SafeInv, SafeWork
<1>6. ASSUME NEW w \in Workers, NEW i \in Nat, StartsCall(w, i)
      PROVE  SafeInv'
  BY <1>2, <1>6, SafeKept DEF StartsCall
<1>7. ASSUME NEW w \in Workers, NEW i \in Nat, NEW status \in StepStatuses, Runs(w, i, status)
      PROVE  SafeInv'
  <2> DEFINE new == [msg |-> hand[w], index |-> i, status |-> status, at |-> now]
  <2>1. /\ Only(w) /\ sent' = sent /\ hand'[w] = hand[w] /\ i \in todo[w]
        /\ pc[w] \in Planning /\ todo'[w] \subseteq todo[w] /\ steps' = steps \cup {new}
    BY <1>7 DEF Runs, Only, AfterFailure, StepEnds, Planning
  <2>2. IsSafe(new)
    <3>1. hand[w] \in DOMAIN sent
      BY <2>1, HandTaken DEF CooldownInv, TypedInv, Planning
    <3>2. /\ sent[hand[w]].kind = "runbook" /\ ~PlanRaises(sent[hand[w]])
          /\ i \in BuildExecutionPlan(sent[hand[w]])
      BY <2>1 DEF CooldownInv, WorkIsPlanned, Planning
    <3>3. QED
      BY <2>1, <3>1, <3>2 DEF IsSafe, SafeInv, SafeWork
  <2> HIDE DEF new
  <2>3. ASSUME NEW v \in Workers, NEW j \in todo'[v]
        PROVE  Safe(ActionOf(hand[v], j))'
    <3>1. hand'[v] = hand[v] /\ j \in todo[v]
      BY <1>2, <2>1, <2>3
    <3>2. QED
      BY <2>1, <3>1 DEF SafeInv, SafeWork, Safe, ActionOf
  <2>4. ASSUME NEW s \in steps'
        PROVE  IsSafe(s)'
    BY <2>1, <2>2, <2>4 DEF SafeInv, IsSafe, Safe, ActionOf
  <2>5. QED
    BY <2>3, <2>4 DEF SafeInv, SafeWork
<1>8. QED
  BY <1>1, <1>3, <1>4, <1>5, <1>6, <1>7, StepShapes DEF Shapes

\* A plan holds no action at two positions.
LEMMA PlannedOnce ==
    ASSUME NEW rb \in Payloads, rb.kind = "runbook", ~PlanRaises(rb),
           NEW i \in BuildExecutionPlan(rb), NEW j \in BuildExecutionPlan(rb), i # j
    PROVE  PlanSource(rb)[i] # PlanSource(rb)[j]
<1>1. i \in Nat /\ j \in Nat
  BY PlannedAction
<1>2. rb \in Runbook
  BY WorkerAssumption DEF Payload, Malformed
<1>3. DOMAIN PlanSource(rb) \subseteq Nat \ {0}
  BY <1>2 DEF Runbook, PlanSource
<1>4. i \in Nat \ {0} /\ j \in Nat \ {0}
  BY <1>3 DEF BuildExecutionPlan
<1>5. CASE i < j
  BY <1>4, <1>5 DEF BuildExecutionPlan
<1>6. CASE j < i
  BY <1>4, <1>6 DEF BuildExecutionPlan
<1>7. QED
  BY <1>1, <1>5, <1>6

\* The plan drops nothing but repeats: every action of the source is in it, at
\* the same position or an earlier one, however long the runbook is.
THEOREM PlanDropsRepeatsOnly ==
    ASSUME NEW rb \in Payloads, rb.kind = "runbook",
           NEW i \in DOMAIN PlanSource(rb), PlanSource(rb)[i] # Unsupported
    PROVE  \E j \in BuildExecutionPlan(rb) : j <= i /\ PlanSource(rb)[j] = PlanSource(rb)[i]
<1> DEFINE R == {ss \in Nat \X Nat : ss[1] < ss[2]}
           source == PlanSource(rb)
           same == {j \in DOMAIN source : source[j] = source[i]}
<1>1. rb \in Runbook
  BY WorkerAssumption DEF Payload, Malformed
<1>2. DOMAIN source = 1..Len(source) /\ Len(source) \in Nat
  BY <1>1 DEF Runbook, PlanSource
<1>3. IsWellFoundedOn(R, Nat)
  BY NatLessThanWellFounded DEF OpToRel
<1>4. same \subseteq Nat /\ i \in same
  BY <1>2
<1>5. PICK j \in same : \A k \in same : <<k, j>> \notin R
  <2> HIDE DEF R, same
  <2> QED BY <1>3, <1>4, WFMin
<1>6. ASSUME NEW k \in same PROVE j <= k
  <2>1. <<k, j>> \in Nat \X Nat /\ <<k, j>> \notin R
    BY <1>4, <1>5
  <2> QED BY <2>1
<1>7. ASSUME NEW k \in 1..(j - 1) PROVE source[k] # source[j]
  <2>1. k \in DOMAIN source /\ ~(j <= k)
    BY <1>2, <1>5
  <2> QED BY <1>5, <1>6, <2>1
<1>8. j \in BuildExecutionPlan(rb)
  BY <1>5, <1>7 DEF BuildExecutionPlan
<1> QED BY <1>4, <1>5, <1>6, <1>8

\* Only allowed actions within their limits are ever run, none twice for one
\* message: the validator and the plan builder cannot be got round.
THEOREM OnlySafeActionsRun == Spec => []OnlySafeActions
<1>1. Init => SafeInv
  BY DEF Init, SafeInv, SafeWork
<1>2. CooldownInv /\ SafeInv /\ [Next]_vars => SafeInv'
  BY NextSafe
<1>3. CooldownInv /\ SafeInv => OnlySafeActions
  <2> SUFFICES ASSUME CooldownInv, SafeInv, NEW s \in steps
               PROVE  LET a == ActionOf(s.msg, s.index) IN
                      /\ a \in Action /\ Permitted(a) /\ WithinLimits(a)
                      /\ \A t \in steps : t.msg = s.msg /\ t.index # s.index
                                            => ActionOf(t.msg, t.index) # a
    BY DEF OnlySafeActions
  <2>1. IsSafe(s) /\ sent \in Seq(Payloads)
    BY DEF SafeInv, CooldownInv, TypeOK
  <2>2. sent[s.msg] \in Payloads
    BY <2>1 DEF IsSafe
  <2>3. ActionOf(s.msg, s.index) \in Action
    BY <2>1, <2>2, PlannedAction DEF IsSafe, ActionOf
  <2>4. ASSUME NEW t \in steps, t.msg = s.msg, t.index # s.index
        PROVE  ActionOf(t.msg, t.index) # ActionOf(s.msg, s.index)
    <3>1. IsSafe(t)
      BY DEF SafeInv
    <3>2. QED
      BY <2>1, <2>2, <2>4, <3>1, PlannedOnce DEF IsSafe, ActionOf
  <2>5. QED
    BY <2>1, <2>3, <2>4 DEF IsSafe, Safe
<1>4. QED
  BY <1>1, <1>2, <1>3, CooldownInvariant, PTL DEF Spec

-----------------------------------------------------------------------------
(* The plan is run in order.                                               *)

Ran(m)      == {s.index : s \in {x \in steps : x.msg = m}}
FailedOf(m) == {s.index : s \in {x \in {y \in steps : y.msg = m} : x.status = "failed"}}

\* What RunsPlanInOrder says of one message.
InOrder(m) ==
    /\ Ran(m) \subseteq fate[m].plan
    /\ \A i \in Ran(m), j \in fate[m].plan : j < i => j \in Ran(m)
    /\ StopOnFailure => \A i \in FailedOf(m), j \in Ran(m) : j <= i
    /\ fate[m].status = "executed" =>
          Ran(m) = fate[m].plan \/ (StopOnFailure /\ FailedOf(m) # {})

\* Before the plan is complete nothing of it has been run; then what is left of
\* it is what has not been run, unless a failure has cut it short.
Untouched(m) == Ran(m) = {} /\ fate[m].plan = {}

Split(w) ==
    \/ /\ todo[w] = fate[hand[w]].plan \ Ran(hand[w])
       /\ StopOnFailure => FailedOf(hand[w]) = {}
    \/ StopOnFailure /\ todo[w] = {} /\ FailedOf(hand[w]) # {}

OrderInv ==
    /\ \A m \in DOMAIN fate : InOrder(m)
    /\ \A w \in Workers : pc[w] \in {"decoding", "validating"} => Untouched(hand[w])
    /\ \A w \in Workers : pc[w] \in {"executing", "calling"} => Split(w)

\* Nobody runs a step of a message that is not in his hand.
LEMMA HandsDiffer ==
    ASSUME CooldownInv, NEW v \in Workers, NEW w \in Workers, v # w,
           pc[v] \in Handling, pc[w] \in Handling
    PROVE  hand[v] # hand[w]
  BY DEF CooldownInv, InHandIsHeld, Handling

\* Steps of w that run nothing: the other workers go on with what they have.
LEMMA OrderKept ==
    ASSUME CooldownInv, OrderInv, NEW w \in Workers, steps' = steps,
           \A v \in Workers : v # w => Still(v),
           \A m \in DOMAIN fate :
              /\ m \in DOMAIN fate'
              /\ \/ fate'[m].plan = fate[m].plan
                 \/ pc[w] \in Handling /\ hand[w] = m /\ Ran(m) = {}
              /\ fate'[m].status = "executed"
                   => \/ fate[m].status = "executed"
                      \/ /\ fate'[m].plan = fate[m].plan
                         /\ Ran(m) = fate[m].plan \/ (StopOnFailure /\ FailedOf(m) # {}),
           \A m \in DOMAIN fate' : m \notin DOMAIN fate =>
              fate'[m].plan = {} /\ fate'[m].status # "executed",
           pc'[w] \in {"decoding", "validating"} => Untouched(hand[w])',
           pc'[w] \in {"executing", "calling"} => Split(w)'
    PROVE  OrderInv'
<1>1. \A m : Ran(m)' = Ran(m) /\ FailedOf(m)' = FailedOf(m)
  BY DEF Ran, FailedOf
<1>2. \A m : m \notin DOMAIN fate => Ran(m) = {} /\ FailedOf(m) = {}
  BY StepFacts DEF Ran, FailedOf
<1>3. \A m : Ran(m) = {} => FailedOf(m) = {}
  BY DEF Ran, FailedOf
<1>4. ASSUME NEW m \in DOMAIN fate'
      PROVE  InOrder(m)'
  <2>1. CASE m \in DOMAIN fate
    <3>1. CASE Ran(m) = {}
      <4>1. FailedOf(m) = {}
        BY <1>3, <3>1
      <4>2. fate'[m].status = "executed" => Ran(m) = fate'[m].plan
        BY <2>1, <3>1, <4>1 DEF OrderInv, InOrder, CooldownInv, InHandIsHeld, Handling
      <4>3. QED
        BY <1>1, <3>1, <4>1, <4>2 DEF InOrder
    <3>2. CASE Ran(m) # {}
      BY <1>1, <2>1, <3>2 DEF OrderInv, InOrder
    <3>3. QED
      BY <3>1, <3>2
  <2>2. CASE m \notin DOMAIN fate
    BY <1>1, <1>2, <1>4, <2>2 DEF InOrder
  <2>3. QED
    BY <2>1, <2>2
<1>5. ASSUME NEW v \in Workers, v # w, pc'[v] \in Handling
      PROVE  fate'[hand'[v]].plan = fate[hand[v]].plan /\ hand'[v] = hand[v] /\ pc[v] \in Handling
             /\ todo'[v] = todo[v] /\ pc'[v] = pc[v]
  <2>1. Still(v) /\ pc[v] \in Handling
    BY <1>5 DEF Still
  <2>2. hand[v] \in DOMAIN fate
    BY <2>1 DEF CooldownInv, InHandIsHeld, Handling
  <2>3. pc[w] \in Handling => hand[v] # hand[w]
    BY <1>5, <2>1, HandsDiffer
  <2>4. QED
    BY <2>1, <2>2, <2>3 DEF Still
<1>6. ASSUME NEW v \in Workers, pc'[v] \in {"decoding", "validating"}
      PROVE  Untouched(hand[v])'
  BY <1>1, <1>5, <1>6 DEF OrderInv, Untouched, Handling
<1>7. ASSUME NEW v \in Workers, pc'[v] \in {"executing", "calling"}
      PROVE  Split(v)'
  BY <1>1, <1>5, <1>7 DEF OrderInv, Split, Handling
<1>8. QED
  BY <1>4, <1>6, <1>7 DEF OrderInv

\* Settling changes the status alone.
LEMMA RewrittenPlan ==
    ASSUME NEW w \in Workers, NEW status, Rewritten(w, status)
    PROVE  /\ DOMAIN fate' = DOMAIN fate
           /\ \A m \in DOMAIN fate : /\ fate'[m].plan = fate[m].plan
                                     /\ (fate'[m].status = fate[m].status
                                          \/ (m = hand[w] /\ fate'[m].status = status))
  BY DEF Rewritten, Settled

\* A step of the plan: the smallest position left, and the last one if it fails
\* and stop_on_failure is set.
LEMMA RunsOrder ==
    ASSUME CooldownInv, OrderInv, NEW w \in Workers, NEW i \in Nat,
           NEW status \in StepStatuses, Runs(w, i, status)
    PROVE  OrderInv'
<1> DEFINE h == hand[w]
           new == [msg |-> h, index |-> i, status |-> status, at |-> now]
<1>1. /\ Only(w) /\ fate' = fate /\ hand'[w] = h /\ pc[w] \in {"executing", "calling"}
      /\ pc'[w] = "executing" /\ i \in todo[w] /\ IsNext(i, todo[w])
      /\ steps' = steps \cup {new}
      /\ todo'[w] = IF status = "failed" THEN AfterFailure(todo[w], i) ELSE todo[w] \ {i}
  BY DEF Runs, StepEnds
<1>2. new.msg = h /\ new.index = i /\ new.status = status
  OBVIOUS
<1> HIDE DEF new
<1>3. /\ h \in DOMAIN fate /\ fate[h].status = "in_hand" /\ InOrder(h)
      /\ fate[h].plan \subseteq Nat
  <2>1. h \in DOMAIN fate /\ fate[h].status = "in_hand"
    BY <1>1 DEF CooldownInv, InHandIsHeld
  <2>2. fate[h] \in Fate
    BY <2>1 DEF CooldownInv, TypeOK
  <2>3. QED
    BY <2>1, <2>2 DEF OrderInv, Fate
<1>4. /\ Ran(h)' = Ran(h) \cup {i}
      /\ FailedOf(h)' = IF status = "failed" THEN FailedOf(h) \cup {i} ELSE FailedOf(h)
      /\ \A m : m # h => Ran(m)' = Ran(m) /\ FailedOf(m)' = FailedOf(m)
  BY <1>1, <1>2 DEF Ran, FailedOf
<1>5. /\ todo[w] = fate[h].plan \ Ran(h)
      /\ StopOnFailure => FailedOf(h) = {}
  BY <1>1 DEF OrderInv, Split
<1>6. \A j \in Ran(h) : j \in Nat /\ j < i
  <2>1. ASSUME NEW j \in Ran(h)
        PROVE  j \in Nat /\ j < i
    <3>1. j \in fate[h].plan /\ j \in Nat /\ i \in fate[h].plan
      BY <1>1, <1>3, <1>5 DEF InOrder
    <3>2. i \notin Ran(h)
      BY <1>1, <1>5
    <3>3. ~(i < j)
      BY <1>3, <3>1, <3>2 DEF InOrder
    <3>4. QED
      BY <3>1, <3>2, <3>3
  <2>2. QED
    BY <2>1
<1>7. InOrder(h)'
  <2>1. Ran(h)' \subseteq fate[h].plan
    BY <1>1, <1>3, <1>4, <1>5 DEF InOrder
  <2>2. ASSUME NEW k \in Ran(h)', NEW j \in fate[h].plan, j < k
        PROVE  j \in Ran(h)'
    <3>1. CASE k \in Ran(h)
      BY <1>3, <1>4, <2>2, <3>1 DEF InOrder
    <3>2. CASE k = i
      BY <1>1, <1>3, <1>4, <1>5, <2>2, <3>2 DEF IsNext
    <3>3. QED
      BY <1>4, <3>1, <3>2
  <2>3. ASSUME StopOnFailure, NEW k \in FailedOf(h)', NEW j \in Ran(h)'
        PROVE  j <= k
    <3>1. k = i
      BY <1>4, <1>5, <2>3
    <3>2. QED
      BY <1>4, <1>6, <3>1
  <2>4. QED
    BY <1>1, <1>3, <2>1, <2>2, <2>3 DEF InOrder
<1>8. Split(w)'
  <2>1. CASE status = "failed" /\ StopOnFailure
    BY <1>1, <1>4, <2>1 DEF Split, AfterFailure
  <2>2. CASE status # "failed" \/ ~StopOnFailure
    <3>1. todo'[w] = todo[w] \ {i}
      BY <1>1, <2>2 DEF AfterFailure
    <3>2. todo'[w] = fate'[h].plan \ Ran(h)'
      BY <1>1, <1>4, <1>5, <3>1
    <3>3. StopOnFailure => FailedOf(h)' = {}
      BY <1>4, <1>5, <2>2
    <3>4. QED
      BY <1>1, <3>2, <3>3 DEF Split
  <2>3. QED
    BY <2>1, <2>2
<1>9. ASSUME NEW m \in DOMAIN fate'
      PROVE  InOrder(m)'
  <2>1. CASE m = h
    <3>1. m = hand'[w]
      BY <1>1, <2>1
    <3>2. QED
      BY <1>7, <3>1
  <2>2. CASE m # h
    <3>1. InOrder(m) /\ fate' = fate /\ Ran(m)' = Ran(m) /\ FailedOf(m)' = FailedOf(m)
      BY <1>1, <1>4, <1>9, <2>2 DEF OrderInv
    <3>2. QED
      BY <3>1 DEF InOrder
  <2>3. QED
    BY <2>1, <2>2
<1>10. ASSUME NEW v \in Workers, v # w, pc'[v] \in Handling
       PROVE  /\ pc'[v] = pc[v] /\ hand'[v] = hand[v] /\ hand[v] # h /\ todo'[v] = todo[v]
  <2>1. Still(v)
    BY <1>1, <1>10 DEF Only
  <2>2. QED
    BY <1>1, <1>10, <2>1, HandsDiffer DEF Still, Handling
<1>11. ASSUME NEW v \in Workers, pc'[v] \in {"decoding", "validating"}
       PROVE  Untouched(hand[v])'
  BY <1>1, <1>4, <1>10, <1>11 DEF OrderInv, Untouched, Handling
<1>12. ASSUME NEW v \in Workers, pc'[v] \in {"executing", "calling"}
       PROVE  Split(v)'
  <2>1. CASE v = w
    BY <1>8, <2>1
  <2>2. CASE v # w
    BY <1>1, <1>4, <1>10, <1>12, <2>2 DEF OrderInv, Split, Handling
  <2>3. QED
    BY <2>1, <2>2
<1>13. QED
  BY <1>9, <1>11, <1>12 DEF OrderInv

\* OrderInv is inductive.
LEMMA NextOrder ==
    ASSUME CooldownInv, OrderInv, [Next]_vars
    PROVE  OrderInv'
<1>0. \A m : steps' = steps => Ran(m)' = Ran(m) /\ FailedOf(m)' = FailedOf(m)
  BY DEF Ran, FailedOf
<1>1. CASE Rests
  <2>1. /\ UNCHANGED <<fate, steps, hand, todo>>
        /\ \A v \in Workers : pc'[v] = pc[v] \/ pc'[v] \in Away
    BY <1>1 DEF Rests
  <2>2. QED
    BY <1>0, <2>1 DEF OrderInv, InOrder, Untouched, Split, Away
<1>2. ASSUME NEW w \in Workers, Starts(w)
      PROVE  OrderInv'
  <2>1. /\ steps' = steps /\ fate' = fate /\ pc'[w] = "loop"
        /\ \A v \in Workers : v # w => Still(v)
    BY <1>2 DEF Starts, Only
  <2>2. QED
    BY <2>1, OrderKept
<1>3. ASSUME NEW w \in Workers, Leaves(w)
      PROVE  OrderInv'
  <2>1. /\ steps' = steps /\ pc'[w] = "down"
        /\ \A v \in Workers : v # w => Still(v)
        /\ fate' = fate \/ Rewritten(w, "crashed")
    BY <1>3 DEF Leaves, Only
  <2>2. /\ DOMAIN fate' = DOMAIN fate
        /\ \A m \in DOMAIN fate :
              /\ fate'[m].plan = fate[m].plan
              /\ fate'[m].status = "executed" => fate[m].status = "executed"
    BY <2>1, RewrittenPlan
  <2>3. QED
    BY <2>1, <2>2, OrderKept
<1>4. ASSUME NEW w \in Workers, Takes(w)
      PROVE  OrderInv'
  <2> DEFINE n == Len(fate) + 1
  <2>1. /\ steps' = steps /\ DOMAIN fate' = DOMAIN fate \cup {n} /\ n \notin DOMAIN fate
        /\ \A v \in Workers : v # w => Still(v)
        /\ \A m \in DOMAIN fate : fate'[m] = fate[m]
        /\ pc'[w] = "polling" \/ (pc'[w] = "decoding" /\ hand'[w] = n)
    BY <1>4 DEF Takes, Only
  <2>2. fate'[n].plan = {} /\ fate'[n].status # "executed"
    BY <1>4 DEF Takes, NewFate
  <2> HIDE DEF n
  <2>3. Ran(n) = {}
    BY <2>1, StepFacts DEF Ran
  <2>4. pc'[w] \in {"decoding", "validating"} => Untouched(hand[w])'
    BY <1>0, <2>1, <2>2, <2>3 DEF Untouched
  <2>5. QED
    BY <2>1, <2>2, <2>4, OrderKept
<1>5. ASSUME NEW w \in Workers, Plans(w)
      PROVE  OrderInv'
  <2>1. /\ steps' = steps /\ fate' = fate /\ pc'[w] = "validating" /\ hand' = hand
        /\ pc[w] \in {"decoding", "validating"}
        /\ \A v \in Workers : v # w => Still(v)
    BY <1>5 DEF Plans, Only
  <2>2. Untouched(hand[w])'
    BY <1>0, <2>1 DEF OrderInv, Untouched
  <2>3. QED
    BY <2>1, <2>2, OrderKept
<1>6. ASSUME NEW w \in Workers, Commits(w)
      PROVE  OrderInv'
  <2>1. /\ steps' = steps /\ pc[w] = "validating" /\ pc'[w] = "executing"
        /\ hand' = hand /\ todo' = todo /\ hand[w] \in DOMAIN fate
        /\ \A v \in Workers : v # w => Still(v)
        /\ DOMAIN fate' = DOMAIN fate /\ fate'[hand[w]].plan = todo[w]
        /\ \A m \in DOMAIN fate : /\ fate'[m].status = fate[m].status
                                  /\ m # hand[w] => fate'[m] = fate[m]
    BY <1>6 DEF Commits, Only
  <2>2. Ran(hand[w]) = {} /\ FailedOf(hand[w]) = {}
    BY <2>1 DEF OrderInv, Untouched, Ran, FailedOf
  <2>3. Split(w)'
    BY <1>0, <2>1, <2>2 DEF Split
  <2>4. QED
    BY <2>1, <2>2, <2>3, OrderKept DEF Handling
<1>7. ASSUME NEW w \in Workers, NEW status \in Statuses, Lets(w, status)
      PROVE  OrderInv'
  <2>1. /\ steps' = steps /\ pc'[w] \in Away /\ Rewritten(w, status)
        /\ \A v \in Workers : v # w => Still(v)
        /\ status = "executed" => pc[w] = "executing" /\ todo[w] = {}
    BY <1>7 DEF Lets, Only
  <2>2. status = "executed" =>
          Ran(hand[w]) = fate[hand[w]].plan \/ (StopOnFailure /\ FailedOf(hand[w]) # {})
    BY <2>1 DEF OrderInv, Split, InOrder, Rewritten
  <2>3. QED
    BY <2>1, <2>2, RewrittenPlan, OrderKept DEF Away
<1>8. ASSUME NEW w \in Workers, NEW i \in Nat, StartsCall(w, i)
      PROVE  OrderInv'
  <2>1. /\ steps' = steps /\ fate' = fate /\ hand' = hand /\ todo' = todo
        /\ pc[w] = "executing" /\ pc'[w] = "calling"
        /\ \A v \in Workers : v # w => Still(v)
    BY <1>8 DEF StartsCall, Only
  <2>2. Split(w)'
    BY <1>0, <2>1 DEF OrderInv, Split
  <2>3. QED
    BY <2>1, <2>2, OrderKept
<1>9. ASSUME NEW w \in Workers, NEW i \in Nat, NEW status \in StepStatuses, Runs(w, i, status)
      PROVE  OrderInv'
  BY <1>9, RunsOrder
<1>10. QED
  BY <1>1, <1>2, <1>3, <1>4, <1>5, <1>6, <1>7, <1>8, <1>9, StepShapes DEF Shapes

\* The steps of a message are the first of its plan, in order, a failure is the
\* last one under stop_on_failure, and "executed" means run to the end or to it.
THEOREM PlansRunInOrder == Spec => []RunsPlanInOrder
<1>1. Init => OrderInv
  BY DEF Init, OrderInv
<1>2. CooldownInv /\ OrderInv /\ [Next]_vars => OrderInv'
  BY NextOrder
<1>3. OrderInv => RunsPlanInOrder
  BY DEF OrderInv, InOrder, RunsPlanInOrder, Ran, FailedOf
<1>4. QED
  BY <1>1, <1>2, <1>3, CooldownInvariant, PTL DEF Spec

-----------------------------------------------------------------------------
(* What there is between two steps of one message.                         *)

\* A plan position is run once: there is one step for it.
StepsOnce ==
    \A s, t \in steps : s.msg = t.msg /\ s.index = t.index => s = t

\* What is to be run has not been run.
LEMMA WorkIsNew ==
    ASSUME CooldownInv, OrderInv, NEW w \in Workers, NEW i \in todo[w],
           pc[w] \in {"executing", "calling"}
    PROVE  i \notin Ran(hand[w])
  BY DEF OrderInv, Split

LEMMA NextOnce ==
    ASSUME CooldownInv, OrderInv, StepsOnce, [Next]_vars
    PROVE  StepsOnce'
<1>1. ASSUME NEW w \in Workers, NEW i \in Nat, NEW status \in StepStatuses, Runs(w, i, status)
      PROVE  StepsOnce'
  <2> DEFINE new == [msg |-> hand[w], index |-> i, status |-> status, at |-> now]
  <2>1. steps' = steps \cup {new}
    BY <1>1 DEF Runs, StepEnds
  <2>2. i \notin Ran(hand[w])
    BY <1>1, WorkIsNew DEF Runs
  <2>3. \A s \in steps : ~(s.msg = new.msg /\ s.index = new.index)
    BY <2>2 DEF Ran
  <2> HIDE DEF new
  <2>4. QED
    BY <2>1, <2>3 DEF StepsOnce
<1>2. steps' = steps \/ \E w \in Workers, i \in Nat, status \in StepStatuses : Runs(w, i, status)
  BY StepShapes DEF Shapes, Rests, Starts, Leaves, Takes, Lets, Plans, Commits, StartsCall
<1>3. QED
  BY <1>1, <1>2 DEF StepsOnce

\* No runbook names one action for one target twice.
KeysApart ==
    \A p \in Payloads : p.kind = "runbook" /\ ~PlanRaises(p) =>
        \A i, j \in BuildExecutionPlan(p) :
            i # j => CooldownKey(PlanSource(p)[i]) # CooldownKey(PlanSource(p)[j])

\* Two steps of one message have different cooldown keys then.
LEMMA StepsApart ==
    ASSUME KeysApart, CooldownInv, SafeInv, StepsOnce,
           NEW s1 \in steps, NEW s2 \in steps, s1 # s2, s1.msg = s2.msg
    PROVE  ~SameKey(s1, s2)
<1>1. s1.index # s2.index
  BY DEF StepsOnce
<1>2. IsSafe(s1) /\ IsSafe(s2) /\ sent \in Seq(Payloads)
  BY DEF SafeInv, CooldownInv, TypeOK
<1>3. sent[s1.msg] \in Payloads
  BY <1>2 DEF IsSafe
<1>4. QED
  BY <1>1, <1>2, <1>3 DEF IsSafe, KeysApart, SameKey, KeyOf, ActionOf

\* If no runbook names an action for a target twice, a process keeps the cooldown
\* between any two steps: the loophole that the run cooldown_in_plan shows, a
\* plan validated as a whole before any of it is recorded, is the only one.
THEOREM CooldownButWithinPlan ==
    ASSUME KeysApart PROVE Spec => []CooldownBetweenSteps
<1>1. Init => SafeInv /\ OrderInv /\ StepsOnce
  BY DEF Init, SafeInv, SafeWork, OrderInv, StepsOnce
<1>2. CooldownInv /\ SafeInv /\ OrderInv /\ StepsOnce /\ [Next]_vars
        => SafeInv' /\ OrderInv' /\ StepsOnce'
  BY NextSafe, NextOrder, NextOnce
<1>3. CooldownInv /\ SafeInv /\ StepsOnce => CooldownBetweenSteps
  <2> SUFFICES ASSUME CooldownInv, SafeInv, StepsOnce, NEW s1 \in steps, NEW s2 \in steps,
                      Took(s1), Took(s2), s1 # s2,
                      SameProcess(s1.msg, s2.msg), SameKey(s1, s2)
               PROVE  s2.at - s1.at >= CooldownSeconds \/ s1.at - s2.at >= CooldownSeconds
    BY DEF CooldownBetweenSteps
  <2>1. /\ s1.msg \in Nat /\ s1.at \in Nat /\ CooldownSeconds \in Nat
        /\ s2.msg \in Nat /\ s2.at \in Nat
    BY StepFacts
  <2>2. s1.msg # s2.msg
    BY StepsApart
  <2>3. CASE s1.msg < s2.msg
    <3>1. s2.at >= s1.at + CooldownSeconds
      BY <2>3 DEF CooldownInv, CooldownSpacing
    <3>2. QED
      BY <2>1, <3>1
  <2>4. CASE s2.msg < s1.msg
    <3>1. SameProcess(s2.msg, s1.msg) /\ SameKey(s2, s1)
      BY DEF SameProcess, SameKey
    <3>2. s1.at >= s2.at + CooldownSeconds
      BY <2>4, <3>1 DEF CooldownInv, CooldownSpacing
    <3>3. QED
      BY <2>1, <3>2
  <2>5. QED
    BY <2>1, <2>2, <2>3, <2>4
<1>4. QED
  BY <1>1, <1>2, <1>3, CooldownInvariant, PTL DEF Spec

-----------------------------------------------------------------------------
(* The tracker remembers nothing that did not happen.                      *)

\* Whatever the step, messages, steps and handlers stay what they were.
LEMMA HistoryGrows ==
    ASSUME CooldownInv, Shapes
    PROVE  /\ SentKept /\ steps \subseteq steps'
           /\ \A m \in DOMAIN fate : /\ m \in DOMAIN fate'
                                     /\ fate'[m].by = fate[m].by
                                     /\ fate'[m].life = fate[m].life
<1>1. CASE Rests
  BY <1>1 DEF Rests
<1>2. ASSUME NEW w \in Workers, Only(w)
      PROVE  SentKept
  BY <1>2 DEF Only, SentKept
<1>3. ASSUME NEW w \in Workers, NEW status, Rewritten(w, status)
      PROVE  \A m \in DOMAIN fate : /\ m \in DOMAIN fate'
                                    /\ fate'[m].by = fate[m].by
                                    /\ fate'[m].life = fate[m].life
  BY <1>3 DEF Rewritten, Settled
<1>4. ASSUME NEW w \in Workers,
             Starts(w) \/ Leaves(w) \/ Takes(w) \/ Plans(w) \/ Commits(w)
      PROVE  /\ Only(w) /\ steps \subseteq steps'
             /\ \A m \in DOMAIN fate : /\ m \in DOMAIN fate'
                                       /\ fate'[m].by = fate[m].by
                                       /\ fate'[m].life = fate[m].life
  BY <1>3, <1>4 DEF Starts, Leaves, Takes, Plans, Commits
<1>5. ASSUME NEW w \in Workers, NEW status \in Statuses, Lets(w, status)
      PROVE  /\ Only(w) /\ steps \subseteq steps'
             /\ \A m \in DOMAIN fate : /\ m \in DOMAIN fate'
                                       /\ fate'[m].by = fate[m].by
                                       /\ fate'[m].life = fate[m].life
  BY <1>3, <1>5 DEF Lets
<1>6. ASSUME NEW w \in Workers, NEW i \in Nat,
             StartsCall(w, i) \/ \E status \in StepStatuses : Runs(w, i, status)
      PROVE  Only(w) /\ steps \subseteq steps' /\ fate' = fate
  BY <1>6 DEF StartsCall, Runs, StepEnds
<1>7. QED
  BY <1>1, <1>2, <1>4, <1>5, <1>6 DEF Shapes

\* A step of this process on which an entry of its tracker rests.
Evidence(w, k) ==
    \E s \in steps : Took(s) /\ KeyOf(s) = k /\ Mine(w, s.msg) /\ s.at = lastRun[w][k]

TrackerInv ==
    \A w \in Workers, k \in CooldownKeys :
        lastRun[w][k] # Never => pc[w] # "down" /\ Evidence(w, k)

\* Evidence stays as long as the process does.
LEMMA EvidenceStays ==
    ASSUME CooldownInv, Shapes, NEW w \in Workers, NEW k \in CooldownKeys,
           Evidence(w, k), life'[w] = life[w], lastRun'[w][k] = lastRun[w][k]
    PROVE  Evidence(w, k)'
<1>1. PICK s \in steps : Took(s) /\ KeyOf(s) = k /\ Mine(w, s.msg) /\ s.at = lastRun[w][k]
  BY DEF Evidence
<1>2. s.msg \in DOMAIN fate /\ s.msg \in DOMAIN sent
  BY StepFacts
<1>3. sent'[s.msg] = sent[s.msg] /\ s \in steps'
  BY <1>2, HistoryGrows DEF SentKept
<1>4. KeyOf(s)' = k
  BY <1>1, <1>3, KeyStays
<1>5. Mine(w, s.msg)'
  BY <1>1, <1>2, HistoryGrows DEF Mine
<1>6. QED
  BY <1>1, <1>3, <1>4, <1>5 DEF Evidence, Took

\* TrackerInv is inductive.
LEMMA NextTracker ==
    ASSUME CooldownInv, TrackerInv, [Next]_vars
    PROVE  TrackerInv'
<1>0. Shapes
  BY StepShapes
<1>1. ASSUME NEW v \in Workers,
             life'[v] = life[v], lastRun'[v] = lastRun[v],
             pc[v] # "down" => pc'[v] # "down"
      PROVE  \A k \in CooldownKeys :
                lastRun'[v][k] # Never => pc'[v] # "down" /\ Evidence(v, k)'
  BY <1>0, <1>1, EvidenceStays DEF TrackerInv
<1>2. ASSUME NEW w \in Workers, Only(w),
             \A k \in CooldownKeys :
                lastRun'[w][k] # Never => pc'[w] # "down" /\ Evidence(w, k)'
      PROVE  TrackerInv'
  BY <1>1, <1>2 DEF Only, Still, TrackerInv
<1>3. CASE Rests
  <2>1. \A v \in Workers : /\ life'[v] = life[v] /\ lastRun'[v] = lastRun[v]
                           /\ pc[v] # "down" => pc'[v] # "down"
    BY <1>3 DEF Rests, Away
  <2>2. QED
    BY <1>1, <2>1 DEF TrackerInv
<1>4. ASSUME NEW w \in Workers, Starts(w)
      PROVE  TrackerInv'
  <2>1. Only(w) /\ pc[w] = "down" /\ lastRun'[w] = lastRun[w]
    BY <1>4 DEF Starts
  <2>2. \A k \in CooldownKeys : lastRun'[w][k] = Never
    BY <2>1 DEF TrackerInv
  <2>3. QED
    BY <1>2, <2>1, <2>2
<1>5. ASSUME NEW w \in Workers, Leaves(w)
      PROVE  TrackerInv'
  <2>1. Only(w) /\ \A k \in CooldownKeys : lastRun'[w][k] = Never
    BY <1>5 DEF Leaves
  <2>2. QED
    BY <1>2, <2>1
<1>6. ASSUME NEW w \in Workers, Only(w), life' = life, lastRun' = lastRun, pc'[w] # "down"
      PROVE  TrackerInv'
  BY <1>1, <1>2, <1>6
<1>7. ASSUME NEW w \in Workers, Takes(w) \/ Plans(w) \/ Commits(w)
      PROVE  TrackerInv'
  BY <1>6, <1>7 DEF Takes, Plans, Commits
<1>8. ASSUME NEW w \in Workers, NEW status \in Statuses, Lets(w, status)
      PROVE  TrackerInv'
  BY <1>6, <1>8 DEF Lets, Away
<1>9. ASSUME NEW w \in Workers, NEW i \in Nat, StartsCall(w, i)
      PROVE  TrackerInv'
  BY <1>6, <1>9 DEF StartsCall
<1>10. ASSUME NEW w \in Workers, NEW i \in Nat, NEW status \in StepStatuses, Runs(w, i, status)
       PROVE  TrackerInv'
  <2> DEFINE key == CooldownKey(ActionOf(hand[w], i))
  <2>1. /\ Only(w) /\ fate' = fate /\ life' = life /\ pc[w] \in Planning /\ pc'[w] = "executing"
        /\ i \in todo[w] /\ sent' = sent
        /\ lastRun'[w] = IF status = "failed" THEN lastRun[w] ELSE Record(lastRun[w], key, now)
    BY <1>10 DEF Runs, Only, Planning
  <2>2. PICK new \in steps' :
           new.msg = hand[w] /\ new.index = i /\ new.status = status /\ new.at = now
    <3> DEFINE r == [msg |-> hand[w], index |-> i, status |-> status, at |-> now]
    <3>1. r \in steps'
      BY <1>10 DEF Runs, StepEnds
    <3>2. r.msg = hand[w] /\ r.index = i /\ r.status = status /\ r.at = now
      OBVIOUS
    <3> HIDE DEF r
    <3>3. QED
      BY <3>1, <3>2
  <2>3. TypedInv /\ lastRun[w] \in [CooldownKeys -> Timestamp]
    BY DEF CooldownInv, TypedInv, TypeOK
  <2>4. key \in CooldownKeys
    BY <2>1, <2>3, WorkIsAction
  <2>5. KeyOf(new)' = key /\ Mine(w, new.msg)'
    <3>1. Mine(w, hand[w])
      BY <2>1, HandTaken DEF CooldownInv, InHandIsHeld, Mine, Planning
    <3>2. ActionOf(new.msg, new.index)' = ActionOf(hand[w], i)
      BY <2>1, <2>2 DEF ActionOf
    <3>3. KeyOf(new)' = key
      BY <3>2 DEF KeyOf
    <3>4. Mine(w, new.msg)'
      BY <2>1, <2>2, <3>1 DEF Mine
    <3>5. QED
      BY <3>3, <3>4
  <2>6. ASSUME NEW k \in CooldownKeys, lastRun'[w][k] # Never
        PROVE  Evidence(w, k)'
    <3>1. CASE status = "failed" \/ k # key
      <4>1. lastRun'[w][k] = lastRun[w][k]
        BY <2>1, <2>3, <2>4, <3>1 DEF Record
      <4>2. QED
        BY <1>0, <2>1, <2>6, <4>1, EvidenceStays DEF TrackerInv
    <3>2. CASE status # "failed" /\ k = key
      <4>1. lastRun'[w][k] = new.at
        BY <2>1, <2>2, <2>3, <2>4, <3>2 DEF Record
      <4>2. Took(new)'
        BY <2>2, <3>2 DEF Took, StepStatuses
      <4>3. QED
        BY <2>5, <3>2, <4>1, <4>2 DEF Evidence
    <3>3. QED
      BY <3>1, <3>2
  <2>7. QED
    BY <1>2, <2>1, <2>6
<1>11. QED
  BY <1>0, <1>3, <1>4, <1>5, <1>7, <1>8, <1>9, <1>10 DEF Shapes

\* The tracker holds exactly the time of the last success or dry run of each
\* action in this process: failures, crashes and restarts leave no cooldown.
THEOREM TrackerIsExact == Spec => []LastRunIsLastSuccess
<1>1. Init => TrackerInv
  BY DEF Init, TrackerInv
<1>2. CooldownInv /\ TrackerInv /\ [Next]_vars => TrackerInv'
  BY NextTracker
<1>3. CooldownInv /\ TrackerInv => LastRunIsLastSuccess
  <2> SUFFICES ASSUME CooldownInv, TrackerInv, NEW w \in Workers, NEW k \in CooldownKeys
               PROVE  LET times == {s.at : s \in {x \in steps : /\ Took(x) /\ KeyOf(x) = k
                                                                 /\ fate[x.msg].by = w
                                                                 /\ fate[x.msg].life = life[w]
                                                                 /\ pc[w] # "down"}}
                      IN IF times = {} THEN lastRun[w][k] = Never
                         ELSE lastRun[w][k] \in times /\ \A t \in times : t <= lastRun[w][k]
    BY DEF LastRunIsLastSuccess
  <2> DEFINE times == {s.at : s \in {x \in steps : /\ Took(x) /\ KeyOf(x) = k
                                                   /\ fate[x.msg].by = w
                                                   /\ fate[x.msg].life = life[w]
                                                   /\ pc[w] # "down"}}
  <2>1. lastRun[w][k] # Never => lastRun[w][k] \in times
    BY DEF TrackerInv, Evidence, Mine
  <2>2. \A t \in times : t \in Nat /\ t <= lastRun[w][k]
    <3>1. ASSUME NEW s \in steps, Took(s), KeyOf(s) = k, Mine(w, s.msg), pc[w] # "down"
          PROVE  s.at \in Nat /\ s.at <= lastRun[w][k]
      BY <3>1, StepFacts DEF CooldownInv, TrackerRemembers
    <3>2. QED
      BY <3>1 DEF Mine
  <2>3. times # {} => lastRun[w][k] # Never
    BY <2>2 DEF Never
  <2>4. QED
    BY <2>1, <2>2, <2>3
<1>4. QED
  BY <1>1, <1>2, <1>3, CooldownInvariant, PTL DEF Spec

-----------------------------------------------------------------------------
(* Duplicates.                                                             *)

\* Every runbook handled is known to the deduplicator of the process that did
\* until its time is over.
MarkedIsSeen ==
    \A w \in Workers : \A m \in DOMAIN fate :
        /\ pc[w] # "down" /\ Mine(w, m) /\ fate[m].status \in Marked
        => \/ seen[w][sent[m].id] >= fate[m].at + RunbookDedupTTL
           \/ now >= fate[m].at + RunbookDedupTTL

\* What is planned is no duplicate, and does not become one.
PlannedIsFresh ==
    \A w \in Workers : \A m \in DOMAIN fate :
        /\ pc[w] \in Planning /\ Mine(w, m)
        /\ fate[m].status \in Marked /\ sent[m].id = sent[hand[w]].id
        => now >= fate[m].at + RunbookDedupTTL

MarksArePast ==
    \A m \in DOMAIN fate :
        /\ fate[m].at <= now
        /\ fate[m].status \in Marked => sent[m].kind = "runbook"

DedupInv ==
    /\ MarksArePast /\ MarkedIsSeen /\ PlannedIsFresh
    /\ DedupSpacing /\ HandledOnce

\* The id of a runbook is one the deduplicator can hold.
LEMMA IdKnown ==
    ASSUME CooldownInv, NEW m \in DOMAIN sent, sent[m].kind = "runbook"
    PROVE  sent[m].id \in RunbookIds
<1>1. sent[m] \in Payloads
  BY DEF CooldownInv, TypeOK
<1>2. sent[m] \in Runbook
  BY <1>1, WorkerAssumption DEF Payload, Malformed
<1>3. QED
  BY <1>2 DEF Runbook

\* A worker settles a runbook and tells its deduplicator in the same step.
Marks(w, m) ==
    /\ pc[w] \in Planning \/ IsNew(w)
    /\ pc[w] \in Handling /\ pc'[w] \in Away /\ hand[w] = m /\ Mine(w, m)
    /\ fate'[m].at = now /\ now' = now /\ life' = life /\ steps' = steps
    /\ sent[m].kind = "runbook" /\ seen'[w][sent[m].id] = now + RunbookDedupTTL

\* What Lets does to the deduplicator and the record.
LEMMA LetsMarks ==
    ASSUME CooldownInv, NEW w \in Workers, NEW status \in Statuses, Lets(w, status)
    PROVE  /\ \A id \in RunbookIds : \/ seen'[w][id] = seen[w][id]
                                     \/ now >= seen[w][id]
                                     \/ seen'[w][id] = now + RunbookDedupTTL
           /\ \A m \in DOMAIN fate' :
                 /\ m \in DOMAIN fate /\ (fate'[m] = fate[m] \/ fate'[m].at = now)
                 /\ fate'[m].status \in Marked => fate'[m] = fate[m] \/ Marks(w, m)
<1>1. /\ Rewritten(w, status) /\ Only(w) /\ pc[w] \in Handling /\ pc'[w] \in Away
      /\ UNCHANGED <<steps, life>>
      /\ IF status \in Marked
         THEN /\ sent[hand[w]].kind = "runbook" /\ (pc[w] = "decoding" => IsNew(w))
              /\ \E s \in {seen[w], Fresh(w)} :
                    seen'[w] = MarkProcessed(s, sent[hand[w]].id, now)
         ELSE seen'[w] \in {seen[w], Fresh(w)}
  BY DEF Lets
<1>2. hand[w] \in DOMAIN fate /\ hand[w] \in DOMAIN sent /\ Mine(w, hand[w])
  BY <1>1, HandTaken DEF CooldownInv, TypedInv, InHandIsHeld, Handling, Mine
<1>3. seen[w] \in [RunbookIds -> Timestamp]
  BY DEF CooldownInv, TypeOK
<1>4. /\ Fresh(w) \in [RunbookIds -> Timestamp]
      /\ \A id \in RunbookIds : Fresh(w)[id] = seen[w][id] \/ now >= seen[w][id]
  BY <1>3 DEF Fresh, EvictExpired, Timestamp
<1>5. CASE status \in Marked
  <2>1. PICK s \in {seen[w], Fresh(w)} : seen'[w] = MarkProcessed(s, sent[hand[w]].id, now)
    BY <1>1, <1>5
  <2>2. sent[hand[w]].id \in RunbookIds
    BY <1>1, <1>2, <1>5, IdKnown
  <2>3. \A id \in RunbookIds :
          seen'[w][id] = IF id = sent[hand[w]].id THEN now + RunbookDedupTTL ELSE s[id]
    BY <1>3, <1>4, <2>1 DEF MarkProcessed
  <2>4. \A id \in RunbookIds : s[id] = seen[w][id] \/ now >= seen[w][id]
    BY <1>4, <2>1
  <2>5. ASSUME NEW m \in DOMAIN fate'
        PROVE  m \in DOMAIN fate /\ (fate'[m] = fate[m] \/ (fate'[m].at = now /\ Marks(w, m)))
    <3>1. m \in DOMAIN fate /\ (m # hand[w] => fate'[m] = fate[m])
      BY <1>1, <2>5 DEF Rewritten
    <3>2. fate'[hand[w]].at = now
      BY <1>1 DEF Rewritten, Settled
    <3>3. pc[w] \in Planning \/ IsNew(w)
      BY <1>1, <1>5 DEF Handling, Planning
    <3>4. m = hand[w] => Marks(w, m)
      BY <1>1, <1>2, <1>5, <2>2, <2>3, <3>2, <3>3 DEF Marks, Only
    <3>5. QED
      BY <3>1, <3>2, <3>4
  <2>6. QED
    BY <2>3, <2>4, <2>5
<1>6. CASE status \notin Marked
  <2>1. \A id \in RunbookIds : seen'[w][id] = seen[w][id] \/ now >= seen[w][id]
    BY <1>1, <1>4, <1>6
  <2>2. ASSUME NEW m \in DOMAIN fate'
        PROVE  /\ m \in DOMAIN fate /\ (fate'[m] = fate[m] \/ fate'[m].at = now)
               /\ fate'[m].status \in Marked => fate'[m] = fate[m]
    BY <1>1, <1>6, <2>2 DEF Rewritten, Settled
  <2>3. QED
    BY <2>1, <2>2
<1>7. QED
  BY <1>5, <1>6

\* What a worker holds on to while it is not down.
Remembers(v) ==
    /\ pc[v] # "down" /\ life'[v] = life[v]
    /\ \A id \in RunbookIds : \/ seen'[v][id] = seen[v][id]
                              \/ now >= seen[v][id]
                              \/ seen'[v][id] = now + RunbookDedupTTL

\* A deduplicator loses nothing before its time but with its process.
LEMMA SeenStays ==
    ASSUME CooldownInv, Shapes, NEW v \in Workers, pc'[v] # "down"
    PROVE  Starts(v) \/ Remembers(v)
<1>1. CASE Rests
  BY <1>1 DEF Rests, Remembers, Away
<1>2. ASSUME NEW w \in Workers, Only(w), Starts(w) \/ Remembers(w) \/ pc'[w] = "down"
      PROVE  Starts(v) \/ Remembers(v)
  BY <1>2 DEF Only, Still, Remembers
<1>3. ASSUME NEW w \in Workers, Starts(w) \/ Leaves(w)
      PROVE  Starts(v) \/ Remembers(v)
  BY <1>2, <1>3 DEF Starts, Leaves
<1>4. ASSUME NEW w \in Workers, Takes(w) \/ Commits(w)
      PROVE  Starts(v) \/ Remembers(v)
  BY <1>2, <1>4 DEF Takes, Commits, Remembers
<1>5. ASSUME NEW w \in Workers, Plans(w)
      PROVE  Starts(v) \/ Remembers(v)
  <2>1. seen[w] \in [RunbookIds -> Timestamp]
    BY DEF CooldownInv, TypeOK
  <2>2. \A id \in RunbookIds : Fresh(w)[id] = seen[w][id] \/ now >= seen[w][id]
    BY <2>1 DEF Fresh, EvictExpired, Timestamp
  <2>3. Only(w) /\ Remembers(w)
    BY <1>5, <2>2 DEF Plans, Remembers
  <2>4. QED
    BY <1>2, <2>3
<1>6. ASSUME NEW w \in Workers, NEW status \in Statuses, Lets(w, status)
      PROVE  Starts(v) \/ Remembers(v)
  <2>1. Only(w) /\ pc[w] # "down" /\ life'[w] = life[w]
    BY <1>6 DEF Lets, Handling
  <2>2. Remembers(w)
    BY <1>6, <2>1, LetsMarks DEF Remembers
  <2>3. QED
    BY <1>2, <2>1, <2>2
<1>7. ASSUME NEW w \in Workers, NEW i \in Nat,
             StartsCall(w, i) \/ \E status \in StepStatuses : Runs(w, i, status)
      PROVE  Starts(v) \/ Remembers(v)
  BY <1>2, <1>7 DEF StartsCall, Runs, Remembers
<1>8. QED
  BY <1>1, <1>3, <1>4, <1>5, <1>6, <1>7 DEF Shapes

\* A record becomes one of a handled runbook only as its worker marks it.
LEMMA RecordsStay ==
    ASSUME CooldownInv, MarksArePast, Shapes, NEW m \in DOMAIN fate'
    PROVE  /\ fate'[m].at <= now'
           /\ fate'[m].status \in Marked =>
                 /\ m \in DOMAIN fate
                 /\ \/ fate'[m].status = fate[m].status /\ fate'[m].at = fate[m].at
                    \/ \E w \in Workers : Marks(w, m)
<1>0. now \in Nat /\ \A n \in DOMAIN fate : fate[n].at \in Nat /\ fate[n].at <= now
  <2>1. \A n \in DOMAIN fate : fate[n] \in Fate
    BY DEF CooldownInv, TypeOK
  <2>2. \A n \in DOMAIN fate : fate[n].at \in Nat
    BY <2>1 DEF Fate
  <2>3. QED
    BY <2>2 DEF CooldownInv, TypeOK, MarksArePast
<1>1. CASE UNCHANGED fate /\ now <= now' /\ now' \in Nat
  BY <1>0, <1>1
<1>2. CASE Rests
  BY <1>1, <1>2 DEF Rests
<1>3. ASSUME NEW w \in Workers, Starts(w) \/ Plans(w)
      PROVE  UNCHANGED fate /\ now <= now' /\ now' \in Nat
  BY <1>0, <1>3 DEF Starts, Plans, Only
<1>4. ASSUME NEW w \in Workers, NEW i \in Nat,
             StartsCall(w, i) \/ \E status \in StepStatuses : Runs(w, i, status)
      PROVE  UNCHANGED fate /\ now <= now' /\ now' \in Nat
  <2>1. UNCHANGED fate /\ now' = now
    BY <1>4 DEF StartsCall, Runs, Only
  <2>2. QED
    BY <1>0, <2>1
<1>5. ASSUME NEW w \in Workers, Leaves(w), ~UNCHANGED fate
      PROVE  /\ fate'[m].at <= now'
             /\ fate'[m].status \in Marked => m \in DOMAIN fate /\ fate'[m] = fate[m]
  <2>1. Rewritten(w, "crashed") /\ now' = now
    BY <1>5 DEF Leaves, Only
  <2>2. QED
    BY <1>0, <2>1 DEF Rewritten, Settled, Marked
<1>6. ASSUME NEW w \in Workers, Leaves(w), UNCHANGED fate
      PROVE  UNCHANGED fate /\ now <= now' /\ now' \in Nat
  BY <1>0, <1>6 DEF Leaves, Only
<1>7. ASSUME NEW w \in Workers, Takes(w)
      PROVE  /\ fate'[m].at <= now'
             /\ fate'[m].status \in Marked => m \in DOMAIN fate /\ fate'[m] = fate[m]
  <2>1. now' = now
    BY <1>7 DEF Takes, Only
  <2>2. CASE m \in DOMAIN fate
    BY <1>0, <1>7, <2>1, <2>2 DEF Takes
  <2>3. CASE m = Len(fate) + 1
    BY <1>0, <1>7, <2>1, <2>3 DEF Takes, NewFate, Marked
  <2>4. QED
    BY <1>7, <2>2, <2>3 DEF Takes
<1>8. ASSUME NEW w \in Workers, Commits(w)
      PROVE  /\ fate'[m].at <= now' /\ m \in DOMAIN fate
             /\ fate'[m].status = fate[m].status /\ fate'[m].at = fate[m].at
  BY <1>0, <1>8 DEF Commits, Only
<1>9. ASSUME NEW w \in Workers, NEW status \in Statuses, Lets(w, status)
      PROVE  /\ fate'[m].at <= now' /\ m \in DOMAIN fate
             /\ fate'[m].status \in Marked => fate'[m] = fate[m] \/ Marks(w, m)
  <2>1. now' = now
    BY <1>9 DEF Lets, Only
  <2>2. /\ m \in DOMAIN fate /\ (fate'[m] = fate[m] \/ fate'[m].at = now)
        /\ fate'[m].status \in Marked => fate'[m] = fate[m] \/ Marks(w, m)
    BY <1>9, LetsMarks
  <2>3. QED
    BY <1>0, <2>1, <2>2
<1>10. QED
  BY <1>1, <1>2, <1>3, <1>4, <1>5, <1>6, <1>7, <1>8, <1>9 DEF Shapes

\* A plan is made of the message in hand, which was no duplicate.
LEMMA PlanStays ==
    ASSUME CooldownInv, Shapes, NEW v \in Workers, pc'[v] \in Planning
    PROVE  /\ pc[v] \in Handling /\ hand'[v] = hand[v] /\ life'[v] = life[v]
           /\ pc[v] \in Planning \/ IsNew(v)
<1>1. CASE Rests
  BY <1>1 DEF Rests, Away, Planning, Handling
<1>2. ASSUME NEW w \in Workers, Only(w), v # w
      PROVE  pc[v] \in Planning /\ hand'[v] = hand[v] /\ life'[v] = life[v]
  BY <1>2 DEF Only, Still
<1>3. ASSUME NEW w \in Workers, Starts(w) \/ Leaves(w) \/ Takes(w)
      PROVE  Only(w) /\ v # w
  BY <1>3 DEF Starts, Leaves, Takes, Planning
<1>4. ASSUME NEW w \in Workers, NEW status \in Statuses, Lets(w, status)
      PROVE  Only(w) /\ v # w
  BY <1>4 DEF Lets, Away, Planning
<1>5. ASSUME NEW w \in Workers, Plans(w) \/ Commits(w)
      PROVE  /\ Only(w) /\ hand'[w] = hand[w] /\ life'[w] = life[w]
             /\ pc[w] \in Handling /\ (pc[w] \in Planning \/ IsNew(w))
  BY <1>5 DEF Plans, Commits, Planning, Handling
<1>6. ASSUME NEW w \in Workers, NEW i \in Nat,
             StartsCall(w, i) \/ \E status \in StepStatuses : Runs(w, i, status)
      PROVE  /\ Only(w) /\ hand'[w] = hand[w] /\ life'[w] = life[w]
             /\ pc[w] \in Handling /\ pc[w] \in Planning
  BY <1>6 DEF StartsCall, Runs, Planning, Handling
<1>7. QED
  BY <1>1, <1>2, <1>3, <1>4, <1>5, <1>6 DEF Shapes, Planning, Handling

\* A new step is one of the message in hand, at this time.
LEMMA NewSteps ==
    ASSUME CooldownInv, Shapes, NEW s \in steps', s \notin steps
    PROVE  /\ UNCHANGED fate /\ SentKept
           /\ \E w \in Workers : pc[w] \in Planning /\ s.msg = hand[w] /\ s.at = now
<1>1. ASSUME NEW w \in Workers, NEW i \in Nat, NEW status \in StepStatuses, Runs(w, i, status)
      PROVE  UNCHANGED fate /\ pc[w] \in Planning /\ s.msg = hand[w] /\ s.at = now
  BY <1>1 DEF Runs, StepEnds, Planning
<1>2. steps' = steps \/ \E w \in Workers, i \in Nat, status \in StepStatuses : Runs(w, i, status)
  BY DEF Shapes, Rests, Starts, Leaves, Takes, Lets, Plans, Commits, StartsCall
<1>3. QED
  BY <1>1, <1>2, HistoryGrows

\* What the deduplicator lets pass is no duplicate of a runbook handled.
LEMMA NewIsFresh ==
    ASSUME CooldownInv, MarksArePast, MarkedIsSeen, NEW w \in Workers, IsNew(w),
           NEW m \in DOMAIN fate, Mine(w, m), fate[m].status \in Marked,
           sent[m].id = sent[hand[w]].id
    PROVE  now >= fate[m].at + RunbookDedupTTL
<1> DEFINE id == sent[m].id
<1>1. /\ now \in Nat /\ RunbookDedupTTL \in Nat
      /\ fate[m] \in Fate /\ m \in DOMAIN sent
      /\ seen[w] \in [RunbookIds -> Timestamp]
  BY TrackerAssumption DEF CooldownInv, TypeOK
<1>2. fate[m].at \in Nat
  BY <1>1 DEF Fate
<1>3. id \in RunbookIds
  BY <1>1, IdKnown DEF MarksArePast
<1>4. pc[w] # "down"
  BY DEF IsNew, Decodes
<1>5. now >= seen[w][id]
  BY <1>1, <1>3 DEF IsNew, IsDuplicate, EvictExpired, Timestamp, Never
<1>6. seen[w][id] >= fate[m].at + RunbookDedupTTL \/ now >= fate[m].at + RunbookDedupTTL
  BY <1>4 DEF MarkedIsSeen
<1>7. seen[w][id] \in Int
  BY <1>1, <1>3 DEF Timestamp, Never
<1> HIDE DEF id
<1>8. QED
  BY <1>1, <1>2, <1>5, <1>6, <1>7

\* DedupInv is inductive.
LEMMA NextDedup ==
    ASSUME CooldownInv, DedupInv, [Next]_vars
    PROVE  DedupInv'
<1>0. /\ Shapes /\ SentKept /\ MarksArePast /\ MarkedIsSeen /\ PlannedIsFresh
      /\ DedupSpacing /\ HandledOnce
      /\ DOMAIN fate \subseteq DOMAIN sent
  BY StepShapes, HistoryGrows DEF DedupInv, CooldownInv, TypeOK
<1>1. ASSUME NEW m \in DOMAIN fate
      PROVE  /\ m \in DOMAIN fate' /\ fate'[m].by = fate[m].by /\ fate'[m].life = fate[m].life
             /\ m \in DOMAIN sent /\ sent'[m] = sent[m] /\ m \in Nat
             /\ fate[m].at \in Nat /\ fate[m].life \in Nat /\ fate[m].by \in Workers
  <2>1. fate[m] \in Fate /\ m \in Nat
    BY DEF CooldownInv, TypeOK
  <2>2. m \in DOMAIN fate' /\ fate'[m].by = fate[m].by /\ fate'[m].life = fate[m].life
    BY <1>0, HistoryGrows
  <2>3. m \in DOMAIN sent /\ sent'[m] = sent[m]
    BY <1>0 DEF SentKept
  <2>4. QED
    BY <2>1, <2>2, <2>3 DEF Fate
<1>2. /\ now \in Nat /\ RunbookDedupTTL \in Nat /\ now' \in Nat /\ now <= now'
      /\ life \in [Workers -> Nat] /\ hand \in [Workers -> Nat]
  <2>1. now \in Nat /\ life \in [Workers -> Nat] /\ hand \in [Workers -> Nat]
    BY DEF CooldownInv, TypeOK
  <2>2. now' = now \/ (now' \in Nat /\ now <= now')
    <3>1. CASE Rests
      BY <3>1 DEF Rests
    <3>2. CASE \E w \in Workers : Only(w)
      BY <3>2 DEF Only
    <3>3. ASSUME NEW w \in Workers,
                 Starts(w) \/ Leaves(w) \/ Takes(w) \/ Plans(w) \/ Commits(w)
          PROVE  Only(w)
      BY <3>3 DEF Starts, Leaves, Takes, Plans, Commits
    <3>4. ASSUME NEW w \in Workers, NEW status \in Statuses, Lets(w, status)
          PROVE  Only(w)
      BY <3>4 DEF Lets
    <3>5. ASSUME NEW w \in Workers, NEW i \in Nat,
                 StartsCall(w, i) \/ \E status \in StepStatuses : Runs(w, i, status)
          PROVE  Only(w)
      BY <3>5 DEF StartsCall, Runs
    <3>6. QED
      BY <1>0, <3>1, <3>2, <3>3, <3>4, <3>5 DEF Shapes
  <2>3. QED
    BY <2>1, <2>2, TrackerAssumption
<1>3. ASSUME NEW m \in DOMAIN fate', fate'[m].status \in Marked
      PROVE  /\ m \in DOMAIN fate
             /\ \/ fate[m].status \in Marked /\ fate'[m].at = fate[m].at
                \/ \E w \in Workers : Marks(w, m)
  BY <1>0, <1>3, RecordsStay
<1>4. MarksArePast'
  <2>1. ASSUME NEW m \in DOMAIN fate'
        PROVE  /\ fate'[m].at <= now'
               /\ fate'[m].status \in Marked => sent'[m].kind = "runbook"
    <3>1. fate'[m].at <= now'
      BY <1>0, RecordsStay
    <3>2. ASSUME fate'[m].status \in Marked
          PROVE  sent'[m].kind = "runbook"
      <4>1. sent[m].kind = "runbook" /\ m \in DOMAIN fate
        BY <1>0, <1>3, <3>2 DEF MarksArePast, Marks
      <4>2. QED
        BY <1>1, <4>1
    <3>3. QED
      BY <3>1, <3>2
  <2>2. QED
    BY <2>1 DEF MarksArePast
<1>5. ASSUME NEW w \in Workers, NEW m \in DOMAIN fate',
             pc'[w] # "down", Mine(w, m)', fate'[m].status \in Marked
      PROVE  \/ seen'[w][sent'[m].id] >= fate'[m].at + RunbookDedupTTL
             \/ now' >= fate'[m].at + RunbookDedupTTL
  <2>1. m \in DOMAIN fate /\ fate[m].by = w /\ fate[m].life = life'[w] /\ sent'[m] = sent[m]
    BY <1>1, <1>3, <1>5 DEF Mine
  <2>2. ~Starts(w)
    <3>1. Starts(w) => life'[w] = life[w] + 1
      BY DEF Starts
    <3>2. fate[m].life <= life[w] /\ life[w] \in Nat
      BY <1>2, <2>1 DEF CooldownInv, HistoryIsPast
    <3>3. QED
      BY <2>1, <3>1, <3>2
  <2>3. Remembers(w)
    BY <1>0, <1>5, <2>2, SeenStays
  <2>4. Mine(w, m)
    BY <2>1, <2>3 DEF Mine, Remembers
  <2>5. CASE fate[m].status \in Marked /\ fate'[m].at = fate[m].at
    <3> DEFINE id == sent[m].id
    <3>1. seen[w][id] >= fate[m].at + RunbookDedupTTL \/ now >= fate[m].at + RunbookDedupTTL
      BY <1>0, <2>1, <2>3, <2>4, <2>5 DEF MarkedIsSeen, Remembers
    <3>2. id \in RunbookIds
      BY <1>0, <1>1, <2>1, <2>5, IdKnown DEF MarksArePast
    <3>3. \/ seen'[w][id] = seen[w][id] \/ now >= seen[w][id]
          \/ seen'[w][id] = now + RunbookDedupTTL
      BY <2>3, <3>2 DEF Remembers
    <3>4. seen[w][id] \in Int /\ fate[m].at <= now
      BY <1>0, <2>1, <3>2 DEF CooldownInv, TypeOK, Timestamp, Never, MarksArePast
    <3> HIDE DEF id
    <3>5. seen'[w][id] >= fate[m].at + RunbookDedupTTL \/ now >= fate[m].at + RunbookDedupTTL
      BY <1>1, <1>2, <2>1, <3>1, <3>3, <3>4
    <3>6. QED
      BY <1>1, <1>2, <2>1, <2>5, <3>5 DEF id
  <2>6. ASSUME NEW u \in Workers, Marks(u, m)
        PROVE  seen'[w][sent'[m].id] >= fate'[m].at + RunbookDedupTTL
    <3>1. u = w
      BY <2>1, <2>6 DEF Marks, Mine
    <3>2. seen'[w][sent'[m].id] = now + RunbookDedupTTL /\ fate'[m].at = now
      BY <2>1, <2>6, <3>1 DEF Marks
    <3>3. QED
      BY <1>2, <3>2
  <2>7. QED
    BY <1>3, <1>5, <2>5, <2>6
<1>6. ASSUME NEW w \in Workers, NEW m \in DOMAIN fate', pc'[w] \in Planning, Mine(w, m)',
             fate'[m].status \in Marked, sent'[m].id = sent'[hand'[w]].id
      PROVE  now' >= fate'[m].at + RunbookDedupTTL
  <2>1. /\ pc[w] \in Handling /\ hand'[w] = hand[w] /\ life'[w] = life[w]
        /\ pc[w] \in Planning \/ IsNew(w)
    BY <1>0, <1>6, PlanStays
  <2>2. m \in DOMAIN fate /\ Mine(w, m)
    BY <1>1, <1>3, <1>6, <2>1 DEF Mine
  <2>3. hand[w] \in DOMAIN fate
    BY <2>1, HandTaken DEF CooldownInv, TypedInv, Handling
  <2>4. sent[m].id = sent[hand[w]].id
    BY <1>1, <1>6, <2>1, <2>2, <2>3
  <2>5. ~\E u \in Workers : Marks(u, m)
    BY <1>6, <2>2 DEF Marks, Mine, Away, Planning
  <2>6. fate[m].status \in Marked /\ fate'[m].at = fate[m].at
    BY <1>3, <1>6, <2>5
  <2>7. CASE pc[w] \in Planning
    BY <1>0, <1>1, <1>2, <2>2, <2>4, <2>6, <2>7 DEF PlannedIsFresh
  <2>8. CASE IsNew(w)
    <3>1. now >= fate[m].at + RunbookDedupTTL
      BY <1>0, <2>2, <2>4, <2>6, <2>8, NewIsFresh
    <3>2. QED
      BY <1>1, <1>2, <2>2, <2>6, <3>1
  <2>9. QED
    BY <2>1, <2>7, <2>8
<1>7. ASSUME NEW s \in steps', NEW m \in 1..(s.msg - 1),
             SameProcess(m, s.msg)', fate'[m].status \in Marked,
             sent'[m].id = sent'[s.msg].id
      PROVE  s.at >= fate'[m].at + RunbookDedupTTL
  <2>1. CASE s \in steps
    <3>1. s.msg \in DOMAIN fate /\ s.msg \in Nat
      BY <2>1, StepFacts
    <3>2. m \in DOMAIN fate
      BY <1>7, <3>1 DEF CooldownInv, TypeOK
    <3>3. SameProcess(m, s.msg) /\ sent[m].id = sent[s.msg].id
      BY <1>1, <1>7, <3>1, <3>2 DEF SameProcess
    <3>4. ASSUME NEW w \in Workers, Marks(w, m)
          PROVE  FALSE
      <4>1. Mine(w, s.msg) /\ hand[w] = m /\ pc[w] \in Handling
        BY <3>3, <3>4 DEF Marks, Mine, SameProcess
      <4>2. s.msg <= m
        BY <3>1, <4>1 DEF CooldownInv, HistoryIsPast, InHandIsHeld, Handling
      <4>3. QED
        BY <1>7, <3>1, <4>2
    <3>5. fate[m].status \in Marked /\ fate'[m].at = fate[m].at
      BY <1>1, <1>3, <1>7, <3>2, <3>4
    <3>6. QED
      BY <1>0, <1>7, <2>1, <3>3, <3>5 DEF DedupSpacing
  <2>2. CASE s \notin steps
    <3>1. UNCHANGED fate
      BY <1>0, <2>2, NewSteps
    <3>2. PICK w \in Workers : pc[w] \in Planning /\ s.msg = hand[w] /\ s.at = now
      BY <1>0, <2>2, NewSteps
    <3>3. s.msg \in DOMAIN fate /\ s.msg \in Nat /\ Mine(w, s.msg)
      BY <3>2, HandTaken DEF CooldownInv, TypedInv, InHandIsHeld, Mine, Planning
    <3>4. m \in DOMAIN fate
      BY <1>7, <3>3 DEF CooldownInv, TypeOK
    <3>5. Mine(w, m) /\ sent[m].id = sent[hand[w]].id /\ fate[m].status \in Marked
      BY <1>1, <1>7, <3>1, <3>2, <3>3, <3>4 DEF SameProcess, Mine
    <3>6. QED
      BY <1>0, <3>1, <3>2, <3>4, <3>5 DEF PlannedIsFresh
  <2>3. QED
    BY <2>1, <2>2
<1>8. MarkedIsSeen'
  BY <1>5 DEF MarkedIsSeen
<1>9. PlannedIsFresh'
  BY <1>6 DEF PlannedIsFresh
<1>10. DedupSpacing'
  BY <1>7 DEF DedupSpacing
<1>11. ASSUME NEW m2 \in DOMAIN fate', NEW m1 \in 1..(m2 - 1), SameProcess(m1, m2)',
              fate'[m1].status \in Marked, fate'[m2].status \in Marked,
              sent'[m1].id = sent'[m2].id
       PROVE  fate'[m2].at >= fate'[m1].at + RunbookDedupTTL
  <2>1. m2 \in DOMAIN fate /\ m2 \in Nat
    BY <1>1, <1>3, <1>11
  <2>2. m1 \in DOMAIN fate /\ m1 \in DOMAIN fate'
    BY <1>1, <1>11, <2>1 DEF CooldownInv, TypeOK
  <2>3. SameProcess(m1, m2) /\ sent[m1].id = sent[m2].id
    BY <1>1, <1>11, <2>1, <2>2 DEF SameProcess
  <2>4. ASSUME NEW w \in Workers, Marks(w, m1)
        PROVE  FALSE
    <3>1. Mine(w, m2) /\ hand[w] = m1 /\ pc[w] \in Handling
      BY <2>3, <2>4 DEF Marks, Mine, SameProcess
    <3>2. m2 <= m1
      BY <2>1, <3>1 DEF CooldownInv, HistoryIsPast, InHandIsHeld, Handling
    <3>3. QED
      BY <1>11, <2>1, <3>2
  <2>5. fate[m1].status \in Marked /\ fate'[m1].at = fate[m1].at
    BY <1>3, <1>11, <2>2, <2>4
  <2>6. CASE fate[m2].status \in Marked /\ fate'[m2].at = fate[m2].at
    BY <1>0, <1>11, <2>1, <2>3, <2>5, <2>6 DEF HandledOnce
  <2>7. ASSUME NEW w \in Workers, Marks(w, m2)
        PROVE  fate'[m2].at >= fate'[m1].at + RunbookDedupTTL
    <3>1. Mine(w, m1) /\ sent[m1].id = sent[hand[w]].id /\ fate'[m2].at = now
      BY <2>3, <2>7 DEF Marks, Mine, SameProcess
    <3>2. pc[w] \in Planning \/ IsNew(w)
      BY <2>7 DEF Marks
    <3>3. CASE pc[w] \in Planning
      BY <1>0, <2>2, <2>5, <3>1, <3>3 DEF PlannedIsFresh
    <3>4. CASE IsNew(w)
      <4>1. now >= fate[m1].at + RunbookDedupTTL
        BY <1>0, <2>2, <2>5, <3>1, <3>4, NewIsFresh
      <4>2. QED
        BY <2>5, <3>1, <4>1
    <3>5. QED
      BY <3>2, <3>3, <3>4
  <2>8. QED
    BY <1>3, <1>11, <2>6, <2>7
<1>12. HandledOnce'
  BY <1>11 DEF HandledOnce
<1>13. QED
  BY <1>4, <1>8, <1>9, <1>10, <1>12 DEF DedupInv

\* DedupInv holds in every state.
LEMMA DedupInvariant == Spec => []DedupInv
<1>1. Init => DedupInv
  BY DEF Init, DedupInv, MarksArePast, MarkedIsSeen, PlannedIsFresh, DedupSpacing, HandledOnce
<1>2. CooldownInv /\ DedupInv /\ [Next]_vars => DedupInv'
  BY NextDedup
<1>3. QED
  BY <1>1, <1>2, CooldownInvariant, PTL DEF Spec

\* A process runs no step of a runbook within the deduplication time of one of
\* the same id that it has finished with.
THEOREM DuplicatesWait == Spec => []DedupSpacing
<1>1. DedupInv => DedupSpacing
  BY DEF DedupInv
<1>2. QED
  BY <1>1, DedupInvariant, PTL

\* A process finishes with two runbooks of the same id at least the
\* deduplication time apart, also when the first was rejected or had no actions.
THEOREM RunbooksHandledOnce == Spec => []HandledOnce
<1>1. DedupInv => HandledOnce
  BY DEF DedupInv
<1>2. QED
  BY <1>1, DedupInvariant, PTL

-----------------------------------------------------------------------------
(* The execution log.                                                      *)

IsStart(e) == e.event = "command_execution_started"

Bracketed(entries) ==
    \A k \in 1..(Len(entries) - 1) : IsStart(entries[k]) <=> Completes(entries[k], entries[k + 1])

Newest(entries) == entries[Len(entries)]

Unfinished(entries) == entries # <<>> /\ IsStart(Newest(entries))

\* A new entry that follows its predecessor rightly keeps the log bracketed,
\* whether or not the oldest entry has to go.
LEMMA LoggedBracketed ==
    ASSUME NEW entries \in Seq(LogEntry), Bracketed(entries),
           NEW event \in Events, NEW m \in Nat, NEW i \in Nat,
           entries # <<>> =>
              (IsStart(Newest(entries))
                 <=> Completes(Newest(entries), [event |-> event, msg |-> m, index |-> i]))
    PROVE  LET l == Logged(entries, event, m, i) IN
           /\ l \in Seq(LogEntry) /\ l # <<>> /\ Bracketed(l)
           /\ Newest(l) = [event |-> event, msg |-> m, index |-> i]
<1> DEFINE e == [event |-> event, msg |-> m, index |-> i]
           kept == IF Len(entries) < LogMax THEN entries ELSE Tail(entries)
           d == IF Len(entries) < LogMax THEN 0 ELSE 1
<1>1. e \in LogEntry
  BY DEF LogEntry
<1>2. ~(Len(entries) < LogMax) => Len(entries) >= 1 /\ entries # <<>>
  BY WorkerAssumption
<1>3. /\ kept \in Seq(LogEntry) /\ d \in {0, 1} /\ Len(entries) \in Nat
      /\ Len(kept) = Len(entries) - d
      /\ \A k \in 1..Len(kept) : kept[k] = entries[k + d]
  <2>1. CASE Len(entries) < LogMax
    BY <2>1
  <2>2. CASE ~(Len(entries) < LogMax)
    <3>1. /\ Tail(entries) \in Seq(LogEntry) /\ Len(Tail(entries)) = Len(entries) - 1
          /\ \A k \in 1..Len(Tail(entries)) : Tail(entries)[k] = entries[k + 1]
      BY <1>2, <2>2
    <3>2. QED
      BY <2>2, <3>1
  <2>3. QED
    BY <2>1, <2>2
<1> HIDE DEF e, kept, d
<1>4. Logged(entries, event, m, i) = Append(kept, e)
  BY DEF Logged, e, kept
<1>5. /\ Append(kept, e) \in Seq(LogEntry) /\ Append(kept, e) # <<>>
      /\ Len(Append(kept, e)) = Len(kept) + 1
      /\ Newest(Append(kept, e)) = e
      /\ \A k \in 1..Len(kept) : Append(kept, e)[k] = kept[k]
  <2>1. kept \in Seq(LogEntry) /\ Len(kept) \in Nat
    BY <1>3
  <2>2. /\ Append(kept, e) \in Seq(LogEntry) /\ Len(Append(kept, e)) = Len(kept) + 1
        /\ \A k \in 1..Len(kept) : Append(kept, e)[k] = kept[k]
        /\ Append(kept, e)[Len(kept) + 1] = e
    BY <1>1, <2>1
  <2>3. Append(kept, e) # <<>>
    BY <2>1, <2>2
  <2>4. QED
    BY <2>2, <2>3 DEF Newest
<1>6. ASSUME NEW k \in 1..Len(kept)
      PROVE  IsStart(Append(kept, e)[k]) <=> Completes(Append(kept, e)[k], Append(kept, e)[k + 1])
  <2>1. Append(kept, e)[k] = entries[k + d]
    BY <1>3, <1>5
  <2>2. CASE k = Len(kept)
    <3>1. Append(kept, e)[k + 1] = e
      BY <1>5, <2>2 DEF Newest
    <3>2. k + d = Len(entries) /\ entries # <<>>
      BY <1>3, <2>2
    <3>3. QED
      BY <2>1, <3>1, <3>2 DEF Newest, e
  <2>3. CASE k # Len(kept)
    <3>1. k + 1 \in 1..Len(kept) /\ k + d \in 1..(Len(entries) - 1)
      BY <1>3, <2>3
    <3>2. Append(kept, e)[k + 1] = entries[(k + d) + 1]
      BY <1>3, <1>5, <3>1
    <3>3. QED
      BY <2>1, <3>1, <3>2 DEF Bracketed
  <2>4. QED
    BY <2>2, <2>3
<1>7. Bracketed(Append(kept, e))
  BY <1>3, <1>5, <1>6 DEF Bracketed
<1>8. QED
  BY <1>4, <1>5, <1>7 DEF e

\* A story that is told: a bracketed log with no unfinished command.
Finished(entries) == entries \in Seq(LogEntry) /\ Bracketed(entries) /\ ~Unfinished(entries)

Outcomes == {"command_execution_success", "command_execution_failed"}

\* Whatever is logged between two commands.
LEMMA LoggedBetween ==
    ASSUME NEW entries, Finished(entries), NEW m \in Nat, NEW i \in Nat,
           NEW event \in Events, event \notin Outcomes
    PROVE  LET l == Logged(entries, event, m, i) IN
           /\ l \in Seq(LogEntry) /\ l # <<>> /\ Bracketed(l)
           /\ Newest(l) = [event |-> event, msg |-> m, index |-> i]
           /\ event # "command_execution_started" => Finished(l)
<1> DEFINE e == [event |-> event, msg |-> m, index |-> i]
<1>1. entries # <<>> => (IsStart(Newest(entries)) <=> Completes(Newest(entries), e))
  BY DEF Finished, Unfinished, Completes, Outcomes
<1>2. entries \in Seq(LogEntry) /\ Bracketed(entries)
  BY DEF Finished
<1>3. /\ Logged(entries, event, m, i) \in Seq(LogEntry)
      /\ Logged(entries, event, m, i) # <<>> /\ Bracketed(Logged(entries, event, m, i))
      /\ Newest(Logged(entries, event, m, i)) = e
  BY <1>1, <1>2, LoggedBracketed
<1>4. QED
  BY <1>3 DEF Finished, Unfinished, IsStart

\* The outcome of the command that is unfinished.
LEMMA LoggedOutcome ==
    ASSUME NEW entries \in Seq(LogEntry), Bracketed(entries), entries # <<>>,
           NEW m \in Nat, NEW i \in Nat, NEW event \in Outcomes,
           IsStart(Newest(entries)), Newest(entries).msg = m, Newest(entries).index = i
    PROVE  Finished(Logged(entries, event, m, i))
<1> DEFINE e == [event |-> event, msg |-> m, index |-> i]
<1>1. Completes(Newest(entries), e) /\ event \in Events
  BY DEF Completes, Outcomes, Events
<1>2. /\ Logged(entries, event, m, i) \in Seq(LogEntry)
      /\ Bracketed(Logged(entries, event, m, i))
      /\ Newest(Logged(entries, event, m, i)) = e
  BY <1>1, LoggedBracketed
<1>3. QED
  BY <1>2 DEF Finished, Unfinished, IsStart, Outcomes

\* The log of a worker is bracketed; its only unfinished command is the
\* Kubernetes call going on, which is the next one of the plan.
Told(w) ==
    /\ log[w] \in Seq(LogEntry) /\ Bracketed(log[w])
    /\ pc[w] = "calling" <=> Unfinished(log[w])
    /\ pc[w] = "calling" => /\ Newest(log[w]).msg = hand[w]
                            /\ IsNext(Newest(log[w]).index, todo[w])

LogInv == \A w \in Workers : Told(w)

\* The log once a command is started.
LEMMA StartTold ==
    ASSUME NEW w \in Workers, NEW i \in Nat, hand[w] \in Nat, Finished(log[w])
    PROVE  /\ StartedStep(w, i) \in Seq(LogEntry) /\ StartedStep(w, i) # <<>>
           /\ Bracketed(StartedStep(w, i))
           /\ Newest(StartedStep(w, i))
                = [event |-> "command_execution_started", msg |-> hand[w], index |-> i]
<1>1. "command_execution_started" \in Events /\ "command_execution_started" \notin Outcomes
  BY DEF Events, Outcomes
<1>2. ASSUME NEW event \in Events, event \notin Outcomes, NEW m \in Nat
      PROVE  /\ Logged(log[w], event, m, i) \in Seq(LogEntry)
             /\ Logged(log[w], event, m, i) # <<>>
             /\ Bracketed(Logged(log[w], event, m, i))
             /\ Newest(Logged(log[w], event, m, i)) = [event |-> event, msg |-> m, index |-> i]
  BY <1>2, LoggedBetween
<1>3. QED
  BY <1>1, <1>2 DEF StartedStep

\* A command of the plan is started, or run to its end.
LEMMA CallTold ==
    ASSUME CooldownInv, NEW w \in Workers, Told(w), NEW i \in Nat, StartsCall(w, i)
    PROVE  Told(w)'
<1>1. /\ pc[w] = "executing" /\ pc'[w] = "calling" /\ IsNext(i, todo[w])
      /\ log'[w] = StartedStep(w, i) /\ hand' = hand /\ todo' = todo
  BY DEF StartsCall
<1>2. hand[w] \in Nat
  BY DEF CooldownInv, TypeOK
<1>3. Finished(log[w])
  BY <1>1 DEF Told, Finished
<1>4. /\ log'[w] \in Seq(LogEntry) /\ log'[w] # <<>> /\ Bracketed(log'[w])
      /\ Newest(log'[w]) = [event |-> "command_execution_started", msg |-> hand[w], index |-> i]
  BY <1>1, <1>2, <1>3, StartTold
<1>5. /\ IsStart(Newest(log'[w])) /\ Newest(log'[w]).msg = hand'[w]
      /\ IsNext(Newest(log'[w]).index, todo'[w])
  BY <1>1, <1>4 DEF IsStart
<1>6. QED
  BY <1>1, <1>4, <1>5 DEF Told, Unfinished

LEMMA RunTold ==
    ASSUME CooldownInv, NEW w \in Workers, Told(w), NEW i \in Nat,
           NEW status \in StepStatuses, Runs(w, i, status)
    PROVE  Told(w)'
<1> DEFINE before == IF pc[w] = "calling" THEN log[w] ELSE StartedStep(w, i)
<1>1. /\ pc[w] \in {"executing", "calling"} /\ pc'[w] = "executing" /\ IsNext(i, todo[w])
      /\ log'[w] = Logged(before, Outcome(status), hand[w], i)
  BY DEF Runs
<1>2. hand[w] \in Nat /\ todo[w] \in SUBSET Nat
  BY DEF CooldownInv, TypeOK
<1>3. /\ before \in Seq(LogEntry) /\ Bracketed(before) /\ before # <<>>
      /\ IsStart(Newest(before)) /\ Newest(before).msg = hand[w] /\ Newest(before).index = i
  <2>1. CASE pc[w] = "calling"
    <3>1. /\ log[w] \in Seq(LogEntry) /\ Bracketed(log[w]) /\ log[w] # <<>>
          /\ IsStart(Newest(log[w])) /\ Newest(log[w]).msg = hand[w]
          /\ IsNext(Newest(log[w]).index, todo[w])
      BY <2>1 DEF Told, Unfinished
    <3>2. Newest(log[w]).index = i
      BY <1>1, <1>2, <3>1 DEF IsNext
    <3>3. QED
      BY <2>1, <3>1, <3>2
  <2>2. CASE pc[w] # "calling"
    <3>1. Finished(log[w])
      BY <2>2 DEF Told, Finished
    <3>2. /\ StartedStep(w, i) \in Seq(LogEntry) /\ StartedStep(w, i) # <<>>
          /\ Bracketed(StartedStep(w, i))
          /\ Newest(StartedStep(w, i))
               = [event |-> "command_execution_started", msg |-> hand[w], index |-> i]
      BY <1>2, <3>1, StartTold
    <3>3. QED
      BY <2>2, <3>2 DEF IsStart
  <2>3. QED
    BY <2>1, <2>2
<1>4. Outcome(status) \in Outcomes
  BY DEF Outcome, Outcomes
<1> HIDE DEF before
<1>5. Finished(log'[w])
  BY <1>1, <1>2, <1>3, <1>4, LoggedOutcome
<1>6. QED
  BY <1>1, <1>5 DEF Told, Finished

\* What the handling of a message logs before any command.
LEMMA ReceivedTold ==
    ASSUME CooldownInv, NEW w \in Workers, Finished(log[w])
    PROVE  /\ Finished(Received(w)) /\ Finished(Parsed(w))
           /\ Finished(Logged(Parsed(w), "no_actions_found", hand[w], 0))
<1>1. hand[w] \in Nat /\ 0 \in Nat
  BY DEF CooldownInv, TypeOK
<1>2. Finished(Received(w))
  BY <1>1, LoggedBetween DEF Received, Events, Outcomes
<1>3. Finished(Parsed(w))
  BY <1>1, <1>2, LoggedBetween DEF Parsed, Events, Outcomes
<1>4. QED
  BY <1>1, <1>2, <1>3, LoggedBetween DEF Events, Outcomes

\* LogInv is inductive.
LEMMA NextLog ==
    ASSUME CooldownInv, LogInv, [Next]_vars
    PROVE  LogInv'
<1>1. CASE Rests
  BY <1>1 DEF Rests, Away, LogInv, Told
<1>2. ASSUME NEW w \in Workers, Only(w), Told(w)'
      PROVE  LogInv'
  BY <1>2 DEF Only, Still, LogInv, Told
<1>3. ASSUME NEW w \in Workers, Only(w), pc'[w] # "calling", Finished(log'[w])
      PROVE  LogInv'
  <2>1. Told(w)'
    BY <1>3 DEF Told, Finished
  <2>2. QED
    BY <1>2, <1>3, <2>1
<1>4. ASSUME NEW w \in Workers, pc[w] # "calling"
      PROVE  Finished(log[w])
  BY <1>4 DEF LogInv, Told, Finished
<1>5. ASSUME NEW w \in Workers, Starts(w) \/ Takes(w) \/ Commits(w)
      PROVE  LogInv'
  <2>1. Only(w) /\ pc[w] # "calling" /\ pc'[w] # "calling" /\ log' = log
    BY <1>5 DEF Starts, Takes, Commits
  <2>2. QED
    BY <1>3, <1>4, <2>1
<1>6. ASSUME NEW w \in Workers, Leaves(w)
      PROVE  LogInv'
  <2>1. Only(w) /\ pc'[w] # "calling" /\ log'[w] = <<>>
    BY <1>6 DEF Leaves
  <2>2. Finished(<<>>)
    BY DEF Finished, Bracketed, Unfinished
  <2>3. QED
    BY <1>3, <2>1, <2>2
<1>7. ASSUME NEW w \in Workers, Plans(w)
      PROVE  LogInv'
  <2>1. /\ Only(w) /\ pc[w] # "calling" /\ pc'[w] # "calling"
        /\ log'[w] = Parsed(w) \/ log'[w] = log[w]
    BY <1>7 DEF Plans
  <2>2. QED
    BY <1>3, <1>4, <2>1, ReceivedTold
<1>8. ASSUME NEW w \in Workers, NEW status \in Statuses, Lets(w, status)
      PROVE  LogInv'
  <2>1. /\ Only(w) /\ pc[w] # "calling" /\ pc'[w] # "calling"
        /\ log'[w] \in {log[w], Received(w),
                        Logged(Parsed(w), "no_actions_found", hand[w], 0)}
    BY <1>8 DEF Lets, Away
  <2>2. Finished(log'[w])
    BY <1>4, <2>1, ReceivedTold
  <2>3. QED
    BY <1>3, <2>1, <2>2
<1>9. ASSUME NEW w \in Workers, NEW i \in Nat, StartsCall(w, i)
      PROVE  LogInv'
  <2>1. Only(w)
    BY <1>9 DEF StartsCall
  <2>2. QED
    BY <1>2, <1>9, <2>1, CallTold DEF LogInv
<1>10. ASSUME NEW w \in Workers, NEW i \in Nat, NEW status \in StepStatuses, Runs(w, i, status)
       PROVE  LogInv'
  <2>1. Only(w)
    BY <1>10 DEF Runs
  <2>2. QED
    BY <1>2, <1>10, <2>1, RunTold DEF LogInv
<1>11. QED
  BY <1>1, <1>5, <1>6, <1>7, <1>8, <1>9, <1>10, StepShapes DEF Shapes

\* The execution log tells each command in one piece: a start is followed by
\* its outcome, and only the call going on has none yet.
THEOREM LogsAreBracketed == Spec => []LogBracketed
<1>1. Init => LogInv
  BY DEF Init, LogInv, Told, Bracketed, Unfinished
<1>2. CooldownInv /\ LogInv /\ [Next]_vars => LogInv'
  BY NextLog
<1>3. LogInv => LogBracketed
  BY DEF LogInv, Told, Bracketed, Unfinished, Newest, IsStart, LogBracketed
<1>4. QED
  BY <1>1, <1>2, <1>3, CooldownInvariant, PTL DEF Spec

-----------------------------------------------------------------------------
(* What is settled stays settled.                                          *)

\* A record that is rewritten is that of a message in somebody's hand.
LEMMA SettledRecordStays ==
    ASSUME CooldownInv, Shapes, NEW m \in DOMAIN fate, fate[m].status # "in_hand"
    PROVE  fate'[m] = fate[m]
<1>1. ASSUME NEW w \in Workers PROVE m # hand[w]
  <2>1. m # 0
    BY DEF CooldownInv, TypeOK
  <2>2. hand[w] # 0 => fate[hand[w]].status = "in_hand"
    BY DEF CooldownInv, InHandIsHeld
  <2>3. QED
    BY <2>1, <2>2
<1>2. ASSUME NEW w \in Workers, Starts(w) \/ Leaves(w) \/ Takes(w) \/ Plans(w) \/ Commits(w)
      PROVE  fate'[m] = fate[m]
  BY <1>1, <1>2 DEF Starts, Leaves, Takes, Plans, Commits, Rewritten
<1>3. ASSUME NEW w \in Workers, NEW status \in Statuses, Lets(w, status)
      PROVE  fate'[m] = fate[m]
  BY <1>1, <1>3 DEF Lets, Rewritten
<1>4. ASSUME NEW w \in Workers, NEW i \in Nat,
             StartsCall(w, i) \/ \E status \in StepStatuses : Runs(w, i, status)
      PROVE  fate'[m] = fate[m]
  BY <1>4 DEF StartsCall, Runs
<1>5. Rests => fate'[m] = fate[m]
  BY DEF Rests
<1>6. QED
  BY <1>2, <1>3, <1>4, <1>5 DEF Shapes

\* A step is run for a message in hand only.
LEMMA SettledStepsStay ==
    ASSUME CooldownInv, Shapes, NEW m \in DOMAIN fate, fate[m].status # "in_hand"
    PROVE  {s \in steps' : s.msg = m} = {s \in steps : s.msg = m}
<1>1. steps \subseteq steps'
  BY HistoryGrows
<1>2. ASSUME NEW s \in steps', s \notin steps PROVE s.msg # m
  <2>1. PICK w \in Workers : pc[w] \in Planning /\ s.msg = hand[w]
    BY <1>2, NewSteps
  <2>2. fate[hand[w]].status = "in_hand"
    BY <2>1 DEF CooldownInv, InHandIsHeld, Planning
  <2>3. QED
    BY <2>1, <2>2
<1>3. QED
  BY <1>1, <1>2

\* No pod touches a message again whose handling has ended.
THEOREM SettledStaysSettled == Spec => SettledForGood
<1>1. CooldownInv /\ [Next]_vars =>
        [\A m \in DOMAIN fate : fate[m].status # "in_hand" =>
            /\ fate'[m] = fate[m]
            /\ {s \in steps' : s.msg = m} = {s \in steps : s.msg = m}]_vars
  BY StepShapes, SettledRecordStays, SettledStepsStay
<1>2. QED
  BY <1>1, CooldownInvariant, PTL DEF Spec, SettledForGood
=============================================================================
