------------------------- MODULE RunbookWorkerProofs -------------------------
(***************************************************************************)
(* TypeOK, InHandIsHeld and CooldownSpacing hold of RunbookWorker for      *)
(* every set of pods, payloads, configuration and bound: CooldownInv is    *)
(* inductive.                                                              *)
(***************************************************************************)
EXTENDS RunbookWorkerProperties, TLAPS

-----------------------------------------------------------------------------
(* Lemmas about the operators.                                             *)

\* The execution log keeps its type and its bound whatever is appended
\* (ExecutionLogStore.append).
LEMMA LoggedType ==
    ASSUME NEW entries \in Seq(LogEntry), Len(entries) <= LogMax,
           NEW event \in Events, NEW m \in Nat, NEW i \in Nat
    PROVE  /\ Logged(entries, event, m, i) \in Seq(LogEntry)
           /\ Len(Logged(entries, event, m, i)) <= LogMax
<1> DEFINE e == [event |-> event, msg |-> m, index |-> i]
<1>1. e \in LogEntry
  BY DEF LogEntry
<1>2. CASE Len(entries) < LogMax
  BY <1>1, <1>2, WorkerAssumption DEF Logged
<1>3. CASE ~(Len(entries) < LogMax)
  <2>1. entries # <<>> /\ Len(entries) = LogMax
    BY <1>3, WorkerAssumption
  <2>2. Tail(entries) \in Seq(LogEntry) /\ Len(Tail(entries)) = LogMax - 1
    BY <2>1, WorkerAssumption
  <2>3. QED
    BY <1>1, <1>3, <2>2, WorkerAssumption DEF Logged
<1>4. QED
  BY <1>2, <1>3

\* A position of a built plan holds an action, and its cooldown key is one the
\* tracker knows (build_execution_plan).
LEMMA PlannedAction ==
    ASSUME NEW rb \in Payloads, rb.kind = "runbook", ~PlanRaises(rb),
           NEW i \in BuildExecutionPlan(rb)
    PROVE  /\ i \in Nat
           /\ PlanSource(rb)[i] \in Action
           /\ CooldownKey(PlanSource(rb)[i]) \in CooldownKeys
<1>1. rb \in Runbook
  BY WorkerAssumption DEF Payload, Malformed
<1>2. rb.plan \in Seq(PlanEntry) /\ rb.commands \in Seq(Command)
  BY <1>1 DEF Runbook
<1>3. i \in DOMAIN PlanSource(rb) /\ PlanSource(rb)[i] # Unsupported
  BY DEF BuildExecutionPlan
<1>4. i \in Nat
  BY <1>2, <1>3 DEF PlanSource
<1>5. PlanSource(rb)[i] \in Action
  <2>1. CASE rb.plan = <<>>
    BY <1>2, <1>3, <2>1 DEF PlanSource, PlanRaises, Command, PlanEntry
  <2>2. CASE rb.plan # <<>>
    BY <1>2, <1>3, <2>2 DEF PlanSource, PlanEntry
  <2>3. QED
    BY <2>1, <2>2
<1>6. CooldownKey(PlanSource(rb)[i]) \in CooldownKeys
  BY <1>5 DEF Action, SimpleAction, ScaleAction, UpdateAction, CooldownKey,
              CooldownKeys, ActionTypes, SimpleTypes
<1>7. QED
  BY <1>4, <1>5, <1>6

\* Changing one record of fate to another of the same handler changes the
\* record of that message only.
LEMMA ChangedFate ==
    ASSUME fate \in Seq(Fate), NEW h \in DOMAIN fate,
           NEW r \in Fate, r.by = fate[h].by, r.life = fate[h].life,
           NEW f, f = [fate EXCEPT ![h] = r]
    PROVE  /\ f \in Seq(Fate) /\ Len(f) = Len(fate) /\ DOMAIN f = DOMAIN fate
           /\ f[h] = r
           /\ \A m \in DOMAIN fate : /\ m # h => f[m] = fate[m]
                                     /\ f[m].by = fate[m].by /\ f[m].life = fate[m].life
<1>1. DOMAIN fate = 1..Len(fate) /\ Len(fate) \in Nat
  OBVIOUS
<1>2. \A m \in DOMAIN fate : fate[m] \in Fate
  OBVIOUS
<1>3. f \in Seq(Fate) /\ Len(f) = Len(fate) /\ DOMAIN f = DOMAIN fate
  BY <1>1, <1>2
<1>4. QED
  BY <1>2, <1>3

-----------------------------------------------------------------------------
(* Type correctness.                                                       *)

TypedInv == TypeOK /\ InHandIsHeld /\ WorkIsPlanned

\* Settling the message in hand keeps the type of fate and sets every hand.
LEMMA SettleTyped ==
    ASSUME TypedInv, NEW w \in Workers, hand[w] \in DOMAIN fate, NEW st \in Statuses,
           NEW location \in Locations, Settle(w, st, location)
    PROVE  /\ fate' \in Seq(Fate) /\ Len(fate') = Len(fate) /\ DOMAIN fate' = DOMAIN fate
           /\ fate'[hand[w]].status = st
           /\ \A m \in DOMAIN fate : /\ m # hand[w] => fate'[m] = fate[m]
                                     /\ fate'[m].by = fate[m].by /\ fate'[m].life = fate[m].life
           /\ pc' \in [Workers -> Locations] /\ hand' \in [Workers -> Nat]
<1> USE DEF TypedInv, TypeOK
<1>1. fate[hand[w]] \in Fate
  OBVIOUS
<1>2. Settled(fate[hand[w]], st) \in Fate
  BY <1>1 DEF Settled, Fate
<1>3. fate' = [fate EXCEPT ![hand[w]] = Settled(fate[hand[w]], st)]
  BY DEF Settle
<1>4. /\ Settled(fate[hand[w]], st).by = fate[hand[w]].by
      /\ Settled(fate[hand[w]], st).life = fate[hand[w]].life
      /\ Settled(fate[hand[w]], st).status = st
  BY DEF Settled
<1>5. QED
  <2>1. /\ fate' \in Seq(Fate) /\ Len(fate') = Len(fate) /\ DOMAIN fate' = DOMAIN fate
        /\ fate'[hand[w]] = Settled(fate[hand[w]], st)
        /\ \A m \in DOMAIN fate : /\ m # hand[w] => fate'[m] = fate[m]
                                  /\ fate'[m].by = fate[m].by /\ fate'[m].life = fate[m].life
    BY <1>1, <1>2, <1>3, <1>4, ChangedFate
  <2>2. pc' \in [Workers -> Locations] /\ hand' \in [Workers -> Nat]
    BY DEF Settle
  <2>3. QED
    BY <2>1, <2>2, <1>4

\* The message a worker is handling is one of those taken.
LEMMA HandTaken ==
    ASSUME TypedInv, NEW w \in Workers,
           pc[w] \in {"decoding", "validating", "executing", "calling"}
    PROVE  /\ hand[w] \in DOMAIN fate /\ hand[w] \in Nat
           /\ hand[w] \in DOMAIN sent /\ sent[hand[w]] \in Payloads
<1>1. hand[w] \in DOMAIN fate /\ hand[w] \in Nat
  BY DEF TypedInv, InHandIsHeld, TypeOK
<1>2. hand[w] \in DOMAIN sent
  BY <1>1 DEF TypedInv, TypeOK
<1>3. QED
  BY <1>1, <1>2 DEF TypedInv, TypeOK

\* A position waiting to be validated or run holds an action.
LEMMA WorkIsAction ==
    ASSUME TypedInv, NEW w \in Workers, NEW i \in pending[w] \cup todo[w]
    PROVE  /\ pc[w] \in {"validating", "executing", "calling"}
           /\ i \in Nat /\ ActionOf(hand[w], i) \in Action
           /\ CooldownKey(ActionOf(hand[w], i)) \in CooldownKeys
<1>1. pc[w] \in {"validating", "executing", "calling"}
  BY DEF TypedInv, WorkIsPlanned
<1>2. sent[hand[w]] \in Payloads
  BY <1>1, HandTaken
<1>3. /\ sent[hand[w]].kind = "runbook" /\ ~PlanRaises(sent[hand[w]])
      /\ i \in BuildExecutionPlan(sent[hand[w]])
  BY <1>1 DEF TypedInv, WorkIsPlanned
<1>4. QED
  BY <1>1, <1>2, <1>3, PlannedAction DEF ActionOf

\* The deduplicator's operations keep its type.
LEMMA SeenTyped ==
    ASSUME NEW ids \in [RunbookIds -> Timestamp], NEW id, NEW t \in Nat
    PROVE  /\ EvictExpired(ids, t) \in [RunbookIds -> Timestamp]
           /\ MarkProcessed(ids, id, t) \in [RunbookIds -> Timestamp]
           /\ MarkProcessed(EvictExpired(ids, t), id, t) \in [RunbookIds -> Timestamp]
<1>1. t + RunbookDedupTTL \in Timestamp /\ Never \in Timestamp
  BY TrackerAssumption DEF Timestamp, Never
<1>2. EvictExpired(ids, t) \in [RunbookIds -> Timestamp]
  BY <1>1 DEF EvictExpired
<1>3. \A f \in [RunbookIds -> Timestamp] :
          MarkProcessed(f, id, t) \in [RunbookIds -> Timestamp]
  BY <1>1 DEF MarkProcessed
<1>4. QED
  BY <1>2, <1>3

\* A process that was never started has a memory of the right type.
LEMMA InitTyped == Init => TypeOK
  BY WorkerAssumption DEF Init, TypeOK, Locations, Timestamp, Never

\* What a process leaves behind when it ends has the right type.
LEMMA EndTyped ==
    ASSUME TypedInv, NEW w \in Workers, ProcessEnds(w),
           fate' \in Seq(Fate), Len(fate') <= Len(sent)
    PROVE  TypeOK'
<1> USE DEF TypedInv, TypeOK
<1>1. lastRun' \in [Workers -> [CooldownKeys -> Timestamp]]
  BY DEF ProcessEnds, Timestamp, Never
<1>2. seen' \in [Workers -> [RunbookIds -> Timestamp]]
  BY DEF ProcessEnds, Timestamp, Never
<1>3. log' \in [Workers -> Seq(LogEntry)] /\ \A v \in Workers : Len(log'[v]) <= LogMax
  BY WorkerAssumption DEF ProcessEnds
<1>4. QED
  BY <1>1, <1>2, <1>3 DEF ProcessEnds, Locations

\* The clock, Agent 1 and the cluster keep every type.
LEMMA EnvironmentTyped ==
    ASSUME TypedInv, Environment
    PROVE  TypeOK'
<1> USE DEF TypedInv, TypeOK
<1>1. CASE Tick
  BY <1>1 DEF Tick, queue, process, memory, work
<1>2. ASSUME NEW p \in Payloads, Push(p)
      PROVE  TypeOK'
  BY <1>2 DEF Push, process, memory, work
<1>3. ASSUME NEW w \in Workers, Start(w)
      PROVE  TypeOK'
  <2>1. dryRun' \in [Workers -> BOOLEAN]
    BY <1>3, WorkerAssumption DEF Start
  <2>2. QED
    BY <1>3, <2>1 DEF Start, queue, memory, work, Locations
<1>4. ASSUME NEW w \in Workers, Signal(w)
      PROVE  TypeOK'
  BY <1>4 DEF Signal, queue, process, memory, work
<1>5. ASSUME NEW w \in Workers, Crash(w)
      PROVE  TypeOK'
  <2>1. fate' \in Seq(Fate) /\ Len(fate') = Len(fate)
    <3>1. CASE hand[w] = 0
      BY <1>5, <3>1 DEF Crash
    <3>2. CASE hand[w] # 0
      <4>1. hand[w] \in DOMAIN fate /\ fate[hand[w]] \in Fate
        BY <3>2 DEF InHandIsHeld
      <4>2. Settled(fate[hand[w]], "crashed") \in Fate
        BY <4>1 DEF Settled, Fate, Statuses
      <4>3. /\ Settled(fate[hand[w]], "crashed").by = fate[hand[w]].by
            /\ Settled(fate[hand[w]], "crashed").life = fate[hand[w]].life
        BY DEF Settled
      <4>4. fate' = [fate EXCEPT ![hand[w]] = Settled(fate[hand[w]], "crashed")]
        BY <1>5, <3>2 DEF Crash
      <4>5. QED
        BY <4>1, <4>2, <4>3, <4>4, ChangedFate
    <3>3. QED
      BY <3>1, <3>2
  <2>2. QED
    BY <1>5, <2>1, EndTyped DEF Crash
<1>6. QED
  BY <1>1, <1>2, <1>3, <1>4, <1>5 DEF Environment

\* A turn of run() that takes no message keeps every type.
LEMMA GoesTyped ==
    ASSUME TypedInv, NEW w \in Workers, NEW location \in Locations, NEW connected \in BOOLEAN,
           Goes(w, location, connected),
           fate' \in Seq(Fate), Len(fate') <= Len(sent), hand' \in [Workers -> Nat]
    PROVE  TypeOK'
  BY DEF TypedInv, TypeOK, Goes, process, memory

\* A record for a message just taken.
LEMMA TakenTyped ==
    ASSUME TypedInv, NEW w \in Workers, NEW st \in Statuses, Len(fate) < Len(sent),
           fate' = Append(fate, NewFate(w, st))
    PROVE  fate' \in Seq(Fate) /\ Len(fate') = Len(fate) + 1 /\ Len(fate') <= Len(sent)
<1>1. NewFate(w, st) \in Fate
  BY DEF TypedInv, TypeOK, NewFate, Fate
<1>2. QED
  BY <1>1 DEF TypedInv, TypeOK

\* Every step of run() and _poll_once keeps every type.
LEMMA LoopTyped ==
    ASSUME TypedInv, NEW w \in Workers, Loop(w)
    PROVE  TypeOK'
<1>0. /\ fate \in Seq(Fate) /\ Len(fate) <= Len(sent) /\ hand \in [Workers -> Nat]
      /\ client[w] \in BOOLEAN
  BY DEF TypedInv, TypeOK
<1>1. CASE StopCleanly(w)
  BY <1>0, <1>1, EndTyped DEF StopCleanly
<1>2. CASE \/ Connect(w) \/ ConnectRefused(w) \/ ConnectTimeout(w) \/ ConnectError(w)
           \/ Poll(w) \/ PollTimesOut(w) \/ PollConnectionError(w) \/ PollError(w)
           \/ Wake(w)
  <2>1. /\ \E l \in {"loop", "polling", "sleeping"}, c \in BOOLEAN : Goes(w, l, c)
        /\ UNCHANGED <<fate, hand>>
    BY <1>0, <1>2 DEF Connect, ConnectRefused, ConnectTimeout, ConnectError, Poll,
                      PollTimesOut, PollConnectionError, PollError, Wake
  <2>2. QED
    BY <1>0, <2>1, GoesTyped DEF Locations
<1>3. CASE Pop(w)
  <2>1. fate' \in Seq(Fate) /\ Len(fate') <= Len(sent)
    BY <1>3, TakenTyped DEF Pop, Statuses
  <2>2. hand' \in [Workers -> Nat]
    BY <1>0, <1>3 DEF Pop
  <2>3. QED
    BY <1>0, <1>3, <2>1, <2>2, GoesTyped DEF Pop, Locations
<1>4. CASE ReplyLost(w)
  <2>1. fate' \in Seq(Fate) /\ Len(fate') <= Len(sent)
    BY <1>4, TakenTyped DEF ReplyLost, Statuses
  <2>2. QED
    BY <1>0, <1>4, <2>1, GoesTyped DEF ReplyLost, Locations
<1>5. QED
  BY <1>1, <1>2, <1>3, <1>4 DEF Loop

\* Writing the plan into a record changes nothing else of it.
LEMMA PlanWritten ==
    ASSUME NEW f \in Fate, NEW positions \in SUBSET Nat
    PROVE  /\ [f EXCEPT !.plan = positions] \in Fate
           /\ [f EXCEPT !.plan = positions].status = f.status
           /\ [f EXCEPT !.plan = positions].by = f.by
           /\ [f EXCEPT !.plan = positions].life = f.life
  BY DEF Fate

\* Approving the plan writes it into the record of the message in hand.
LEMMA ApprovedTyped ==
    ASSUME TypedInv, NEW w \in Workers, ApprovePlan(w)
    PROVE  /\ fate' \in Seq(Fate) /\ Len(fate') = Len(fate) /\ DOMAIN fate' = DOMAIN fate
           /\ \A m \in DOMAIN fate : /\ fate'[m].status = fate[m].status
                                     /\ fate'[m].by = fate[m].by /\ fate'[m].life = fate[m].life
<1>1. hand[w] \in DOMAIN fate /\ pc[w] = "validating"
  BY HandTaken DEF ApprovePlan
<1> DEFINE h == hand[w]
           r == [fate[h] EXCEPT !.plan = todo[w]]
<1>2. fate[h] \in Fate /\ todo[w] \in SUBSET Nat /\ fate \in Seq(Fate)
  BY <1>1 DEF TypedInv, TypeOK
<1>3. /\ r \in Fate
      /\ r.status = fate[h].status /\ r.by = fate[h].by /\ r.life = fate[h].life
  BY <1>2, PlanWritten
<1>4. fate' = [fate EXCEPT ![h] = r]
  BY DEF ApprovePlan
<1> HIDE DEF r
<1>5. /\ fate' \in Seq(Fate) /\ Len(fate') = Len(fate) /\ DOMAIN fate' = DOMAIN fate
      /\ fate'[h] = r
      /\ \A m \in DOMAIN fate : /\ m # h => fate'[m] = fate[m]
                                /\ fate'[m].by = fate[m].by /\ fate'[m].life = fate[m].life
  BY <1>1, <1>2, <1>3, <1>4, ChangedFate
<1>6. QED
  BY <1>3, <1>5

\* Settling the message in hand, whatever happens to the worker's own memory.
LEMMA SettlesTyped ==
    ASSUME TypedInv, NEW w \in Workers, hand[w] \in DOMAIN fate, NEW st \in Statuses,
           NEW location \in Locations, Settle(w, st, location),
           seen' \in [Workers -> [RunbookIds -> Timestamp]],
           pending' \in [Workers -> SUBSET Nat], todo' \in [Workers -> SUBSET Nat],
           log' \in [Workers -> Seq(LogEntry)],
           \A v \in Workers : Len(log'[v]) <= LogMax
    PROVE  TypeOK'
<1>1. /\ fate' \in Seq(Fate) /\ Len(fate') = Len(fate)
      /\ pc' \in [Workers -> Locations] /\ hand' \in [Workers -> Nat]
  BY SettleTyped
<1>2. QED
  BY <1>1 DEF TypedInv, TypeOK, Settle, process

\* Every step of _handle_message up to the execution keeps every type.
LEMMA HandleTyped ==
    ASSUME TypedInv, NEW w \in Workers, Handle(w)
    PROVE  TypeOK'
<1> DEFINE Seen == [Workers -> [RunbookIds -> Timestamp]]
           Positions == [Workers -> SUBSET Nat]
           IsLog(l) == l \in [Workers -> Seq(LogEntry)] /\ \A v \in Workers : Len(l[v]) <= LogMax
<1>1. /\ pc[w] \in {"decoding", "validating", "executing", "calling"}
      /\ hand[w] \in DOMAIN fate /\ hand[w] \in Nat /\ sent[hand[w]] \in Payloads
  <2>1. pc[w] \in {"decoding", "validating", "executing", "calling"}
    BY DEF Handle, DiscardPayload, RejectNonObject, SkipDuplicate, ParseRaises, NoActions,
           BuildPlan, IsNew, Decodes, ApproveAction, RejectAction, ValidationRaises,
           RejectAll, ApprovePlan, Validates
  <2>2. QED
    BY <2>1, HandTaken
<1>2. /\ seen \in Seen /\ pending \in Positions /\ todo \in Positions /\ IsLog(log)
      /\ now \in Nat /\ seen[w] \in [RunbookIds -> Timestamp]
      /\ log[w] \in Seq(LogEntry) /\ Len(log[w]) <= LogMax
  BY DEF TypedInv, TypeOK
<1>3. \A st \in {"discarded", "aborted", "duplicate", "no_actions", "rejected"} :
          st \in Statuses
  BY DEF Statuses, Marked
<1>4. "loop" \in Locations /\ "sleeping" \in Locations /\ "validating" \in Locations
        /\ "executing" \in Locations
  BY DEF Locations
<1>5. /\ Received(w) \in Seq(LogEntry) /\ Len(Received(w)) <= LogMax
      /\ Parsed(w) \in Seq(LogEntry) /\ Len(Parsed(w)) <= LogMax
      /\ LET l == Logged(Parsed(w), "no_actions_found", hand[w], 0)
         IN  l \in Seq(LogEntry) /\ Len(l) <= LogMax
  <2>1. Received(w) \in Seq(LogEntry) /\ Len(Received(w)) <= LogMax
    BY <1>1, <1>2, LoggedType DEF Received, Events
  <2>2. Parsed(w) \in Seq(LogEntry) /\ Len(Parsed(w)) <= LogMax
    BY <1>1, <2>1, LoggedType DEF Parsed, Events
  <2>3. QED
    BY <1>1, <2>1, <2>2, LoggedType DEF Events
<1>6. \A id : /\ Fresh(w) \in [RunbookIds -> Timestamp]
              /\ MarkProcessed(Fresh(w), id, now) \in [RunbookIds -> Timestamp]
              /\ MarkProcessed(seen[w], id, now) \in [RunbookIds -> Timestamp]
  BY <1>2, SeenTyped DEF Fresh
<1>7. \A l \in Seq(LogEntry) : Len(l) <= LogMax => IsLog([log EXCEPT ![w] = l])
  BY <1>2
<1>8. \A d \in [RunbookIds -> Timestamp] : [seen EXCEPT ![w] = d] \in Seen
  BY <1>2
<1>9. CASE DiscardPayload(w)
  BY <1>1, <1>2, <1>3, <1>4, <1>9, SettlesTyped DEF DiscardPayload
<1>10. CASE RejectNonObject(w)
  BY <1>1, <1>2, <1>3, <1>4, <1>10, SettlesTyped DEF RejectNonObject
<1>11. CASE SkipDuplicate(w)
  <2>1. seen' \in Seen /\ IsLog(log') /\ pending' \in Positions /\ todo' \in Positions
    BY <1>2, <1>5, <1>6, <1>7, <1>8, <1>11 DEF SkipDuplicate
  <2>2. QED
    BY <1>1, <1>3, <1>4, <1>11, <2>1, SettlesTyped DEF SkipDuplicate
<1>12. CASE ParseRaises(w)
  <2>1. seen' \in Seen /\ IsLog(log') /\ pending' \in Positions /\ todo' \in Positions
    BY <1>2, <1>5, <1>6, <1>7, <1>8, <1>12 DEF ParseRaises
  <2>2. QED
    BY <1>1, <1>3, <1>4, <1>12, <2>1, SettlesTyped DEF ParseRaises
<1>13. CASE NoActions(w)
  <2>1. seen' \in Seen /\ IsLog(log') /\ pending' \in Positions /\ todo' \in Positions
    BY <1>2, <1>5, <1>6, <1>7, <1>8, <1>13 DEF NoActions
  <2>2. QED
    BY <1>1, <1>3, <1>4, <1>13, <2>1, SettlesTyped DEF NoActions
<1>14. CASE BuildPlan(w)
  <2>1. BuildExecutionPlan(sent[hand[w]]) \in SUBSET Nat
    BY <1>1, <1>14, PlannedAction DEF BuildPlan, IsNew, Decodes
  <2>2. pending' \in Positions
    BY <1>2, <1>14, <2>1 DEF BuildPlan
  <2>3. seen' \in Seen /\ IsLog(log')
    BY <1>2, <1>5, <1>6, <1>7, <1>8, <1>14 DEF BuildPlan
  <2>4. QED
    BY <1>4, <1>14, <2>2, <2>3 DEF BuildPlan, TypedInv, TypeOK, queue, process
<1>15. CASE ApproveAction(w)
  <2>1. pending' \in Positions /\ todo' \in Positions
    BY <1>2, <1>15 DEF ApproveAction
  <2>2. QED
    BY <1>15, <2>1 DEF ApproveAction, TypedInv, TypeOK, queue, process, memory
<1>16. CASE RejectAction(w)
  BY <1>16 DEF RejectAction, TypedInv, TypeOK, queue, process, memory
<1>17. CASE ValidationRaises(w)
  <2>1. seen' \in Seen /\ IsLog(log') /\ pending' \in Positions /\ todo' \in Positions
    BY <1>2, <1>17 DEF ValidationRaises
  <2>2. QED
    BY <1>1, <1>3, <1>4, <1>17, <2>1, SettlesTyped DEF ValidationRaises
<1>18. CASE RejectAll(w)
  <2>1. seen' \in Seen /\ IsLog(log') /\ pending' \in Positions /\ todo' \in Positions
    BY <1>2, <1>6, <1>8, <1>18 DEF RejectAll
  <2>2. QED
    BY <1>1, <1>3, <1>4, <1>18, <2>1, SettlesTyped DEF RejectAll
<1>19. CASE ApprovePlan(w)
  <2>1. fate' \in Seq(Fate) /\ Len(fate') = Len(fate)
    BY <1>19, ApprovedTyped
  <2>2. QED
    BY <1>4, <1>19, <2>1 DEF ApprovePlan, TypedInv, TypeOK, process, memory, work
<1>20. QED
  BY <1>9, <1>10, <1>11, <1>12, <1>13, <1>14, <1>15, <1>16, <1>17, <1>18, <1>19 DEF Handle

\* Every step of Executor.run keeps every type.
LEMMA ExecuteTyped ==
    ASSUME TypedInv, NEW w \in Workers, Execute(w)
    PROVE  TypeOK'
<1>1. /\ pc[w] \in {"decoding", "validating", "executing", "calling"}
      /\ hand[w] \in DOMAIN fate /\ hand[w] \in Nat
  <2>1. pc[w] \in {"decoding", "validating", "executing", "calling"}
    BY DEF Execute, DryRunStep, StartCall, CallReturns, CallRaises, FinishRun
  <2>2. QED
    BY <2>1, HandTaken
<1>2. /\ log[w] \in Seq(LogEntry) /\ Len(log[w]) <= LogMax
      /\ log \in [Workers -> Seq(LogEntry)] /\ \A v \in Workers : Len(log[v]) <= LogMax
      /\ todo[w] \in SUBSET Nat /\ todo \in [Workers -> SUBSET Nat]
      /\ now \in Nat /\ steps \in SUBSET Step
      /\ lastRun \in [Workers -> [CooldownKeys -> Timestamp]]
  BY DEF TypedInv, TypeOK
<1>3. ASSUME NEW i \in todo[w]
      PROVE  /\ StartedStep(w, i) \in Seq(LogEntry) /\ Len(StartedStep(w, i)) <= LogMax
             /\ \A event \in Events :
                   /\ Logged(log[w], event, hand[w], i) \in Seq(LogEntry)
                   /\ Len(Logged(log[w], event, hand[w], i)) <= LogMax
                   /\ Logged(StartedStep(w, i), event, hand[w], i) \in Seq(LogEntry)
                   /\ Len(Logged(StartedStep(w, i), event, hand[w], i)) <= LogMax
  <2>1. \A event \in Events : /\ Logged(log[w], event, hand[w], i) \in Seq(LogEntry)
                              /\ Len(Logged(log[w], event, hand[w], i)) <= LogMax
    BY <1>1, <1>2, <1>3, LoggedType
  <2>2. StartedStep(w, i) \in Seq(LogEntry) /\ Len(StartedStep(w, i)) <= LogMax
    BY <2>1 DEF StartedStep, Events
  <2>3. QED
    BY <1>1, <1>2, <1>3, <2>1, <2>2, LoggedType
<1>4. ASSUME NEW i \in todo[w], NEW status \in {"success", "failed", "dry_run"},
             StepEnds(w, i, status)
      PROVE  steps' \in SUBSET Step
  BY <1>1, <1>2, <1>4 DEF StepEnds, Step
<1>5. ASSUME NEW i \in todo[w], Recorded(w, i)
      PROVE  lastRun' \in [Workers -> [CooldownKeys -> Timestamp]]
  BY <1>2, <1>5 DEF Recorded, Record, Timestamp
<1>6. ASSUME NEW l \in Seq(LogEntry), Len(l) <= LogMax, log' = [log EXCEPT ![w] = l]
      PROVE  log' \in [Workers -> Seq(LogEntry)] /\ \A v \in Workers : Len(log'[v]) <= LogMax
  BY <1>2, <1>6
<1>7. CASE DryRunStep(w)
  <2>1. PICK i \in todo[w] :
          /\ log' = [log EXCEPT ![w] =
                       Logged(StartedStep(w, i), "command_execution_success", hand[w], i)]
          /\ Recorded(w, i) /\ StepEnds(w, i, "dry_run")
          /\ todo' = [todo EXCEPT ![w] = todo[w] \ {i}]
    BY <1>7 DEF DryRunStep
  <2>2. log' \in [Workers -> Seq(LogEntry)] /\ \A v \in Workers : Len(log'[v]) <= LogMax
    BY <1>3, <1>6, <2>1 DEF Events
  <2>3. todo' \in [Workers -> SUBSET Nat]
    BY <1>2, <2>1
  <2>4. QED
    BY <1>4, <1>5, <1>7, <2>1, <2>2, <2>3
       DEF DryRunStep, TypedInv, TypeOK, queue, process
<1>8. CASE StartCall(w)
  <2>1. PICK i \in todo[w] : log' = [log EXCEPT ![w] = StartedStep(w, i)]
    BY <1>8 DEF StartCall
  <2>2. log' \in [Workers -> Seq(LogEntry)] /\ \A v \in Workers : Len(log'[v]) <= LogMax
    BY <1>3, <1>6, <2>1
  <2>3. QED
    BY <1>8, <2>2
       DEF StartCall, TypedInv, TypeOK, queue, process, memory, work, Locations
<1>9. CASE CallReturns(w)
  <2>1. PICK i \in todo[w] :
          /\ log' = [log EXCEPT ![w] =
                       Logged(log[w], "command_execution_success", hand[w], i)]
          /\ Recorded(w, i) /\ StepEnds(w, i, "success")
          /\ todo' = [todo EXCEPT ![w] = todo[w] \ {i}]
    BY <1>9 DEF CallReturns
  <2>2. log' \in [Workers -> Seq(LogEntry)] /\ \A v \in Workers : Len(log'[v]) <= LogMax
    BY <1>3, <1>6, <2>1 DEF Events
  <2>3. todo' \in [Workers -> SUBSET Nat]
    BY <1>2, <2>1
  <2>4. QED
    BY <1>4, <1>5, <1>9, <2>1, <2>2, <2>3
       DEF CallReturns, TypedInv, TypeOK, queue, process, Locations
<1>10. CASE CallRaises(w)
  <2>1. PICK i \in todo[w] :
          /\ log' = [log EXCEPT ![w] =
                       Logged(log[w], "command_execution_failed", hand[w], i)]
          /\ StepEnds(w, i, "failed")
          /\ todo' = [todo EXCEPT ![w] = IF StopOnFailure THEN {} ELSE todo[w] \ {i}]
    BY <1>10 DEF CallRaises, AfterFailure
  <2>2. log' \in [Workers -> Seq(LogEntry)] /\ \A v \in Workers : Len(log'[v]) <= LogMax
    BY <1>3, <1>6, <2>1 DEF Events
  <2>3. todo' \in [Workers -> SUBSET Nat]
    BY <1>2, <2>1
  <2>4. QED
    BY <1>4, <1>10, <2>1, <2>2, <2>3
       DEF CallRaises, AfterFailure, TypedInv, TypeOK, queue, process, memory, Locations
<1>11. CASE FinishRun(w)
  <2>1. seen' \in [Workers -> [RunbookIds -> Timestamp]]
    <3>1. \A id : MarkProcessed(seen[w], id, now) \in [RunbookIds -> Timestamp]
      BY SeenTyped DEF TypedInv, TypeOK
    <3>2. QED
      BY <1>11, <3>1 DEF FinishRun, TypedInv, TypeOK
  <2>2. QED
    BY <1>1, <1>11, <2>1, SettlesTyped
       DEF FinishRun, TypedInv, TypeOK, Statuses, Marked, Locations
<1>12. QED
  BY <1>7, <1>8, <1>9, <1>10, <1>11 DEF Execute

\* Every step keeps every type.
LEMMA NextTyped ==
    ASSUME TypedInv, [Next]_vars
    PROVE  TypeOK'
<1>1. CASE Next
  BY <1>1, EnvironmentTyped, LoopTyped, HandleTyped, ExecuteTyped DEF Next
<1>2. CASE UNCHANGED vars
  BY <1>2 DEF vars, queue, process, memory, work, TypedInv, TypeOK
<1>3. QED
  BY <1>1, <1>2

-----------------------------------------------------------------------------
(* Who holds which message, and what it is being handled for.              *)

Handling == {"decoding", "validating", "executing", "calling"}
Planning == {"validating", "executing", "calling"}

\* The record of a message taken names a worker and one of its lives.
LEMMA TakenBy ==
    ASSUME TypeOK, NEW m \in DOMAIN fate
    PROVE  fate[m] \in Fate /\ fate[m].by \in Workers /\ fate[m].life \in Nat /\ m \in Nat \ {0}
<1>1. fate[m] \in Fate /\ m \in Nat \ {0}
  BY DEF TypeOK
<1>2. QED
  BY <1>1 DEF Fate

\* Steps that hand no message over and settle none.
LEMMA HandsKept ==
    ASSUME TypedInv, hand' = hand, life' = life, DOMAIN fate' = DOMAIN fate,
           \A m \in DOMAIN fate : /\ fate'[m].status = fate[m].status
                                  /\ fate'[m].by = fate[m].by /\ fate'[m].life = fate[m].life,
           \A v \in Workers : pc'[v] \in Handling <=> pc[v] \in Handling
    PROVE  InHandIsHeld'
  BY DEF TypedInv, InHandIsHeld, Handling

\* Steps that settle the message a worker holds.
LEMMA HandLetGo ==
    ASSUME TypedInv, NEW w \in Workers, hand[w] \in DOMAIN fate,
           hand' = [hand EXCEPT ![w] = 0], life' = life, DOMAIN fate' = DOMAIN fate,
           fate'[hand[w]].status # "in_hand",
           \A m \in DOMAIN fate : /\ m # hand[w] => fate'[m] = fate[m]
                                  /\ fate'[m].by = fate[m].by /\ fate'[m].life = fate[m].life,
           \A v \in Workers : v # w => pc'[v] = pc[v],
           pc'[w] \notin Handling
    PROVE  InHandIsHeld'
<1>1. hand \in [Workers -> Nat] /\ hand[w] # 0 /\ fate[hand[w]].by = w
  BY DEF TypedInv, TypeOK, InHandIsHeld
<1>2. \A v \in Workers : v # w => hand'[v] = hand[v] /\ (hand[v] # 0 => hand[v] # hand[w])
  BY <1>1 DEF TypedInv, InHandIsHeld
<1>3. hand'[w] = 0
  BY <1>1
<1>4. ASSUME NEW v \in Workers
      PROVE  /\ hand'[v] # 0 <=> pc'[v] \in Handling
             /\ hand'[v] # 0 => /\ hand'[v] \in DOMAIN fate'
                               /\ fate'[hand'[v]].status = "in_hand"
                               /\ fate'[hand'[v]].by = v /\ fate'[hand'[v]].life = life'[v]
  BY <1>2, <1>3 DEF TypedInv, InHandIsHeld, Handling
<1>5. ASSUME NEW m \in DOMAIN fate', fate'[m].status = "in_hand"
      PROVE  hand'[fate'[m].by] = m
  <2>1. m # hand[w] /\ fate[m].status = "in_hand" /\ hand[fate[m].by] = m
    BY <1>5 DEF TypedInv, InHandIsHeld
  <2>2. fate[m] \in Fate
    BY <1>5 DEF TypedInv, TypeOK
  <2>3. fate[m].by # w /\ fate[m].by \in Workers
    BY <2>1, <2>2 DEF Fate
  <2>4. QED
    BY <1>2, <1>5, <2>1, <2>3
<1>6. QED
  BY <1>4, <1>5 DEF InHandIsHeld, Handling

\* What a worker is to run stays within the plan it was built from.
LEMMA WorkKept ==
    ASSUME TypedInv,
           \A v \in Workers :
             \/ pc'[v] \notin Planning /\ pending'[v] = {} /\ todo'[v] = {}
             \/ /\ pc[v] \in Planning /\ pc'[v] \in Planning
                /\ hand'[v] = hand[v] /\ sent'[hand[v]] = sent[hand[v]]
                /\ pending'[v] \cup todo'[v] \subseteq pending[v] \cup todo[v]
                /\ pc'[v] # "validating" => pending'[v] = {}
    PROVE  WorkIsPlanned'
  BY DEF TypedInv, WorkIsPlanned, Planning

\* Where nothing is planned there is no work.
LEMMA NoWork ==
    ASSUME TypedInv, NEW v \in Workers
    PROVE  /\ pc[v] # "validating" => pending[v] = {}
           /\ pc[v] \notin Planning => todo[v] = {}
  BY DEF TypedInv, WorkIsPlanned, Planning

\* Settling a message lets go of it and of the work planned for it.
LEMMA SettlesHeld ==
    ASSUME TypedInv, NEW w \in Workers, NEW st \in Statuses, st # "in_hand",
           NEW location \in {"loop", "sleeping"}, Settle(w, st, location),
           pc[w] \in Handling,
           pending' = [pending EXCEPT ![w] = {}], todo' = [todo EXCEPT ![w] = {}]
    PROVE  InHandIsHeld' /\ WorkIsPlanned'
<1>1. hand[w] \in DOMAIN fate
  BY HandTaken DEF Handling
<1>2. /\ DOMAIN fate' = DOMAIN fate /\ fate'[hand[w]].status = st
      /\ \A m \in DOMAIN fate : /\ m # hand[w] => fate'[m] = fate[m]
                                /\ fate'[m].by = fate[m].by /\ fate'[m].life = fate[m].life
  BY <1>1, SettleTyped DEF Locations
<1>3. /\ pc'[w] = location /\ \A v \in Workers : v # w => pc'[v] = pc[v]
      /\ life' = life /\ hand' = [hand EXCEPT ![w] = 0] /\ sent' = sent
  BY DEF Settle, process, TypedInv, TypeOK
<1>4. InHandIsHeld'
  BY <1>1, <1>2, <1>3, HandLetGo DEF Handling
<1>5. /\ pending'[w] = {} /\ todo'[w] = {}
      /\ \A v \in Workers : v # w => /\ pending'[v] = pending[v] /\ todo'[v] = todo[v]
                                     /\ hand'[v] = hand[v]
  BY <1>3 DEF TypedInv, TypeOK
<1>6. WorkIsPlanned'
  BY <1>3, <1>5, WorkKept, NoWork DEF Planning
<1>7. QED
  BY <1>4, <1>6

\* The end of a process: what it held is settled, what it planned is gone.
LEMMA EndHeld ==
    ASSUME TypedInv, NEW w \in Workers, ProcessEnds(w),
           \/ hand[w] = 0 /\ fate' = fate
           \/ hand[w] # 0 /\ fate' = [fate EXCEPT ![hand[w]] = Settled(@, "crashed")]
    PROVE  InHandIsHeld' /\ WorkIsPlanned'
<1>1. /\ pc'[w] = "down" /\ \A v \in Workers : v # w => pc'[v] = pc[v]
      /\ life' = life /\ hand' = [hand EXCEPT ![w] = 0] /\ sent' = sent
      /\ pending'[w] = {} /\ todo'[w] = {}
      /\ \A v \in Workers : v # w => /\ pending'[v] = pending[v] /\ todo'[v] = todo[v]
                                     /\ hand'[v] = hand[v]
  BY DEF ProcessEnds, TypedInv, TypeOK
<1>2. InHandIsHeld'
  <2>1. CASE hand[w] = 0
    BY <1>1, <2>1 DEF TypedInv, TypeOK, InHandIsHeld
  <2>2. CASE hand[w] # 0
    <3>1. hand[w] \in DOMAIN fate /\ fate[hand[w]] \in Fate /\ fate \in Seq(Fate)
      BY <2>2 DEF TypedInv, TypeOK, InHandIsHeld
    <3>2. /\ Settled(fate[hand[w]], "crashed") \in Fate
          /\ Settled(fate[hand[w]], "crashed").by = fate[hand[w]].by
          /\ Settled(fate[hand[w]], "crashed").life = fate[hand[w]].life
          /\ Settled(fate[hand[w]], "crashed").status = "crashed"
      BY <3>1 DEF Settled, Fate, Statuses, TypedInv, TypeOK
    <3>3. /\ DOMAIN fate' = DOMAIN fate /\ fate'[hand[w]].status # "in_hand"
          /\ \A m \in DOMAIN fate : /\ m # hand[w] => fate'[m] = fate[m]
                                    /\ fate'[m].by = fate[m].by
                                    /\ fate'[m].life = fate[m].life
      BY <2>2, <3>1, <3>2, ChangedFate
    <3>4. QED
      BY <1>1, <3>1, <3>3, HandLetGo DEF Handling
  <2>3. QED
    BY <2>1, <2>2
<1>3. WorkIsPlanned'
  BY <1>1, WorkKept, NoWork DEF Planning
<1>4. QED
  BY <1>2, <1>3

\* The environment hands no message over; a crash settles the one in hand.
LEMMA EnvironmentHeld ==
    ASSUME TypedInv, Environment
    PROVE  InHandIsHeld' /\ WorkIsPlanned'
<1>1. CASE Tick \/ \E w \in Workers : Signal(w)
  <2>1. UNCHANGED <<sent, fate, life, pc, hand, pending, todo>>
    BY <1>1 DEF Tick, Signal, queue, process, memory, work
  <2>2. QED
    BY <2>1, HandsKept, WorkKept, NoWork DEF Planning
<1>2. ASSUME NEW p \in Payloads, Push(p)
      PROVE  InHandIsHeld' /\ WorkIsPlanned'
  <2>1. UNCHANGED <<fate, life, pc, hand, pending, todo>> /\ sent' = Append(sent, p)
    BY <1>2 DEF Push, process, memory, work
  <2>2. \A m \in DOMAIN sent : sent'[m] = sent[m]
    BY <2>1 DEF TypedInv, TypeOK
  <2>3. InHandIsHeld'
    BY <2>1, HandsKept
  <2>4. \A v \in Workers : pc[v] \in Planning => sent'[hand[v]] = sent[hand[v]]
    BY <2>2, HandTaken DEF Planning
  <2>5. QED
    BY <2>1, <2>3, <2>4, WorkKept, NoWork DEF Planning
<1>3. ASSUME NEW w \in Workers, Start(w)
      PROVE  InHandIsHeld' /\ WorkIsPlanned'
  <2>1. /\ UNCHANGED <<sent, fate, hand, pending, todo>>
        /\ pc[w] = "down" /\ pc'[w] = "loop"
        /\ \A v \in Workers : v # w => pc'[v] = pc[v] /\ life'[v] = life[v]
    BY <1>3 DEF Start, queue, memory, work, TypedInv, TypeOK
  <2>2. InHandIsHeld'
    BY <2>1 DEF TypedInv, InHandIsHeld
  <2>3. QED
    BY <2>1, <2>2, WorkKept, NoWork DEF Planning
<1>4. ASSUME NEW w \in Workers, Crash(w)
      PROVE  InHandIsHeld' /\ WorkIsPlanned'
  BY <1>4, EndHeld DEF Crash
<1>5. QED
  BY <1>1, <1>2, <1>3, <1>4 DEF Environment

\* BRPOP hands a new message to the worker that asked; nothing else in run() does.
LEMMA LoopHeld ==
    ASSUME TypedInv, NEW w \in Workers, Loop(w)
    PROVE  InHandIsHeld' /\ WorkIsPlanned'
<1>1. CASE StopCleanly(w)
  <2>1. hand[w] = 0
    BY <1>1 DEF StopCleanly, TypedInv, InHandIsHeld
  <2>2. QED
    BY <1>1, <2>1, EndHeld DEF StopCleanly
<1>2. CASE \/ Connect(w) \/ ConnectRefused(w) \/ ConnectTimeout(w) \/ ConnectError(w)
           \/ Poll(w) \/ PollTimesOut(w) \/ PollConnectionError(w) \/ PollError(w)
           \/ Wake(w)
  <2>1. /\ UNCHANGED <<sent, fate, life, hand, pending, todo>>
        /\ pc[w] \notin Handling /\ pc'[w] \notin Handling
        /\ \A v \in Workers : v # w => pc'[v] = pc[v]
    BY <1>2 DEF Connect, ConnectRefused, ConnectTimeout, ConnectError, Poll, Turns,
                PollTimesOut, PollConnectionError, PollError, Wake, Goes, Handling,
                process, TypedInv, TypeOK
  <2>2. InHandIsHeld'
    BY <2>1, HandsKept
  <2>3. QED
    BY <2>1, <2>2, WorkKept, NoWork DEF Planning, Handling
<1>3. CASE Pop(w) \/ ReplyLost(w)
  <2>1. /\ UNCHANGED <<sent, life, pending, todo>> /\ pc[w] = "polling"
        /\ pc'[w] \in {"polling", "decoding"}
        /\ \A v \in Workers : v # w => pc'[v] = pc[v]
    BY <1>3 DEF Pop, ReplyLost, Goes, process, TypedInv, TypeOK
  <2>2. WorkIsPlanned'
    <3>1. \A v \in Workers : v # w => hand'[v] = hand[v]
      BY <1>3 DEF Pop, ReplyLost, TypedInv, TypeOK
    <3>2. QED
      BY <2>1, <3>1, WorkKept, NoWork DEF Planning
  <2>3. fate \in Seq(Fate) /\ hand \in [Workers -> Nat] /\ Len(fate) \in Nat /\ hand[w] = 0
    <3>1. hand[w] = 0
      BY <2>1 DEF TypedInv, InHandIsHeld
    <3>2. QED
      BY <3>1 DEF TypedInv, TypeOK
  <2>4. InHandIsHeld'
    <3>1. CASE Pop(w)
      <4>1. fate' = Append(fate, NewFate(w, "in_hand")) /\ hand' = [hand EXCEPT ![w] = Len(fate) + 1]
            /\ pc'[w] = "decoding"
        BY <3>1 DEF Pop, Goes, TypedInv, TypeOK
      <4>2. /\ DOMAIN fate' = DOMAIN fate \cup {Len(fate) + 1}
            /\ fate'[Len(fate) + 1] = NewFate(w, "in_hand")
            /\ \A m \in DOMAIN fate : fate'[m] = fate[m]
        BY <2>3, <4>1
      <4>3. /\ NewFate(w, "in_hand").status = "in_hand" /\ NewFate(w, "in_hand").by = w
            /\ NewFate(w, "in_hand").life = life[w]
        BY DEF NewFate
      <4>4. hand'[w] = Len(fate) + 1 /\ \A v \in Workers : v # w => hand'[v] = hand[v]
        BY <2>3, <4>1
      <4>5. \A m \in DOMAIN fate : fate[m].status = "in_hand" => fate[m].by \in Workers /\ fate[m].by # w
        BY <2>3, TakenBy DEF TypedInv, InHandIsHeld
      <4>6. QED
        BY <2>1, <2>3, <4>1, <4>2, <4>3, <4>4, <4>5 DEF TypedInv, InHandIsHeld
    <3>2. CASE ReplyLost(w)
      <4>1. fate' = Append(fate, NewFate(w, "reply_lost")) /\ hand' = hand /\ pc'[w] = "polling"
        BY <3>2 DEF ReplyLost, Goes, TypedInv, TypeOK
      <4>2. /\ DOMAIN fate' = DOMAIN fate \cup {Len(fate) + 1}
            /\ fate'[Len(fate) + 1].status = "reply_lost"
            /\ \A m \in DOMAIN fate : fate'[m] = fate[m]
        BY <2>3, <4>1 DEF NewFate
      <4>3. QED
        BY <2>1, <2>3, <4>1, <4>2 DEF TypedInv, InHandIsHeld
    <3>3. QED
      BY <1>3, <3>1, <3>2
  <2>5. QED
    BY <2>2, <2>4
<1>4. QED
  BY <1>1, <1>2, <1>3 DEF Loop

\* _handle_message keeps its message until it settles it, on every path, and
\* plans no action but those built from it.
LEMMA HandleHeld ==
    ASSUME TypedInv, NEW w \in Workers, Handle(w)
    PROVE  InHandIsHeld' /\ WorkIsPlanned'
<1>0. /\ pending \in [Workers -> SUBSET Nat] /\ todo \in [Workers -> SUBSET Nat]
      /\ pc \in [Workers -> Locations]
  BY DEF TypedInv, TypeOK
<1>1. CASE DiscardPayload(w) \/ RejectNonObject(w) \/ SkipDuplicate(w)
           \/ ParseRaises(w) \/ NoActions(w)
  <2>1. pc[w] = "decoding" /\ UNCHANGED <<pending, todo>>
    BY <1>1 DEF DiscardPayload, RejectNonObject, SkipDuplicate, ParseRaises, NoActions,
                IsNew, Decodes
  <2>2. pending' = [pending EXCEPT ![w] = {}] /\ todo' = [todo EXCEPT ![w] = {}]
    <3>1. pending[w] = {} /\ todo[w] = {}
      BY <2>1, NoWork DEF Planning
    <3>2. QED
      BY <1>0, <2>1, <3>1
  <2>3. \E st \in {"discarded", "aborted", "duplicate", "no_actions"},
          l \in {"loop", "sleeping"} : Settle(w, st, l)
    BY <1>1 DEF DiscardPayload, RejectNonObject, SkipDuplicate, ParseRaises, NoActions
  <2>4. QED
    BY <2>1, <2>2, <2>3, SettlesHeld DEF Handling, Statuses, Marked
<1>2. CASE BuildPlan(w)
  <2>1. /\ UNCHANGED <<fate, sent, life, hand, todo>>
        /\ pc[w] = "decoding" /\ pc'[w] = "validating"
        /\ pending'[w] = BuildExecutionPlan(sent[hand[w]])
        /\ sent[hand[w]].kind = "runbook" /\ ~PlanRaises(sent[hand[w]])
        /\ \A v \in Workers : v # w => pc'[v] = pc[v] /\ pending'[v] = pending[v]
    BY <1>0, <1>2 DEF BuildPlan, IsNew, Decodes, queue, process
  <2>2. InHandIsHeld'
    BY <2>1, HandsKept DEF Handling
  <2>3. todo[w] = {}
    BY <2>1, NoWork DEF Planning
  <2>4. QED
    BY <2>1, <2>2, <2>3 DEF TypedInv, WorkIsPlanned
<1>3. CASE ApproveAction(w) \/ RejectAction(w)
  <2>1. /\ UNCHANGED <<fate, sent, life, hand, pc>> /\ pc[w] = "validating"
        /\ pending'[w] \cup todo'[w] \subseteq pending[w] \cup todo[w]
        /\ \A v \in Workers : v # w => pending'[v] = pending[v] /\ todo'[v] = todo[v]
    <3>1. CASE ApproveAction(w)
      BY <1>0, <3>1 DEF ApproveAction, Validates, IsNext, queue, process
    <3>2. CASE RejectAction(w)
      BY <1>0, <3>2 DEF RejectAction, Validates, queue, process
    <3>3. QED
      BY <1>3, <3>1, <3>2
  <2>2. InHandIsHeld'
    BY <2>1, HandsKept
  <2>3. QED
    BY <2>1, <2>2, WorkKept, NoWork DEF Planning
<1>4. CASE ValidationRaises(w)
  BY <1>4, SettlesHeld DEF ValidationRaises, Validates, Handling, Statuses
<1>5. CASE RejectAll(w)
  <2>1. pending' = [pending EXCEPT ![w] = {}] /\ todo' = [todo EXCEPT ![w] = {}]
    BY <1>0, <1>5 DEF RejectAll
  <2>2. QED
    BY <1>5, <2>1, SettlesHeld DEF RejectAll, Handling, Statuses, Marked
<1>6. CASE ApprovePlan(w)
  <2>1. /\ UNCHANGED <<sent, life, hand, pending, todo>>
        /\ pc[w] = "validating" /\ pc'[w] = "executing" /\ pending[w] = {}
        /\ \A v \in Workers : v # w => pc'[v] = pc[v]
    BY <1>0, <1>6 DEF ApprovePlan, process, work
  <2>2. InHandIsHeld'
    BY <1>6, <2>1, HandsKept, ApprovedTyped DEF Handling
  <2>3. QED
    BY <2>1, <2>2, WorkKept, NoWork DEF Planning
<1>7. QED
  BY <1>1, <1>2, <1>3, <1>4, <1>5, <1>6 DEF Handle

\* Executor.run keeps the message until the run is over.
LEMMA ExecuteHeld ==
    ASSUME TypedInv, NEW w \in Workers, Execute(w)
    PROVE  InHandIsHeld' /\ WorkIsPlanned'
<1>0. /\ pending \in [Workers -> SUBSET Nat] /\ todo \in [Workers -> SUBSET Nat]
      /\ pc \in [Workers -> Locations]
  BY DEF TypedInv, TypeOK
<1>1. CASE DryRunStep(w) \/ StartCall(w) \/ CallReturns(w) \/ CallRaises(w)
  <2>1. /\ UNCHANGED <<fate, sent, life, hand, pending>> /\ todo'[w] \subseteq todo[w]
        /\ pc[w] \in {"executing", "calling"} /\ pc'[w] \in {"executing", "calling"}
        /\ \A v \in Workers : v # w => pc'[v] = pc[v] /\ todo'[v] = todo[v]
    <3>1. CASE DryRunStep(w)
      BY <1>0, <3>1 DEF DryRunStep, queue, process
    <3>2. CASE StartCall(w)
      BY <1>0, <3>2 DEF StartCall, queue, process, work
    <3>3. CASE CallReturns(w)
      BY <1>0, <3>3 DEF CallReturns, queue, process
    <3>4. CASE CallRaises(w)
      BY <1>0, <3>4 DEF CallRaises, AfterFailure, queue, process
    <3>5. QED
      BY <1>1, <3>1, <3>2, <3>3, <3>4
  <2>2. InHandIsHeld'
    BY <2>1, HandsKept DEF Handling
  <2>3. QED
    BY <2>1, <2>2, WorkKept, NoWork DEF Planning
<1>2. CASE FinishRun(w)
  <2>1. pending[w] = {}
    BY <1>2, NoWork DEF FinishRun
  <2>2. pending' = [pending EXCEPT ![w] = {}] /\ todo' = [todo EXCEPT ![w] = {}]
    BY <1>0, <1>2, <2>1 DEF FinishRun
  <2>3. QED
    BY <1>2, <2>2, SettlesHeld DEF FinishRun, Handling, Statuses, Marked
<1>3. QED
  BY <1>1, <1>2 DEF Execute

\* No process holds a message before it starts.
LEMMA InitInv == Init => TypedInv
<1> SUFFICES ASSUME Init
             PROVE  TypedInv
  OBVIOUS
<1>1. InHandIsHeld
  BY DEF Init, InHandIsHeld
<1>2. WorkIsPlanned
  BY DEF Init, WorkIsPlanned
<1>3. QED
  BY <1>1, <1>2, InitTyped DEF TypedInv

\* The typed invariant is inductive.
LEMMA NextInv == TypedInv /\ [Next]_vars => TypedInv'
<1> SUFFICES ASSUME TypedInv, [Next]_vars
             PROVE  TypedInv'
  OBVIOUS
<1>1. TypeOK'
  BY NextTyped
<1>2. InHandIsHeld' /\ WorkIsPlanned'
  <2>1. CASE Next
    BY <2>1, EnvironmentHeld, LoopHeld, HandleHeld, ExecuteHeld DEF Next
  <2>2. CASE UNCHANGED vars
    BY <2>2 DEF vars, queue, process, memory, work, TypedInv, InHandIsHeld, WorkIsPlanned
  <2>3. QED
    BY <2>1, <2>2
<1>3. QED
  BY <1>1, <1>2 DEF TypedInv

\* Every variable keeps its type, and the execution log its bound.
THEOREM TypeCorrect == Spec => []TypeOK
<1>1. TypedInv => TypeOK
  BY DEF TypedInv
<1>2. QED
  BY <1>1, InitInv, NextInv, PTL DEF Spec

\* No message is ever in two hands, and none is left unsettled.
THEOREM HandsCorrect == Spec => []InHandIsHeld
<1>1. TypedInv => InHandIsHeld
  BY DEF TypedInv
<1>2. QED
  BY <1>1, InitInv, NextInv, PTL DEF Spec

-----------------------------------------------------------------------------
(* The cooldown.                                                           *)

\* Steps that add nothing to the history, keep the trackers of the processes
\* that live on, and approve nothing.
Quiet ==
    /\ now' \in Nat /\ now <= now' /\ steps' = steps /\ life' = life
    /\ DOMAIN fate \subseteq DOMAIN fate'
    /\ \A m \in DOMAIN fate : /\ fate'[m].by = fate[m].by /\ fate'[m].life = fate[m].life
                              /\ sent'[m] = sent[m]
    /\ \A v \in Workers : /\ todo'[v] \subseteq todo[v]
                          /\ todo'[v] # {} => hand'[v] = hand[v]
                          /\ pc'[v] # "down" => pc[v] # "down" /\ lastRun'[v] = lastRun[v]

\* The key of a recorded step does not change while its message stays.
LEMMA KeyStays ==
    ASSUME CooldownInv, NEW s \in steps, sent'[s.msg] = sent[s.msg]
    PROVE  KeyOf(s)' = KeyOf(s)
  BY DEF KeyOf, ActionOf

\* A recorded step is the step of a message taken, lies in the past, and has a
\* cooldown key.
LEMMA StepFacts ==
    ASSUME CooldownInv, NEW s \in steps
    PROVE  /\ s.msg \in DOMAIN fate /\ s.msg \in DOMAIN sent /\ s.at \in Nat /\ s.at <= now
           /\ s.msg \in Nat /\ now \in Nat /\ CooldownSeconds \in Nat
           /\ KeyOf(s) \in CooldownKeys
<1>1. s \in Step /\ now \in Nat
  BY DEF CooldownInv, TypeOK
<1>2. s.msg \in DOMAIN fate /\ s.at <= now /\ KeyOf(s) \in CooldownKeys
  BY DEF CooldownInv, HistoryIsPast
<1>3. s.msg \in DOMAIN sent
  BY <1>2 DEF CooldownInv, TypeOK
<1>4. QED
  BY <1>1, <1>2, <1>3, TrackerAssumption DEF Step

\* A worker with actions to run has a message in hand.
LEMMA WorkHeld ==
    ASSUME CooldownInv, NEW v \in Workers, todo[v] # {}
    PROVE  hand[v] \in DOMAIN fate /\ hand[v] # 0
<1>1. pc[v] \in {"validating", "executing", "calling"}
  BY DEF CooldownInv, WorkIsPlanned
<1>2. QED
  BY <1>1 DEF CooldownInv, InHandIsHeld

\* A quiet step keeps the tracker's memory, the approvals and the spacing.
LEMMA QuietStep ==
    ASSUME CooldownInv, Quiet
    PROVE  /\ TrackerRemembers' /\ ApprovedIsCool' /\ CooldownSpacing'
           /\ \A s \in steps' : /\ s.msg \in DOMAIN fate' /\ s.at <= now'
                                /\ KeyOf(s)' \in CooldownKeys
<1>1. \A s \in steps : /\ KeyOf(s)' = KeyOf(s) /\ KeyOf(s) \in CooldownKeys
                       /\ s.msg \in DOMAIN fate /\ s.at \in Nat /\ s.at <= now /\ now \in Nat
                       /\ CooldownSeconds \in Nat
                       /\ \A v \in Workers : Mine(v, s.msg)' <=> Mine(v, s.msg)
  BY StepFacts, KeyStays DEF Quiet, Mine
<1>2. TrackerRemembers'
  BY <1>1 DEF Quiet, TrackerRemembers, CooldownInv, Took
<1>3. ApprovedIsCool'
  <2> SUFFICES ASSUME NEW v \in Workers, NEW i \in todo'[v], NEW s \in steps',
                      Took(s)', s.msg # hand'[v], Mine(v, s.msg)',
                      KeyOf(s)' = CooldownKey(ActionOf(hand[v], i))'
               PROVE  now' >= s.at + CooldownSeconds
    BY DEF ApprovedIsCool
  <2>1. i \in todo[v] /\ hand'[v] = hand[v] /\ s \in steps
    BY DEF Quiet
  <2>2. hand[v] \in DOMAIN fate
    BY <2>1, WorkHeld
  <2>3. CooldownKey(ActionOf(hand[v], i))' = CooldownKey(ActionOf(hand[v], i))
    BY <2>1, <2>2 DEF ActionOf, Quiet
  <2>4. now >= s.at + CooldownSeconds
    BY <1>1, <2>1, <2>3 DEF CooldownInv, ApprovedIsCool, Took
  <2>5. QED
    BY <1>1, <2>1, <2>4 DEF Quiet
<1>4. CooldownSpacing'
  <2> SUFFICES ASSUME NEW s1 \in steps', NEW s2 \in steps',
                      Took(s1)', s1.msg < s2.msg,
                      SameProcess(s1.msg, s2.msg)', SameKey(s1, s2)'
               PROVE  s2.at >= s1.at + CooldownSeconds
    BY DEF CooldownSpacing
  <2>1. s1 \in steps /\ s2 \in steps
    BY DEF Quiet
  <2>2. SameProcess(s1.msg, s2.msg) /\ SameKey(s1, s2) /\ Took(s1)
    BY <1>1, <2>1 DEF SameProcess, SameKey, Quiet, Took
  <2>3. QED
    BY <2>1, <2>2 DEF CooldownInv, CooldownSpacing
<1>5. QED
  BY <1>1, <1>2, <1>3, <1>4 DEF Quiet

\* Nothing is taken: a message in hand stays the newest of its process.
LEMMA QuietHistory ==
    ASSUME CooldownInv, Quiet, DOMAIN fate' = DOMAIN fate,
           \A v \in Workers : hand'[v] # 0 => hand'[v] = hand[v]
    PROVE  HistoryIsPast'
<1>1. \A s \in steps' : /\ s.msg \in DOMAIN fate' /\ s.at <= now'
                        /\ KeyOf(s)' \in CooldownKeys
  BY QuietStep
<1>2. QED
  BY <1>1 DEF Quiet, CooldownInv, HistoryIsPast, Mine

CoolParts == HistoryIsPast /\ TrackerRemembers /\ ApprovedIsCool /\ CooldownSpacing

\* An action that is run: its cooldown was behind it when it was approved, so
\* it is now, and from now on the tracker knows of it.
LEMMA StepKeepsCool ==
    ASSUME CooldownInv, NEW w \in Workers, NEW i \in todo[w],
           NEW status \in {"success", "failed", "dry_run"}, StepEnds(w, i, status),
           IF status = "failed" THEN lastRun' = lastRun ELSE Recorded(w, i),
           UNCHANGED <<now, sent, fate, life, hand>>,
           \A v \in Workers : todo'[v] \subseteq todo[v] /\ (pc'[v] = "down" <=> pc[v] = "down")
    PROVE  CoolParts'
<1> DEFINE new == [msg |-> hand[w], index |-> i, status |-> status, at |-> now]
           key == CooldownKey(ActionOf(hand[w], i))
<1>1. steps' = steps \cup {new}
  BY DEF StepEnds
<1>2. /\ hand[w] \in DOMAIN fate /\ hand[w] \in Nat /\ hand[w] # 0 /\ now \in Nat
      /\ key \in CooldownKeys /\ Mine(w, hand[w]) /\ CooldownSeconds \in Nat
      /\ \A m \in DOMAIN fate : fate[m].by \in Workers /\ m \in Nat
  <2>1. TypedInv /\ TypeOK
    BY DEF CooldownInv, TypedInv
  <2>2. hand[w] \in DOMAIN fate /\ hand[w] # 0 /\ Mine(w, hand[w])
    BY WorkHeld DEF CooldownInv, InHandIsHeld, Mine
  <2>3. key \in CooldownKeys
    BY <2>1, WorkIsAction
  <2>4. QED
    BY <2>1, <2>2, <2>3, TakenBy, TrackerAssumption DEF TypeOK
<1>3. \A s \in steps : /\ KeyOf(s)' = KeyOf(s) /\ s.msg \in DOMAIN fate /\ s.msg \in Nat
                       /\ s.at \in Nat /\ s.at <= now /\ KeyOf(s) \in CooldownKeys
  BY StepFacts, KeyStays
<1>4. /\ new.msg = hand[w] /\ new.at = now /\ new.status = status /\ KeyOf(new)' = key
  BY DEF KeyOf, ActionOf
<1>5. \A v \in Workers : \A m : Mine(v, m)' <=> Mine(v, m)
  BY DEF Mine
<1>6. HistoryIsPast'
  <2>1. \A s \in steps' : /\ s.msg \in DOMAIN fate' /\ s.at <= now'
                          /\ KeyOf(s)' \in CooldownKeys
    BY <1>1, <1>2, <1>3, <1>4
  <2>2. QED
    BY <2>1, <1>5 DEF CooldownInv, HistoryIsPast
<1>7. TrackerRemembers'
  <2> SUFFICES ASSUME NEW v \in Workers, NEW s \in steps', pc'[v] # "down",
                      Took(s)', Mine(v, s.msg)'
               PROVE  s.at <= lastRun'[v][KeyOf(s)']
    BY DEF TrackerRemembers
  <2>1. pc[v] # "down" /\ Mine(v, s.msg) /\ Took(s)
    BY <1>5 DEF Took
  <2>2. lastRun \in [Workers -> [CooldownKeys -> Timestamp]]
    BY DEF CooldownInv, TypeOK
  <2>3. CASE s \in steps
    <3>1. /\ s.at <= lastRun[v][KeyOf(s)] /\ KeyOf(s)' = KeyOf(s) /\ s.at <= now
          /\ KeyOf(s) \in CooldownKeys
      BY <1>3, <2>1, <2>3 DEF CooldownInv, TrackerRemembers
    <3>2. lastRun'[v][KeyOf(s)] \in {lastRun[v][KeyOf(s)], now}
      <4>1. CASE status = "failed"
        BY <4>1
      <4>2. CASE status # "failed"
        BY <1>2, <2>2, <3>1, <4>2 DEF Recorded, Record
      <4>3. QED
        BY <4>1, <4>2
    <3>3. QED
      BY <3>1, <3>2
  <2>4. CASE s = new
    <3>1. status # "failed"
      BY <1>4, <2>1, <2>4 DEF Took
    <3>2. v = w
      BY <1>2, <1>4, <2>1, <2>4 DEF Mine
    <3>3. lastRun'[w][key] = now
      BY <1>2, <2>2, <3>1 DEF Recorded, Record
    <3>4. QED
      BY <1>2, <1>4, <2>4, <3>2, <3>3
  <2>5. QED
    BY <1>1, <2>3, <2>4
<1>8. ApprovedIsCool'
  <2> SUFFICES ASSUME NEW v \in Workers, NEW j \in todo'[v], NEW s \in steps',
                      Took(s)', s.msg # hand'[v], Mine(v, s.msg)',
                      KeyOf(s)' = CooldownKey(ActionOf(hand[v], j))'
               PROVE  now' >= s.at + CooldownSeconds
    BY DEF ApprovedIsCool
  <2>1. j \in todo[v] /\ Mine(v, s.msg) /\ Took(s)
    BY <1>5 DEF Took
  <2>2. s \in steps
    <3>1. CASE s = new
      <4>1. v = w
        BY <1>2, <1>4, <2>1, <3>1 DEF Mine
      <4>2. QED
        BY <1>4, <3>1, <4>1
    <3>2. QED
      BY <1>1, <3>1
  <2>3. KeyOf(s) = CooldownKey(ActionOf(hand[v], j))
    BY <1>3, <2>2 DEF ActionOf
  <2>4. QED
    BY <2>1, <2>2, <2>3 DEF CooldownInv, ApprovedIsCool
<1>9. CooldownSpacing'
  <2> SUFFICES ASSUME NEW s1 \in steps', NEW s2 \in steps', Took(s1)', s1.msg < s2.msg,
                      SameProcess(s1.msg, s2.msg)', SameKey(s1, s2)'
               PROVE  s2.at >= s1.at + CooldownSeconds
    BY DEF CooldownSpacing
  <2>1. SameProcess(s1.msg, s2.msg) /\ KeyOf(s1)' = KeyOf(s2)' /\ Took(s1)
    BY DEF SameProcess, SameKey, Took
  <2>2. CASE s1 \in steps /\ s2 \in steps
    BY <1>3, <2>1, <2>2 DEF CooldownInv, CooldownSpacing, SameKey
  <2>3. CASE s1 \in steps /\ s2 = new
    <3>1. Mine(w, s1.msg) /\ s1.msg # hand[w] /\ KeyOf(s1) = key
      BY <1>2, <1>3, <1>4, <2>1, <2>3 DEF SameProcess, Mine
    <3>2. now >= s1.at + CooldownSeconds
      BY <2>1, <2>3, <3>1 DEF CooldownInv, ApprovedIsCool
    <3>3. QED
      BY <1>4, <2>3, <3>2
  <2>4. CASE s1 = new
    <3>1. s2 # new /\ s2 \in steps
      BY <1>1, <1>2, <1>4, <2>4
    <3>2. Mine(w, s2.msg) /\ s2.msg \in DOMAIN fate
      BY <1>2, <1>3, <1>4, <2>1, <2>4, <3>1 DEF SameProcess, Mine
    <3>3. s2.msg <= hand[w]
      BY <1>2, <3>2 DEF CooldownInv, HistoryIsPast
    <3>4. QED
      BY <1>2, <1>3, <1>4, <2>4, <3>1, <3>3
  <2>5. QED
    BY <1>1, <2>2, <2>3, <2>4
<1>10. QED
  BY <1>6, <1>7, <1>8, <1>9 DEF CoolParts

\* A quiet step that takes no message keeps every part of the invariant.
LEMMA QuietCool ==
    ASSUME CooldownInv, Quiet, DOMAIN fate' = DOMAIN fate,
           \A v \in Workers : hand'[v] # 0 => hand'[v] = hand[v]
    PROVE  CoolParts'
  BY QuietStep, QuietHistory DEF CoolParts

\* The end of a process forgets its tracker, and nothing is asked of it.
LEMMA EndCool ==
    ASSUME CooldownInv, NEW w \in Workers, ProcessEnds(w),
           \/ hand[w] = 0 /\ fate' = fate
           \/ hand[w] # 0 /\ fate' = [fate EXCEPT ![hand[w]] = Settled(@, "crashed")]
    PROVE  CoolParts'
<1>1. /\ TypedInv /\ TypeOK /\ now \in Nat /\ DOMAIN fate \subseteq DOMAIN sent
      /\ fate \in Seq(Fate)
  BY DEF CooldownInv, TypedInv, TypeOK
<1>2. /\ DOMAIN fate' = DOMAIN fate
      /\ \A m \in DOMAIN fate : fate'[m].by = fate[m].by /\ fate'[m].life = fate[m].life
  <2>1. CASE hand[w] = 0
    BY <2>1
  <2>2. CASE hand[w] # 0
    <3>1. hand[w] \in DOMAIN fate /\ fate[hand[w]] \in Fate
      BY <1>1, <2>2 DEF TypedInv, InHandIsHeld
    <3>2. /\ Settled(fate[hand[w]], "crashed") \in Fate
          /\ Settled(fate[hand[w]], "crashed").by = fate[hand[w]].by
          /\ Settled(fate[hand[w]], "crashed").life = fate[hand[w]].life
      BY <1>1, <3>1 DEF Settled, Fate, Statuses
    <3>3. QED
      BY <1>1, <2>2, <3>1, <3>2, ChangedFate
  <2>3. QED
    BY <2>1, <2>2
<1>3. /\ UNCHANGED <<now, sent, steps, life>> /\ pc'[w] = "down"
      /\ todo'[w] = {} /\ hand'[w] = 0
      /\ \A v \in Workers : v # w => /\ pc'[v] = pc[v] /\ todo'[v] = todo[v]
                                     /\ hand'[v] = hand[v] /\ lastRun'[v] = lastRun[v]
  BY <1>1 DEF ProcessEnds, TypeOK
<1>4. QED
  BY <1>1, <1>2, <1>3, QuietCool DEF Quiet

\* The clock only lengthens a cooldown, and a new process owes none.
LEMMA EnvironmentCool ==
    ASSUME CooldownInv, Environment
    PROVE  CoolParts'
<1>0. /\ TypedInv /\ TypeOK /\ now \in Nat
      /\ DOMAIN fate \subseteq DOMAIN sent
  BY DEF CooldownInv, TypedInv, TypeOK
<1>1. CASE Tick
  BY <1>0, <1>1, QuietCool DEF Tick, Quiet, queue, process, memory, work
<1>2. ASSUME NEW w \in Workers, Signal(w)
      PROVE  CoolParts'
  BY <1>0, <1>2, QuietCool DEF Signal, Quiet, queue, process, memory, work
<1>3. ASSUME NEW p \in Payloads, Push(p)
      PROVE  CoolParts'
  <2>1. \A m \in DOMAIN sent : sent'[m] = sent[m]
    BY <1>0, <1>3 DEF Push, TypeOK
  <2>2. QED
    BY <1>0, <1>3, <2>1, QuietCool DEF Push, Quiet, process, memory, work
<1>4. ASSUME NEW w \in Workers, Start(w)
      PROVE  CoolParts'
  <2>1. /\ UNCHANGED <<now, sent, fate, steps, lastRun, hand, pending, todo>>
        /\ pc[w] = "down" /\ life'[w] = life[w] + 1 /\ life[w] \in Nat
        /\ \A v \in Workers : v # w => pc'[v] = pc[v] /\ life'[v] = life[v]
    BY <1>0, <1>4 DEF Start, queue, memory, work, TypeOK
  <2>2. \A m \in DOMAIN fate :
          /\ ~Mine(w, m)'
          /\ \A v \in Workers : v # w => (Mine(v, m)' <=> Mine(v, m))
          /\ fate[m].life <= life'[fate[m].by]
    BY <1>0, <2>1, TakenBy DEF CooldownInv, HistoryIsPast, Mine
  <2>3. \A s \in steps : s.msg \in DOMAIN fate
    BY StepFacts
  <2>4. todo[w] = {}
    BY <1>0, <2>1, NoWork DEF Planning
  <2>5. \A x : KeyOf(x)' = KeyOf(x)
    BY <2>1 DEF KeyOf, ActionOf
  <2>6. \A m, i : ActionOf(m, i)' = ActionOf(m, i)
    BY <2>1 DEF ActionOf
  <2>7. HistoryIsPast'
    <3>1. \A s \in steps' : /\ s.msg \in DOMAIN fate' /\ s.at <= now'
                            /\ KeyOf(s)' \in CooldownKeys
      BY <2>1, <2>5 DEF CooldownInv, HistoryIsPast
    <3>2. \A v \in Workers : \A m \in DOMAIN fate' :
             hand'[v] # 0 /\ Mine(v, m)' => m <= hand'[v]
      BY <2>1, <2>2 DEF CooldownInv, HistoryIsPast
    <3>3. QED
      BY <2>1, <2>2, <3>1, <3>2 DEF HistoryIsPast
  <2>8. TrackerRemembers'
    BY <2>1, <2>2, <2>3, <2>5 DEF CooldownInv, TrackerRemembers, Took
  <2>9. ApprovedIsCool'
    BY <2>1, <2>2, <2>3, <2>4, <2>5, <2>6 DEF CooldownInv, ApprovedIsCool, Took
  <2>10. CooldownSpacing'
    BY <2>1, <2>5 DEF CooldownInv, CooldownSpacing, SameProcess, SameKey, Took
  <2>11. QED
    BY <2>7, <2>8, <2>9, <2>10 DEF CoolParts
<1>5. ASSUME NEW w \in Workers, Crash(w)
      PROVE  CoolParts'
  BY <1>0, <1>5, EndCool DEF Crash
<1>6. QED
  BY <1>1, <1>2, <1>3, <1>4, <1>5 DEF Environment

\* Taking a message: the new message is the newest of its process.
LEMMA TakenCool ==
    ASSUME CooldownInv, NEW w \in Workers, Pop(w) \/ ReplyLost(w)
    PROVE  CoolParts'
<1> DEFINE n == Len(fate) + 1
<1>0. /\ TypedInv /\ TypeOK /\ now \in Nat /\ DOMAIN fate \subseteq DOMAIN sent
      /\ fate \in Seq(Fate) /\ Len(fate) \in Nat /\ DOMAIN fate = 1..Len(fate)
  BY DEF CooldownInv, TypedInv, TypeOK
<1>1. /\ UNCHANGED <<now, sent, steps, life, lastRun, pending, todo>>
      /\ pc[w] = "polling" /\ hand[w] = 0
      /\ \A v \in Workers : v # w => pc'[v] = pc[v] /\ hand'[v] = hand[v]
      /\ hand'[w] \in {0, n}
  <2>1. pc[w] = "polling" /\ hand[w] = 0
    BY DEF Pop, ReplyLost, CooldownInv, InHandIsHeld
  <2>2. CASE Pop(w)
    BY <1>0, <2>1, <2>2 DEF Pop, Goes, process, memory, TypeOK
  <2>3. CASE ReplyLost(w)
    BY <1>0, <2>1, <2>3 DEF ReplyLost, Goes, process, memory, TypeOK
  <2>4. QED
    BY <2>2, <2>3, <2>1
<1>2. /\ DOMAIN fate' = DOMAIN fate \cup {n}
      /\ \A m \in DOMAIN fate : fate'[m] = fate[m]
      /\ fate'[n].by = w /\ fate'[n].life = life[w]
  <2>1. PICK st \in Statuses : fate' = Append(fate, NewFate(w, st))
    BY DEF Pop, ReplyLost, Statuses
  <2>2. NewFate(w, st).by = w /\ NewFate(w, st).life = life[w]
    BY DEF NewFate
  <2>3. QED
    BY <1>0, <2>1, <2>2
<1>3. todo[w] = {}
  BY <1>0, <1>1, NoWork DEF Planning
<1>4. Quiet
  BY <1>0, <1>1, <1>2, <1>3 DEF Quiet
<1>5. HistoryIsPast'
  <2>1. \A s \in steps' : s.msg \in DOMAIN fate' /\ s.at <= now' /\ KeyOf(s)' \in CooldownKeys
    BY <1>4, QuietStep
  <2>2. \A m \in DOMAIN fate' : fate'[m].life <= life'[fate'[m].by]
    <3>1. life[w] \in Nat
      BY <1>0 DEF TypeOK
    <3>2. \A m \in DOMAIN fate : fate[m].life <= life[fate[m].by]
      BY DEF CooldownInv, HistoryIsPast
    <3>3. QED
      BY <1>1, <1>2, <3>1, <3>2
  <2>3. ASSUME NEW v \in Workers, NEW m \in DOMAIN fate', hand'[v] # 0, Mine(v, m)'
        PROVE  m <= hand'[v]
    <3>1. CASE v = w
      BY <1>0, <1>1, <1>2, <2>3, <3>1
    <3>2. CASE v # w
      <4>1. m \in DOMAIN fate /\ Mine(v, m) /\ hand'[v] = hand[v]
        BY <1>1, <1>2, <2>3, <3>2 DEF Mine
      <4>2. QED
        BY <2>3, <4>1 DEF CooldownInv, HistoryIsPast
    <3>3. QED
      BY <3>1, <3>2
  <2>4. QED
    BY <2>1, <2>2, <2>3 DEF HistoryIsPast
<1>6. QED
  BY <1>4, <1>5, QuietStep DEF CoolParts

\* run() and _poll_once start no action.
LEMMA LoopCool ==
    ASSUME CooldownInv, NEW w \in Workers, Loop(w)
    PROVE  CoolParts'
<1>0. /\ TypedInv /\ TypeOK /\ now \in Nat /\ DOMAIN fate \subseteq DOMAIN sent
  BY DEF CooldownInv, TypedInv, TypeOK
<1>1. CASE StopCleanly(w)
  <2>1. hand[w] = 0
    BY <1>1 DEF StopCleanly, CooldownInv, InHandIsHeld
  <2>2. QED
    BY <1>1, <2>1, EndCool DEF StopCleanly
<1>2. CASE \/ Connect(w) \/ ConnectRefused(w) \/ ConnectTimeout(w) \/ ConnectError(w)
           \/ Poll(w) \/ PollTimesOut(w) \/ PollConnectionError(w) \/ PollError(w)
           \/ Wake(w)
  <2>1. /\ UNCHANGED <<now, sent, fate, steps, life, lastRun, hand, todo>>
        /\ pc[w] # "down"
        /\ \A v \in Workers : v # w => pc'[v] = pc[v]
    BY <1>0, <1>2 DEF Connect, ConnectRefused, ConnectTimeout, ConnectError, Poll, Turns,
                PollTimesOut, PollConnectionError, PollError, Wake, Goes,
                process, memory, TypeOK
  <2>2. QED
    BY <1>0, <2>1, QuietCool DEF Quiet
<1>3. CASE Pop(w) \/ ReplyLost(w)
  BY <1>3, TakenCool
<1>4. QED
  BY <1>1, <1>2, <1>3 DEF Loop

\* Settling a message keeps the trackers and approves nothing.
LEMMA SettlesCool ==
    ASSUME CooldownInv, NEW w \in Workers, NEW st \in Statuses,
           NEW location \in {"loop", "sleeping"}, Settle(w, st, location),
           pc[w] \in Handling, \A v \in Workers : todo'[v] \subseteq todo[v],
           todo'[w] = {}
    PROVE  CoolParts'
<1>1. /\ TypedInv /\ TypeOK /\ now \in Nat /\ DOMAIN fate \subseteq DOMAIN sent
      /\ hand[w] \in DOMAIN fate
  BY HandTaken DEF CooldownInv, TypedInv, TypeOK, Handling
<1>2. /\ DOMAIN fate' = DOMAIN fate
      /\ \A m \in DOMAIN fate : fate'[m].by = fate[m].by /\ fate'[m].life = fate[m].life
  BY <1>1, SettleTyped DEF Locations
<1>3. /\ UNCHANGED <<now, sent, steps, life, lastRun>> /\ pc[w] # "down" /\ hand'[w] = 0
      /\ \A v \in Workers : v # w => pc'[v] = pc[v] /\ hand'[v] = hand[v]
  BY <1>1 DEF Settle, process, TypeOK, Handling
<1>4. QED
  BY <1>1, <1>2, <1>3, QuietCool DEF Quiet

\* Approving an action: the tracker remembers every success and dry run of this
\* process, and allows the action.
LEMMA ApproveCool ==
    ASSUME CooldownInv, NEW w \in Workers, ApproveAction(w)
    PROVE  CoolParts'
<1>0. /\ TypedInv /\ TypeOK /\ now \in Nat /\ CooldownSeconds \in Nat
  BY TrackerAssumption DEF CooldownInv, TypedInv, TypeOK
<1>1. PICK i \in pending[w] :
        /\ pc[w] = "validating" /\ Approved(ActionOf(hand[w], i), lastRun[w], now)
        /\ todo' = [todo EXCEPT ![w] = todo[w] \cup {i}]
        /\ UNCHANGED <<now, sent, fate, steps, life, pc, lastRun, hand>>
  BY DEF ApproveAction, Validates, queue, process, memory
<1>2. \A s \in steps : /\ KeyOf(s)' = KeyOf(s) /\ s.at \in Nat /\ s.at <= now
                       /\ KeyOf(s) \in CooldownKeys
  BY <1>1, StepFacts, KeyStays
<1>3. \A v \in Workers : \A m : Mine(v, m)' <=> Mine(v, m)
  BY <1>1 DEF Mine
<1>4. HistoryIsPast'
  BY <1>1, <1>2, <1>3 DEF CooldownInv, HistoryIsPast
<1>5. TrackerRemembers'
  BY <1>1, <1>2, <1>3 DEF CooldownInv, TrackerRemembers, Took
<1>6. ApprovedIsCool'
  <2> SUFFICES ASSUME NEW v \in Workers, NEW j \in todo'[v], NEW s \in steps,
                      Took(s), s.msg # hand[v], Mine(v, s.msg),
                      KeyOf(s) = CooldownKey(ActionOf(hand[v], j))
               PROVE  now >= s.at + CooldownSeconds
    BY <1>1, <1>2, <1>3 DEF ApprovedIsCool, Took, ActionOf
  <2>1. CASE j \in todo[v]
    BY <2>1 DEF CooldownInv, ApprovedIsCool
  <2>2. CASE j \notin todo[v]
    <3>1. v = w /\ j = i
      BY <1>0, <1>1, <2>2 DEF TypeOK
    <3>2. s.at <= lastRun[w][KeyOf(s)]
      BY <1>1, <3>1 DEF CooldownInv, TrackerRemembers
    <3>3. lastRun[w][KeyOf(s)] \in Timestamp
      BY <1>0, <1>2 DEF TypeOK
    <3>4. lastRun[w][KeyOf(s)] = Never \/ now - lastRun[w][KeyOf(s)] >= CooldownSeconds
      BY <1>1, <3>1 DEF Approved, IsAllowed
    <3>5. QED
      BY <1>0, <1>2, <3>2, <3>3, <3>4 DEF Timestamp, Never
  <2>3. QED
    BY <2>1, <2>2
<1>7. CooldownSpacing'
  BY <1>1, <1>2 DEF CooldownInv, CooldownSpacing, SameProcess, SameKey, Took
<1>8. QED
  BY <1>4, <1>5, <1>6, <1>7 DEF CoolParts

\* _handle_message approves only actions whose cooldown is over.
LEMMA HandleCool ==
    ASSUME CooldownInv, NEW w \in Workers, Handle(w)
    PROVE  CoolParts'
<1>0. /\ TypedInv /\ TypeOK /\ now \in Nat /\ DOMAIN fate \subseteq DOMAIN sent
  BY DEF CooldownInv, TypedInv, TypeOK
<1>1. CASE DiscardPayload(w) \/ RejectNonObject(w) \/ SkipDuplicate(w)
           \/ ParseRaises(w) \/ NoActions(w)
  <2>1. pc[w] = "decoding" /\ todo' = todo
    BY <1>1 DEF DiscardPayload, RejectNonObject, SkipDuplicate, ParseRaises, NoActions,
                IsNew, Decodes
  <2>2. todo[w] = {}
    BY <1>0, <2>1, NoWork DEF Planning
  <2>3. \E st \in {"discarded", "aborted", "duplicate", "no_actions"},
          l \in {"loop", "sleeping"} : Settle(w, st, l)
    BY <1>1 DEF DiscardPayload, RejectNonObject, SkipDuplicate, ParseRaises, NoActions
  <2>4. QED
    BY <2>1, <2>2, <2>3, SettlesCool DEF Handling, Statuses, Marked
<1>2. CASE BuildPlan(w) \/ RejectAction(w)
  <2>1. /\ UNCHANGED <<now, sent, fate, steps, life, lastRun, hand, todo>>
        /\ pc[w] # "down"
        /\ \A v \in Workers : v # w => pc'[v] = pc[v]
    <3>1. CASE BuildPlan(w)
      BY <1>0, <3>1 DEF BuildPlan, IsNew, Decodes, queue, process, TypeOK
    <3>2. CASE RejectAction(w)
      BY <3>2 DEF RejectAction, Validates, queue, process, memory
    <3>3. QED
      BY <1>2, <3>1, <3>2
  <2>2. QED
    BY <1>0, <2>1, QuietCool DEF Quiet
<1>3. CASE ApproveAction(w)
  BY <1>3, ApproveCool
<1>4. CASE ValidationRaises(w)
  <2>1. todo'[w] = {} /\ \A v \in Workers : v # w => todo'[v] = todo[v]
    BY <1>0, <1>4 DEF ValidationRaises, TypeOK
  <2>2. Settle(w, "aborted", "sleeping") /\ pc[w] = "validating"
    BY <1>4 DEF ValidationRaises, Validates
  <2>3. QED
    BY <2>1, <2>2, SettlesCool DEF Handling, Statuses
<1>5. CASE RejectAll(w)
  BY <1>5, SettlesCool DEF RejectAll, Handling, Statuses, Marked
<1>6. CASE ApprovePlan(w)
  <2>1. /\ UNCHANGED <<now, sent, steps, life, lastRun, hand, todo>>
        /\ pc[w] # "down"
        /\ \A v \in Workers : v # w => pc'[v] = pc[v]
    BY <1>0, <1>6 DEF ApprovePlan, process, memory, work, TypeOK
  <2>2. /\ DOMAIN fate' = DOMAIN fate
        /\ \A m \in DOMAIN fate : fate'[m].by = fate[m].by /\ fate'[m].life = fate[m].life
    BY <1>0, <1>6, ApprovedTyped
  <2>3. QED
    BY <1>0, <2>1, <2>2, QuietCool DEF Quiet
<1>7. QED
  BY <1>1, <1>2, <1>3, <1>4, <1>5, <1>6 DEF Handle

\* Executor.run starts approved actions only, and records those that succeeded.
LEMMA ExecuteCool ==
    ASSUME CooldownInv, NEW w \in Workers, Execute(w)
    PROVE  CoolParts'
<1>0. /\ TypedInv /\ TypeOK /\ now \in Nat /\ DOMAIN fate \subseteq DOMAIN sent
  BY DEF CooldownInv, TypedInv, TypeOK
<1>1. CASE DryRunStep(w)
  <2>1. PICK i \in todo[w] :
          /\ Recorded(w, i) /\ StepEnds(w, i, "dry_run")
          /\ todo' = [todo EXCEPT ![w] = todo[w] \ {i}]
    BY <1>1 DEF DryRunStep
  <2>2. UNCHANGED <<now, sent, fate, life, hand, pc>>
    BY <1>1 DEF DryRunStep, queue, process
  <2>3. \A v \in Workers : todo'[v] \subseteq todo[v]
    BY <1>0, <2>1 DEF TypeOK
  <2>4. QED
    BY <2>1, <2>2, <2>3, StepKeepsCool
<1>2. CASE StartCall(w)
  <2>1. /\ UNCHANGED <<now, sent, fate, steps, life, lastRun, hand, todo>>
        /\ pc[w] # "down"
        /\ \A v \in Workers : v # w => pc'[v] = pc[v]
    BY <1>0, <1>2 DEF StartCall, queue, process, memory, work, TypeOK
  <2>2. QED
    BY <1>0, <2>1, QuietCool DEF Quiet
<1>3. CASE CallReturns(w)
  <2>1. PICK i \in todo[w] :
          /\ Recorded(w, i) /\ StepEnds(w, i, "success")
          /\ todo' = [todo EXCEPT ![w] = todo[w] \ {i}]
    BY <1>3 DEF CallReturns
  <2>2. /\ UNCHANGED <<now, sent, fate, life, hand>>
        /\ \A v \in Workers : pc'[v] = "down" <=> pc[v] = "down"
    BY <1>0, <1>3 DEF CallReturns, queue, process, TypeOK
  <2>3. \A v \in Workers : todo'[v] \subseteq todo[v]
    BY <1>0, <2>1 DEF TypeOK
  <2>4. QED
    BY <2>1, <2>2, <2>3, StepKeepsCool
<1>4. CASE CallRaises(w)
  <2>1. PICK i \in todo[w] :
          /\ StepEnds(w, i, "failed")
          /\ todo' = [todo EXCEPT ![w] = IF StopOnFailure THEN {} ELSE todo[w] \ {i}]
    BY <1>4 DEF CallRaises, AfterFailure
  <2>2. /\ UNCHANGED <<now, sent, fate, life, hand, lastRun>>
        /\ \A v \in Workers : pc'[v] = "down" <=> pc[v] = "down"
    BY <1>0, <1>4 DEF CallRaises, AfterFailure, queue, process, memory, TypeOK
  <2>3. \A v \in Workers : todo'[v] \subseteq todo[v]
    BY <1>0, <2>1 DEF TypeOK
  <2>4. QED
    BY <2>1, <2>2, <2>3, StepKeepsCool
<1>5. CASE FinishRun(w)
  BY <1>5, SettlesCool DEF FinishRun, Handling, Statuses, Marked
<1>6. QED
  BY <1>1, <1>2, <1>3, <1>4, <1>5 DEF Execute

\* No step has been recorded at the start.
LEMMA InitCool == Init => CooldownInv
<1> SUFFICES ASSUME Init
             PROVE  CooldownInv
  OBVIOUS
<1>1. TypedInv
  BY InitInv
<1>2. CoolParts
  BY DEF Init, CoolParts, HistoryIsPast, TrackerRemembers, ApprovedIsCool, CooldownSpacing
<1>3. QED
  BY <1>1, <1>2 DEF TypedInv, CoolParts, CooldownInv

\* CooldownInv is inductive.
LEMMA NextCool == CooldownInv /\ [Next]_vars => CooldownInv'
<1> SUFFICES ASSUME CooldownInv, [Next]_vars
             PROVE  CooldownInv'
  OBVIOUS
<1>1. TypedInv'
  BY NextInv DEF CooldownInv, TypedInv
<1>2. CoolParts'
  <2>1. CASE Next
    BY <2>1, EnvironmentCool, LoopCool, HandleCool, ExecuteCool DEF Next
  <2>2. CASE UNCHANGED vars
    <3>1. DOMAIN fate \subseteq DOMAIN sent /\ now \in Nat
      BY DEF CooldownInv, TypeOK
    <3>2. QED
      BY <2>2, <3>1, QuietCool DEF vars, queue, process, memory, work, Quiet
  <2>3. QED
    BY <2>1, <2>2
<1>3. QED
  BY <1>1, <1>2 DEF TypedInv, CoolParts, CooldownInv

\* The inductive invariant holds throughout.
THEOREM CooldownInvariant == Spec => []CooldownInv
  BY InitCool, NextCool, PTL DEF Spec

\* A process never starts an action on a target again for another runbook
\* before COOLDOWN_SECONDS are over.
THEOREM CooldownKept == Spec => []CooldownSpacing
<1>1. CooldownInv => CooldownSpacing
  BY DEF CooldownInv
<1>2. QED
  BY <1>1, CooldownInvariant, PTL
=============================================================================
