----------------------- MODULE RunbookWorkerProperties -----------------------
(***************************************************************************)
(* What the workers of RunbookWorker must never do, and what must happen.  *)
(* A "process" is one life of one worker: it is what the in-memory guards  *)
(* of the code cover.                                                      *)
(***************************************************************************)
EXTENDS RunbookWorker

\* Every variable holds a value of its kind, and the execution log never
\* outgrows EXECUTION_LOG_MAX_ENTRIES (ExecutionLogStore's bounded deque).
TypeOK ==
    /\ now \in Nat
    /\ sent \in Seq(Payloads)
    /\ fate \in Seq(Fate) /\ Len(fate) <= Len(sent)
    /\ steps \in SUBSET Step
    /\ life    \in [Workers -> Nat]
    /\ pc      \in [Workers -> Locations]
    /\ client  \in [Workers -> BOOLEAN]
    /\ stop    \in [Workers -> BOOLEAN]
    /\ dryRun  \in [Workers -> BOOLEAN]
    /\ lastRun \in [Workers -> [CooldownKeys -> Timestamp]]
    /\ seen    \in [Workers -> [RunbookIds -> Timestamp]]
    /\ hand    \in [Workers -> Nat]
    /\ pending \in [Workers -> SUBSET Nat]
    /\ todo    \in [Workers -> SUBSET Nat]
    /\ log     \in [Workers -> Seq(LogEntry)]
    /\ \A w \in Workers : Len(log[w]) <= LogMax

-----------------------------------------------------------------------------
SameProcess(m1, m2) == fate[m1].by = fate[m2].by /\ fate[m1].life = fate[m2].life

Took(s)    == s.status \in {"success", "dry_run"}
KeyOf(s)   == CooldownKey(ActionOf(s.msg, s.index))
SameKey(s1, s2) == KeyOf(s1) = KeyOf(s2)

\* A message is in somebody's hand exactly while its handling lasts: no two
\* workers handle the same message, and none is left behind unsettled
\* (brpop hands a message over, every return and exception path of
\* _handle_message and run lets it go).
InHandIsHeld ==
    /\ \A w \in Workers :
          /\ hand[w] # 0 <=> pc[w] \in {"decoding", "validating", "executing", "calling"}
          /\ hand[w] # 0 => /\ hand[w] \in DOMAIN fate
                            /\ fate[hand[w]].status = "in_hand"
                            /\ fate[hand[w]].by = w /\ fate[hand[w]].life = life[w]
    /\ \A m \in DOMAIN fate :
          fate[m].status = "in_hand" => hand[fate[m].by] = m

\* A process that ran an action on a target, and reported a success or a dry
\* run, does not run the same action on the same target for another runbook
\* before COOLDOWN_SECONDS are over, even though it validates the whole plan
\* first and runs it later (CooldownTracker, consulted by _check_action,
\* recorded by _execute_action).  A call that failed leaves no cooldown, also
\* if it took effect.  The target is the code's: it leaves the namespace out.
CooldownSpacing ==
    \A s1, s2 \in steps :
        /\ Took(s1) /\ s1.msg < s2.msg
        /\ SameProcess(s1.msg, s2.msg) /\ SameKey(s1, s2)
        => s2.at >= s1.at + CooldownSeconds

\* The tracker remembers exactly the last time each action was reported a
\* success or a dry run: a failed step, a crash and a restart leave no cooldown
\* behind, and no success in this process is forgotten (_execute_action).
LastRunIsLastSuccess ==
    \A w \in Workers, k \in CooldownKeys :
        LET times == {s.at : s \in {x \in steps : /\ Took(x) /\ KeyOf(x) = k
                                                  /\ fate[x.msg].by = w
                                                  /\ fate[x.msg].life = life[w]
                                                  /\ pc[w] # "down"}}
        IN IF times = {} THEN lastRun[w][k] = Never
           ELSE lastRun[w][k] \in times /\ \A t \in times : t <= lastRun[w][k]

\* Once a process has finished with a runbook it runs no step of another
\* message with the same runbook_id within RUNBOOK_DEDUP_TTL seconds
\* (RunbookDeduplicator, asked by _handle_message before the plan is built and
\* marked after it ran).
DedupSpacing ==
    \A s \in steps : \A m \in 1..(s.msg - 1) :
        /\ SameProcess(m, s.msg) /\ fate[m].status \in Marked
        /\ sent[m].id = sent[s.msg].id
        => s.at >= fate[m].at + RunbookDedupTTL

\* A process that has finished with a runbook does not finish with another
\* message of the same runbook_id within RUNBOOK_DEDUP_TTL seconds, whatever
\* became of the first: executed, rejected, or without actions (the three
\* places where _handle_message calls mark_processed).
HandledOnce ==
    \A m2 \in DOMAIN fate : \A m1 \in 1..(m2 - 1) :
        /\ SameProcess(m1, m2)
        /\ fate[m1].status \in Marked /\ fate[m2].status \in Marked
        /\ sent[m1].id = sent[m2].id
        => fate[m2].at >= fate[m1].at + RunbookDedupTTL

\* The steps of a message are the first positions of its approved plan; a
\* failed step is the last one when stop_on_failure is set; and a runbook
\* that counts as executed was run to the end or to that failure
\* (Executor.run).
RunsPlanInOrder ==
    \A m \in DOMAIN fate :
        LET mine == {s \in steps : s.msg = m}
            ran  == {s.index : s \in mine}
            failed == {s.index : s \in {x \in mine : x.status = "failed"}}
        IN /\ ran \subseteq fate[m].plan
           /\ \A i \in ran, j \in fate[m].plan : j < i => j \in ran
           /\ StopOnFailure => \A i \in failed, j \in ran : j <= i
           /\ fate[m].status = "executed" =>
                 ran = fate[m].plan \/ (StopOnFailure /\ failed # {})

\* No step ever has an action outside the allowlist, the namespaces or the
\* limits, and no message has the same action run for it twice: what the
\* validator and the plan builder leave out cannot reach the executor on any
\* path, batch or retry.
OnlySafeActions ==
    \A s \in steps :
        LET a == ActionOf(s.msg, s.index) IN
        /\ a \in Action /\ Permitted(a) /\ WithinLimits(a)
        /\ \A t \in steps : t.msg = s.msg /\ t.index # s.index
                              => ActionOf(t.msg, t.index) # a

\* The execution log tells every command's story in one piece: a start is
\* followed by the outcome of the same command, and the only start without an
\* outcome is that of the Kubernetes call going on now.
Completes(started, e) ==
    /\ e.event \in {"command_execution_success", "command_execution_failed"}
    /\ e.msg = started.msg /\ e.index = started.index

LogBracketed ==
    \A w \in Workers :
        /\ \A k \in 1..(Len(log[w]) - 1) :
              (log[w][k].event = "command_execution_started")
                <=> Completes(log[w][k], log[w][k + 1])
        /\ pc[w] = "calling" <=>
              /\ log[w] # <<>>
              /\ log[w][Len(log[w])].event = "command_execution_started"

-----------------------------------------------------------------------------
(* What makes CooldownSpacing inductive: the proofs of RunbookWorkerProofs *)
(* rest on these, and a run checks them.                                   *)

\* The messages the current life of a worker took.
Mine(w, m) == fate[m].by = w /\ fate[m].life = life[w]

\* Histories lie in the past: steps are actions of messages taken, lives are not
\* ahead of their worker, and a message in hand is the newest of its process.
HistoryIsPast ==
    /\ \A s \in steps : s.msg \in DOMAIN fate /\ s.at <= now /\ KeyOf(s) \in CooldownKeys
    /\ \A m \in DOMAIN fate : fate[m].life <= life[fate[m].by]
    /\ \A w \in Workers : \A m \in DOMAIN fate :
          hand[w] # 0 /\ Mine(w, m) => m <= hand[w]

\* Whatever is to be validated or run is an action of the plan built from the
\* message in hand.
WorkIsPlanned ==
    \A w \in Workers :
        /\ pc[w] # "validating" => pending[w] = {}
        /\ pc[w] \notin {"validating", "executing", "calling"} => todo[w] = {}
        /\ pc[w] \in {"validating", "executing", "calling"}
              => /\ sent[hand[w]].kind = "runbook" /\ ~PlanRaises(sent[hand[w]])
                 /\ pending[w] \cup todo[w] \subseteq BuildExecutionPlan(sent[hand[w]])

\* The tracker has not forgotten a success or a dry run of this process.
TrackerRemembers ==
    \A w \in Workers : \A s \in steps :
        pc[w] # "down" /\ Took(s) /\ Mine(w, s.msg) => s.at <= lastRun[w][KeyOf(s)]

\* An approved action has its cooldown behind it, however long it still waits
\* for its turn.
ApprovedIsCool ==
    \A w \in Workers : \A i \in todo[w] : \A s \in steps :
        /\ Took(s) /\ s.msg # hand[w] /\ Mine(w, s.msg)
        /\ KeyOf(s) = CooldownKey(ActionOf(hand[w], i))
        => now >= s.at + CooldownSeconds

CooldownInv ==
    /\ TypeOK /\ InHandIsHeld /\ HistoryIsPast /\ WorkIsPlanned
    /\ TrackerRemembers /\ ApprovedIsCool /\ CooldownSpacing

-----------------------------------------------------------------------------
\* The pods deliver at most once, in order; they plan the whole of a message
\* before they run any of it, and run each plan position at most once over all
\* pods, crashes and restarts included (BRPOP, validate_plan before
\* Executor.run, one pass over the approved actions).
PlanPositions ==
    UNION {DOMAIN PlanSource(p) : p \in {q \in Payloads : q.kind = "runbook"}}

Delivery == INSTANCE RunbookDelivery WITH
    Positions <- PlanPositions,
    pushed    <- Len(sent),
    taken     <- Len(fate),
    held      <- {m \in DOMAIN fate : fate[m].status = "in_hand"},
    ahead     <- UNION {{<<hand[w], i>> : i \in todo[w]} : w \in Workers},
    performed <- {<<s.msg, s.index>> : s \in steps}

DeliversAtMostOnce == Delivery!Spec

\* Once the handling of a message has ended, however it did, no pod touches it
\* again: its record stays and no step of it is run, after crashes, restarts
\* and exceptions too (BRPOP removes it, and nothing puts it back).
SettledForGood ==
    [][\A m \in DOMAIN fate : fate[m].status # "in_hand" =>
          /\ fate'[m] = fate[m]
          /\ {s \in steps' : s.msg = m} = {s \in steps : s.msg = m}]_vars

-----------------------------------------------------------------------------
\* Every pushed payload is at last taken off the list and settled: no return
\* and no exception path leaves the worker stuck, whatever it is handed
\* (run's catch-all, the reconnect and the sleeps).
EveryPayloadSettles ==
    \A m \in 1..MaxPushes :
        (m <= Len(sent)) ~> (m <= Len(fate) /\ fate[m].status # "in_hand")

\* A worker asked to stop ends: the loop notices stop_event after the current
\* poll, sleep or runbook (main's signal handler, run, _interruptible_sleep).
StopsWhenAsked == \A w \in Workers : stop[w] ~> pc[w] = "down"

-----------------------------------------------------------------------------
(* Stated by the documentation, and not kept by the code.                  *)

\* app/config.py:59: "Seconds to wait before the same action can be re-applied
\* to the same target".  Two actions of one plan are both validated before
\* either is recorded.
CooldownBetweenSteps ==
    \A s1, s2 \in steps :
        /\ Took(s1) /\ Took(s2) /\ s1 # s2
        /\ SameProcess(s1.msg, s2.msg) /\ SameKey(s1, s2)
        => s2.at - s1.at >= CooldownSeconds \/ s1.at - s2.at >= CooldownSeconds

\* README.md:53: "same runbook_id is never processed twice within the TTL
\* window".  Each pod remembers only the runbooks it processed itself.
ProcessedOnce ==
    \A m1, m2 \in DOMAIN fate :
        /\ m1 # m2 /\ fate[m1].status \in Marked /\ fate[m2].status \in Marked
        /\ sent[m1].id = sent[m2].id
        => fate[m2].at - fate[m1].at >= RunbookDedupTTL
             \/ fate[m1].at - fate[m2].at >= RunbookDedupTTL
=============================================================================
