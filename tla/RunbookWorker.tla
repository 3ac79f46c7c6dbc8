---------------------------- MODULE RunbookWorker ----------------------------
(***************************************************************************)
(* Agent 2: worker processes that take runbooks off one Redis list and     *)
(* run their actions (RedisWorker of app/redis_worker.py with Executor of  *)
(* app/executor.py).  A worker is a single-threaded process: everything it *)
(* remembers - cooldowns, processed runbook ids, execution log - lives in  *)
(* memory and ends with the process.                                       *)
(*                                                                         *)
(* "sent" is the list of all payloads ever pushed; BRPOP takes them in     *)
(* order, so the ones taken are the first Len(fate), and fate[m] says what *)
(* became of message m.  "steps" is the history of all StepResults.  A     *)
(* Kubernetes call is a start and an outcome.                              *)
(***************************************************************************)
EXTENDS PlanBuilder, Validator

CONSTANTS
    Workers,        \* the pods
    Payloads,       \* what Agent 1 pushes
    DryRunModes,    \* values of DRY_RUN or not ENABLE_EXECUTION
    StopOnFailure,  \* the executor's stop_on_failure
    InfoLogging,    \* whether LOG_LEVEL lets INFO records through
    LogMax,         \* EXECUTION_LOG_MAX_ENTRIES
    MaxPushes,      \* bound: payloads pushed
    MaxTime,        \* bound: clock
    MaxLives        \* bound: process starts of a worker

ASSUME WorkerAssumption ==
    /\ Payloads \subseteq Payload
    /\ DryRunModes \subseteq BOOLEAN
    /\ StopOnFailure \in BOOLEAN /\ InfoLogging \in BOOLEAN
    /\ LogMax \in Nat \ {0}
    /\ MaxPushes \in Nat /\ MaxTime \in Nat /\ MaxLives \in Nat

VARIABLES
    now,       \* the clock
    sent,      \* every payload pushed so far
    fate,      \* what became of each message taken off the list
    steps,     \* every StepResult
    life,      \* [w] how often the process was started
    pc,        \* [w] where the worker is
    client,    \* [w] whether self._redis is set
    stop,      \* [w] stop_event
    dryRun,    \* [w] executor's _dry_run
    lastRun,   \* [w] CooldownTracker._last_run
    seen,      \* [w] RunbookDeduplicator._seen
    hand,      \* [w] the message being handled, 0 if none
    pending,   \* [w] plan positions still to be validated
    todo,      \* [w] approved plan positions still to be run
    log        \* [w] the execution log, oldest entry first

queue   == <<sent, fate>>
process == <<life, dryRun>>
memory  == <<lastRun, seen>>
work    == <<hand, pending, todo>>
vars    == <<now, queue, steps, process, pc, client, stop, memory, work, log>>

-----------------------------------------------------------------------------
Locations == {"down", "loop", "polling", "sleeping", "decoding",
              "validating", "executing", "calling"}

\* How the handling of a message ended.  Only the Marked ways record the
\* runbook id with the deduplicator.
Marked   == {"no_actions", "rejected", "executed"}
Statuses == Marked \cup {"in_hand", "reply_lost", "crashed", "discarded",
                         "aborted", "duplicate"}

Fate == [status : Statuses, by : Workers, life : Nat, at : Nat, plan : SUBSET Nat]
Step == [msg : Nat, index : Nat, status : {"success", "failed", "dry_run"}, at : Nat]

Events == {"runbook_received", "runbook_parsed", "no_actions_found",
           "command_execution_started", "command_execution_success",
           "command_execution_failed"}
LogEntry == [event : Events, msg : Nat, index : Nat]

\* The action at a position of the plan of message m.
ActionOf(m, i) == PlanSource(sent[m])[i]

\* Mutant: the plan is taken from a set, in any order.
IsAny(i, positions) == i \in positions

\* A plan is validated and run in order.
IsNext(i, positions) == i \in positions /\ \A j \in positions : i <= j

\* Mutants: a deque without maxlen, and a list that takes nothing once full.
LoggedUnbounded(entries, event, m, i) ==
    Append(entries, [event |-> event, msg |-> m, index |-> i])
LoggedUntilFull(entries, event, m, i) ==
    IF Len(entries) < LogMax THEN LoggedUnbounded(entries, event, m, i) ELSE entries

\* ExecutionLogStore.append: a deque that drops its oldest entry when full.
Logged(entries, event, m, i) ==
    Append(IF Len(entries) < LogMax THEN entries ELSE Tail(entries),
           [event |-> event, msg |-> m, index |-> i])

NewFate(w, status) ==
    [status |-> status, by |-> w, life |-> life[w], at |-> now, plan |-> {}]

\* The record of a message once its handling has ended.
Settled(f, status) ==
    [status |-> status, by |-> f.by, life |-> f.life, at |-> now, plan |-> f.plan]

Init ==
    /\ now = 0 /\ sent = <<>> /\ fate = <<>> /\ steps = {}
    /\ life    = [w \in Workers |-> 0]
    /\ pc      = [w \in Workers |-> "down"]
    /\ client  = [w \in Workers |-> FALSE]
    /\ stop    = [w \in Workers |-> FALSE]
    /\ dryRun  = [w \in Workers |-> FALSE]
    /\ lastRun = [w \in Workers |-> [k \in CooldownKeys |-> Never]]
    /\ seen    = [w \in Workers |-> [id \in RunbookIds |-> Never]]
    /\ hand    = [w \in Workers |-> 0]
    /\ pending = [w \in Workers |-> {}]
    /\ todo    = [w \in Workers |-> {}]
    /\ log     = [w \in Workers |-> <<>>]

-----------------------------------------------------------------------------
(* The environment: Agent 1, the clock, and Kubernetes starting, asking to *)
(* stop and killing the pods.  The last life of a worker is not ended.     *)

Push(p) ==
    /\ Len(sent) < MaxPushes
    /\ sent' = Append(sent, p)
    /\ UNCHANGED <<now, fate, steps, process, pc, client, stop, memory, work, log>>

Tick ==
    /\ now < MaxTime
    /\ now' = now + 1
    /\ UNCHANGED <<queue, steps, process, pc, client, stop, memory, work, log>>

\* main() up to the worker loop.  The worker's memory is new.
Start(w) ==
    /\ pc[w] = "down" /\ life[w] < MaxLives
    /\ life' = [life EXCEPT ![w] = @ + 1]
    /\ pc' = [pc EXCEPT ![w] = "loop"]
    /\ \E d \in DryRunModes : dryRun' = [dryRun EXCEPT ![w] = d]
    /\ UNCHANGED <<now, queue, steps, client, stop, memory, work, log>>

\* SIGTERM or SIGINT.
Signal(w) ==
    /\ pc[w] # "down" /\ life[w] < MaxLives
    /\ ~stop[w] /\ stop' = [stop EXCEPT ![w] = TRUE]
    /\ UNCHANGED <<now, queue, steps, process, pc, client, memory, work, log>>

\* The process and everything in its memory is gone.
ProcessEnds(w) ==
    /\ pc'      = [pc EXCEPT ![w] = "down"]
    /\ client'  = [client EXCEPT ![w] = FALSE]
    /\ stop'    = [stop EXCEPT ![w] = FALSE]
    /\ dryRun'  = [dryRun EXCEPT ![w] = FALSE]
    /\ lastRun' = [lastRun EXCEPT ![w] = [k \in CooldownKeys |-> Never]]
    /\ seen'    = [seen EXCEPT ![w] = [id \in RunbookIds |-> Never]]
    /\ hand'    = [hand EXCEPT ![w] = 0]
    /\ pending' = [pending EXCEPT ![w] = {}]
    /\ todo'    = [todo EXCEPT ![w] = {}]
    /\ log'     = [log EXCEPT ![w] = <<>>]
    /\ UNCHANGED <<now, sent, steps, life>>

\* SIGKILL at the end of the grace period, out of memory, node failure.
Crash(w) ==
    /\ pc[w] # "down" /\ life[w] < MaxLives
    /\ fate' = IF hand[w] = 0 THEN fate
               ELSE [fate EXCEPT ![hand[w]] = Settled(@, "crashed")]
    /\ ProcessEnds(w)

-----------------------------------------------------------------------------
(* RedisWorker.run, _ensure_connected and _poll_once.                      *)

\* The loop sees stop_event only between two polls.
StopCleanly(w) ==
    /\ pc[w] = "loop" /\ stop[w]
    /\ UNCHANGED fate
    /\ ProcessEnds(w)

\* Mutant: the loop does not look at stop_event.
TurnsRegardless(w) == pc[w] = "loop"

Turns(w) == pc[w] = "loop" /\ ~stop[w]

Goes(w, location, connected) ==
    /\ pc' = [pc EXCEPT ![w] = location]
    /\ client' = [client EXCEPT ![w] = connected]
    /\ UNCHANGED <<now, sent, steps, process, stop, memory, pending, todo, log>>

\* The ping of a new client is answered.
Connect(w) ==
    /\ Turns(w) /\ ~client[w]
    /\ Goes(w, "polling", TRUE) /\ UNCHANGED <<fate, hand>>

\* The ping raises redis.ConnectionError.
ConnectRefused(w) ==
    /\ Turns(w) /\ ~client[w]
    /\ Goes(w, "sleeping", FALSE) /\ UNCHANGED <<fate, hand>>

\* The ping raises redis.TimeoutError: self._redis keeps the new client and
\* the loop goes on at once.
ConnectTimeout(w) ==
    /\ Turns(w) /\ ~client[w]
    /\ Goes(w, "loop", TRUE) /\ UNCHANGED <<fate, hand>>

\* The ping raises anything else, an error reply for instance.
ConnectError(w) ==
    /\ Turns(w) /\ ~client[w]
    /\ Goes(w, "sleeping", TRUE) /\ UNCHANGED <<fate, hand>>

\* The client is there already: _ensure_connected does nothing.
Poll(w) ==
    /\ Turns(w) /\ client[w]
    /\ Goes(w, "polling", TRUE) /\ UNCHANGED <<fate, hand>>

\* Mutant: the message is read, and removed by a later command only.
PopUnremoved(w) ==
    /\ pc[w] = "polling"
    /\ \E m \in DOMAIN sent :
          /\ m = Len(fate) + 1 \/ (m = Len(fate) /\ fate[m].status = "in_hand")
          /\ fate' = Append(SubSeq(fate, 1, m - 1), NewFate(w, "in_hand"))
          /\ hand' = [hand EXCEPT ![w] = m]
    /\ Goes(w, "decoding", client[w])

\* BRPOP returns the oldest message; from here on only this process has it.
Pop(w) ==
    /\ pc[w] = "polling" /\ Len(fate) < Len(sent)
    /\ fate' = Append(fate, NewFate(w, "in_hand"))
    /\ hand' = [hand EXCEPT ![w] = Len(fate) + 1]
    /\ Goes(w, "decoding", client[w])

\* Redis pops a message and the reply is lost on its way.  The client library
\* then retries the BRPOP (retry_on_timeout) or raises: one of the next three.
ReplyLost(w) ==
    /\ pc[w] = "polling" /\ Len(fate) < Len(sent)
    /\ fate' = Append(fate, NewFate(w, "reply_lost"))
    /\ Goes(w, "polling", client[w]) /\ UNCHANGED hand

\* BRPOP returns None or raises redis.TimeoutError.
PollTimesOut(w) ==
    /\ pc[w] = "polling"
    /\ Goes(w, "loop", client[w]) /\ UNCHANGED <<fate, hand>>

\* BRPOP raises redis.ConnectionError: self._redis = None.
PollConnectionError(w) ==
    /\ pc[w] = "polling"
    /\ Goes(w, "sleeping", FALSE) /\ UNCHANGED <<fate, hand>>

\* BRPOP raises anything else.
PollError(w) ==
    /\ pc[w] = "polling"
    /\ Goes(w, "sleeping", client[w]) /\ UNCHANGED <<fate, hand>>

\* Mutant: the sleep waits for stop_event without a timeout.
WakeWhenStopped(w) ==
    /\ pc[w] = "sleeping" /\ stop[w]
    /\ Goes(w, "loop", client[w]) /\ UNCHANGED <<fate, hand>>

\* _interruptible_sleep returns.
Wake(w) ==
    /\ pc[w] = "sleeping"
    /\ Goes(w, "loop", client[w]) /\ UNCHANGED <<fate, hand>>

-----------------------------------------------------------------------------
(* _handle_message.                                                        *)

\* The handling of the message ends and the worker goes on at a location.
Settle(w, status, location) ==
    /\ fate' = [fate EXCEPT ![hand[w]] = Settled(@, status)]
    /\ hand' = [hand EXCEPT ![w] = 0]
    /\ pc' = [pc EXCEPT ![w] = location]
    /\ UNCHANGED <<now, sent, steps, process, client, stop, lastRun>>

Decodes(w, kinds) == pc[w] = "decoding" /\ sent[hand[w]].kind \in kinds

\* Text that is no JSON, or a JSON object that is no Runbook.
DiscardPayload(w) ==
    /\ Decodes(w, {"undecodable", "bad_schema"})
    /\ Settle(w, "discarded", "loop")
    /\ UNCHANGED <<seen, pending, todo, log>>

\* Runbook(**data) raises a TypeError that only run() catches.
RejectNonObject(w) ==
    /\ Decodes(w, {"not_an_object"})
    /\ Settle(w, "aborted", "sleeping")
    /\ UNCHANGED <<seen, pending, todo, log>>

\* What the deduplicator holds once is_duplicate has been asked.
Fresh(w) == EvictExpired(seen[w], now)

Received(w) == Logged(log[w], "runbook_received", hand[w], 0)
Parsed(w)   == Logged(Received(w), "runbook_parsed", hand[w], 0)

SkipDuplicate(w) ==
    /\ Decodes(w, {"runbook"})
    /\ IsDuplicate(seen[w], sent[hand[w]].id, now)
    /\ seen' = [seen EXCEPT ![w] = Fresh(w)]
    /\ log' = [log EXCEPT ![w] = Received(w)]
    /\ Settle(w, "duplicate", "loop")
    /\ UNCHANGED <<pending, todo>>

IsNew(w) == Decodes(w, {"runbook"}) /\ ~IsDuplicate(seen[w], sent[hand[w]].id, now)

\* Mutant: only a regular return lets the message go, an exception does not.
ParseRaisesHeld(w) ==
    /\ IsNew(w) /\ PlanRaises(sent[hand[w]])
    /\ seen' = [seen EXCEPT ![w] = Fresh(w)]
    /\ log' = [log EXCEPT ![w] = Received(w)]
    /\ pc' = [pc EXCEPT ![w] = "sleeping"]
    /\ UNCHANGED <<now, sent, steps, process, client, stop, lastRun, fate, hand, pending, todo>>

\* An overlong replica count: the ValueError of int() reaches run().
ParseRaises(w) ==
    /\ IsNew(w) /\ PlanRaises(sent[hand[w]])
    /\ seen' = [seen EXCEPT ![w] = Fresh(w)]
    /\ log' = [log EXCEPT ![w] = Received(w)]
    /\ Settle(w, "aborted", "sleeping")
    /\ UNCHANGED <<pending, todo>>

NoActions(w) ==
    LET rb == sent[hand[w]] IN
    /\ IsNew(w) /\ ~PlanRaises(rb) /\ BuildExecutionPlan(rb) = {}
    /\ seen' = [seen EXCEPT ![w] = MarkProcessed(Fresh(w), rb.id, now)]
    /\ log' = [log EXCEPT ![w] = Logged(Parsed(w), "no_actions_found", hand[w], 0)]
    /\ Settle(w, "no_actions", "loop")
    /\ UNCHANGED <<pending, todo>>

BuildPlan(w) ==
    LET rb == sent[hand[w]] IN
    /\ IsNew(w) /\ ~PlanRaises(rb) /\ BuildExecutionPlan(rb) # {}
    /\ pending' = [pending EXCEPT ![w] = BuildExecutionPlan(rb)]
    /\ pc' = [pc EXCEPT ![w] = "validating"]
    /\ seen' = [seen EXCEPT ![w] = Fresh(w)]
    /\ log' = [log EXCEPT ![w] = Parsed(w)]
    /\ UNCHANGED <<now, queue, steps, process, client, stop, lastRun, hand, todo>>

-----------------------------------------------------------------------------
(* validate_plan: one action of the plan after the other, before any runs. *)

Validates(w, i) == pc[w] = "validating" /\ IsNext(i, pending[w])

ApproveAction(w) == \E i \in pending[w] :
    /\ Validates(w, i) /\ Approved(ActionOf(hand[w], i), lastRun[w], now)
    /\ pending' = [pending EXCEPT ![w] = @ \ {i}]
    /\ todo' = [todo EXCEPT ![w] = @ \cup {i}]
    /\ UNCHANGED <<now, queue, steps, process, pc, client, stop, memory, hand, log>>

RejectAction(w) == \E i \in pending[w] :
    /\ Validates(w, i)
    /\ ~Approved(ActionOf(hand[w], i), lastRun[w], now)
    /\ ~CheckRaises(ActionOf(hand[w], i))
    /\ pending' = [pending EXCEPT ![w] = @ \ {i}]
    /\ UNCHANGED <<now, queue, steps, process, pc, client, stop, memory, hand, todo, log>>

\* The conversion of a resource quantity raises: the whole runbook is dropped.
ValidationRaises(w) == \E i \in pending[w] :
    /\ Validates(w, i) /\ CheckRaises(ActionOf(hand[w], i))
    /\ pending' = [pending EXCEPT ![w] = {}]
    /\ todo' = [todo EXCEPT ![w] = {}]
    /\ Settle(w, "aborted", "sleeping")
    /\ UNCHANGED <<seen, log>>

\* Mutant: a rejected runbook is not marked.
RejectAllUnmarked(w) ==
    /\ pc[w] = "validating" /\ pending[w] = {} /\ todo[w] = {}
    /\ Settle(w, "rejected", "loop")
    /\ UNCHANGED <<seen, pending, todo, log>>

RejectAll(w) ==
    /\ pc[w] = "validating" /\ pending[w] = {} /\ todo[w] = {}
    /\ seen' = [seen EXCEPT ![w] = MarkProcessed(@, sent[hand[w]].id, now)]
    /\ Settle(w, "rejected", "loop")
    /\ UNCHANGED <<pending, todo, log>>

ApprovePlan(w) ==
    /\ pc[w] = "validating" /\ pending[w] = {} /\ todo[w] # {}
    /\ fate' = [fate EXCEPT ![hand[w]].plan = todo[w]]
    /\ pc' = [pc EXCEPT ![w] = "executing"]
    /\ UNCHANGED <<now, sent, steps, process, client, stop, memory, work, log>>

-----------------------------------------------------------------------------
(* Executor.run and _execute_action.                                       *)

StepEnds(w, i, status) ==
    steps' = steps \cup {[msg |-> hand[w], index |-> i, status |-> status, at |-> now]}

\* Mutant: nobody tells the tracker.
Unrecorded(w, i) == UNCHANGED lastRun

Recorded(w, i) ==
    lastRun' = [lastRun EXCEPT ![w] = Record(@, CooldownKey(ActionOf(hand[w], i)), now)]

StartedStep(w, i) == Logged(log[w], "command_execution_started", hand[w], i)

DryRunStep(w) == \E i \in todo[w] :
    /\ pc[w] = "executing" /\ dryRun[w] /\ IsNext(i, todo[w])
    /\ log' = [log EXCEPT ![w] =
                 Logged(StartedStep(w, i), "command_execution_success", hand[w], i)]
    /\ Recorded(w, i) /\ StepEnds(w, i, "dry_run")
    /\ todo' = [todo EXCEPT ![w] = @ \ {i}]
    /\ UNCHANGED <<now, queue, process, pc, client, stop, seen, hand, pending>>

StartCall(w) == \E i \in todo[w] :
    /\ pc[w] = "executing" /\ ~dryRun[w] /\ IsNext(i, todo[w])
    /\ log' = [log EXCEPT ![w] = StartedStep(w, i)]
    /\ pc' = [pc EXCEPT ![w] = "calling"]
    /\ UNCHANGED <<now, queue, steps, process, client, stop, memory, work>>

\* The extra field "name" of delete_network_policy's own INFO record makes
\* logging raise a KeyError after the delete.
AlwaysRaises(a) == a.type = "delete_network_policy" /\ InfoLogging

CallReturns(w) == \E i \in todo[w] :
    /\ pc[w] = "calling" /\ IsNext(i, todo[w]) /\ ~AlwaysRaises(ActionOf(hand[w], i))
    /\ Recorded(w, i) /\ StepEnds(w, i, "success")
    /\ log' = [log EXCEPT ![w] = Logged(@, "command_execution_success", hand[w], i)]
    /\ todo' = [todo EXCEPT ![w] = @ \ {i}]
    /\ pc' = [pc EXCEPT ![w] = "executing"]
    /\ UNCHANGED <<now, queue, process, client, stop, seen, hand, pending>>

\* Mutant: the failed action is run again.
RetryAfterFailure(positions, i) == positions

\* What is left of the plan once an action has failed.
AfterFailure(positions, i) == IF StopOnFailure THEN {} ELSE positions \ {i}

\* ApiException or any other; the call may have taken effect all the same.
CallRaises(w) == \E i \in todo[w] :
    /\ pc[w] = "calling" /\ IsNext(i, todo[w])
    /\ StepEnds(w, i, "failed")
    /\ log' = [log EXCEPT ![w] = Logged(@, "command_execution_failed", hand[w], i)]
    /\ todo' = [todo EXCEPT ![w] = AfterFailure(@, i)]
    /\ pc' = [pc EXCEPT ![w] = "executing"]
    /\ UNCHANGED <<now, queue, process, client, stop, memory, hand, pending>>

\* run() returns; the id is marked whether the steps succeeded or not.
FinishRun(w) ==
    /\ pc[w] = "executing" /\ todo[w] = {}
    /\ seen' = [seen EXCEPT ![w] = MarkProcessed(@, sent[hand[w]].id, now)]
    /\ Settle(w, "executed", "loop")
    /\ UNCHANGED <<pending, todo, log>>

-----------------------------------------------------------------------------
Loop(w) ==
    \/ StopCleanly(w) \/ Connect(w) \/ ConnectRefused(w) \/ ConnectTimeout(w)
    \/ ConnectError(w) \/ Poll(w) \/ Pop(w) \/ ReplyLost(w) \/ PollTimesOut(w)
    \/ PollConnectionError(w) \/ PollError(w) \/ Wake(w)

Handle(w) ==
    \/ DiscardPayload(w) \/ RejectNonObject(w) \/ SkipDuplicate(w)
    \/ ParseRaises(w) \/ NoActions(w) \/ BuildPlan(w)
    \/ ApproveAction(w) \/ RejectAction(w) \/ ValidationRaises(w)
    \/ RejectAll(w) \/ ApprovePlan(w)

Execute(w) ==
    \/ DryRunStep(w) \/ StartCall(w) \/ CallReturns(w) \/ CallRaises(w)
    \/ FinishRun(w)

Environment ==
    \/ Tick
    \/ \E p \in Payloads : Push(p)
    \/ \E w \in Workers : Start(w) \/ Signal(w) \/ Crash(w)

Next == Environment \/ \E w \in Workers : Loop(w) \/ Handle(w) \/ Execute(w)

Spec == Init /\ [][Next]_vars

\* Fairness.  A pod that is down is started again, a worker that can step does
\* (a Kubernetes call returns or raises), and a Redis that is asked again and
\* again answers at some time.
Fairness == \A w \in Workers :
    /\ WF_vars(Start(w))
    /\ WF_vars(Loop(w) \/ Handle(w) \/ Execute(w))
    /\ SF_vars(Connect(w)) /\ SF_vars(Pop(w))

FairSpec == Spec /\ Fairness
=============================================================================
