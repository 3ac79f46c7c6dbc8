# Verification of the runbook executor (Agent 2)

Agent 2 takes *runbooks* that Agent 1 pushes into a Redis list, turns each into
an execution plan, validates the plan against safety rules, and applies the
approved actions to a Kubernetes cluster. This directory holds TLA+ modules
translated from the code under `src/app/`, the TLC configurations that check
them on small instances, and proofs checked by TLAPS. `PROJECT.json` lists the
source lines of every definition, the runs, the mutants, the hazards and the
theorems.

## The system

| Component | Source | State it keeps | Operations |
|---|---|---|---|
| Redis worker | `redis_worker.py` | Redis client, the message in hand | connect, BRPOP, handle a message, sleep, stop |
| Plan builder, parser | `parser.py`, `models.py` | none | parse a command or entry, build a plan without duplicates |
| Validator | `validator.py` | none | allowlist, namespace guard, limits, cooldown guard |
| Executor | `executor.py` | execution report | run a plan in order, dry run, stop on failure, render commands |
| Cooldown tracker, deduplicator | `utils.py` | last run per (action, target); expiry per runbook id | is_allowed, record; is_duplicate, mark_processed |
| Execution log store | `execution_logs.py` | bounded deque, global variable, optional Redis list | create, append, latest |
| Kubernetes client | `kubernetes_client.py` | none (the cluster's) | scale, restart, roll back, delete pod, update resources, delete policy, with retries |
| Health server | `health.py` | readiness flag | probes, log endpoint (own thread) |
| Start and shutdown | `main.py` | stop event | start everything, signal handler |
| Configuration, logging | `config.py`, `logging_config.py` | settings | - |

The worker is one thread. It calls the plan builder, the validator (which reads
the cooldown tracker) and the executor (which writes it, appends to the log
store and calls the Kubernetes client). Signal handlers set the stop event; the
health thread reads the log store, creating it if need be, and the readiness
flag. Pods share nothing but the Redis list and the cluster.

What is hard about it:

* *Check then act.* The whole plan is validated first and run later; cooldowns
  are recorded after each action. Time passes and calls fail in between.
* *Memory.* Cooldowns, processed ids and the log live in one process; pods crash,
  are stopped, restarted and replicated.
* *Delivery.* BRPOP removes a message before it is handled: a crash, an exception
  or a lost reply loses it, and nothing may repeat it.
* *Exceptions.* Unexpected ones leave `_handle_message` in the middle and end in
  the catch-all of `run`; a failed call may have taken effect.
* *Remote calls.* The Kubernetes client reads before it writes, retries, and
  nests one retried function in another; answers are lost, and other writers and
  the cluster's own controllers act between two requests.
* *Two threads.* The worker and the health server create and share the log store
  without a lock; signals come at any step of the start.
* *Text.* Regular expressions are searched for anywhere in a command, in an
  order that decides which one counts.
* *Arithmetic.* Unit conversions and inclusive boundaries in the caps, the
  cooldown and the TTL.

## The modules

| Module | Models |
|---|---|
| `ResourceLimits` | `_validate_cpu`, `_validate_memory`: which quantities pass, which raise |
| `QuantityCaps`, `QuantityCapsProofs` | the caps against a reference, and their proofs |
| `Actions` | the data models: actions, plan entries, payloads and their failures |
| `PlanBuilder` | `build_execution_plan`: sources, dropped entries, duplicates, the exception |
| `Trackers` | `CooldownTracker` and `RunbookDeduplicator` as operators on functions of time stamps |
| `Validator` | `validate_plan` / `_check_action`: when an action is approved, when the check raises |
| `RunbookWorker` | the processes: Redis loop, message handling, execution, crashes and restarts |
| `RunbookWorkerProperties` | its properties and the inductive invariant of the cooldown argument |
| `RunbookDelivery` | the abstract specification: at-most-once delivery and performance |
| `MCRunbookWorker` | payloads and constants for TLC |
| `RunbookWorkerProofs`, `RunbookHistoryProofs`, `RunbookDeliveryProofs` | the proofs about `RunbookWorker` |
| `KubernetesClient`, `KubernetesClientProperties` | every function of the client, request by request, and the cluster it talks to |
| `MCKubernetesClient`, `KubernetesClientProofs` | constants for TLC; proofs |
| `AgentProcess`, `AgentProcessProperties` | one process: `main()`, the worker's loop, the health thread, the shared store, signals |
| `AgentProcessProofs` | proofs |
| `CommandParser`, `CommandParserProperties` | `parse_command` word by word, and `_kubectl_equivalent` |
| `MCCommandParser`, `CommandParserProofs` | words and commands for TLC; proofs |

`RunbookWorker` extends `PlanBuilder` and `Validator` (and through them
`Actions`, `Trackers`, `ResourceLimits`); `CommandParser` extends `Actions`. Where
two modules meet, one abstracts the other: a call in `RunbookWorker` is a start
and an outcome, and `KubernetesClient` shows which outcomes there are and what
they mean; a command in `PlanBuilder` is what it parses to, and `CommandParser`
shows what that is; handling a message in `AgentProcess` is a time during which
entries are written, and `RunbookWorker` shows which.

### RunbookWorker

A worker is a pod; `life[w]` counts how often its process was started. `pc[w]`
says where its single thread is:

| `pc` | in the code |
|---|---|
| `down` | no process |
| `loop` | the head of the `while` in `run` |
| `polling` | in `brpop` |
| `sleeping` | in `_interruptible_sleep` |
| `decoding` | the start of `_handle_message` |
| `validating` | in `validate_plan` (one step per action) |
| `executing` | in `Executor.run`, between two actions |
| `calling` | in `_dispatch` |

`lastRun`, `seen`, `log`, `stop`, `client` and `dryRun` are the attributes of the
process, reset when it ends. `hand`, `pending` and `todo` are the local variables
of `_handle_message`: the message, the plan positions still to validate and the
approved ones still to run. A plan is a set of positions of the runbook's list:
the builder keeps the order, so the set determines the plan. `sent`, `fate` and
`steps` are shared or history: every payload pushed, what became of every
message taken off the list, and every `StepResult`. Since BRPOP takes messages
in order, those taken are the first `Len(fate)`.

An action of the module is the code between two points where something else can
matter: the clock, another pod, a crash, an answer from Redis or Kubernetes. What
the code does without such a point in between is one action: `NoActions`, for
instance, decodes, logs three entries, evicts, asks and marks the deduplicator.
The step from decoding to the built plan reads the clock once where the code
reads it twice within microseconds, under one lock.

Every exception path has an action: text that is not JSON, JSON that is not an
object (a `TypeError` only `run` catches), a schema error, an overlong replica
count in a command (a `ValueError` of `int()`), a quantity whose conversion
raises, a refused or timed-out connection, an error reply, a failing call. A
ping that times out leaves the client set, as the code does. `CallRaises` covers
a call that failed after it took effect, and `AlwaysRaises` is
`delete_network_policy` while INFO records are logged: its own log record raises
a `KeyError` after the delete.

### RunbookDelivery

What the list and the pods together promise: messages leave the list once and in
order; a message's plan is complete before any of it is performed; positions are
performed in ascending order, each at most once, and only while a handler holds
the message; messages may be lost and plans abandoned. `RunbookWorkerProperties`
maps the workers to it (`Delivery`), and `DeliversAtMostOnce` is the refinement.

### KubernetesClient

The cluster has one Deployment (`replicas`, `template`, `revision`, `sets`), one
Pod and one NetworkPolicy. Of a pod template the module keeps an application
version (standing for the image and everything else a deploy changes), the
resource limits, and the `restartedAt` stamp. Limits have a canonical form, in
which the server keeps them (`Stored`: `1000m` becomes `1`). The environment:
`Reconcile` (the Deployment controller numbers a new template, or renumbers an
old ReplicaSet it finds again), `PodGone`, and `Edit`, any other writer: a
deploy, a scaling, a pruned ReplicaSet, a deleted or replaced pod, a policy.

A *request* is one action: what the server does and what the client makes of the
answer. `at[c]` names the next request of client `c`: `reading` (the GET a
function starts with), `listing` (the ReplicaSets of a rollback), `writing` (the
PATCH or DELETE). Each request can be refused with a transient or another error,
and a write can be carried out while its answer is lost or an error; `Transient`
is what `_retryable` makes of a 5xx or 429, `Fails` what becomes of any other
exception. `outer[c]` is the attempt of the function called, `inner[c]` that of
`restart_deployment` when `rollback_deployment` falls back on it: the restart is
decorated too, starts again on its own, and its last failure is one failure of
the rollback. `target` and `body` are the local variables of the rollback.

`requests`, `applied`, `faults`, `expected`, `alone` and `reached` are history:
writes sent and carried out, the kinds of failure met, what a rollback should
bring back, whether anybody else changed the cluster, whether the goal of the
call held meanwhile. No action depends on them.

### AgentProcess

`at` walks through `Startup`, the order of `main()`: the log store, the
Kubernetes configuration, the health server (whose port may be taken), the signal
handlers, readiness; then `Worker`, at last `Ended`. `lookup[t]` is a thread
inside `get_execution_log_store` or `init_execution_log_store`: it tests the
global variable (`FindsNone`, `Finds`) and makes a store (`Makes`) in separate
steps, since no lock is held; `holds[t]` is the store it was handed and `backed`
the stores that were given a Redis client. `Connect` offers the client to the
store, `Take`, `Log` and `Handled` are a message, `LogsAsked` and `LogsAnswered`
a `GET /logs` in the health thread. `Sigterm` sets `stop` once the handlers are
there; before, it ends the process, or is ignored by the first process of a
container (`first`: `Dockerfile:40` starts Python without an init). `asked` is
history: whether a SIGTERM has come that was not ignored so. SIGTERM may come any
number of times. `Kill` ends the grace period.

### CommandParser

A command is the sequence of its words, with their case folded. `NameIn` maps a
word to the name it begins with: the name segment of the expressions ends where
the characters of a name end, so `web.v2` yields `web`. `Found(c, phrase)` are
the positions of a name right after the words of a pattern, wherever these occur,
and a scale command further needs a replica count somewhere behind the name
(`Scaled`, `Counts`), which is one word (`--replicas=3`) or several with blanks and
signs of equality between the flag and the number (`--replicas = 3`, `NumberAfter`);
the first match counts, as with `re.search`. `Patterns` has
the other four in the code's order. The guards of steps 6 and 7 of `parse_command`
only choose the wording of a log record. `KubectlEquivalent` is the command that
the executor writes into the log.

## The runs

| Run | Instance | Checks |
|---|---|---|
| `worker_safety` | one worker, two lives, two messages of nine payloads, clock 0..3 | the safety properties below |
| `worker_pods` | two workers (symmetric), two lives each, two messages, clock 0..1 | `InHandIsHeld`, `CooldownInv`, `DeliversAtMostOnce`, `SettledForGood` |
| `worker_liveness` | one worker, two lives, two messages, no `stop_on_failure`, fair | `EveryPayloadSettles`, `StopsWhenAsked`, `RunsPlanInOrder` |
| `cooldown_in_plan` | one worker, one message | violates `CooldownBetweenSteps` |
| `dedup_across_pods` | two workers, two messages, no clock | violates `ProcessedOnce` |
| `quantity_caps` | all units, amounts around every boundary | `CpuCapped`, `MemoryCapped` |
| `quantity_tebibytes` | the same, fewer amounts | violates `TebibytesCapped` |
| `client_calls` | one client, one call of seven, two edits of five kinds, one lost answer, fair | the properties of `KubernetesClient` |
| `client_lost_rollback` | the same, rollbacks only | violates `RollbackSurvivesLoss` |
| `process_shared` | three messages, three entries per store, two requests for `/logs`, fair | the properties of `AgentProcess` |
| `process_wired` | the same | violates `StoreIsWired` |
| `parser_commands` | 35 beginnings and every rendered action, with tails of thirteen words, up to seven words | the properties of `CommandParser` |

Safety of one process and its restarts (`worker_safety`):

* `CooldownSpacing`: an action that was reported as a success or a dry run is not
  run again on the same target *for another runbook* of the same process before
  the cooldown is over, although validation and execution are apart. A call that
  failed leaves no cooldown, even if it took effect. The target is that of the
  cooldown key, which leaves the namespace out (`validator.py:165`).
* `LastRunIsLastSuccess`: the tracker's memory is exactly the latest success or
  dry run of the process; failures and earlier lives leave nothing.
* `DedupSpacing`: after a runbook was handled, no step of a message with the same
  id runs within the TTL.
* `HandledOnce`: nor is that message finished with, be it executed, rejected or
  found without actions. This is what the code does keep of "never processed twice
  within the TTL window" (`README.md:53`): it holds of one process, not of two
  (`dedup_across_pods`).
* `RunsPlanInOrder`: steps are a prefix of the approved plan; a failure is the
  last one with `stop_on_failure`; "executed" means run to the end or to it.
  `worker_liveness` checks it without `stop_on_failure` too.
* `OnlySafeActions`: no path brings an action to the executor that is outside
  the allowlist, the namespaces or the limits, or twice for one message.
* `LogBracketed`: in the bounded log every start is followed by its own outcome,
  but for the call going on.
* `InHandIsHeld`: every return and every exception lets the message go. The
  payloads that raise in the middle of `_handle_message` are those of this run.
* `TypeOK` includes the bound of the log.

Between pods (`worker_pods`): `InHandIsHeld` (a message is in exactly one hand while
it is handled), `DeliversAtMostOnce` (the refinement of `RunbookDelivery`), and
`SettledForGood` (once the handling of a message has ended, however it did, no step
of any pod changes its record or runs anything of it).

What a call to Kubernetes may be relied on for (`client_calls`), whatever comes
between its requests:

* `SuccessIsReal`: a call that returns has seen its goal hold while it went on,
  by its own write or because it found it so.
* `FailureLeavesNoTrace`: a call that raises and has lost no answer has changed
  nothing, so that its step may be repeated; the one exception is the delete of a
  policy under INFO logging.
* `WritesBounded`: three writes at most, nine for a rollback.
* `WritesOnce`: undisturbed, a call that looks before it writes takes effect at
  most once, however many answers are lost.
* `RollbackGoesBack`: an undisturbed rollback that lost no answer brings back what
  the revision before held, also through the fallback on a restart.
* `RequestsRunOut`: a call has at most fifteen requests to send, and each one it
  sends leaves it with fewer, however it is answered: a restart within a rollback
  starts its own retries anew only at the price of one of the rollback's.
* `CallsEnd`: every call ends. `RequestsRunOut` is the reason, and needs no fairness.

The process (`process_shared`): `LogsAreWhole` (`/logs` reads the store that holds
everything the worker wrote), `StoreStaysInMemory` (no store is ever given a Redis
client, which is why the branches for one are left out), `OneMoreAtMost` (after
the stop event one more message at most is taken), `SignalIsHonoured` (from the
moment a SIGTERM is sent, the process has ended or is going to stop, at whatever
step of the start or the work it comes and however often; the first process of a
container, which this one is in its image, misses only those that come before the
handlers are installed, and it is not ready then), `StopEndsProcess` (whatever Redis
does).

The parser (`parser_commands`): `ParsesToCommand` (an action the data models
allow, none, or the one exception), `LoggedCommandParses` (the command shown in
the log parses back to the action, also with words added), `ParsesAsAsked` (of a
single well-formed command, the action is one that kubectl would have understood:
no flag, value, kind or verb is taken for a name or for another verb).

### The bounds

`RunbookWorker`. Two messages are what the properties that relate two runbooks
need, and a cooldown and a TTL of two ticks leave room for "too early", "exactly"
and "too late" on a clock of four values. Two lives are one restart: a third
process knows no more than the second. The log of three entries overflows within
one runbook, and the log of one in every append. `MaxPushes`, `MaxTime` and
`MaxLives` are guards of `Push`, `Tick` and `Start`. The last life of a worker is
neither signalled nor killed, so that the bounded system can always finish. With
two pods the interleavings of calls, crashes and validation matter, not the
length of time: the clock has two values. The payloads (`MCRunbookWorker`) cover
every branch of `_handle_message`; `TwoSteps` and `OneStep` share a cooldown key.
The pods run has fewer payloads because what is in a payload does not concern
what pods do to each other. The two values of `stop_on_failure` are divided between
the runs: with it, a failure only ends a message sooner (`AfterFailure`), which
`worker_safety` explores; liveness is checked the longer way, where the rest of a
plan follows its failures, and so is the order of a plan's steps once more.

`KubernetesClient`. `MaxCalls`, `MaxEdits` and `MaxLosses` are guards of `Begin`,
`Edit` and lost writes; refused requests are not bounded, so that every attempt of
both loops can fail. What other clients do appears to a call as edits, so one
client suffices here (the proofs cover any number). Two edits put one change
before the call (a rollback needs a revision to go back to) and one into it. Of
two versions one has templates without annotations; of three limits two have the
same canonical form. `Foreign` is empty: see below.

`AgentProcess`. Three messages exceed the one that `OneMoreAtMost` allows; two
requests for `/logs` make one come while the store is made and one after it;
entries are counted up to three so that the store's content changes while a
request holds it.

`CommandParser`. The words are one per class the expressions tell apart: names
(one of them also a verb), a word that only begins like a name, a name that is
too long, a number, a sign of equality, the flags in both forms, counts that are allowed, out of range
or too long for `int()`. The longest rendered command has seven words; a written
one has three or four words behind its kind, enough for a name, a flag with its
value and one word more. The proofs have no bound.

### Fairness

`RunbookWorker!FairSpec`. A pod that is down is started (the Deployment's restart
policy). A worker that can step does: this includes that a Kubernetes call
returns or raises, which the code does not enforce, since no call sets a request
timeout. A Redis that is asked again and again answers at some time (strong
fairness of `Connect` and `Pop`): without it no payload has to be read.

`KubernetesClient!FairSpec`. Every request is answered or its connection breaks
(weak fairness of `Request(c)`); nothing is assumed of how it is answered. No
timeout enforces it either (`kubernetes_client.py:173`): it is TCP's promise.

`AgentProcess!FairSpec`. The main thread goes on (weak fairness of `Main`): BRPOP
has a timeout and the handling of a message ends, by the properties above.
Nothing is assumed of signals, the health thread or Redis.

## What disagrees with the documentation

Runs that TLC refutes:

* `cooldown_in_plan`: two actions of one plan with equal type and target (one
  naming the namespace, one leaving it to the default) run back to back.
  `config.py:59` promises the wait "before the same action can be re-applied to
  the same target".
* `dedup_across_pods`: two pods process the same `runbook_id`; `README.md:53`
  promises "never processed twice within the TTL window", and
  `k8s/deployment.yaml:11` calls more than one replica safe. A restart forgets
  processed ids in the same way.
* `quantity_tebibytes`: `1Ti` passes the cap of 4 GiB; the comment at
  `validator.py:206` counts Ti among the handled suffixes.
* `client_lost_rollback`: a rollback whose patch is carried out but not confirmed
  reads the revision it has made and rolls itself back, and reports success;
  `kubernetes_client.py:185` says it goes back "to its previous revision".
* `process_wired`: `redis_worker.py:120` wires "the execution log store to Redis
  once we know Redis is reachable", but `main()` has created the store by then and
  `init_execution_log_store` returns the one there is. No entry ever reaches the
  Redis list.

Seen while modelling, and part of the models, without a run of their own:

* `kubernetes_client.py:43` retries "up to 3 times"; a rollback that falls back
  on a restart sends up to nine patches (`:206`; `WritesBounded` has the bound).
* A rollback to a template without annotations raises a `TypeError` at `:242`,
  because `to_dict()` gives `None` for them.
* The label selector at `:215` can match ReplicaSets of another Deployment with
  the same labels, and the rollback takes the first with the right number; hence
  `RollbackGoesBack` is checked and proved with `Foreign` empty.
* An object deleted between read and delete gives a 404 that counts as a failure
  (`:280`); `:264` and `:358` promise to return silently.
* `delete_network_policy` logs an extra field `name`, which `logging` refuses with
  a `KeyError` (`:369`, `:377`).
* The pod is ready before the first connection to Redis (`main.py:80`);
  `health.py:6`, `health.py:24` and `README.md:211` say after it.
* SIGTERM before `main.py:71` is ignored by the first process of a container, which
  this one is in its image (`Dockerfile:40`): the kubelet then waits for the end of
  the grace period.
* `redis_worker.py:126` says that `_poll_once` "Returns immediately if the queue is
  empty or stop is requested". It looks at neither: BRPOP waits for its timeout on
  an empty list, and a message that comes after the stop but within the timeout is
  taken and handled to its end. `OneMoreAtMost` states what does hold: one such
  message at most.
* The cooldown key leaves the namespace out (`validator.py:165`): an action on a
  deployment holds back the same action on its namesake in another namespace.
* A rollback right after a deploy can read the revision annotation before the
  controller has written it (`kubernetes_client.py:199`), and goes back one revision
  too far; `RollbackGoesBack` speaks of rollbacks begun once it has caught up.
* Limits are compared as they are written (`kubernetes_client.py:315`): with `1000m`,
  which the server keeps as `1`, every attempt patches again; `WritesOnce` leaves
  such limits out.
* A replica count of more than 4300 digits raises out of `parse_command`
  (`parser.py:139`) and drops the whole runbook; `parser.py:21` promises that
  "no exceptions are raised".
* `web.v2` is parsed as `web` (`parser.py:47`); two commands in one string can
  give the name of one the count of the other (`parser.py:51`); the namespace of
  `-n` and `--dry-run` are not read.
* `README.md:44` says `delete` is dropped; `delete pod` and `delete
  networkpolicy` are run.
* `k8s/role.yaml` grants no `delete` on pods, nothing on network policies and
  nothing on ReplicaSets, so those calls are refused in that deployment; the
  model lets any request be refused.

## The proofs

All theorems hold for every value of the constants, under the named assumptions
of the modules (`WorkerAssumption`, `TrackerAssumption`, `NamespacesAssumption`,
`ClientAssumption`, `ProcessAssumption`, `WordsAssumption`).

`RunbookWorkerProofs`:

* `TypeCorrect`: `[]TypeOK`, and `HandsCorrect`: `[]InHandIsHeld`. The two need
  each other and `WorkIsPlanned` (what is pending or approved belongs to the plan
  of the message in hand): a worker's message must exist for its handling to be
  typed, and a position must hold an action to have a cooldown key. `TypedInv` is
  their conjunction.
* `CooldownInvariant`: `[]CooldownInv`, and from it `CooldownKept`:
  `[]CooldownSpacing`. Spacing alone is not inductive: an action is checked while
  the plan is validated and run later. Four more parts bridge the gap.
  `TrackerRemembers`: the tracker's entry for a key is at least as late as any
  success or dry run of this process. `ApprovedIsCool`: hence an approved
  action has its cooldown behind it with respect to every step of *other*
  messages, and time only helps. `HistoryIsPast`: steps lie in the past and the
  message in hand is the newest of its process, so that no step of another
  message is added while an approved action waits. Actions of the *same* message
  are what `ApprovedIsCool` must leave out: the run `cooldown_in_plan` shows why.
  `Quiet` describes the steps that add nothing to the history; the interesting
  cases are `ApproveAction` (`ApproveCool`), a step that is run
  (`StepKeepsCool`) and a message that is taken (`TakenCool`).

`RunbookHistoryProofs` builds on `CooldownInv`. `StepShapes` says that every step
has one of nine shapes (`Rests`, `Starts`, `Leaves`, `Takes`, `Plans`, `Commits`,
`StartsCall`, `Runs`, `Lets`); each invariant below is then kept shape by shape.

* `OnlySafeActionsRun`: `[]OnlySafeActions`. `SafeInv`: what waits in `todo` and
  what has been run was approved and is in the plan; `PlannedOnce`: two positions
  of a plan differ.
* `PlansRunInOrder`: `[]RunsPlanInOrder`. `OrderInv` adds that nothing of a plan
  has been run before it is complete (`Untouched`), and that from then on it is
  split into what has been run and what is left, or a failure has cut it short
  (`Split`).
* `TrackerIsExact`: `[]LastRunIsLastSuccess`. `CooldownInv` says that the tracker
  forgets nothing; `TrackerInv` adds the other half, that every entry has a step
  as its `Evidence`.
* `CooldownButWithinPlan`: `[]CooldownBetweenSteps`, which the run
  `cooldown_in_plan` refutes, holds if no runbook names two different actions with
  one cooldown key (`KeysApart`). So a plan that is validated as a whole is the only
  way past the cooldown. `CooldownInv` separates the steps of different messages;
  for those of one message, `StepsOnce` (a position is run once, by `OrderInv`) and
  `SafeInv` (what is run is in the plan) make them different actions of it.
* `PlanDropsRepeatsOnly`: every supported action of a runbook's source is in its plan,
  at the same position or an earlier one. With `PlannedOnce`, dropping repeats loses
  nothing and keeps nothing twice, for a runbook of any length.
* `DuplicatesWait`: `[]DedupSpacing`, and `RunbooksHandledOnce`: `[]HandledOnce`.
  `DedupInv` adds that a handled runbook is in the deduplicator until its time is
  over (`MarkedIsSeen`), that a plan under way is no duplicate of one
  (`PlannedIsFresh`), and `MarksArePast`. A record is marked in the same step in
  which the deduplicator is told (`Marks`). `NewIsFresh` is where the deduplicator
  is asked: what it does not know is no repeat, so a message that is finished with
  then, or planned and finished later, comes after the time of every runbook with
  its id.
* `LogsAreBracketed`: `[]LogBracketed`. `LogInv` adds that the last entry of the
  log, while a call goes on, is the start of the next action of the plan;
  `LoggedBracketed` shows that dropping the oldest entry breaks no pair that
  remains, also with a log of one.
* `SettledStaysSettled`: `SettledForGood`. A record is rewritten (`SettledRecordStays`)
  and a step added (`SettledStepsStay`) only for a message in somebody's hand, whose
  record says so.

`RunbookDeliveryProofs`: `DeliveredAtMostOnce`, `Spec => DeliversAtMostOnce`. Each
shape is a step of `RunbookDelivery` or leaves its variables (`Held`, `Ahead`,
`Performed`) alone: a message in hand is settled however its handling ends
(`SettleStep`, crashes in `LeaveStep`), an approval is a `Plan` (`PlanStep`), a
step that is run is a `Perform` (`RunStep`). `CooldownInv` gives that no two workers
have work on the same message (`WorkDiffers`), `OrderInv` that what has been run of a
plan lies before what is left of it (`RanBefore`).

`KubernetesClientProofs`, for any number of clients: `Result` sums up what an
answered request can be (it fails, goes on, ends, or the write is done); each of
the thirteen requests is shown to be one. `ClientTypeCorrect` needs `ControlInv`:
`Located` (where a call can be, and that a rollback about to patch has a template
to patch in) and canonical templates. `WritesAreBounded` adds `CountInv`: the
attempts used up bound the writes sent, three per outer attempt for a rollback.
`CallsRunOut`, `Spec => RequestsRunOut`: a request that fails for the last time in a
restart hands over to the rollback around it, which has one attempt less
(`FailureUsesUp`); one that succeeds goes on to a later request (`AnswerUsesUp`). This
is all of `CallsEnd` but that requests are answered.
`SuccessIsAlwaysReal`, `FailureNeverLeavesATrace` (`TraceInv`: as long as no
answer is lost, a write that is carried out ends the call with success) and
`WritesHappenOnce` (`OnceInv`: a call that has written finds what it wants and is
not about to write again) follow. `RollbacksGoBack` needs `NumberedInv` (the
controller uses no revision number twice) and `BackInv` (while it is undisturbed,
a rollback knows where it goes), and assumes `Foreign = {}`.

`AgentProcessProofs`: `ProcessTypeCorrect` (`Flags` and `StoreInv`: `Kinds` and
`StoreFirst`, which says that the store is made by the main thread before the
health thread exists, so that there is never a second one), `LogsAreAlwaysWhole`
from it, and `OneMoreAtMostHolds` (`PollInv`: a worker that still polls has taken
nothing since it was asked to stop). `SignalsAreHonoured` (`SignalInv`: `Heeded`, a process
that was asked to end has its stop event set or has ended, and `Hearing`, from the
step that installs the handlers on they are there; it covers the first process of a
container as well). `StoreNeverWired` (`WireInv`: a thread that may still make a store
passes no client; by `StoreFirst` the worker, which would pass one, finds the store
made).

`CommandParserProofs`, for commands of any length and any words: `ParserTyped`.
`RenderedIsReadBack`: the command the executor renders for an action is parsed into
that action, for every name, namespace, verb and count, also those that are words of
commands; no assumption is needed. `LogIsReadBack` is the same with words added, which
must not be `kubectl`, nor may the namespace, which they follow (`CommandInv`: the
command begins as the action is rendered, and the word `kubectl` occurs at its start
or as a name with a flag behind it, `Rooted`, so that no other pattern can match).
`ParserObeys`: of a single well-formed command the parser takes an action that
kubectl would have understood. `FoundIsOperand` is the reason: such a command holds
the word `kubectl` once, so that a pattern found anywhere is found at its start, and
the name behind it is an operand, neither a flag nor the value of one.

`QuantityCapsProofs`: `CpuCapKept` and `MemoryCapKept` for every natural amount:
cutting a fraction hides less than one millicore or MiB.

Only model-checked: liveness (`EveryPayloadSettles`, `StopsWhenAsked`, `CallsEnd`,
`StopEndsProcess`), which is out of the prover's reach. Every other property of a
passing run is a theorem.

## What is not modelled

* The branches of `ExecutionLogStore` for a Redis client: no store ever has one
  (`StoreStaysInMemory`, proved). The text of the entries.
* The spelling of templates: some field names that `to_dict()` gives are
  not the API's; "version" stands for what is restored.
* Regular expressions below words: a quantity is its number and unit. Spellings
  the expressions let through by accident (a trailing newline, unit names in
  another case) are not told apart from their plain forms.
* The retries that urllib3 makes of a DELETE below the client. What can come of a
  DELETE that is sent again - a success, or a 404 that is raised because the first one
  took effect - can come of one request of the model, answered or with its answer
  lost.
* Wording and formatting of logs (`logging_config.py`), dry-run descriptions,
  reading of environment variables, manifests; the probes, which only read the
  readiness flag.
* `retry_with_backoff`, `seconds_remaining` and `size` of `utils.py`, which no
  code that changes state uses. The locks in `utils.py`: one thread takes them.
* The tests, which were read as documentation.

## The plan

What is left: a measure like that of `RequestsRunOut` for the handling of a message,
which `EveryPayloadSettles` and `StopsWhenAsked` rest on, as an action property with a
theorem; and lemmas that say what `RunbookWorker` assumes of a call (it returns, or
raises having had its effect or not) in the terms of `KubernetesClient`. The
composition of several processes of `AgentProcess` with `RunbookWorker` in one module
would show nothing the two do not show apart.
