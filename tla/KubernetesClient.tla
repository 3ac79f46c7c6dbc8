-------------------------- MODULE KubernetesClient --------------------------
(***************************************************************************)
(* app/kubernetes_client.py below the calls of the executor: each function *)
(* is one to three requests to the API server, with other writers between  *)
(* any two of them, under the retries of _retryable.                       *)
(*                                                                         *)
(* The cluster holds one Deployment with its ReplicaSets, one Pod and one  *)
(* NetworkPolicy.  Of the pod template the model keeps the version of the  *)
(* application (its image), the resource limits and the restartedAt stamp, *)
(* which is new each time.  A request is one action: what the server does  *)
(* and what the client makes of the answer.  The back-off sleeps are the   *)
(* time between two actions.                                               *)
(***************************************************************************)
EXTENDS Naturals

CONSTANTS
    Clients,      \* worker threads, each making one call at a time
    Versions,     \* application versions
    Annotated,    \* the versions whose pod template has annotations of its own
    LimitValues,  \* cpu and memory limits, as written
    Stored,       \* the canonical form in which the server keeps them
    Foreign,      \* ReplicaSets of other Deployments that the label selector matches
    InfoLogging,  \* whether LOG_LEVEL lets INFO records through
    Calls,        \* the calls the executor makes
    Edits,        \* what other writers change
    MaxCalls,     \* bound: calls made
    MaxEdits,     \* bound: changes by other writers
    MaxLosses     \* bound: answers lost

Template   == [version : Versions, limits : LimitValues, stamp : Nat]
ReplicaSet == [rev : Nat, template : Template]

Call == [op : {"restart", "rollback", "delete_pod", "delete_policy"}]
          \cup [op : {"scale"}, replicas : Nat]
          \cup [op : {"update"}, limits : LimitValues]

ASSUME ClientAssumption ==
    /\ Annotated \subseteq Versions
    /\ Stored \in [LimitValues -> LimitValues]
    /\ \A l \in LimitValues : Stored[Stored[l]] = Stored[l]
    /\ Foreign \subseteq ReplicaSet
    /\ \A s \in Foreign : Stored[s.template.limits] = s.template.limits
    /\ InfoLogging \in BOOLEAN
    /\ Calls \subseteq Call
    /\ Edits \subseteq {"deploy", "scale", "prune", "pod", "policy"}
    /\ MaxCalls \in Nat /\ MaxEdits \in Nat /\ MaxLosses \in Nat

VARIABLES
    replicas,  \* spec.replicas of the Deployment
    template,  \* its pod template
    revision,  \* its revision annotation, 0 if there is none yet
    sets,      \* its ReplicaSets
    stamps,    \* restartedAt stamps given out
    pod,       \* the Pod: running, terminating or gone
    policy,    \* whether the NetworkPolicy exists
    call,      \* [c] the call going on, or the last one
    at,        \* [c] the next request of the client, or idle
    outer,     \* [c] attempt of the function called
    inner,     \* [c] attempt of the restart a rollback falls back on, 0 if it does not
    target,    \* [c] rollback_deployment's target_rev
    body,      \* [c] the template it is about to patch in
    outcome,   \* [c] how the last call ended
    requests,  \* [c] history: writes sent by the call
    applied,   \* [c] history: writes of the call that the server carried out
    faults,    \* [c] history: ways in which requests of the call failed
    expected,  \* [c] history: what a rollback begun with the call should go back to
    alone,     \* [c] history: whether nobody else changed the cluster since it began
    reached,   \* [c] history: whether what the call wants held since it began
    begun, edits, losses   \* counted against the bounds

deployment == <<replicas, template, stamps>>
history    == <<revision, sets>>
objects    == <<pod, policy>>
control    == <<at, outer, inner, target, body, outcome>>
vars == <<deployment, history, objects, call, control, requests, applied,
          faults, expected, alone, reached, begun, edits, losses>>

-----------------------------------------------------------------------------
Attempts == 3

Locations == {"idle", "reading", "listing", "writing"}
Outcomes  == {"none", "returned", "api_error", "error"}

NoCall  == [op |-> "none"]
Unknown == <<>>

Content(t) == <<t.version, t.limits>>

\* The Deployment controller has seen the template.
Reconciled == \E s \in sets : s.rev = revision /\ s.template = template

\* What the revision before the current one holds, if there is one.
PreviousContent ==
    LET previous == {s \in sets : s.rev + 1 = revision} IN
    IF ~Reconciled THEN Unknown
    ELSE IF previous = {} THEN Content(template)
    ELSE Content((CHOOSE s \in previous : TRUE).template)

\* The state of the cluster that a call is there to bring about.
Goal(c) ==
    \/ call[c].op = "scale"         /\ replicas = call[c].replicas
    \/ call[c].op = "update"        /\ template.limits = Stored[call[c].limits]
    \/ call[c].op = "delete_pod"    /\ pod # "running"
    \/ call[c].op = "delete_policy" /\ ~policy
    \/ call[c].op \in {"restart", "rollback"} /\ applied[c] > 0

Init ==
    /\ replicas = 1 /\ stamps = 0 /\ pod = "running" /\ policy = TRUE
    /\ template \in {t \in [version : Versions, limits : LimitValues, stamp : {0}] :
                        Stored[t.limits] = t.limits}
    /\ revision = 0 /\ sets = {}
    /\ call     = [c \in Clients |-> NoCall]
    /\ at       = [c \in Clients |-> "idle"]
    /\ outer    = [c \in Clients |-> 0]
    /\ inner    = [c \in Clients |-> 0]
    /\ target   = [c \in Clients |-> 0]
    /\ body     = [c \in Clients |-> Unknown]
    /\ outcome  = [c \in Clients |-> "none"]
    /\ requests = [c \in Clients |-> 0]
    /\ applied  = [c \in Clients |-> 0]
    /\ faults   = [c \in Clients |-> {}]
    /\ expected = [c \in Clients |-> Unknown]
    /\ alone    = [c \in Clients |-> TRUE]
    /\ reached  = [c \in Clients |-> FALSE]
    /\ begun = 0 /\ edits = 0 /\ losses = 0

\* History: what a step means for the calls going on.  A step of the clients
\* "by" disturbs the calls of the others.
Observe(by) ==
    /\ alone' = [c \in Clients |->
                   alone[c] /\ (c \in by \/ UNCHANGED <<deployment, objects, sets>>)]
    /\ reached' = [c \in Clients |->
                     IF at[c] = "idle" THEN reached[c] ELSE reached[c] \/ Goal(c)']

-----------------------------------------------------------------------------
(* The cluster and its other writers.                                      *)

\* The Deployment controller numbers the template it finds.
Reconcile ==
    /\ ~Reconciled
    /\ revision' = revision + 1
    /\ sets' = {s \in sets : s.template # template}
                 \cup {[rev |-> revision + 1, template |-> template]}
    /\ UNCHANGED <<deployment, objects, call, control, requests, applied, faults,
                   expected, begun, edits, losses>>
    /\ Observe(Clients)

\* The kubelet has stopped the pod.
PodGone ==
    /\ pod = "terminating" /\ pod' = "gone"
    /\ UNCHANGED <<deployment, history, policy, call, control, requests, applied,
                   faults, expected, begun, edits, losses>>
    /\ Observe(Clients)

Deploy(v, l) ==
    /\ template' = [template EXCEPT !.version = v, !.limits = Stored[l]]
    /\ UNCHANGED <<replicas, stamps, history, objects>>

Rescale(n) == replicas' = n /\ UNCHANGED <<template, stamps, history, objects>>

PruneHistory(s) ==
    /\ s.rev # revision /\ sets' = sets \ {s}
    /\ UNCHANGED <<deployment, revision, objects>>

\* Somebody deletes the pod, or a StatefulSet replaces it under its name.
TouchPod ==
    /\ \/ pod = "running" /\ pod' = "terminating"
       \/ pod = "gone" /\ pod' = "running"
    /\ UNCHANGED <<deployment, history, policy>>

TouchPolicy == policy' = ~policy /\ UNCHANGED <<deployment, history, pod>>

Edit ==
    /\ edits < MaxEdits /\ edits' = edits + 1
    /\ \/ "deploy" \in Edits /\ \E v \in Versions, l \in LimitValues : Deploy(v, l)
       \/ "scale" \in Edits /\ \E k \in Calls : k.op = "scale" /\ Rescale(k.replicas)
       \/ "prune" \in Edits /\ \E s \in sets : PruneHistory(s)
       \/ "pod" \in Edits /\ TouchPod
       \/ "policy" \in Edits /\ TouchPolicy
    /\ UNCHANGED <<call, control, requests, applied, faults, expected,
                   begun, losses>>
    /\ Observe({})

-----------------------------------------------------------------------------
(* _retryable, and what a function does when a request is answered.        *)

\* The first request of a function.
Entry(op) == IF op = "restart" THEN "writing" ELSE "reading"

Begin(c, k) ==
    /\ at[c] = "idle" /\ begun < MaxCalls /\ begun' = begun + 1
    /\ call'     = [call EXCEPT ![c] = k]
    /\ at'       = [at EXCEPT ![c] = Entry(k.op)]
    /\ outer'    = [outer EXCEPT ![c] = 1]
    /\ outcome'  = [outcome EXCEPT ![c] = "none"]
    /\ requests' = [requests EXCEPT ![c] = 0]
    /\ applied'  = [applied EXCEPT ![c] = 0]
    /\ faults'   = [faults EXCEPT ![c] = {}]
    /\ expected' = [expected EXCEPT ![c] = PreviousContent]
    /\ alone'    = [alone EXCEPT ![c] = TRUE]
    /\ UNCHANGED <<deployment, history, objects, inner, target, body,
                   edits, losses>>
    /\ reached' = [reached EXCEPT ![c] = Goal(c)']

Ends(c, how) ==
    /\ at'      = [at EXCEPT ![c] = "idle"]
    /\ outer'   = [outer EXCEPT ![c] = 0]
    /\ inner'   = [inner EXCEPT ![c] = 0]
    /\ target'  = [target EXCEPT ![c] = 0]
    /\ body'    = [body EXCEPT ![c] = Unknown]
    /\ outcome' = [outcome EXCEPT ![c] = how]

Goes(c, location) ==
    /\ at' = [at EXCEPT ![c] = location]
    /\ UNCHANGED <<outer, inner, outcome>>

\* The function called starts again, in its n-th attempt.
RestartsWith(c, n) ==
    /\ outer'  = [outer EXCEPT ![c] = n]
    /\ inner'  = [inner EXCEPT ![c] = 0]
    /\ at'     = [at EXCEPT ![c] = Entry(call[c].op)]
    /\ target' = [target EXCEPT ![c] = 0]
    /\ body'   = [body EXCEPT ![c] = Unknown]
    /\ UNCHANGED outcome

\* Mutants: one attempt too many; the failure of a restart fallen back on is no
\* attempt; that of a read is none.
RetryCallOnceMore(c) == outer[c] <= Attempts /\ RestartsWith(c, outer[c] + 1)
RetryCallUnlessFellBack(c) ==
    outer[c] < Attempts /\ RestartsWith(c, outer[c] + IF inner[c] > 0 THEN 0 ELSE 1)
RetryCallAfterReads(c) ==
    outer[c] < Attempts /\ RestartsWith(c, outer[c] + IF at[c] # "writing" THEN 0 ELSE 1)

RetryCall(c) == outer[c] < Attempts /\ RestartsWith(c, outer[c] + 1)

\* restart_deployment is decorated too: it starts again on its own, and its
\* last failure is one failure of the rollback around it.
RetryRestart(c) ==
    /\ inner[c] \in 1..(Attempts - 1)
    /\ inner' = [inner EXCEPT ![c] = @ + 1]
    /\ UNCHANGED <<at, outer, target, body, outcome>>

\* Mutant: the wrapper falls out of its loop after the last attempt.
GivesUpSilently(c) ==
    \/ RetryRestart(c)
    \/ inner[c] \notin 1..(Attempts - 1) /\ RetryCall(c)
    \/ inner[c] \notin 1..(Attempts - 1) /\ outer[c] = Attempts /\ Ends(c, "returned")

\* An ApiException with status 5xx or 429.
Transient(c) ==
    \/ RetryRestart(c)
    \/ inner[c] \notin 1..(Attempts - 1) /\ RetryCall(c)
    \/ inner[c] \notin 1..(Attempts - 1) /\ outer[c] = Attempts /\ Ends(c, "api_error")

\* Any other ApiException, and an exception that is none (a lost connection).
Fails(c) == Ends(c, "api_error") \/ Ends(c, "error")

Fault(c, kind) == faults' = [faults EXCEPT ![c] = @ \cup {kind}]

Steps(c) ==
    /\ UNCHANGED <<history, call, expected, begun, edits>>
    /\ Observe({c})

\* A read: Proceeds says what the client does with the answer.
Reads(c, Proceeds) ==
    /\ \/ Proceeds /\ UNCHANGED faults
       \/ Fault(c, "refused") /\ (Transient(c) \/ Fails(c))
    /\ UNCHANGED <<deployment, objects, requests, applied, losses>>
    /\ Steps(c)

\* A write: carried out and confirmed, carried out but the answer is an error
\* of a proxy or lost, or not carried out.
Writes(c, Effect, Proceeds) ==
    /\ requests' = [requests EXCEPT ![c] = @ + 1]
    /\ \/ /\ Effect /\ applied' = [applied EXCEPT ![c] = @ + 1]
          /\ \/ Proceeds /\ UNCHANGED <<faults, losses>>
             \/ /\ losses < MaxLosses /\ losses' = losses + 1
                /\ Fault(c, "lost") /\ (Transient(c) \/ Ends(c, "error"))
       \/ /\ UNCHANGED <<deployment, objects, applied, losses>>
          /\ Fault(c, "refused") /\ (Transient(c) \/ Fails(c))
    /\ Steps(c)

\* What runs: the function called, or the restart inside it.
Runs(c, op, location) ==
    /\ at[c] = location
    /\ op = IF inner[c] > 0 THEN "restart" ELSE call[c].op

Moves(c, location) == Goes(c, location) /\ UNCHANGED <<target, body>>
Returns(c) == Ends(c, "returned")

-----------------------------------------------------------------------------
(* The functions, request by request.                                      *)

\* Mutant: the patch is sent without looking.
ReadReplicasAlways(c) ==
    Runs(c, "scale", "reading") /\ Reads(c, Moves(c, "writing"))

\* scale_deployment: nothing to do if the count is right already.
ReadReplicas(c) ==
    /\ Runs(c, "scale", "reading")
    /\ Reads(c, IF replicas = call[c].replicas THEN Returns(c) ELSE Moves(c, "writing"))

\* Mutant: the record written after the patch raises.
PatchReplicasBadRecord(c) ==
    /\ Runs(c, "scale", "writing")
    /\ Writes(c, replicas' = call[c].replicas /\ UNCHANGED <<template, stamps, objects>>,
              Ends(c, "error"))

PatchReplicas(c) ==
    /\ Runs(c, "scale", "writing")
    /\ Writes(c, replicas' = call[c].replicas /\ UNCHANGED <<template, stamps, objects>>,
              Returns(c))

\* A patch of the pod template with a new restartedAt.
Stamped(t) ==
    /\ stamps' = stamps + 1
    /\ template' = [t EXCEPT !.stamp = stamps + 1]
    /\ UNCHANGED <<replicas, objects>>

\* restart_deployment, called or fallen back on.
PatchRestart(c) ==
    /\ Runs(c, "restart", "writing")
    /\ Writes(c, Stamped(template), Returns(c))

FallBack(c) ==
    /\ inner' = [inner EXCEPT ![c] = 1]
    /\ at' = [at EXCEPT ![c] = "writing"]
    /\ UNCHANGED <<outer, target, body, outcome>>

\* rollback_deployment: the current revision.
ReadRevision(c) ==
    /\ Runs(c, "rollback", "reading")
    /\ Reads(c, IF revision <= 1 THEN FallBack(c)
                ELSE /\ target' = [target EXCEPT ![c] = revision - 1]
                     /\ Goes(c, "listing") /\ UNCHANGED body)

\* to_dict() of a template without annotations maps "annotations" to None, and
\* setdefault keeps it: the assignment of restartedAt raises a TypeError.
HasAnnotations(t) == t.version \in Annotated \/ t.stamp # 0

\* Mutant: the revision before the target's is taken.
AtTargetOrBefore(c) == {s \in sets \cup Foreign : s.rev + 1 = target[c]}

\* The ReplicaSets that the selector matches and that have the target's number.
AtTarget(c) == {s \in sets \cup Foreign : s.rev = target[c]}

ListReplicaSets(c) ==
    /\ Runs(c, "rollback", "listing")
    /\ Reads(c, \/ AtTarget(c) = {} /\ FallBack(c)
                \/ \E s \in AtTarget(c) :
                     IF HasAnnotations(s.template)
                     THEN /\ body' = [body EXCEPT ![c] = s.template]
                          /\ Goes(c, "writing") /\ UNCHANGED target
                     ELSE Ends(c, "error"))

PatchRollback(c) ==
    /\ Runs(c, "rollback", "writing")
    /\ Writes(c, Stamped(body[c]), Returns(c))

\* update_deployment_resources: the limits are compared as they are written.
ReadLimits(c) ==
    /\ Runs(c, "update", "reading")
    /\ Reads(c, IF template.limits = call[c].limits THEN Returns(c) ELSE Moves(c, "writing"))

PatchLimits(c) ==
    /\ Runs(c, "update", "writing")
    /\ Writes(c, /\ template' = [template EXCEPT !.limits = Stored[call[c].limits]]
                 /\ UNCHANGED <<replicas, stamps, objects>>,
              Returns(c))

\* delete_pod: a 404 of the read is success, one of the delete is not.
ReadPod(c) ==
    /\ Runs(c, "delete_pod", "reading")
    /\ Reads(c, IF pod = "gone" THEN Returns(c) ELSE Moves(c, "writing"))

DeletePod(c) ==
    /\ Runs(c, "delete_pod", "writing") /\ pod # "gone"
    /\ Writes(c, pod' = "terminating" /\ UNCHANGED <<deployment, policy>>, Returns(c))

\* The INFO records of delete_network_policy carry an extra field "name", which
\* logging refuses with a KeyError.
Logs(c) == IF InfoLogging THEN Ends(c, "error") ELSE Returns(c)

ReadPolicy(c) ==
    /\ Runs(c, "delete_policy", "reading")
    /\ Reads(c, IF ~policy THEN Logs(c) ELSE Moves(c, "writing"))

DeletePolicy(c) ==
    /\ Runs(c, "delete_policy", "writing") /\ policy
    /\ Writes(c, policy' = FALSE /\ UNCHANGED <<deployment, pod>>, Logs(c))

\* The object went away after the read: the 404 is raised.
DeleteAbsent(c) ==
    /\ \/ Runs(c, "delete_pod", "writing") /\ pod = "gone"
       \/ Runs(c, "delete_policy", "writing") /\ ~policy
    /\ requests' = [requests EXCEPT ![c] = @ + 1]
    /\ \/ Ends(c, "api_error") /\ UNCHANGED faults
       \/ Fault(c, "refused") /\ (Transient(c) \/ Fails(c))
    /\ UNCHANGED <<deployment, objects, applied, losses>>
    /\ Steps(c)

-----------------------------------------------------------------------------
Request(c) ==
    \/ ReadReplicas(c) \/ PatchReplicas(c) \/ PatchRestart(c)
    \/ ReadRevision(c) \/ ListReplicaSets(c) \/ PatchRollback(c)
    \/ ReadLimits(c) \/ PatchLimits(c)
    \/ ReadPod(c) \/ DeletePod(c) \/ ReadPolicy(c) \/ DeletePolicy(c)
    \/ DeleteAbsent(c)

Next ==
    \/ Reconcile \/ PodGone \/ Edit
    \/ \E c \in Clients : Request(c) \/ \E k \in Calls : Begin(c, k)

Spec == Init /\ [][Next]_vars

\* Every request is answered at some time, or its connection breaks.
FairSpec == Spec /\ \A c \in Clients : WF_vars(Request(c))
=============================================================================
