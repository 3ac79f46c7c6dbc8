----------------------- MODULE KubernetesClientProofs -----------------------
(***************************************************************************)
(* Proofs about KubernetesClient, for any number of clients, any bounds    *)
(* and any calls, edits, faults and versions.                              *)
(*                                                                         *)
(* Every function is a sequence of requests, and the answer to a request   *)
(* either lets it go on, or ends it, or makes _retryable start it again.   *)
(* The lemmas state what the last two do to the client's control variables *)
(* at the client and at the others; each request then only has its own     *)
(* way of going on left.                                                   *)
(***************************************************************************)
EXTENDS KubernetesClientProperties, TLAPS

Ops == {"restart", "rollback", "delete_pod", "delete_policy", "scale", "update"}

\* The fields of a call that its kind has.
LEMMA CallFields ==
    ASSUME NEW k \in Calls \cup {NoCall}
    PROVE  /\ k.op \in Ops \cup {"none"}
           /\ k.op = "scale"  => k.replicas \in Nat
           /\ k.op = "update" => k.limits \in LimitValues
           /\ k \in Calls => k.op \in Ops
<1>1. CASE k \in [op : {"restart", "rollback", "delete_pod", "delete_policy"}]
  BY <1>1 DEF Ops
<1>2. CASE k \in [op : {"scale"}, replicas : Nat]
  BY <1>2 DEF Ops
<1>3. CASE k \in [op : {"update"}, limits : LimitValues]
  BY <1>3 DEF Ops
<1>4. CASE k = NoCall
  <2>1. k.op = "none"
    BY <1>4 DEF NoCall
  <2>2. k \notin Calls
    BY <2>1, ClientAssumption DEF Call
  <2> QED BY <2>1, <2>2
<1> QED BY <1>1, <1>2, <1>3, <1>4, ClientAssumption DEF Call

-----------------------------------------------------------------------------
(* The control variables after an answer.                                  *)

ControlType ==
    /\ at      \in [Clients -> Locations]
    /\ outer   \in [Clients -> 0..Attempts]
    /\ inner   \in [Clients -> 0..Attempts]
    /\ target  \in [Clients -> Nat]
    /\ body    \in [Clients -> Template \cup {Unknown}]
    /\ outcome \in [Clients -> Outcomes]

\* The variables of the other clients stay.
Others(c) ==
    \A d \in Clients \ {c} :
        /\ at'[d] = at[d] /\ outer'[d] = outer[d] /\ inner'[d] = inner[d]
        /\ target'[d] = target[d] /\ body'[d] = body[d] /\ outcome'[d] = outcome[d]

EndedAs(c, how) ==
    at'[c] = "idle" /\ outer'[c] = 0 /\ inner'[c] = 0 /\ outcome'[c] = how

RetriedRestart(c) ==
    /\ inner[c] \in 1..(Attempts - 1) /\ inner'[c] = inner[c] + 1
    /\ at'[c] = at[c] /\ outer'[c] = outer[c]
    /\ body'[c] = body[c] /\ outcome'[c] = outcome[c]

RetriedCall(c) ==
    /\ inner[c] \notin 1..(Attempts - 1) /\ inner'[c] = 0
    /\ outer[c] < Attempts /\ outer'[c] = outer[c] + 1
    /\ at'[c] = Entry(call[c].op) /\ outcome'[c] = outcome[c]

\* What a failed answer makes of a call.
FailedAnswer(c) ==
    \/ RetriedRestart(c) \/ RetriedCall(c)
    \/ EndedAs(c, "api_error") \/ EndedAs(c, "error")

LEMMA EndsControl ==
    ASSUME ControlType, NEW c \in Clients, NEW how \in Outcomes, Ends(c, how)
    PROVE  ControlType' /\ Others(c) /\ EndedAs(c, how)
  BY DEF ControlType, Ends, Others, EndedAs, Locations, Attempts

LEMMA RetryRestartControl ==
    ASSUME ControlType, NEW c \in Clients, RetryRestart(c)
    PROVE  ControlType' /\ Others(c) /\ RetriedRestart(c)
  BY DEF ControlType, RetryRestart, Others, RetriedRestart, Attempts

LEMMA RetryCallControl ==
    ASSUME ControlType, NEW c \in Clients, RetryCall(c), inner[c] \notin 1..(Attempts - 1)
    PROVE  ControlType' /\ Others(c) /\ RetriedCall(c)
  BY DEF ControlType, RetryCall, RestartsWith, Others, RetriedCall, Attempts, Entry, Locations

LEMMA TransientControl ==
    ASSUME ControlType, NEW c \in Clients, Transient(c)
    PROVE  ControlType' /\ Others(c) /\ FailedAnswer(c)
<1>1. CASE RetryRestart(c)
  BY <1>1, RetryRestartControl DEF FailedAnswer
<1>2. CASE inner[c] \notin 1..(Attempts - 1) /\ RetryCall(c)
  BY <1>2, RetryCallControl DEF FailedAnswer
<1>3. CASE Ends(c, "api_error")
  BY <1>3, EndsControl DEF FailedAnswer, Outcomes
<1> QED BY <1>1, <1>2, <1>3 DEF Transient

LEMMA FailsControl ==
    ASSUME ControlType, NEW c \in Clients, Fails(c)
    PROVE  ControlType' /\ Others(c) /\ FailedAnswer(c)
<1>1. CASE Ends(c, "api_error")
  BY <1>1, EndsControl DEF FailedAnswer, Outcomes
<1>2. CASE Ends(c, "error")
  BY <1>2, EndsControl DEF FailedAnswer, Outcomes
<1> QED BY <1>1, <1>2 DEF Fails

\* Going on to another request.
LEMMA MovesControl ==
    ASSUME ControlType, NEW c \in Clients, NEW l \in Locations, Moves(c, l)
    PROVE  /\ ControlType' /\ Others(c)
           /\ at'[c] = l /\ outer'[c] = outer[c] /\ inner'[c] = inner[c]
           /\ body'[c] = body[c] /\ outcome'[c] = outcome[c]
  BY DEF ControlType, Moves, Goes, Others

LEMMA FallBackControl ==
    ASSUME ControlType, NEW c \in Clients, FallBack(c)
    PROVE  /\ ControlType' /\ Others(c)
           /\ at'[c] = "writing" /\ outer'[c] = outer[c] /\ inner'[c] = 1
           /\ outcome'[c] = outcome[c]
  BY DEF ControlType, FallBack, Others, Attempts, Locations

-----------------------------------------------------------------------------
(* The inductive invariant, and what an answered request is.               *)

\* Templates hold limits in the form in which the server keeps them.
Canonical(t) == t \in Template /\ Stored[t.limits] = t.limits

\* Where a call can be.
Located(c) ==
    /\ at[c] = "idle" => outer[c] = 0 /\ inner[c] = 0
    /\ at[c] # "idle" => outer[c] > 0 /\ outcome[c] = "none" /\ call[c] \in Calls
    /\ inner[c] > 0 => call[c].op = "rollback" /\ at[c] = "writing"
    /\ at[c] = "listing" => call[c].op = "rollback"
    /\ at[c] = "reading" => call[c].op # "restart"
    /\ at[c] = "writing" /\ call[c].op = "rollback" /\ inner[c] = 0
         => Canonical(body[c])

ControlInv ==
    /\ TypeOK
    /\ Canonical(template) /\ \A s \in sets : Canonical(s.template)
    /\ \A c \in Clients : Located(c)

\* The answer to a request is that the call fails or starts again,
AnswerFails(c) ==
    /\ FailedAnswer(c)
    /\ faults'[c] \in {faults[c], faults[c] \cup {"refused"}}
    /\ applied'[c] = applied[c]
    /\ UNCHANGED <<deployment, objects>>

\* or that it goes on to its next request,
ReadGoesOn(c) ==
    /\ at[c] # "writing" /\ inner[c] = 0
    /\ at'[c] \in {"listing", "writing"} /\ outer'[c] = outer[c]
    /\ inner'[c] \in {0, 1} /\ outcome'[c] = outcome[c]
    /\ at'[c] = "listing" => at[c] = "reading" /\ call[c].op = "rollback"
    /\ inner'[c] = 1 => call[c].op = "rollback" /\ at'[c] = "writing"
    /\ at'[c] = "writing" /\ call[c].op = "rollback" /\ inner'[c] = 0
         => Canonical(body'[c])
    /\ at'[c] = "writing" /\ LooksBeforeWriting(call[c]) => ~Goal(c)
    /\ faults'[c] = faults[c] /\ applied'[c] = applied[c]
    /\ UNCHANGED <<deployment, objects>>

\* or that there is nothing to write,
ReadEnds(c) ==
    /\ at[c] # "writing"
    /\ \/ EndedAs(c, "returned") /\ Goal(c)'
       \/ EndedAs(c, "error")
    /\ faults'[c] = faults[c] /\ applied'[c] = applied[c]
    /\ UNCHANGED <<deployment, objects>>

\* or that the write is done, and perhaps not known to be.
WriteDone(c) ==
    /\ at[c] = "writing" /\ applied'[c] = applied[c] + 1 /\ Goal(c)'
    /\ \/ /\ faults'[c] = faults[c]
          /\ \/ EndedAs(c, "returned")
             \/ EndedAs(c, "error") /\ call[c].op = "delete_policy" /\ InfoLogging
       \/ /\ faults'[c] = faults[c] \cup {"lost"}
          /\ FailedAnswer(c)

Answered(c) == AnswerFails(c) \/ ReadGoesOn(c) \/ ReadEnds(c) \/ WriteDone(c)

\* What every request leaves alone, and what it counts.
Framed(c) ==
    /\ Others(c)
    /\ \A d \in Clients \ {c} :
         requests'[d] = requests[d] /\ applied'[d] = applied[d] /\ faults'[d] = faults[d]
    /\ requests'[c] = IF at[c] = "writing" THEN requests[c] + 1 ELSE requests[c]
    /\ call' = call /\ sets' = sets
    /\ Observe({c})

Result(c) == Answered(c) /\ Framed(c) /\ TypeOK' /\ Canonical(template)'

\* The histories keep their types.
LEMMA ObserveType ==
    ASSUME TypeOK, NEW by, Observe(by)
    PROVE  alone' \in [Clients -> BOOLEAN] /\ reached' \in [Clients -> BOOLEAN]
<1>1. alone' \in [Clients -> BOOLEAN]
  BY DEF Observe, TypeOK
<1>2. \A c \in Clients :
        (IF at[c] = "idle" THEN reached[c] ELSE reached[c] \/ Goal(c)') \in BOOLEAN
  BY DEF TypeOK, Goal
<1> QED BY <1>1, <1>2 DEF Observe

\* What the fields of the cluster must be for TypeOK.
ClusterType ==
    /\ replicas \in Nat /\ stamps \in Nat /\ Canonical(template)
    /\ pod \in {"running", "terminating", "gone"} /\ policy \in BOOLEAN

\* TypeOK after a request.
LEMMA StepsType ==
    ASSUME ControlInv, NEW c \in Clients, Steps(c), ControlType', ClusterType',
           requests' \in [Clients -> Nat], applied' \in [Clients -> Nat],
           faults' \in [Clients -> SUBSET {"lost", "refused"}], losses' \in Nat
    PROVE  TypeOK' /\ Canonical(template)'
<1>1. alone' \in [Clients -> BOOLEAN] /\ reached' \in [Clients -> BOOLEAN]
  BY ObserveType DEF Steps, ControlInv
<1>2. revision' = revision /\ sets' = sets /\ call' = call
      /\ begun' = begun /\ edits' = edits
  BY DEF Steps, history
<1> QED
  BY <1>1, <1>2 DEF ControlInv, TypeOK, ControlType, ClusterType, Canonical

LEMMA ReadFailed ==
    ASSUME ControlInv, NEW c \in Clients, at[c] # "writing",
           UNCHANGED <<deployment, objects, requests, applied, losses>>, Steps(c),
           Fault(c, "refused"), Transient(c) \/ Fails(c)
    PROVE  Result(c)
<1>1. ControlType
  BY DEF ControlInv, TypeOK, ControlType
<1>2. ControlType' /\ Others(c) /\ FailedAnswer(c)
  BY <1>1, TransientControl, FailsControl
<1>3. /\ ClusterType' /\ requests' = requests /\ applied' = applied /\ losses' = losses
      /\ call' = call /\ sets' = sets
  BY DEF ControlInv, TypeOK, ClusterType, deployment, objects, Canonical, Steps, history
<1>4. faults' \in [Clients -> SUBSET {"lost", "refused"}]
      /\ faults'[c] = faults[c] \cup {"refused"}
      /\ \A d \in Clients \ {c} : faults'[d] = faults[d]
  BY DEF ControlInv, TypeOK, Fault
<1>5. TypeOK' /\ Canonical(template)'
  BY <1>2, <1>3, <1>4, StepsType DEF ControlInv, TypeOK
<1>6. Framed(c)
  BY <1>2, <1>3, <1>4 DEF Framed, Steps
<1>7. AnswerFails(c)
  BY <1>2, <1>3, <1>4 DEF AnswerFails
<1> QED BY <1>5, <1>6, <1>7 DEF Result, Answered

\* Nothing is written, and the call ends.
LEMMA ReadEnded ==
    ASSUME ControlInv, NEW c \in Clients, at[c] # "writing",
           UNCHANGED <<deployment, objects, requests, applied, losses, faults>>, Steps(c),
           NEW how \in {"returned", "error"}, Ends(c, how),
           how = "returned" => Goal(c)'
    PROVE  Result(c)
<1>1. ControlType
  BY DEF ControlInv, TypeOK, ControlType
<1>2. ControlType' /\ Others(c) /\ EndedAs(c, how)
  BY <1>1, EndsControl DEF Outcomes
<1>3. /\ ClusterType' /\ requests' = requests /\ applied' = applied /\ losses' = losses
      /\ faults' = faults /\ call' = call /\ sets' = sets
  BY DEF ControlInv, TypeOK, ClusterType, deployment, objects, Canonical, Steps, history
<1>4. TypeOK' /\ Canonical(template)'
  BY <1>2, <1>3, StepsType DEF ControlInv, TypeOK
<1>5. Framed(c)
  BY <1>2, <1>3 DEF Framed, Steps
<1>6. ReadEnds(c)
  BY <1>2, <1>3 DEF ReadEnds
<1> QED BY <1>4, <1>5, <1>6 DEF Result, Answered

\* A read after which the call goes on.
LEMMA ReadWentOn ==
    ASSUME ControlInv, NEW c \in Clients, at[c] # "writing",
           UNCHANGED <<deployment, objects, requests, applied, losses, faults>>, Steps(c),
           ControlType', Others(c),
           inner[c] = 0, at'[c] \in {"listing", "writing"}, outer'[c] = outer[c],
           inner'[c] \in {0, 1}, outcome'[c] = outcome[c],
           at'[c] = "listing" => at[c] = "reading" /\ call[c].op = "rollback",
           inner'[c] = 1 => call[c].op = "rollback" /\ at'[c] = "writing",
           /\ at'[c] = "writing" /\ call[c].op = "rollback" /\ inner'[c] = 0
           => Canonical(body'[c]),
           at'[c] = "writing" /\ LooksBeforeWriting(call[c]) => ~Goal(c)
    PROVE  Result(c)
<1>1. /\ ClusterType' /\ requests' = requests /\ applied' = applied /\ losses' = losses
      /\ faults' = faults /\ call' = call /\ sets' = sets
  BY DEF ControlInv, TypeOK, ClusterType, deployment, objects, Canonical, Steps, history
<1>2. TypeOK' /\ Canonical(template)'
  BY <1>1, StepsType DEF ControlInv, TypeOK
<1>3. Framed(c)
  BY <1>1 DEF Framed, Steps
<1>4. ReadGoesOn(c)
  BY <1>1 DEF ReadGoesOn
<1> QED BY <1>2, <1>3, <1>4 DEF Result, Answered

\* A write that is not carried out.
LEMMA WriteRefused ==
    ASSUME ControlInv, NEW c \in Clients, at[c] = "writing",
           requests' = [requests EXCEPT ![c] = @ + 1],
           UNCHANGED <<deployment, objects, applied, losses>>, Steps(c),
           \/ Fault(c, "refused") /\ (Transient(c) \/ Fails(c))
           \/ Ends(c, "api_error") /\ UNCHANGED faults
    PROVE  Result(c)
<1>1. ControlType
  BY DEF ControlInv, TypeOK, ControlType
<1>2. ControlType' /\ Others(c) /\ FailedAnswer(c)
  BY <1>1, TransientControl, FailsControl, EndsControl DEF FailedAnswer, Outcomes
<1>3. /\ ClusterType' /\ applied' = applied /\ losses' = losses
      /\ call' = call /\ sets' = sets
  BY DEF ControlInv, TypeOK, ClusterType, deployment, objects, Canonical, Steps, history
<1>4. faults' \in [Clients -> SUBSET {"lost", "refused"}]
      /\ faults'[c] \in {faults[c], faults[c] \cup {"refused"}}
      /\ \A d \in Clients \ {c} : faults'[d] = faults[d]
  BY DEF ControlInv, TypeOK, Fault
<1>5. requests' \in [Clients -> Nat] /\ requests'[c] = requests[c] + 1
      /\ \A d \in Clients \ {c} : requests'[d] = requests[d]
  BY DEF ControlInv, TypeOK
<1>6. TypeOK' /\ Canonical(template)'
  BY <1>2, <1>3, <1>4, <1>5, StepsType DEF ControlInv, TypeOK
<1>7. Framed(c)
  BY <1>2, <1>3, <1>4, <1>5 DEF Framed, Steps
<1>8. AnswerFails(c)
  BY <1>2, <1>3, <1>4 DEF AnswerFails
<1> QED BY <1>6, <1>7, <1>8 DEF Result, Answered

\* A write that is carried out: confirmed, or its answer is an error.
LEMMA WriteCarriedOut ==
    ASSUME ControlInv, NEW c \in Clients, at[c] = "writing",
           requests' = [requests EXCEPT ![c] = @ + 1],
           applied' = [applied EXCEPT ![c] = @ + 1],
           ClusterType', Goal(c)', Steps(c),
           \/ /\ UNCHANGED <<faults, losses>>
              /\ \/ Ends(c, "returned")
                 \/ Ends(c, "error") /\ call[c].op = "delete_policy" /\ InfoLogging
           \/ losses' = losses + 1 /\ Fault(c, "lost") /\ (Transient(c) \/ Ends(c, "error"))
    PROVE  Result(c)
<1>1. ControlType
  BY DEF ControlInv, TypeOK, ControlType
<1>2. call' = call /\ sets' = sets /\ losses' \in Nat
  BY DEF ControlInv, TypeOK, Steps, history
<1>3. requests' \in [Clients -> Nat] /\ requests'[c] = requests[c] + 1
      /\ applied' \in [Clients -> Nat] /\ applied'[c] = applied[c] + 1
      /\ \A d \in Clients \ {c} : requests'[d] = requests[d] /\ applied'[d] = applied[d]
  BY DEF ControlInv, TypeOK
<1>4. faults' \in [Clients -> SUBSET {"lost", "refused"}]
      /\ \A d \in Clients \ {c} : faults'[d] = faults[d]
  BY DEF ControlInv, TypeOK, Fault
<1>5. ControlType' /\ Others(c) /\ WriteDone(c)
  <2>1. CASE UNCHANGED faults /\ Ends(c, "returned")
    BY <1>1, <1>3, <2>1, EndsControl DEF WriteDone, Outcomes
  <2>2. CASE UNCHANGED faults /\ Ends(c, "error")
             /\ call[c].op = "delete_policy" /\ InfoLogging
    BY <1>1, <1>3, <2>2, EndsControl DEF WriteDone, Outcomes
  <2>3. CASE Fault(c, "lost") /\ (Transient(c) \/ Ends(c, "error"))
    <3>1. ControlType' /\ Others(c) /\ FailedAnswer(c)
      BY <1>1, <2>3, TransientControl, EndsControl DEF FailedAnswer, Outcomes
    <3>2. faults'[c] = faults[c] \cup {"lost"}
      BY <2>3 DEF ControlInv, TypeOK, Fault
    <3> QED BY <1>3, <3>1, <3>2 DEF WriteDone
  <2> QED BY <2>1, <2>2, <2>3
<1>6. TypeOK' /\ Canonical(template)'
  BY <1>2, <1>3, <1>4, <1>5, StepsType
<1>7. Framed(c)
  BY <1>2, <1>3, <1>4, <1>5 DEF Framed, Steps
<1> QED BY <1>5, <1>6, <1>7 DEF Result, Answered

-----------------------------------------------------------------------------
(* The requests, one by one.                                               *)

\* What a function that runs tells of where the call is.
LEMMA RunsCall ==
    ASSUME ControlInv, NEW c \in Clients, NEW op, NEW l \in Locations \ {"idle"},
           Runs(c, op, l)
    PROVE  /\ at[c] = l /\ call[c] \in Calls /\ outer[c] > 0 /\ outcome[c] = "none"
           /\ inner[c] > 0 => op = "restart" /\ call[c].op = "rollback"
           /\ inner[c] = 0 => op = call[c].op
           /\ inner[c] \in Nat
  BY DEF ControlInv, Located, Runs, TypeOK

LEMMA ReadReplicasResult ==
    ASSUME ControlInv, NEW c \in Clients, ReadReplicas(c)
    PROVE  Result(c)
<1>1. /\ at[c] = "reading" /\ call[c].op = "scale" /\ inner[c] = 0
      /\ UNCHANGED <<deployment, objects, requests, applied, losses>> /\ Steps(c)
  BY RunsCall DEF ReadReplicas, Reads, Locations
<1>2. CASE replicas = call[c].replicas /\ Returns(c) /\ UNCHANGED faults
  <2>1. Goal(c)'
    BY <1>1, <1>2 DEF Goal, deployment, Steps
  <2> QED BY <1>1, <1>2, <2>1, ReadEnded DEF Returns
<1>3. CASE replicas # call[c].replicas /\ Moves(c, "writing") /\ UNCHANGED faults
  <2>1. /\ ControlType' /\ Others(c) /\ at'[c] = "writing" /\ outer'[c] = outer[c]
        /\ inner'[c] = inner[c] /\ outcome'[c] = outcome[c]
    BY <1>3, MovesControl DEF ControlInv, TypeOK, ControlType, Locations
  <2>2. ~Goal(c)
    BY <1>1, <1>3 DEF Goal
  <2> QED BY <1>1, <1>3, <2>1, <2>2, ReadWentOn
<1>4. CASE Fault(c, "refused") /\ (Transient(c) \/ Fails(c))
  BY <1>1, <1>4, ReadFailed
<1> QED BY <1>2, <1>3, <1>4 DEF ReadReplicas, Reads

LEMMA ReadLimitsResult ==
    ASSUME ControlInv, NEW c \in Clients, ReadLimits(c)
    PROVE  Result(c)
<1>1. /\ at[c] = "reading" /\ call[c].op = "update" /\ inner[c] = 0
      /\ UNCHANGED <<deployment, objects, requests, applied, losses>> /\ Steps(c)
  BY RunsCall DEF ReadLimits, Reads, Locations
<1>2. CASE template.limits = call[c].limits /\ Returns(c) /\ UNCHANGED faults
  <2>1. Goal(c)'
    BY <1>1, <1>2 DEF Goal, deployment, Steps, ControlInv, Canonical
  <2> QED BY <1>1, <1>2, <2>1, ReadEnded DEF Returns
<1>3. CASE template.limits # call[c].limits /\ Moves(c, "writing") /\ UNCHANGED faults
  <2>1. /\ ControlType' /\ Others(c) /\ at'[c] = "writing" /\ outer'[c] = outer[c]
        /\ inner'[c] = inner[c] /\ outcome'[c] = outcome[c]
    BY <1>3, MovesControl DEF ControlInv, TypeOK, ControlType, Locations
  <2>2. LooksBeforeWriting(call[c]) => ~Goal(c)
    BY <1>1, <1>3 DEF Goal, LooksBeforeWriting
  <2> QED BY <1>1, <1>3, <2>1, <2>2, ReadWentOn
<1>4. CASE Fault(c, "refused") /\ (Transient(c) \/ Fails(c))
  BY <1>1, <1>4, ReadFailed
<1> QED BY <1>2, <1>3, <1>4 DEF ReadLimits, Reads

LEMMA ReadRevisionResult ==
    ASSUME ControlInv, NEW c \in Clients, ReadRevision(c)
    PROVE  Result(c)
<1>1. /\ at[c] = "reading" /\ call[c].op = "rollback" /\ inner[c] = 0
      /\ UNCHANGED <<deployment, objects, requests, applied, losses>> /\ Steps(c)
  BY RunsCall DEF ReadRevision, Reads, Locations
<1>2. ControlType /\ revision \in Nat
  BY DEF ControlInv, TypeOK, ControlType
<1>3. CASE FallBack(c) /\ UNCHANGED faults
  BY <1>1, <1>2, <1>3, FallBackControl, ReadWentOn DEF LooksBeforeWriting
<1>4. CASE /\ revision > 1 /\ target' = [target EXCEPT ![c] = revision - 1]
           /\ Goes(c, "listing") /\ UNCHANGED body /\ UNCHANGED faults
  <2>1. /\ ControlType' /\ Others(c) /\ at'[c] = "listing" /\ outer'[c] = outer[c]
        /\ inner'[c] = inner[c] /\ outcome'[c] = outcome[c]
    BY <1>2, <1>4 DEF ControlType, Goes, Others, Locations
  <2> QED BY <1>1, <1>4, <2>1, ReadWentOn
<1>5. CASE Fault(c, "refused") /\ (Transient(c) \/ Fails(c))
  BY <1>1, <1>5, ReadFailed
<1> QED BY <1>2, <1>3, <1>4, <1>5 DEF ReadRevision, Reads

LEMMA ListReplicaSetsResult ==
    ASSUME ControlInv, NEW c \in Clients, ListReplicaSets(c)
    PROVE  Result(c)
<1>1. /\ at[c] = "listing" /\ call[c].op = "rollback" /\ inner[c] = 0
      /\ UNCHANGED <<deployment, objects, requests, applied, losses>> /\ Steps(c)
  BY RunsCall DEF ListReplicaSets, Reads, Locations
<1>2. ControlType
  BY DEF ControlInv, TypeOK, ControlType
<1>3. CASE FallBack(c) /\ UNCHANGED faults
  BY <1>1, <1>2, <1>3, FallBackControl, ReadWentOn DEF LooksBeforeWriting
<1>4. CASE \E s \in AtTarget(c) :
             /\ body' = [body EXCEPT ![c] = s.template]
             /\ Goes(c, "writing") /\ UNCHANGED target /\ UNCHANGED faults
  <2>1. PICK s \in AtTarget(c) :
             /\ body' = [body EXCEPT ![c] = s.template]
             /\ Goes(c, "writing") /\ UNCHANGED target /\ UNCHANGED faults
    BY <1>4
  <2>2. Canonical(s.template)
    BY ClientAssumption DEF AtTarget, ControlInv, Canonical, ReplicaSet
  <2>3. /\ ControlType' /\ Others(c) /\ at'[c] = "writing" /\ outer'[c] = outer[c]
        /\ inner'[c] = inner[c] /\ outcome'[c] = outcome[c] /\ body'[c] = s.template
    BY <1>2, <2>1, <2>2 DEF ControlType, Goes, Others, Locations, Canonical
  <2> QED
    BY <1>1, <2>1, <2>2, <2>3, ReadWentOn DEF LooksBeforeWriting, Canonical
<1>5. CASE Ends(c, "error") /\ UNCHANGED faults
  BY <1>1, <1>5, ReadEnded
<1>6. CASE Fault(c, "refused") /\ (Transient(c) \/ Fails(c))
  BY <1>1, <1>6, ReadFailed
<1> QED BY <1>3, <1>4, <1>5, <1>6 DEF ListReplicaSets, Reads

LEMMA ReadPodResult ==
    ASSUME ControlInv, NEW c \in Clients, ReadPod(c)
    PROVE  Result(c)
<1>1. /\ at[c] = "reading" /\ call[c].op = "delete_pod" /\ inner[c] = 0
      /\ UNCHANGED <<deployment, objects, requests, applied, losses>> /\ Steps(c)
  BY RunsCall DEF ReadPod, Reads, Locations
<1>2. CASE pod = "gone" /\ Returns(c) /\ UNCHANGED faults
  <2>1. Goal(c)'
    BY <1>1, <1>2 DEF Goal, objects, Steps
  <2> QED BY <1>1, <1>2, <2>1, ReadEnded DEF Returns
<1>3. CASE Moves(c, "writing") /\ UNCHANGED faults
  <2>1. /\ ControlType' /\ Others(c) /\ at'[c] = "writing" /\ outer'[c] = outer[c]
        /\ inner'[c] = inner[c] /\ outcome'[c] = outcome[c]
    BY <1>3, MovesControl DEF ControlInv, TypeOK, ControlType, Locations
  <2> QED BY <1>1, <1>3, <2>1, ReadWentOn DEF LooksBeforeWriting
<1>4. CASE Fault(c, "refused") /\ (Transient(c) \/ Fails(c))
  BY <1>1, <1>4, ReadFailed
<1> QED BY <1>2, <1>3, <1>4 DEF ReadPod, Reads

LEMMA ReadPolicyResult ==
    ASSUME ControlInv, NEW c \in Clients, ReadPolicy(c)
    PROVE  Result(c)
<1>1. /\ at[c] = "reading" /\ call[c].op = "delete_policy" /\ inner[c] = 0
      /\ UNCHANGED <<deployment, objects, requests, applied, losses>> /\ Steps(c)
  BY RunsCall DEF ReadPolicy, Reads, Locations
<1>2. CASE ~policy /\ Logs(c) /\ UNCHANGED faults
  <2>1. Goal(c)'
    BY <1>1, <1>2 DEF Goal, objects, Steps
  <2>2. Ends(c, "returned") \/ Ends(c, "error")
    BY <1>2 DEF Logs, Returns
  <2> QED BY <1>1, <1>2, <2>1, <2>2, ReadEnded
<1>3. CASE policy /\ Moves(c, "writing") /\ UNCHANGED faults
  <2>1. /\ ControlType' /\ Others(c) /\ at'[c] = "writing" /\ outer'[c] = outer[c]
        /\ inner'[c] = inner[c] /\ outcome'[c] = outcome[c]
    BY <1>3, MovesControl DEF ControlInv, TypeOK, ControlType, Locations
  <2>2. ~Goal(c)
    BY <1>1, <1>3 DEF Goal
  <2> QED BY <1>1, <1>3, <2>1, <2>2, ReadWentOn
<1>4. CASE Fault(c, "refused") /\ (Transient(c) \/ Fails(c))
  BY <1>1, <1>4, ReadFailed
<1> QED BY <1>2, <1>3, <1>4 DEF ReadPolicy, Reads

\* The two ways in which a write is answered.
LEMMA WriteRefusedBy ==
    ASSUME ControlInv, NEW c \in Clients, at[c] = "writing", Steps(c),
           requests' = [requests EXCEPT ![c] = @ + 1],
           UNCHANGED <<deployment, objects, applied, losses>>,
           Fault(c, "refused") /\ (Transient(c) \/ Fails(c))
    PROVE  Result(c)
  BY WriteRefused

LEMMA PatchReplicasResult ==
    ASSUME ControlInv, NEW c \in Clients, PatchReplicas(c)
    PROVE  Result(c)
<1>1. /\ at[c] = "writing" /\ call[c].op = "scale" /\ call[c] \in Calls
      /\ requests' = [requests EXCEPT ![c] = @ + 1] /\ Steps(c)
  BY RunsCall DEF PatchReplicas, Writes, Locations
<1>2. CASE /\ replicas' = call[c].replicas /\ UNCHANGED <<template, stamps, objects>>
           /\ applied' = [applied EXCEPT ![c] = @ + 1]
           /\ \/ Returns(c) /\ UNCHANGED <<faults, losses>>
              \/ /\ losses' = losses + 1
                 /\ Fault(c, "lost") /\ (Transient(c) \/ Ends(c, "error"))
  <2>1. Goal(c)'
    BY <1>1, <1>2 DEF Goal, Steps
  <2>2. ClusterType'
    BY <1>1, <1>2, CallFields DEF ClusterType, ControlInv, TypeOK, objects, Canonical
  <2> QED BY <1>1, <1>2, <2>1, <2>2, WriteCarriedOut DEF Returns
<1>3. CASE /\ UNCHANGED <<deployment, objects, applied, losses>>
           /\ Fault(c, "refused") /\ (Transient(c) \/ Fails(c))
  BY <1>1, <1>3, WriteRefusedBy
<1> QED BY <1>2, <1>3 DEF PatchReplicas, Writes

LEMMA PatchLimitsResult ==
    ASSUME ControlInv, NEW c \in Clients, PatchLimits(c)
    PROVE  Result(c)
<1>1. /\ at[c] = "writing" /\ call[c].op = "update" /\ call[c] \in Calls
      /\ requests' = [requests EXCEPT ![c] = @ + 1] /\ Steps(c)
  BY RunsCall DEF PatchLimits, Writes, Locations
<1>2. CASE /\ template' = [template EXCEPT !.limits = Stored[call[c].limits]]
           /\ UNCHANGED <<replicas, stamps, objects>>
           /\ applied' = [applied EXCEPT ![c] = @ + 1]
           /\ \/ Returns(c) /\ UNCHANGED <<faults, losses>>
              \/ /\ losses' = losses + 1
                 /\ Fault(c, "lost") /\ (Transient(c) \/ Ends(c, "error"))
  <2>1. call[c].limits \in LimitValues
    BY <1>1, CallFields
  <2>2. template' \in Template /\ template'.limits = Stored[call[c].limits]
    BY <1>2, <2>1, ClientAssumption DEF Template, ControlInv, Canonical
  <2>3. Goal(c)'
    BY <1>1, <2>2 DEF Goal, Steps
  <2>4. ClusterType'
    BY <1>2, <2>1, <2>2, ClientAssumption
    DEF ClusterType, ControlInv, TypeOK, objects, Canonical
  <2> QED BY <1>1, <1>2, <2>3, <2>4, WriteCarriedOut DEF Returns
<1>3. CASE /\ UNCHANGED <<deployment, objects, applied, losses>>
           /\ Fault(c, "refused") /\ (Transient(c) \/ Fails(c))
  BY <1>1, <1>3, WriteRefusedBy
<1> QED BY <1>2, <1>3 DEF PatchLimits, Writes

\* A stamped patch of a template keeps its content in the server's form.
LEMMA StampedType ==
    ASSUME ControlInv, NEW t, Canonical(t), Stamped(t)
    PROVE  ClusterType'
<1>1. stamps + 1 \in Nat
  BY DEF ControlInv, TypeOK
<1>2. template' \in Template /\ template'.limits = t.limits
  BY <1>1 DEF Stamped, Template, Canonical
<1> QED
  BY <1>1, <1>2 DEF Stamped, ClusterType, ControlInv, TypeOK, objects, Canonical

LEMMA PatchRestartResult ==
    ASSUME ControlInv, NEW c \in Clients, PatchRestart(c)
    PROVE  Result(c)
<1>1. /\ at[c] = "writing" /\ call[c].op \in {"restart", "rollback"}
      /\ requests' = [requests EXCEPT ![c] = @ + 1] /\ Steps(c)
  BY RunsCall DEF PatchRestart, Writes, Locations
<1>2. CASE /\ Stamped(template) /\ applied' = [applied EXCEPT ![c] = @ + 1]
           /\ \/ Returns(c) /\ UNCHANGED <<faults, losses>>
              \/ /\ losses' = losses + 1
                 /\ Fault(c, "lost") /\ (Transient(c) \/ Ends(c, "error"))
  <2>1. Goal(c)'
    BY <1>1, <1>2 DEF Goal, Steps, ControlInv, TypeOK
  <2>2. ClusterType'
    BY <1>2, StampedType DEF ControlInv
  <2> QED BY <1>1, <1>2, <2>1, <2>2, WriteCarriedOut DEF Returns
<1>3. CASE /\ UNCHANGED <<deployment, objects, applied, losses>>
           /\ Fault(c, "refused") /\ (Transient(c) \/ Fails(c))
  BY <1>1, <1>3, WriteRefusedBy
<1> QED BY <1>2, <1>3 DEF PatchRestart, Writes

LEMMA PatchRollbackResult ==
    ASSUME ControlInv, NEW c \in Clients, PatchRollback(c)
    PROVE  Result(c)
<1>1. /\ at[c] = "writing" /\ call[c].op = "rollback" /\ inner[c] = 0
      /\ requests' = [requests EXCEPT ![c] = @ + 1] /\ Steps(c)
  BY RunsCall DEF PatchRollback, Writes, Locations
<1>2. CASE /\ Stamped(body[c]) /\ applied' = [applied EXCEPT ![c] = @ + 1]
           /\ \/ Returns(c) /\ UNCHANGED <<faults, losses>>
              \/ /\ losses' = losses + 1
                 /\ Fault(c, "lost") /\ (Transient(c) \/ Ends(c, "error"))
  <2>1. Goal(c)'
    BY <1>1, <1>2 DEF Goal, Steps, ControlInv, TypeOK
  <2>2. ClusterType'
    BY <1>1, <1>2, StampedType DEF ControlInv, Located
  <2> QED BY <1>1, <1>2, <2>1, <2>2, WriteCarriedOut DEF Returns
<1>3. CASE /\ UNCHANGED <<deployment, objects, applied, losses>>
           /\ Fault(c, "refused") /\ (Transient(c) \/ Fails(c))
  BY <1>1, <1>3, WriteRefusedBy
<1> QED BY <1>2, <1>3 DEF PatchRollback, Writes

LEMMA DeletePodResult ==
    ASSUME ControlInv, NEW c \in Clients, DeletePod(c)
    PROVE  Result(c)
<1>1. /\ at[c] = "writing" /\ call[c].op = "delete_pod"
      /\ requests' = [requests EXCEPT ![c] = @ + 1] /\ Steps(c)
  BY RunsCall DEF DeletePod, Writes, Locations
<1>2. CASE /\ pod' = "terminating" /\ UNCHANGED <<deployment, policy>>
           /\ applied' = [applied EXCEPT ![c] = @ + 1]
           /\ \/ Returns(c) /\ UNCHANGED <<faults, losses>>
              \/ /\ losses' = losses + 1
                 /\ Fault(c, "lost") /\ (Transient(c) \/ Ends(c, "error"))
  <2>1. Goal(c)'
    BY <1>1, <1>2 DEF Goal, Steps
  <2>2. ClusterType'
    BY <1>2 DEF ClusterType, ControlInv, TypeOK, deployment, Canonical
  <2> QED BY <1>1, <1>2, <2>1, <2>2, WriteCarriedOut DEF Returns
<1>3. CASE /\ UNCHANGED <<deployment, objects, applied, losses>>
           /\ Fault(c, "refused") /\ (Transient(c) \/ Fails(c))
  BY <1>1, <1>3, WriteRefusedBy
<1> QED BY <1>2, <1>3 DEF DeletePod, Writes

LEMMA DeletePolicyResult ==
    ASSUME ControlInv, NEW c \in Clients, DeletePolicy(c)
    PROVE  Result(c)
<1>1. /\ at[c] = "writing" /\ call[c].op = "delete_policy"
      /\ requests' = [requests EXCEPT ![c] = @ + 1] /\ Steps(c)
  BY RunsCall DEF DeletePolicy, Writes, Locations
<1>2. CASE /\ policy' = FALSE /\ UNCHANGED <<deployment, pod>>
           /\ applied' = [applied EXCEPT ![c] = @ + 1]
           /\ \/ Logs(c) /\ UNCHANGED <<faults, losses>>
              \/ /\ losses' = losses + 1
                 /\ Fault(c, "lost") /\ (Transient(c) \/ Ends(c, "error"))
  <2>1. Goal(c)'
    BY <1>1, <1>2 DEF Goal, Steps
  <2>2. ClusterType'
    BY <1>2 DEF ClusterType, ControlInv, TypeOK, deployment, Canonical
  <2>3. Logs(c) => Ends(c, "returned") \/ (Ends(c, "error") /\ InfoLogging)
    BY DEF Logs, Returns
  <2> QED BY <1>1, <1>2, <2>1, <2>2, <2>3, WriteCarriedOut
<1>3. CASE /\ UNCHANGED <<deployment, objects, applied, losses>>
           /\ Fault(c, "refused") /\ (Transient(c) \/ Fails(c))
  BY <1>1, <1>3, WriteRefusedBy
<1> QED BY <1>2, <1>3 DEF DeletePolicy, Writes

LEMMA DeleteAbsentResult ==
    ASSUME ControlInv, NEW c \in Clients, DeleteAbsent(c)
    PROVE  Result(c)
<1>1. at[c] = "writing"
  BY RunsCall DEF DeleteAbsent, Locations
<1> QED BY <1>1, WriteRefused DEF DeleteAbsent

\* Every request is answered in one of the ways of Answered.
LEMMA RequestResult ==
    ASSUME ControlInv, NEW c \in Clients, Request(c)
    PROVE  Result(c)
  BY ReadReplicasResult, PatchReplicasResult, PatchRestartResult, ReadRevisionResult,
     ListReplicaSetsResult, PatchRollbackResult, ReadLimitsResult, PatchLimitsResult,
     ReadPodResult, DeletePodResult, ReadPolicyResult, DeletePolicyResult,
     DeleteAbsentResult DEF Request

-----------------------------------------------------------------------------
(* ControlInv is inductive.                                                *)

\* What a step that is no client's leaves alone.
Stays ==
    UNCHANGED <<at, outer, inner, target, body, outcome, call, requests, applied, faults>>

\* The steps that are no client's.
ClusterStep == Reconcile \/ PodGone \/ Edit

LEMMA ClusterStepResult ==
    ASSUME ControlInv, ClusterStep
    PROVE  /\ Stays /\ TypeOK' /\ Canonical(template)' /\ \A s \in sets' : Canonical(s.template)
           /\ \/ Observe(Clients) /\ deployment' = deployment /\ policy' = policy
              \/ Observe({})
<1>1. ASSUME NEW by, Observe(by), ClusterType', Stays, revision' \in Nat,
             sets' \in SUBSET ReplicaSet, begun' \in Nat, edits' \in Nat, losses' \in Nat
      PROVE  TypeOK'
  <2>1. alone' \in [Clients -> BOOLEAN] /\ reached' \in [Clients -> BOOLEAN]
    BY <1>1, ObserveType DEF ControlInv
  <2> QED
    BY <1>1, <2>1 DEF TypeOK, ControlInv, Stays, ClusterType, Canonical
<1>2. CASE Reconcile
  <2>1. Stays /\ Observe(Clients) /\ UNCHANGED <<deployment, objects, begun, edits, losses>>
    BY <1>2 DEF Reconcile, Stays, control
  <2>2. ClusterType'
    BY <2>1 DEF ClusterType, ControlInv, TypeOK, deployment, objects, Canonical
  <2>3. [rev |-> revision + 1, template |-> template] \in ReplicaSet
    BY DEF ControlInv, TypeOK, ReplicaSet
  <2>4. sets' \in SUBSET ReplicaSet /\ revision' \in Nat
    BY <1>2, <2>3 DEF Reconcile, ControlInv, TypeOK
  <2>5. \A s \in sets' : Canonical(s.template)
    BY <1>2 DEF Reconcile, ControlInv
  <2> QED
    BY <1>1, <2>1, <2>2, <2>4, <2>5 DEF ControlInv, TypeOK, deployment, objects, Canonical
<1>3. CASE PodGone
  <2>1. /\ Stays /\ Observe(Clients)
        /\ UNCHANGED <<deployment, history, policy, begun, edits, losses>> /\ pod' = "gone"
    BY <1>3 DEF PodGone, Stays, control
  <2>2. ClusterType'
    BY <2>1 DEF ClusterType, ControlInv, TypeOK, deployment, Canonical
  <2> QED
    BY <1>1, <2>1, <2>2 DEF ControlInv, TypeOK, deployment, history, Canonical
<1>4. CASE Edit
  <2>1. Stays /\ Observe({}) /\ edits' = edits + 1 /\ UNCHANGED <<begun, losses>>
    BY <1>4 DEF Edit, Stays, control
  <2>2. ASSUME ClusterType', revision' = revision, sets' \in SUBSET sets
        PROVE  TypeOK' /\ Canonical(template)' /\ \A s \in sets' : Canonical(s.template)
    BY <1>1, <2>1, <2>2 DEF ControlInv, TypeOK, ClusterType, Canonical
  <2>3. ASSUME NEW v \in Versions, NEW l \in LimitValues, Deploy(v, l)
        PROVE  ClusterType' /\ revision' = revision /\ sets' = sets
    <3>1. template' \in Template /\ template'.limits = Stored[l]
      BY <2>3, ClientAssumption DEF Deploy, ControlInv, Canonical, Template
    <3> QED
      BY <2>3, <3>1, ClientAssumption
      DEF Deploy, ClusterType, ControlInv, TypeOK, Canonical, history, objects
  <2>4. ASSUME NEW k \in Calls, k.op = "scale", Rescale(k.replicas)
        PROVE  ClusterType' /\ revision' = revision /\ sets' = sets
    BY <2>4, CallFields
    DEF Rescale, ClusterType, ControlInv, TypeOK, Canonical, history, objects
  <2>5. ASSUME NEW s \in sets, PruneHistory(s)
        PROVE  ClusterType' /\ revision' = revision /\ sets' \in SUBSET sets
    BY <2>5 DEF PruneHistory, ClusterType, ControlInv, TypeOK, Canonical, deployment, objects
  <2>6. ASSUME TouchPod \/ TouchPolicy
        PROVE  ClusterType' /\ revision' = revision /\ sets' = sets
    BY <2>6 DEF TouchPod, TouchPolicy, ClusterType, ControlInv, TypeOK, Canonical,
                deployment, history
  <2> QED
    BY <1>4, <2>1, <2>2, <2>3, <2>4, <2>5, <2>6 DEF Edit
<1> QED BY <1>2, <1>3, <1>4 DEF ClusterStep

\* What Begin does to the client and to the others.
Begun(c, k) ==
    /\ UNCHANGED <<deployment, history, objects>>
    /\ at[c] = "idle" /\ at'[c] = Entry(k.op) /\ outer'[c] = 1 /\ call'[c] = k
    /\ inner' = inner /\ body' = body /\ outcome'[c] = "none"
    /\ requests'[c] = 0 /\ applied'[c] = 0 /\ faults'[c] = {}
    /\ \A d \in Clients \ {c} :
         /\ at'[d] = at[d] /\ outer'[d] = outer[d] /\ call'[d] = call[d]
         /\ outcome'[d] = outcome[d] /\ requests'[d] = requests[d]
         /\ applied'[d] = applied[d] /\ faults'[d] = faults[d]
         /\ alone'[d] = alone[d] /\ reached'[d] = reached[d]

LEMMA BeginResult ==
    ASSUME ControlInv, NEW c \in Clients, NEW k \in Calls, Begin(c, k)
    PROVE  TypeOK' /\ Begun(c, k)
<1>1. Entry(k.op) \in Locations
  BY DEF Entry, Locations
<1>2. Goal(c)' \in BOOLEAN
  BY DEF Goal
<1>3. TypeOK'
  <2>1. /\ replicas' \in Nat /\ stamps' \in Nat /\ revision' \in Nat
        /\ template' \in Template /\ sets' \in SUBSET ReplicaSet
        /\ pod' \in {"running", "terminating", "gone"} /\ policy' \in BOOLEAN
        /\ begun' \in Nat /\ edits' \in Nat /\ losses' \in Nat
    BY DEF Begin, ControlInv, TypeOK, deployment, history, objects
  <2>2. /\ call'     \in [Clients -> Calls \cup {NoCall}]
        /\ at'       \in [Clients -> Locations]
        /\ outer'    \in [Clients -> 0..Attempts]
        /\ inner'    \in [Clients -> 0..Attempts]
        /\ target'   \in [Clients -> Nat]
        /\ body'     \in [Clients -> Template \cup {Unknown}]
        /\ outcome'  \in [Clients -> Outcomes]
    BY <1>1 DEF Begin, ControlInv, TypeOK, Attempts, Outcomes
  <2>3. /\ requests' \in [Clients -> Nat] /\ applied' \in [Clients -> Nat]
        /\ faults'   \in [Clients -> SUBSET {"lost", "refused"}]
    BY DEF Begin, ControlInv, TypeOK
  <2>4. alone' \in [Clients -> BOOLEAN] /\ reached' \in [Clients -> BOOLEAN]
    BY <1>2 DEF Begin, ControlInv, TypeOK
  <2> QED BY <2>1, <2>2, <2>3, <2>4 DEF TypeOK
<1> QED BY <1>3 DEF Begin, Begun, ControlInv, TypeOK, deployment, history, objects

LEMMA ControlInvInit == Init => ControlInv
<1> SUFFICES ASSUME Init PROVE ControlInv
  OBVIOUS
<1>1. Canonical(template)
  BY DEF Init, Canonical, Template
<1>2. TypeOK
  BY <1>1 DEF Init, TypeOK, Canonical, Locations, Outcomes, Attempts
<1> QED BY <1>1, <1>2 DEF Init, ControlInv, Located

LEMMA ControlInvStep == ControlInv /\ [Next]_vars => ControlInv'
<1> SUFFICES ASSUME ControlInv, [Next]_vars PROVE ControlInv'
  OBVIOUS
<1>1. CASE ClusterStep
  <2>1. \A c \in Clients : Located(c)'
    BY <1>1, ClusterStepResult DEF Stays, ControlInv, Located, Canonical
  <2> QED BY <1>1, <2>1, ClusterStepResult DEF ControlInv
<1>2. ASSUME NEW c \in Clients, Request(c) PROVE ControlInv'
  <2>1. Answered(c) /\ Framed(c) /\ TypeOK' /\ Canonical(template)'
    BY <1>2, RequestResult DEF Result
  <2>2. \A s \in sets' : Canonical(s.template)'
    BY <2>1 DEF Framed, ControlInv, Canonical
  <2>3. \A d \in Clients \ {c} : Located(d)'
    BY <2>1 DEF Framed, Others, ControlInv, Located, Canonical
  <2>4. Located(c)'
    <3>1. at[c] # "idle" /\ call'[c] = call[c]
      BY <1>2, <2>1 DEF Framed, Request, ReadReplicas, PatchReplicas, PatchRestart,
         ReadRevision, ListReplicaSets, PatchRollback, ReadLimits, PatchLimits, ReadPod,
         DeletePod, ReadPolicy, DeletePolicy, DeleteAbsent, Runs
    <3>2. Located(c) /\ outer[c] \in Nat /\ inner[c] \in Nat /\ call[c] \in Calls
      BY <3>1 DEF ControlInv, TypeOK, Located
    <3>3. CASE EndedAs(c, "returned") \/ EndedAs(c, "error") \/ EndedAs(c, "api_error")
      BY <3>3 DEF EndedAs, Located
    <3>4. CASE RetriedRestart(c)
      BY <3>1, <3>2, <3>4 DEF RetriedRestart, Located, Attempts
    <3>5. CASE RetriedCall(c)
      BY <3>1, <3>2, <3>5 DEF RetriedCall, Located, Entry
    <3>6. CASE ReadGoesOn(c)
      BY <3>1, <3>2, <3>6 DEF ReadGoesOn, Located, Canonical
    <3> QED
      BY <2>1, <3>3, <3>4, <3>5, <3>6
      DEF Answered, AnswerFails, FailedAnswer, ReadEnds, WriteDone
  <2> QED BY <2>1, <2>2, <2>3, <2>4 DEF ControlInv, Canonical
<1>3. ASSUME NEW c \in Clients, NEW k \in Calls, Begin(c, k) PROVE ControlInv'
  <2>1. TypeOK' /\ Begun(c, k)
    BY <1>3, BeginResult
  <2>2. Canonical(template)' /\ \A s \in sets' : Canonical(s.template)'
    BY <2>1 DEF Begun, ControlInv, Canonical, deployment, history
  <2>3. \A d \in Clients \ {c} : Located(d)'
    BY <2>1 DEF Begun, ControlInv, Located, Canonical
  <2>4. Located(c)'
    <3>1. inner'[c] = 0
      BY <2>1 DEF Begun, ControlInv, Located
    <3> QED BY <2>1, <3>1 DEF Begun, Located, Entry
  <2> QED BY <2>1, <2>2, <2>3, <2>4 DEF ControlInv, Canonical
<1>4. CASE UNCHANGED vars
  BY <1>4 DEF vars, deployment, history, objects, control, ControlInv, TypeOK, Located,
     Canonical
<1> QED BY <1>1, <1>2, <1>3, <1>4 DEF Next, ClusterStep

\* ControlInv holds throughout.
LEMMA ControlInvAlways == Spec => []ControlInv
<1>1. Init => ControlInv
  BY ControlInvInit
<1>2. ControlInv /\ [Next]_vars => ControlInv'
  BY ControlInvStep
<1> QED BY <1>1, <1>2, PTL DEF Spec

\* Every variable keeps its type, whatever calls, edits and faults come.
THEOREM ClientTypeCorrect == Spec => []TypeOK
<1>1. ControlInv => TypeOK
  BY DEF ControlInv
<1> QED BY <1>1, ControlInvAlways, PTL

-----------------------------------------------------------------------------
(* WritesBounded: the attempts used up bound the writes sent.              *)

Counted(c) ==
    IF at[c] = "idle"
    THEN requests[c] <= IF call[c].op = "rollback" THEN Attempts * Attempts ELSE Attempts
    ELSE IF call[c].op = "rollback"
         THEN requests[c] <= Attempts * (outer[c] - 1)
                               + (IF inner[c] > 0 THEN inner[c] - 1 ELSE 0)
         ELSE requests[c] <= outer[c] - 1

CountInv == \A c \in Clients : Counted(c)

LEMMA CountInvInit == Init => CountInv
<1> SUFFICES ASSUME Init, NEW c \in Clients PROVE Counted(c)
  BY DEF CountInv
<1>1. at[c] = "idle" /\ requests[c] = 0
  BY DEF Init
<1> QED BY <1>1 DEF Counted, Attempts

\* A request in progress and its answer, for the steps below.
LEMMA RequestFacts ==
    ASSUME ControlInv, NEW c \in Clients, Request(c)
    PROVE  /\ Answered(c) /\ Framed(c) /\ TypeOK' /\ call'[c] = call[c]
           /\ at[c] # "idle" /\ Located(c) /\ call[c] \in Calls
           /\ outer[c] \in 1..Attempts /\ inner[c] \in 0..Attempts
           /\ requests[c] \in Nat /\ applied[c] \in Nat
<1>1. Answered(c) /\ Framed(c) /\ TypeOK'
  BY RequestResult DEF Result
<1>2. at[c] # "idle"
  BY DEF Request, ReadReplicas, PatchReplicas, PatchRestart, ReadRevision,
     ListReplicaSets, PatchRollback, ReadLimits, PatchLimits, ReadPod,
     DeletePod, ReadPolicy, DeletePolicy, DeleteAbsent, Runs
<1>3. Located(c) /\ outer[c] \in 0..Attempts /\ inner[c] \in 0..Attempts
      /\ requests[c] \in Nat /\ applied[c] \in Nat
  BY DEF ControlInv, TypeOK
<1>4. outer[c] \in 1..Attempts /\ call[c] \in Calls
  BY <1>2, <1>3 DEF Located, Attempts
<1> QED BY <1>1, <1>2, <1>3, <1>4 DEF Framed

LEMMA CountInvStep == ControlInv /\ CountInv /\ [Next]_vars => CountInv'
<1> SUFFICES ASSUME ControlInv, CountInv, [Next]_vars PROVE CountInv'
  OBVIOUS
<1>1. CASE ClusterStep
  BY <1>1, ClusterStepResult DEF Stays, CountInv, Counted
<1>2. ASSUME NEW c \in Clients, Request(c) PROVE CountInv'
  <2>1. /\ Answered(c) /\ Framed(c) /\ call'[c] = call[c]
        /\ at[c] # "idle" /\ Located(c)
        /\ outer[c] \in 1..Attempts /\ inner[c] \in 0..Attempts /\ requests[c] \in Nat
    BY <1>2, RequestFacts
  <2>2. \A d \in Clients \ {c} : Counted(d)'
    BY <2>1 DEF Framed, Others, CountInv, Counted
  <2>3. /\ requests'[c] = IF at[c] = "writing" THEN requests[c] + 1 ELSE requests[c]
        /\ Counted(c)
    BY <2>1 DEF Framed, CountInv
  <2>4. inner[c] > 0 => at[c] = "writing" /\ call[c].op = "rollback"
    BY <2>1 DEF Located
  <2>5. Counted(c)'
    <3>1. CASE at'[c] = "idle"
      <4>1. requests'[c] \in Nat /\ requests'[c] <= requests[c] + 1
        BY <2>1, <2>3
      <4>2. CASE call[c].op = "rollback"
        <5>1. requests[c] <= 8
          BY <2>1, <2>3, <4>2 DEF Counted, Attempts
        <5> QED BY <2>1, <3>1, <4>1, <4>2, <5>1 DEF Counted, Attempts
      <4>3. CASE call[c].op # "rollback"
        <5>1. requests[c] <= 2
          BY <2>1, <2>3, <4>3 DEF Counted, Attempts
        <5> QED BY <2>1, <3>1, <4>1, <4>3, <5>1 DEF Counted, Attempts
      <4> QED BY <4>2, <4>3
    <3>2. CASE RetriedRestart(c)
      BY <2>1, <2>3, <2>4, <3>2 DEF RetriedRestart, Counted, Attempts
    <3>3. CASE RetriedCall(c)
      <4>1. at'[c] # "idle" /\ inner'[c] = 0 /\ outer'[c] = outer[c] + 1
            /\ inner[c] \in {0, 3}
        BY <2>1, <3>3 DEF RetriedCall, Entry, Attempts
      <4> QED BY <2>1, <2>3, <2>4, <4>1 DEF Counted, Attempts
    <3>4. CASE ReadGoesOn(c)
      BY <2>1, <2>3, <2>4, <3>4 DEF ReadGoesOn, Counted, Attempts
    <3> QED
      BY <2>1, <3>1, <3>2, <3>3, <3>4
      DEF Answered, AnswerFails, FailedAnswer, ReadEnds, WriteDone, EndedAs
  <2> QED BY <2>2, <2>5 DEF CountInv
<1>3. ASSUME NEW c \in Clients, NEW k \in Calls, Begin(c, k) PROVE CountInv'
  <2>1. Begun(c, k) /\ inner[c] = 0
    BY <1>3, BeginResult DEF Begun, ControlInv, Located
  <2>2. \A d \in Clients \ {c} : Counted(d)'
    BY <2>1 DEF Begun, CountInv, Counted
  <2>3. Counted(c)'
    BY <2>1 DEF Begun, Counted, Entry, Attempts
  <2> QED BY <2>2, <2>3 DEF CountInv
<1>4. CASE UNCHANGED vars
  BY <1>4 DEF vars, control, CountInv, Counted
<1> QED BY <1>1, <1>2, <1>3, <1>4 DEF Next, ClusterStep

\* No call sends more writes than the retries allow: three, and nine for a
\* rollback that falls back on a restart (_retryable around rollback_deployment
\* and restart_deployment).
THEOREM WritesAreBounded == Spec => []WritesBounded
<1>1. Init => CountInv
  BY CountInvInit
<1>2. ControlInv /\ CountInv /\ [Next]_vars => CountInv'
  BY CountInvStep
<1>3. ControlInv /\ CountInv => WritesBounded
  <2> SUFFICES ASSUME ControlInv, CountInv, NEW c \in Clients
               PROVE  requests[c] <= IF call[c].op = "rollback" THEN Attempts * Attempts
                                     ELSE Attempts
    BY DEF WritesBounded
  <2>1. /\ Counted(c) /\ Located(c) /\ outer[c] \in 0..Attempts /\ inner[c] \in 0..Attempts
        /\ requests[c] \in Nat
    BY DEF CountInv, ControlInv, TypeOK
  <2> QED BY <2>1 DEF Counted, Attempts, Located
<1> QED BY <1>1, <1>2, <1>3, ControlInvAlways, PTL DEF Spec

-----------------------------------------------------------------------------
(* Calls come to an end.                                                   *)

\* What is left of a call after a step that does not touch it.
LEMMA RemainingStays ==
    ASSUME NEW c \in Clients,
           at'[c] = at[c], outer'[c] = outer[c], inner'[c] = inner[c]
    PROVE  Remaining(c)' = Remaining(c)
  BY DEF Remaining

\* One attempt has something left to send, and no more than a new one has.
LEMMA RemainingOfAttempt ==
    ASSUME NEW c \in Clients, at[c] \in Locations \ {"idle"},
           outer[c] \in 1..Attempts, inner[c] \in 0..Attempts
    PROVE  /\ Remaining(c) \in 1..(Attempts * (Attempts + 2))
           /\ Remaining(c) > (Attempts - outer[c]) * (Attempts + 2)
  BY DEF Remaining, Locations, Attempts

\* A failed answer uses up an attempt, of the call or of the restart within it.
LEMMA FailureUsesUp ==
    ASSUME ControlInv, NEW c \in Clients, at[c] # "idle", TypeOK', FailedAnswer(c)
    PROVE  Remaining(c)' < Remaining(c)
<1>1. /\ Located(c) /\ at[c] \in Locations \ {"idle"}
      /\ outer[c] \in 1..Attempts /\ inner[c] \in 0..Attempts
  BY DEF ControlInv, TypeOK, Located, Attempts
<1>2. Remaining(c) \in Nat /\ Remaining(c) > (Attempts - outer[c]) * (Attempts + 2)
  BY <1>1, RemainingOfAttempt DEF Attempts
<1>3. CASE RetriedRestart(c)
  <2>1. at[c] = "writing" /\ at'[c] = "writing" /\ outer'[c] = outer[c]
        /\ inner[c] \in 1..2 /\ inner'[c] = inner[c] + 1
    BY <1>1, <1>3 DEF RetriedRestart, Located, Attempts
  <2> QED BY <1>1, <2>1 DEF Remaining, Attempts
<1>4. CASE RetriedCall(c)
  <2>1. at'[c] \in {"reading", "writing"} /\ inner'[c] = 0
        /\ outer[c] \in 1..2 /\ outer'[c] = outer[c] + 1
    BY <1>1, <1>4 DEF RetriedCall, Entry, Attempts
  <2>2. Remaining(c)' <= (Attempts - outer[c]) * (Attempts + 2)
    BY <2>1 DEF Remaining, Attempts
  <2>3. Remaining(c)' \in Nat
    BY <2>1 DEF Remaining, Attempts
  <2> QED BY <1>1, <1>2, <2>2, <2>3 DEF Attempts
<1>5. CASE at'[c] = "idle"
  <2>1. Remaining(c)' = 0
    BY <1>5 DEF Remaining
  <2>2. (Attempts - outer[c]) * (Attempts + 2) >= 0
    BY <1>1 DEF Attempts
  <2> QED BY <1>1, <1>2, <2>1, <2>2 DEF Attempts
<1> QED BY <1>3, <1>4, <1>5 DEF FailedAnswer, EndedAs

\* Whatever the answer to a request is, less is left of the call.
LEMMA AnswerUsesUp ==
    ASSUME ControlInv, NEW c \in Clients, Request(c)
    PROVE  Remaining(c)' < Remaining(c)
<1>1. /\ Answered(c) /\ TypeOK' /\ at[c] \in Locations \ {"idle"}
      /\ outer[c] \in 1..Attempts /\ inner[c] \in 0..Attempts
  BY RequestFacts DEF ControlInv, TypeOK
<1>2. CASE FailedAnswer(c)
  BY <1>1, <1>2, FailureUsesUp
<1>3. CASE at'[c] = "idle"
  <2>1. Remaining(c)' = 0
    BY <1>3 DEF Remaining
  <2>2. Remaining(c) \in Nat /\ Remaining(c) > 0
    BY <1>1 DEF Remaining, Locations, Attempts
  <2> QED BY <2>1, <2>2
<1>4. CASE ReadGoesOn(c)
  <2>1. /\ at[c] \in {"reading", "listing"} /\ inner[c] = 0 /\ outer'[c] = outer[c]
        /\ \/ at'[c] = "listing" /\ at[c] = "reading"
           \/ at'[c] = "writing" /\ inner'[c] \in {0, 1}
    BY <1>1, <1>4 DEF ReadGoesOn, Locations
  <2> QED BY <1>1, <2>1 DEF Remaining, Attempts
<1> QED
  BY <1>1, <1>2, <1>3, <1>4 DEF Answered, AnswerFails, ReadEnds, WriteDone, EndedAs

\* Every request brings its call closer to the end, nothing takes it back, and
\* there are never more than fifteen requests to come, whatever other clients
\* and writers do: all of CallsEnd but that a request is answered.
THEOREM CallsRunOut == Spec => RequestsRunOut
<1>1. ControlInv /\ [Next]_vars =>
        [\A c \in Clients : at[c] # "idle" =>
            /\ Remaining(c) \in 1..(Attempts * (Attempts + 2))
            /\ \/ Remaining(c)' < Remaining(c)
               \/ Remaining(c)' = Remaining(c) /\ ~Request(c)]_vars
  <2>0. ASSUME ControlInv, NEW c \in Clients, at[c] # "idle"
        PROVE  Remaining(c) \in 1..(Attempts * (Attempts + 2))
    <3>1. at[c] \in Locations \ {"idle"} /\ outer[c] \in 1..Attempts /\ inner[c] \in 0..Attempts
      BY <2>0 DEF ControlInv, TypeOK, Located, Attempts
    <3> QED BY <3>1, RemainingOfAttempt
  <2> SUFFICES ASSUME ControlInv, Next, NEW c \in Clients, at[c] # "idle", ~Request(c)
               PROVE  Remaining(c)' = Remaining(c)
    BY <2>0, AnswerUsesUp
  <2>1. CASE ClusterStep
    BY <2>1, ClusterStepResult, RemainingStays DEF Stays
  <2>2. ASSUME NEW d \in Clients, Request(d) PROVE Remaining(c)' = Remaining(c)
    <3>1. Others(d) /\ c # d
      BY <2>2, RequestFacts DEF Framed
    <3> QED BY <3>1, RemainingStays DEF Others
  <2>3. ASSUME NEW d \in Clients, NEW k \in Calls, Begin(d, k)
        PROVE  Remaining(c)' = Remaining(c)
    <3>1. Begun(d, k) /\ c # d
      BY <2>3, BeginResult DEF Begin
    <3> QED BY <3>1, RemainingStays DEF Begun
  <2> QED BY <2>1, <2>2, <2>3 DEF Next, ClusterStep
<1> QED BY <1>1, ControlInvAlways, PTL DEF Spec, RequestsRunOut

-----------------------------------------------------------------------------
(* SuccessIsReal, FailureLeavesNoTrace and WritesOnce.                     *)

\* What the history variables say after a step observed by the clients "by".
LEMMA ObserveFacts ==
    ASSUME ControlInv, NEW by, Observe(by), NEW d \in Clients
    PROVE  /\ at[d] = "idle" => reached'[d] = reached[d]
           /\ at[d] # "idle" /\ Goal(d)' => reached'[d] = TRUE
           /\ reached[d] = TRUE => reached'[d] = TRUE
           /\ alone'[d] = TRUE => alone[d] = TRUE
           /\ alone'[d] = TRUE /\ d \notin by => UNCHANGED <<deployment, objects, sets>>
  BY DEF Observe, ControlInv, TypeOK

RealInv == \A c \in Clients : outcome[c] = "returned" => reached[c] = TRUE

LEMMA RealInvStep == ControlInv /\ RealInv /\ [Next]_vars => RealInv'
<1> SUFFICES ASSUME ControlInv, RealInv, [Next]_vars PROVE RealInv'
  OBVIOUS
<1>1. CASE ClusterStep
  <2>1. outcome' = outcome
    BY <1>1 DEF ClusterStep, Reconcile, PodGone, Edit, control
  <2>2. \E by : Observe(by)
    BY <1>1, ClusterStepResult
  <2> QED BY <2>1, <2>2, ObserveFacts DEF RealInv
<1>2. ASSUME NEW c \in Clients, Request(c) PROVE RealInv'
  <2>1. Answered(c) /\ Framed(c) /\ at[c] # "idle" /\ Located(c)
    BY <1>2, RequestFacts
  <2>2. ASSUME NEW d \in Clients \ {c}, outcome'[d] = "returned" PROVE reached'[d] = TRUE
    <3>1. outcome[d] = "returned"
      BY <2>1, <2>2 DEF Framed, Others
    <3> QED BY <2>1, <3>1, ObserveFacts DEF Framed, RealInv
  <2>3. ASSUME outcome'[c] = "returned" PROVE reached'[c] = TRUE
    <3>1. Goal(c)'
      BY <2>1, <2>3 DEF Answered, AnswerFails, FailedAnswer, ReadGoesOn, ReadEnds, WriteDone,
                        EndedAs, RetriedRestart, RetriedCall, Located
    <3> QED BY <2>1, <3>1, ObserveFacts DEF Framed
  <2> QED BY <2>2, <2>3 DEF RealInv
<1>3. ASSUME NEW c \in Clients, NEW k \in Calls, Begin(c, k) PROVE RealInv'
  <2>1. Begun(c, k)
    BY <1>3, BeginResult
  <2> QED BY <2>1 DEF Begun, RealInv
<1>4. CASE UNCHANGED vars
  BY <1>4 DEF vars, control, RealInv
<1> QED BY <1>1, <1>2, <1>3, <1>4 DEF Next, ClusterStep

\* A call that returns has done its work, for any retries and any interference.
THEOREM SuccessIsAlwaysReal == Spec => []SuccessIsReal
<1>1. Init => RealInv
  BY DEF Init, RealInv
<1>2. ControlInv /\ RealInv /\ [Next]_vars => RealInv'
  BY RealInvStep
<1>3. RealInv => SuccessIsReal
  BY DEF RealInv, SuccessIsReal
<1> QED BY <1>1, <1>2, <1>3, ControlInvAlways, PTL DEF Spec

\* As long as no answer is lost, a write that is carried out ends the call
\* with success.
TraceInv ==
    \A c \in Clients :
        /\ at[c] # "idle" \/ Failed(c)
        /\ "lost" \notin faults[c]
        /\ ~(at[c] = "idle" /\ call[c].op = "delete_policy" /\ InfoLogging)
        => applied[c] = 0

LEMMA TraceInvStep == ControlInv /\ TraceInv /\ [Next]_vars => TraceInv'
<1> SUFFICES ASSUME ControlInv, TraceInv, [Next]_vars PROVE TraceInv'
  OBVIOUS
<1>1. CASE ClusterStep
  <2>1. outcome' = outcome /\ Stays
    BY <1>1, ClusterStepResult DEF ClusterStep, Reconcile, PodGone, Edit, control
  <2> QED BY <2>1 DEF TraceInv, Failed, Stays
<1>2. ASSUME NEW c \in Clients, Request(c) PROVE TraceInv'
  <2>1. Answered(c) /\ Framed(c) /\ at[c] # "idle" /\ Located(c) /\ applied[c] \in Nat
        /\ call'[c] = call[c]
    BY <1>2, RequestFacts
  <2>2. ASSUME NEW d \in Clients \ {c}
        PROVE  /\ at'[d] = at[d] /\ outcome'[d] = outcome[d] /\ faults'[d] = faults[d]
               /\ call'[d] = call[d] /\ applied'[d] = applied[d]
    BY <2>1 DEF Framed, Others
  <2>3. "lost" \notin faults[c] => applied[c] = 0
    BY <2>1 DEF TraceInv
  <2>4. CASE WriteDone(c)
    BY <2>1, <2>2, <2>3, <2>4 DEF TraceInv, WriteDone, Failed, EndedAs
  <2>5. CASE AnswerFails(c) \/ ReadGoesOn(c) \/ ReadEnds(c)
    <3>1. applied'[c] = applied[c] /\ ("lost" \notin faults'[c] => "lost" \notin faults[c])
      BY <2>5 DEF AnswerFails, ReadGoesOn, ReadEnds
    <3> QED BY <2>2, <2>3, <3>1 DEF TraceInv, Failed
  <2> QED BY <2>1, <2>4, <2>5 DEF Answered
<1>3. ASSUME NEW c \in Clients, NEW k \in Calls, Begin(c, k) PROVE TraceInv'
  <2>1. Begun(c, k)
    BY <1>3, BeginResult
  <2> QED BY <2>1 DEF Begun, TraceInv, Failed
<1>4. CASE UNCHANGED vars
  BY <1>4 DEF vars, control, TraceInv, Failed
<1> QED BY <1>1, <1>2, <1>3, <1>4 DEF Next, ClusterStep

\* A call that fails without a lost answer may be repeated: it has written
\* nothing.
THEOREM FailureNeverLeavesATrace == Spec => []FailureLeavesNoTrace
<1>1. Init => TraceInv
  BY DEF Init, TraceInv
<1>2. ControlInv /\ TraceInv /\ [Next]_vars => TraceInv'
  BY TraceInvStep
<1>3. ControlInv /\ TraceInv => FailureLeavesNoTrace
  BY DEF ControlInv, Located, TraceInv, FailureLeavesNoTrace, Failed
<1> QED BY <1>1, <1>2, <1>3, ControlInvAlways, PTL DEF Spec

\* A call that looks first and has written finds what it wants, unless somebody
\* changes it.
OnceInv ==
    \A c \in Clients :
        alone[c] = TRUE /\ LooksBeforeWriting(call[c])
        => applied[c] = 0 \/ (applied[c] = 1 /\ Goal(c) /\ at[c] # "writing")

\* The goal of such a call depends on nothing but the objects.
LEMMA GoalStays ==
    ASSUME NEW c \in Clients, call'[c] = call[c], LooksBeforeWriting(call[c]),
           deployment' = deployment, policy' = policy, Goal(c)
    PROVE  Goal(c)'
  BY DEF LooksBeforeWriting, Goal, deployment

LEMMA OnceInvStep == ControlInv /\ OnceInv /\ [Next]_vars => OnceInv'
<1> SUFFICES ASSUME ControlInv, OnceInv, [Next]_vars,
                    NEW d \in Clients, alone'[d] = TRUE, LooksBeforeWriting(call'[d])
             PROVE  applied'[d] = 0 \/ (applied'[d] = 1 /\ Goal(d)' /\ at'[d] # "writing")
  BY DEF OnceInv
<1>1. ASSUME NEW by, d \notin by, Observe(by), call'[d] = call[d],
             at'[d] = at[d], applied'[d] = applied[d]
      PROVE  applied'[d] = 0 \/ (applied'[d] = 1 /\ Goal(d)' /\ at'[d] # "writing")
  <2>1. alone[d] = TRUE /\ UNCHANGED <<deployment, objects>>
    BY <1>1, ObserveFacts
  <2> QED BY <1>1, <2>1, GoalStays DEF OnceInv, objects
<1>2. CASE ClusterStep
  <2>1. Stays
    BY <1>2, ClusterStepResult
  <2>2. CASE Observe({})
    BY <1>1, <2>1, <2>2 DEF Stays
  <2>3. CASE Observe(Clients) /\ deployment' = deployment /\ policy' = policy
    <3>1. alone[d] = TRUE
      BY <2>3, ObserveFacts
    <3> QED BY <2>1, <2>3, <3>1, GoalStays DEF Stays, OnceInv
  <2> QED BY <1>2, <2>2, <2>3, ClusterStepResult
<1>3. ASSUME NEW c \in Clients, Request(c)
      PROVE  applied'[d] = 0 \/ (applied'[d] = 1 /\ Goal(d)' /\ at'[d] # "writing")
  <2>1. Answered(c) /\ Framed(c) /\ at[c] # "idle" /\ Located(c) /\ applied[c] \in Nat
        /\ call'[c] = call[c] /\ inner[c] \in 0..Attempts
    BY <1>3, RequestFacts
  <2>2. CASE d # c
    BY <1>1, <2>1, <2>2 DEF Framed, Others
  <2>3. CASE d = c
    <3>1. alone[c] = TRUE /\ LooksBeforeWriting(call[c])
      BY <2>1, <2>3, ObserveFacts DEF Framed
    <3>2. applied[c] = 0 \/ (applied[c] = 1 /\ Goal(c) /\ at[c] # "writing")
      BY <3>1 DEF OnceInv
    <3>3. call[c].op \notin {"restart", "rollback"}
      BY <3>1 DEF LooksBeforeWriting
    <3>4. FailedAnswer(c) => at'[c] # "writing"
      <4>1. inner[c] = 0
        BY <2>1, <3>3 DEF Located, Attempts
      <4> QED BY <3>3, <4>1 DEF FailedAnswer, RetriedRestart, RetriedCall, EndedAs, Entry
    <3>5. CASE AnswerFails(c)
      BY <2>1, <2>3, <3>1, <3>2, <3>4, <3>5, GoalStays DEF AnswerFails, objects
    <3>6. CASE ReadGoesOn(c)
      <4>1. at'[c] = "listing" => call[c].op = "rollback"
        BY <3>6 DEF ReadGoesOn
      <4>2. applied[c] = 0
        BY <3>1, <3>2, <3>3, <3>6, <4>1 DEF ReadGoesOn
      <4> QED BY <2>3, <3>6, <4>2 DEF ReadGoesOn
    <3>7. CASE ReadEnds(c)
      BY <2>1, <2>3, <3>1, <3>2, <3>7, GoalStays DEF ReadEnds, EndedAs, objects
    <3>8. CASE WriteDone(c)
      BY <2>1, <2>3, <3>2, <3>4, <3>8 DEF WriteDone, EndedAs
    <3> QED BY <2>1, <3>5, <3>6, <3>7, <3>8 DEF Answered
  <2> QED BY <2>2, <2>3
<1>4. ASSUME NEW c \in Clients, NEW k \in Calls, Begin(c, k)
      PROVE  applied'[d] = 0 \/ (applied'[d] = 1 /\ Goal(d)' /\ at'[d] # "writing")
  <2>1. Begun(c, k)
    BY <1>4, BeginResult
  <2>2. CASE d = c
    BY <2>1, <2>2 DEF Begun
  <2>3. CASE d # c
    <3>1. /\ deployment' = deployment /\ policy' = policy /\ call'[d] = call[d]
          /\ alone[d] = TRUE /\ at'[d] = at[d] /\ applied'[d] = applied[d]
      BY <2>1, <2>3 DEF Begun, objects
    <3> QED BY <3>1, GoalStays DEF OnceInv
  <2> QED BY <2>2, <2>3
<1>5. CASE UNCHANGED vars
  <2>1. /\ deployment' = deployment /\ policy' = policy /\ call' = call
        /\ alone' = alone /\ at' = at /\ applied' = applied
    BY <1>5 DEF vars, objects, control
  <2> QED BY <2>1, GoalStays DEF OnceInv
<1> QED BY <1>2, <1>3, <1>4, <1>5 DEF Next, ClusterStep

\* Undisturbed, a call that looks before it writes has one effect, however
\* many of its answers are lost.
THEOREM WritesHappenOnce == Spec => []WritesOnce
<1>1. Init => OnceInv
  BY DEF Init, OnceInv
<1>2. ControlInv /\ OnceInv /\ [Next]_vars => OnceInv'
  BY OnceInvStep
<1>3. ControlInv /\ OnceInv => WritesOnce
  BY DEF ControlInv, TypeOK, OnceInv, WritesOnce
<1> QED BY <1>1, <1>2, <1>3, ControlInvAlways, PTL DEF Spec

-----------------------------------------------------------------------------
(* RollbackGoesBack.                                                       *)

\* The controller's numbers: none is used twice, and none is ahead.
NumberedInv ==
    /\ \A s \in sets : s.rev \in 1..revision
    /\ \A s, t \in sets : s.rev = t.rev => s = t

LEMMA NumberedInvStep == ControlInv /\ NumberedInv /\ [Next]_vars => NumberedInv'
<1> SUFFICES ASSUME ControlInv, NumberedInv, [Next]_vars PROVE NumberedInv'
  OBVIOUS
<1>1. CASE Reconcile
  <2> DEFINE new == [rev |-> revision + 1, template |-> template]
  <2>1. /\ revision' = revision + 1 /\ revision \in Nat
        /\ sets' \subseteq sets \cup {new} /\ new.rev = revision + 1
    BY <1>1 DEF Reconcile, ControlInv, TypeOK
  <2>2. \A s \in sets : s.rev \in Nat /\ s.rev <= revision /\ s.rev >= 1
    BY <2>1 DEF NumberedInv
  <2> HIDE DEF new
  <2>3. \A s \in sets' : s.rev \in 1..revision'
    BY <2>1, <2>2
  <2>4. \A s, t \in sets' : s.rev = t.rev => s = t
    BY <2>1, <2>2 DEF NumberedInv
  <2> QED BY <2>3, <2>4 DEF NumberedInv
<1>2. CASE sets' \subseteq sets /\ revision' = revision
  BY <1>2 DEF NumberedInv
<1>3. CASE PodGone \/ Edit
  <2>1. sets' \subseteq sets /\ revision' = revision
    BY <1>3 DEF PodGone, Edit, Deploy, Rescale, PruneHistory, TouchPod, TouchPolicy, history
  <2> QED BY <1>2, <2>1
<1>4. ASSUME NEW c \in Clients, Request(c) PROVE NumberedInv'
  <2>1. Steps(c)
    BY <1>4 DEF Request, ReadReplicas, PatchReplicas, PatchRestart, ReadRevision,
       ListReplicaSets, PatchRollback, ReadLimits, PatchLimits, ReadPod,
       DeletePod, ReadPolicy, DeletePolicy, DeleteAbsent, Reads, Writes
  <2> QED BY <1>2, <2>1 DEF Steps, history
<1>5. ASSUME NEW c \in Clients, NEW k \in Calls, Begin(c, k) PROVE NumberedInv'
  BY <1>2, <1>5 DEF Begin, history
<1>6. CASE UNCHANGED vars
  BY <1>2, <1>6 DEF vars, history
<1> QED BY <1>1, <1>3, <1>4, <1>5, <1>6 DEF Next

\* The revision before the current one is unique.
LEMMA PreviousIsUnique ==
    ASSUME ControlInv, NumberedInv, Reconciled
    PROVE  /\ \A s \in sets : s.rev = revision - 1 => PreviousContent = Content(s.template)
           /\ (\A s \in sets : s.rev # revision - 1) => PreviousContent = Content(template)
<1> DEFINE previous == {s \in sets : s.rev + 1 = revision}
<1>1. revision \in Nat /\ \A s \in sets : s.rev \in Nat
  BY DEF NumberedInv, ControlInv, TypeOK
<1>2. PreviousContent = IF previous = {} THEN Content(template)
                        ELSE Content((CHOOSE s \in previous : TRUE).template)
  BY DEF PreviousContent
<1>3. ASSUME NEW s \in sets, s.rev = revision - 1
      PROVE  PreviousContent = Content(s.template)
  <2>1. s \in previous /\ \A t \in previous : t = s
    BY <1>1, <1>3 DEF NumberedInv
  <2>2. (CHOOSE t \in previous : TRUE) = s
    BY <2>1
  <2> HIDE DEF previous
  <2> QED BY <1>2, <2>1, <2>2
<1>4. ASSUME \A s \in sets : s.rev # revision - 1
      PROVE  PreviousContent = Content(template)
  <2>1. previous = {}
    BY <1>1, <1>4
  <2> HIDE DEF previous
  <2> QED BY <1>2, <2>1
<1> QED BY <1>3, <1>4

\* A rollback under way knows where it goes.
Back(c) ==
    /\ outcome[c] = "returned" => Content(template) = expected[c]
    /\ at[c] # "idle" =>
         /\ Reconciled /\ expected[c] = PreviousContent
         /\ at[c] = "listing" => revision > 1 /\ target[c] = revision - 1
         /\ at[c] = "writing" /\ inner[c] = 0 => Content(body[c]) = expected[c]
         /\ inner[c] > 0 => Content(template) = expected[c]

Undisturbed(c) ==
    /\ call[c].op = "rollback" /\ alone[c] = TRUE
    /\ "lost" \notin faults[c] /\ expected[c] # Unknown

BackInv ==
    /\ DOMAIN expected = Clients
    /\ \A c \in Clients : Undisturbed(c) => Back(c)

\* What the steps of others cannot change without disturbing the rollback.
LEMMA BackStays ==
    ASSUME BackInv, NEW d \in Clients, Undisturbed(d)',
           alone[d] = TRUE, call'[d] = call[d], faults'[d] = faults[d],
           expected'[d] = expected[d], outcome'[d] = outcome[d], at'[d] = at[d],
           inner'[d] = inner[d], target'[d] = target[d], body'[d] = body[d],
           template' = template, at[d] # "idle" => UNCHANGED <<revision, sets>>
    PROVE  Back(d)'
<1>1. Back(d)
  BY DEF BackInv, Undisturbed
<1>2. CASE at[d] = "idle"
  BY <1>1, <1>2 DEF Back, Content
<1>3. CASE at[d] # "idle"
  BY <1>1, <1>3 DEF Back, Content, Reconciled, PreviousContent
<1> QED BY <1>2, <1>3

\* The four requests of a rollback, when they are answered and it goes on.
LEMMA RollbackGoesOn ==
    ASSUME ControlInv, NumberedInv, Foreign = {}, NEW c \in Clients, Request(c),
           call[c].op = "rollback", ReadGoesOn(c), Reconciled, template' = template,
           revision' = revision, sets' = sets,
           at[c] = "listing" => revision > 1 /\ target[c] = revision - 1
    PROVE  /\ at'[c] = "listing" => revision > 1 /\ target'[c] = revision - 1
           /\ at'[c] = "writing" /\ inner'[c] = 0 => Content(body'[c]) = PreviousContent
           /\ inner'[c] > 0 => Content(template) = PreviousContent
<1>1. inner[c] = 0 /\ at[c] # "writing" /\ outcome'[c] = outcome[c] /\ at'[c] # "idle"
      /\ faults'[c] = faults[c]
  BY DEF ReadGoesOn
<1>2. /\ inner \in [Clients -> 0..Attempts] /\ at \in [Clients -> Locations]
      /\ target \in [Clients -> Nat] /\ outer \in [Clients -> 0..Attempts]
      /\ body \in [Clients -> Template \cup {Unknown}]
      /\ faults \in [Clients -> SUBSET {"lost", "refused"}]
      /\ revision \in Nat /\ ControlType
      /\ Located(c)
  BY DEF ControlInv, TypeOK, ControlType
<1>3. CASE ReadRevision(c)
  <2>1. at[c] = "reading"
    BY <1>3 DEF ReadRevision, Runs
  <2>2. CASE revision <= 1 /\ FallBack(c)
    <3>1. at'[c] = "writing" /\ inner'[c] = 1
      BY <1>2, <2>2, FallBackControl
    <3>2. \A s \in sets : s.rev # revision - 1
      BY <1>2, <2>2 DEF NumberedInv
    <3> QED BY <3>1, <3>2, PreviousIsUnique
  <2>3. CASE /\ revision > 1 /\ target' = [target EXCEPT ![c] = revision - 1]
             /\ Goes(c, "listing") /\ UNCHANGED body
    BY <1>1, <1>2, <2>3 DEF Goes
  <2>4. CASE Fault(c, "refused") /\ (Transient(c) \/ Fails(c))
    <3>1. FailedAnswer(c)
      BY <1>2, <2>4, TransientControl, FailsControl
    <3> QED BY <1>1, <1>2, <2>1, <3>1
        DEF FailedAnswer, RetriedRestart, RetriedCall, EndedAs, Entry, ReadGoesOn
  <2> QED BY <1>2, <1>3, <2>2, <2>3, <2>4 DEF ReadRevision, Reads
<1>4. CASE ListReplicaSets(c)
  <2>1. at[c] = "listing" /\ AtTarget(c) = {s \in sets : s.rev = revision - 1}
    BY <1>4 DEF ListReplicaSets, Runs, AtTarget
  <2>2. CASE AtTarget(c) = {} /\ FallBack(c)
    <3>1. at'[c] = "writing" /\ inner'[c] = 1
      BY <1>2, <2>2, FallBackControl
    <3>2. \A s \in sets : s.rev # revision - 1
      BY <2>1, <2>2
    <3> QED BY <3>1, <3>2, PreviousIsUnique
  <2>3. CASE \E s \in AtTarget(c) :
               body' = [body EXCEPT ![c] = s.template] /\ Goes(c, "writing")
    <3>1. PICK s \in sets : /\ s.rev = revision - 1
                            /\ body' = [body EXCEPT ![c] = s.template] /\ Goes(c, "writing")
      BY <2>1, <2>3
    <3>2. body'[c] = s.template /\ at'[c] = "writing" /\ inner'[c] = 0
      BY <1>1, <1>2, <3>1 DEF Goes
    <3> QED BY <3>1, <3>2, PreviousIsUnique
  <2>4. CASE Ends(c, "error")
    BY <1>1, <1>2, <2>4 DEF Ends
  <2>5. CASE Fault(c, "refused") /\ (Transient(c) \/ Fails(c))
    <3>1. FailedAnswer(c)
      BY <1>2, <2>5, TransientControl, FailsControl
    <3> QED BY <1>1, <1>2, <2>1, <3>1
        DEF FailedAnswer, RetriedRestart, RetriedCall, EndedAs, Entry, ReadGoesOn
  <2> QED BY <1>4, <2>2, <2>3, <2>4, <2>5 DEF ListReplicaSets, Reads
<1>5. ReadRevision(c) \/ ListReplicaSets(c)
  BY <1>1 DEF Request, ReadReplicas, PatchReplicas, PatchRestart, PatchRollback,
     ReadLimits, PatchLimits, ReadPod, DeletePod, ReadPolicy, DeletePolicy,
     DeleteAbsent, Runs
<1> QED BY <1>3, <1>4, <1>5

\* The write of a rollback.
LEMMA RollbackWrites ==
    ASSUME ControlInv, NEW c \in Clients, Request(c), call[c].op = "rollback",
           WriteDone(c)
    PROVE  Content(template') = IF inner[c] > 0 THEN Content(template)
                                ELSE Content(body[c])
<1>1. applied[c] \in Nat /\ applied' # applied /\ at[c] = "writing"
  BY DEF WriteDone, ControlInv, TypeOK
<1>2. inner[c] \in Nat /\ (inner[c] = 0 => Canonical(body[c]))
  BY <1>1 DEF ControlInv, TypeOK, Located
<1>3. ASSUME NEW t, Canonical(t), Stamped(t) PROVE Content(template') = Content(t)
  BY <1>3 DEF Stamped, Content, Canonical, Template
<1>4. PatchRestart(c) \/ PatchRollback(c)
  BY <1>1 DEF Request, ReadReplicas, PatchReplicas, ReadRevision, ListReplicaSets,
     ReadLimits, PatchLimits, ReadPod, DeletePod, ReadPolicy, DeletePolicy,
     DeleteAbsent, Runs
<1>5. CASE PatchRestart(c)
  BY <1>1, <1>2, <1>3, <1>5 DEF PatchRestart, Writes, Runs, ControlInv
<1>6. CASE PatchRollback(c)
  BY <1>1, <1>2, <1>3, <1>6 DEF PatchRollback, Writes, Runs
<1> QED BY <1>4, <1>5, <1>6

\* A request of the rollback itself.
LEMMA BackOwnStep ==
    ASSUME ControlInv, TraceInv, NumberedInv, BackInv, Foreign = {},
           NEW c \in Clients, Request(c), Undisturbed(c)'
    PROVE  Back(c)'
<1>1. /\ Answered(c) /\ Framed(c) /\ call'[c] = call[c] /\ at[c] # "idle" /\ Located(c)
      /\ applied[c] \in Nat /\ inner[c] \in 0..Attempts
  BY RequestFacts
<1>2. UNCHANGED <<revision, sets, expected>>
  BY DEF Request, ReadReplicas, PatchReplicas, PatchRestart, ReadRevision,
     ListReplicaSets, PatchRollback, ReadLimits, PatchLimits, ReadPod,
     DeletePod, ReadPolicy, DeletePolicy, DeleteAbsent, Reads, Writes, Steps, history
<1>3. "lost" \notin faults[c]
  BY <1>1 DEF Undisturbed, Answered, AnswerFails, ReadGoesOn, ReadEnds, WriteDone
<1>4. Undisturbed(c) /\ call[c].op = "rollback"
  BY <1>1, <1>2, <1>3, ObserveFacts DEF Undisturbed, Framed
<1>5. Back(c) /\ applied[c] = 0 /\ outcome[c] = "none"
  BY <1>1, <1>3, <1>4 DEF BackInv, TraceInv, Located
<1>6. /\ Reconciled /\ expected[c] = PreviousContent
      /\ at[c] = "listing" => revision > 1 /\ target[c] = revision - 1
      /\ at[c] = "writing" /\ inner[c] = 0 => Content(body[c]) = expected[c]
      /\ inner[c] > 0 => Content(template) = expected[c]
  BY <1>1, <1>5 DEF Back
<1>7. CASE WriteDone(c)
  <2>1. EndedAs(c, "returned")
    BY <1>3, <1>4, <1>7 DEF WriteDone, Undisturbed
  <2>2. Content(template') = expected[c]
    BY <1>1, <1>4, <1>6, <1>7, RollbackWrites DEF WriteDone
  <2> QED BY <1>2, <2>1, <2>2 DEF Back, EndedAs, Content
<1>8. CASE ReadEnds(c)
  <2>1. ~Goal(c)'
    BY <1>1, <1>4, <1>5, <1>8 DEF Goal, ReadEnds
  <2> QED BY <1>8, <2>1 DEF ReadEnds, EndedAs, Back
<1>9. CASE ReadGoesOn(c)
  <2>1. template' = template /\ outcome'[c] = "none" /\ at'[c] # "idle"
    BY <1>5, <1>9 DEF ReadGoesOn, deployment
  <2>2. /\ at'[c] = "listing" => revision > 1 /\ target'[c] = revision - 1
        /\ at'[c] = "writing" /\ inner'[c] = 0 => Content(body'[c]) = PreviousContent
        /\ inner'[c] > 0 => Content(template) = PreviousContent
    BY <1>2, <1>4, <1>6, <1>9, <2>1, RollbackGoesOn
  <2> QED BY <1>2, <1>6, <2>1, <2>2 DEF Back, Content, Reconciled, PreviousContent
<1>10. CASE AnswerFails(c)
  <2>1. template' = template
    BY <1>10 DEF AnswerFails, deployment
  <2>2. CASE EndedAs(c, "api_error") \/ EndedAs(c, "error")
    BY <2>2 DEF EndedAs, Back
  <2>3. CASE RetriedRestart(c)
    <3>1. /\ inner[c] > 0 /\ inner'[c] > 0 /\ at'[c] = "writing" /\ outcome'[c] = "none"
      BY <1>1, <1>5, <2>3 DEF RetriedRestart, Located, Attempts
    <3> QED BY <1>2, <1>6, <2>1, <3>1 DEF Back, Content, Reconciled, PreviousContent
  <2>4. CASE RetriedCall(c)
    <3>1. inner'[c] = 0 /\ at'[c] = "reading" /\ outcome'[c] = "none"
      BY <1>4, <1>5, <2>4 DEF RetriedCall, Entry
    <3> QED BY <1>2, <1>6, <2>1, <3>1 DEF Back, Content, Reconciled, PreviousContent
  <2> QED BY <1>10, <2>2, <2>3, <2>4 DEF AnswerFails, FailedAnswer
<1> QED BY <1>1, <1>7, <1>8, <1>9, <1>10 DEF Answered

LEMMA BackInvStep ==
    ASSUME Foreign = {}, ControlInv, TraceInv, NumberedInv, BackInv, [Next]_vars
    PROVE  BackInv'
<1>1. CASE ClusterStep
  <2>1. /\ Stays /\ outcome' = outcome /\ expected' = expected
        /\ UNCHANGED <<at, inner, target, body, call, faults>>
    BY <1>1, ClusterStepResult DEF ClusterStep, Reconcile, PodGone, Edit, control, Stays
  <2>2. ASSUME NEW d \in Clients, Undisturbed(d)' PROVE Back(d)'
    <3>1. alone[d] = TRUE
      BY <1>1, <2>2, ClusterStepResult, ObserveFacts DEF Undisturbed
    <3>2. template' = template /\ (at[d] # "idle" => UNCHANGED <<revision, sets>>)
      <4>1. CASE Reconcile
        <5>1. ~Reconciled /\ template' = template
          BY <4>1 DEF Reconcile, deployment
        <5>2. Undisturbed(d)
          BY <2>1, <2>2, <3>1 DEF Undisturbed
        <5> QED BY <5>1, <5>2 DEF BackInv, Back
      <4>2. CASE PodGone
        BY <4>2 DEF PodGone, deployment, history
      <4>3. CASE Edit
        <5>1. UNCHANGED <<deployment, sets>>
          <6>1. Observe({})
            BY <4>3 DEF Edit
          <6>2. alone'[d] = (alone[d] /\ (d \in {} \/ UNCHANGED <<deployment, objects, sets>>))
            BY <6>1 DEF Observe
          <6> QED BY <2>2, <6>2 DEF Undisturbed
        <5>2. revision' = revision
          BY <4>3 DEF Edit, Deploy, Rescale, PruneHistory, TouchPod, TouchPolicy, history
        <5> QED BY <5>1, <5>2 DEF deployment
      <4> QED BY <1>1, <4>1, <4>2, <4>3 DEF ClusterStep
    <3> QED BY <2>1, <2>2, <3>1, <3>2, BackStays
  <2> QED BY <2>1, <2>2 DEF BackInv
<1>2. ASSUME NEW c \in Clients, Request(c) PROVE BackInv'
  <2>1. Framed(c) /\ UNCHANGED <<revision, sets, expected>>
    <3>1. Steps(c)
      BY <1>2 DEF Request, ReadReplicas, PatchReplicas, PatchRestart, ReadRevision,
         ListReplicaSets, PatchRollback, ReadLimits, PatchLimits, ReadPod,
         DeletePod, ReadPolicy, DeletePolicy, DeleteAbsent, Reads, Writes
    <3> QED BY <1>2, <3>1, RequestFacts DEF Steps, history
  <2>2. ASSUME NEW d \in Clients, Undisturbed(d)', d # c PROVE Back(d)'
    <3>1. alone[d] = TRUE /\ template' = template
      <4>1. Observe({c}) /\ alone'[d] = TRUE /\ d \notin {c}
        BY <2>1, <2>2 DEF Framed, Undisturbed
      <4> QED BY <4>1, ObserveFacts DEF deployment
    <3> QED BY <2>1, <2>2, <3>1, BackStays DEF Framed, Others
  <2>3. Undisturbed(c)' => Back(c)'
    BY <1>2, BackOwnStep
  <2> QED BY <2>1, <2>2, <2>3 DEF BackInv
<1>3. ASSUME NEW c \in Clients, NEW k \in Calls, Begin(c, k) PROVE BackInv'
  <2>1. Begun(c, k) /\ inner[c] = 0
    BY <1>3, BeginResult DEF Begun, ControlInv, Located
  <2>2. /\ expected' = [expected EXCEPT ![c] = PreviousContent] /\ target' = target
        /\ template' = template /\ revision' = revision /\ sets' = sets
    BY <1>3 DEF Begin, deployment, history
  <2>3. ASSUME NEW d \in Clients, Undisturbed(d)', d # c PROVE Back(d)'
    <3>1. expected'[d] = expected[d] /\ alone[d] = TRUE
      BY <2>1, <2>2, <2>3 DEF BackInv, Begun, Undisturbed
    <3> QED BY <2>1, <2>2, <2>3, <3>1, BackStays DEF Begun
  <2>4. ASSUME Undisturbed(c)' PROVE Back(c)'
    <3>1. expected'[c] = PreviousContent
      BY <2>2 DEF BackInv
    <3>2. Reconciled
      BY <2>4, <3>1 DEF Undisturbed, PreviousContent
    <3>3. at'[c] = "reading" /\ outcome'[c] = "none" /\ inner'[c] = 0
      BY <2>1, <2>4 DEF Begun, Undisturbed, Entry
    <3> QED BY <2>2, <3>1, <3>2, <3>3 DEF Back, Reconciled, PreviousContent, Content
  <2>5. DOMAIN expected' = Clients
    BY <2>2 DEF BackInv
  <2> QED BY <2>3, <2>4, <2>5 DEF BackInv
<1>4. CASE UNCHANGED vars
  <2>1. UNCHANGED <<template, revision, sets, call, at, inner, target, body, outcome,
                    faults, alone, expected>>
    BY <1>4 DEF vars, deployment, history, control
  <2> QED BY <2>1 DEF BackInv, Undisturbed, Back, Reconciled, PreviousContent, Content
<1> QED BY <1>1, <1>2, <1>3, <1>4 DEF Next, ClusterStep

\* If the label selector matches only ReplicaSets of the Deployment itself, an
\* undisturbed rollback that loses no answer ends with the content of the
\* revision before the one it began with, for any number of refused requests.
THEOREM RollbacksGoBack == ASSUME Foreign = {} PROVE Spec => []RollbackGoesBack
<1>1. Init => TraceInv /\ NumberedInv /\ BackInv
  BY DEF Init, TraceInv, NumberedInv, BackInv, Undisturbed
<1>2. /\ ControlInv /\ TraceInv /\ NumberedInv /\ BackInv /\ [Next]_vars
      => TraceInv' /\ NumberedInv' /\ BackInv'
  BY TraceInvStep, NumberedInvStep, BackInvStep
<1>3. BackInv => RollbackGoesBack
  BY DEF BackInv, Back, Undisturbed, RollbackGoesBack, RollsBack
<1> QED BY <1>1, <1>2, <1>3, ControlInvAlways, PTL DEF Spec
=============================================================================
