---------------------- MODULE KubernetesClientProperties ----------------------
(***************************************************************************)
(* What a call of app/kubernetes_client.py may be relied on for, whatever  *)
(* other writers and faults come between its requests.                     *)
(***************************************************************************)
EXTENDS KubernetesClient

\* Every variable holds a value of its kind.
TypeOK ==
    /\ replicas \in Nat /\ stamps \in Nat /\ revision \in Nat
    /\ template \in Template /\ sets \in SUBSET ReplicaSet
    /\ pod \in {"running", "terminating", "gone"} /\ policy \in BOOLEAN
    /\ call     \in [Clients -> Calls \cup {NoCall}]
    /\ at       \in [Clients -> Locations]
    /\ outer    \in [Clients -> 0..Attempts]
    /\ inner    \in [Clients -> 0..Attempts]
    /\ target   \in [Clients -> Nat]
    /\ body     \in [Clients -> Template \cup {Unknown}]
    /\ outcome  \in [Clients -> Outcomes]
    /\ requests \in [Clients -> Nat] /\ applied \in [Clients -> Nat]
    /\ faults   \in [Clients -> SUBSET {"lost", "refused"}]
    /\ alone    \in [Clients -> BOOLEAN] /\ reached \in [Clients -> BOOLEAN]
    /\ begun \in Nat /\ edits \in Nat /\ losses \in Nat

Failed(c) == outcome[c] \in {"api_error", "error"}

-----------------------------------------------------------------------------
\* A call that returns has done its work: what it wants held at some time
\* while it went on, also if it sent no write because it found it so, and
\* whatever retries it took (_retryable, the idempotency checks).
SuccessIsReal == \A c \in Clients : outcome[c] = "returned" => reached[c]

\* A call that raises without having lost an answer has left no trace, so
\* that the step the executor reports as failed may be repeated.  The delete
\* of a policy under INFO logging is the exception.
FailureLeavesNoTrace ==
    \A c \in Clients :
        /\ Failed(c) /\ "lost" \notin faults[c]
        /\ ~(call[c].op = "delete_policy" /\ InfoLogging)
        => applied[c] = 0

\* One call sends at most three writes, a rollback at most nine: three runs of
\* the restart it falls back on in each of its own three (nested _retryable).
WritesBounded ==
    \A c \in Clients :
        requests[c] <= IF call[c].op = "rollback" THEN Attempts * Attempts ELSE Attempts

\* If nobody else changes the cluster, the server carries out at most one write
\* of a call that looks before it writes, however many answers are lost (the
\* idempotency checks of scale_deployment, update_deployment_resources and
\* delete_network_policy).  Limits must be written in canonical form.
LooksBeforeWriting(k) ==
    \/ k.op \in {"scale", "delete_policy"}
    \/ k.op = "update" /\ Stored[k.limits] = k.limits

WritesOnce ==
    \A c \in Clients : alone[c] /\ LooksBeforeWriting(call[c]) => applied[c] <= 1

\* A rollback that lost no answer and was not disturbed has brought back what
\* the revision before the current one held when it began - through the reads,
\* the retries and the fallback on a restart, which changes no content
\* (rollback_deployment).
RollsBack(c) ==
    call[c].op = "rollback" /\ outcome[c] = "returned" /\ alone[c] /\ expected[c] # Unknown

RollbackGoesBack ==
    \A c \in Clients :
        RollsBack(c) /\ "lost" \notin faults[c] => Content(template) = expected[c]

\* Every call ends, with a result or an exception: the retries are finite.
CallsEnd == \A c \in Clients : at[c] # "idle" ~> at[c] = "idle"

\* How many more requests a call may send, reads and writes: each attempt has
\* one of each kind, or three writes in a restart that a rollback falls back on.
Remaining(c) ==
    IF at[c] = "idle" THEN 0
    ELSE (Attempts - outer[c]) * (Attempts + 2)
         + CASE at[c] = "reading" -> Attempts + 2
             [] at[c] = "listing" -> Attempts + 1
             [] at[c] = "writing" -> IF inner[c] > 0 THEN Attempts + 1 - inner[c] ELSE 1

\* Every request brings a call closer to its end, however it is answered, and
\* nothing takes it back: of the two loops of attempts, one in the other, the
\* inner starts anew only when the outer has used one up (_retryable, the
\* fallback of rollback_deployment).  There are fifteen requests at most, and
\* this is what CallsEnd rests on.
RequestsRunOut ==
    [][\A c \in Clients : at[c] # "idle" =>
          /\ Remaining(c) \in 1..(Attempts * (Attempts + 2))
          /\ \/ Remaining(c)' < Remaining(c)
             \/ Remaining(c)' = Remaining(c) /\ ~Request(c)]_vars

-----------------------------------------------------------------------------
(* Stated by the documentation, and not kept by the code.                  *)

\* app/kubernetes_client.py:185: "Roll back a Deployment to its previous
\* revision" - also when the answer to the patch is lost and the retry reads
\* the revision anew.
RollbackSurvivesLoss ==
    \A c \in Clients : RollsBack(c) => Content(template) = expected[c]
=============================================================================
