------------------------------- MODULE Actions -------------------------------
(***************************************************************************)
(* The data models of app/models.py: execution actions and the runbook     *)
(* payloads Agent 1 pushes into Redis.                                     *)
(***************************************************************************)
EXTENDS Naturals, Sequences, ResourceLimits

CONSTANTS
    Names,        \* names of deployments, pods and network policies
    Namespaces,   \* Kubernetes namespaces an action may name
    RunbookIds    \* values of the runbook_id field

\* The namespace field of an action that leaves it out (None in the code).
NoNamespace == "None"

ASSUME NamespacesAssumption == NoNamespace \notin Namespaces

-----------------------------------------------------------------------------
SimpleTypes == {"restart_deployment", "rollback_deployment",
                "delete_pod", "delete_network_policy"}
ActionTypes == SimpleTypes \cup {"scale_deployment", "update_resources"}

OptionalNamespace == Namespaces \cup {NoNamespace}

\* "target" is the deployment, the pod or the policy: models.py gives every
\* action a "deployment" attribute, by proxy for pods and policies.
SimpleAction == [type : SimpleTypes, target : Names, namespace : OptionalNamespace]
ScaleAction  == [type : {"scale_deployment"}, target : Names,
                 namespace : OptionalNamespace, replicas : 0..50]
UpdateAction == [type : {"update_resources"}, target : Names,
                 namespace : OptionalNamespace,
                 cpu : CpuQuantity, memory : MemoryQuantity]
Action == SimpleAction \cup ScaleAction \cup UpdateAction

\* The (action, target) pair cooldowns are kept for.
CooldownKeys == ActionTypes \X Names
CooldownKey(a) == <<a.type, a.target>>

-----------------------------------------------------------------------------
\* What the parser makes of one execution_plan entry or of one command: the
\* action it spells, nothing ("unsupported": dropped), or, for a command whose
\* replica count has more digits than int() takes, a ValueError ("overlong").
Unsupported == [type |-> "unsupported"]
Overlong    == [type |-> "overlong"]

PlanEntry == Action \cup {Unsupported}
Command   == PlanEntry \cup {Overlong}

\* A message of the Redis list.  Text that is not JSON, JSON that is not an
\* object, an object that is no Runbook, or a Runbook.
Malformed == [kind : {"undecodable", "not_an_object", "bad_schema"}]
Runbook   == [kind : {"runbook"}, id : RunbookIds,
              plan : Seq(PlanEntry), commands : Seq(Command)]
Payload   == Malformed \cup Runbook
=============================================================================
