------------------------------ MODULE Validator ------------------------------
(***************************************************************************)
(* validate_plan and _check_action of app/validator.py: what must hold of  *)
(* an action before the executor may see it.                               *)
(***************************************************************************)
EXTENDS Actions, Trackers

CONSTANTS
    AllowedActions,      \* ALLOWED_ACTIONS
    AllowedNamespaces,   \* ALLOWED_NAMESPACES
    TargetNamespace      \* TARGET_NAMESPACE

MaxSafeReplicas == 20

\* action.namespace or target_namespace
EffectiveNamespace(a) ==
    IF a.namespace = NoNamespace THEN TargetNamespace ELSE a.namespace

\* Checks 1 and 2: the allowlist and the namespace guard.
Permitted(a) ==
    /\ a.type \in AllowedActions
    /\ EffectiveNamespace(a) \in AllowedNamespaces

\* Check 3.  The names of pods and policies are never empty: the models of
\* app/models.py refuse an empty string.
WithinLimits(a) ==
    /\ a.type = "scale_deployment" => a.replicas <= MaxSafeReplicas
    /\ a.type = "update_resources" => ResourcesAccepted(a.cpu, a.memory)

\* Check 3 converts the quantities of an action that passed checks 1 and 2,
\* and an exception of the conversion leaves validate_plan.
CheckRaises(a) ==
    /\ Permitted(a)
    /\ a.type = "update_resources"
    /\ ResourcesRaise(a.cpu, a.memory)

\* Mutant: the limits are not checked.
ApprovedUnlimited(a, lastRun, t) ==
    Permitted(a) /\ IsAllowed(lastRun[CooldownKey(a)], t)

\* _check_action returns '': checks 1 to 3, then the cooldown guard.
Approved(a, lastRun, t) ==
    /\ Permitted(a)
    /\ WithinLimits(a)
    /\ IsAllowed(lastRun[CooldownKey(a)], t)
=============================================================================
