--------------------------- MODULE MCRunbookWorker ---------------------------
(***************************************************************************)
(* The instances of RunbookWorker that TLC checks: payloads chosen so that *)
(* every path of _handle_message is taken and plans share cooldown keys.   *)
(***************************************************************************)
EXTENDS RunbookWorkerProperties, TLC

CONSTANTS w1, w2       \* model values: the pods

OneWorker   == {w1}
TwoWorkers  == {w1, w2}
WorkerSymmetry == Permutations(TwoWorkers)

MCNames      == {"backend"}
MCNamespaces == {"food-app", "kube-system"}
MCIds        == {"r1", "r2"}

MCAllowedActions    == ActionTypes \ {"delete_pod"}
MCAllowedNamespaces == {"food-app"}

-----------------------------------------------------------------------------
Simple(type, ns) == [type |-> type, target |-> "backend", namespace |-> ns]
Restart     == Simple("restart_deployment", NoNamespace)
RestartHere == Simple("restart_deployment", "food-app")
DeletePod   == Simple("delete_pod", NoNamespace)
DeletePolicy == Simple("delete_network_policy", NoNamespace)
Scale(n) == [type |-> "scale_deployment", target |-> "backend",
             namespace |-> NoNamespace, replicas |-> n]
Resources(unit) == [type |-> "update_resources", target |-> "backend",
                    namespace |-> NoNamespace,
                    cpu |-> [unit |-> unit, amount |-> 500],
                    memory |-> [unit |-> "Gi", amount |-> 1]]

Rb(id, plan, commands) ==
    [kind |-> "runbook", id |-> id, plan |-> plan, commands |-> commands]

\* Two steps; the third is the first again, the fourth does not parse.
TwoSteps  == Rb("r1", <<Restart, Scale(3), Restart, Unsupported>>, <<DeletePod>>)
OneStep   == Rb("r2", <<>>, <<Unsupported, Restart>>)
PartlySafe == Rb("r2", <<Simple("restart_deployment", "kube-system"), DeletePod,
                         Scale(21), DeletePolicy, Restart>>, <<>>)
NothingSafe == Rb("r1", <<Scale(21)>>, <<>>)
NoAction    == Rb("r1", <<>>, <<Unsupported>>)
Overflows   == Rb("r1", <<Restart, Resources("oversized")>>, <<>>)
TooLong     == Rb("r1", <<>>, <<Restart, Overlong>>)
Twice       == Rb("r1", <<Restart, RestartHere>>, <<>>)

Garbage == {[kind |-> "undecodable"], [kind |-> "not_an_object"], [kind |-> "bad_schema"]}

SafetyPayloads == {TwoSteps, OneStep, PartlySafe, NothingSafe, NoAction,
                   Overflows, TooLong} \cup (Garbage \ {[kind |-> "bad_schema"]})
SharedPayloads == {TwoSteps, OneStep}
LivenessPayloads == {TwoSteps, NothingSafe, Overflows, TooLong, NoAction} \cup Garbage
TwicePayloads == {Twice}
=============================================================================
