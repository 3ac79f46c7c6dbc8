-------------------------- MODULE MCKubernetesClient --------------------------
(***************************************************************************)
(* The instances of KubernetesClient that TLC checks.                      *)
(***************************************************************************)
EXTENDS KubernetesClientProperties

CONSTANT c1       \* model value: a worker thread

OneClient == {c1}

\* Templates of v2 have no annotations until a restart stamps them.
MCVersions  == {"v1", "v2"}
MCAnnotated == {"v1"}

\* "1000m" is kept as "1".
OneLimit      == {"1"}
OneStored     == [l \in OneLimit |-> l]
MCLimitValues == {"1", "2", "1000m"}
MCStored      == [l \in MCLimitValues |-> IF l = "2" THEN "2" ELSE "1"]

NoSets == {}

RollbackOnly == {[op |-> "rollback"]}
EveryCall ==
    {[op |-> "restart"], [op |-> "rollback"], [op |-> "delete_pod"], [op |-> "delete_policy"],
     [op |-> "scale", replicas |-> 2],
     [op |-> "update", limits |-> "2"], [op |-> "update", limits |-> "1000m"]}

RolloutEdits == {"deploy", "prune"}
EveryEdit    == {"deploy", "scale", "prune", "pod", "policy"}
=============================================================================
