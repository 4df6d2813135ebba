------------------------- MODULE MCDeploymentStore -------------------------
(***************************************************************************)
(* Small instances of DeploymentStore for TLC.                             *)
(***************************************************************************)
EXTENDS DeploymentStore, TLC

CONSTANTS n1, n2, a, b, m, k, z, g, q

Req(op, n, plan, instance, node) ==
    [op |-> op, name |-> n, plan |-> plan, access |-> {}, instance |-> instance, node |-> node]
Empty == [p \in Nodes |-> {}]
Plan(ofX, ofY) == [p \in Nodes |-> IF p = n1 THEN ofX ELSE ofY]
OnName(op, n) == Req(op, n, Empty, NoInstance, NoNode)

MCModule == [n \in Names |-> IF n = m THEN "machines" ELSE IF n = k THEN "k8s"
                             ELSE IF n = z THEN "zdbs" ELSE IF n = g THEN "gateway" ELSE "qsfs_zdbs"]

\* Machines on two nodes that are changed in every way.
MachineRequests ==
    {Req("deploy", m, Plan({a}, {b}), NoInstance, NoNode),
     [Req("deploy", m, Plan({a}, {}), NoInstance, NoNode) EXCEPT !.access = {n2}],
     Req("update", m, Plan({a, b}, {}), NoInstance, NoNode),
     Req("update", m, Plan({a}, {b}), NoInstance, NoNode),
     Req("add", m, Empty, b, n1), Req("add", m, Empty, b, n2),
     Req("deleteInstance", m, Empty, b, NoNode),
     OnName("delete", m), OnName("get", m),
     OnName("cancel", NoName), OnName("cancelMine", NoName)}

\* A cluster whose master may be deleted.
ClusterRequests ==
    {Req("deploy", k, Plan({a}, {b}), NoInstance, NoNode),
     Req("deploy", k, Plan({b}, {}), NoInstance, NoNode),
     Req("update", k, Plan({a}, {b}), NoInstance, NoNode),
     Req("add", k, Empty, b, n1), Req("deleteInstance", k, Empty, a, NoNode)}

\* zdbs, a gateway, and qsfs_zdbs, one time too few of them.
OtherRequests ==
    {Req("deploy", z, Plan({a}, {}), NoInstance, NoNode), Req("add", z, Empty, b, n1),
     Req("deploy", g, Plan({a}, {}), NoInstance, NoNode), OnName("delete", g),
     Req("deploy", q, Plan({a}, {b}), NoInstance, NoNode),
     Req("deploy", q, Plan({a}, {}), NoInstance, NoNode)}

AllRequests == MachineRequests \cup ClusterRequests \cup OtherRequests

Symmetry == Permutations(Ids) \cup Permutations(Calls)
=============================================================================
