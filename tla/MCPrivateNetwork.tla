-------------------------- MODULE MCPrivateNetwork --------------------------
(***************************************************************************)
(* Small instances of PrivateNetwork for TLC.                              *)
(***************************************************************************)
EXTENDS PrivateNetwork, TLC

CONSTANTS n1, n2, n3, vm1, vm2, c1, c2

On(m, n) == [machine |-> m, node |-> n, ip |-> AnyIp]
Deploy(name, items, access) ==
    [op |-> "deploy", name |-> name, items |-> items, access |-> access, machines |-> {}]
Add(name, item) ==
    [op |-> "add", name |-> name, items |-> <<item>>, access |-> FALSE, machines |-> {}]
Delete(name, machines) ==
    [op |-> "delete", name |-> name, items |-> <<>>, access |-> FALSE, machines |-> machines]

MCRequests ==
    {Deploy("A", <<On(vm1, n1), On(vm2, n3)>>, TRUE),
     Deploy("A", <<On(vm1, n2)>>, FALSE),
     Deploy("A", <<On(vm1, n1), On(vm2, n1)>>, FALSE),
     Deploy("A", <<[machine |-> vm1, node |-> n1, ip |-> [subnet |-> 3, host |-> 2]]>>, TRUE),
     Deploy("B", <<On(vm1, n1), On(vm2, n1)>>, FALSE),
     Deploy("B", <<On(vm1, n2)>>, TRUE),
     Add("A", On(vm2, n2)), Add("A", On(vm2, n1)),
     Delete("A", {vm1}), Delete("B", {vm1, vm2})}

MCBeside == {Deploy("B", <<On(vm1, n2)>>, TRUE), Delete("A", {vm1})}

\* Bound: nothing is followed beyond what makes a network unclean.
OnlyClean == clean
Symmetry == Permutations(Calls)
=============================================================================
