---------------------------- MODULE NetworkPeers ----------------------------
(***************************************************************************)
(* The Network object of a call: the nodes of a private network, their     *)
(* subnets and addresses, the access points, and the WireGuard peers that  *)
(* generatePeers() gives to each node.                                     *)
(*                                                                         *)
(* The network is a /16 of numbered /24 subnets, of which the first two    *)
(* are not used; an address is a subnet and a host.  A key pair belongs to *)
(* a subnet: it is generated with it.  Listen ports are left out.          *)
(***************************************************************************)
EXTENDS Integers, FiniteSets

CONSTANTS
    Nodes,
    AccessNodes,   \* what Nodes.getAccessNodes returns: those with a public IPv4
    Hidden         \* the nodes that nothing can connect to

ASSUME PeersAssumption ==
    /\ IsFiniteSet(Nodes)
    /\ AccessNodes \subseteq Nodes /\ AccessNodes # {}
    /\ Hidden \subseteq Nodes \ AccessNodes

\* nets and nodes are functions on the nodes of the network: the network
\* workloads, and what info.json keeps of a node.  contract is 0 until save().
\* access is what the first getAccessNodes() found.
EmptyNetwork == [nets |-> <<>>, nodes |-> <<>>, points |-> {}, reserved |-> {}, access |-> {}]

\* f with x mapped to v, and f without the elements of S.
With(f, x, v) == [y \in DOMAIN f \cup {x} |-> IF y = x THEN v ELSE f[y]]
Except(f, S) == [y \in DOMAIN f \ S |-> f[y]]

SubnetsOf(nets) == {nets[x].subnet : x \in DOMAIN nets}

\* The least number from 2 that is not in used.
LeastFree(used) ==
    CHOOSE k \in 2..(Cardinality(used) + 2) : k \notin used /\ \A j \in 2..(k - 1) : j \in used

\* Mutants: the subnets of access points are not reserved; only those are that
\* this call has given out.
ReservedNodesOnly(net) == net.reserved \cup SubnetsOf(net.nets)
ReservedHere(net) == net.reserved

Reserved(net) ==
    net.reserved \cup SubnetsOf(net.nets) \cup {p.subnet : p \in net.points}

Reserve(net, s) == [net EXCEPT !.reserved = Reserved(net) \cup {s}]
FreeSubnet(net) == LeastFree(Reserved(net))
-----------------------------------------------------------------------------
(***************************************************************************)
(* generatePeers.  via maps each hidden node to the access node that is to *)
(* relay for it.                                                           *)
(***************************************************************************)
AccessIn(net) == IF net.access # {} THEN net.access ELSE AccessNodes \cap DOMAIN net.nets
HiddenIn(net) == IF Cardinality(DOMAIN net.nets) = 1 THEN {} ELSE Hidden \cap DOMAIN net.nets

PointsOf(net, via, x) ==
    {p.subnet : p \in {q \in net.points : q.node = x}} \cup
    {net.nets[h].subnet : h \in {k \in DOMAIN via : via[k] = x}}

\* Mutant: what is behind an access node is left out.
AllowedNode(net, via, x, y) == {net.nets[y].subnet}

\* A hidden node sends everything to its access node, and the others send what
\* is behind an access node to that.
Allowed(net, via, x, y) ==
    {net.nets[y].subnet} \cup PointsOf(net, via, y) \cup
    (IF x \in DOMAIN via THEN Reserved(net) \ {net.nets[x].subnet} ELSE {})

PeerNodes(net, via, x) ==
    {y \in DOMAIN net.nets \ (Hidden \cup {x}) : x \in DOMAIN via => y = via[x]}

Peers(net, via, x) ==
    {[subnet |-> net.nets[y].subnet, allowed |-> Allowed(net, via, x, y), endpoint |-> TRUE] :
        y \in PeerNodes(net, via, x)} \cup
    {[subnet |-> s, allowed |-> {s}, endpoint |-> FALSE] : s \in PointsOf(net, via, x)}

\* Every outcome; none, when it throws for want of an access node.
GeneratePeers(net) ==
    {[net EXCEPT !.access = IF HiddenIn(net) = {} THEN @ ELSE AccessIn(net),
                 !.nets = [x \in DOMAIN @ |-> [subnet |-> @[x].subnet,
                                              peers |-> Peers(net, via, x)]]] :
        via \in [HiddenIn(net) -> AccessIn(net)]}

\* What load() takes for access points: peers without an endpoint that are not
\* nodes of the network.
AccessPoints(nets) ==
    UNION {{[node |-> x, subnet |-> p.subnet] :
              p \in {q \in nets[x].peers : ~q.endpoint /\ q.subnet \notin SubnetsOf(nets)}} :
           x \in DOMAIN nets}

HasAccessPoint(net, x) == \E p \in net.points : p.node = x
-----------------------------------------------------------------------------
(***************************************************************************)
(* addNode, addAccess, addresses, deleteNode.                              *)
(***************************************************************************)
\* subnet 0: any that is free.
AddNode(net, x, subnet) ==
    IF x \in DOMAIN net.nets THEN {net}
    ELSE LET s == IF subnet = 0 THEN FreeSubnet(net) ELSE subnet
             grown == [Reserve(net, s) EXCEPT
                         !.nets = With(@, x, [subnet |-> s, peers |-> {}]),
                         !.nodes = With(@, x, [contract |-> 0, ips |-> {}])]
         IN GeneratePeers(grown)

AddAccess(net, x) ==
    LET s == FreeSubnet(net)
    IN IF x \notin AccessNodes \cap DOMAIN net.nets THEN {}
       ELSE GeneratePeers([Reserve(net, s) EXCEPT !.points = @ \cup {[node |-> x, subnet |-> s]}])

Ips(net, x) == IF x \in DOMAIN net.nodes THEN net.nodes[x].ips ELSE {}

\* getFreeIP and validateUserIP: none, if the address that is asked for is
\* taken or not of the node's subnet.  Hosts 0 and 1 are not given out.
FreeIp(net, x) ==
    [subnet |-> net.nets[x].subnet,
     host |-> LeastFree({i.host : i \in {j \in Ips(net, x) : j.subnet = net.nets[x].subnet}})]

IpChoices(net, x, wanted) ==
    IF wanted.subnet = 0 THEN {FreeIp(net, x)}
    ELSE {i \in {wanted} : i \notin Ips(net, x) /\ i.subnet = net.nets[x].subnet}

\* Mutant: an address that was given out is not reserved.
ReserveNoIp(net, x, ip) == net

ReserveIp(net, x, ip) == [net EXCEPT !.nodes[x].ips = @ \cup {ip}]
FreeReservedIp(net, x, ip) ==
    IF x \in DOMAIN net.nodes THEN [net EXCEPT !.nodes[x].ips = @ \ {ip}] ELSE net

ContractOf(net, x) == IF x \in DOMAIN net.nodes THEN net.nodes[x].contract ELSE 0
\* Mutant: the node stays in the list that is saved.
DeleteNetOnly(net, x) == [net EXCEPT !.nets = Except(@, {x})]

DeleteNode(net, x) ==
    [net EXCEPT !.nets = Except(@, {x}), !.nodes = Except(@, {x})]
=============================================================================
