------------------------ MODULE PrivateNetworkProofs ------------------------
(***************************************************************************)
(* What the operations of NetworkPeers do to a Network object: the shape   *)
(* they keep, that the subnet and the address that are given out are free, *)
(* and which part of the object each of them leaves alone.  Then the types *)
(* of PrivateNetwork, proved for every set of nodes, calls and requests,   *)
(* and what the steps of a call do to its Network object and to its batch. *)
(***************************************************************************)
EXTENDS PrivateNetwork, FiniteSetTheorems, TLAPS

Fin(S) == {T \in SUBSET S : IsFiniteSet(T)}
Partial(D, S) == UNION {[E -> S] : E \in SUBSET D}

Address == [subnet : Nat, host : Nat]
Peer == [subnet : Nat, allowed : SUBSET Nat, endpoint : BOOLEAN]
NetEntry == [subnet : Nat, peers : Fin(Peer)]
NodeEntry == [contract : Nat, ips : Fin(Address)]
Point == [node : Nodes, subnet : Nat]

\* A Network object: its nodes are those of its network workloads.
Network ==
    {n \in [nets : Partial(Nodes, NetEntry), nodes : Partial(Nodes, NodeEntry),
            points : Fin(Point), reserved : Fin(Nat), access : SUBSET Nodes] :
       DOMAIN n.nets = DOMAIN n.nodes}
-----------------------------------------------------------------------------
(***************************************************************************)
(* Sets and functions.                                                     *)
(***************************************************************************)
\* A partial function: its domain and its values.
LEMMA PartialFacts ==
    ASSUME NEW D, NEW S, NEW f \in Partial(D, S)
    PROVE  /\ DOMAIN f \in SUBSET D
           /\ f \in [DOMAIN f -> S]
           /\ \A x \in DOMAIN f : f[x] \in S
<1>1. PICK E \in SUBSET D : f \in [E -> S]
    BY DEF Partial
<1> QED BY <1>1

\* A function on some of a set is a partial function on it.
LEMMA PartialIntro ==
    ASSUME NEW D, NEW S, NEW E \in SUBSET D, NEW f \in [E -> S]
    PROVE  f \in Partial(D, S)
BY DEF Partial

\* The empty sequence is the partial function that is nowhere defined.
LEMMA PartialEmpty ==
    ASSUME NEW D, NEW S
    PROVE  <<>> \in Partial(D, S) /\ DOMAIN <<>> = {}
<1>1. <<>> \in [{} -> S]
    OBVIOUS
<1> QED BY <1>1, PartialIntro

\* With and Except stay partial functions on the set.
LEMMA PartialWith ==
    ASSUME NEW D, NEW S, NEW f \in Partial(D, S), NEW x \in D, NEW v \in S
    PROVE  With(f, x, v) \in Partial(D, S)
<1>1. DOMAIN f \cup {x} \in SUBSET D /\ \A y \in DOMAIN f : f[y] \in S
    BY PartialFacts
<1>2. With(f, x, v) \in [DOMAIN f \cup {x} -> S]
    BY <1>1 DEF With
<1> QED BY <1>1, <1>2, PartialIntro

LEMMA PartialExcept ==
    ASSUME NEW D, NEW S, NEW f \in Partial(D, S), NEW T
    PROVE  Except(f, T) \in Partial(D, S)
<1>1. DOMAIN f \ T \in SUBSET D /\ \A y \in DOMAIN f : f[y] \in S
    BY PartialFacts
<1>2. Except(f, T) \in [DOMAIN f \ T -> S]
    BY <1>1 DEF Except
<1> QED BY <1>1, <1>2, PartialIntro

\* The values of a function on a finite set are finitely many.
LEMMA FiniteRange ==
    ASSUME NEW S, IsFiniteSet(S), NEW f, DOMAIN f = S, f = [x \in S |-> f[x]]
    PROVE  IsFiniteSet({f[x] : x \in S})
<1> DEFINE T == {f[x] : x \in S}
<1>1. f \in Surjection(S, T)
    BY DEF Surjection
<1> QED BY <1>1, FS_Surjection

\* Finite sets of a kind: the empty one, with an element, without some, joined.
LEMMA FinFacts ==
    ASSUME NEW S
    PROVE  /\ {} \in Fin(S)
           /\ \A T \in Fin(S), x \in S : T \cup {x} \in Fin(S)
           /\ \A T \in Fin(S) : \A U : T \ U \in Fin(S)
           /\ \A T, U \in Fin(S) : T \cup U \in Fin(S)
           /\ \A T \in Fin(S) : \A U \in SUBSET T : U \in Fin(S)
<1>1. {} \in Fin(S)
    BY FS_EmptySet DEF Fin
<1>2. ASSUME NEW T \in Fin(S), NEW x \in S  PROVE T \cup {x} \in Fin(S)
    BY FS_AddElement DEF Fin
<1>3. ASSUME NEW T \in Fin(S), NEW U \in SUBSET T  PROVE U \in Fin(S)
    BY FS_Subset DEF Fin
<1>4. ASSUME NEW T \in Fin(S), NEW U  PROVE T \ U \in Fin(S)
    BY <1>3
<1>5. ASSUME NEW T \in Fin(S), NEW U \in Fin(S)  PROVE T \cup U \in Fin(S)
    BY FS_Union DEF Fin
<1> QED BY <1>1, <1>2, <1>3, <1>4, <1>5

LEMMA FinSubset ==
    ASSUME NEW S, NEW T \in Fin(S), NEW U \in SUBSET T
    PROVE  U \in Fin(S)
BY FS_Subset DEF Fin

\* A property of some number has a least number.
LEMMA LeastNumber ==
    ASSUME NEW T \in SUBSET Nat, T # {}
    PROVE  \E k \in T : \A j \in T : k <= j
<1> DEFINE Less == {p \in Nat \X Nat : p[1] < p[2]}
<1>1. IsWellFoundedOn(Less, Nat)
    BY NatLessThanWellFounded DEF OpToRel
<1> HIDE DEF Less
<1>2. PICK k \in T : \A j \in T : ~ (<<j, k>> \in Less)
    BY <1>1, WFMin
<1>3. ASSUME NEW j \in T  PROVE k <= j
  <2>1. j \in Nat /\ k \in Nat
      OBVIOUS
  <2>2. <<j, k>> \in Nat \X Nat /\ <<j, k>>[1] = j /\ <<j, k>>[2] = k
      BY <2>1
  <2>3. j < k => <<j, k>> \in Less
      BY <2>2 DEF Less
  <2> QED BY <1>2, <2>1, <2>3
<1> QED BY <1>3

\* getFreeIP and getFreeSubnet go on to the first number that is free.
LEMMA LeastFreeFacts ==
    ASSUME NEW used, IsFiniteSet(used)
    PROVE  /\ LeastFree(used) \in Nat
           /\ LeastFree(used) >= 2
           /\ LeastFree(used) \notin used
<1> DEFINE n == Cardinality(used)
           free == {k \in 2..(n + 2) : k \notin used}
<1>1. n \in Nat
    BY FS_CardinalityType
<1>2. free # {}
  <2>1. SUFFICES ASSUME free = {}  PROVE FALSE
      OBVIOUS
  <2>2. 2..(n + 2) \in SUBSET used
      BY <2>1
  <2>3. Cardinality(2..(n + 2)) <= n
      BY <2>2, FS_Subset
  <2>4. Cardinality(2..(n + 2)) = n + 1
      BY <1>1, FS_Interval
  <2> QED BY <1>1, <2>3, <2>4
<1>3. free \in SUBSET Nat
    BY <1>1
<1>4. PICK k \in free : \A j \in free : k <= j
    BY <1>2, <1>3, LeastNumber
<1>5. \A j \in 2..(k - 1) : j \in used
    BY <1>1, <1>4
<1>6. \E i \in 2..(n + 2) : i \notin used /\ \A j \in 2..(i - 1) : j \in used
    BY <1>4, <1>5
<1>7. LeastFree(used) \in 2..(n + 2) /\ LeastFree(used) \notin used
    BY <1>6 DEF LeastFree
<1> QED BY <1>1, <1>7
-----------------------------------------------------------------------------
(***************************************************************************)
(* Subnets.                                                                *)
(***************************************************************************)
\* What is in a Network object.
LEMMA NetworkFacts ==
    ASSUME NEW n \in Network
    PROVE  /\ n.nets \in Partial(Nodes, NetEntry) /\ n.nodes \in Partial(Nodes, NodeEntry)
           /\ n.points \in Fin(Point) /\ n.reserved \in Fin(Nat) /\ n.access \in SUBSET Nodes
           /\ DOMAIN n.nets = DOMAIN n.nodes
           /\ DOMAIN n.nets \in SUBSET Nodes /\ IsFiniteSet(DOMAIN n.nets)
           /\ \A x \in DOMAIN n.nets :
                /\ n.nets[x] \in NetEntry /\ n.nets[x].subnet \in Nat /\ n.nets[x].peers \in Fin(Peer)
                /\ n.nodes[x] \in NodeEntry /\ n.nodes[x].contract \in Nat
                /\ n.nodes[x].ips \in Fin(Address)
           /\ n = [nets |-> n.nets, nodes |-> n.nodes, points |-> n.points,
                   reserved |-> n.reserved, access |-> n.access]
<1>1. /\ n.nets \in Partial(Nodes, NetEntry) /\ n.nodes \in Partial(Nodes, NodeEntry)
      /\ n.points \in Fin(Point) /\ n.reserved \in Fin(Nat) /\ n.access \in SUBSET Nodes
      /\ DOMAIN n.nets = DOMAIN n.nodes
      /\ n = [nets |-> n.nets, nodes |-> n.nodes, points |-> n.points,
              reserved |-> n.reserved, access |-> n.access]
    BY DEF Network
<1>2. DOMAIN n.nets \in SUBSET Nodes
    BY <1>1, PartialFacts
<1>3. IsFiniteSet(DOMAIN n.nets)
    BY <1>2, FS_Subset, PeersAssumption
<1>4. \A x \in DOMAIN n.nets : n.nets[x] \in NetEntry
    BY <1>1, PartialFacts
<1>5. \A x \in DOMAIN n.nets : n.nodes[x] \in NodeEntry
    BY <1>1, PartialFacts
<1>6. \A e \in NetEntry : e.subnet \in Nat /\ e.peers \in Fin(Peer)
    BY DEF NetEntry
<1>7. \A e \in NodeEntry : e.contract \in Nat /\ e.ips \in Fin(Address)
    BY DEF NodeEntry
<1> QED BY <1>1, <1>2, <1>3, <1>4, <1>5, <1>6, <1>7

\* A Network object is put together from its parts.
LEMMA NetworkIntro ==
    ASSUME NEW n,
           n = [nets |-> n.nets, nodes |-> n.nodes, points |-> n.points,
                reserved |-> n.reserved, access |-> n.access],
           n.nets \in Partial(Nodes, NetEntry), n.nodes \in Partial(Nodes, NodeEntry),
           n.points \in Fin(Point), n.reserved \in Fin(Nat), n.access \in SUBSET Nodes,
           DOMAIN n.nets = DOMAIN n.nodes
    PROVE  n \in Network
BY DEF Network

LEMMA EmptyNetworkFacts == EmptyNetwork \in Network
<1>1. {} \in Fin(Point) /\ {} \in Fin(Nat)
    BY FinFacts
<1>2. <<>> \in Partial(Nodes, NetEntry) /\ <<>> \in Partial(Nodes, NodeEntry)
    BY PartialEmpty
<1> QED BY <1>1, <1>2 DEF EmptyNetwork, Network

\* The subnets of the network workloads.
LEMMA SubnetsFinite ==
    ASSUME NEW nets \in Partial(Nodes, NetEntry)
    PROVE  SubnetsOf(nets) \in Fin(Nat)
<1>1. DOMAIN nets \in SUBSET Nodes /\ \A x \in DOMAIN nets : nets[x] \in NetEntry
    BY PartialFacts
<1>2. IsFiniteSet(DOMAIN nets)
    BY <1>1, FS_Subset, PeersAssumption
<1> DEFINE f == [x \in DOMAIN nets |-> nets[x].subnet]
<1>3. IsFiniteSet({f[x] : x \in DOMAIN nets})
    BY <1>2, FiniteRange
<1>4. SubnetsOf(nets) = {f[x] : x \in DOMAIN nets}
    BY DEF SubnetsOf
<1>5. SubnetsOf(nets) \in SUBSET Nat
    BY <1>1 DEF SubnetsOf, NetEntry
<1> QED BY <1>3, <1>4, <1>5 DEF Fin

\* The subnets of some access points.
LEMMA PointSubnets ==
    ASSUME NEW P \in Fin(Point)
    PROVE  {p.subnet : p \in P} \in Fin(Nat)
<1> DEFINE f == [p \in P |-> p.subnet]
<1>1. IsFiniteSet(P) /\ P \in SUBSET Point
    BY DEF Fin
<1>2. IsFiniteSet({f[p] : p \in P})
    BY <1>1, FiniteRange
<1>3. {p.subnet : p \in P} = {f[p] : p \in P}
    OBVIOUS
<1>4. {p.subnet : p \in P} \in SUBSET Nat
    BY <1>1 DEF Point
<1> QED BY <1>2, <1>3, <1>4 DEF Fin

\* getReservedSubnets has the subnets of the nodes and of the access points.
LEMMA ReservedFacts ==
    ASSUME NEW n \in Network
    PROVE  /\ Reserved(n) \in Fin(Nat)
           /\ \A x \in DOMAIN n.nets : n.nets[x].subnet \in Reserved(n)
<1>1. n.reserved \in Fin(Nat) /\ SubnetsOf(n.nets) \in Fin(Nat) /\ {p.subnet : p \in n.points} \in Fin(Nat)
    BY NetworkFacts, SubnetsFinite, PointSubnets
<1>2. n.reserved \cup SubnetsOf(n.nets) \in Fin(Nat)
    BY <1>1, FinFacts
<1>3. Reserved(n) \in Fin(Nat)
    BY <1>1, <1>2, FinFacts DEF Reserved
<1> QED BY <1>3 DEF Reserved, SubnetsOf

LEMMA ReserveFacts ==
    ASSUME NEW n \in Network, NEW s \in Nat
    PROVE  /\ Reserve(n, s) \in Network
           /\ Reserve(n, s).nets = n.nets /\ Reserve(n, s).nodes = n.nodes
           /\ Reserve(n, s).points = n.points /\ Reserve(n, s).access = n.access
           /\ Reserve(n, s).reserved = Reserved(n) \cup {s}
<1>1. Reserved(n) \cup {s} \in Fin(Nat)
    BY ReservedFacts, FinFacts
<1> DEFINE r == [n EXCEPT !.reserved = Reserved(n) \cup {s}]
<1>2. /\ r.nets = n.nets /\ r.nodes = n.nodes /\ r.points = n.points /\ r.access = n.access
      /\ r.reserved = Reserved(n) \cup {s}
      /\ r = [nets |-> r.nets, nodes |-> r.nodes, points |-> r.points,
              reserved |-> r.reserved, access |-> r.access]
    BY DEF Network
<1> HIDE DEF r
<1>3. r \in Network
    BY <1>1, <1>2, NetworkFacts, NetworkIntro
<1> QED BY <1>2, <1>3 DEF Reserve, r

\* A subnet that is given out is one of no node, and is not the 0 that stands
\* for none.
LEMMA FreeSubnetFacts ==
    ASSUME NEW n \in Network
    PROVE  /\ FreeSubnet(n) \in Nat /\ FreeSubnet(n) # 0
           /\ FreeSubnet(n) \notin Reserved(n)
           /\ \A x \in DOMAIN n.nets : n.nets[x].subnet # FreeSubnet(n)
<1>1. IsFiniteSet(Reserved(n))
    BY ReservedFacts DEF Fin
<1>2. FreeSubnet(n) \in Nat /\ FreeSubnet(n) >= 2 /\ FreeSubnet(n) \notin Reserved(n)
    BY <1>1, LeastFreeFacts DEF FreeSubnet
<1> QED BY <1>2, ReservedFacts
-----------------------------------------------------------------------------
(***************************************************************************)
(* Peers and access points.                                                *)
(***************************************************************************)
\* What is behind an access node: access points and hidden nodes.
LEMMA PointsOfFacts ==
    ASSUME NEW n \in Network, NEW via \in [HiddenIn(n) -> AccessIn(n)], NEW x
    PROVE  PointsOf(n, via, x) \in Fin(Nat)
<1> DEFINE P == {q \in n.points : q.node = x}
           H == {k \in DOMAIN via : via[k] = x}
           f == [h \in H |-> n.nets[h].subnet]
<1>1. P \in Fin(Point)
    BY NetworkFacts, FinFacts
<1>2. {p.subnet : p \in P} \in Fin(Nat)
    BY <1>1, PointSubnets
<1>3. H \in SUBSET DOMAIN n.nets
    BY DEF HiddenIn
<1>4. IsFiniteSet(H)
    BY <1>3, FS_Subset, NetworkFacts
<1>5. IsFiniteSet({f[h] : h \in H})
  <2> HIDE DEF H
  <2> QED BY <1>4, FiniteRange
<1>6. {n.nets[h].subnet : h \in H} = {f[h] : h \in H}
    OBVIOUS
<1>7. {n.nets[h].subnet : h \in H} \in Fin(Nat)
  <2>1. \A h \in H : n.nets[h].subnet \in Nat
      BY <1>3, NetworkFacts
  <2> QED BY <1>5, <1>6, <2>1 DEF Fin
<1> QED BY <1>2, <1>7, FinFacts DEF PointsOf

\* The peers of a node.
LEMMA PeersFacts ==
    ASSUME NEW n \in Network, NEW via \in [HiddenIn(n) -> AccessIn(n)], NEW x \in DOMAIN n.nets
    PROVE  Peers(n, via, x) \in Fin(Peer)
<1> DEFINE Y == PeerNodes(n, via, x)
           f == [y \in Y |-> [subnet |-> n.nets[y].subnet, allowed |-> Allowed(n, via, x, y), endpoint |-> TRUE]]
           Q == PointsOf(n, via, x)
           g == [s \in Q |-> [subnet |-> s, allowed |-> {s}, endpoint |-> FALSE]]
<1>1. Y \in SUBSET DOMAIN n.nets
    BY DEF PeerNodes
<1>2. IsFiniteSet(Y)
    BY <1>1, FS_Subset, NetworkFacts
<1>3. \A y \in Y : f[y] \in Peer
  <2> TAKE y \in Y
  <2>1. n.nets[y].subnet \in Nat
      BY <1>1, NetworkFacts
  <2>2. PointsOf(n, via, y) \in SUBSET Nat /\ Reserved(n) \in SUBSET Nat
      BY PointsOfFacts, ReservedFacts DEF Fin
  <2>3. Allowed(n, via, x, y) \in SUBSET Nat
      BY <2>1, <2>2 DEF Allowed
  <2> QED BY <2>1, <2>3 DEF Peer
<1>4. Q \in Fin(Nat)
    BY PointsOfFacts
<1>5. \A s \in Q : g[s] \in Peer
    BY <1>4 DEF Fin, Peer
<1>6. IsFiniteSet(Q)
    BY <1>4 DEF Fin
<1>7. IsFiniteSet({f[y] : y \in Y}) /\ IsFiniteSet({g[s] : s \in Q})
  <2> HIDE DEF Y, Q
  <2> QED BY <1>2, <1>6, FiniteRange
<1>8. {f[y] : y \in Y} \in Fin(Peer) /\ {g[s] : s \in Q} \in Fin(Peer)
  <2> HIDE DEF Y, Q, f, g
  <2> QED BY <1>3, <1>5, <1>7 DEF Fin
<1>9. Peers(n, via, x) = {f[y] : y \in Y} \cup {g[s] : s \in Q}
    BY DEF Peers
<1> HIDE DEF f, g, Y, Q
<1> QED BY <1>8, <1>9, FinFacts

\* generatePeers changes the peers of the network workloads and nothing else
\* that is kept.
LEMMA GenerateFacts ==
    ASSUME NEW n \in Network, NEW o \in GeneratePeers(n)
    PROVE  /\ o \in Network
           /\ o.nodes = n.nodes /\ o.points = n.points /\ o.reserved = n.reserved
           /\ DOMAIN o.nets = DOMAIN n.nets
           /\ \A x \in DOMAIN n.nets : o.nets[x].subnet = n.nets[x].subnet
<1>1. PICK via \in [HiddenIn(n) -> AccessIn(n)] :
        o = [n EXCEPT !.access = IF HiddenIn(n) = {} THEN @ ELSE AccessIn(n),
                      !.nets = [x \in DOMAIN @ |-> [subnet |-> @[x].subnet, peers |-> Peers(n, via, x)]]]
    BY DEF GeneratePeers
<1> DEFINE nets == [x \in DOMAIN n.nets |-> [subnet |-> n.nets[x].subnet, peers |-> Peers(n, via, x)]]
           access == IF HiddenIn(n) = {} THEN n.access ELSE AccessIn(n)
<1>2. o = [nets |-> nets, nodes |-> n.nodes, points |-> n.points, reserved |-> n.reserved, access |-> access]
    BY <1>1 DEF Network
<1>3. access \in SUBSET Nodes
    BY NetworkFacts DEF AccessIn
<1>4. \A x \in DOMAIN n.nets : nets[x] \in NetEntry
    BY PeersFacts, NetworkFacts DEF NetEntry
<1>5. nets \in [DOMAIN n.nets -> NetEntry]
    BY <1>4
<1> HIDE DEF access
<1>6. nets \in Partial(Nodes, NetEntry) /\ DOMAIN nets = DOMAIN n.nets
    BY <1>5, NetworkFacts, PartialIntro
<1>7. \A x \in DOMAIN n.nets : nets[x].subnet = n.nets[x].subnet
    OBVIOUS
<1> HIDE DEF nets
<1>8. o \in Network
    BY <1>2, <1>3, <1>6, NetworkFacts, NetworkIntro
<1> QED BY <1>2, <1>6, <1>7, <1>8

\* load() finds the access points of the network in the peers of its nodes.
LEMMA AccessPointsFacts ==
    ASSUME NEW nets \in Partial(Nodes, NetEntry)
    PROVE  AccessPoints(nets) \in Fin(Point)
<1> DEFINE P(x) == {q \in nets[x].peers : ~q.endpoint /\ q.subnet \notin SubnetsOf(nets)}
           A == [x \in DOMAIN nets |-> {[node |-> x, subnet |-> p.subnet] : p \in P(x)}]
           D == DOMAIN nets
<1>1. D \in SUBSET Nodes /\ \A x \in D : nets[x] \in NetEntry
    BY PartialFacts
<1>2. IsFiniteSet(D)
    BY <1>1, FS_Subset, PeersAssumption
<1>3. ASSUME NEW x \in D  PROVE A[x] \in Fin(Point)
  <2> DEFINE f == [p \in P(x) |-> [node |-> x, subnet |-> p.subnet]]
  <2>1. nets[x].peers \in Fin(Peer)
      BY <1>1 DEF NetEntry
  <2>2. P(x) \in Fin(Peer)
      BY <2>1, FinFacts
  <2>3. IsFiniteSet(P(x)) /\ \A p \in P(x) : p \in Peer
      BY <2>2 DEF Fin
  <2>4. \A p \in P(x) : f[p] \in Point
      BY <1>1, <2>3 DEF Peer, Point
  <2>5. A[x] = {f[p] : p \in P(x)}
      OBVIOUS
  <2> HIDE DEF P, A
  <2>6. IsFiniteSet({f[p] : p \in P(x)})
      BY <2>3, FiniteRange
  <2> HIDE DEF f
  <2> QED BY <2>4, <2>5, <2>6 DEF Fin
<1>4. IsFiniteSet({A[x] : x \in D})
  <2>1. DOMAIN A = D /\ A = [x \in D |-> A[x]]
      OBVIOUS
  <2> HIDE DEF A, D
  <2> QED BY <1>2, <2>1, FiniteRange
<1>5. AccessPoints(nets) = UNION {A[x] : x \in D}
    BY DEF AccessPoints
<1> HIDE DEF A, D
<1>6. \A T \in {A[x] : x \in D} : IsFiniteSet(T) /\ T \in SUBSET Point
    BY <1>3 DEF Fin
<1>7. IsFiniteSet(UNION {A[x] : x \in D})
    BY <1>4, <1>6, FS_UNION
<1> QED BY <1>5, <1>6, <1>7 DEF Fin
-----------------------------------------------------------------------------
(***************************************************************************)
(* addNode and addAccess.                                                  *)
(***************************************************************************)
\* The nodes of n are in o as they were, and what is new has no contract yet
\* and no addresses.
Extends(n, o) ==
    /\ DOMAIN n.nets \subseteq DOMAIN o.nets
    /\ \A z \in DOMAIN n.nets : o.nets[z].subnet = n.nets[z].subnet /\ o.nodes[z] = n.nodes[z]
    /\ \A z \in DOMAIN o.nets \ DOMAIN n.nets : o.nodes[z] = [contract |-> 0, ips |-> {}]

\* No two nodes have the same subnet.
Apart(n) ==
    /\ \A y, z \in DOMAIN n.nets : y # z => n.nets[y].subnet # n.nets[z].subnet
    /\ \A z \in DOMAIN n.nets : n.nets[z].subnet # 0

\* No node has the subnet s.
FreeOf(n, s) == \A z \in DOMAIN n.nets : n.nets[z].subnet # s

\* The peers of o were generated with the access points P.
Regenerated(o, P, A) == \E g \in Network : o \in GeneratePeers(g) /\ g.points = P /\ g.access = A

LEMMA ExtendsTransitive ==
    ASSUME NEW l \in Network, NEW n \in Network, NEW o \in Network, Extends(l, n), Extends(n, o)
    PROVE  Extends(l, o)
<1>1. DOMAIN l.nets \subseteq DOMAIN o.nets
    BY DEF Extends
<1>2. ASSUME NEW z \in DOMAIN l.nets
      PROVE  o.nets[z].subnet = l.nets[z].subnet /\ o.nodes[z] = l.nodes[z]
    BY DEF Extends
<1>3. ASSUME NEW z \in DOMAIN o.nets \ DOMAIN l.nets
      PROVE  o.nodes[z] = [contract |-> 0, ips |-> {}]
    BY DEF Extends
<1> QED BY <1>1, <1>2, <1>3 DEF Extends

LEMMA AddNodeFacts ==
    ASSUME NEW n \in Network, NEW x \in Nodes, NEW s \in Nat, NEW o \in AddNode(n, x, s)
    PROVE  /\ o \in Network /\ Extends(n, o)
           /\ DOMAIN o.nets = DOMAIN n.nets \cup {x}
           /\ x \notin DOMAIN n.nets => o.nets[x].subnet = IF s = 0 THEN FreeSubnet(n) ELSE s
           /\ x \notin DOMAIN n.nets => Regenerated(o, n.points, n.access)
           /\ n.reserved \subseteq o.reserved /\ o.points = n.points
<1>1. CASE x \in DOMAIN n.nets
  <2>1. o = n
      BY <1>1 DEF AddNode
  <2> QED BY <1>1, <2>1 DEF Extends
<1>2. CASE x \notin DOMAIN n.nets
  <2> DEFINE t == IF s = 0 THEN FreeSubnet(n) ELSE s
             r == Reserve(n, t)
             e == [subnet |-> t, peers |-> {}]
             d == [contract |-> 0, ips |-> {}]
             N == With(r.nets, x, e)
             D == With(r.nodes, x, d)
             g == [r EXCEPT !.nets = N, !.nodes = D]
  <2>1. o \in GeneratePeers(g)
      BY <1>2 DEF AddNode
  <2>2. t \in Nat
      BY FreeSubnetFacts
  <2> HIDE DEF t
  <2>3. /\ r \in Network /\ r.nets = n.nets /\ r.nodes = n.nodes
        /\ r.points = n.points /\ r.access = n.access /\ n.reserved \subseteq r.reserved
      BY <2>2, ReserveFacts DEF Reserved
  <2>4. e \in NetEntry /\ d \in NodeEntry /\ e.subnet = t
    <3>1. {} \in Fin(Peer) /\ {} \in Fin(Address)
        BY FinFacts
    <3> QED BY <2>2, <3>1 DEF NetEntry, NodeEntry
  <2>5. r \in [nets : Partial(Nodes, NetEntry), nodes : Partial(Nodes, NodeEntry),
               points : Fin(Point), reserved : Fin(Nat), access : SUBSET Nodes]
      BY <2>3 DEF Network
  <2> HIDE DEF r, e, d
  <2>6. /\ N \in Partial(Nodes, NetEntry) /\ DOMAIN N = DOMAIN n.nets \cup {x}
        /\ N[x] = e /\ \A y \in DOMAIN n.nets : N[y] = n.nets[y]
    <3>1. n.nets \in Partial(Nodes, NetEntry)
        BY NetworkFacts
    <3>2. N = With(n.nets, x, e)
        BY <2>3
    <3> HIDE DEF N
    <3>3. With(n.nets, x, e) \in Partial(Nodes, NetEntry)
        BY <2>4, <3>1, PartialWith
    <3> QED BY <1>2, <3>1, <3>2, <3>3 DEF With
  <2>7. /\ D \in Partial(Nodes, NodeEntry) /\ DOMAIN D = DOMAIN n.nets \cup {x}
        /\ D[x] = d /\ \A y \in DOMAIN n.nets : D[y] = n.nodes[y]
    <3>1. n.nodes \in Partial(Nodes, NodeEntry) /\ DOMAIN n.nodes = DOMAIN n.nets
        BY NetworkFacts
    <3>2. D = With(n.nodes, x, d)
        BY <2>3
    <3> HIDE DEF D
    <3>3. With(n.nodes, x, d) \in Partial(Nodes, NodeEntry)
        BY <2>4, <3>1, PartialWith
    <3> QED BY <1>2, <3>1, <3>2, <3>3 DEF With
  <2> HIDE DEF N, D
  <2>8. g \in [nets : Partial(Nodes, NetEntry), nodes : Partial(Nodes, NodeEntry),
               points : Fin(Point), reserved : Fin(Nat), access : SUBSET Nodes]
      BY <2>5, <2>6, <2>7
  <2>9. /\ g.nets = N /\ g.nodes = D
        /\ g.points = r.points /\ g.access = r.access /\ g.reserved = r.reserved
      BY <2>5
  <2> HIDE DEF g
  <2>10. g \in Network
      BY <2>6, <2>7, <2>8, <2>9 DEF Network
  <2>12. /\ o \in Network /\ o.nodes = g.nodes /\ DOMAIN o.nets = DOMAIN g.nets
         /\ \A y \in DOMAIN g.nets : o.nets[y].subnet = g.nets[y].subnet
      BY <2>1, <2>10, GenerateFacts
  <2>13. \A z \in DOMAIN n.nets : o.nets[z].subnet = n.nets[z].subnet /\ o.nodes[z] = n.nodes[z]
      BY <2>6, <2>7, <2>9, <2>12
  <2>14. \A z \in DOMAIN o.nets \ DOMAIN n.nets : o.nodes[z] = [contract |-> 0, ips |-> {}]
      BY <2>6, <2>7, <2>9, <2>12 DEF d
  <2>15. Extends(n, o) /\ DOMAIN o.nets = DOMAIN n.nets \cup {x}
      BY <2>6, <2>9, <2>12, <2>13, <2>14 DEF Extends
  <2>16. o.nets[x].subnet = t
      BY <2>4, <2>6, <2>9, <2>12
  <2>17. Regenerated(o, n.points, n.access)
      BY <2>1, <2>3, <2>9, <2>10 DEF Regenerated
  <2>18. n.reserved \subseteq o.reserved /\ o.points = n.points
      BY <2>1, <2>3, <2>9, <2>10, GenerateFacts
  <2> QED BY <2>12, <2>15, <2>16, <2>17, <2>18 DEF t
<1> QED BY <1>1, <1>2

\* A node that comes to the network gets a subnet that no other has.
LEMMA AddNodeApart ==
    ASSUME NEW n \in Network, NEW x \in Nodes, NEW s \in Nat, NEW o \in AddNode(n, x, s),
           Apart(n), s # 0 => FreeOf(n, s) \/ x \in DOMAIN n.nets
    PROVE  Apart(o)
<1>1. /\ Extends(n, o) /\ DOMAIN o.nets = DOMAIN n.nets \cup {x}
      /\ x \notin DOMAIN n.nets => o.nets[x].subnet = IF s = 0 THEN FreeSubnet(n) ELSE s
    BY AddNodeFacts
<1>2. \A z \in DOMAIN n.nets : o.nets[z].subnet = n.nets[z].subnet
    BY <1>1 DEF Extends
<1>3. CASE x \in DOMAIN n.nets
    BY <1>1, <1>2, <1>3 DEF Apart
<1>4. CASE x \notin DOMAIN n.nets
  <2> DEFINE t == IF s = 0 THEN FreeSubnet(n) ELSE s
  <2>1. t # 0 /\ \A z \in DOMAIN n.nets : n.nets[z].subnet # t
      BY <1>4, FreeSubnetFacts DEF FreeOf
  <2>2. o.nets[x].subnet = t
      BY <1>1, <1>4
  <2> HIDE DEF t
  <2> QED BY <1>1, <1>2, <2>1, <2>2 DEF Apart
<1> QED BY <1>3, <1>4

\* An access point takes a subnet, which is nothing to the nodes.
LEMMA AddAccessFacts ==
    ASSUME NEW n \in Network, NEW x \in Nodes, NEW o \in AddAccess(n, x)
    PROVE  /\ o \in Network /\ Extends(n, o) /\ DOMAIN o.nets = DOMAIN n.nets
           /\ o.points = n.points \cup {[node |-> x, subnet |-> FreeSubnet(n)]}
           /\ Regenerated(o, o.points, n.access)
           /\ n.reserved \subseteq o.reserved
           /\ x \in AccessNodes
<1> DEFINE s == FreeSubnet(n)
           r == Reserve(n, s)
           g == [r EXCEPT !.points = @ \cup {[node |-> x, subnet |-> s]}]
<1>1. o \in GeneratePeers(g) /\ x \in AccessNodes
    BY DEF AddAccess
<1>2. s \in Nat /\ s = FreeSubnet(n)
    BY FreeSubnetFacts
<1> HIDE DEF s
<1>3. /\ r \in Network /\ r.nets = n.nets /\ r.nodes = n.nodes
      /\ r.points = n.points /\ r.access = n.access /\ n.reserved \subseteq r.reserved
    BY <1>2, ReserveFacts DEF Reserved
<1> HIDE DEF r
<1>4. /\ r.points \in Fin(Point) /\ r.reserved \in Fin(Nat) /\ r.access \in SUBSET Nodes
      /\ r.nets \in Partial(Nodes, NetEntry) /\ r.nodes \in Partial(Nodes, NodeEntry)
      /\ DOMAIN r.nets = DOMAIN r.nodes
      /\ r = [nets |-> r.nets, nodes |-> r.nodes, points |-> r.points,
              reserved |-> r.reserved, access |-> r.access]
    BY <1>3, NetworkFacts
<1>5. g = [nets |-> r.nets, nodes |-> r.nodes, points |-> r.points \cup {[node |-> x, subnet |-> s]},
           reserved |-> r.reserved, access |-> r.access]
    BY <1>4
<1>6. r.points \cup {[node |-> x, subnet |-> s]} \in Fin(Point)
  <2>1. [node |-> x, subnet |-> s] \in Point
      BY <1>2 DEF Point
  <2> QED BY <1>4, <2>1, FinFacts
<1> HIDE DEF g
<1>7. /\ g \in Network /\ g.nets = r.nets /\ g.nodes = r.nodes /\ g.reserved = r.reserved
      /\ g.points = r.points \cup {[node |-> x, subnet |-> s]} /\ g.access = r.access
    BY <1>4, <1>5, <1>6, NetworkIntro
<1>8. /\ o \in Network /\ o.nodes = g.nodes /\ DOMAIN o.nets = DOMAIN g.nets
      /\ \A y \in DOMAIN g.nets : o.nets[y].subnet = g.nets[y].subnet
    BY <1>1, <1>7, GenerateFacts
<1>9. o.points = g.points /\ o.reserved = g.reserved
    BY <1>1, <1>7, GenerateFacts
<1>10. Regenerated(o, o.points, n.access)
    BY <1>1, <1>3, <1>7, <1>9 DEF Regenerated
<1> QED BY <1>1, <1>2, <1>3, <1>7, <1>8, <1>9, <1>10 DEF Extends
-----------------------------------------------------------------------------
(***************************************************************************)
(* Routes: what the peers of the nodes are for.                            *)
(***************************************************************************)
Disjoint(P) == \A p, q \in P : p # q => p.allowed \cap q.allowed = {}

\* The subnets that are behind a node: of the access points at it, and of the
\* hidden nodes it relays for.
Behind(P) == {p.subnet : p \in {q \in P : ~q.endpoint}}

\* One peer of a node at most is for a subnet, and a subnet is behind one node,
\* which has an address.
Routed(nets) ==
    /\ \A x \in DOMAIN nets : Disjoint(nets[x].peers)
    /\ \A x, y \in DOMAIN nets : x # y => Behind(nets[x].peers) \cap Behind(nets[y].peers) = {}
    /\ \A x \in DOMAIN nets \ AccessNodes : Behind(nets[x].peers) = {}

\* Access points have a subnet of their own, and are at nodes with an address.
Pointed(P, nets) ==
    /\ \A p \in P : p.node \in AccessNodes /\ \A z \in DOMAIN nets : nets[z].subnet # p.subnet
    /\ \A p, q \in P : p.subnet = q.subnet => p = q

Wired(n) == Routed(n.nets) /\ Pointed(n.points, n.nets) /\ n.access \subseteq AccessNodes

\* A subnet that is reserved, and not for an access point.
Asked(n, s) == s \in n.reserved /\ \A p \in n.points : p.subnet # s

\* Access points and hidden nodes are behind one node.
LEMMA PointsApart ==
    ASSUME NEW n \in Network, Apart(n), Pointed(n.points, n.nets),
           NEW via \in [HiddenIn(n) -> AccessIn(n)], AccessIn(n) \subseteq AccessNodes
    PROVE  /\ \A x, y : x # y => PointsOf(n, via, x) \cap PointsOf(n, via, y) = {}
           /\ \A x, y : y \in DOMAIN n.nets \ Hidden => n.nets[y].subnet \notin PointsOf(n, via, x)
           /\ \A x : x \notin AccessNodes => PointsOf(n, via, x) = {}
<1>1. /\ DOMAIN via \subseteq DOMAIN n.nets \cap Hidden
      /\ \A h \in DOMAIN via : via[h] \in AccessNodes
    BY DEF HiddenIn
<1>2. \A x, s : s \in PointsOf(n, via, x) =>
        \/ \E p \in n.points : p.node = x /\ p.subnet = s
        \/ \E h \in DOMAIN via : via[h] = x /\ n.nets[h].subnet = s
    BY DEF PointsOf
<1>3. ASSUME NEW x, NEW y, NEW s \in PointsOf(n, via, x), s \in PointsOf(n, via, y)  PROVE x = y
  <2>1. CASE \E p \in n.points : p.node = x /\ p.subnet = s
    <3>1. ~ \E h \in DOMAIN via : via[h] = y /\ n.nets[h].subnet = s
        BY <1>1, <2>1 DEF Pointed
    <3>2. \E q \in n.points : q.node = y /\ q.subnet = s
        BY <1>2, <1>3, <3>1
    <3> QED BY <2>1, <3>2 DEF Pointed
  <2>2. CASE \E h \in DOMAIN via : via[h] = x /\ n.nets[h].subnet = s
    <3>1. ~ \E p \in n.points : p.node = y /\ p.subnet = s
        BY <1>1, <2>2 DEF Pointed
    <3>2. \E h \in DOMAIN via : via[h] = y /\ n.nets[h].subnet = s
        BY <1>2, <1>3, <3>1
    <3> QED BY <1>1, <2>2, <3>2 DEF Apart
  <2> QED BY <1>2, <1>3, <2>1, <2>2
<1>4. ASSUME NEW x, NEW y \in DOMAIN n.nets \ Hidden, n.nets[y].subnet \in PointsOf(n, via, x)
      PROVE  FALSE
    BY <1>1, <1>2, <1>4 DEF Apart, Pointed
<1>5. ASSUME NEW x, x \notin AccessNodes, NEW s \in PointsOf(n, via, x)  PROVE FALSE
    BY <1>1, <1>2, <1>5 DEF Pointed
<1> QED BY <1>3, <1>4, <1>5

\* What generatePeers gives to a node.
LEMMA PeerKinds ==
    ASSUME NEW n \in Network, NEW via, NEW x, NEW p \in Peers(n, via, x)
    PROVE  \/ \E y \in PeerNodes(n, via, x) :
                p = [subnet |-> n.nets[y].subnet, allowed |-> Allowed(n, via, x, y), endpoint |-> TRUE]
           \/ \E s \in PointsOf(n, via, x) : p = [subnet |-> s, allowed |-> {s}, endpoint |-> FALSE]
BY DEF Peers

LEMMA BehindNode ==
    ASSUME NEW n \in Network, NEW via, NEW x
    PROVE  Behind(Peers(n, via, x)) \subseteq PointsOf(n, via, x)
<1> SUFFICES ASSUME NEW p \in Peers(n, via, x), ~p.endpoint
             PROVE  p.subnet \in PointsOf(n, via, x)
    BY DEF Behind
<1>1. PICK s \in PointsOf(n, via, x) : p = [subnet |-> s, allowed |-> {s}, endpoint |-> FALSE]
    BY PeerKinds
<1> QED BY <1>1

LEMMA PeersApart ==
    ASSUME NEW n \in Network, Apart(n), Pointed(n.points, n.nets),
           NEW via \in [HiddenIn(n) -> AccessIn(n)], AccessIn(n) \subseteq AccessNodes,
           NEW x \in DOMAIN n.nets
    PROVE  Disjoint(Peers(n, via, x))
<1> DEFINE T(y) == [subnet |-> n.nets[y].subnet, allowed |-> Allowed(n, via, x, y), endpoint |-> TRUE]
           B(s) == [subnet |-> s, allowed |-> {s}, endpoint |-> FALSE]
<1>1. /\ \A y, z : y # z => PointsOf(n, via, y) \cap PointsOf(n, via, z) = {}
      /\ \A z, y : y \in DOMAIN n.nets \ Hidden => n.nets[y].subnet \notin PointsOf(n, via, z)
      /\ \A z : z \notin AccessNodes => PointsOf(n, via, z) = {}
    BY PointsApart
<1>2. ASSUME NEW p \in Peers(n, via, x)
      PROVE  (\E y \in PeerNodes(n, via, x) : p = T(y)) \/ (\E s \in PointsOf(n, via, x) : p = B(s))
    BY PeerKinds
<1>3. /\ \A y : T(y).allowed = Allowed(n, via, x, y)
      /\ \A s : B(s).allowed = {s}
    OBVIOUS
<1> HIDE DEF T, B
<1>4. PeerNodes(n, via, x) \subseteq DOMAIN n.nets \ (Hidden \cup {x})
    BY DEF PeerNodes
<1>5. CASE x \in DOMAIN via
  <2>1. PointsOf(n, via, x) = {}
      BY <1>1, <1>5, PeersAssumption DEF HiddenIn
  <2>2. \A y \in PeerNodes(n, via, x) : y = via[x]
      BY <1>5 DEF PeerNodes
  <2> QED BY <1>2, <2>1, <2>2 DEF Disjoint
<1>6. CASE x \notin DOMAIN via
  <2>1. \A y : Allowed(n, via, x, y) = {n.nets[y].subnet} \cup PointsOf(n, via, y)
      BY <1>6 DEF Allowed
  <2>2. ASSUME NEW y \in PeerNodes(n, via, x), NEW z \in PeerNodes(n, via, x), y # z
        PROVE  T(y).allowed \cap T(z).allowed = {}
    <3>1. n.nets[y].subnet # n.nets[z].subnet
        BY <1>4, <2>2 DEF Apart
    <3> QED BY <1>1, <1>3, <1>4, <2>1, <2>2, <3>1
  <2>3. ASSUME NEW y \in PeerNodes(n, via, x), NEW s \in PointsOf(n, via, x)
        PROVE  T(y).allowed \cap B(s).allowed = {}
      BY <1>1, <1>3, <1>4, <2>1, <2>3
  <2>4. ASSUME NEW s, NEW t, s # t  PROVE B(s).allowed \cap B(t).allowed = {}
      BY <1>3, <2>4
  <2>5. ASSUME NEW p \in Peers(n, via, x), NEW q \in Peers(n, via, x), p # q
        PROVE  p.allowed \cap q.allowed = {}
    <3>1. CASE \E y \in PeerNodes(n, via, x) : p = T(y)
      <4>1. PICK y \in PeerNodes(n, via, x) : p = T(y)
          BY <3>1
      <4> QED BY <1>2, <2>2, <2>3, <2>5, <4>1
    <3>2. CASE \E s \in PointsOf(n, via, x) : p = B(s)
      <4>1. PICK s \in PointsOf(n, via, x) : p = B(s)
          BY <3>2
      <4> QED BY <1>2, <2>3, <2>4, <2>5, <4>1
    <3> QED BY <1>2, <3>1, <3>2
  <2> QED BY <2>5 DEF Disjoint
<1> QED BY <1>5, <1>6

\* generatePeers makes routes, given access points with subnets of their own.
LEMMA GenerateWired ==
    ASSUME NEW o \in Network, NEW P, NEW A, Regenerated(o, P, A), A \subseteq AccessNodes,
           Apart(o), Pointed(P, o.nets)
    PROVE  Wired(o)
<1>1. PICK g \in Network : o \in GeneratePeers(g) /\ g.points = P /\ g.access = A
    BY DEF Regenerated
<1>2. PICK via \in [HiddenIn(g) -> AccessIn(g)] :
        o = [g EXCEPT !.access = IF HiddenIn(g) = {} THEN g.access ELSE AccessIn(g),
                      !.nets = [x \in DOMAIN g.nets |-> [subnet |-> g.nets[x].subnet,
                                                         peers |-> Peers(g, via, x)]]]
    BY <1>1 DEF GeneratePeers
<1>3. AccessIn(g) \subseteq AccessNodes
    BY <1>1 DEF AccessIn
<1>4. /\ DOMAIN o.nets = DOMAIN g.nets /\ o.points = P
      /\ \A x \in DOMAIN g.nets : o.nets[x].subnet = g.nets[x].subnet
    BY <1>1, GenerateFacts
<1>5. \A x \in DOMAIN g.nets : o.nets[x].peers = Peers(g, via, x)
    BY <1>2 DEF Network
<1>6. o.access \subseteq AccessNodes
    BY <1>1, <1>2, <1>3 DEF Network
<1>7. Apart(g) /\ Pointed(g.points, g.nets)
    BY <1>1, <1>4 DEF Apart, Pointed
<1>8. \A x \in DOMAIN g.nets : Disjoint(Peers(g, via, x))
    BY <1>3, <1>7, PeersApart
<1>9. \A x : Behind(Peers(g, via, x)) \subseteq PointsOf(g, via, x)
    BY BehindNode
<1>10. /\ \A x, y : x # y => PointsOf(g, via, x) \cap PointsOf(g, via, y) = {}
       /\ \A x : x \notin AccessNodes => PointsOf(g, via, x) = {}
    BY <1>3, <1>7, PointsApart
<1>11. Routed(o.nets)
    BY <1>4, <1>5, <1>8, <1>9, <1>10 DEF Routed
<1> QED BY <1>4, <1>6, <1>11 DEF Wired

\* A point, or a node, that gets a subnet which is not reserved.
LEMMA FreeOfPoints ==
    ASSUME NEW n \in Network
    PROVE  /\ \A p \in n.points : p.subnet # FreeSubnet(n)
           /\ \A s \in n.reserved : s # FreeSubnet(n)
BY FreeSubnetFacts DEF Reserved

LEMMA AddNodeWired ==
    ASSUME NEW n \in Network, NEW x \in Nodes, NEW s \in Nat, NEW o \in AddNode(n, x, s),
           Apart(n), Wired(n), s # 0 => (FreeOf(n, s) /\ Asked(n, s)) \/ x \in DOMAIN n.nets
    PROVE  Wired(o)
<1>1. CASE x \in DOMAIN n.nets
    BY <1>1 DEF AddNode
<1>2. CASE x \notin DOMAIN n.nets
  <2> DEFINE t == IF s = 0 THEN FreeSubnet(n) ELSE s
  <2>1. /\ o \in Network /\ Extends(n, o) /\ DOMAIN o.nets = DOMAIN n.nets \cup {x}
        /\ o.nets[x].subnet = t /\ Regenerated(o, n.points, n.access)
      BY <1>2, AddNodeFacts
  <2>2. \A p \in n.points : p.subnet # t
      BY <1>2, FreeOfPoints DEF Asked
  <2> HIDE DEF t
  <2>3. \A z \in DOMAIN n.nets : o.nets[z].subnet = n.nets[z].subnet
      BY <2>1 DEF Extends
  <2>4. Pointed(n.points, o.nets)
    <3>1. Pointed(n.points, n.nets)
        BY DEF Wired
    <3> QED BY <2>1, <2>2, <2>3, <3>1 DEF Pointed
  <2>5. Apart(o)
      BY AddNodeApart
  <2>6. n.access \subseteq AccessNodes
      BY DEF Wired
  <2> QED BY <2>1, <2>4, <2>5, <2>6, GenerateWired
<1> QED BY <1>1, <1>2

LEMMA AddAccessWired ==
    ASSUME NEW n \in Network, NEW x \in Nodes, NEW o \in AddAccess(n, x), Apart(n), Wired(n)
    PROVE  Wired(o)
<1>1. /\ o \in Network /\ Extends(n, o) /\ DOMAIN o.nets = DOMAIN n.nets
      /\ o.points = n.points \cup {[node |-> x, subnet |-> FreeSubnet(n)]}
      /\ Regenerated(o, o.points, n.access)
      /\ x \in AccessNodes
    BY AddAccessFacts
<1>2. \A z \in DOMAIN n.nets : o.nets[z].subnet = n.nets[z].subnet
    BY <1>1 DEF Extends
<1>3. PICK s : s = FreeSubnet(n)
    OBVIOUS
<1>4. (\A p \in n.points : p.subnet # s) /\ (\A z \in DOMAIN n.nets : n.nets[z].subnet # s)
    BY <1>3, FreeOfPoints, FreeSubnetFacts
<1>5. Pointed(n.points, n.nets) /\ n.access \subseteq AccessNodes
    BY DEF Wired
<1>6. PICK a : a = [node |-> x, subnet |-> s]
    OBVIOUS
<1>7. a.node = x /\ a.subnet = s /\ o.points = n.points \cup {a} /\ x \in AccessNodes
    BY <1>1, <1>3, <1>6
<1>8. Pointed(o.points, o.nets)
    BY <1>1, <1>2, <1>4, <1>5, <1>7 DEF Pointed
<1>9. Apart(o)
    BY <1>1, <1>2 DEF Apart
<1> QED BY <1>1, <1>5, <1>8, <1>9, GenerateWired

\* What was asked for stays so.
LEMMA AskedStays ==
    ASSUME NEW n \in Network, NEW x \in Nodes, NEW s, Asked(n, s)
    PROVE  /\ \A t \in Nat : \A o \in AddNode(n, x, t) : Asked(o, s)
           /\ \A o \in AddAccess(n, x) : Asked(o, s)
<1>1. ASSUME NEW t \in Nat, NEW o \in AddNode(n, x, t)  PROVE Asked(o, s)
    BY AddNodeFacts DEF Asked
<1>2. ASSUME NEW o \in AddAccess(n, x)  PROVE Asked(o, s)
  <2>1. /\ o.points = n.points \cup {[node |-> x, subnet |-> FreeSubnet(n)]}
        /\ n.reserved \subseteq o.reserved
      BY AddAccessFacts
  <2>2. FreeSubnet(n) # s
      BY FreeOfPoints DEF Asked
  <2> QED BY <2>1, <2>2 DEF Asked
<1> QED BY <1>1, <1>2

\* What load() makes of the peers on the chain.
LEMMA LoadedWired ==
    ASSUME NEW n, Routed(n.nets), n.points = AccessPoints(n.nets), n.access = {}
    PROVE  Wired(n)
<1>1. ASSUME NEW p \in n.points
      PROVE  /\ p.node \in DOMAIN n.nets /\ p.subnet \in Behind(n.nets[p.node].peers)
             /\ p = [node |-> p.node, subnet |-> p.subnet]
             /\ \A z \in DOMAIN n.nets : n.nets[z].subnet # p.subnet
  <2>1. PICK x \in DOMAIN n.nets : \E q \in n.nets[x].peers :
          /\ ~q.endpoint /\ q.subnet \notin SubnetsOf(n.nets)
          /\ p = [node |-> x, subnet |-> q.subnet]
      BY DEF AccessPoints
  <2>2. PICK q \in n.nets[x].peers : /\ ~q.endpoint /\ q.subnet \notin SubnetsOf(n.nets)
                                     /\ p = [node |-> x, subnet |-> q.subnet]
      BY <2>1
  <2>3. p.node = x /\ p.subnet = q.subnet
      BY <2>2
  <2> QED BY <2>2, <2>3 DEF Behind, SubnetsOf
<1>2. \A p \in n.points : p.node \in AccessNodes
    BY <1>1 DEF Routed
<1>3. ASSUME NEW p \in n.points, NEW q \in n.points, p.subnet = q.subnet  PROVE p = q
  <2>1. p.node = q.node
      BY <1>1, <1>3 DEF Routed
  <2> QED BY <1>1, <1>3, <2>1
<1> QED BY <1>1, <1>2, <1>3 DEF Wired, Pointed

-----------------------------------------------------------------------------
(***************************************************************************)
(* Addresses, deleteNode.                                                  *)
(***************************************************************************)
\* The Network object n with the addresses ips at the node x.
WithIps(n, x, ips) == [n EXCEPT !.nodes[x].ips = ips]

LEMMA AddressesChanged ==
    ASSUME NEW n \in Network, NEW x \in DOMAIN n.nets, NEW ips \in Fin(Address),
           NEW o, o = WithIps(n, x, ips)
    PROVE  /\ o \in Network /\ o.nets = n.nets /\ o.points = n.points /\ o.access = n.access
           /\ \A z \in DOMAIN n.nets \ {x} : o.nodes[z] = n.nodes[z]
           /\ o.nodes[x].contract = n.nodes[x].contract /\ o.nodes[x].ips = ips
           /\ DOMAIN o.nodes = DOMAIN n.nodes
<1> DEFINE e == [n.nodes[x] EXCEPT !.ips = ips]
           D == [n.nodes EXCEPT ![x] = e]
<1>1. n.nodes \in Partial(Nodes, NodeEntry) /\ DOMAIN n.nodes = DOMAIN n.nets /\ n.nodes[x] \in NodeEntry
    BY NetworkFacts
<1>2. e \in NodeEntry /\ e.contract = n.nodes[x].contract /\ e.ips = ips
    BY <1>1 DEF NodeEntry
<1> HIDE DEF e
<1>3. n.nodes \in [DOMAIN n.nets -> NodeEntry] /\ DOMAIN n.nets \in SUBSET Nodes
    BY <1>1, PartialFacts
<1>4. /\ D \in [DOMAIN n.nets -> NodeEntry]
      /\ D[x] = e /\ \A z \in DOMAIN n.nets \ {x} : D[z] = n.nodes[z]
    BY <1>2, <1>3
<1> HIDE DEF D
<1>5. D \in Partial(Nodes, NodeEntry) /\ DOMAIN D = DOMAIN n.nets
    BY <1>3, <1>4, PartialIntro
<1>6. o = [n EXCEPT !.nodes = D]
    BY DEF D, e, WithIps
<1>7. /\ o \in [nets : Partial(Nodes, NetEntry), nodes : Partial(Nodes, NodeEntry),
                points : Fin(Point), reserved : Fin(Nat), access : SUBSET Nodes]
      /\ o.nodes = D /\ o.nets = n.nets /\ o.points = n.points /\ o.access = n.access
    BY <1>5, <1>6 DEF Network
<1>8. o \in Network
    BY <1>5, <1>7 DEF Network
<1>9. o.nodes[x].contract = n.nodes[x].contract /\ o.nodes[x].ips = ips
    BY <1>2, <1>4, <1>7
<1> QED BY <1>1, <1>4, <1>5, <1>7, <1>8, <1>9

LEMMA ReserveIpFacts ==
    ASSUME NEW n \in Network, NEW x \in DOMAIN n.nets, NEW ip \in Address,
           NEW o, o = ReserveIp(n, x, ip)
    PROVE  /\ o \in Network /\ o.nets = n.nets /\ o.points = n.points /\ o.access = n.access
           /\ \A z \in DOMAIN n.nets \ {x} : o.nodes[z] = n.nodes[z]
           /\ o.nodes[x].contract = n.nodes[x].contract
           /\ o.nodes[x].ips = n.nodes[x].ips \cup {ip}
<1> DEFINE ips == n.nodes[x].ips \cup {ip}
<1>1. ips \in Fin(Address)
    BY NetworkFacts, FinFacts
<1>2. o = WithIps(n, x, ips)
    BY DEF ReserveIp, WithIps
<1> HIDE DEF ips
<1>3. /\ o \in Network /\ o.nets = n.nets /\ o.points = n.points /\ o.access = n.access
      /\ \A z \in DOMAIN n.nets \ {x} : o.nodes[z] = n.nodes[z]
      /\ o.nodes[x].contract = n.nodes[x].contract /\ o.nodes[x].ips = ips
    BY <1>1, <1>2, AddressesChanged
<1> QED BY <1>3 DEF ips

\* Addresses are given back; nothing happens when the node is not there.
WithoutIps(n, x, S) == IF x \in DOMAIN n.nodes THEN [n EXCEPT !.nodes[x].ips = @ \ S] ELSE n

LEMMA WithoutIpsFacts ==
    ASSUME NEW n \in Network, NEW x, NEW S, NEW o, o = WithoutIps(n, x, S)
    PROVE  /\ o \in Network /\ o.nets = n.nets /\ o.points = n.points
           /\ DOMAIN o.nodes = DOMAIN n.nodes
           /\ \A z \in DOMAIN n.nets : /\ z # x => o.nodes[z] = n.nodes[z]
                                       /\ o.nodes[z].contract = n.nodes[z].contract
           /\ x \in DOMAIN n.nets => o.nodes[x].ips = n.nodes[x].ips \ S
<1>1. DOMAIN n.nodes = DOMAIN n.nets
    BY NetworkFacts
<1>2. CASE x \in DOMAIN n.nodes
  <2> DEFINE ips == n.nodes[x].ips \ S
  <2>1. x \in DOMAIN n.nets
      BY <1>1, <1>2
  <2>2. ips \in Fin(Address)
      BY <2>1, NetworkFacts, FinFacts
  <2>3. o = WithIps(n, x, ips)
      BY <1>2 DEF WithoutIps, WithIps
  <2> HIDE DEF ips
  <2>4. /\ o \in Network /\ o.nets = n.nets /\ o.points = n.points
        /\ \A z \in DOMAIN n.nets \ {x} : o.nodes[z] = n.nodes[z]
        /\ o.nodes[x].contract = n.nodes[x].contract /\ o.nodes[x].ips = ips
        /\ DOMAIN o.nodes = DOMAIN n.nodes
      BY <2>1, <2>2, <2>3, AddressesChanged
  <2> QED BY <2>1, <2>4 DEF ips
<1>3. CASE x \notin DOMAIN n.nodes
    BY <1>1, <1>3 DEF WithoutIps
<1> QED BY <1>2, <1>3

LEMMA FreeReservedIpFacts ==
    ASSUME NEW n \in Network, NEW x, NEW ip, NEW o, o = FreeReservedIp(n, x, ip)
    PROVE  /\ o \in Network /\ o.nets = n.nets /\ o.points = n.points
           /\ DOMAIN o.nodes = DOMAIN n.nodes
           /\ \A z \in DOMAIN n.nets : /\ z # x => o.nodes[z] = n.nodes[z]
                                       /\ o.nodes[z].contract = n.nodes[z].contract
           /\ x \in DOMAIN n.nets => o.nodes[x].ips = n.nodes[x].ips \ {ip}
<1> DEFINE S == {ip}
<1>1. o = WithoutIps(n, x, S)
    BY DEF FreeReservedIp, WithoutIps
<1> HIDE DEF S
<1>2. /\ o \in Network /\ o.nets = n.nets /\ o.points = n.points
      /\ DOMAIN o.nodes = DOMAIN n.nodes
      /\ \A z \in DOMAIN n.nets : /\ z # x => o.nodes[z] = n.nodes[z]
                                  /\ o.nodes[z].contract = n.nodes[z].contract
      /\ x \in DOMAIN n.nets => o.nodes[x].ips = n.nodes[x].ips \ S
    BY <1>1, WithoutIpsFacts
<1> QED BY <1>2 DEF S

\* An address that is given out, or that was asked for and found free, is of
\* the node's subnet and was not taken.
LEMMA IpChoicesFacts ==
    ASSUME NEW n \in Network, NEW x \in DOMAIN n.nets, NEW wanted \in Address,
           NEW ip \in IpChoices(n, x, wanted)
    PROVE  ip \in Address /\ ip.subnet = n.nets[x].subnet /\ ip \notin n.nodes[x].ips
<1>1. /\ n.nets[x].subnet \in Nat /\ n.nodes[x].ips \in Fin(Address)
      /\ Ips(n, x) = n.nodes[x].ips
    BY NetworkFacts DEF Ips
<1>2. CASE wanted.subnet = 0
  <2> DEFINE I == {j \in n.nodes[x].ips : j.subnet = n.nets[x].subnet}
             f == [j \in I |-> j.host]
             H == {i.host : i \in I}
             h == LeastFree(H)
  <2>1. ip = [subnet |-> n.nets[x].subnet, host |-> h]
      BY <1>1, <1>2 DEF IpChoices, FreeIp
  <2>2. IsFiniteSet(I)
    <3>1. I \in SUBSET n.nodes[x].ips /\ IsFiniteSet(n.nodes[x].ips)
        BY <1>1 DEF Fin
    <3> HIDE DEF I
    <3> QED BY <3>1, FS_Subset
  <2>3. IsFiniteSet({f[j] : j \in I})
    <3> HIDE DEF I
    <3> QED BY <2>2, FiniteRange
  <2>4. H = {f[j] : j \in I}
      OBVIOUS
  <2> HIDE DEF f, I, H
  <2>5. h \in Nat /\ h \notin H
      BY <2>3, <2>4, LeastFreeFacts
  <2> HIDE DEF h
  <2>6. ip \in Address /\ ip.subnet = n.nets[x].subnet /\ ip.host = h
      BY <1>1, <2>1, <2>5 DEF Address
  <2>7. ip \notin n.nodes[x].ips
      BY <2>5, <2>6 DEF H, I
  <2> QED BY <2>6, <2>7
<1>3. CASE wanted.subnet # 0
    BY <1>1, <1>3 DEF IpChoices
<1> QED BY <1>2, <1>3

LEMMA DeleteNodeFacts ==
    ASSUME NEW n \in Network, NEW x, NEW o, o = DeleteNode(n, x)
    PROVE  /\ o \in Network /\ DOMAIN o.nets = DOMAIN n.nets \ {x}
           /\ DOMAIN o.nodes = DOMAIN n.nets \ {x}
           /\ \A z \in DOMAIN o.nets : o.nets[z] = n.nets[z] /\ o.nodes[z] = n.nodes[z]
<1> DEFINE N == Except(n.nets, {x})
           D == Except(n.nodes, {x})
<1>1. /\ n.nets \in Partial(Nodes, NetEntry) /\ n.nodes \in Partial(Nodes, NodeEntry)
      /\ DOMAIN n.nodes = DOMAIN n.nets
    BY NetworkFacts
<1>2. /\ N \in Partial(Nodes, NetEntry) /\ DOMAIN N = DOMAIN n.nets \ {x}
      /\ \A z \in DOMAIN N : N[z] = n.nets[z]
  <2>1. N \in Partial(Nodes, NetEntry)
      BY <1>1, PartialExcept
  <2> QED BY <2>1 DEF Except
<1>3. /\ D \in Partial(Nodes, NodeEntry) /\ DOMAIN D = DOMAIN n.nets \ {x}
      /\ \A z \in DOMAIN D : D[z] = n.nodes[z]
  <2>1. D \in Partial(Nodes, NodeEntry)
      BY <1>1, PartialExcept
  <2> QED BY <1>1, <2>1 DEF Except
<1>4. o = [n EXCEPT !.nets = N, !.nodes = D]
    BY DEF DeleteNode
<1> HIDE DEF N, D
<1>5. /\ o \in [nets : Partial(Nodes, NetEntry), nodes : Partial(Nodes, NodeEntry),
                points : Fin(Point), reserved : Fin(Nat), access : SUBSET Nodes]
      /\ o.nodes = D /\ o.nets = N
    BY <1>2, <1>3, <1>4 DEF Network
<1>6. o \in Network
    BY <1>2, <1>3, <1>5 DEF Network
<1> QED BY <1>2, <1>3, <1>5, <1>6
-----------------------------------------------------------------------------
(***************************************************************************)
(* The types of PrivateNetwork.                                            *)
(***************************************************************************)
Machine == [name : Machines, ip : Address]
ContractEntry == [state : {"free", "created", "deleted"}, name : Names \cup {""},
                  node : Nodes \cup {0}, subnet : Nat, peers : Fin(Peer), machines : Fin(Machine)]
InfoEntry == [contract : Ids, ips : Fin(Address)]
CreateEntry == [net : BOOLEAN, machines : Fin(Machine)]
Batch == [create : Partial(Nodes, CreateEntry), touch : BOOLEAN, delete : SUBSET Nat,
          strip : SUBSET Nat, id : Nat, rest : Fin(Machine), subnet : Nat,
          ips : SUBSET Address, left : BOOLEAN]
Labels == {"idle", "load", "loadSave", "build", "remove", "rest", "free", "handle", "save"}

\* Which steps a request takes, what it has to do in them, and that what is
\* created is on nodes of the network.
Stage(p, r, n, t, b) ==
    /\ p \in {"remove", "rest", "free"} => r.op = "delete"
    /\ p = "build" => r.op # "delete"
    /\ t \in IF r.op = "delete" THEN Seq(Machine) ELSE Seq(Item)
    /\ p = "remove" => t # <<>>
    /\ (p \notin {"build", "handle", "save"} \/ r.op = "delete") => DOMAIN b.create = {}
    /\ DOMAIN b.create \subseteq DOMAIN n.nets
    /\ \A z \in DOMAIN n.nets : n.nodes[z].contract <= MaxId

TypeInv ==
    /\ contract \in [Ids -> ContractEntry]
    /\ info \in Partial(Nodes, InfoEntry)
    /\ pc \in [Calls -> Labels]
    /\ call \in [Calls -> Request \cup {NoRequest}]
    /\ net \in [Calls -> Network]
    /\ stored \in [Calls -> Partial(Ids, Fin(Machine))]
    /\ todo \in [Calls -> Seq(Machine) \cup Seq(Item)]
    /\ batch \in [Calls -> Batch]
    /\ stale \in SUBSET Calls
    /\ clean \in BOOLEAN
    /\ \A c \in Calls : Stage(pc[c], call[c], net[c], todo[c], batch[c])

USE NetworkAssumption, PeersAssumption
-----------------------------------------------------------------------------
(***************************************************************************)
(* VMHL.create: one machine.                                               *)
(***************************************************************************)
\* Of an address that is asked for the subnet is free, and so is the subnet for
\* an access node, which is another.
LEMMA SubnetsFacts ==
    ASSUME NEW at, at.net \in Network, NEW ip \in Address, NEW s \in Subnets(at, ip)
    PROVE  /\ s.net \in Network /\ Extends(at.net, s.net) /\ DOMAIN s.net.nets = DOMAIN at.net.nets
           /\ Apart(at.net) => Apart(s.net)
           /\ Wired(at.net) => Wired(s.net)
           /\ s.access \in Nat
           /\ s.access # 0 => FreeOf(s.net, s.access) /\ s.access # ip.subnet
           /\ ip.subnet # 0 => FreeOf(s.net, ip.subnet) /\ s.access # 0
           /\ s.access # 0 => Asked(s.net, s.access)
           /\ ip.subnet # 0 => Asked(s.net, ip.subnet)
<1>1. CASE ip.subnet = 0
  <2>1. s = [net |-> at.net, access |-> 0]
      BY <1>1 DEF Subnets
  <2>2. s.net = at.net /\ s.access = 0
      BY <2>1
  <2> QED BY <1>1, <2>2 DEF Extends
<1>2. CASE ip.subnet # 0
  <2> DEFINE n == Reserve(at.net, ip.subnet)
             f == FreeSubnet(n)
  <2>1. s = [net |-> Reserve(n, f), access |-> f] /\ ip.subnet \notin Reserved(at.net)
      BY <1>2 DEF Subnets
  <2>2. s.net = Reserve(n, f) /\ s.access = f
      BY <2>1
  <2>3. ip.subnet \in Nat
      BY DEF Address
  <2>4. /\ n \in Network /\ n.nets = at.net.nets /\ n.nodes = at.net.nodes
        /\ n.reserved = Reserved(at.net) \cup {ip.subnet}
        /\ n.points = at.net.points /\ n.access = at.net.access
      BY <2>3, ReserveFacts
  <2> HIDE DEF n
  <2>5. /\ f \in Nat /\ f # 0 /\ f \notin Reserved(n)
        /\ \A x \in DOMAIN n.nets : n.nets[x].subnet # f
      BY <2>4, FreeSubnetFacts
  <2>6. f # ip.subnet
      BY <2>4, <2>5 DEF Reserved
  <2> HIDE DEF f
  <2>7. /\ s.net \in Network /\ s.net.nets = n.nets /\ s.net.nodes = n.nodes
        /\ s.net.points = n.points /\ s.net.access = n.access
        /\ s.net.reserved = Reserved(n) \cup {f}
      BY <2>2, <2>4, <2>5, ReserveFacts
  <2>8. FreeOf(s.net, ip.subnet)
      BY <2>1, <2>4, <2>7, ReservedFacts DEF FreeOf
  <2>9. Apart(at.net) => Apart(s.net)
      BY <2>4, <2>7 DEF Apart
  <2>10. Wired(at.net) => Wired(s.net)
      BY <2>4, <2>7 DEF Wired
  <2>11. Asked(s.net, ip.subnet)
      BY <2>1, <2>4, <2>7 DEF Asked, Reserved
  <2>12. Asked(s.net, f)
      BY <2>5, <2>7 DEF Asked, Reserved
  <2> QED BY <2>2, <2>4, <2>5, <2>6, <2>7, <2>8, <2>9, <2>10, <2>11, <2>12 DEF FreeOf, Extends
<1> QED BY <1>1, <1>2

\* An access node comes to a network that has none, with an access point.
LEMMA WithAccessNodeFacts ==
    ASSUME NEW n \in Network, NEW s \in Nat, NEW w \in WithAccessNode(n, s),
           AccessNodes \cap DOMAIN n.nets = {}
    PROVE  /\ w.net \in Network /\ Extends(n, w.net)
           /\ w.node \in AccessNodes /\ w.node \notin DOMAIN n.nets
           /\ DOMAIN w.net.nets = DOMAIN n.nets \cup {w.node}
           /\ Apart(n) /\ (s # 0 => FreeOf(n, s)) => Apart(w.net)
           /\ \A k \in Nat : s # 0 /\ k # s /\ FreeOf(n, k) => FreeOf(w.net, k)
           /\ Apart(n) /\ Wired(n) /\ (s # 0 => FreeOf(n, s) /\ Asked(n, s)) => Wired(w.net)
           /\ \A k : Asked(n, k) => Asked(w.net, k)
<1>10. PICK y \in AccessNodes : \E l \in AddNode(n, y, s) : \E k \in AddAccess(l, y) : w = [net |-> k, node |-> y]
    BY DEF WithAccessNode
<1>11. PICK n1 \in AddNode(n, y, s) : \E k \in AddAccess(n1, y) : w = [net |-> k, node |-> y]
    BY <1>10
<1>1. PICK n2 \in AddAccess(n1, y) : w = [net |-> n2, node |-> y]
    BY <1>11
<1>2. w.net = n2 /\ w.node = y
    BY <1>1
<1>3. y \in Nodes /\ y \notin DOMAIN n.nets
    OBVIOUS
<1>4. /\ n1 \in Network /\ Extends(n, n1) /\ DOMAIN n1.nets = DOMAIN n.nets \cup {y}
      /\ n1.nets[y].subnet = IF s = 0 THEN FreeSubnet(n) ELSE s
    BY <1>3, AddNodeFacts
<1>5. n2 \in Network /\ Extends(n1, n2) /\ DOMAIN n2.nets = DOMAIN n1.nets
    BY <1>3, <1>4, AddAccessFacts
<1>6. Extends(n, n2)
    BY <1>4, <1>5, ExtendsTransitive
<1>7. \A z \in DOMAIN n1.nets : n2.nets[z].subnet = n1.nets[z].subnet
    BY <1>5 DEF Extends
<1>8. ASSUME Apart(n), s # 0 => FreeOf(n, s)  PROVE Apart(n2)
  <2>1. Apart(n1)
      BY <1>3, <1>8, AddNodeApart
  <2> QED BY <1>5, <1>7, <2>1 DEF Apart
<1>9. ASSUME NEW k \in Nat, s # 0, k # s, FreeOf(n, k)  PROVE FreeOf(n2, k)
  <2>1. \A z \in DOMAIN n.nets : n1.nets[z].subnet = n.nets[z].subnet
      BY <1>4 DEF Extends
  <2> QED BY <1>4, <1>5, <1>7, <1>9, <2>1 DEF FreeOf
<1>12. ASSUME Apart(n), Wired(n), s # 0 => FreeOf(n, s) /\ Asked(n, s)  PROVE Wired(n2)
  <2>1. Apart(n1) /\ Wired(n1)
      BY <1>3, <1>12, AddNodeApart, AddNodeWired
  <2> QED BY <1>3, <1>4, <2>1, AddAccessWired
<1>13. ASSUME NEW k, Asked(n, k)  PROVE Asked(n2, k)
  <2>1. Asked(n1, k)
      BY <1>3, <1>13, AskedStays
  <2> QED BY <1>3, <1>4, <2>1, AskedStays
<1> QED BY <1>2, <1>3, <1>4, <1>5, <1>6, <1>8, <1>9, <1>12, <1>13

\* The batch after a machine m on x whose creation has brought the nodes new.
GrownBatch(b, new, x, m) ==
    LET nets == [y \in DOMAIN b.create \cup new |->
                   [Deployment(b, y) EXCEPT !.net = @ \/ y \in new]]
    IN WithMachine([b EXCEPT !.create = nets, !.touch = @ \/ (Exists /\ new # {})], x, m)

\* A Network object g that has x, and the nodes new more than n: x and an access
\* node at most.
GrownBy(n, g, new, x) ==
    /\ g \in Network /\ Extends(n, g)
    /\ new \subseteq Nodes /\ new \cap DOMAIN n.nets = {}
    /\ DOMAIN g.nets = DOMAIN n.nets \cup new
    /\ x \in DOMAIN g.nets /\ new \subseteq {x} \cup AccessNodes
    /\ Apart(n) => Apart(g)
    /\ Apart(n) /\ Wired(n) => Wired(g)

\* An outcome: the Network object with new nodes, in which the machine has
\* reserved an address that was free, and the batch with them.
Outcome(at, i, o, g, new, ip) ==
    /\ GrownBy(at.net, g, new, i.node)
    /\ ip \in IpChoices(g, i.node, i.ip)
    /\ o.net = ReserveIp(g, i.node, ip)
    /\ o.batch = GrownBatch(at.batch, new, i.node, [name |-> i.machine, ip |-> ip])

\* Every outcome of creating a machine is one.
LEMMA CreateOnFacts ==
    ASSUME NEW at, at.net \in Network, NEW i \in Item, NEW access, NEW o \in CreateOn(at, i, access)
    PROVE  \E g, new, ip : Outcome(at, i, o, g, new, ip)
<1> DEFINE x == i.node
           hasAccess == access /\ AccessNodes \cap DOMAIN at.net.nets # {}
           relay == access /\ ~hasAccess /\ x \notin AccessNodes
           Starts == UNION {IF relay
                            THEN {[net |-> n.net, nodes |-> {n.node}] : n \in WithAccessNode(s.net, s.access)}
                            ELSE {[net |-> s.net, nodes |-> {}]} : s \in Subnets(at, i.ip)}
           Grown == UNION {{[net |-> n, nodes |-> s.nodes \cup ({x} \ DOMAIN s.net.nets)] :
                              n \in AddNode(s.net, x, i.ip.subnet)} : s \in Starts}
           Opened == UNION {IF ~Exists /\ x \in g.nodes /\ access /\ ~hasAccess /\ ~relay
                            THEN {[g EXCEPT !.net = n] : n \in AddAccess(g.net, x)}
                            ELSE {g} : g \in Grown}
           m(ip) == [name |-> i.machine, ip |-> ip]
<1>1. o \in UNION {{[net |-> ReserveIp(g.net, x, ip),
                     batch |-> GrownBatch(at.batch, g.nodes, x, m(ip))] :
                       ip \in IpChoices(g.net, x, i.ip)} : g \in Opened}
    BY DEF CreateOn, GrownBatch
<1>2. PICK g \in Opened : \E ip \in IpChoices(g.net, x, i.ip) :
        o = [net |-> ReserveIp(g.net, x, ip), batch |-> GrownBatch(at.batch, g.nodes, x, m(ip))]
    BY <1>1
<1>3. PICK ip \in IpChoices(g.net, x, i.ip) :
        o = [net |-> ReserveIp(g.net, x, ip), batch |-> GrownBatch(at.batch, g.nodes, x, m(ip))]
    BY <1>2
<1>4. PICK h \in Grown : g = h \/ \E n \in AddAccess(h.net, x) : g = [h EXCEPT !.net = n]
  <2> HIDE DEF Grown
  <2> QED OBVIOUS
<1>5. PICK s \in Starts : \E n \in AddNode(s.net, x, i.ip.subnet) :
        h = [net |-> n, nodes |-> s.nodes \cup ({x} \ DOMAIN s.net.nets)]
  <2> HIDE DEF Starts
  <2> QED OBVIOUS
<1>6. PICK n1 \in AddNode(s.net, x, i.ip.subnet) :
        h = [net |-> n1, nodes |-> s.nodes \cup ({x} \ DOMAIN s.net.nets)]
    BY <1>5
<1>7. PICK t \in Subnets(at, i.ip) :
        \/ relay /\ \E w \in WithAccessNode(t.net, t.access) : s = [net |-> w.net, nodes |-> {w.node}]
        \/ ~relay /\ s = [net |-> t.net, nodes |-> {}]
  <2> HIDE DEF relay
  <2> QED OBVIOUS
<1> HIDE DEF Starts, Grown, Opened
<1>8. i.node \in Nodes /\ i.ip \in Address /\ i.ip.subnet \in Nat
    BY DEF Item, Address
<1>9. /\ t.net \in Network /\ Extends(at.net, t.net) /\ DOMAIN t.net.nets = DOMAIN at.net.nets
      /\ Apart(at.net) => Apart(t.net)
      /\ Wired(at.net) => Wired(t.net)
      /\ t.access \in Nat
      /\ t.access # 0 => FreeOf(t.net, t.access) /\ t.access # i.ip.subnet
      /\ i.ip.subnet # 0 => FreeOf(t.net, i.ip.subnet) /\ t.access # 0
      /\ t.access # 0 => Asked(t.net, t.access)
      /\ i.ip.subnet # 0 => Asked(t.net, i.ip.subnet)
    BY <1>8, SubnetsFacts
<1>10. /\ s.net \in Network /\ Extends(at.net, s.net)
       /\ s.nodes \subseteq Nodes /\ s.nodes \cap DOMAIN at.net.nets = {}
       /\ s.nodes \subseteq AccessNodes
       /\ DOMAIN s.net.nets = DOMAIN at.net.nets \cup s.nodes
       /\ x \notin s.nodes
       /\ Apart(at.net) => Apart(s.net)
       /\ Apart(at.net) /\ Wired(at.net) => Wired(s.net)
       /\ i.ip.subnet # 0 => FreeOf(s.net, i.ip.subnet) /\ Asked(s.net, i.ip.subnet)
  <2>1. CASE relay
    <3>1. PICK w \in WithAccessNode(t.net, t.access) : s = [net |-> w.net, nodes |-> {w.node}]
        BY <1>7, <2>1
    <3>2. s.net = w.net /\ s.nodes = {w.node}
        BY <3>1
    <3>3. AccessNodes \cap DOMAIN t.net.nets = {} /\ x \notin AccessNodes
        BY <1>9, <2>1
    <3>4. /\ w.net \in Network /\ Extends(t.net, w.net)
          /\ w.node \in AccessNodes /\ w.node \notin DOMAIN t.net.nets
          /\ DOMAIN w.net.nets = DOMAIN t.net.nets \cup {w.node}
          /\ Apart(t.net) /\ (t.access # 0 => FreeOf(t.net, t.access)) => Apart(w.net)
          /\ \A k \in Nat : t.access # 0 /\ k # t.access /\ FreeOf(t.net, k) => FreeOf(w.net, k)
          /\ Apart(t.net) /\ Wired(t.net) /\ (t.access # 0 => FreeOf(t.net, t.access) /\ Asked(t.net, t.access))
               => Wired(w.net)
          /\ \A k : Asked(t.net, k) => Asked(w.net, k)
        BY <1>9, <3>3, WithAccessNodeFacts
    <3>5. Extends(at.net, w.net)
        BY <1>9, <3>4, ExtendsTransitive
    <3> QED BY <1>8, <1>9, <3>2, <3>3, <3>4, <3>5
  <2>2. CASE ~relay
    <3>1. s.net = t.net /\ s.nodes = {}
        BY <1>7, <2>2
    <3> QED BY <1>9, <3>1
  <2> QED BY <2>1, <2>2
<1> HIDE DEF relay, hasAccess
<1>11. h.net = n1 /\ h.nodes = s.nodes \cup ({x} \ DOMAIN s.net.nets)
    BY <1>6
<1>12. /\ n1 \in Network /\ Extends(s.net, n1) /\ DOMAIN n1.nets = DOMAIN s.net.nets \cup {x}
       /\ Apart(s.net) => Apart(n1)
       /\ Apart(s.net) /\ Wired(s.net) => Wired(n1)
  <2>1. n1 \in Network /\ Extends(s.net, n1) /\ DOMAIN n1.nets = DOMAIN s.net.nets \cup {x}
      BY <1>8, <1>10, AddNodeFacts
  <2>2. Apart(s.net) => Apart(n1)
      BY <1>8, <1>10, AddNodeApart
  <2>3. Apart(s.net) /\ Wired(s.net) => Wired(n1)
      BY <1>8, <1>10, AddNodeWired
  <2> QED BY <2>1, <2>2, <2>3
<1>13. /\ g.net \in Network /\ Extends(n1, g.net) /\ DOMAIN g.net.nets = DOMAIN n1.nets
       /\ g.nodes = h.nodes
       /\ Apart(n1) /\ Wired(n1) => Wired(g.net)
  <2>1. CASE g = h
      BY <1>11, <1>12, <2>1 DEF Extends
  <2>2. ASSUME NEW n \in AddAccess(h.net, x), g = [h EXCEPT !.net = n]
        PROVE  /\ g.net \in Network /\ Extends(n1, g.net) /\ DOMAIN g.net.nets = DOMAIN n1.nets
               /\ g.nodes = h.nodes
               /\ Apart(n1) /\ Wired(n1) => Wired(g.net)
    <3>1. g.net = n /\ g.nodes = h.nodes
        BY <1>6, <2>2
    <3>2. n \in Network /\ Extends(n1, n) /\ DOMAIN n.nets = DOMAIN n1.nets
        BY <1>8, <1>11, <1>12, AddAccessFacts
    <3>3. Apart(n1) /\ Wired(n1) => Wired(n)
        BY <1>8, <1>11, <1>12, <2>2, AddAccessWired
    <3> QED BY <3>1, <3>2, <3>3
  <2> QED BY <1>4, <2>1, <2>2
<1>14. Extends(at.net, g.net)
  <2>1. Extends(at.net, n1)
      BY <1>10, <1>12, ExtendsTransitive
  <2> QED BY <1>12, <1>13, <2>1, ExtendsTransitive
<1>15. Apart(at.net) => Apart(g.net)
  <2>1. \A z \in DOMAIN n1.nets : g.net.nets[z].subnet = n1.nets[z].subnet
      BY <1>13 DEF Extends
  <2>2. Apart(n1) => Apart(g.net)
      BY <1>13, <2>1 DEF Apart
  <2> QED BY <1>10, <1>12, <2>2
<1>19. Apart(at.net) /\ Wired(at.net) => Wired(g.net)
    BY <1>10, <1>12, <1>13
<1>16. GrownBy(at.net, g.net, g.nodes, x)
    BY <1>8, <1>10, <1>11, <1>12, <1>13, <1>14, <1>15, <1>19 DEF GrownBy
<1>17. o.net = ReserveIp(g.net, x, ip) /\ o.batch = GrownBatch(at.batch, g.nodes, x, m(ip))
    BY <1>3
<1>18. Outcome(at, i, o, g.net, g.nodes, ip)
    BY <1>3, <1>16, <1>17 DEF Outcome
<1> QED BY <1>18

\* What a batch holds.
LEMMA BatchFacts ==
    ASSUME NEW b \in Batch
    PROVE  /\ b.create \in Partial(Nodes, CreateEntry) /\ DOMAIN b.create \in SUBSET Nodes
           /\ b.touch \in BOOLEAN /\ b.delete \in SUBSET Nat /\ b.strip \in SUBSET Nat
           /\ b.id \in Nat /\ b.rest \in Fin(Machine) /\ b.subnet \in Nat
           /\ b.ips \in SUBSET Address /\ b.left \in BOOLEAN
           /\ \A y \in DOMAIN b.create : /\ b.create[y] \in CreateEntry
                                         /\ b.create[y].net \in BOOLEAN
                                         /\ b.create[y].machines \in Fin(Machine)
<1>1. /\ b.create \in Partial(Nodes, CreateEntry)
      /\ b.touch \in BOOLEAN /\ b.delete \in SUBSET Nat /\ b.strip \in SUBSET Nat
      /\ b.id \in Nat /\ b.rest \in Fin(Machine) /\ b.subnet \in Nat
      /\ b.ips \in SUBSET Address /\ b.left \in BOOLEAN
    BY DEF Batch
<1>2. DOMAIN b.create \in SUBSET Nodes /\ \A y \in DOMAIN b.create : b.create[y] \in CreateEntry
    BY <1>1, PartialFacts
<1>3. \A e \in CreateEntry : e.net \in BOOLEAN /\ e.machines \in Fin(Machine)
    BY DEF CreateEntry
<1> QED BY <1>1, <1>2, <1>3

LEMMA DeploymentFacts ==
    ASSUME NEW b \in Batch, NEW y
    PROVE  /\ Deployment(b, y) \in CreateEntry
           /\ Deployment(b, y).net \in BOOLEAN /\ Deployment(b, y).machines \in Fin(Machine)
<1>1. CASE y \in DOMAIN b.create
    BY <1>1, BatchFacts DEF Deployment
<1>2. CASE y \notin DOMAIN b.create
  <2>1. {} \in Fin(Machine)
      BY FinFacts
  <2> QED BY <1>2, <2>1 DEF Deployment, CreateEntry
<1> QED BY <1>1, <1>2

\* A batch o that has more than b: for the new nodes a network workload, and for
\* the node of the machine the machine.
Grew(b, new, x, m, o) ==
    /\ o.touch = (b.touch \/ (Exists /\ new # {}))
    /\ o.delete = b.delete /\ o.strip = b.strip /\ o.id = b.id
    /\ DOMAIN o.create = DOMAIN b.create \cup new \cup {x}
    /\ \A y \in DOMAIN o.create :
         /\ o.create[y].net = (Deployment(b, y).net \/ y \in new)
         /\ o.create[y].machines = Deployment(b, y).machines \cup (IF y = x THEN {m} ELSE {})

LEMMA GrownBatchFacts ==
    ASSUME NEW b \in Batch, NEW new \in SUBSET Nodes, NEW x \in Nodes, NEW m \in Machine,
           NEW o, o = GrownBatch(b, new, x, m)
    PROVE  o \in Batch /\ Grew(b, new, x, m, o)
<1> DEFINE N == [y \in DOMAIN b.create \cup new |-> [Deployment(b, y) EXCEPT !.net = @ \/ y \in new]]
           t == b.touch \/ (Exists /\ new # {})
           d == [b EXCEPT !.create = N, !.touch = t]
           e == [Deployment(d, x) EXCEPT !.machines = @ \cup {m}]
           W == With(N, x, e)
<1>1. o = WithMachine(d, x, m)
    BY DEF GrownBatch
<1>2. /\ DOMAIN N = DOMAIN b.create \cup new
      /\ \A y \in DOMAIN N : /\ N[y] \in CreateEntry
                             /\ N[y].net = (Deployment(b, y).net \/ y \in new)
                             /\ N[y].machines = Deployment(b, y).machines
  <2>1. ASSUME NEW y \in DOMAIN N
        PROVE  /\ N[y] \in CreateEntry
               /\ N[y].net = (Deployment(b, y).net \/ y \in new)
               /\ N[y].machines = Deployment(b, y).machines
    <3>1. N[y] = [Deployment(b, y) EXCEPT !.net = @ \/ y \in new]
        OBVIOUS
    <3>2. Deployment(b, y) \in CreateEntry
        BY DeploymentFacts
    <3> HIDE DEF N
    <3> QED BY <3>1, <3>2 DEF CreateEntry
  <2>2. DOMAIN N = DOMAIN b.create \cup new
      OBVIOUS
  <2> QED BY <2>1, <2>2
<1>3. N \in Partial(Nodes, CreateEntry)
  <2>1. DOMAIN b.create \in SUBSET Nodes
      BY BatchFacts
  <2>2. N = [y \in DOMAIN N |-> N[y]]
      OBVIOUS
  <2> HIDE DEF N
  <2>3. N \in [DOMAIN N -> CreateEntry] /\ DOMAIN N \in SUBSET Nodes
      BY <1>2, <2>1, <2>2
  <2> QED BY <2>3, PartialIntro
<1>4. t \in BOOLEAN
    BY BatchFacts
<1> HIDE DEF N, t
<1>5. /\ d \in Batch /\ d.create = N /\ d.touch = t
      /\ d.delete = b.delete /\ d.strip = b.strip /\ d.id = b.id
    BY <1>3, <1>4 DEF Batch
<1>6. o = [d EXCEPT !.create = With(@, x, [Deployment(d, x) EXCEPT !.machines = @ \cup {m}])]
    BY <1>1 DEF WithMachine
<1>7. o = [d EXCEPT !.create = W]
    BY <1>5, <1>6
<1> HIDE DEF d
<1>8. /\ e \in CreateEntry /\ e.net = Deployment(d, x).net
      /\ e.machines = Deployment(d, x).machines \cup {m}
  <2>1. Deployment(d, x) \in CreateEntry /\ Deployment(d, x).machines \cup {m} \in Fin(Machine)
      BY <1>5, DeploymentFacts, FinFacts
  <2> QED BY <2>1 DEF CreateEntry
<1> HIDE DEF e
<1>9. W \in Partial(Nodes, CreateEntry)
    BY <1>3, <1>8, PartialWith
<1>10. /\ DOMAIN W = DOMAIN N \cup {x} /\ W[x] = e
       /\ \A y \in DOMAIN N \ {x} : W[y] = N[y]
    BY DEF With
<1> HIDE DEF W
<1>11. /\ o \in Batch /\ o.create = W /\ o.touch = t
       /\ o.delete = b.delete /\ o.strip = b.strip /\ o.id = b.id
    BY <1>5, <1>7, <1>9 DEF Batch
<1>12. ASSUME NEW y \in DOMAIN W
       PROVE  /\ W[y].net = (Deployment(b, y).net \/ y \in new)
              /\ W[y].machines = Deployment(b, y).machines \cup (IF y = x THEN {m} ELSE {})
  <2>1. CASE y # x
      BY <1>2, <1>10, <2>1
  <2>2. CASE y = x /\ x \in DOMAIN N
    <3>1. Deployment(d, x) = N[x]
        BY <1>5, <2>2 DEF Deployment
    <3> QED BY <1>2, <1>8, <1>10, <2>2, <3>1
  <2>3. CASE y = x /\ x \notin DOMAIN N
    <3> DEFINE none == [net |-> FALSE, machines |-> {}]
    <3>1. Deployment(d, x) = none /\ Deployment(b, x) = none /\ x \notin new
        BY <1>2, <1>5, <2>3 DEF Deployment
    <3>2. none.net = FALSE /\ none.machines = {}
        OBVIOUS
    <3> HIDE DEF none
    <3>3. W[y].machines = {m} /\ Deployment(b, y).machines = {}
        BY <1>8, <1>10, <2>3, <3>1, <3>2
    <3>4. W[y].net = none.net /\ Deployment(b, y).net = none.net /\ y \notin new
        BY <1>8, <1>10, <2>3, <3>1
    <3>5. W[y].net = (Deployment(b, y).net \/ y \in new)
        BY <3>2, <3>4
    <3> QED BY <2>3, <3>3, <3>5
  <2> QED BY <2>1, <2>2, <2>3
<1>13. DOMAIN W = DOMAIN b.create \cup new \cup {x}
    BY <1>2, <1>10
<1> QED BY <1>11, <1>12, <1>13 DEF t, Grew
-----------------------------------------------------------------------------
(***************************************************************************)
(* Types of the steps.                                                     *)
(***************************************************************************)
\* The machines of a deletion in some order, each of them once.
LEMMA SetToSeqFacts ==
    ASSUME NEW S, IsFiniteSet(S)
    PROVE  /\ SetToSeq(S) \in Seq(S)
           /\ \A i \in DOMAIN SetToSeq(S) : SetToSeq(S)[i] \in S
           /\ \A i, j \in DOMAIN SetToSeq(S) : SetToSeq(S)[i] = SetToSeq(S)[j] => i = j
           /\ SetToSeq(S) = <<>> => S = {}
           /\ \A m \in S : \E i \in DOMAIN SetToSeq(S) : SetToSeq(S)[i] = m
<1> DEFINE n == Cardinality(S)
<1>1. n \in Nat /\ ExistsBijection(1..n, S)
    BY FS_CardinalityType
<1>2. \E f \in [1..n -> S] : \A i, j \in DOMAIN f : f[i] = f[j] => i = j
    BY <1>1 DEF ExistsBijection, Bijection, Injection, IsInjective
<1>3. SetToSeq(S) \in [1..n -> S] /\ \A i, j \in DOMAIN SetToSeq(S) : SetToSeq(S)[i] = SetToSeq(S)[j] => i = j
    BY <1>2 DEF SetToSeq
<1>4. SetToSeq(S) = <<>> => n = 0
    BY <1>1, <1>3
<1>5. n = 0 => S = {}
    BY FS_EmptySet
<1>6. \A m \in S : \E i \in DOMAIN SetToSeq(S) : SetToSeq(S)[i] = m
  <2> DEFINE f == SetToSeq(S)
             R == {f[i] : i \in 1..n}
  <2>1. f \in [1..n -> S] /\ \A i, j \in 1..n : f[i] = f[j] => i = j
      BY <1>3
  <2> HIDE DEF f
  <2>2. R \subseteq S
      BY <2>1
  <2>3. f \in Bijection(1..n, R)
      BY <2>1 DEF Bijection, Injection, Surjection, IsInjective
  <2>4. IsFiniteSet(1..n) /\ Cardinality(1..n) = n
      BY <1>1, FS_Interval
  <2>5. Cardinality(R) = n
      BY <2>3, <2>4, FS_Bijection DEF ExistsBijection
  <2>6. R = S
      BY <2>2, <2>5, FS_Subset
  <2> QED BY <2>1, <2>6 DEF f
<1> HIDE DEF n
<1> QED BY <1>1, <1>3, <1>4, <1>5, <1>6

\* What is left of a sequence without its first element.
LEMMA TailFacts ==
    ASSUME NEW S, NEW s \in Seq(S), s # <<>>
    PROVE  /\ Head(s) = s[1] /\ 1 \in DOMAIN s /\ Tail(s) \in Seq(S)
           /\ Len(s) = 1 <=> Tail(s) = <<>>
           /\ \A k \in DOMAIN Tail(s) : /\ Tail(s)[k] = s[k + 1] /\ k + 1 \in DOMAIN s
                                         /\ k \in Nat /\ k + 1 # 1
<1>1. Len(s) \in Nat /\ Len(s) # 0 /\ DOMAIN s = 1..Len(s)
    OBVIOUS
<1>2. Tail(s) \in Seq(S) /\ Len(Tail(s)) = Len(s) - 1 /\ DOMAIN Tail(s) = 1..(Len(s) - 1)
    BY <1>1
<1>3. Tail(s) = <<>> <=> Len(Tail(s)) = 0
    BY <1>2
<1>4. \A k \in 1..(Len(s) - 1) : Tail(s)[k] = s[k + 1]
    BY <1>1
<1>5. Len(s) = 1 <=> Tail(s) = <<>>
    BY <1>1, <1>2, <1>3
<1>6. \A k \in DOMAIN Tail(s) : k + 1 \in DOMAIN s /\ k \in Nat /\ k + 1 # 1
    BY <1>1, <1>2
<1> QED BY <1>1, <1>2, <1>4, <1>5, <1>6

\* The empty batch, the empty request.
LEMMA NothingFacts ==
    /\ NoBatch \in Batch /\ DOMAIN NoBatch.create = {} /\ NoBatch.id = 0
    /\ NoRequest \in Request \cup {NoRequest} /\ NoRequest.op # "delete"
    /\ <<>> \in Partial(Ids, Fin(Machine))
<1>1. {} \in Fin(Machine) /\ <<>> \in Partial(Nodes, CreateEntry) /\ <<>> \in Partial(Ids, Fin(Machine))
    BY FinFacts, PartialEmpty
<1> QED BY <1>1 DEF NoBatch, Batch, NoRequest

LEMMA NoStage == Stage("idle", NoRequest, EmptyNetwork, <<>>, NoBatch)
<1>1. <<>> \in Seq(Item) /\ DOMAIN NoBatch.create = {} /\ NoRequest.op = "none"
    BY NothingFacts DEF NoRequest
<1>2. DOMAIN EmptyNetwork.nets = {}
    BY DEF EmptyNetwork
<1> QED BY <1>1, <1>2 DEF Stage

\* The types and the stage of every call hold at the start.
LEMMA InitTypes == Init => TypeInv
<1> SUFFICES ASSUME Init  PROVE TypeInv
    OBVIOUS
<1>1. NoContract \in ContractEntry
  <2>1. {} \in Fin(Peer) /\ {} \in Fin(Machine)
      BY FinFacts
  <2> QED BY <2>1 DEF NoContract, ContractEntry
<1>2. info \in Partial(Nodes, InfoEntry)
    BY PartialEmpty DEF Init
<1>3. contract \in [Ids -> ContractEntry]
    BY <1>1 DEF Init
<1>4. /\ pc \in [Calls -> Labels] /\ call \in [Calls -> Request \cup {NoRequest}]
      /\ net \in [Calls -> Network] /\ stored \in [Calls -> Partial(Ids, Fin(Machine))]
      /\ batch \in [Calls -> Batch]
    BY NothingFacts, EmptyNetworkFacts DEF Init, Labels
<1>5. todo \in [Calls -> Seq(Machine) \cup Seq(Item)] /\ stale \in SUBSET Calls /\ clean \in BOOLEAN
    BY DEF Init
<1>6. \A c \in Calls : Stage(pc[c], call[c], net[c], todo[c], batch[c])
    BY NoStage DEF Init
<1> QED BY <1>2, <1>3, <1>4, <1>5, <1>6 DEF TypeInv

\* Where a call is after a step.
Now(c, p, r, n, s, t, b) ==
    /\ pc' = [pc EXCEPT ![c] = p] /\ call' = [call EXCEPT ![c] = r] /\ net' = [net EXCEPT ![c] = n]
    /\ stored' = [stored EXCEPT ![c] = s] /\ todo' = [todo EXCEPT ![c] = t]
    /\ batch' = [batch EXCEPT ![c] = b]

\* One call takes a step; the others are where they were.
LEMMA OneMoves ==
    ASSUME TypeInv, NEW c \in Calls, NEW p \in Labels, NEW r \in Request \cup {NoRequest},
           NEW n \in Network, NEW s \in Partial(Ids, Fin(Machine)), NEW t, NEW b \in Batch,
           Stage(p, r, n, t, b), Now(c, p, r, n, s, t, b)
    PROVE  /\ pc' \in [Calls -> Labels] /\ call' \in [Calls -> Request \cup {NoRequest}]
           /\ net' \in [Calls -> Network] /\ stored' \in [Calls -> Partial(Ids, Fin(Machine))]
           /\ todo' \in [Calls -> Seq(Machine) \cup Seq(Item)] /\ batch' \in [Calls -> Batch]
           /\ \A d \in Calls : Stage(pc'[d], call'[d], net'[d], todo'[d], batch'[d])
           /\ pc'[c] = p /\ call'[c] = r /\ net'[c] = n /\ stored'[c] = s /\ todo'[c] = t /\ batch'[c] = b
           /\ \A d \in Calls \ {c} :
                /\ pc'[d] = pc[d] /\ call'[d] = call[d] /\ net'[d] = net[d]
                /\ stored'[d] = stored[d] /\ todo'[d] = todo[d] /\ batch'[d] = batch[d]
<1>1. /\ pc \in [Calls -> Labels] /\ call \in [Calls -> Request \cup {NoRequest}]
      /\ net \in [Calls -> Network] /\ stored \in [Calls -> Partial(Ids, Fin(Machine))]
      /\ todo \in [Calls -> Seq(Machine) \cup Seq(Item)] /\ batch \in [Calls -> Batch]
    BY DEF TypeInv
<1>2. t \in Seq(Machine) \cup Seq(Item)
    BY DEF Stage
<1>3. /\ pc' \in [Calls -> Labels] /\ pc'[c] = p /\ \A d \in Calls \ {c} : pc'[d] = pc[d]
      /\ call' \in [Calls -> Request \cup {NoRequest}] /\ call'[c] = r
      /\ \A d \in Calls \ {c} : call'[d] = call[d]
    BY <1>1 DEF Now
<1>4. /\ net' \in [Calls -> Network] /\ net'[c] = n /\ \A d \in Calls \ {c} : net'[d] = net[d]
      /\ stored' \in [Calls -> Partial(Ids, Fin(Machine))] /\ stored'[c] = s
      /\ \A d \in Calls \ {c} : stored'[d] = stored[d]
    BY <1>1 DEF Now
<1>5. /\ todo' \in [Calls -> Seq(Machine) \cup Seq(Item)] /\ todo'[c] = t
      /\ \A d \in Calls \ {c} : todo'[d] = todo[d]
      /\ batch' \in [Calls -> Batch] /\ batch'[c] = b /\ \A d \in Calls \ {c} : batch'[d] = batch[d]
    BY <1>1, <1>2 DEF Now
<1>6. ASSUME NEW d \in Calls  PROVE Stage(pc'[d], call'[d], net'[d], todo'[d], batch'[d])
  <2>1. CASE d = c
      BY <1>3, <1>4, <1>5, <2>1
  <2>2. CASE d # c
    <3>1. Stage(pc[d], call[d], net[d], todo[d], batch[d])
        BY DEF TypeInv
    <3>2. /\ pc'[d] = pc[d] /\ call'[d] = call[d] /\ net'[d] = net[d] /\ todo'[d] = todo[d]
          /\ batch'[d] = batch[d]
        BY <1>3, <1>4, <1>5, <2>2
    <3> QED BY <3>1, <3>2
  <2> QED BY <2>1, <2>2
<1> QED BY <1>3, <1>4, <1>5, <1>6

\* The rest of the types, once the call that moves is known to be all right.
LEMMA RestOfTypes ==
    ASSUME TypeInv, NEW c \in Calls, NEW p \in Labels, NEW r \in Request \cup {NoRequest},
           NEW n \in Network, NEW s \in Partial(Ids, Fin(Machine)), NEW t, NEW b \in Batch,
           Stage(p, r, n, t, b), Now(c, p, r, n, s, t, b),
           contract' \in [Ids -> ContractEntry], info' \in Partial(Nodes, InfoEntry),
           stale' \in SUBSET Calls, clean' \in BOOLEAN
    PROVE  TypeInv'
<1>1. /\ pc' \in [Calls -> Labels] /\ call' \in [Calls -> Request \cup {NoRequest}]
      /\ net' \in [Calls -> Network] /\ stored' \in [Calls -> Partial(Ids, Fin(Machine))]
      /\ todo' \in [Calls -> Seq(Machine) \cup Seq(Item)] /\ batch' \in [Calls -> Batch]
      /\ \A d \in Calls : Stage(pc'[d], call'[d], net'[d], todo'[d], batch'[d])
    BY OneMoves
<1> QED BY <1>1 DEF TypeInv

\* What a call has.
LEMMA LocalFacts ==
    ASSUME TypeInv, NEW c \in Calls
    PROVE  /\ pc[c] \in Labels /\ call[c] \in Request \cup {NoRequest} /\ net[c] \in Network
           /\ stored[c] \in Partial(Ids, Fin(Machine)) /\ batch[c] \in Batch
           /\ Stage(pc[c], call[c], net[c], todo[c], batch[c])
           /\ [pc EXCEPT ![c] = pc[c]] = pc /\ [call EXCEPT ![c] = call[c]] = call
           /\ [net EXCEPT ![c] = net[c]] = net /\ [stored EXCEPT ![c] = stored[c]] = stored
           /\ [todo EXCEPT ![c] = todo[c]] = todo /\ [batch EXCEPT ![c] = batch[c]] = batch
BY DEF TypeInv

\* A call ends.
LEMMA EndedTypes ==
    ASSUME TypeInv, NEW c \in Calls, Ended(c), contract' \in [Ids -> ContractEntry],
           info' \in Partial(Nodes, InfoEntry), stale' \in SUBSET Calls, clean' \in BOOLEAN
    PROVE  TypeInv' /\ Now(c, "idle", NoRequest, EmptyNetwork, <<>>, <<>>, NoBatch)
<1>1. Now(c, "idle", NoRequest, EmptyNetwork, <<>>, <<>>, NoBatch)
    BY DEF Ended, Goto, Now
<1>2. "idle" \in Labels
    BY DEF Labels
<1> QED BY <1>1, <1>2, NothingFacts, EmptyNetworkFacts, NoStage, RestOfTypes

LEMMA ThrowTypes ==
    ASSUME TypeInv, NEW c \in Calls, Throw(c)
    PROVE  TypeInv' /\ Now(c, "idle", NoRequest, EmptyNetwork, <<>>, <<>>, NoBatch)
<1>1. /\ Ended(c) /\ contract' \in [Ids -> ContractEntry] /\ info' \in Partial(Nodes, InfoEntry)
      /\ stale' \in SUBSET Calls /\ clean' \in BOOLEAN
    BY DEF Throw, TypeInv
<1> QED BY <1>1, EndedTypes

LEMMA WritesTypes ==
    ASSUME TypeInv, NEW c \in Calls, Writes(c)
    PROVE  stale' \in SUBSET Calls /\ clean' \in BOOLEAN
BY DEF TypeInv, Writes

\* A deployment of a request, and the contracts.
LEMMA ContractFacts ==
    ASSUME TypeInv, NEW id \in Ids
    PROVE  /\ contract[id] \in ContractEntry
           /\ contract[id].state \in {"free", "created", "deleted"}
           /\ contract[id].name \in Names \cup {""} /\ contract[id].node \in Nodes \cup {0}
           /\ contract[id].subnet \in Nat
           /\ contract[id].peers \in Fin(Peer) /\ contract[id].machines \in Fin(Machine)
<1>1. contract[id] \in ContractEntry
    BY DEF TypeInv
<1> QED BY <1>1 DEF ContractEntry

\* The batch of a deletion of the machines gone of the contract id.
Chosen(b, id, gone) ==
    [b EXCEPT !.id = id, !.rest = contract[id].machines \ gone, !.subnet = contract[id].subnet]

\* What a call starts with.
Begun(c, r, t, b) ==
    /\ r \in Requests /\ Now(c, "load", r, net[c], stored[c], t, b)
    /\ \/ r.op # "delete" /\ t = r.items /\ b = batch[c]
       \/ /\ r.op = "delete"
          /\ \E id \in DeploymentsOf(r.name) :
               \E gone \in SUBSET contract[id].machines :
                 gone # {} /\ t = SetToSeq(gone) /\ b = Chosen(batch[c], id, gone)

LEMMA BeginShape ==
    ASSUME TypeInv, NEW c \in Calls, Begin(c)
    PROVE  /\ \E r, t, b : Begun(c, r, t, b)
           /\ pc[c] = "idle" /\ UNCHANGED <<contract, info, stale, clean>>
<1> DEFINE Asks(r) ==
        /\ call' = [call EXCEPT ![c] = r]
        /\ \/ /\ Deploys(r) \/ Adds(r)
              /\ todo' = [todo EXCEPT ![c] = r.items]
              /\ UNCHANGED batch
           \/ /\ r.op = "delete"
              /\ \E id \in DeploymentsOf(r.name) :
                   LET gone == {m \in contract[id].machines : m.name \in r.machines}
                   IN /\ gone # {}
                      /\ todo' = [todo EXCEPT ![c] = SetToSeq(gone)]
                      /\ batch' = [batch EXCEPT ![c].id = id,
                                                ![c].rest = contract[id].machines \ gone,
                                                ![c].subnet = contract[id].subnet]
           S == IF \A d \in Calls : pc[d] = "idle" THEN Requests ELSE Beside
<1>1. PICK r \in Requests : Asks(r)
  <2>1. \E r \in S : Asks(r)
      BY DEF Begin
  <2>2. S \subseteq Requests
      OBVIOUS
  <2> HIDE DEF S, Asks
  <2> QED BY <2>1, <2>2
<1>2. /\ pc[c] = "idle" /\ pc' = [pc EXCEPT ![c] = "load"]
      /\ UNCHANGED <<contract, info, net, stored, stale, clean>>
    BY DEF Begin, Goto
<1>3. /\ [net EXCEPT ![c] = net[c]] = net /\ [stored EXCEPT ![c] = stored[c]] = stored
      /\ [batch EXCEPT ![c] = batch[c]] = batch
    BY LocalFacts
<1>4. CASE (Deploys(r) \/ Adds(r)) /\ todo' = [todo EXCEPT ![c] = r.items] /\ UNCHANGED batch
  <2>1. r.op # "delete"
      BY <1>4 DEF Deploys, Adds
  <2>2. Now(c, "load", r, net[c], stored[c], r.items, batch[c])
      BY <1>1, <1>2, <1>3, <1>4 DEF Now
  <2>3. Begun(c, r, r.items, batch[c])
      BY <2>1, <2>2 DEF Begun
  <2> QED BY <1>2, <2>3
<1>5. ASSUME r.op = "delete", NEW id \in DeploymentsOf(r.name), NEW gone, gone # {},
             gone = {m \in contract[id].machines : m.name \in r.machines},
             todo' = [todo EXCEPT ![c] = SetToSeq(gone)],
             batch' = [batch EXCEPT ![c].id = id, ![c].rest = contract[id].machines \ gone,
                                    ![c].subnet = contract[id].subnet]
      PROVE  \E t, b : Begun(c, r, t, b)
  <2> DEFINE b == Chosen(batch[c], id, gone)
  <2>1. batch' = [batch EXCEPT ![c] = b]
      BY <1>5 DEF Chosen
  <2>2. gone \in SUBSET contract[id].machines
      BY <1>5
  <2> HIDE DEF b
  <2>3. Now(c, "load", r, net[c], stored[c], SetToSeq(gone), b)
      BY <1>1, <1>2, <1>3, <1>5, <2>1 DEF Now
  <2>4. Begun(c, r, SetToSeq(gone), b)
      BY <1>5, <2>2, <2>3 DEF Begun, b
  <2> QED BY <2>4
<1> QED BY <1>1, <1>2, <1>4, <1>5

LEMMA ChosenFacts ==
    ASSUME TypeInv, NEW b \in Batch, NEW id \in Ids, NEW gone \in SUBSET contract[id].machines,
           NEW o, o = Chosen(b, id, gone)
    PROVE  /\ o \in Batch /\ o.create = b.create /\ o.touch = b.touch
           /\ o.delete = b.delete /\ o.strip = b.strip /\ o.ips = b.ips
           /\ o.id = id /\ o.rest = contract[id].machines \ gone /\ o.subnet = contract[id].subnet
           /\ gone \in Fin(Machine)
<1>1. contract[id].subnet \in Nat /\ contract[id].machines \in Fin(Machine)
    BY ContractFacts
<1>2. contract[id].machines \ gone \in Fin(Machine) /\ gone \in Fin(Machine)
    BY <1>1, FinSubset
<1>3. id \in Nat
    BY DEF Ids
<1> QED BY <1>1, <1>2, <1>3 DEF Chosen, Batch

LEMMA BeginTypes ==
    ASSUME TypeInv, NEW c \in Calls, Begin(c)
    PROVE  TypeInv'
<1>1. /\ pc[c] = "idle" /\ UNCHANGED <<contract, info, stale, clean>>
      /\ \E r, t, b : Begun(c, r, t, b)
    BY BeginShape
<1>2. PICK r, t, b : Begun(c, r, t, b)
    BY <1>1
<1>3. /\ net[c] \in Network /\ stored[c] \in Partial(Ids, Fin(Machine)) /\ batch[c] \in Batch
      /\ Stage("idle", call[c], net[c], todo[c], batch[c])
    BY <1>1, LocalFacts
<1>4. /\ r \in Request /\ "load" \in Labels /\ Now(c, "load", r, net[c], stored[c], t, b)
    BY <1>2 DEF Labels, Begun
<1>5. /\ contract' \in [Ids -> ContractEntry] /\ info' \in Partial(Nodes, InfoEntry)
      /\ stale' \in SUBSET Calls /\ clean' \in BOOLEAN
    BY <1>1 DEF TypeInv
<1>6. /\ DOMAIN batch[c].create = {}
      /\ \A z \in DOMAIN net[c].nets : net[c].nodes[z].contract <= MaxId
    BY <1>3 DEF Stage
<1>7. b \in Batch /\ Stage("load", r, net[c], t, b)
  <2>1. CASE r.op # "delete" /\ t = r.items /\ b = batch[c]
      BY <1>3, <1>4, <1>6, <2>1 DEF Stage, Request
  <2>2. ASSUME r.op = "delete", NEW id \in DeploymentsOf(r.name), NEW gone \in SUBSET contract[id].machines,
               t = SetToSeq(gone), b = Chosen(batch[c], id, gone)
        PROVE  b \in Batch /\ Stage("load", r, net[c], t, b)
    <3>1. id \in Ids
        BY DEF DeploymentsOf
    <3>2. b \in Batch /\ b.create = batch[c].create /\ gone \in Fin(Machine)
        BY <1>3, <2>2, <3>1, ChosenFacts
    <3>3. t \in Seq(Machine)
      <4>1. IsFiniteSet(gone) /\ gone \in SUBSET Machine
          BY <3>2 DEF Fin
      <4>2. t \in Seq(gone)
          BY <2>2, <4>1, SetToSeqFacts
      <4> QED BY <4>1, <4>2
    <3> QED BY <1>6, <2>2, <3>2, <3>3 DEF Stage
  <2> QED BY <1>2, <2>1, <2>2 DEF Begun
<1> QED BY <1>3, <1>4, <1>5, <1>7, RestOfTypes

\* Network.load takes the nodes of info.json whose deployment has a network
\* workload, each with the subnet that its contract has.
LEMMA LoadedFacts ==
    ASSUME TypeInv
    PROVE  /\ Loaded \in Network
           /\ DOMAIN Loaded.nets = Found /\ DOMAIN Loaded.nodes = Found
           /\ Found \subseteq DOMAIN info
           /\ \A x \in Found : /\ Loaded.nets[x].subnet = contract[info[x].contract].subnet
                               /\ Loaded.nets[x].peers = contract[info[x].contract].peers
                               /\ Loaded.nodes[x] = info[x]
           /\ Loaded.points = AccessPoints(Loaded.nets) /\ Loaded.access = {}
<1> DEFINE nets == [x \in Found |-> [subnet |-> contract[info[x].contract].subnet,
                                     peers |-> contract[info[x].contract].peers]]
           nodes == [x \in Found |-> info[x]]
           points == AccessPoints(nets)
<1>1. Found \subseteq DOMAIN info
    BY DEF Found
<1>2. DOMAIN info \in SUBSET Nodes /\ \A x \in DOMAIN info : info[x] \in InfoEntry
    BY PartialFacts DEF TypeInv
<1>3. \A x \in DOMAIN info : info[x].contract \in Ids /\ info[x].ips \in Fin(Address)
    BY <1>2 DEF InfoEntry
<1>4. \A x \in Found : nets[x] \in NetEntry
    BY <1>1, <1>3, ContractFacts DEF NetEntry
<1>5. \A x \in Found : nodes[x] \in NodeEntry
    BY <1>1, <1>2, <1>3 DEF InfoEntry, NodeEntry, Ids
<1>6. nets \in [Found -> NetEntry] /\ nodes \in [Found -> NodeEntry] /\ Found \in SUBSET Nodes
    BY <1>1, <1>2, <1>4, <1>5
<1>7. \A x \in Found : /\ nets[x].subnet = contract[info[x].contract].subnet
                       /\ nets[x].peers = contract[info[x].contract].peers
                       /\ nodes[x] = info[x]
    OBVIOUS
<1>8. Loaded = [EmptyNetwork EXCEPT !.nets = nets, !.nodes = nodes, !.points = points]
    BY DEF Loaded
<1>9. DOMAIN nets = Found /\ DOMAIN nodes = Found
    OBVIOUS
<1> HIDE DEF nets, nodes
<1>10. nets \in Partial(Nodes, NetEntry) /\ nodes \in Partial(Nodes, NodeEntry)
    BY <1>6, PartialIntro
<1>11. points \in Fin(Point)
    BY <1>10, AccessPointsFacts
<1>16. points = AccessPoints(nets)
    OBVIOUS
<1> HIDE DEF points
<1>12. Loaded = [nets |-> nets, nodes |-> nodes, points |-> points, reserved |-> {}, access |-> {}]
    BY <1>8 DEF EmptyNetwork
<1>13. Loaded.nets = nets /\ Loaded.nodes = nodes /\ Loaded.points = points /\ Loaded.access = {}
    BY <1>12
<1>14. {} \in Fin(Nat)
    BY FinFacts
<1>15. Loaded \in Network
    BY <1>9, <1>10, <1>11, <1>12, <1>14 DEF Network
<1> QED BY <1>1, <1>7, <1>9, <1>13, <1>15, <1>16

\* save() writes the nodes that have a contract.
LEMMA EntriesFacts ==
    ASSUME NEW n \in Network, \A z \in DOMAIN n.nets : n.nodes[z].contract <= MaxId
    PROVE  /\ Entries(n) \in Partial(Nodes, InfoEntry)
           /\ DOMAIN Entries(n) = {x \in DOMAIN n.nets : n.nodes[x].contract # 0}
           /\ \A x \in DOMAIN Entries(n) : Entries(n)[x] = n.nodes[x]
<1> DEFINE D == {x \in DOMAIN n.nets : n.nodes[x].contract # 0}
           E == Entries(n)
<1>1. DOMAIN n.nodes = DOMAIN n.nets /\ D \in SUBSET Nodes
    BY NetworkFacts
<1>2. DOMAIN E = D /\ E = [x \in D |-> E[x]] /\ \A x \in D : E[x] = n.nodes[x]
    BY <1>1 DEF Entries, Except
<1>3. \A x \in D : n.nodes[x] \in InfoEntry
    BY NetworkFacts DEF NodeEntry, InfoEntry, Ids
<1> HIDE DEF E
<1>4. E \in [D -> InfoEntry]
    BY <1>2, <1>3
<1> HIDE DEF D
<1>5. E \in Partial(Nodes, InfoEntry)
    BY <1>1, <1>4, PartialIntro
<1> QED BY <1>2, <1>5 DEF E, D

LEMMA AfterLoadStage ==
    ASSUME TypeInv, NEW c \in Calls, pc[c] \in {"load", "loadSave"}
    PROVE  /\ AfterLoad(c) \in Labels
           /\ AfterLoad(c) \in {"build", "remove", "free"}
           /\ \A n : (\A z \in DOMAIN n.nets : n.nodes[z].contract <= MaxId) =>
                /\ Stage(AfterLoad(c), call[c], n, todo[c], batch[c])
                /\ Stage("loadSave", call[c], n, todo[c], batch[c])
<1>1. Stage(pc[c], call[c], net[c], todo[c], batch[c])
    BY LocalFacts
<1>2. AfterLoad(c) \in {"build", "remove", "free"}
    BY DEF AfterLoad
<1>3. /\ AfterLoad(c) = "build" <=> call[c].op # "delete"
      /\ AfterLoad(c) = "remove" => todo[c] # <<>>
    BY DEF AfterLoad
<1> QED BY <1>1, <1>2, <1>3 DEF Stage, Labels

LEMMA LoadTypes ==
    ASSUME TypeInv, NEW c \in Calls, Load(c)
    PROVE  TypeInv' /\ Now(c, IF Exists THEN "loadSave" ELSE AfterLoad(c), call[c],
                           IF Exists THEN Loaded ELSE EmptyNetwork, stored'[c], todo[c], batch[c])
<1> DEFINE p == IF Exists THEN "loadSave" ELSE AfterLoad(c)
           n == IF Exists THEN Loaded ELSE EmptyNetwork
           s == [id \in {info[x].contract : x \in Found} |-> contract[id].machines]
<1>1. /\ pc[c] = "load" /\ pc' = [pc EXCEPT ![c] = p] /\ net' = [net EXCEPT ![c] = n]
      /\ stored' = [stored EXCEPT ![c] = s]
      /\ stale' = IF \E b \in Calls : pc[b] = "save" THEN stale \cup {c} ELSE stale
      /\ UNCHANGED <<contract, info, call, todo, batch, clean>>
    BY DEF Load, Goto
<1>2. n \in Network
    BY LoadedFacts, EmptyNetworkFacts
<1>3. \A x \in DOMAIN info : info[x].contract \in Ids
  <2>1. \A x \in DOMAIN info : info[x] \in InfoEntry
      BY PartialFacts DEF TypeInv
  <2> QED BY <2>1 DEF InfoEntry
<1>4. \A z \in DOMAIN n.nets : n.nodes[z].contract <= MaxId
  <2>1. CASE Exists
      BY <1>3, <2>1, LoadedFacts DEF Ids
  <2>2. CASE ~Exists
      BY <2>2 DEF EmptyNetwork
  <2> QED BY <2>1, <2>2
<1>5. s \in Partial(Ids, Fin(Machine))
  <2> DEFINE D == {info[x].contract : x \in Found}
  <2>1. D \in SUBSET Ids
      BY <1>3 DEF Found
  <2>2. \A id \in D : contract[id].machines \in Fin(Machine)
      BY <2>1, ContractFacts
  <2>3. s \in [D -> Fin(Machine)]
      BY <2>2
  <2> HIDE DEF D, s
  <2> QED BY <2>1, <2>3, PartialIntro
<1>6. p \in Labels /\ Stage(p, call[c], n, todo[c], batch[c])
  <2> HIDE DEF n
  <2> QED BY <1>1, <1>4, AfterLoadStage DEF Labels
<1>7. stored'[c] = s
    BY <1>1 DEF TypeInv
<1> HIDE DEF p, n, s
<1>8. Now(c, p, call[c], n, s, todo[c], batch[c])
    BY <1>1, LocalFacts DEF Now
<1>9. /\ contract' \in [Ids -> ContractEntry] /\ info' \in Partial(Nodes, InfoEntry)
      /\ stale' \in SUBSET Calls /\ clean' \in BOOLEAN
    BY <1>1 DEF TypeInv
<1>10. call[c] \in Request \cup {NoRequest} /\ batch[c] \in Batch
    BY LocalFacts
<1>11. TypeInv'
    BY <1>2, <1>5, <1>6, <1>8, <1>9, <1>10, RestOfTypes
<1> QED BY <1>7, <1>8, <1>11 DEF p, n

LEMMA LoadSaveTypes ==
    ASSUME TypeInv, NEW c \in Calls, LoadSave(c)
    PROVE  TypeInv' /\ Now(c, AfterLoad(c), call[c], net[c], stored[c], todo[c], batch[c])
<1>1. /\ pc[c] = "loadSave" /\ info' = Entries(net[c]) /\ pc' = [pc EXCEPT ![c] = AfterLoad(c)]
      /\ IF info' = info THEN UNCHANGED <<stale, clean>> ELSE Writes(c)
      /\ UNCHANGED <<contract, call, net, stored, todo, batch>>
    BY DEF LoadSave, Goto, local
<1>2. \A z \in DOMAIN net[c].nets : net[c].nodes[z].contract <= MaxId
    BY LocalFacts DEF Stage
<1>3. Entries(net[c]) \in Partial(Nodes, InfoEntry)
    BY <1>2, LocalFacts, EntriesFacts
<1>4. AfterLoad(c) \in Labels /\ Stage(AfterLoad(c), call[c], net[c], todo[c], batch[c])
    BY <1>1, <1>2, AfterLoadStage
<1>5. Now(c, AfterLoad(c), call[c], net[c], stored[c], todo[c], batch[c])
    BY <1>1, LocalFacts DEF Now
<1>6. stale' \in SUBSET Calls /\ clean' \in BOOLEAN
    BY <1>1, WritesTypes DEF TypeInv
<1>7. contract' \in [Ids -> ContractEntry] /\ info' \in Partial(Nodes, InfoEntry)
    BY <1>1, <1>3 DEF TypeInv
<1>8. /\ call[c] \in Request \cup {NoRequest} /\ net[c] \in Network
      /\ stored[c] \in Partial(Ids, Fin(Machine)) /\ batch[c] \in Batch
    BY LocalFacts
<1> QED BY <1>4, <1>5, <1>6, <1>7, <1>8, RestOfTypes

\* What Build does when it does not throw.
Built(c, i, g, new, ip) ==
    /\ pc[c] = "build" /\ todo[c] # <<>> /\ i = Head(todo[c]) /\ i \in Item
    /\ GrownBy(net[c], g, new, i.node)
    /\ ip \in IpChoices(g, i.node, i.ip)
    /\ Now(c, IF Len(todo[c]) = 1 THEN "handle" ELSE "build", call[c], ReserveIp(g, i.node, ip),
           stored[c], Tail(todo[c]), GrownBatch(batch[c], new, i.node, [name |-> i.machine, ip |-> ip]))
    /\ UNCHANGED <<contract, info, stale, clean>>

LEMMA BuildShape ==
    ASSUME TypeInv, NEW c \in Calls, Build(c)
    PROVE  Throw(c) \/ \E i, g, new, ip : Built(c, i, g, new, ip)
<1> DEFINE i == Head(todo[c])
           outcomes == CreateOn(At(c), i, call[c].access)
<1>1. pc[c] = "build" /\ todo[c] # <<>>
    BY DEF Build
<1>2. CASE outcomes = {}
    BY <1>2 DEF Build
<1>3. CASE outcomes # {}
  <2>1. PICK o \in outcomes :
          /\ net' = [net EXCEPT ![c] = o.net] /\ batch' = [batch EXCEPT ![c] = o.batch]
          /\ todo' = [todo EXCEPT ![c] = Tail(todo[c])]
          /\ pc' = [pc EXCEPT ![c] = IF Len(todo[c]) = 1 THEN "handle" ELSE "build"]
          /\ UNCHANGED <<contract, info, call, stored, stale, clean>>
      BY <1>3 DEF Build, Goto
  <2>2. todo[c] \in Seq(Item)
      BY <1>1, LocalFacts DEF Stage
  <2>3. i \in Item
      BY <1>1, <2>2
  <2>4. At(c).net = net[c] /\ At(c).batch = batch[c] /\ net[c] \in Network
      BY LocalFacts DEF At
  <2> DEFINE at == At(c)
  <2>7. at.net \in Network /\ o \in CreateOn(at, i, call[c].access)
      BY <2>4
  <2>5. PICK g, new, ip : Outcome(at, i, o, g, new, ip)
    <3> HIDE DEF i, at
    <3> QED BY <2>3, <2>7, CreateOnFacts
  <2>6. Built(c, i, g, new, ip)
    <3> HIDE DEF i
    <3>1. call' = [call EXCEPT ![c] = call[c]] /\ stored' = [stored EXCEPT ![c] = stored[c]]
        BY <2>1, LocalFacts
    <3>2. i = Head(todo[c])
        BY DEF i
    <3> QED BY <1>1, <2>1, <2>3, <2>4, <2>5, <3>1, <3>2 DEF Built, Now, Outcome
  <2> QED BY <2>6
<1> QED BY <1>2, <1>3

\* The Network object and the batch after that.
LEMMA BuiltFacts ==
    ASSUME TypeInv, NEW c \in Calls, NEW i, NEW g, NEW new, NEW ip, Built(c, i, g, new, ip)
    PROVE  LET x == i.node
               n == net'[c]
               b == batch'[c]
               m == [name |-> i.machine, ip |-> ip]
           IN /\ TypeInv'
              /\ x \in Nodes /\ ip \in Address /\ m \in Machine
              /\ n.nets = g.nets /\ x \in DOMAIN g.nets
              /\ n.points = g.points /\ n.access = g.access
              /\ \A z \in DOMAIN g.nets \ {x} : n.nodes[z] = g.nodes[z]
              /\ n.nodes[x].contract = g.nodes[x].contract
              /\ n.nodes[x].ips = g.nodes[x].ips \cup {ip}
              /\ ip.subnet = g.nets[x].subnet /\ ip \notin g.nodes[x].ips
              /\ Grew(batch[c], new, x, m, b)
<1> DEFINE x == i.node
           m == [name |-> i.machine, ip |-> ip]
           n == ReserveIp(g, x, ip)
           b == GrownBatch(batch[c], new, x, m)
           p == IF Len(todo[c]) = 1 THEN "handle" ELSE "build"
<1>1. /\ pc[c] = "build" /\ todo[c] # <<>> /\ i = Head(todo[c]) /\ i \in Item
      /\ GrownBy(net[c], g, new, x) /\ ip \in IpChoices(g, x, i.ip)
      /\ Now(c, p, call[c], n, stored[c], Tail(todo[c]), b)
      /\ UNCHANGED <<contract, info, stale, clean>>
    BY DEF Built
<1>2. /\ call[c] \in Request \cup {NoRequest} /\ net[c] \in Network
      /\ stored[c] \in Partial(Ids, Fin(Machine)) /\ batch[c] \in Batch
      /\ Stage("build", call[c], net[c], todo[c], batch[c])
    BY <1>1, LocalFacts
<1>3. /\ g \in Network /\ Extends(net[c], g) /\ new \in SUBSET Nodes
      /\ DOMAIN g.nets = DOMAIN net[c].nets \cup new /\ x \in DOMAIN g.nets
    BY <1>1 DEF GrownBy
<1>4. x \in Nodes /\ i.ip \in Address /\ i.machine \in Machines
    BY <1>1 DEF Item, Address
<1>5. ip \in Address /\ ip.subnet = g.nets[x].subnet /\ ip \notin g.nodes[x].ips
  <2> HIDE DEF x
  <2> QED BY <1>1, <1>3, <1>4, IpChoicesFacts
<1>6. m \in Machine
    BY <1>4, <1>5 DEF Machine
<1> HIDE DEF x, m
<1>7. /\ n \in Network /\ n.nets = g.nets /\ n.points = g.points /\ n.access = g.access
      /\ \A z \in DOMAIN g.nets \ {x} : n.nodes[z] = g.nodes[z]
      /\ n.nodes[x].contract = g.nodes[x].contract
      /\ n.nodes[x].ips = g.nodes[x].ips \cup {ip}
  <2>1. n = ReserveIp(g, x, ip)
      OBVIOUS
  <2> HIDE DEF n
  <2> QED BY <1>3, <1>5, <2>1, ReserveIpFacts
<1>8. b \in Batch /\ Grew(batch[c], new, x, m, b)
  <2>1. b = GrownBatch(batch[c], new, x, m)
      OBVIOUS
  <2> HIDE DEF b
  <2> QED BY <1>2, <1>3, <1>4, <1>6, <2>1, GrownBatchFacts
<1> HIDE DEF n, b
<1>9. Stage(p, call[c], n, Tail(todo[c]), b) /\ p \in Labels
  <2>1. Tail(todo[c]) \in Seq(Item) /\ call[c].op # "delete"
      BY <1>1, <1>2 DEF Stage
  <2>2. DOMAIN b.create \subseteq DOMAIN n.nets
      BY <1>2, <1>3, <1>7, <1>8 DEF Stage, Grew
  <2>3. \A z \in DOMAIN n.nets : n.nodes[z].contract <= MaxId
    <3>1. \A z \in DOMAIN g.nets : n.nodes[z].contract = g.nodes[z].contract
        BY <1>7
    <3>2. \A z \in DOMAIN net[c].nets : g.nodes[z].contract <= MaxId
        BY <1>2, <1>3 DEF Stage, Extends
    <3>3. \A z \in DOMAIN g.nets \ DOMAIN net[c].nets : g.nodes[z].contract = 0
        BY <1>3 DEF Extends
    <3> QED BY <1>7, <3>1, <3>2, <3>3
  <2> QED BY <2>1, <2>2, <2>3 DEF Stage, Labels
<1>10. /\ contract' \in [Ids -> ContractEntry] /\ info' \in Partial(Nodes, InfoEntry)
       /\ stale' \in SUBSET Calls /\ clean' \in BOOLEAN
    BY <1>1 DEF TypeInv
<1> HIDE DEF p
<1>11. TypeInv'
    BY <1>1, <1>2, <1>7, <1>8, <1>9, <1>10, RestOfTypes
<1>12. net'[c] = n /\ batch'[c] = b
    BY <1>1, <1>2, <1>7, <1>8, <1>9, OneMoves
<1> QED BY <1>3, <1>4, <1>5, <1>6, <1>7, <1>8, <1>11, <1>12 DEF x, m

\* A Network object and a batch of a deletion, after more of it.
Shrunk(n, o) ==
    /\ o \in Network /\ DOMAIN o.nets \subseteq DOMAIN n.nets
    /\ \A z \in DOMAIN o.nets : o.nets[z] = n.nets[z] /\ o.nodes[z].contract = n.nodes[z].contract
Trimmed(b, o) ==
    /\ o \in Batch /\ o.create = b.create /\ o.touch = b.touch /\ o.id = b.id /\ o.rest = b.rest

\* The network workload of another contract goes, or the contract with it.
LEMMA DropFacts ==
    ASSUME TypeInv, NEW c \in Calls, NEW b \in Batch, NEW id, NEW o, o = Drop(c, b, id)
    PROVE  /\ Trimmed(b, o) /\ o.subnet = b.subnet /\ o.ips = b.ips /\ o.left = b.left
           /\ o.delete = b.delete \cup {i \in DOMAIN stored[c] : i = id /\ stored[c][i] = {}}
           /\ o.strip = b.strip \cup {i \in DOMAIN stored[c] : i = id /\ stored[c][i] # {}}
<1>1. DOMAIN stored[c] \in SUBSET Ids
  <2>1. stored[c] \in Partial(Ids, Fin(Machine))
      BY LocalFacts
  <2> QED BY <2>1, PartialFacts
<1>2. CASE id \notin DOMAIN stored[c]
  <2>1. o = b
      BY <1>2 DEF Drop
  <2> QED BY <1>2, <2>1 DEF Trimmed
<1>3. CASE id \in DOMAIN stored[c] /\ stored[c][id] = {}
  <2>1. o = [b EXCEPT !.delete = b.delete \cup {id}] /\ id \in Nat
      BY <1>1, <1>3 DEF Drop, Ids
  <2>2. b.delete \cup {id} \in SUBSET Nat
      BY <2>1, BatchFacts
  <2> QED BY <1>3, <2>1, <2>2 DEF Trimmed, Batch
<1>4. CASE id \in DOMAIN stored[c] /\ stored[c][id] # {}
  <2>1. o = [b EXCEPT !.strip = b.strip \cup {id}] /\ id \in Nat
      BY <1>1, <1>4 DEF Drop, Ids
  <2>2. b.strip \cup {id} \in SUBSET Nat
      BY <2>1, BatchFacts
  <2> QED BY <1>4, <2>1, <2>2 DEF Trimmed, Batch
<1> QED BY <1>2, <1>3, <1>4

\* The node of a deleted machine leaves.
LEMMA LeaveNodeFacts ==
    ASSUME TypeInv, NEW c \in Calls, NEW n, NEW b \in Batch, NEW x, NEW o, o = LeaveNode(c, n, b, x)
    PROVE  /\ Trimmed(b, o) /\ o.ips = b.ips
           /\ Contract(n, x) # b.id => o = Drop(c, b, Contract(n, x))
           /\ Contract(n, x) = b.id =>
                /\ o.subnet = 0 /\ o.strip = b.strip
                /\ o.delete = b.delete \cup (IF b.rest = {} THEN {b.id} ELSE {})
<1>1. CASE Contract(n, x) # b.id
  <2>1. o = Drop(c, b, Contract(n, x))
      BY <1>1 DEF LeaveNode
  <2> QED BY <1>1, <2>1, DropFacts
<1>2. CASE Contract(n, x) = b.id /\ b.rest = {}
  <2>1. o = [b EXCEPT !.delete = b.delete \cup {b.id}, !.subnet = 0]
      BY <1>2 DEF LeaveNode
  <2>2. b.delete \cup {b.id} \in SUBSET Nat /\ b.strip \in SUBSET Nat
      BY BatchFacts
  <2>3. /\ o.delete = b.delete \cup {b.id} /\ o.subnet = 0 /\ o.strip = b.strip /\ o.ips = b.ips
        /\ o.create = b.create /\ o.touch = b.touch /\ o.id = b.id /\ o.rest = b.rest
      BY <2>1 DEF Batch
  <2> DEFINE d == [b EXCEPT !.delete = b.delete \cup {b.id}]
  <2>4. o = [d EXCEPT !.subnet = 0]
      BY <2>1
  <2>5. d \in Batch
      BY <2>2 DEF Batch
  <2> HIDE DEF d
  <2>6. o \in Batch
      BY <2>4, <2>5 DEF Batch
  <2> QED BY <1>2, <2>3, <2>6 DEF Trimmed
<1>3. CASE Contract(n, x) = b.id /\ b.rest # {}
  <2>1. o = [b EXCEPT !.subnet = 0, !.left = TRUE]
      BY <1>3 DEF LeaveNode
  <2>2. /\ o.delete = b.delete /\ o.subnet = 0 /\ o.strip = b.strip /\ o.ips = b.ips
        /\ o.create = b.create /\ o.touch = b.touch /\ o.id = b.id /\ o.rest = b.rest
      BY <2>1 DEF Batch
  <2> DEFINE d == [b EXCEPT !.left = TRUE]
  <2>3. o = [d EXCEPT !.subnet = 0]
      BY <2>1
  <2>4. d \in Batch
      BY DEF Batch
  <2> HIDE DEF d
  <2>5. o \in Batch
      BY <2>3, <2>4 DEF Batch
  <2> QED BY <1>3, <2>2, <2>5 DEF Trimmed
<1> QED BY <1>1, <1>2, <1>3

LEMMA GoneFacts ==
    ASSUME NEW n \in Network, NEW x, NEW o, o = Gone(n, x)
    PROVE  /\ Shrunk(n, o)
           /\ \A z \in DOMAIN o.nets : o.nodes[z] = n.nodes[z]
           /\ DOMAIN o.nets = IF Exists THEN DOMAIN n.nets \ {x} ELSE DOMAIN n.nets
<1>1. CASE Exists
  <2>1. o = DeleteNode(n, x)
      BY <1>1 DEF Gone
  <2>2. /\ o \in Network /\ DOMAIN o.nets = DOMAIN n.nets \ {x}
        /\ \A z \in DOMAIN o.nets : o.nets[z] = n.nets[z] /\ o.nodes[z] = n.nodes[z]
      BY <2>1, DeleteNodeFacts
  <2> QED BY <1>1, <2>2 DEF Shrunk
<1>2. CASE ~Exists
  <2>1. o = n
      BY <1>2 DEF Gone
  <2> QED BY <1>2, <2>1 DEF Shrunk
<1> QED BY <1>1, <1>2

\* Remove, by parts: the Network object without the address of the machine, the
\* batch in which the contract goes when it has nothing else, whether the node
\* stays in the network, and what there is when it leaves.
Home(c) == contract[batch[c].id].node
FreedNet(c) == FreeReservedIp(net[c], Home(c), Head(todo[c]).ip)
Emptied(c) ==
    IF batch[c].rest = {} /\ batch[c].subnet = 0
    THEN [batch[c] EXCEPT !.delete = @ \cup {batch[c].id}] ELSE batch[c]
Stays(c) ==
    \/ Ips(FreedNet(c), Home(c)) # {}
    \/ HasAccessPoint(FreedNet(c), Home(c)) /\ Cardinality(DOMAIN FreedNet(c).nodes) # 1
LeftNet(c) == Gone(FreedNet(c), Home(c))
LeftBatch(c) == LeaveNode(c, FreedNet(c), Emptied(c), Home(c))
Left(c) == [net |-> LeftNet(c), batch |-> LeftBatch(c)]
StayBatch(c) == [Emptied(c) EXCEPT !.ips = @ \cup {Head(todo[c]).ip}]
AfterRemove(c) ==
    IF Stays(c) THEN [net |-> FreedNet(c), batch |-> StayBatch(c)] ELSE LeaveLast(c, Left(c))
Label(c) == IF Len(todo[c]) = 1 THEN "rest" ELSE "remove"

LEMMA RemoveShape ==
    ASSUME TypeInv, NEW c \in Calls, Remove(c)
    PROVE  /\ pc[c] = "remove"
           /\ Now(c, Label(c), call[c], AfterRemove(c).net, stored[c], Tail(todo[c]), AfterRemove(c).batch)
           /\ UNCHANGED <<contract, info, stale, clean>>
<1>1. /\ pc[c] = "remove" /\ net' = [net EXCEPT ![c] = AfterRemove(c).net]
      /\ batch' = [batch EXCEPT ![c] = AfterRemove(c).batch]
    BY DEF Remove, AfterRemove, Left, LeftNet, LeftBatch, StayBatch, Stays, Emptied, FreedNet, Home
<1>2. /\ todo' = [todo EXCEPT ![c] = Tail(todo[c])] /\ pc' = [pc EXCEPT ![c] = Label(c)]
      /\ UNCHANGED <<contract, info, call, stored, stale, clean>>
    BY DEF Remove, Goto, Label
<1>3. [call EXCEPT ![c] = call[c]] = call /\ [stored EXCEPT ![c] = stored[c]] = stored
    BY LocalFacts
<1> QED BY <1>1, <1>2, <1>3 DEF Now

\* The last node leaves with the one that does, if there is such.
LEMMA LeaveLastFacts ==
    ASSUME NEW c, NEW at, NEW o, o = LeaveLast(c, at)
    PROVE  \/ Unused(at.net) = {} /\ o = at
           \/ \E y \in Unused(at.net) : /\ o.net = Gone(at.net, y)
                                        /\ o.batch = Drop(c, at.batch, Contract(at.net, y))
<1>1. CASE Unused(at.net) = {}
    BY <1>1 DEF LeaveLast
<1>2. CASE Unused(at.net) # {}
  <2> DEFINE y == CHOOSE x \in Unused(at.net) : TRUE
  <2>1. y \in Unused(at.net)
      BY <1>2
  <2>2. o = [net |-> Gone(at.net, y), batch |-> Drop(c, at.batch, Contract(at.net, y))]
      BY <1>2 DEF LeaveLast
  <2> HIDE DEF y
  <2>3. o.net = Gone(at.net, y) /\ o.batch = Drop(c, at.batch, Contract(at.net, y))
      BY <2>2
  <2> QED BY <2>1, <2>3
<1> QED BY <1>1, <1>2

LEMMA ShrunkTransitive ==
    ASSUME NEW l, NEW n, NEW o, Shrunk(l, n), Shrunk(n, o)
    PROVE  Shrunk(l, o)
<1>1. DOMAIN o.nets \subseteq DOMAIN n.nets /\ DOMAIN n.nets \subseteq DOMAIN l.nets /\ o \in Network
    BY DEF Shrunk
<1>2. ASSUME NEW z \in DOMAIN o.nets
      PROVE  o.nets[z] = l.nets[z] /\ o.nodes[z].contract = l.nodes[z].contract
  <2>1. o.nets[z] = n.nets[z] /\ o.nodes[z].contract = n.nodes[z].contract
      BY DEF Shrunk
  <2>2. n.nets[z] = l.nets[z] /\ n.nodes[z].contract = l.nodes[z].contract
      BY <1>1 DEF Shrunk
  <2> QED BY <2>1, <2>2
<1> QED BY <1>1, <1>2 DEF Shrunk

LEMMA TrimmedTransitive ==
    ASSUME NEW a, NEW b, NEW o, Trimmed(a, b), Trimmed(b, o)
    PROVE  Trimmed(a, o)
BY DEF Trimmed

\* The parts of Remove.
LEMMA PartsFacts ==
    ASSUME TypeInv, NEW c \in Calls, pc[c] = "remove"
    PROVE  /\ Head(todo[c]) \in Machine
           /\ Shrunk(net[c], FreedNet(c)) /\ DOMAIN FreedNet(c).nets = DOMAIN net[c].nets
           /\ DOMAIN FreedNet(c).nodes = DOMAIN net[c].nets
           /\ FreedNet(c).points = net[c].points
           /\ \A z \in DOMAIN net[c].nets : z # Home(c) => FreedNet(c).nodes[z] = net[c].nodes[z]
           /\ Home(c) \in DOMAIN net[c].nets =>
                FreedNet(c).nodes[Home(c)].ips = net[c].nodes[Home(c)].ips \ {Head(todo[c]).ip}
           /\ Trimmed(batch[c], Emptied(c)) /\ Emptied(c).subnet = batch[c].subnet
           /\ Emptied(c).ips = batch[c].ips /\ Emptied(c).strip = batch[c].strip
           /\ Emptied(c).delete = batch[c].delete \cup
                (IF batch[c].rest = {} /\ batch[c].subnet = 0 THEN {batch[c].id} ELSE {})
<1>1. net[c] \in Network /\ batch[c] \in Batch /\ Stage("remove", call[c], net[c], todo[c], batch[c])
    BY LocalFacts
<1>2. Head(todo[c]) \in Machine
  <2>1. todo[c] \in Seq(Machine) /\ todo[c] # <<>>
      BY <1>1 DEF Stage
  <2> QED BY <2>1
<1>3. /\ FreedNet(c) \in Network /\ FreedNet(c).nets = net[c].nets /\ FreedNet(c).points = net[c].points
      /\ DOMAIN FreedNet(c).nodes = DOMAIN net[c].nodes
      /\ \A z \in DOMAIN net[c].nets : /\ z # Home(c) => FreedNet(c).nodes[z] = net[c].nodes[z]
                                       /\ FreedNet(c).nodes[z].contract = net[c].nodes[z].contract
      /\ Home(c) \in DOMAIN net[c].nets =>
           FreedNet(c).nodes[Home(c)].ips = net[c].nodes[Home(c)].ips \ {Head(todo[c]).ip}
  <2>1. PICK n \in Network : n = net[c]
      BY <1>1
  <2>2. PICK o : o = FreedNet(c)
      OBVIOUS
  <2>3. o = FreeReservedIp(n, Home(c), Head(todo[c]).ip)
      BY <2>1, <2>2 DEF FreedNet
  <2>4. /\ o \in Network /\ o.nets = n.nets /\ o.points = n.points
        /\ DOMAIN o.nodes = DOMAIN n.nodes
        /\ \A z \in DOMAIN n.nets : /\ z # Home(c) => o.nodes[z] = n.nodes[z]
                                    /\ o.nodes[z].contract = n.nodes[z].contract
        /\ Home(c) \in DOMAIN n.nets => o.nodes[Home(c)].ips = n.nodes[Home(c)].ips \ {Head(todo[c]).ip}
      BY <2>3, FreeReservedIpFacts
  <2> QED BY <2>1, <2>2, <2>4
<1>4. Shrunk(net[c], FreedNet(c)) /\ DOMAIN FreedNet(c).nodes = DOMAIN net[c].nets
    BY <1>1, <1>3, NetworkFacts DEF Shrunk
<1>5. CASE batch[c].rest = {} /\ batch[c].subnet = 0
  <2>1. Emptied(c) = [batch[c] EXCEPT !.delete = batch[c].delete \cup {batch[c].id}]
      BY <1>5 DEF Emptied
  <2>2. batch[c].delete \cup {batch[c].id} \in SUBSET Nat
      BY <1>1, BatchFacts
  <2>3. /\ Trimmed(batch[c], Emptied(c)) /\ Emptied(c).subnet = batch[c].subnet
        /\ Emptied(c).ips = batch[c].ips /\ Emptied(c).strip = batch[c].strip
        /\ Emptied(c).delete = batch[c].delete \cup {batch[c].id}
      BY <1>1, <2>1, <2>2 DEF Trimmed, Batch
  <2> QED BY <1>2, <1>3, <1>4, <1>5, <2>3
<1>6. CASE ~(batch[c].rest = {} /\ batch[c].subnet = 0)
  <2>1. Emptied(c) = batch[c]
      BY <1>6 DEF Emptied
  <2>2. Trimmed(batch[c], Emptied(c))
      BY <1>1, <2>1 DEF Trimmed
  <2> QED BY <1>2, <1>3, <1>4, <1>6, <2>1, <2>2
<1> QED BY <1>5, <1>6

\* The batch of a node that stays has the address that was freed.
LEMMA StayBatchFacts ==
    ASSUME TypeInv, NEW c \in Calls, pc[c] = "remove"
    PROVE  /\ Trimmed(batch[c], StayBatch(c)) /\ StayBatch(c).subnet = batch[c].subnet
           /\ StayBatch(c).ips = batch[c].ips \cup {Head(todo[c]).ip}
           /\ StayBatch(c).delete = Emptied(c).delete /\ StayBatch(c).strip = batch[c].strip
<1>1. /\ Trimmed(batch[c], Emptied(c)) /\ Emptied(c).subnet = batch[c].subnet
      /\ Emptied(c).ips = batch[c].ips /\ Emptied(c).strip = batch[c].strip
      /\ Head(todo[c]) \in Machine
    BY PartsFacts
<1>2. StayBatch(c) = [Emptied(c) EXCEPT !.ips = Emptied(c).ips \cup {Head(todo[c]).ip}]
    BY DEF StayBatch
<1>3. Emptied(c) \in Batch /\ Emptied(c).ips \cup {Head(todo[c]).ip} \in SUBSET Address
    BY <1>1 DEF Trimmed, Batch, Machine
<1>4. /\ StayBatch(c) \in Batch /\ StayBatch(c).ips = Emptied(c).ips \cup {Head(todo[c]).ip}
      /\ StayBatch(c).create = Emptied(c).create /\ StayBatch(c).touch = Emptied(c).touch
      /\ StayBatch(c).id = Emptied(c).id /\ StayBatch(c).rest = Emptied(c).rest
      /\ StayBatch(c).subnet = Emptied(c).subnet /\ StayBatch(c).delete = Emptied(c).delete
      /\ StayBatch(c).strip = Emptied(c).strip
    BY <1>2, <1>3 DEF Batch
<1> QED BY <1>1, <1>4 DEF Trimmed

LEMMA RemovedFacts ==
    ASSUME TypeInv, NEW c \in Calls, pc[c] = "remove"
    PROVE  Shrunk(net[c], AfterRemove(c).net) /\ Trimmed(batch[c], AfterRemove(c).batch)
<1>1. Shrunk(net[c], FreedNet(c)) /\ FreedNet(c) \in Network
    BY PartsFacts DEF Shrunk
<1>2. Trimmed(batch[c], Emptied(c)) /\ Emptied(c) \in Batch
    BY PartsFacts DEF Trimmed
<1>3. CASE Stays(c)
  <2>1. AfterRemove(c) = [net |-> FreedNet(c), batch |-> StayBatch(c)]
      BY <1>3 DEF AfterRemove
  <2>2. AfterRemove(c).net = FreedNet(c) /\ AfterRemove(c).batch = StayBatch(c)
      BY <2>1
  <2> QED BY <1>1, <2>2, StayBatchFacts
<1>4. CASE ~Stays(c)
  <2>1. Left(c).net = LeftNet(c) /\ Left(c).batch = LeftBatch(c)
      BY DEF Left
  <2>2. Shrunk(FreedNet(c), LeftNet(c))
      BY <1>1, GoneFacts DEF LeftNet
  <2>3. Shrunk(net[c], LeftNet(c)) /\ LeftNet(c) \in Network
      BY <1>1, <2>2, ShrunkTransitive DEF Shrunk
  <2>4. Trimmed(Emptied(c), LeftBatch(c))
      BY <1>2, LeaveNodeFacts DEF LeftBatch
  <2>5. Trimmed(batch[c], LeftBatch(c)) /\ LeftBatch(c) \in Batch
      BY <1>2, <2>4, TrimmedTransitive DEF Trimmed
  <2>6. PICK o : o = AfterRemove(c)
      OBVIOUS
  <2>7. o = LeaveLast(c, Left(c))
      BY <1>4, <2>6 DEF AfterRemove
  <2>8. CASE o = Left(c)
      BY <2>1, <2>3, <2>5, <2>6, <2>8
  <2>9. ASSUME NEW y, o.net = Gone(LeftNet(c), y), o.batch = Drop(c, LeftBatch(c), Contract(LeftNet(c), y))
        PROVE  Shrunk(net[c], o.net) /\ Trimmed(batch[c], o.batch)
    <3>1. Shrunk(LeftNet(c), o.net)
        BY <2>3, <2>9, GoneFacts
    <3>2. Trimmed(LeftBatch(c), o.batch)
        BY <2>5, <2>9, DropFacts
    <3> QED BY <2>3, <2>5, <3>1, <3>2, ShrunkTransitive, TrimmedTransitive
  <2> QED BY <2>1, <2>6, <2>7, <2>8, <2>9, LeaveLastFacts
<1> QED BY <1>3, <1>4

LEMMA RemoveTypes ==
    ASSUME TypeInv, NEW c \in Calls, Remove(c)
    PROVE  TypeInv'
<1> DEFINE n == AfterRemove(c).net
           b == AfterRemove(c).batch
           t == Tail(todo[c])
<1>1. /\ pc[c] = "remove" /\ Now(c, Label(c), call[c], n, stored[c], t, b)
      /\ UNCHANGED <<contract, info, stale, clean>>
    BY RemoveShape
<1>2. Shrunk(net[c], n) /\ Trimmed(batch[c], b)
    BY <1>1, RemovedFacts
<1>3. /\ call[c] \in Request \cup {NoRequest} /\ stored[c] \in Partial(Ids, Fin(Machine))
      /\ Stage("remove", call[c], net[c], todo[c], batch[c])
    BY <1>1, LocalFacts
<1> HIDE DEF n, b
<1>4. Stage(Label(c), call[c], n, t, b) /\ Label(c) \in Labels
  <2>1. call[c].op = "delete" /\ todo[c] \in Seq(Machine) /\ todo[c] # <<>>
      BY <1>3 DEF Stage
  <2>2. t \in Seq(Machine) /\ (Label(c) = "remove" => t # <<>>)
      BY <2>1, TailFacts DEF Label
  <2>3. \A z \in DOMAIN n.nets : n.nodes[z].contract <= MaxId
      BY <1>2, <1>3 DEF Shrunk, Stage
  <2>4. DOMAIN b.create = {}
      BY <1>2, <1>3, <2>1 DEF Stage, Trimmed
  <2>5. Label(c) \in {"remove", "rest"}
      BY DEF Label
  <2> HIDE DEF t
  <2> QED BY <2>1, <2>2, <2>3, <2>4, <2>5 DEF Stage, Labels
<1>5. n \in Network /\ b \in Batch
    BY <1>2 DEF Shrunk, Trimmed
<1>6. /\ contract' \in [Ids -> ContractEntry] /\ info' \in Partial(Nodes, InfoEntry)
      /\ stale' \in SUBSET Calls /\ clean' \in BOOLEAN
    BY <1>1 DEF TypeInv
<1> HIDE DEF t
<1> QED BY <1>1, <1>3, <1>4, <1>5, <1>6, RestOfTypes

LEMMA RestTypes ==
    ASSUME TypeInv, NEW c \in Calls, Rest(c)
    PROVE  /\ TypeInv' /\ pc[c] = "rest"
           /\ \/ Throw(c)
              \/ /\ \E p \in {"load", "handle"} :
                      /\ Now(c, p, call[c], net[c], stored[c], todo[c], batch[c])
                      /\ p = "load" <=> (batch[c].subnet # 0 /\ batch[c].delete \cup batch[c].strip = {})
                 /\ UNCHANGED <<contract, info, stale, clean>>
<1> DEFINE p == IF batch[c].subnet # 0 /\ batch[c].delete \cup batch[c].strip = {} THEN "load" ELSE "handle"
<1>1. pc[c] = "rest"
    BY DEF Rest
<1>2. CASE Throw(c)
    BY <1>1, <1>2, ThrowTypes
<1>3. CASE ~Throw(c)
  <2>1. pc' = [pc EXCEPT ![c] = p] /\ UNCHANGED <<contract, info, call, net, stored, todo, batch, stale, clean>>
      BY <1>3 DEF Rest, Goto, local
  <2>2. Now(c, p, call[c], net[c], stored[c], todo[c], batch[c])
      BY <2>1, LocalFacts DEF Now
  <2>3. /\ call[c] \in Request \cup {NoRequest} /\ net[c] \in Network
        /\ stored[c] \in Partial(Ids, Fin(Machine)) /\ batch[c] \in Batch
        /\ Stage("rest", call[c], net[c], todo[c], batch[c])
      BY <1>1, LocalFacts
  <2>4. /\ p \in {"load", "handle"}
        /\ p = "load" <=> (batch[c].subnet # 0 /\ batch[c].delete \cup batch[c].strip = {})
      OBVIOUS
  <2> HIDE DEF p
  <2>5. Stage(p, call[c], net[c], todo[c], batch[c]) /\ p \in Labels
      BY <2>3, <2>4 DEF Stage, Labels
  <2>6. /\ contract' \in [Ids -> ContractEntry] /\ info' \in Partial(Nodes, InfoEntry)
        /\ stale' \in SUBSET Calls /\ clean' \in BOOLEAN
      BY <2>1 DEF TypeInv
  <2>7. TypeInv'
      BY <2>2, <2>3, <2>5, <2>6, RestOfTypes
  <2>8. UNCHANGED <<contract, info, stale, clean>>
      BY <2>1
  <2> QED BY <1>1, <2>2, <2>4, <2>7, <2>8
<1> QED BY <1>2, <1>3

LEMMA FreeIpsTypes ==
    ASSUME TypeInv, NEW c \in Calls, FreeIps(c)
    PROVE  /\ TypeInv' /\ pc[c] = "free"
           /\ Now(c, "handle", call[c], WithoutIps(net[c], Home(c), batch[c].ips), stored[c], todo[c], batch[c])
           /\ UNCHANGED <<contract, info, stale, clean>>
<1> DEFINE o == WithoutIps(net[c], Home(c), batch[c].ips)
<1>1. /\ pc[c] = "free" /\ net' = [net EXCEPT ![c] = o] /\ pc' = [pc EXCEPT ![c] = "handle"]
      /\ UNCHANGED <<contract, info, call, stored, todo, batch, stale, clean>>
    BY DEF FreeIps, Goto, WithoutIps, WithIps, Home
<1>2. /\ call[c] \in Request \cup {NoRequest} /\ net[c] \in Network
      /\ stored[c] \in Partial(Ids, Fin(Machine)) /\ batch[c] \in Batch
      /\ Stage("free", call[c], net[c], todo[c], batch[c])
    BY <1>1, LocalFacts
<1>3. /\ o \in Network /\ o.nets = net[c].nets
      /\ \A z \in DOMAIN net[c].nets : o.nodes[z].contract = net[c].nodes[z].contract
  <2>1. PICK n \in Network : n = net[c]
      BY <1>2
  <2>2. PICK S : S = batch[c].ips
      OBVIOUS
  <2>3. o = WithoutIps(n, Home(c), S)
      BY <2>1, <2>2
  <2> HIDE DEF o
  <2>4. /\ o \in Network /\ o.nets = n.nets
        /\ \A z \in DOMAIN n.nets : o.nodes[z].contract = n.nodes[z].contract
      BY <2>3, WithoutIpsFacts
  <2> QED BY <2>1, <2>4
<1> HIDE DEF o
<1>4. Now(c, "handle", call[c], o, stored[c], todo[c], batch[c])
    BY <1>1, LocalFacts DEF Now
<1>5. Stage("handle", call[c], o, todo[c], batch[c]) /\ "handle" \in Labels
    BY <1>2, <1>3 DEF Stage, Labels
<1>6. /\ contract' \in [Ids -> ContractEntry] /\ info' \in Partial(Nodes, InfoEntry)
      /\ stale' \in SUBSET Calls /\ clean' \in BOOLEAN
    BY <1>1 DEF TypeInv
<1>7. TypeInv'
    BY <1>2, <1>3, <1>4, <1>5, <1>6, RestOfTypes
<1> QED BY <1>1, <1>4, <1>7 DEF o
-----------------------------------------------------------------------------
(***************************************************************************)
(* handle() and the saves.                                                 *)
(***************************************************************************)
\* The cases of what becomes of a deployment.
Touched(c, id) ==
    IF batch[c].touch /\ id \in DOMAIN stored[c]
    THEN [contract[id] EXCEPT !.machines = stored[c][id], !.peers = PeersOf(net[c], contract[id].node)]
    ELSE contract[id]
Joins(c, id, x) ==
    [Touched(c, id) EXCEPT
        !.machines = @ \cup batch[c].create[x].machines,
        !.subnet = IF batch[c].create[x].net THEN net[c].nets[x].subnet ELSE @,
        !.peers = IF batch[c].create[x].net THEN net[c].nets[x].peers ELSE @]
Fresh(c, x) ==
    [state |-> "created", name |-> call[c].name, node |-> x,
     subnet |-> IF batch[c].create[x].net THEN net[c].nets[x].subnet ELSE 0,
     peers |-> IF batch[c].create[x].net THEN net[c].nets[x].peers ELSE {},
     machines |-> batch[c].create[x].machines]

LEMMA AfterDelete ==
    ASSUME NEW c, NEW ids, NEW id \in batch[c].delete
    PROVE  AfterCall(c, ids, id) = [NoContract EXCEPT !.state = "deleted"]
BY DEF AfterCall

LEMMA AfterStrip ==
    ASSUME NEW c, NEW ids, NEW id \in batch[c].strip, id \notin batch[c].delete
    PROVE  AfterCall(c, ids, id) = [contract[id] EXCEPT !.subnet = 0, !.peers = {}]
BY DEF AfterCall

\* A deployment that is created or joined.
LEMMA AfterCreate ==
    ASSUME NEW c, NEW ids, NEW id, id \notin batch[c].delete, id \notin batch[c].strip,
           \E x \in DOMAIN ids : ids[x] = id
    PROVE  \E x \in DOMAIN ids :
             /\ ids[x] = id
             /\ AfterCall(c, ids, id) = IF contract[id].state = "free" THEN Fresh(c, x) ELSE Joins(c, id, x)
<1> DEFINE on == {x \in DOMAIN ids : ids[x] = id}
           x == CHOOSE y \in on : TRUE
<1>1. x \in on
    OBVIOUS
<1>2. AfterCall(c, ids, id) = IF contract[id].state = "free" THEN Fresh(c, x) ELSE Joins(c, id, x)
    BY DEF AfterCall, Fresh, Joins, Touched
<1> HIDE DEF x
<1> QED BY <1>1, <1>2

\* A deployment that a machine was deleted of, and all the others.
LEMMA AfterUpdate ==
    ASSUME NEW c, NEW ids, NEW id, id \notin batch[c].delete, id \notin batch[c].strip,
           \A x \in DOMAIN ids : ids[x] # id
    PROVE  AfterCall(c, ids, id) =
             IF id = batch[c].id
             THEN [contract[id] EXCEPT !.machines = batch[c].rest, !.subnet = batch[c].subnet]
             ELSE Touched(c, id)
<1>1. {x \in DOMAIN ids : ids[x] = id} = {}
    OBVIOUS
<1> QED BY <1>1 DEF AfterCall, Touched

LEMMA TouchedFacts ==
    ASSUME TypeInv, NEW c \in Calls, NEW id \in Ids
    PROVE  /\ Touched(c, id) \in ContractEntry
           /\ Touched(c, id).state = contract[id].state /\ Touched(c, id).name = contract[id].name
           /\ Touched(c, id).node = contract[id].node /\ Touched(c, id).subnet = contract[id].subnet
           /\ Touched(c, id).machines = IF batch[c].touch /\ id \in DOMAIN stored[c]
                                        THEN stored[c][id] ELSE contract[id].machines
           /\ Touched(c, id).peers = IF batch[c].touch /\ id \in DOMAIN stored[c]
                                     THEN PeersOf(net[c], contract[id].node) ELSE contract[id].peers
<1> DEFINE d == contract[id]
           P == PeersOf(net[c], d.node)
<1>1. d \in ContractEntry /\ stored[c] \in Partial(Ids, Fin(Machine)) /\ net[c] \in Network
    BY ContractFacts, LocalFacts
<1>2. CASE batch[c].touch /\ id \in DOMAIN stored[c]
  <2>1. P \in Fin(Peer)
    <3>1. CASE d.node \in DOMAIN net[c].nets
        BY <1>1, <3>1, NetworkFacts DEF PeersOf
    <3>2. CASE d.node \notin DOMAIN net[c].nets
        BY <3>2, FinFacts DEF PeersOf
    <3> QED BY <3>1, <3>2
  <2>2. stored[c][id] \in Fin(Machine)
      BY <1>1, <1>2, PartialFacts
  <2>3. Touched(c, id) = [d EXCEPT !.machines = stored[c][id], !.peers = P]
      BY <1>2 DEF Touched
  <2> HIDE DEF d, P
  <2>4. /\ Touched(c, id) \in ContractEntry
        /\ Touched(c, id).state = d.state /\ Touched(c, id).name = d.name
        /\ Touched(c, id).node = d.node /\ Touched(c, id).subnet = d.subnet
        /\ Touched(c, id).machines = stored[c][id] /\ Touched(c, id).peers = P
      BY <1>1, <2>1, <2>2, <2>3 DEF ContractEntry
  <2> QED BY <1>2, <2>4 DEF d, P
<1>3. CASE ~(batch[c].touch /\ id \in DOMAIN stored[c])
  <2>1. Touched(c, id) = d
      BY <1>3 DEF Touched
  <2> QED BY <1>1, <1>3, <2>1
<1> QED BY <1>2, <1>3

\* What the batch has for a node of which it creates the deployment.
LEMMA CreateFacts ==
    ASSUME TypeInv, NEW c \in Calls, pc[c] = "handle", NEW x \in DOMAIN batch[c].create
    PROVE  /\ x \in Nodes /\ x \in DOMAIN net[c].nets
           /\ batch[c].create[x].net \in BOOLEAN /\ batch[c].create[x].machines \in Fin(Machine)
           /\ net[c].nets[x].subnet \in Nat /\ net[c].nets[x].peers \in Fin(Peer)
<1>1. /\ net[c] \in Network /\ batch[c] \in Batch
      /\ Stage("handle", call[c], net[c], todo[c], batch[c])
    BY LocalFacts
<1>2. x \in DOMAIN net[c].nets
    BY <1>1 DEF Stage
<1>3. net[c].nets[x].subnet \in Nat /\ net[c].nets[x].peers \in Fin(Peer)
    BY <1>1, <1>2, NetworkFacts
<1>4. x \in Nodes /\ batch[c].create[x].net \in BOOLEAN /\ batch[c].create[x].machines \in Fin(Machine)
    BY <1>1, BatchFacts
<1> QED BY <1>2, <1>3, <1>4

LEMMA FreshFacts ==
    ASSUME TypeInv, NEW c \in Calls, pc[c] = "handle", NEW x \in DOMAIN batch[c].create
    PROVE  /\ Fresh(c, x) \in ContractEntry
           /\ Fresh(c, x).state = "created" /\ Fresh(c, x).node = x
           /\ Fresh(c, x).machines = batch[c].create[x].machines
           /\ Fresh(c, x).subnet = IF batch[c].create[x].net THEN net[c].nets[x].subnet ELSE 0
           /\ batch[c].create[x].net => Fresh(c, x).peers = net[c].nets[x].peers
<1> DEFINE s == IF batch[c].create[x].net THEN net[c].nets[x].subnet ELSE 0
           P == IF batch[c].create[x].net THEN net[c].nets[x].peers ELSE {}
           n == call[c].name
<1>1. s \in Nat
    BY CreateFacts
<1>2. P \in Fin(Peer)
    BY CreateFacts, FinFacts
<1>3. n \in Names \cup {""}
  <2>1. call[c] \in Request \cup {NoRequest}
      BY LocalFacts
  <2>2. CASE call[c] \in Request
      BY <2>2 DEF Request
  <2>3. CASE call[c] = NoRequest
    <3>1. NoRequest.name = ""
        BY DEF NoRequest
    <3> QED BY <2>3, <3>1
  <2> QED BY <2>1, <2>2, <2>3
<1>4. x \in Nodes /\ batch[c].create[x].machines \in Fin(Machine)
    BY CreateFacts
<1>5. Fresh(c, x) = [state |-> "created", name |-> n, node |-> x, subnet |-> s, peers |-> P,
                     machines |-> batch[c].create[x].machines]
    BY DEF Fresh
<1> DEFINE M == batch[c].create[x].machines
<1> HIDE DEF s, P, n, M
<1>6. Fresh(c, x) = [state |-> "created", name |-> n, node |-> x, subnet |-> s, peers |-> P, machines |-> M]
    BY <1>5 DEF M
<1>7. M \in Fin(Machine) /\ x \in Nodes
    BY <1>4 DEF M
<1>10. "created" \in {"free", "created", "deleted"} /\ x \in Nodes \cup {0}
    BY <1>7
<1>8. Fresh(c, x) \in ContractEntry
  <2>1. PICK y : y = x
      OBVIOUS
  <2>2. Fresh(c, x) = [state |-> "created", name |-> n, node |-> y, subnet |-> s, peers |-> P, machines |-> M]
      BY <1>6, <2>1
  <2>3. [state |-> "created", name |-> n, node |-> y, subnet |-> s, peers |-> P, machines |-> M] \in ContractEntry
      BY <1>1, <1>2, <1>3, <1>7, <1>10, <2>1 DEF ContractEntry
  <2> QED BY <2>2, <2>3
<1>9. /\ Fresh(c, x).state = "created" /\ Fresh(c, x).node = x /\ Fresh(c, x).machines = M
      /\ Fresh(c, x).subnet = s /\ Fresh(c, x).peers = P
    BY <1>6
<1> QED BY <1>8, <1>9 DEF s, M, P

LEMMA JoinsFacts ==
    ASSUME TypeInv, NEW c \in Calls, pc[c] = "handle", NEW id \in Ids, NEW x \in DOMAIN batch[c].create
    PROVE  /\ Joins(c, id, x) \in ContractEntry
           /\ Joins(c, id, x).state = contract[id].state /\ Joins(c, id, x).node = contract[id].node
           /\ Joins(c, id, x).machines = Touched(c, id).machines \cup batch[c].create[x].machines
           /\ Joins(c, id, x).subnet = IF batch[c].create[x].net THEN net[c].nets[x].subnet
                                       ELSE contract[id].subnet
           /\ Joins(c, id, x).peers = IF batch[c].create[x].net THEN net[c].nets[x].peers
                                      ELSE Touched(c, id).peers
<1> DEFINE t == Touched(c, id)
           s == IF batch[c].create[x].net THEN net[c].nets[x].subnet ELSE t.subnet
           P == IF batch[c].create[x].net THEN net[c].nets[x].peers ELSE t.peers
           M == t.machines \cup batch[c].create[x].machines
<1>1. /\ t \in ContractEntry /\ t.state = contract[id].state /\ t.node = contract[id].node
      /\ t.subnet = contract[id].subnet
    BY TouchedFacts
<1>2. Joins(c, id, x) = [t EXCEPT !.machines = M, !.subnet = s, !.peers = P]
    BY DEF Joins
<1> HIDE DEF t
<1>3. t.machines \in Fin(Machine) /\ t.subnet \in Nat /\ t.peers \in Fin(Peer)
    BY <1>1 DEF ContractEntry
<1>4. s \in Nat /\ P \in Fin(Peer)
    BY <1>3, CreateFacts
<1>5. M \in Fin(Machine)
  <2>1. batch[c].create[x].machines \in Fin(Machine)
      BY CreateFacts
  <2> QED BY <1>3, <2>1, FinFacts
<1> HIDE DEF s, P, M
<1>6. /\ Joins(c, id, x) \in ContractEntry
      /\ Joins(c, id, x).state = t.state /\ Joins(c, id, x).node = t.node
      /\ Joins(c, id, x).machines = M /\ Joins(c, id, x).subnet = s /\ Joins(c, id, x).peers = P
    BY <1>1, <1>2, <1>4, <1>5 DEF ContractEntry
<1> QED BY <1>1, <1>6 DEF t, s, M, P

\* The contracts of the nodes that the call works on.
LEMMA ContractIdsFacts ==
    ASSUME NEW c, NEW ids \in ContractIds(c)
    PROVE  /\ ids \in [DOMAIN batch[c].create -> Ids]
           /\ \A x, y \in Created(c) : ids[x] = ids[y] => x = y
           /\ \A x \in Created(c) : ids[x] \in FreeIds
           /\ \A x \in DOMAIN batch[c].create \ Created(c) : ids[x] \in Joined(c, x)
<1>1. /\ ids \in [DOMAIN batch[c].create -> Ids]
      /\ \A x, y \in Created(c) : ids[x] = ids[y] => x = y
      /\ {ids[x] : x \in Created(c)} =
           {id \in FreeIds : Cardinality({j \in FreeIds : j < id}) < Cardinality(Created(c))}
      /\ \A x \in DOMAIN batch[c].create \ Created(c) : ids[x] \in Joined(c, x)
    BY DEF ContractIds
<1> QED BY <1>1

\* A contract that is deleted has nothing.
LEMMA DeletedEntry == [NoContract EXCEPT !.state = "deleted"] \in ContractEntry
<1>1. {} \in Fin(Peer) /\ {} \in Fin(Machine)
    BY FinFacts
<1>2. NoContract \in ContractEntry
    BY <1>1 DEF NoContract, ContractEntry
<1> QED BY <1>2 DEF ContractEntry

LEMMA AfterCallTypes ==
    ASSUME TypeInv, NEW c \in Calls, pc[c] = "handle", NEW ids \in ContractIds(c), NEW id \in Ids
    PROVE  AfterCall(c, ids, id) \in ContractEntry
<1>1. contract[id] \in ContractEntry /\ batch[c] \in Batch
    BY ContractFacts, LocalFacts
<1>2. {} \in Fin(Peer) /\ {} \in Fin(Machine)
    BY FinFacts
<1>3. CASE id \in batch[c].delete
  <2>1. AfterCall(c, ids, id) = [NoContract EXCEPT !.state = "deleted"]
      BY <1>3, AfterDelete
  <2> QED BY <2>1, DeletedEntry
<1>4. CASE id \notin batch[c].delete /\ id \in batch[c].strip
  <2>1. AfterCall(c, ids, id) = [contract[id] EXCEPT !.subnet = 0, !.peers = {}]
      BY <1>4, AfterStrip
  <2> DEFINE d == [contract[id] EXCEPT !.subnet = 0]
  <2>2. d \in ContractEntry
      BY <1>1 DEF ContractEntry
  <2>3. AfterCall(c, ids, id) = [d EXCEPT !.peers = {}]
      BY <2>1
  <2> HIDE DEF d
  <2> QED BY <1>2, <2>2, <2>3 DEF ContractEntry
<1>5. CASE id \notin batch[c].delete /\ id \notin batch[c].strip /\ \E x \in DOMAIN ids : ids[x] = id
  <2>1. PICK x \in DOMAIN ids :
          AfterCall(c, ids, id) = IF contract[id].state = "free" THEN Fresh(c, x) ELSE Joins(c, id, x)
      BY <1>5, AfterCreate
  <2>2. x \in DOMAIN batch[c].create
      BY ContractIdsFacts
  <2>3. Fresh(c, x) \in ContractEntry /\ Joins(c, id, x) \in ContractEntry
      BY <2>2, FreshFacts, JoinsFacts
  <2> QED BY <2>1, <2>3
<1>6. CASE id \notin batch[c].delete /\ id \notin batch[c].strip /\ \A x \in DOMAIN ids : ids[x] # id
  <2>1. AfterCall(c, ids, id) =
             IF id = batch[c].id
             THEN [contract[id] EXCEPT !.machines = batch[c].rest, !.subnet = batch[c].subnet]
             ELSE Touched(c, id)
      BY <1>6, AfterUpdate
  <2>2. batch[c].rest \in Fin(Machine) /\ batch[c].subnet \in Nat
      BY <1>1, BatchFacts
  <2>3. [contract[id] EXCEPT !.machines = batch[c].rest, !.subnet = batch[c].subnet] \in ContractEntry
      BY <1>1, <2>2 DEF ContractEntry
  <2> QED BY <2>1, <2>3, TouchedFacts
<1> QED BY <1>3, <1>4, <1>5, <1>6

\* The Network object after it: the new nodes have their contracts.
LEMMA WithContractsFacts ==
    ASSUME NEW n \in Network, NEW ids, NEW o, o = WithContracts(n, ids),
           \A x \in DOMAIN ids : ids[x] \in Ids
    PROVE  /\ o \in Network /\ o.nets = n.nets
           /\ \A z \in DOMAIN n.nets :
                /\ o.nodes[z].ips = n.nodes[z].ips
                /\ o.nodes[z].contract = IF n.nodes[z].contract = 0 /\ z \in DOMAIN ids
                                         THEN ids[z] ELSE n.nodes[z].contract
<1> DEFINE D == [x \in DOMAIN n.nodes |->
                    IF n.nodes[x].contract = 0 /\ x \in DOMAIN ids
                    THEN [n.nodes[x] EXCEPT !.contract = ids[x]] ELSE n.nodes[x]]
<1>1. o = [n EXCEPT !.nodes = D]
    BY DEF WithContracts
<1>2. DOMAIN n.nodes = DOMAIN n.nets /\ DOMAIN n.nets \in SUBSET Nodes
    BY NetworkFacts
<1>3. ASSUME NEW z \in DOMAIN n.nets
      PROVE  /\ D[z] \in NodeEntry /\ D[z].ips = n.nodes[z].ips
             /\ D[z].contract = IF n.nodes[z].contract = 0 /\ z \in DOMAIN ids
                                THEN ids[z] ELSE n.nodes[z].contract
  <2>1. n.nodes[z] \in NodeEntry
      BY NetworkFacts
  <2>2. CASE n.nodes[z].contract = 0 /\ z \in DOMAIN ids
    <3>1. D[z] = [n.nodes[z] EXCEPT !.contract = ids[z]] /\ ids[z] \in Nat
        BY <1>2, <2>2 DEF Ids
    <3> HIDE DEF D
    <3> QED BY <2>1, <2>2, <3>1 DEF NodeEntry
  <2>3. CASE ~(n.nodes[z].contract = 0 /\ z \in DOMAIN ids)
    <3>1. D[z] = n.nodes[z]
        BY <1>2, <2>3
    <3> QED BY <2>1, <2>3, <3>1
  <2> QED BY <2>2, <2>3
<1>4. D \in [DOMAIN n.nets -> NodeEntry]
  <2>1. D = [z \in DOMAIN n.nets |-> D[z]]
      BY <1>2
  <2> HIDE DEF D
  <2> QED BY <1>3, <2>1
<1> HIDE DEF D
<1>5. D \in Partial(Nodes, NodeEntry) /\ DOMAIN D = DOMAIN n.nets
    BY <1>2, <1>4, PartialIntro
<1>6. /\ o \in [nets : Partial(Nodes, NetEntry), nodes : Partial(Nodes, NodeEntry),
                points : Fin(Point), reserved : Fin(Nat), access : SUBSET Nodes]
      /\ o.nodes = D /\ o.nets = n.nets
    BY <1>1, <1>5 DEF Network
<1>7. o \in Network
    BY <1>2, <1>5, <1>6 DEF Network
<1> QED BY <1>3, <1>6, <1>7

LEMMA HandleTypes ==
    ASSUME TypeInv, NEW c \in Calls, Handle(c)
    PROVE  /\ TypeInv' /\ pc[c] = "handle" /\ Writes(c) /\ info' = info
           /\ \A id \in Updates(c) : Live(id)
           /\ \E ids \in ContractIds(c) :
                /\ contract' = [id \in Ids |-> AfterCall(c, ids, id)]
                /\ Now(c, "save", call[c], WithContracts(net[c], ids), stored[c], todo[c], batch[c])
<1>1. /\ pc[c] = "handle" /\ Writes(c) /\ pc' = [pc EXCEPT ![c] = "save"]
      /\ UNCHANGED <<info, call, stored, todo, batch>>
      /\ \A id \in Updates(c) : Live(id)
    BY DEF Handle, Goto
<1>2. PICK ids \in ContractIds(c) :
        /\ contract' = [id \in Ids |-> AfterCall(c, ids, id)]
        /\ net' = [net EXCEPT ![c] = WithContracts(net[c], ids)]
    BY DEF Handle
<1> DEFINE o == WithContracts(net[c], ids)
<1>3. /\ call[c] \in Request \cup {NoRequest} /\ net[c] \in Network
      /\ stored[c] \in Partial(Ids, Fin(Machine)) /\ batch[c] \in Batch
      /\ Stage("handle", call[c], net[c], todo[c], batch[c])
    BY <1>1, LocalFacts
<1>4. ids \in [DOMAIN batch[c].create -> Ids]
    BY ContractIdsFacts
<1>5. /\ o \in Network /\ o.nets = net[c].nets
      /\ \A z \in DOMAIN net[c].nets :
           o.nodes[z].contract = IF net[c].nodes[z].contract = 0 /\ z \in DOMAIN ids
                                 THEN ids[z] ELSE net[c].nodes[z].contract
  <2>1. PICK n \in Network : n = net[c]
      BY <1>3
  <2>2. o = WithContracts(n, ids) /\ \A x \in DOMAIN ids : ids[x] \in Ids
      BY <1>4, <2>1
  <2> HIDE DEF o
  <2>3. /\ o \in Network /\ o.nets = n.nets
        /\ \A z \in DOMAIN n.nets :
             o.nodes[z].contract = IF n.nodes[z].contract = 0 /\ z \in DOMAIN ids
                                   THEN ids[z] ELSE n.nodes[z].contract
      BY <2>2, WithContractsFacts
  <2> QED BY <2>1, <2>3
<1> HIDE DEF o
<1>6. Now(c, "save", call[c], o, stored[c], todo[c], batch[c])
    BY <1>1, <1>2, LocalFacts DEF Now, o
<1>7. \A z \in DOMAIN o.nets : o.nodes[z].contract <= MaxId
    BY <1>3, <1>4, <1>5 DEF Stage, Ids
<1>8. Stage("save", call[c], o, todo[c], batch[c]) /\ "save" \in Labels
    BY <1>3, <1>5, <1>7 DEF Stage, Labels
<1>9. contract' \in [Ids -> ContractEntry]
    BY <1>1, <1>2, AfterCallTypes
<1>10. info' \in Partial(Nodes, InfoEntry) /\ stale' \in SUBSET Calls /\ clean' \in BOOLEAN
    BY <1>1, WritesTypes DEF TypeInv
<1>11. TypeInv'
    BY <1>3, <1>5, <1>6, <1>8, <1>9, <1>10, RestOfTypes
<1> QED BY <1>1, <1>2, <1>6, <1>11 DEF o

LEMMA HandleFailsTypes ==
    ASSUME TypeInv, NEW c \in Calls, HandleFails(c)
    PROVE  /\ TypeInv' /\ pc[c] = "handle" /\ info' = info /\ stale' = stale \ {c}
           /\ clean' = (clean /\ contract' = contract)
           /\ Now(c, "idle", NoRequest, EmptyNetwork, <<>>, <<>>, NoBatch)
<1>1. /\ pc[c] = "handle" /\ info' = info /\ stale' = stale \ {c} /\ Ended(c)
      /\ clean' = (clean /\ contract' = contract)
    BY DEF HandleFails
<1>2. PICK ids \in ContractIds(c), done \in SUBSET Ids :
        contract' = [id \in Ids |-> IF id \in done /\ (Live(id) \/ \E x \in DOMAIN ids : ids[x] = id)
                                    THEN AfterCall(c, ids, id) ELSE contract[id]]
    BY DEF HandleFails
<1>3. \A id \in Ids : AfterCall(c, ids, id) \in ContractEntry /\ contract[id] \in ContractEntry
    BY <1>1, AfterCallTypes, ContractFacts
<1>4. contract' \in [Ids -> ContractEntry]
    BY <1>2, <1>3
<1>5. info' \in Partial(Nodes, InfoEntry) /\ stale' \in SUBSET Calls /\ clean' \in BOOLEAN
    BY <1>1 DEF TypeInv
<1> QED BY <1>1, <1>4, <1>5, EndedTypes

LEMMA SaveTypes ==
    ASSUME TypeInv, NEW c \in Calls, Save(c)
    PROVE  /\ TypeInv' /\ pc[c] = "save" /\ info' = Entries(net[c]) /\ Writes(c) /\ contract' = contract
           /\ Now(c, "idle", NoRequest, EmptyNetwork, <<>>, <<>>, NoBatch)
<1>1. pc[c] = "save" /\ info' = Entries(net[c]) /\ Writes(c) /\ Ended(c) /\ contract' = contract
    BY DEF Save
<1>2. net[c] \in Network /\ \A z \in DOMAIN net[c].nets : net[c].nodes[z].contract <= MaxId
    BY LocalFacts DEF Stage
<1>3. info' \in Partial(Nodes, InfoEntry)
    BY <1>1, <1>2, EntriesFacts
<1>4. contract' \in [Ids -> ContractEntry]
    BY <1>1 DEF TypeInv
<1> QED BY <1>1, <1>3, <1>4, WritesTypes, EndedTypes

LEMMA CrashTypes ==
    ASSUME TypeInv, NEW c \in Calls, Crash(c)
    PROVE  /\ TypeInv' /\ UNCHANGED <<contract, info>> /\ stale' = stale \ {c}
           /\ clean' = (clean /\ pc[c] # "save")
           /\ Now(c, "idle", NoRequest, EmptyNetwork, <<>>, <<>>, NoBatch)
<1>1. /\ UNCHANGED <<contract, info>> /\ stale' = stale \ {c} /\ Ended(c)
      /\ clean' = (clean /\ pc[c] # "save")
    BY DEF Crash
<1>2. /\ contract' \in [Ids -> ContractEntry] /\ info' \in Partial(Nodes, InfoEntry)
      /\ stale' \in SUBSET Calls /\ clean' \in BOOLEAN
    BY <1>1 DEF TypeInv
<1> QED BY <1>1, <1>2, EndedTypes

LEMMA CancelTypes ==
    ASSUME TypeInv, NEW id \in Ids, Cancel(id)
    PROVE  TypeInv' /\ clean' = FALSE
<1>1. /\ contract' = [contract EXCEPT ![id] = [NoContract EXCEPT !.state = "deleted"]]
      /\ clean' = FALSE /\ UNCHANGED <<info, pc, call, net, stored, todo, batch, stale>>
    BY DEF Cancel, local
<1>2. [NoContract EXCEPT !.state = "deleted"] \in ContractEntry
    BY DeletedEntry
<1>3. contract' \in [Ids -> ContractEntry]
    BY <1>1, <1>2 DEF TypeInv
<1> QED BY <1>1, <1>3 DEF TypeInv

\* Every step keeps the types.
LEMMA StepTypes ==
    ASSUME TypeInv, NEW c \in Calls, Step(c) \/ Crash(c)
    PROVE  TypeInv'
<1>1. CASE Begin(c)
    BY <1>1, BeginTypes
<1>2. CASE Load(c)
    BY <1>2, LoadTypes
<1>3. CASE LoadFails(c)
    BY <1>3, ThrowTypes DEF LoadFails
<1>4. CASE LoadSave(c)
    BY <1>4, LoadSaveTypes
<1>5. CASE Build(c)
  <2>1. ASSUME NEW i, NEW g, NEW new, NEW ip, Built(c, i, g, new, ip)  PROVE TypeInv'
      BY <2>1, BuiltFacts
  <2> QED BY <1>5, <2>1, BuildShape, ThrowTypes
<1>6. CASE Remove(c)
    BY <1>6, RemoveTypes
<1>7. CASE Rest(c)
    BY <1>7, RestTypes
<1>8. CASE FreeIps(c)
    BY <1>8, FreeIpsTypes
<1>9. CASE Handle(c)
    BY <1>9, HandleTypes
<1>10. CASE HandleFails(c)
    BY <1>10, HandleFailsTypes
<1>11. CASE Save(c)
    BY <1>11, SaveTypes
<1>12. CASE Crash(c)
    BY <1>12, CrashTypes
<1> QED BY <1>1, <1>2, <1>3, <1>4, <1>5, <1>6, <1>7, <1>8, <1>9, <1>10, <1>11, <1>12 DEF Step

\* Contracts, info.json and what every call has in memory keep their types.
THEOREM Types == Spec => []TypeInv
<1>1. TypeInv /\ [Next]_vars => TypeInv'
  <2> SUFFICES ASSUME TypeInv, [Next]_vars  PROVE TypeInv'
      OBVIOUS
  <2>1. CASE UNCHANGED vars
      BY <2>1 DEF vars, local, TypeInv
  <2>2. CASE \E c \in Calls : Step(c) \/ Crash(c)
      BY <2>2, StepTypes
  <2>3. CASE \E id \in Ids : Cancel(id)
      BY <2>3, CancelTypes
  <2> QED BY <2>1, <2>2, <2>3 DEF Next
<1> QED BY InitTypes, <1>1, PTL DEF Spec

\* The type invariant that the run checks.
THEOREM TypeCorrect == Spec => []TypeOK
<1>1. TypeInv => TypeOK
  <2> SUFFICES ASSUME TypeInv  PROVE TypeOK
      OBVIOUS
  <2>1. \A id \in Ids : contract[id].state \in {"free", "created", "deleted"} /\ contract[id].subnet \in Nat
      BY ContractFacts
  <2>2. DOMAIN info \subseteq Nodes /\ \A x \in DOMAIN info : info[x].contract \in Ids
    <3>1. DOMAIN info \subseteq Nodes /\ \A x \in DOMAIN info : info[x] \in InfoEntry
        BY PartialFacts DEF TypeInv
    <3> QED BY <3>1 DEF InfoEntry
  <2>3. \A c \in Calls : DOMAIN net[c].nets = DOMAIN net[c].nodes
    <3>1. \A c \in Calls : net[c] \in Network
        BY DEF TypeInv
    <3> QED BY <3>1, NetworkFacts
  <2>4. pc \in [Calls -> {"idle", "load", "loadSave", "build", "remove", "rest", "free", "handle", "save"}]
      BY DEF TypeInv, Labels
  <2>5. clean \in BOOLEAN
      BY DEF TypeInv
  <2> QED BY <2>1, <2>2, <2>3, <2>4, <2>5 DEF TypeOK
<1> QED BY Types, <1>1, PTL
=============================================================================
