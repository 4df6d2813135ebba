---------------------- MODULE PrivateNetworkDataProofs ----------------------
(***************************************************************************)
(* That no two machines of a network have an address in common, that no    *)
(* two nodes have a subnet in common, that info.json tells all of it, that *)
(* a node has one route at most to a subnet, and that a network with one   *)
(* access node goes with its last machine, proved of PrivateNetwork for    *)
(* every set of nodes, calls and requests.                                 *)
(*                                                                         *)
(* What a call has in memory mirrors the chain and info.json as long as    *)
(* nothing that it has read has changed: CleanInv.  The invariants are     *)
(* about constants, so that they are proved of the contracts and the file  *)
(* before a step and of those after it alike.                              *)
(***************************************************************************)
EXTENDS PrivateNetworkProofs

\* What there is on the chain: the contracts K, those that have a network
\* workload, and the file F that info.json is.
OnChain(K) == {id \in Ids : K[id].state = "created"}
NetIn(K) == {id \in OnChain(K) : K[id].subnet # 0}

\* A node has one network workload and a subnet of its own, a machine has an
\* address of the subnet of its node, and no two machines have the same.
DataInv(K) ==
    /\ \A i, j \in NetIn(K) : i # j => K[i].node # K[j].node /\ K[i].subnet # K[j].subnet
    /\ \A id \in OnChain(K) : \A m \in K[id].machines :
         \E i \in NetIn(K) : K[i].node = K[id].node /\ m.ip.subnet = K[i].subnet
    /\ \A i, j \in OnChain(K) : \A m \in K[i].machines : \A k \in K[j].machines :
         m.ip = k.ip => i = j /\ m = k

\* The file has the nodes of the network, their contracts and what is taken.
FileInv(K, F) ==
    /\ DOMAIN F = {K[id].node : id \in NetIn(K)}
    /\ \A id \in NetIn(K) : F[K[id].node].contract = id
    /\ \A id \in OnChain(K) : \A m \in K[id].machines :
         K[id].node \in DOMAIN F /\ m.ip \in F[K[id].node].ips

\* A Network object n has the node z as it is, and the contracts s that it was
\* loaded from are those of the network.
Kept(K, F, n, z) == /\ n.nets[z].subnet = K[F[z].contract].subnet
                    /\ n.nodes[z].contract = F[z].contract
Stores(K, s) == DOMAIN s = NetIn(K) /\ \A id \in NetIn(K) : s[id] = K[id].machines

\* A Network object that was just loaded.
JustLoaded(K, F, n) ==
    /\ DOMAIN n.nets = DOMAIN F
    /\ \A z \in DOMAIN F : Kept(K, F, n, z) /\ n.nodes[z].ips = F[z].ips

\* A call that creates: the nodes of the network with what is taken, the new
\* nodes, which get their network workload with the batch, and the machines of
\* the batch with addresses that were free.
GrownInv(K, F, n, b) ==
    /\ DOMAIN F \subseteq DOMAIN n.nets
    /\ \A z \in DOMAIN F : Kept(K, F, n, z) /\ F[z].ips \subseteq n.nodes[z].ips
    /\ \A z \in DOMAIN n.nets \ DOMAIN F :
         n.nodes[z].contract = 0 /\ z \in DOMAIN b.create /\ b.create[z].net
    /\ Apart(n)
    /\ \A z \in DOMAIN b.create :
         /\ z \in DOMAIN n.nets
         /\ b.create[z].net => z \notin DOMAIN F
         /\ \A m \in b.create[z].machines :
              /\ m.ip.subnet = n.nets[z].subnet /\ m.ip \in n.nodes[z].ips
              /\ z \in DOMAIN F => m.ip \notin F[z].ips
         /\ \A m, k \in b.create[z].machines : m.ip = k.ip => m = k
    /\ b.delete = {} /\ b.strip = {} /\ b.id = 0

\* A call that deletes machines of the contract b.id: the addresses that go, and
\* what it has yet to delete.
GoneIps(K, b) == {m.ip : m \in K[b.id].machines \ b.rest}
DeletesInv(K, p, b, t) ==
    /\ b.id \in OnChain(K) /\ b.rest \subseteq K[b.id].machines
    /\ b.touch = FALSE /\ b.strip = {}
    /\ \A k \in DOMAIN t : t[k] \in K[b.id].machines \ b.rest
    /\ \A j, k \in DOMAIN t : t[j] = t[k] => j = k
    /\ b.ips \subseteq GoneIps(K, b)
    /\ p \in {"rest", "free", "handle"} => t = <<>>
    /\ p \in {"load", "loadSave"} => b.delete = {} /\ b.subnet = K[b.id].subnet

\* Its Network object: a node that has left has no machine but those that go
\* with the batch, and the contract of its network workload goes as well.
ShrunkInv(K, F, n, b) ==
    /\ DOMAIN n.nets \subseteq DOMAIN F
    /\ \A z \in DOMAIN n.nets : Kept(K, F, n, z) /\ F[z].ips \ GoneIps(K, b) \subseteq n.nodes[z].ips
    /\ \A z \in DOMAIN F \ DOMAIN n.nets :
         /\ F[z].contract \in b.delete
         /\ \A id \in OnChain(K) : K[id].node = z /\ K[id].machines # {} => id \in b.delete
    /\ b.id \in b.delete => b.rest = {} /\ (K[b.id].subnet # 0 => K[b.id].node \notin DOMAIN n.nets)
    /\ \A id \in b.delete \ {b.id} :
         id \in NetIn(K) /\ K[id].machines = {} /\ K[id].node \notin DOMAIN n.nets
    /\ b.id \notin b.delete => b.subnet = K[b.id].subnet
PendingInv(K, n, b, t) ==
    \A k \in DOMAIN t : K[b.id].node \in DOMAIN n.nets /\ t[k].ip \in n.nodes[K[b.id].node].ips

\* What a call has in memory while nothing that it has read has changed.
Mirror(K, F, p, r, n, s, t, b) ==
    /\ p = "load" /\ r.op # "delete" => b = NoBatch
    /\ p \in {"loadSave", "build", "handle"} /\ r.op # "delete" => GrownInv(K, F, n, b) /\ Stores(K, s)
    /\ p \notin {"idle", "save"} /\ r.op = "delete" => DeletesInv(K, p, b, t)
    /\ p \in {"loadSave", "remove", "rest", "free", "handle"} /\ r.op = "delete" =>
         ShrunkInv(K, F, n, b) /\ PendingInv(K, n, b, t) /\ Stores(K, s)
    /\ p = "loadSave" => JustLoaded(K, F, n)

MirrorOf(c) == Mirror(contract, info, pc[c], call[c], net[c], stored[c], todo[c], batch[c])

\* Between handle() and the save everyone else has something stale, and what is
\* saved fits the contracts.
SavesInv(c) ==
    /\ c \notin stale
    /\ \A d \in Calls \ {c} : pc[d] \in {"idle", "load"} \/ d \in stale
    /\ FileInv(contract, Entries(net[c]))

Quiet == \A c \in Calls : pc[c] # "save"

IdleInv == \A c \in Calls : pc[c] = "idle" => batch[c] = NoBatch /\ c \notin stale

CleanInv ==
    clean => /\ DataInv(contract)
             /\ Quiet => FileInv(contract, info)
             /\ \A c \in Calls : pc[c] = "save" => SavesInv(c)
             /\ \A c \in Calls : c \notin stale => MirrorOf(c)
-----------------------------------------------------------------------------
(***************************************************************************)
(* A call that is not under way has nothing in memory.                     *)
(***************************************************************************)
LEMMA IdleMoves ==
    ASSUME TypeInv, IdleInv, NEW c \in Calls, NEW p \in Labels, NEW r, NEW n, NEW s, NEW t, NEW b,
           Now(c, p, r, n, s, t, b), p = "idle" => b = NoBatch /\ c \notin stale',
           \A d \in Calls \ {c} : d \in stale' => d \in stale \/ pc[d] # "idle"
    PROVE  IdleInv'
<1>1. pc \in [Calls -> Labels] /\ batch \in [Calls -> Batch]
    BY DEF TypeInv
<1>2. pc' = [pc EXCEPT ![c] = p] /\ batch' = [batch EXCEPT ![c] = b]
    BY DEF Now
<1>3. ASSUME NEW d \in Calls, pc'[d] = "idle"  PROVE batch'[d] = NoBatch /\ d \notin stale'
  <2>1. CASE d = c
    <3>1. p = "idle" /\ batch'[c] = b
        BY <1>1, <1>2, <1>3, <2>1
    <3> QED BY <2>1, <3>1
  <2>2. CASE d # c
    <3>1. pc[d] = "idle" /\ batch'[d] = batch[d]
        BY <1>1, <1>2, <1>3, <2>2
    <3>2. batch[d] = NoBatch /\ d \notin stale
        BY <3>1 DEF IdleInv
    <3> QED BY <2>2, <3>1, <3>2
  <2> QED BY <2>1, <2>2
<1> QED BY <1>3 DEF IdleInv
-----------------------------------------------------------------------------
(***************************************************************************)
(* A machine that is created.                                              *)
(***************************************************************************)
LEMMA GrewFacts ==
    ASSUME NEW b \in Batch, NEW new, NEW x, NEW m, NEW e \in Batch, Grew(b, new, x, m, e)
    PROVE  /\ e.delete = b.delete /\ e.strip = b.strip /\ e.id = b.id
           /\ DOMAIN e.create = DOMAIN b.create \cup new \cup {x}
           /\ \A y \in DOMAIN e.create :
                /\ e.create[y].net => y \in new \/ (y \in DOMAIN b.create /\ b.create[y].net)
                /\ y \in new => e.create[y].net
                /\ y \in DOMAIN b.create /\ b.create[y].net => e.create[y].net
                /\ \A k \in e.create[y].machines :
                     (y = x /\ k = m) \/ (y \in DOMAIN b.create /\ k \in b.create[y].machines)
<1>1. /\ e.delete = b.delete /\ e.strip = b.strip /\ e.id = b.id
      /\ DOMAIN e.create = DOMAIN b.create \cup new \cup {x}
    BY DEF Grew
<1>2. ASSUME NEW y \in DOMAIN e.create
      PROVE  /\ e.create[y].net => y \in new \/ (y \in DOMAIN b.create /\ b.create[y].net)
             /\ y \in new => e.create[y].net
             /\ y \in DOMAIN b.create /\ b.create[y].net => e.create[y].net
             /\ \A k \in e.create[y].machines :
                  (y = x /\ k = m) \/ (y \in DOMAIN b.create /\ k \in b.create[y].machines)
  <2>1. /\ e.create[y].net = (Deployment(b, y).net \/ y \in new)
        /\ e.create[y].machines = Deployment(b, y).machines \cup (IF y = x THEN {m} ELSE {})
      BY DEF Grew
  <2>2. e.create[y].net <=> Deployment(b, y).net \/ y \in new
      BY <2>1
  <2>3. CASE y \in DOMAIN b.create
    <3>1. Deployment(b, y) = b.create[y]
        BY <2>3 DEF Deployment
    <3>2. Deployment(b, y).net <=> b.create[y].net
        BY <3>1
    <3>3. \A k \in e.create[y].machines : (y = x /\ k = m) \/ k \in b.create[y].machines
        BY <2>1, <3>1
    <3> QED BY <2>2, <2>3, <3>2, <3>3
  <2>4. CASE y \notin DOMAIN b.create
    <3> DEFINE none == [net |-> FALSE, machines |-> {}]
    <3>1. Deployment(b, y) = none
        BY <2>4 DEF Deployment
    <3>2. none.net = FALSE /\ none.machines = {}
        OBVIOUS
    <3> HIDE DEF none
    <3>3. ~Deployment(b, y).net
        BY <3>1, <3>2
    <3>4. \A k \in e.create[y].machines : y = x /\ k = m
        BY <2>1, <3>1, <3>2
    <3> QED BY <2>2, <2>4, <3>3, <3>4
  <2> QED BY <2>3, <2>4
<1> QED BY <1>1, <1>2

LEMMA GrownStep ==
    ASSUME NEW K, NEW F, NEW n \in Network, NEW b \in Batch, GrownInv(K, F, n, b),
           NEW g, NEW new, NEW x, GrownBy(n, g, new, x), NEW m,
           m.ip.subnet = g.nets[x].subnet, m.ip \notin g.nodes[x].ips,
           NEW o, o.nets = g.nets, \A z \in DOMAIN g.nets \ {x} : o.nodes[z] = g.nodes[z],
           o.nodes[x].contract = g.nodes[x].contract, o.nodes[x].ips = g.nodes[x].ips \cup {m.ip},
           NEW e \in Batch, Grew(b, new, x, m, e)
    PROVE  GrownInv(K, F, o, e)
<1>1. /\ DOMAIN F \subseteq DOMAIN n.nets /\ Apart(n)
      /\ \A z \in DOMAIN F : Kept(K, F, n, z) /\ F[z].ips \subseteq n.nodes[z].ips
      /\ \A z \in DOMAIN n.nets \ DOMAIN F :
           n.nodes[z].contract = 0 /\ z \in DOMAIN b.create /\ b.create[z].net
      /\ b.delete = {} /\ b.strip = {} /\ b.id = 0
    BY DEF GrownInv
<1>2. \A z \in DOMAIN b.create :
         /\ z \in DOMAIN n.nets
         /\ b.create[z].net => z \notin DOMAIN F
         /\ \A k \in b.create[z].machines :
              /\ k.ip.subnet = n.nets[z].subnet /\ k.ip \in n.nodes[z].ips
              /\ z \in DOMAIN F => k.ip \notin F[z].ips
         /\ \A j, k \in b.create[z].machines : j.ip = k.ip => j = k
    BY DEF GrownInv
<1>3. /\ g \in Network /\ new \subseteq Nodes /\ new \cap DOMAIN n.nets = {}
      /\ DOMAIN g.nets = DOMAIN n.nets \cup new /\ x \in DOMAIN g.nets /\ Apart(g)
    BY <1>1 DEF GrownBy
<1>4. /\ \A z \in DOMAIN n.nets : g.nets[z].subnet = n.nets[z].subnet /\ g.nodes[z] = n.nodes[z]
      /\ \A z \in DOMAIN g.nets \ DOMAIN n.nets : g.nodes[z].contract = 0
    BY DEF GrownBy, Extends
<1>5. /\ DOMAIN e.create = DOMAIN b.create \cup new \cup {x}
      /\ \A y \in DOMAIN e.create :
           /\ e.create[y].net => y \in new \/ (y \in DOMAIN b.create /\ b.create[y].net)
           /\ y \in new => e.create[y].net
           /\ y \in DOMAIN b.create /\ b.create[y].net => e.create[y].net
           /\ \A k \in e.create[y].machines :
                (y = x /\ k = m) \/ (y \in DOMAIN b.create /\ k \in b.create[y].machines)
    BY GrewFacts
<1>6. e.delete = {} /\ e.strip = {} /\ e.id = 0
    BY <1>1, GrewFacts
<1>7. \A z \in DOMAIN g.nets : /\ o.nodes[z].contract = g.nodes[z].contract
                               /\ g.nodes[z].ips \subseteq o.nodes[z].ips
    <2> TAKE z \in DOMAIN g.nets
    <2>1. CASE z = x
        BY <2>1
    <2>2. CASE z # x
        BY <2>2
    <2> QED BY <2>1, <2>2
<1>8. \A z \in DOMAIN n.nets : /\ o.nets[z].subnet = n.nets[z].subnet
                               /\ o.nodes[z].contract = n.nodes[z].contract
                               /\ n.nodes[z].ips \subseteq o.nodes[z].ips
  <2> TAKE z \in DOMAIN n.nets
  <2>1. g.nets[z].subnet = n.nets[z].subnet /\ g.nodes[z] = n.nodes[z] /\ z \in DOMAIN g.nets
      BY <1>3, <1>4
  <2> QED BY <1>7, <2>1
<1>9. DOMAIN F \subseteq DOMAIN o.nets /\ Apart(o)
    BY <1>1, <1>3 DEF Apart
<1>10. ASSUME NEW z \in DOMAIN F  PROVE Kept(K, F, o, z) /\ F[z].ips \subseteq o.nodes[z].ips
  <2>1. z \in DOMAIN n.nets /\ Kept(K, F, n, z) /\ F[z].ips \subseteq n.nodes[z].ips
      BY <1>1
  <2> QED BY <1>8, <2>1 DEF Kept
<1>11. ASSUME NEW z \in DOMAIN o.nets \ DOMAIN F
       PROVE  o.nodes[z].contract = 0 /\ z \in DOMAIN e.create /\ e.create[z].net
  <2>1. CASE z \in DOMAIN n.nets
      BY <1>1, <1>5, <1>8, <2>1
  <2>2. CASE z \notin DOMAIN n.nets
      BY <1>3, <1>4, <1>5, <1>7, <2>2
  <2> QED BY <2>1, <2>2
<1>12. ASSUME NEW z \in DOMAIN e.create
       PROVE  z \in DOMAIN o.nets /\ (e.create[z].net => z \notin DOMAIN F)
  <2>1. z \in DOMAIN o.nets
      BY <1>2, <1>3, <1>5
  <2>2. ASSUME e.create[z].net  PROVE z \notin DOMAIN F
      BY <1>1, <1>2, <1>3, <1>5, <2>2
  <2> QED BY <2>1, <2>2
<1>13. ASSUME NEW z \in DOMAIN e.create, NEW k \in e.create[z].machines
       PROVE  /\ k.ip.subnet = o.nets[z].subnet /\ k.ip \in o.nodes[z].ips
              /\ z \in DOMAIN F => k.ip \notin F[z].ips
  <2>1. CASE z = x /\ k = m
    <3>1. k.ip \in o.nodes[z].ips /\ k.ip.subnet = o.nets[z].subnet
        BY <2>1
    <3>2. ASSUME x \in DOMAIN F  PROVE m.ip \notin F[x].ips
      <4>1. F[x].ips \subseteq g.nodes[x].ips
          BY <1>1, <1>4, <3>2
      <4> QED BY <4>1
    <3> QED BY <2>1, <3>1, <3>2
  <2>2. CASE z \in DOMAIN b.create /\ k \in b.create[z].machines
    <3>1. /\ z \in DOMAIN n.nets /\ k.ip.subnet = n.nets[z].subnet /\ k.ip \in n.nodes[z].ips
          /\ z \in DOMAIN F => k.ip \notin F[z].ips
        BY <1>2, <2>2
    <3> QED BY <1>8, <3>1
  <2> QED BY <1>5, <2>1, <2>2
<1>14. ASSUME NEW z \in DOMAIN e.create, NEW j \in e.create[z].machines, NEW k \in e.create[z].machines,
              j.ip = k.ip
       PROVE  j = k
  <2>1. ASSUME NEW l, z = x, z \in DOMAIN b.create, l \in b.create[z].machines  PROVE l.ip # m.ip
    <3>1. l.ip \in n.nodes[x].ips /\ x \in DOMAIN n.nets
        BY <1>2, <2>1
    <3> QED BY <1>4, <3>1
  <2>2. CASE z = x /\ (j = m \/ k = m)
      BY <1>5, <1>14, <2>1, <2>2
  <2>3. CASE ~(z = x /\ (j = m \/ k = m))
    <3>1. z \in DOMAIN b.create /\ j \in b.create[z].machines /\ k \in b.create[z].machines
        BY <1>5, <2>3
    <3> QED BY <1>2, <1>14, <3>1
  <2> QED BY <2>2, <2>3
<1> QED BY <1>6, <1>9, <1>10, <1>11, <1>12, <1>13, <1>14 DEF GrownInv
-----------------------------------------------------------------------------
(***************************************************************************)
(* What is loaded.                                                         *)
(***************************************************************************)
\* A node of the file is that of the contract that the file has for it.
LEMMA FileFacts ==
    ASSUME NEW K, NEW F, FileInv(K, F), NEW z \in DOMAIN F
    PROVE  F[z].contract \in NetIn(K) /\ K[F[z].contract].node = z
<1>1. PICK id \in NetIn(K) : z = K[id].node
    BY DEF FileInv
<1>2. F[z].contract = id
    BY <1>1 DEF FileInv
<1> QED BY <1>1, <1>2

LEMMA GrownLoaded ==
    ASSUME NEW K, NEW F, NEW n, DataInv(K), FileInv(K, F), JustLoaded(K, F, n)
    PROVE  GrownInv(K, F, n, NoBatch)
<1>1. /\ DOMAIN n.nets = DOMAIN F
      /\ \A z \in DOMAIN F : Kept(K, F, n, z) /\ n.nodes[z].ips = F[z].ips
    BY DEF JustLoaded
<1>2. \A z \in DOMAIN F : /\ F[z].contract \in NetIn(K) /\ K[F[z].contract].node = z
                          /\ n.nets[z].subnet = K[F[z].contract].subnet
    BY <1>1, FileFacts DEF Kept
<1>3. Apart(n)
  <2>1. ASSUME NEW y \in DOMAIN n.nets, NEW z \in DOMAIN n.nets, y # z
        PROVE  n.nets[y].subnet # n.nets[z].subnet
    <3>1. F[y].contract # F[z].contract
        BY <1>1, <1>2, <2>1
    <3> QED BY <1>1, <1>2, <3>1 DEF DataInv
  <2>2. ASSUME NEW z \in DOMAIN n.nets  PROVE n.nets[z].subnet # 0
      BY <1>1, <1>2 DEF NetIn
  <2> QED BY <2>1, <2>2 DEF Apart
<1>4. DOMAIN NoBatch.create = {} /\ NoBatch.delete = {} /\ NoBatch.strip = {} /\ NoBatch.id = 0
    BY DEF NoBatch
<1> QED BY <1>1, <1>3, <1>4 DEF GrownInv

LEMMA ShrunkLoaded ==
    ASSUME NEW K, NEW F, NEW n, NEW p, NEW b, NEW t, FileInv(K, F), JustLoaded(K, F, n),
           p \in {"load", "loadSave"}, DeletesInv(K, p, b, t)
    PROVE  ShrunkInv(K, F, n, b) /\ PendingInv(K, n, b, t)
<1>1. /\ DOMAIN n.nets = DOMAIN F
      /\ \A z \in DOMAIN F : Kept(K, F, n, z) /\ n.nodes[z].ips = F[z].ips
    BY DEF JustLoaded
<1>2. /\ b.delete = {} /\ b.subnet = K[b.id].subnet /\ b.id \in OnChain(K)
      /\ \A k \in DOMAIN t : t[k] \in K[b.id].machines \ b.rest
    BY DEF DeletesInv
<1>3. ShrunkInv(K, F, n, b)
    BY <1>1, <1>2 DEF ShrunkInv
<1>4. ASSUME NEW k \in DOMAIN t
      PROVE  K[b.id].node \in DOMAIN n.nets /\ t[k].ip \in n.nodes[K[b.id].node].ips
  <2>1. K[b.id].node \in DOMAIN F /\ t[k].ip \in F[K[b.id].node].ips
      BY <1>2 DEF FileInv
  <2> QED BY <1>1, <2>1
<1> QED BY <1>3, <1>4 DEF PendingInv

\* Network.load finds every node of the file, when that fits the contracts.
LEMMA LoadsAll ==
    ASSUME TypeInv, FileInv(contract, info)
    PROVE  /\ JustLoaded(contract, info, IF Exists THEN Loaded ELSE EmptyNetwork)
           /\ Stores(contract, [id \in {info[x].contract : x \in Found} |-> contract[id].machines])
<1>1. \A z \in DOMAIN info : info[z].contract \in NetIn(contract) /\ contract[info[z].contract].node = z
    BY FileFacts
<1>2. Found = DOMAIN info
    BY <1>1 DEF Found, NetIn
<1>3. ASSUME Exists  PROVE JustLoaded(contract, info, IF Exists THEN Loaded ELSE EmptyNetwork)
  <2>1. /\ DOMAIN Loaded.nets = Found
        /\ \A x \in Found : /\ Loaded.nets[x].subnet = contract[info[x].contract].subnet
                            /\ Loaded.nodes[x] = info[x]
      BY LoadedFacts
  <2>2. PICK l : l = Loaded
      OBVIOUS
  <2>3. ASSUME NEW z \in DOMAIN info
        PROVE  Kept(contract, info, l, z) /\ l.nodes[z].ips = info[z].ips
    <3>1. l.nodes[z] = info[z] /\ l.nets[z].subnet = contract[info[z].contract].subnet
        BY <1>2, <2>1, <2>2
    <3> QED BY <3>1 DEF Kept
  <2>4. DOMAIN l.nets = DOMAIN info
      BY <1>2, <2>1, <2>2
  <2>5. JustLoaded(contract, info, l)
      BY <2>3, <2>4 DEF JustLoaded
  <2> QED BY <1>3, <2>2, <2>5
<1>5. {info[x].contract : x \in Found} = NetIn(contract)
  <2>1. ASSUME NEW id \in NetIn(contract)  PROVE \E x \in Found : id = info[x].contract
      BY <1>2 DEF FileInv
  <2> QED BY <1>1, <1>2, <2>1
<1>6. Stores(contract, [id \in NetIn(contract) |-> contract[id].machines])
    BY DEF Stores
<1>7. JustLoaded(contract, info, IF Exists THEN Loaded ELSE EmptyNetwork)
  <2>1. CASE ~Exists
    <3>1. JustLoaded(contract, info, EmptyNetwork)
        BY <2>1 DEF Exists, JustLoaded, EmptyNetwork
    <3> QED BY <2>1, <3>1
  <2> QED BY <1>3, <2>1
<1> QED BY <1>5, <1>6, <1>7
-----------------------------------------------------------------------------
(***************************************************************************)
(* A machine that is deleted.                                              *)
(***************************************************************************)
\* The file F fits the contracts K, of which the batch b loses some machines.
Deletion(K, F, b) ==
    DataInv(K) /\ FileInv(K, F) /\ b.id \in OnChain(K) /\ b.rest \subseteq K[b.id].machines

\* The addresses that go are those of machines of b.id that go.
LEMMA GoneMachines ==
    ASSUME NEW K, NEW F, NEW b, Deletion(K, F, b), NEW id \in OnChain(K), NEW m \in K[id].machines,
           m.ip \in GoneIps(K, b)
    PROVE  id = b.id /\ m \notin b.rest
<1>1. PICK k \in K[b.id].machines \ b.rest : m.ip = k.ip
    BY DEF GoneIps
<1>2. id = b.id /\ m = k
    BY <1>1 DEF Deletion, DataInv
<1> QED BY <1>1, <1>2

\* A node that has no other addresses has no machines but those that go.
LEMMA EmptyNode ==
    ASSUME NEW K, NEW F, NEW n, NEW b, Deletion(K, F, b), ShrunkInv(K, F, n, b),
           NEW z \in DOMAIN n.nets, n.nodes[z].ips = {}
    PROVE  /\ \A id \in OnChain(K) : K[id].node = z /\ K[id].machines # {} => id = b.id
           /\ K[b.id].node = z => b.rest = {}
<1>1. ASSUME NEW id \in OnChain(K), K[id].node = z, NEW m \in K[id].machines
      PROVE  id = b.id /\ m \notin b.rest
  <2>1. z \in DOMAIN F /\ m.ip \in F[z].ips
      BY <1>1 DEF Deletion, FileInv
  <2>2. m.ip \in GoneIps(K, b)
      BY <2>1 DEF ShrunkInv
  <2> QED BY <2>2, GoneMachines
<1> QED BY <1>1 DEF Deletion

\* A node z leaves, and the contract of its network workload goes.
LEMMA NodeLeaves ==
    ASSUME NEW K, NEW F, NEW n, NEW b, Deletion(K, F, b), ShrunkInv(K, F, n, b),
           NEW z \in DOMAIN n.nets,
           NEW o, DOMAIN o.nets = DOMAIN n.nets \ {z},
           \A y \in DOMAIN o.nets : o.nets[y] = n.nets[y] /\ o.nodes[y] = n.nodes[y],
           NEW e, e.id = b.id, e.rest = b.rest, e.delete = b.delete \cup {F[z].contract},
           F[z].contract = b.id => b.rest = {},
           F[z].contract # b.id => K[F[z].contract].machines = {},
           \A id \in OnChain(K) : K[id].node = z /\ K[id].machines # {} => id \in e.delete,
           b.id \notin e.delete => e.subnet = b.subnet
    PROVE  ShrunkInv(K, F, o, e)
<1>1. z \in DOMAIN F /\ F[z].contract \in NetIn(K) /\ K[F[z].contract].node = z
  <2>1. z \in DOMAIN F
      BY DEF ShrunkInv
  <2> QED BY <2>1, FileFacts DEF Deletion
<1>2. GoneIps(K, e) = GoneIps(K, b)
    BY DEF GoneIps
<1>3. ASSUME NEW y \in DOMAIN o.nets
      PROVE  Kept(K, F, o, y) /\ F[y].ips \ GoneIps(K, e) \subseteq o.nodes[y].ips
  <2>1. Kept(K, F, n, y) /\ F[y].ips \ GoneIps(K, b) \subseteq n.nodes[y].ips
      BY DEF ShrunkInv
  <2> QED BY <1>2, <2>1 DEF Kept
<1>4. ASSUME NEW y \in DOMAIN F \ DOMAIN o.nets
      PROVE  /\ F[y].contract \in e.delete
             /\ \A id \in OnChain(K) : K[id].node = y /\ K[id].machines # {} => id \in e.delete
  <2>1. CASE y = z
      BY <2>1
  <2>2. CASE y # z
    <3>1. y \in DOMAIN F \ DOMAIN n.nets
        BY <2>2
    <3> QED BY <3>1 DEF ShrunkInv
  <2> QED BY <2>1, <2>2
<1>5. ASSUME e.id \in e.delete
      PROVE  e.rest = {} /\ (K[e.id].subnet # 0 => K[e.id].node \notin DOMAIN o.nets)
  <2>1. CASE b.id \in b.delete
      BY <2>1 DEF ShrunkInv
  <2>2. CASE b.id \notin b.delete
    <3>1. F[z].contract = b.id
        BY <1>5, <2>2
    <3> QED BY <1>1, <3>1
  <2> QED BY <2>1, <2>2
<1>6. ASSUME NEW id \in e.delete \ {e.id}
      PROVE  id \in NetIn(K) /\ K[id].machines = {} /\ K[id].node \notin DOMAIN o.nets
  <2>1. CASE id \in b.delete
      BY <1>6, <2>1 DEF ShrunkInv
  <2>2. CASE id \notin b.delete
    <3>1. id = F[z].contract
        BY <2>2
    <3> QED BY <1>1, <3>1
  <2> QED BY <2>1, <2>2
<1>7. e.id \notin e.delete => e.subnet = K[e.id].subnet
    BY DEF ShrunkInv
<1>8. DOMAIN o.nets \subseteq DOMAIN F
    BY DEF ShrunkInv
<1> QED BY <1>3, <1>4, <1>5, <1>6, <1>7, <1>8 DEF ShrunkInv

\* An address of a machine that goes is freed.
LEMMA IpFreed ==
    ASSUME NEW K, NEW F, NEW n, NEW b, ShrunkInv(K, F, n, b), NEW S, S \subseteq GoneIps(K, b), NEW x,
           NEW o, o.nets = n.nets,
           \A z \in DOMAIN n.nets : /\ z # x => o.nodes[z] = n.nodes[z]
                                    /\ o.nodes[z].contract = n.nodes[z].contract,
           x \in DOMAIN n.nets => o.nodes[x].ips = n.nodes[x].ips \ S
    PROVE  ShrunkInv(K, F, o, b)
<1>1. ASSUME NEW z \in DOMAIN n.nets
      PROVE  Kept(K, F, o, z) /\ F[z].ips \ GoneIps(K, b) \subseteq o.nodes[z].ips
  <2>1. Kept(K, F, n, z) /\ F[z].ips \ GoneIps(K, b) \subseteq n.nodes[z].ips
      BY DEF ShrunkInv
  <2>2. n.nodes[z].ips \ S \subseteq o.nodes[z].ips
    <3>1. CASE z = x
        BY <3>1
    <3>2. CASE z # x
        BY <3>2
    <3> QED BY <3>1, <3>2
  <2> QED BY <2>1, <2>2 DEF Kept
<1> QED BY <1>1 DEF ShrunkInv

\* What Remove starts from and what it leaves.
Removal(p, n, s, t, b) ==
    /\ Deletion(contract, info, b) /\ DeletesInv(contract, p, b, t) /\ ShrunkInv(contract, info, n, b)
    /\ PendingInv(contract, n, b, t) /\ Stores(contract, s)

\* The first machine that is to be deleted, and the addresses of the others.
LEMMA HeadFacts ==
    ASSUME TypeInv, NEW c \in Calls, pc[c] = "remove",
           Removal("remove", net[c], stored[c], todo[c], batch[c])
    PROVE  LET m == Head(todo[c])
               x == Home(c)
           IN /\ m \in contract[batch[c].id].machines \ batch[c].rest
              /\ m.ip \in GoneIps(contract, batch[c])
              /\ x \in DOMAIN net[c].nets
              /\ \A k \in DOMAIN Tail(todo[c]) :
                   /\ Tail(todo[c])[k] \in contract[batch[c].id].machines \ batch[c].rest
                   /\ Tail(todo[c])[k].ip \in net[c].nodes[x].ips \ {m.ip}
              /\ \A j, k \in DOMAIN Tail(todo[c]) : Tail(todo[c])[j] = Tail(todo[c])[k] => j = k
              /\ Label(c) = "rest" => Tail(todo[c]) = <<>>
<1> DEFINE t == todo[c]
           m == Head(t)
           x == Home(c)
           M == contract[batch[c].id].machines
<1>1. t \in Seq(Machine) /\ t # <<>>
    BY LocalFacts DEF Stage
<1>2. /\ \A k \in DOMAIN t : t[k] \in M \ batch[c].rest
      /\ \A j, k \in DOMAIN t : t[j] = t[k] => j = k
      /\ \A k \in DOMAIN t : x \in DOMAIN net[c].nets /\ t[k].ip \in net[c].nodes[x].ips
    BY DEF Removal, DeletesInv, PendingInv, Home
<1> HIDE DEF t
<1>3. /\ m = t[1] /\ 1 \in DOMAIN t
      /\ Len(t) = 1 <=> Tail(t) = <<>>
      /\ \A k \in DOMAIN Tail(t) : Tail(t)[k] = t[k + 1] /\ k + 1 \in DOMAIN t /\ k \in Nat /\ k + 1 # 1
    BY <1>1, TailFacts
<1>4. \A k \in DOMAIN Tail(t) : Tail(t)[k] = t[k + 1] /\ k + 1 \in DOMAIN t /\ k + 1 # 1 /\ k \in Nat
    BY <1>3
<1>5. Label(c) = "rest" => Tail(t) = <<>>
    BY <1>3 DEF Label, t
<1>6. m \in M \ batch[c].rest /\ x \in DOMAIN net[c].nets
    BY <1>2, <1>3
<1>7. m.ip \in GoneIps(contract, batch[c])
    BY <1>6 DEF GoneIps
<1>8. batch[c].id \in OnChain(contract)
    BY DEF Removal, Deletion
<1>9. ASSUME NEW k \in DOMAIN Tail(t)
      PROVE  Tail(t)[k] \in M \ batch[c].rest /\ Tail(t)[k].ip \in net[c].nodes[x].ips \ {m.ip}
  <2>1. Tail(t)[k] \in M \ batch[c].rest /\ Tail(t)[k].ip \in net[c].nodes[x].ips /\ Tail(t)[k] # m
      BY <1>2, <1>3, <1>4
  <2>2. Tail(t)[k].ip # m.ip
      BY <1>6, <1>8, <2>1 DEF Removal, Deletion, DataInv
  <2> QED BY <2>1, <2>2
<1>10. ASSUME NEW j \in DOMAIN Tail(t), NEW k \in DOMAIN Tail(t), Tail(t)[j] = Tail(t)[k]  PROVE j = k
  <2>1. j + 1 = k + 1 /\ j \in Nat /\ k \in Nat
      BY <1>2, <1>4, <1>10
  <2> QED BY <2>1
<1> QED BY <1>5, <1>6, <1>7, <1>9, <1>10 DEF t

\* The parts of Remove that every machine has.
LEMMA FreedFacts ==
    ASSUME TypeInv, NEW c \in Calls, pc[c] = "remove",
           Removal("remove", net[c], stored[c], todo[c], batch[c])
    PROVE  /\ Deletion(contract, info, Emptied(c))
           /\ ShrunkInv(contract, info, FreedNet(c), Emptied(c))
           /\ Home(c) \in DOMAIN FreedNet(c).nets
           /\ batch[c].rest = {} /\ contract[batch[c].id].subnet = 0 => batch[c].id \in Emptied(c).delete
           /\ \A k \in DOMAIN Tail(todo[c]) : Tail(todo[c])[k].ip \in FreedNet(c).nodes[Home(c)].ips
<1> DEFINE m == Head(todo[c])
           S == {m.ip}
           n == FreedNet(c)
           b == batch[c]
           e == Emptied(c)
<1>1. /\ Shrunk(net[c], n) /\ DOMAIN n.nets = DOMAIN net[c].nets /\ n \in Network
      /\ \A z \in DOMAIN net[c].nets : z # Home(c) => n.nodes[z] = net[c].nodes[z]
      /\ Home(c) \in DOMAIN net[c].nets => n.nodes[Home(c)].ips = net[c].nodes[Home(c)].ips \ {m.ip}
      /\ Trimmed(b, e) /\ e.subnet = b.subnet
      /\ e.delete = b.delete \cup (IF b.rest = {} /\ b.subnet = 0 THEN {b.id} ELSE {})
    BY PartsFacts DEF Shrunk
<1>2. /\ Home(c) \in DOMAIN net[c].nets /\ m.ip \in GoneIps(contract, b)
      /\ \A k \in DOMAIN Tail(todo[c]) : Tail(todo[c])[k].ip \in net[c].nodes[Home(c)].ips \ {m.ip}
    BY HeadFacts
<1>3. /\ Deletion(contract, info, b) /\ ShrunkInv(contract, info, net[c], b)
    BY DEF Removal
<1>4. e.id = b.id /\ e.rest = b.rest
    BY <1>1 DEF Trimmed
<1>5. Deletion(contract, info, e)
    BY <1>3, <1>4 DEF Deletion
<1>6. \A z \in DOMAIN net[c].nets : n.nodes[z].contract = net[c].nodes[z].contract
    BY <1>1 DEF Shrunk
<1>7. n.nets = net[c].nets
  <2>1. n = FreeReservedIp(net[c], Home(c), m.ip)
      BY DEF FreedNet
  <2>2. net[c] \in Network
      BY LocalFacts
  <2>3. PICK l \in Network : l = net[c]
      BY <2>2
  <2> HIDE DEF n
  <2>4. n = FreeReservedIp(l, Home(c), m.ip)
      BY <2>1, <2>3
  <2>5. n.nets = l.nets
      BY <2>4, FreeReservedIpFacts
  <2> QED BY <2>3, <2>5
<1> HIDE DEF m, n, b, e
<1>8. S \subseteq GoneIps(contract, b) /\ (Home(c) \in DOMAIN net[c].nets => n.nodes[Home(c)].ips = net[c].nodes[Home(c)].ips \ S)
    BY <1>1, <1>2
<1> HIDE DEF S
<1>9. ShrunkInv(contract, info, n, b)
    BY <1>1, <1>3, <1>6, <1>7, <1>8, IpFreed
<1>10. b.id \in e.delete => b.rest = {} /\ (contract[b.id].subnet # 0 => contract[b.id].node \notin DOMAIN n.nets)
  <2>1. CASE b.id \in b.delete
      BY <1>9, <2>1 DEF ShrunkInv
  <2>2. CASE b.id \notin b.delete
    <3>1. b.subnet = contract[b.id].subnet
        BY <1>9, <2>2 DEF ShrunkInv
    <3> QED BY <1>1, <2>2, <3>1
  <2> QED BY <2>1, <2>2
<1>11. GoneIps(contract, e) = GoneIps(contract, b)
    BY <1>4 DEF GoneIps
<1>12. b.delete \subseteq e.delete /\ e.delete \ {b.id} \subseteq b.delete
    BY <1>1
<1>13. ShrunkInv(contract, info, n, e)
  <2>1. /\ DOMAIN n.nets \subseteq DOMAIN info
        /\ \A z \in DOMAIN n.nets : Kept(contract, info, n, z) /\ info[z].ips \ GoneIps(contract, e) \subseteq n.nodes[z].ips
      BY <1>9, <1>11 DEF ShrunkInv
  <2>2. \A z \in DOMAIN info \ DOMAIN n.nets :
         /\ info[z].contract \in e.delete
         /\ \A id \in OnChain(contract) : contract[id].node = z /\ contract[id].machines # {} => id \in e.delete
      BY <1>9, <1>12 DEF ShrunkInv
  <2>3. \A id \in e.delete \ {e.id} :
          id \in NetIn(contract) /\ contract[id].machines = {} /\ contract[id].node \notin DOMAIN n.nets
      BY <1>4, <1>9, <1>12 DEF ShrunkInv
  <2>4. e.id \notin e.delete => e.subnet = contract[e.id].subnet
      BY <1>1, <1>4, <1>9, <1>12 DEF ShrunkInv
  <2>5. e.id \in e.delete => e.rest = {} /\ (contract[e.id].subnet # 0 => contract[e.id].node \notin DOMAIN n.nets)
      BY <1>4, <1>10
  <2> QED BY <2>1, <2>2, <2>3, <2>4, <2>5 DEF ShrunkInv
<1>14. b.rest = {} /\ contract[b.id].subnet = 0 => b.id \in e.delete
  <2>1. CASE b.id \in b.delete
      BY <1>12, <2>1
  <2>2. CASE b.id \notin b.delete
    <3>1. b.subnet = contract[b.id].subnet
        BY <1>9, <2>2 DEF ShrunkInv
    <3> QED BY <1>1, <3>1
  <2> QED BY <2>1, <2>2
<1> QED BY <1>1, <1>2, <1>5, <1>13, <1>14 DEF n, b, e, m

\* While the nodes leave that have no addresses any more: what Remove has made
\* of the Network object and of the batch.
Leaving(c, n, b) ==
    /\ n \in Network /\ Trimmed(batch[c], b)
    /\ Deletion(contract, info, b) /\ ShrunkInv(contract, info, n, b)
    /\ b.rest = {} /\ contract[b.id].subnet = 0 => b.id \in b.delete
    /\ b.strip = {} /\ b.ips \subseteq GoneIps(contract, b)

\* The contract of a node that is in the Network object.
LEMMA ContractOfNode ==
    ASSUME NEW c, NEW n, NEW b, Leaving(c, n, b), NEW z \in DOMAIN n.nets
    PROVE  /\ Exists /\ Contract(n, z) = info[z].contract
           /\ info[z].contract \in NetIn(contract) /\ contract[info[z].contract].node = z
<1>1. z \in DOMAIN info /\ n.nodes[z].contract = info[z].contract
    BY DEF Leaving, ShrunkInv, Kept
<1>2. Exists
    BY <1>1, PartialEmpty DEF Exists
<1>3. Contract(n, z) = n.nodes[z].contract
    BY <1>2, NetworkFacts DEF Leaving, Contract, ContractOf
<1> QED BY <1>1, <1>2, <1>3, FileFacts DEF Leaving, Deletion

\* A node that leaves has a contract of another deployment.
LEMMA OtherLeaves ==
    ASSUME TypeInv, NEW c \in Calls, NEW n, NEW b, Leaving(c, n, b), Stores(contract, stored[c]),
           NEW z \in DOMAIN n.nets, n.nodes[z].ips = {}, Contract(n, z) # b.id,
           NEW o, o = Gone(n, z), NEW e, e = Drop(c, b, Contract(n, z))
    PROVE  Leaving(c, o, e) /\ DOMAIN o.nets = DOMAIN n.nets \ {z}
<1> DEFINE id == info[z].contract
<1>1. /\ Exists /\ Contract(n, z) = id /\ id \in NetIn(contract) /\ contract[id].node = z /\ id # b.id
    BY ContractOfNode
<1>2. /\ n \in Network /\ b \in Batch /\ Trimmed(batch[c], b)
      /\ Deletion(contract, info, b) /\ ShrunkInv(contract, info, n, b)
    BY DEF Leaving, Trimmed
<1>3. /\ \A i \in OnChain(contract) : contract[i].node = z /\ contract[i].machines # {} => i = b.id
      /\ contract[b.id].node = z => b.rest = {}
    BY <1>2, EmptyNode
<1> HIDE DEF id
<1>4. id \in OnChain(contract) /\ contract[id].machines = {}
    BY <1>1, <1>3 DEF NetIn
<1>5. id \in DOMAIN stored[c] /\ stored[c][id] = {}
    BY <1>1, <1>4 DEF Stores
<1>6. e = Drop(c, b, id)
    BY <1>1
<1>7. /\ Trimmed(b, e) /\ e.subnet = b.subnet /\ e.ips = b.ips
      /\ e.delete = b.delete \cup {i \in DOMAIN stored[c] : i = id /\ stored[c][i] = {}}
      /\ e.strip = b.strip \cup {i \in DOMAIN stored[c] : i = id /\ stored[c][i] # {}}
    BY <1>2, <1>6, DropFacts
<1>8. e.delete = b.delete \cup {id} /\ e.strip = b.strip
    BY <1>5, <1>7
<1>9. /\ o \in Network /\ DOMAIN o.nets = DOMAIN n.nets \ {z}
      /\ \A y \in DOMAIN o.nets : o.nets[y] = n.nets[y] /\ o.nodes[y] = n.nodes[y]
    BY <1>1, <1>2, GoneFacts DEF Shrunk
<1>10. e.id = b.id /\ e.rest = b.rest
    BY <1>7 DEF Trimmed
<1>11. \A i \in OnChain(contract) : contract[i].node = z /\ contract[i].machines # {} => i \in e.delete
  <2>1. ASSUME NEW i \in OnChain(contract), contract[i].node = z, contract[i].machines # {}
        PROVE  i \in e.delete
    <3>1. i = b.id /\ b.rest = {} /\ contract[b.id].node = z
        BY <1>3, <2>1
    <3>2. b.id \notin NetIn(contract)
        BY <1>1, <1>2, <3>1 DEF Deletion, DataInv
    <3>3. contract[b.id].subnet = 0
        BY <2>1, <3>1, <3>2 DEF NetIn
    <3> QED BY <1>8, <3>1, <3>3 DEF Leaving
  <2> QED BY <2>1
<1>12. ShrunkInv(contract, info, o, e)
    BY <1>1, <1>2, <1>4, <1>7, <1>8, <1>9, <1>10, <1>11, NodeLeaves DEF id
<1>13. Deletion(contract, info, e) /\ GoneIps(contract, e) = GoneIps(contract, b)
    BY <1>2, <1>10 DEF Deletion, GoneIps
<1>14. Trimmed(batch[c], e)
    BY <1>2, <1>7, TrimmedTransitive
<1>15. e.rest = {} /\ contract[e.id].subnet = 0 => e.id \in e.delete
    BY <1>8, <1>10 DEF Leaving
<1>16. e.strip = {} /\ e.ips \subseteq GoneIps(contract, e)
    BY <1>7, <1>8, <1>13 DEF Leaving
<1> QED BY <1>9, <1>12, <1>13, <1>14, <1>15, <1>16 DEF Leaving

\* The node of the deployment leaves.
LEMMA HomeLeaves ==
    ASSUME TypeInv, NEW c \in Calls, NEW n, NEW b, Leaving(c, n, b), Stores(contract, stored[c]),
           Home(c) \in DOMAIN n.nets, n.nodes[Home(c)].ips = {},
           NEW o, o = Gone(n, Home(c)), NEW e, e = LeaveNode(c, n, b, Home(c))
    PROVE  Leaving(c, o, e) /\ DOMAIN o.nets = DOMAIN n.nets \ {Home(c)}
<1>0. PICK z : z = Home(c)
    OBVIOUS
<1>1. /\ n \in Network /\ b \in Batch /\ Trimmed(batch[c], b)
      /\ Deletion(contract, info, b) /\ ShrunkInv(contract, info, n, b)
    BY DEF Leaving, Trimmed
<1>2. /\ Trimmed(b, e) /\ e.ips = b.ips
      /\ Contract(n, z) # b.id => e = Drop(c, b, Contract(n, z))
      /\ Contract(n, z) = b.id =>
           /\ e.subnet = 0 /\ e.strip = b.strip
           /\ e.delete = b.delete \cup (IF b.rest = {} THEN {b.id} ELSE {})
    BY <1>0, <1>1, LeaveNodeFacts
<1>3. /\ Exists /\ Contract(n, z) = info[z].contract
      /\ info[z].contract \in NetIn(contract) /\ contract[info[z].contract].node = z
    BY <1>0, ContractOfNode
<1>4. z = contract[b.id].node
    BY <1>0, <1>1 DEF Home, Trimmed
<1>5. n.nodes[z].ips = {} /\ z \in DOMAIN n.nets /\ o = Gone(n, z)
    BY <1>0
<1>6. CASE Contract(n, z) # b.id
    BY <1>0, <1>2, <1>5, <1>6, OtherLeaves
<1>7. CASE Contract(n, z) = b.id
  <2>1. /\ \A i \in OnChain(contract) : contract[i].node = z /\ contract[i].machines # {} => i = b.id
        /\ contract[b.id].node = z => b.rest = {}
      BY <1>1, <1>5, EmptyNode
  <2>2. b.rest = {} /\ info[z].contract = b.id
      BY <1>3, <1>4, <1>7, <2>1
  <2>3. e.delete = b.delete \cup {b.id} /\ e.strip = b.strip /\ e.id = b.id /\ e.rest = b.rest
      BY <1>2, <1>7, <2>2 DEF Trimmed
  <2>4. /\ o \in Network /\ DOMAIN o.nets = DOMAIN n.nets \ {z}
        /\ \A y \in DOMAIN o.nets : o.nets[y] = n.nets[y] /\ o.nodes[y] = n.nodes[y]
      BY <1>1, <1>3, <1>5, GoneFacts DEF Shrunk
  <2>5. \A i \in OnChain(contract) : contract[i].node = z /\ contract[i].machines # {} => i \in e.delete
      BY <2>1, <2>3
  <2>6. ShrunkInv(contract, info, o, e)
    <3>1. /\ e.delete = b.delete \cup {info[z].contract}
          /\ info[z].contract = b.id => b.rest = {}
          /\ info[z].contract # b.id => contract[info[z].contract].machines = {}
          /\ b.id \notin e.delete => e.subnet = b.subnet
          /\ e.id = b.id /\ e.rest = b.rest
        BY <2>2, <2>3
    <3>2. /\ Deletion(contract, info, b) /\ ShrunkInv(contract, info, n, b) /\ z \in DOMAIN n.nets
          /\ DOMAIN o.nets = DOMAIN n.nets \ {z}
          /\ \A y \in DOMAIN o.nets : o.nets[y] = n.nets[y] /\ o.nodes[y] = n.nodes[y]
        BY <1>1, <1>5, <2>4
    <3> QED BY <2>5, <3>1, <3>2, NodeLeaves
  <2>7. Deletion(contract, info, e) /\ GoneIps(contract, e) = GoneIps(contract, b)
      BY <1>1, <2>3 DEF Deletion, GoneIps
  <2>8. Trimmed(batch[c], e)
      BY <1>1, <1>2, TrimmedTransitive
  <2>9. e.strip = {} /\ e.ips \subseteq GoneIps(contract, e) /\ e.id \in e.delete
      BY <1>2, <2>3, <2>7 DEF Leaving
  <2> QED BY <1>0, <2>4, <2>6, <2>7, <2>8, <2>9 DEF Leaving
<1> QED BY <1>6, <1>7

\* And the last one, when nothing is left of the network.
LEMMA LastLeaves ==
    ASSUME TypeInv, NEW c \in Calls, NEW at, Leaving(c, at.net, at.batch), Stores(contract, stored[c]),
           Home(c) \notin DOMAIN at.net.nets, NEW o, o = LeaveLast(c, at)
    PROVE  Leaving(c, o.net, o.batch) /\ Home(c) \notin DOMAIN o.net.nets
<1>1. CASE o = at
    BY <1>1
<1>2. ASSUME NEW y \in Unused(at.net), o.net = Gone(at.net, y),
             o.batch = Drop(c, at.batch, Contract(at.net, y))
      PROVE  Leaving(c, o.net, o.batch) /\ Home(c) \notin DOMAIN o.net.nets
  <2>1. PICK n : n = at.net
      OBVIOUS
  <2>2. PICK b : b = at.batch
      OBVIOUS
  <2>3. PICK l : l = o.net
      OBVIOUS
  <2>4. PICK e : e = o.batch
      OBVIOUS
  <2>5. Leaving(c, n, b) /\ n \in Network /\ Trimmed(batch[c], b)
      BY <2>1, <2>2 DEF Leaving
  <2>6. y \in DOMAIN n.nets /\ n.nodes[y].ips = {}
    <3>1. y \in DOMAIN n.nodes /\ Ips(n, y) = {}
        BY <1>2, <2>1 DEF Unused
    <3> QED BY <2>5, <3>1, NetworkFacts DEF Ips
  <2>7. Contract(n, y) # b.id
    <3>1. Contract(n, y) = info[y].contract /\ contract[info[y].contract].node = y
        BY <2>5, <2>6, ContractOfNode
    <3>2. Home(c) = contract[b.id].node /\ Home(c) \notin DOMAIN n.nets
        BY <2>1, <2>5 DEF Home, Trimmed
    <3> QED BY <2>6, <3>1, <3>2
  <2>8. l = Gone(n, y) /\ e = Drop(c, b, Contract(n, y))
      BY <1>2, <2>1, <2>2, <2>3, <2>4
  <2>9. Leaving(c, l, e) /\ DOMAIN l.nets = DOMAIN n.nets \ {y}
      BY <2>5, <2>6, <2>7, <2>8, OtherLeaves
  <2> QED BY <2>1, <2>3, <2>4, <2>9
<1> QED BY <1>1, <1>2, LeaveLastFacts

LEMMA RemoveLeaves ==
    ASSUME TypeInv, NEW c \in Calls, pc[c] = "remove",
           Removal("remove", net[c], stored[c], todo[c], batch[c])
    PROVE  /\ Leaving(c, AfterRemove(c).net, AfterRemove(c).batch)
           /\ \A k \in DOMAIN Tail(todo[c]) :
                /\ Home(c) \in DOMAIN AfterRemove(c).net.nets
                /\ Tail(todo[c])[k].ip \in AfterRemove(c).net.nodes[Home(c)].ips
<1>1. /\ Deletion(contract, info, Emptied(c)) /\ ShrunkInv(contract, info, FreedNet(c), Emptied(c))
      /\ Home(c) \in DOMAIN FreedNet(c).nets
      /\ batch[c].rest = {} /\ contract[batch[c].id].subnet = 0 => batch[c].id \in Emptied(c).delete
      /\ \A k \in DOMAIN Tail(todo[c]) : Tail(todo[c])[k].ip \in FreedNet(c).nodes[Home(c)].ips
    BY FreedFacts
<1>2. /\ Shrunk(net[c], FreedNet(c)) /\ Trimmed(batch[c], Emptied(c))
      /\ Emptied(c).ips = batch[c].ips /\ Emptied(c).strip = batch[c].strip
    BY PartsFacts
<1>3. /\ Trimmed(batch[c], StayBatch(c)) /\ StayBatch(c).subnet = batch[c].subnet
      /\ StayBatch(c).ips = batch[c].ips \cup {Head(todo[c]).ip}
      /\ StayBatch(c).delete = Emptied(c).delete /\ StayBatch(c).strip = batch[c].strip
    BY StayBatchFacts
<1>4. batch[c].strip = {} /\ batch[c].ips \subseteq GoneIps(contract, batch[c])
    BY DEF Removal, DeletesInv
<1>5. Stores(contract, stored[c])
    BY DEF Removal
<1>6. Head(todo[c]).ip \in GoneIps(contract, batch[c])
    BY HeadFacts
<1>7. Emptied(c).subnet = batch[c].subnet
    BY PartsFacts
<1>8. PICK n : n = FreedNet(c)
    OBVIOUS
<1>9. PICK e : e = Emptied(c)
    OBVIOUS
<1>10. e.id = batch[c].id /\ e.rest = batch[c].rest
    BY <1>2, <1>9 DEF Trimmed
<1>11. n \in Network /\ Deletion(contract, info, e) /\ ShrunkInv(contract, info, n, e)
    BY <1>1, <1>2, <1>8, <1>9 DEF Shrunk
<1>12. GoneIps(contract, e) = GoneIps(contract, batch[c])
    BY <1>10 DEF GoneIps
<1>13. Leaving(c, n, e)
  <2>1. e.rest = {} /\ contract[e.id].subnet = 0 => e.id \in e.delete
      BY <1>1, <1>9, <1>10
  <2>2. e.strip = {} /\ e.ips \subseteq GoneIps(contract, e) /\ Trimmed(batch[c], e)
      BY <1>2, <1>4, <1>9, <1>12
  <2> QED BY <1>11, <2>1, <2>2 DEF Leaving
<1>14. CASE Stays(c)
  <2>1. PICK b : b = StayBatch(c)
      OBVIOUS
  <2>2. AfterRemove(c).net = n /\ AfterRemove(c).batch = b
    <3>1. AfterRemove(c) = [net |-> FreedNet(c), batch |-> StayBatch(c)]
        BY <1>14 DEF AfterRemove
    <3> QED BY <1>8, <2>1, <3>1
  <2>3. /\ Trimmed(batch[c], b) /\ b.id = e.id /\ b.rest = e.rest /\ b.subnet = e.subnet
        /\ b.delete = e.delete /\ b.strip = {} /\ b.ips = batch[c].ips \cup {Head(todo[c]).ip}
      BY <1>3, <1>4, <1>7, <1>9, <1>10, <2>1 DEF Trimmed
  <2>4. GoneIps(contract, b) = GoneIps(contract, e)
      BY <2>3 DEF GoneIps
  <2>5. Deletion(contract, info, b)
      BY <1>11, <2>3 DEF Deletion
  <2>6. ShrunkInv(contract, info, n, b)
      BY <1>11, <2>3, <2>4 DEF ShrunkInv
  <2>7. b.ips \subseteq GoneIps(contract, b)
      BY <1>4, <1>6, <1>12, <2>3, <2>4
  <2>8. Leaving(c, n, b)
      BY <1>13, <2>3, <2>5, <2>6, <2>7 DEF Leaving
  <2> QED BY <1>1, <1>8, <2>2, <2>8
<1>15. CASE ~Stays(c)
  <2>1. n.nodes[Home(c)].ips = {} /\ Home(c) \in DOMAIN n.nets
    <3>1. Ips(n, Home(c)) = {}
        BY <1>8, <1>15 DEF Stays
    <3> QED BY <1>1, <1>8, <1>11, <3>1, NetworkFacts DEF Ips
  <2>2. DOMAIN Tail(todo[c]) = {}
      BY <1>1, <1>8, <2>1
  <2>3. PICK l : l = Gone(n, Home(c))
      OBVIOUS
  <2>4. PICK b : b = LeaveNode(c, n, e, Home(c))
      OBVIOUS
  <2>5. Leaving(c, l, b) /\ DOMAIN l.nets = DOMAIN n.nets \ {Home(c)}
      BY <1>5, <1>13, <2>1, <2>3, <2>4, HomeLeaves
  <2>6. PICK at : at = Left(c)
      OBVIOUS
  <2>7. at.net = l /\ at.batch = b
      BY <1>8, <1>9, <2>3, <2>4, <2>6 DEF Left, LeftNet, LeftBatch
  <2>8. PICK o : o = LeaveLast(c, at)
      OBVIOUS
  <2>9. AfterRemove(c) = o
      BY <1>15, <2>6, <2>8 DEF AfterRemove
  <2>10. Leaving(c, o.net, o.batch)
    <3>1. Leaving(c, at.net, at.batch) /\ Home(c) \notin DOMAIN at.net.nets
        BY <2>5, <2>7
    <3> QED BY <1>5, <2>8, <3>1, LastLeaves
  <2> QED BY <2>2, <2>9, <2>10
<1> QED BY <1>14, <1>15

LEMMA RemoveData ==
    ASSUME TypeInv, NEW c \in Calls, pc[c] = "remove",
           Removal("remove", net[c], stored[c], todo[c], batch[c])
    PROVE  Removal(Label(c), AfterRemove(c).net, stored[c], Tail(todo[c]), AfterRemove(c).batch)
<1>1. PICK n : n = AfterRemove(c).net
    OBVIOUS
<1>2. PICK b : b = AfterRemove(c).batch
    OBVIOUS
<1>3. PICK t : t = Tail(todo[c])
    OBVIOUS
<1>4. /\ Leaving(c, n, b)
      /\ \A k \in DOMAIN t : Home(c) \in DOMAIN n.nets /\ t[k].ip \in n.nodes[Home(c)].ips
    BY <1>1, <1>2, <1>3, RemoveLeaves
<1>5. /\ \A k \in DOMAIN t : t[k] \in contract[batch[c].id].machines \ batch[c].rest
      /\ \A j, k \in DOMAIN t : t[j] = t[k] => j = k
      /\ Label(c) = "rest" => t = <<>>
    BY <1>3, HeadFacts
<1>6. b.id = batch[c].id /\ b.rest = batch[c].rest /\ b.touch = batch[c].touch
    BY <1>4 DEF Leaving, Trimmed
<1>7. batch[c].touch = FALSE /\ Stores(contract, stored[c])
    BY DEF Removal, DeletesInv
<1>8. PendingInv(contract, n, b, t)
    BY <1>4, <1>6 DEF PendingInv, Home
<1>9. Label(c) \in {"rest", "remove"}
    BY DEF Label
<1>10. Label(c) \notin {"load", "loadSave"} /\ (Label(c) \in {"rest", "free", "handle"} => t = <<>>)
    BY <1>5, <1>9
<1>11. DeletesInv(contract, Label(c), b, t)
  <2>1. /\ b.id \in OnChain(contract) /\ b.rest \subseteq contract[b.id].machines
        /\ b.strip = {} /\ b.ips \subseteq GoneIps(contract, b)
      BY <1>4 DEF Leaving, Deletion
  <2>2. b.touch = FALSE
      BY <1>6, <1>7
  <2> QED BY <1>5, <1>6, <1>10, <2>1, <2>2 DEF DeletesInv
<1> QED BY <1>1, <1>2, <1>3, <1>4, <1>7, <1>8, <1>11 DEF Removal, Leaving
-----------------------------------------------------------------------------
(***************************************************************************)
(* A step of a call, and the other calls.                                  *)
(***************************************************************************)
LEMMA Elsewhere ==
    ASSUME TypeInv, NEW c \in Calls, NEW p, NEW r, NEW n, NEW s, NEW t, NEW b, Now(c, p, r, n, s, t, b)
    PROVE  /\ pc'[c] = p /\ call'[c] = r /\ net'[c] = n
           /\ stored'[c] = s /\ todo'[c] = t /\ batch'[c] = b
           /\ \A d \in Calls \ {c} :
                /\ pc'[d] = pc[d] /\ call'[d] = call[d] /\ net'[d] = net[d]
                /\ stored'[d] = stored[d] /\ todo'[d] = todo[d] /\ batch'[d] = batch[d]
BY DEF TypeInv, Now

\* While a call works from what it has read no other is about to save.
LEMMA QuietFacts ==
    ASSUME CleanInv, clean, NEW c \in Calls, c \notin stale, pc[c] \notin {"idle", "load"}
    PROVE  \A d \in Calls \ {c} : pc[d] # "save"
BY DEF CleanInv, SavesInv

\* A step that changes neither the contracts nor the file.
LEMMA Reads ==
    ASSUME TypeInv, CleanInv, NEW c \in Calls, NEW p, NEW r, NEW n, NEW s, NEW t, NEW b,
           Now(c, p, r, n, s, t, b), UNCHANGED <<contract, info>>,
           clean' => clean /\ pc[c] # "save", p # "save",
           \A d \in Calls \ {c} : d \in stale' <=> d \in stale,
           clean' /\ c \notin stale' => Mirror(contract, info, p, r, n, s, t, b),
           clean' /\ c \notin stale' /\ p \notin {"idle", "load"} => \A d \in Calls \ {c} : pc[d] # "save"
    PROVE  CleanInv'
<1> SUFFICES ASSUME clean'
             PROVE  /\ DataInv(contract')
                    /\ Quiet' => FileInv(contract', info')
                    /\ \A d \in Calls : pc'[d] = "save" => SavesInv(d)'
                    /\ \A d \in Calls : d \notin stale' => MirrorOf(d)'
    BY DEF CleanInv
<1>1. /\ clean /\ DataInv(contract) /\ (Quiet => FileInv(contract, info))
      /\ \A d \in Calls : pc[d] = "save" => SavesInv(d)
      /\ \A d \in Calls : d \notin stale => MirrorOf(d)
    BY DEF CleanInv
<1>2. /\ pc'[c] = p /\ call'[c] = r /\ net'[c] = n
      /\ stored'[c] = s /\ todo'[c] = t /\ batch'[c] = b
      /\ \A d \in Calls \ {c} :
           /\ pc'[d] = pc[d] /\ call'[d] = call[d] /\ net'[d] = net[d]
           /\ stored'[d] = stored[d] /\ todo'[d] = todo[d] /\ batch'[d] = batch[d]
    BY Elsewhere
<1>3. Quiet' => Quiet
    BY <1>2 DEF Quiet
<1>4. ASSUME NEW d \in Calls, pc'[d] = "save"  PROVE SavesInv(d)'
  <2>1. d # c /\ pc[d] = "save" /\ net'[d] = net[d]
      BY <1>2, <1>4
  <2>2. SavesInv(d)
      BY <1>1, <2>1
  <2>3. d \notin stale'
      BY <2>1, <2>2 DEF SavesInv
  <2>4. ASSUME NEW e \in Calls \ {d}  PROVE pc'[e] \in {"idle", "load"} \/ e \in stale'
    <3>1. CASE e = c
        BY <1>2, <2>1, <3>1
    <3>2. CASE e # c
        BY <1>2, <2>2, <3>2 DEF SavesInv
    <3> QED BY <3>1, <3>2
  <2>5. FileInv(contract', Entries(net'[d]))
      BY <2>1, <2>2 DEF SavesInv
  <2> QED BY <2>3, <2>4, <2>5 DEF SavesInv
<1>5. ASSUME NEW d \in Calls, d \notin stale'  PROVE MirrorOf(d)'
  <2>1. CASE d = c
      BY <1>2, <1>5, <2>1 DEF MirrorOf
  <2>2. CASE d # c
    <3>1. MirrorOf(d)
        BY <1>1, <1>5, <2>2
    <3> QED BY <1>2, <2>2, <3>1 DEF MirrorOf
  <2> QED BY <2>1, <2>2
<1> QED BY <1>1, <1>3, <1>4, <1>5

\* A call that writes from what is not stale: all the others are.
LEMMA WritesAlone ==
    ASSUME TypeInv, CleanInv, NEW c \in Calls, NEW p, NEW r, NEW n, NEW s, NEW t, NEW b,
           Now(c, p, r, n, s, t, b), Writes(c), pc[c] \notin {"idle", "load"},
           clean /\ c \notin stale =>
             /\ DataInv(contract') /\ Mirror(contract', info', p, r, n, s, t, b)
             /\ p = "save" => FileInv(contract', Entries(n))
             /\ p # "save" => FileInv(contract', info')
    PROVE  CleanInv'
<1> SUFFICES ASSUME clean'
             PROVE  /\ DataInv(contract')
                    /\ Quiet' => FileInv(contract', info')
                    /\ \A d \in Calls : pc'[d] = "save" => SavesInv(d)'
                    /\ \A d \in Calls : d \notin stale' => MirrorOf(d)'
    BY DEF CleanInv
<1>1. clean /\ c \notin stale
    BY DEF Writes
<1>2. stale' = (stale \ {c}) \cup {d \in Calls \ {c} : pc[d] # "idle"}
    BY DEF Writes
<1>3. /\ pc'[c] = p /\ call'[c] = r /\ net'[c] = n
      /\ stored'[c] = s /\ todo'[c] = t /\ batch'[c] = b
      /\ \A d \in Calls \ {c} : pc'[d] = pc[d]
    BY Elsewhere
<1>4. \A d \in Calls \ {c} : pc[d] # "save"
    BY <1>1, QuietFacts
<1>5. Quiet' => p # "save"
    BY <1>3 DEF Quiet
<1>6. ASSUME NEW d \in Calls, pc'[d] = "save"  PROVE SavesInv(d)'
  <2>1. d = c /\ p = "save"
      BY <1>3, <1>4, <1>6
  <2>2. FileInv(contract', Entries(net'[d]))
      BY <1>1, <1>3, <2>1
  <2>3. d \notin stale' /\ \A e \in Calls \ {d} : pc'[e] \in {"idle", "load"} \/ e \in stale'
      BY <1>2, <1>3, <2>1
  <2> QED BY <2>2, <2>3 DEF SavesInv
<1>7. ASSUME NEW d \in Calls, d \notin stale'  PROVE MirrorOf(d)'
  <2>1. CASE d = c
      BY <1>1, <1>3, <2>1 DEF MirrorOf
  <2>2. CASE d # c
    <3>1. pc'[d] = "idle"
        BY <1>2, <1>3, <1>7, <2>2
    <3> QED BY <3>1 DEF MirrorOf, Mirror
  <2> QED BY <2>1, <2>2
<1> QED BY <1>1, <1>5, <1>6, <1>7
-----------------------------------------------------------------------------
(***************************************************************************)
(* The steps of a call before handle().                                    *)
(***************************************************************************)
\* A call ends, and has written nothing that it has not saved.
LEMMA EndsData ==
    ASSUME TypeInv, IdleInv, CleanInv, NEW c \in Calls,
           Now(c, "idle", NoRequest, EmptyNetwork, <<>>, <<>>, NoBatch), stale' = stale \ {c},
           clean' => clean /\ pc[c] # "save" /\ UNCHANGED <<contract, info>>
    PROVE  IdleInv' /\ CleanInv'
<1>1. IdleInv'
    BY IdleMoves DEF Labels
<1>2. CASE clean'
  <2>1. Mirror(contract, info, "idle", NoRequest, EmptyNetwork, <<>>, <<>>, NoBatch)
      BY DEF Mirror
  <2> QED BY <1>1, <1>2, <2>1, Reads
<1>3. CASE ~clean'
    BY <1>1, <1>3 DEF CleanInv
<1> QED BY <1>2, <1>3

LEMMA ThrowData ==
    ASSUME TypeInv, IdleInv, CleanInv, NEW c \in Calls, Throw(c), pc[c] # "save"
    PROVE  IdleInv' /\ CleanInv'
<1>1. stale' = stale \ {c} /\ UNCHANGED <<contract, info, clean>>
    BY DEF Throw
<1>2. Now(c, "idle", NoRequest, EmptyNetwork, <<>>, <<>>, NoBatch)
    BY ThrowTypes
<1> QED BY <1>1, <1>2, EndsData

LEMMA BeginData ==
    ASSUME TypeInv, IdleInv, CleanInv, NEW c \in Calls, Begin(c)
    PROVE  IdleInv' /\ CleanInv'
<1>1. /\ pc[c] = "idle" /\ UNCHANGED <<contract, info, stale, clean>>
      /\ \E r, t, b : Begun(c, r, t, b)
    BY BeginShape
<1>2. PICK r, t, b : Begun(c, r, t, b)
    BY <1>1
<1>3. Now(c, "load", r, net[c], stored[c], t, b)
    BY <1>2 DEF Begun
<1>4. batch[c] = NoBatch
    BY <1>1 DEF IdleInv
<1>5. Mirror(contract, info, "load", r, net[c], stored[c], t, b)
  <2>1. CASE r.op # "delete" /\ b = batch[c]
      BY <1>4, <2>1 DEF Mirror
  <2>2. ASSUME r.op = "delete", NEW id \in DeploymentsOf(r.name), NEW gone \in SUBSET contract[id].machines,
               t = SetToSeq(gone), b = Chosen(batch[c], id, gone)
        PROVE  Mirror(contract, info, "load", r, net[c], stored[c], t, b)
    <3>1. id \in Ids /\ id \in OnChain(contract)
        BY DEF DeploymentsOf, Live, OnChain
    <3>2. NoBatch \in Batch
        BY NothingFacts
    <3>3. /\ b.touch = NoBatch.touch /\ b.delete = NoBatch.delete /\ b.strip = NoBatch.strip
          /\ b.ips = NoBatch.ips /\ b.id = id /\ b.rest = contract[id].machines \ gone
          /\ b.subnet = contract[id].subnet /\ gone \in Fin(Machine)
      <4>1. b = Chosen(NoBatch, id, gone)
          BY <1>4, <2>2
      <4> QED BY <3>1, <3>2, <4>1, ChosenFacts
    <3>4. NoBatch.touch = FALSE /\ NoBatch.delete = {} /\ NoBatch.strip = {} /\ NoBatch.ips = {}
        BY DEF NoBatch
    <3>5. /\ \A k \in DOMAIN t : t[k] \in gone
          /\ \A j, k \in DOMAIN t : t[j] = t[k] => j = k
      <4>1. IsFiniteSet(gone)
          BY <3>3 DEF Fin
      <4> QED BY <2>2, <4>1, SetToSeqFacts
    <3>6. b.touch = FALSE
        BY <3>3, <3>4
    <3>7. DeletesInv(contract, "load", b, t)
        BY <3>1, <3>3, <3>4, <3>5, <3>6 DEF DeletesInv
    <3> QED BY <2>2, <3>7 DEF Mirror
  <2> QED BY <1>2, <2>1, <2>2 DEF Begun
<1>6. CleanInv'
    BY <1>1, <1>3, <1>5, Reads
<1>7. IdleInv'
    BY <1>1, <1>3, IdleMoves DEF Labels
<1> QED BY <1>6, <1>7

\* What has just been loaded is what the next steps start from.
LEMMA AfterLoadMirror ==
    ASSUME NEW c, NEW K, NEW F, NEW n, NEW s, NEW b,
           Mirror(K, F, "loadSave", call[c], n, s, todo[c], b)
    PROVE  Mirror(K, F, AfterLoad(c), call[c], n, s, todo[c], b)
<1>1. CASE call[c].op # "delete"
  <2>1. AfterLoad(c) = "build" /\ GrownInv(K, F, n, b) /\ Stores(K, s)
      BY <1>1 DEF AfterLoad, Mirror
  <2> QED BY <1>1, <2>1 DEF Mirror
<1>2. CASE call[c].op = "delete"
  <2>1. /\ DeletesInv(K, "loadSave", b, todo[c]) /\ ShrunkInv(K, F, n, b) /\ PendingInv(K, n, b, todo[c])
        /\ Stores(K, s)
      BY <1>2 DEF Mirror
  <2>2. AfterLoad(c) = IF todo[c] # <<>> THEN "remove" ELSE "free"
      BY <1>2 DEF AfterLoad
  <2>3. AfterLoad(c) \in {"remove", "free"} /\ (AfterLoad(c) = "free" => todo[c] = <<>>)
      BY <2>2
  <2>4. DeletesInv(K, AfterLoad(c), b, todo[c])
      BY <2>1, <2>3 DEF DeletesInv
  <2> QED BY <1>2, <2>1, <2>3, <2>4 DEF Mirror
<1> QED BY <1>1, <1>2

LEMMA LoadData ==
    ASSUME TypeInv, IdleInv, CleanInv, NEW c \in Calls, Load(c)
    PROVE  IdleInv' /\ CleanInv'
<1> DEFINE p == IF Exists THEN "loadSave" ELSE AfterLoad(c)
           l == IF Exists THEN Loaded ELSE EmptyNetwork
           s == [id \in {info[x].contract : x \in Found} |-> contract[id].machines]
<1>1. /\ pc[c] = "load" /\ stored' = [stored EXCEPT ![c] = s]
      /\ stale' = IF \E d \in Calls : pc[d] = "save" THEN stale \cup {c} ELSE stale
      /\ UNCHANGED <<contract, info, clean>>
    BY DEF Load
<1>2. stored'[c] = s
    BY <1>1 DEF TypeInv
<1>3. Now(c, p, call[c], l, stored'[c], todo[c], batch[c])
    BY LoadTypes
<1>4. PICK n : n = l
    OBVIOUS
<1>5. Now(c, p, call[c], n, stored'[c], todo[c], batch[c])
    BY <1>3, <1>4
<1>6. AfterLoad(c) \in {"build", "remove", "free"}
    BY <1>1, AfterLoadStage
<1>7. p \in Labels /\ p # "idle" /\ p # "save" /\ p # "load"
    BY <1>6 DEF Labels
<1>8. ASSUME clean', c \notin stale'
      PROVE  /\ Mirror(contract, info, p, call[c], n, stored'[c], todo[c], batch[c])
             /\ \A d \in Calls : pc[d] # "save"
  <2>1. clean /\ c \notin stale /\ \A d \in Calls : pc[d] # "save"
      BY <1>1, <1>8
  <2>2. FileInv(contract, info) /\ DataInv(contract) /\ MirrorOf(c)
      BY <2>1 DEF CleanInv, Quiet
  <2>3. Mirror(contract, info, "load", call[c], net[c], stored[c], todo[c], batch[c])
      BY <1>1, <2>2 DEF MirrorOf
  <2>4. JustLoaded(contract, info, n) /\ Stores(contract, stored'[c])
      BY <1>2, <1>4, <2>2, LoadsAll
  <2>5. Mirror(contract, info, "loadSave", call[c], n, stored'[c], todo[c], batch[c])
    <3>1. CASE call[c].op # "delete"
      <4>1. batch[c] = NoBatch
          BY <2>3, <3>1 DEF Mirror
      <4>2. GrownInv(contract, info, n, batch[c])
          BY <2>2, <2>4, <4>1, GrownLoaded
      <4> QED BY <2>4, <3>1, <4>2 DEF Mirror
    <3>2. CASE call[c].op = "delete"
      <4>1. DeletesInv(contract, "load", batch[c], todo[c])
          BY <2>3, <3>2 DEF Mirror
      <4>2. ShrunkInv(contract, info, n, batch[c]) /\ PendingInv(contract, n, batch[c], todo[c])
          BY <2>2, <2>4, <4>1, ShrunkLoaded
      <4>3. DeletesInv(contract, "loadSave", batch[c], todo[c])
          BY <4>1 DEF DeletesInv
      <4> QED BY <2>4, <3>2, <4>2, <4>3 DEF Mirror
    <3> QED BY <3>1, <3>2
  <2>6. Mirror(contract, info, AfterLoad(c), call[c], n, stored'[c], todo[c], batch[c])
      BY <2>5, AfterLoadMirror
  <2> QED BY <2>1, <2>5, <2>6
<1> HIDE DEF p, l, s
<1>9. \A d \in Calls \ {c} : d \in stale' <=> d \in stale
    BY <1>1
<1>10. CleanInv'
    BY <1>1, <1>5, <1>7, <1>8, <1>9, Reads
<1>11. IdleInv'
    BY <1>5, <1>7, <1>9, IdleMoves
<1> QED BY <1>10, <1>11

LEMMA LoadFailsData ==
    ASSUME TypeInv, IdleInv, CleanInv, NEW c \in Calls, LoadFails(c)
    PROVE  IdleInv' /\ CleanInv'
<1>1. Throw(c) /\ pc[c] # "save"
    BY DEF LoadFails
<1> QED BY <1>1, ThrowData

\* The save of what was just loaded changes nothing.
LEMMA EntriesLoaded ==
    ASSUME TypeInv, NEW n \in Network, \A z \in DOMAIN n.nets : n.nodes[z].contract <= MaxId,
           JustLoaded(contract, info, n)
    PROVE  Entries(n) = info
<1>1. /\ Entries(n) \in Partial(Nodes, InfoEntry)
      /\ DOMAIN Entries(n) = {x \in DOMAIN n.nets : n.nodes[x].contract # 0}
      /\ \A x \in DOMAIN Entries(n) : Entries(n)[x] = n.nodes[x]
    BY EntriesFacts
<1>2. /\ DOMAIN n.nets = DOMAIN info
      /\ \A z \in DOMAIN info : n.nodes[z].contract = info[z].contract /\ n.nodes[z].ips = info[z].ips
    BY DEF JustLoaded, Kept
<1>3. info \in [DOMAIN info -> InfoEntry] /\ \A z \in DOMAIN info : info[z] \in InfoEntry
    BY PartialFacts DEF TypeInv
<1>4. \A z \in DOMAIN info : info[z].contract # 0
    BY <1>3 DEF InfoEntry, Ids
<1>5. PICK e : e = Entries(n)
    OBVIOUS
<1>6. DOMAIN e = DOMAIN info
    BY <1>1, <1>2, <1>4, <1>5
<1>7. e \in [DOMAIN e -> InfoEntry] /\ \A z \in DOMAIN e : e[z] \in InfoEntry
    BY <1>1, <1>5, PartialFacts
<1>8. ASSUME NEW z \in DOMAIN info  PROVE e[z] = info[z]
  <2>1. e[z].contract = info[z].contract /\ e[z].ips = info[z].ips
      BY <1>1, <1>2, <1>5, <1>6
  <2>2. e[z] \in InfoEntry /\ info[z] \in InfoEntry
      BY <1>3, <1>6, <1>7
  <2> QED BY <2>1, <2>2 DEF InfoEntry
<1> QED BY <1>3, <1>5, <1>6, <1>7, <1>8

LEMMA LoadSaveData ==
    ASSUME TypeInv, IdleInv, CleanInv, NEW c \in Calls, LoadSave(c)
    PROVE  IdleInv' /\ CleanInv'
<1>1. /\ pc[c] = "loadSave" /\ info' = Entries(net[c])
      /\ IF info' = info THEN UNCHANGED <<stale, clean>> ELSE Writes(c)
      /\ contract' = contract
    BY DEF LoadSave
<1>2. Now(c, AfterLoad(c), call[c], net[c], stored[c], todo[c], batch[c])
    BY LoadSaveTypes
<1>3. AfterLoad(c) \in {"build", "remove", "free"}
    BY <1>1, AfterLoadStage
<1>4. AfterLoad(c) \in Labels /\ AfterLoad(c) # "idle" /\ AfterLoad(c) # "save"
    BY <1>3 DEF Labels
<1>5. IdleInv'
  <2>1. \A d \in Calls \ {c} : d \in stale' => d \in stale \/ pc[d] # "idle"
    <3>1. CASE stale' = stale
        BY <3>1
    <3>2. CASE Writes(c)
        BY <3>2 DEF Writes
    <3> QED BY <1>1, <3>1, <3>2
  <2> QED BY <1>2, <1>4, <2>1, IdleMoves
<1>6. ASSUME clean, c \notin stale
      PROVE  /\ Mirror(contract, info, AfterLoad(c), call[c], net[c], stored[c], todo[c], batch[c])
             /\ \A d \in Calls \ {c} : pc[d] # "save"
             /\ info' = info
  <2>1. MirrorOf(c)
      BY <1>6 DEF CleanInv
  <2>2. Mirror(contract, info, "loadSave", call[c], net[c], stored[c], todo[c], batch[c])
      BY <1>1, <2>1 DEF MirrorOf
  <2>3. JustLoaded(contract, info, net[c])
      BY <2>2 DEF Mirror
  <2>4. net[c] \in Network /\ \A z \in DOMAIN net[c].nets : net[c].nodes[z].contract <= MaxId
      BY LocalFacts DEF Stage
  <2>5. info' = info
      BY <1>1, <2>3, <2>4, EntriesLoaded
  <2> QED BY <1>1, <1>6, <2>2, <2>5, AfterLoadMirror, QuietFacts
<1>7. CleanInv'
  <2>1. CASE info' = info
    <3>1. UNCHANGED <<contract, info, stale, clean>>
        BY <1>1, <2>1
    <3>2. clean' => clean /\ pc[c] # "save"
        BY <1>1, <3>1
    <3>3. /\ \A d \in Calls \ {c} : d \in stale' <=> d \in stale
          /\ clean' /\ c \notin stale' => clean /\ c \notin stale
        BY <3>1
    <3> QED BY <1>2, <1>4, <1>6, <3>1, <3>2, <3>3, Reads
  <2>2. CASE info' # info
    <3>1. clean' => clean /\ c \notin stale
        BY <1>1, <2>2 DEF Writes
    <3>2. ~clean'
        BY <1>6, <2>2, <3>1
    <3> QED BY <3>2 DEF CleanInv
  <2> QED BY <2>1, <2>2
<1> QED BY <1>5, <1>7

LEMMA BuildData ==
    ASSUME TypeInv, IdleInv, CleanInv, NEW c \in Calls, Build(c)
    PROVE  IdleInv' /\ CleanInv'
<1>1. CASE Throw(c)
  <2>1. pc[c] # "save"
      BY DEF Build
  <2> QED BY <1>1, <2>1, ThrowData
<1>2. ASSUME NEW i, NEW g, NEW new, NEW ip, Built(c, i, g, new, ip)
      PROVE  IdleInv' /\ CleanInv'
  <2> DEFINE p == IF Len(todo[c]) = 1 THEN "handle" ELSE "build"
  <2>1. PICK x : x = i.node
      OBVIOUS
  <2>2. PICK m : m = [name |-> i.machine, ip |-> ip]
      OBVIOUS
  <2>3. PICK n : n = net'[c]
      OBVIOUS
  <2>4. PICK b : b = batch'[c]
      OBVIOUS
  <2>5. /\ pc[c] = "build" /\ GrownBy(net[c], g, new, x)
        /\ UNCHANGED <<contract, info, stale, clean>>
        /\ Now(c, p, call[c], ReserveIp(g, i.node, ip), stored[c], Tail(todo[c]),
               GrownBatch(batch[c], new, i.node, [name |-> i.machine, ip |-> ip]))
      BY <1>2, <2>1 DEF Built
  <2>6. /\ n.nets = g.nets /\ x \in DOMAIN g.nets
        /\ \A z \in DOMAIN g.nets \ {x} : n.nodes[z] = g.nodes[z]
        /\ n.nodes[x].contract = g.nodes[x].contract
        /\ n.nodes[x].ips = g.nodes[x].ips \cup {ip}
        /\ ip.subnet = g.nets[x].subnet /\ ip \notin g.nodes[x].ips
        /\ Grew(batch[c], new, x, m, b)
      BY <1>2, <2>1, <2>2, <2>3, <2>4, BuiltFacts
  <2>7. TypeInv'
      BY <1>2, BuiltFacts
  <2>8. batch[c] \in Batch /\ net[c] \in Network /\ call[c].op # "delete"
      BY <2>5, LocalFacts DEF Stage
  <2>9. b \in Batch
      BY <2>4, <2>7 DEF TypeInv
  <2>10. m.ip = ip
      BY <2>2
  <2>11. p \in Labels /\ p \in {"handle", "build"}
      BY DEF Labels
  <2> HIDE DEF p
  <2>12. Now(c, p, call[c], n, stored[c], Tail(todo[c]), b)
    <3>1. /\ net'[c] = ReserveIp(g, i.node, ip)
          /\ batch'[c] = GrownBatch(batch[c], new, i.node, [name |-> i.machine, ip |-> ip])
        BY <2>5, Elsewhere
    <3> QED BY <2>3, <2>4, <2>5, <3>1
  <2>13. ASSUME clean', c \notin stale'
         PROVE  /\ Mirror(contract, info, p, call[c], n, stored[c], Tail(todo[c]), b)
                /\ \A d \in Calls \ {c} : pc[d] # "save"
    <3>1. clean /\ c \notin stale
        BY <2>5, <2>13
    <3>2. MirrorOf(c)
        BY <3>1 DEF CleanInv
    <3>3. GrownInv(contract, info, net[c], batch[c]) /\ Stores(contract, stored[c])
        BY <2>5, <2>8, <3>2 DEF MirrorOf, Mirror
    <3>4. m.ip.subnet = g.nets[x].subnet /\ m.ip \notin g.nodes[x].ips /\ n.nodes[x].ips = g.nodes[x].ips \cup {m.ip}
        BY <2>6, <2>10
    <3>5. GrownInv(contract, info, n, b)
        BY <2>5, <2>6, <2>8, <2>9, <3>3, <3>4, GrownStep
    <3>6. Mirror(contract, info, p, call[c], n, stored[c], Tail(todo[c]), b)
        BY <2>8, <2>11, <3>3, <3>5 DEF Mirror
    <3> QED BY <2>5, <3>1, <3>6, QuietFacts
  <2>14. p # "idle" /\ p # "save"
      BY <2>11
  <2>15. IdleInv'
      BY <2>5, <2>11, <2>12, <2>14, IdleMoves
  <2>16. /\ clean' => clean /\ pc[c] # "save"
         /\ UNCHANGED <<contract, info>>
         /\ \A d \in Calls \ {c} : d \in stale' <=> d \in stale
      BY <2>5
  <2>17. CleanInv'
      BY <2>12, <2>13, <2>14, <2>16, Reads
  <2> QED BY <2>15, <2>17
<1> QED BY <1>1, <1>2, BuildShape

\* What a deletion that is under way has, when nothing of it is stale.
LEMMA RemovalFacts ==
    ASSUME TypeInv, CleanInv, clean, NEW c \in Calls, c \notin stale, pc[c] \in {"remove", "rest", "free", "handle"},
           call[c].op = "delete"
    PROVE  Removal(pc[c], net[c], stored[c], todo[c], batch[c])
<1>1. /\ DeletesInv(contract, pc[c], batch[c], todo[c]) /\ ShrunkInv(contract, info, net[c], batch[c])
      /\ PendingInv(contract, net[c], batch[c], todo[c]) /\ Stores(contract, stored[c])
    BY DEF CleanInv, MirrorOf, Mirror
<1>2. Quiet
  <2>1. \A d \in Calls \ {c} : pc[d] # "save"
      BY QuietFacts
  <2> QED BY <2>1 DEF Quiet
<1>3. Deletion(contract, info, batch[c])
  <2>1. batch[c].id \in OnChain(contract) /\ batch[c].rest \subseteq contract[batch[c].id].machines
      BY <1>1 DEF DeletesInv
  <2> QED BY <1>2, <2>1 DEF CleanInv, Deletion
<1> QED BY <1>1, <1>3 DEF Removal

LEMMA DeletesData ==
    ASSUME TypeInv, IdleInv, CleanInv, NEW c \in Calls, pc[c] \in {"remove", "rest", "free"},
           NEW p \in {"remove", "rest", "free", "load", "handle"}, NEW n, NEW t, NEW b,
           Now(c, p, call[c], n, stored[c], t, b), UNCHANGED <<contract, info, stale, clean>>,
           Removal(pc[c], net[c], stored[c], todo[c], batch[c]) => Removal(p, n, stored[c], t, b)
    PROVE  IdleInv' /\ CleanInv'
<1>1. call[c].op = "delete" /\ p \in Labels /\ p # "idle" /\ p # "save"
    BY LocalFacts DEF Stage, Labels
<1>2. IdleInv'
    BY <1>1, IdleMoves
<1>3. ASSUME clean', c \notin stale'
      PROVE  /\ Mirror(contract, info, p, call[c], n, stored[c], t, b)
             /\ \A d \in Calls \ {c} : pc[d] # "save"
  <2>1. clean /\ c \notin stale
      BY <1>3
  <2>2. Removal(p, n, stored[c], t, b)
      BY <1>1, <2>1, RemovalFacts
  <2>3. Mirror(contract, info, p, call[c], n, stored[c], t, b)
      BY <1>1, <2>2 DEF Removal, Mirror
  <2> QED BY <2>1, <2>3, QuietFacts
<1>4. clean' => clean /\ pc[c] # "save"
    OBVIOUS
<1>5. \A d \in Calls \ {c} : d \in stale' <=> d \in stale
    OBVIOUS
<1>6. CleanInv'
    BY <1>1, <1>3, <1>4, <1>5, Reads
<1> QED BY <1>2, <1>6

LEMMA RemoveStepData ==
    ASSUME TypeInv, IdleInv, CleanInv, NEW c \in Calls, Remove(c)
    PROVE  IdleInv' /\ CleanInv'
<1>1. /\ pc[c] = "remove" /\ UNCHANGED <<contract, info, stale, clean>>
      /\ Now(c, Label(c), call[c], AfterRemove(c).net, stored[c], Tail(todo[c]), AfterRemove(c).batch)
    BY RemoveShape
<1>2. Label(c) \in {"remove", "rest", "free", "load", "handle"}
    BY DEF Label
<1>3. Removal(pc[c], net[c], stored[c], todo[c], batch[c]) =>
        Removal(Label(c), AfterRemove(c).net, stored[c], Tail(todo[c]), AfterRemove(c).batch)
    BY <1>1, RemoveData
<1> QED BY <1>1, <1>2, <1>3, DeletesData

LEMMA RestData ==
    ASSUME TypeInv, IdleInv, CleanInv, NEW c \in Calls, Rest(c)
    PROVE  IdleInv' /\ CleanInv'
<1>1. pc[c] = "rest"
    BY DEF Rest
<1>2. CASE Throw(c)
    BY <1>1, <1>2, ThrowData
<1>3. ASSUME NEW p \in {"load", "handle"}, Now(c, p, call[c], net[c], stored[c], todo[c], batch[c]),
             p = "load" <=> (batch[c].subnet # 0 /\ batch[c].delete \cup batch[c].strip = {}),
             UNCHANGED <<contract, info, stale, clean>>
      PROVE  IdleInv' /\ CleanInv'
  <2>1. ASSUME Removal("rest", net[c], stored[c], todo[c], batch[c])
        PROVE  Removal(p, net[c], stored[c], todo[c], batch[c])
    <3>1. /\ DeletesInv(contract, "rest", batch[c], todo[c]) /\ ShrunkInv(contract, info, net[c], batch[c])
          /\ batch[c].id \in OnChain(contract)
        BY <2>1 DEF Removal, Deletion
    <3>2. todo[c] = <<>>
        BY <3>1 DEF DeletesInv
    <3>3. ASSUME p = "load"  PROVE batch[c].delete = {} /\ batch[c].subnet = contract[batch[c].id].subnet
      <4>1. batch[c].delete = {}
          BY <1>3, <3>3
      <4>2. batch[c].id \notin batch[c].delete
          BY <4>1
      <4> QED BY <3>1, <4>1, <4>2 DEF ShrunkInv
    <3>4. p # "loadSave"
        BY <1>3
    <3>5. DeletesInv(contract, p, batch[c], todo[c])
        BY <3>1, <3>2, <3>3, <3>4 DEF DeletesInv
    <3> QED BY <2>1, <3>5 DEF Removal
  <2>2. Removal(pc[c], net[c], stored[c], todo[c], batch[c]) => Removal(p, net[c], stored[c], todo[c], batch[c])
      BY <1>1, <2>1
  <2>3. p \in {"remove", "rest", "free", "load", "handle"} /\ pc[c] \in {"remove", "rest", "free"}
      BY <1>1, <1>3
  <2> QED BY <1>3, <2>2, <2>3, DeletesData
<1> QED BY <1>2, <1>3, RestTypes

LEMMA FreeIpsData ==
    ASSUME TypeInv, IdleInv, CleanInv, NEW c \in Calls, FreeIps(c)
    PROVE  IdleInv' /\ CleanInv'
<1>1. PICK o : o = WithoutIps(net[c], Home(c), batch[c].ips)
    OBVIOUS
<1>2. /\ pc[c] = "free" /\ UNCHANGED <<contract, info, stale, clean>>
      /\ Now(c, "handle", call[c], o, stored[c], todo[c], batch[c])
    BY <1>1, FreeIpsTypes
<1>3. ASSUME Removal("free", net[c], stored[c], todo[c], batch[c])
      PROVE  Removal("handle", o, stored[c], todo[c], batch[c])
  <2>1. PICK n \in Network : n = net[c]
      BY LocalFacts
  <2>2. PICK x : x = Home(c)
      OBVIOUS
  <2>3. PICK S : S = batch[c].ips
      OBVIOUS
  <2>4. /\ o.nets = n.nets
        /\ \A z \in DOMAIN n.nets : /\ z # x => o.nodes[z] = n.nodes[z]
                                    /\ o.nodes[z].contract = n.nodes[z].contract
        /\ x \in DOMAIN n.nets => o.nodes[x].ips = n.nodes[x].ips \ S
    <3>1. o = WithoutIps(n, x, S)
        BY <1>1, <2>1, <2>2, <2>3
    <3> QED BY <3>1, WithoutIpsFacts
  <2>5. /\ DeletesInv(contract, "free", batch[c], todo[c]) /\ ShrunkInv(contract, info, n, batch[c])
        /\ Deletion(contract, info, batch[c]) /\ Stores(contract, stored[c])
      BY <1>3, <2>1 DEF Removal
  <2>6. S \subseteq GoneIps(contract, batch[c]) /\ todo[c] = <<>>
      BY <2>3, <2>5 DEF DeletesInv
  <2>7. ShrunkInv(contract, info, o, batch[c])
    <3>1. PICK b : b = batch[c]
        OBVIOUS
    <3>2. ShrunkInv(contract, info, n, b) /\ S \subseteq GoneIps(contract, b)
        BY <2>5, <2>6, <3>1
    <3>3. o.nets = n.nets /\ (x \in DOMAIN n.nets => o.nodes[x].ips = n.nodes[x].ips \ S)
        BY <2>4
    <3>4. \A z \in DOMAIN n.nets : /\ z # x => o.nodes[z] = n.nodes[z]
                                   /\ o.nodes[z].contract = n.nodes[z].contract
        BY <2>4
    <3>5. ShrunkInv(contract, info, o, b)
        BY <3>2, <3>3, <3>4, IpFreed, SMTT(30)
    <3> QED BY <3>1, <3>5
  <2>8. DeletesInv(contract, "handle", batch[c], todo[c])
      BY <2>5 DEF DeletesInv
  <2>9. PendingInv(contract, o, batch[c], todo[c])
    <3>1. DOMAIN todo[c] = {}
        BY <2>6
    <3> QED BY <3>1 DEF PendingInv
  <2> QED BY <2>5, <2>7, <2>8, <2>9 DEF Removal
<1>4. Removal(pc[c], net[c], stored[c], todo[c], batch[c]) => Removal("handle", o, stored[c], todo[c], batch[c])
    BY <1>2, <1>3
<1>5. pc[c] \in {"remove", "rest", "free"}
    BY <1>2
<1> QED BY <1>2, <1>4, <1>5, DeletesData
-----------------------------------------------------------------------------
(***************************************************************************)
(* How a call ends.                                                        *)
(***************************************************************************)
LEMMA HandleFailsData ==
    ASSUME TypeInv, IdleInv, CleanInv, NEW c \in Calls, HandleFails(c)
    PROVE  IdleInv' /\ CleanInv'
<1>1. /\ pc[c] = "handle" /\ info' = info /\ stale' = stale \ {c}
      /\ clean' = (clean /\ contract' = contract)
    BY HandleFailsTypes
<1>2. Now(c, "idle", NoRequest, EmptyNetwork, <<>>, <<>>, NoBatch)
    BY HandleFailsTypes
<1>3. clean' => clean /\ pc[c] # "save" /\ UNCHANGED <<contract, info>>
    BY <1>1
<1> QED BY <1>1, <1>2, <1>3, EndsData

LEMMA CrashData ==
    ASSUME TypeInv, IdleInv, CleanInv, NEW c \in Calls, Crash(c)
    PROVE  IdleInv' /\ CleanInv'
<1>1. UNCHANGED <<contract, info>> /\ stale' = stale \ {c} /\ clean' = (clean /\ pc[c] # "save")
    BY CrashTypes
<1>2. Now(c, "idle", NoRequest, EmptyNetwork, <<>>, <<>>, NoBatch)
    BY CrashTypes
<1>3. clean' => clean /\ pc[c] # "save" /\ UNCHANGED <<contract, info>>
    BY <1>1
<1> QED BY <1>1, <1>2, <1>3, EndsData

LEMMA SaveData ==
    ASSUME TypeInv, IdleInv, CleanInv, NEW c \in Calls, Save(c)
    PROVE  IdleInv' /\ CleanInv'
<1>1. /\ pc[c] = "save" /\ info' = Entries(net[c]) /\ Writes(c) /\ contract' = contract
      /\ Now(c, "idle", NoRequest, EmptyNetwork, <<>>, <<>>, NoBatch)
    BY SaveTypes
<1>2. stale' = (stale \ {c}) \cup {b \in Calls \ {c} : pc[b] # "idle"}
    BY <1>1 DEF Writes
<1>3. IdleInv'
    BY <1>1, <1>2, IdleMoves DEF Labels
<1>4. Mirror(contract', info', "idle", NoRequest, EmptyNetwork, <<>>, <<>>, NoBatch)
    BY DEF Mirror
<1>5. clean /\ c \notin stale => DataInv(contract') /\ FileInv(contract', info')
    BY <1>1 DEF CleanInv, SavesInv
<1>6. CleanInv'
    BY <1>1, <1>4, <1>5, WritesAlone
<1> QED BY <1>3, <1>6

LEMMA CancelData ==
    ASSUME TypeInv, IdleInv, CleanInv, NEW id \in Ids, Cancel(id)
    PROVE  IdleInv' /\ CleanInv'
<1>1. ~clean' /\ UNCHANGED <<pc, batch, stale>>
    BY DEF Cancel, local
<1> QED BY <1>1 DEF IdleInv, CleanInv
-----------------------------------------------------------------------------
(***************************************************************************)
(* handle(): the contracts L that it makes of K, and the file E that the   *)
(* call is going to save.                                                  *)
(***************************************************************************)
\* The nodes of the file are those of the Network object n.
Saves(n, ids, E) ==
    LET C(z) == IF n.nodes[z].contract = 0 /\ z \in DOMAIN ids THEN ids[z] ELSE n.nodes[z].contract
    IN /\ DOMAIN E = {z \in DOMAIN n.nets : C(z) # 0}
       /\ \A z \in DOMAIN E : E[z].contract = C(z) /\ E[z].ips = n.nodes[z].ips

\* A deletion: the contracts of the batch go, and the machines of b.id that do
\* not remain.
Deleted(K, b, L) ==
    /\ \A id \in Ids \cap b.delete : L[id].state # "created"
    /\ \A id \in Ids \ b.delete :
         /\ L[id].state = K[id].state /\ L[id].node = K[id].node /\ L[id].subnet = K[id].subnet
         /\ L[id].machines = IF id = b.id THEN b.rest ELSE K[id].machines
         /\ L[id].peers = K[id].peers

LEMMA DeletionWritten ==
    ASSUME NEW K, NEW F, NEW n, NEW b, NEW L, NEW E, NEW ids, DOMAIN ids = {},
           Deletion(K, F, b), ShrunkInv(K, F, n, b), Deleted(K, b, L), Saves(n, ids, E)
    PROVE  DataInv(L) /\ FileInv(L, E)
<1>1. DataInv(K) /\ FileInv(K, F) /\ b.id \in OnChain(K) /\ b.rest \subseteq K[b.id].machines
    BY DEF Deletion
<1>2. /\ OnChain(L) = OnChain(K) \ b.delete /\ NetIn(L) = NetIn(K) \ b.delete
      /\ \A id \in OnChain(L) :
           /\ id \in OnChain(K) \ b.delete /\ L[id].node = K[id].node /\ L[id].subnet = K[id].subnet
           /\ L[id].machines = IF id = b.id THEN b.rest ELSE K[id].machines
    BY DEF Deleted, OnChain, NetIn
<1>3. \A id \in OnChain(L) : L[id].machines \subseteq K[id].machines
    BY <1>1, <1>2
\* A contract of a network workload goes with its node, and the other way round.
<1>4. ASSUME NEW i \in NetIn(K)
      PROVE  K[i].node \in DOMAIN F /\ (i \in b.delete <=> K[i].node \notin DOMAIN n.nets)
  <2>1. K[i].node \in DOMAIN F /\ F[K[i].node].contract = i /\ K[i].subnet # 0
      BY <1>1 DEF FileInv, NetIn
  <2>2. i \in b.delete => K[i].node \notin DOMAIN n.nets
      BY <2>1 DEF ShrunkInv
  <2>3. K[i].node \notin DOMAIN n.nets => i \in b.delete
      BY <2>1 DEF ShrunkInv
  <2> QED BY <2>1, <2>2, <2>3
\* A machine that remains is on a node that does.
<1>5. ASSUME NEW id \in OnChain(L), NEW m \in L[id].machines
      PROVE  /\ L[id].node = K[id].node /\ m \in K[id].machines /\ id \in OnChain(K)
             /\ K[id].node \in DOMAIN n.nets /\ m.ip \in n.nodes[K[id].node].ips
  <2>1. id \in OnChain(K) \ b.delete /\ L[id].node = K[id].node /\ m \in K[id].machines
      BY <1>2, <1>3
  <2>2. K[id].node \in DOMAIN F /\ m.ip \in F[K[id].node].ips
      BY <1>1, <2>1 DEF FileInv
  <2>3. K[id].node \in DOMAIN n.nets
      BY <2>1, <2>2 DEF ShrunkInv
  <2>4. m.ip \notin GoneIps(K, b)
    <3>1. ASSUME m.ip \in GoneIps(K, b)  PROVE FALSE
      <4>1. id = b.id /\ m \notin b.rest
          BY <2>1, <3>1, GoneMachines
      <4> QED BY <1>2, <4>1
    <3> QED BY <3>1
  <2>5. F[K[id].node].ips \ GoneIps(K, b) \subseteq n.nodes[K[id].node].ips
      BY <2>3 DEF ShrunkInv
  <2> QED BY <2>1, <2>2, <2>3, <2>4, <2>5
<1>6. DataInv(L)
  <2>1. \A i, j \in NetIn(L) : i # j => L[i].node # L[j].node /\ L[i].subnet # L[j].subnet
    <3>1. \A i \in NetIn(L) : i \in NetIn(K) /\ L[i].node = K[i].node /\ L[i].subnet = K[i].subnet
        BY <1>2 DEF NetIn
    <3> QED BY <1>1, <3>1 DEF DataInv
  <2>2. ASSUME NEW id \in OnChain(L), NEW m \in L[id].machines
        PROVE  \E i \in NetIn(L) : L[i].node = L[id].node /\ m.ip.subnet = L[i].subnet
    <3>1. PICK i \in NetIn(K) : K[i].node = K[id].node /\ m.ip.subnet = K[i].subnet
        BY <1>1, <1>5 DEF DataInv
    <3>2. i \in NetIn(L)
        BY <1>2, <1>4, <1>5, <3>1
    <3>3. L[i].node = K[i].node /\ L[i].subnet = K[i].subnet
        BY <1>2, <3>2 DEF NetIn
    <3> QED BY <1>5, <3>1, <3>2, <3>3
  <2>3. \A i, j \in OnChain(L) : \A m \in L[i].machines : \A k \in L[j].machines :
          m.ip = k.ip => i = j /\ m = k
      BY <1>1, <1>5 DEF DataInv
  <2> QED BY <2>1, <2>2, <2>3 DEF DataInv
<1>7. \A z \in DOMAIN n.nets : /\ z \in DOMAIN F /\ n.nodes[z].contract = F[z].contract
                               /\ F[z].contract \in NetIn(K) /\ K[F[z].contract].node = z
    BY <1>1, FileFacts DEF ShrunkInv, Kept
<1>8. /\ DOMAIN E = DOMAIN n.nets
      /\ \A z \in DOMAIN E : E[z].contract = F[z].contract /\ E[z].ips = n.nodes[z].ips
  <2>1. 0 \notin NetIn(K)
      BY DEF NetIn, OnChain, Ids
  <2> QED BY <1>7, <2>1 DEF Saves
<1>9. FileInv(L, E)
  <2>1. ASSUME NEW id \in NetIn(L)
        PROVE  L[id].node \in DOMAIN E /\ E[L[id].node].contract = id
    <3>1. id \in NetIn(K) /\ L[id].node = K[id].node /\ id \notin b.delete
        BY <1>2 DEF NetIn
    <3>2. K[id].node \in DOMAIN n.nets /\ F[K[id].node].contract = id
        BY <1>1, <1>4, <3>1 DEF FileInv
    <3> QED BY <1>8, <3>1, <3>2
  <2>2. ASSUME NEW z \in DOMAIN E  PROVE \E id \in NetIn(L) : z = L[id].node
    <3>1. F[z].contract \in NetIn(K) /\ K[F[z].contract].node = z /\ z \in DOMAIN n.nets
        BY <1>7, <1>8
    <3>2. F[z].contract \in NetIn(L)
        BY <1>2, <1>4, <3>1
    <3>3. L[F[z].contract].node = z
        BY <1>2, <3>1, <3>2 DEF NetIn
    <3> QED BY <3>2, <3>3
  <2>3. \A id \in OnChain(L) : \A m \in L[id].machines :
          L[id].node \in DOMAIN E /\ m.ip \in E[L[id].node].ips
      BY <1>5, <1>8
  <2>4. DOMAIN E = {L[id].node : id \in NetIn(L)}
      BY <2>1, <2>2
  <2> QED BY <2>1, <2>3, <2>4 DEF FileInv
<1> QED BY <1>6, <1>9

\* A deployment as handle() creates it, or adds to it, on the node x of the
\* batch: a network workload comes with a new contract only.
CreatedOn(K, n, b, L, x, id) ==
    /\ K[id].state # "created"
    /\ L[id].machines = b.create[x].machines
    /\ L[id].subnet = IF b.create[x].net THEN n.nets[x].subnet ELSE 0
JoinedOn(K, b, L, x, id) ==
    /\ K[id].state = "created" /\ K[id].node = x /\ ~b.create[x].net
    /\ L[id].machines = K[id].machines \cup b.create[x].machines
    /\ L[id].subnet = K[id].subnet
CreationOf(K, n, b, ids, L) ==
    /\ DOMAIN ids = DOMAIN b.create
    /\ \A x, y \in DOMAIN ids : ids[x] = ids[y] => x = y
    /\ \A x \in DOMAIN ids :
         /\ ids[x] \in Ids /\ L[ids[x]].state = "created" /\ L[ids[x]].node = x
         /\ CreatedOn(K, n, b, L, x, ids[x]) \/ JoinedOn(K, b, L, x, ids[x])
    /\ \A id \in Ids : (\A x \in DOMAIN ids : ids[x] # id) =>
         /\ L[id].state = K[id].state /\ L[id].node = K[id].node /\ L[id].subnet = K[id].subnet
         /\ L[id].machines = K[id].machines

\* The contracts of the nodes.
LEMMA CreationNodes ==
    ASSUME NEW K, NEW F, NEW n, NEW b, NEW L, NEW ids,
           DataInv(K), FileInv(K, F), GrownInv(K, F, n, b), CreationOf(K, n, b, ids, L)
    PROVE  /\ \A id \in OnChain(K) : id \in OnChain(L) /\ L[id].node = K[id].node /\ L[id].subnet = K[id].subnet
           /\ NetIn(K) \subseteq NetIn(L)
           /\ \A id \in NetIn(L) :
                /\ L[id].node \in DOMAIN n.nets /\ L[id].subnet = n.nets[L[id].node].subnet
                /\ L[id].node \in DOMAIN F => id = F[L[id].node].contract
                /\ L[id].node \notin DOMAIN F => L[id].node \in DOMAIN ids /\ id = ids[L[id].node]
           /\ \A z \in DOMAIN n.nets : \E id \in NetIn(L) : z = L[id].node
<1>1. /\ DOMAIN F \subseteq DOMAIN n.nets /\ Apart(n)
      /\ \A z \in DOMAIN F : n.nets[z].subnet = K[F[z].contract].subnet
      /\ \A z \in DOMAIN n.nets \ DOMAIN F : z \in DOMAIN b.create /\ b.create[z].net
      /\ \A z \in DOMAIN b.create : z \in DOMAIN n.nets /\ (b.create[z].net => z \notin DOMAIN F)
    BY DEF GrownInv, Kept
<1>2. ASSUME NEW id \in OnChain(K)
      PROVE  id \in OnChain(L) /\ L[id].node = K[id].node /\ L[id].subnet = K[id].subnet
  <2>1. id \in Ids /\ K[id].state = "created"
      BY DEF OnChain
  <2>2. CASE \A x \in DOMAIN ids : ids[x] # id
      BY <2>1, <2>2 DEF CreationOf, OnChain
  <2>3. ASSUME NEW x \in DOMAIN ids, ids[x] = id
        PROVE  id \in OnChain(L) /\ L[id].node = K[id].node /\ L[id].subnet = K[id].subnet
    <3>1. L[id].state = "created" /\ L[id].node = x /\ JoinedOn(K, b, L, x, id)
        BY <2>1, <2>3 DEF CreationOf, CreatedOn
    <3> QED BY <2>1, <3>1 DEF JoinedOn, OnChain
  <2> QED BY <2>2, <2>3
<1>3. NetIn(K) \subseteq NetIn(L)
    BY <1>2 DEF NetIn
<1>4. ASSUME NEW id \in NetIn(K)
      PROVE  /\ L[id].node = K[id].node /\ K[id].node \in DOMAIN F /\ id = F[K[id].node].contract
             /\ L[id].subnet = n.nets[K[id].node].subnet
  <2>1. K[id].node \in DOMAIN F /\ F[K[id].node].contract = id
      BY DEF FileInv
  <2>2. L[id].node = K[id].node /\ L[id].subnet = K[id].subnet
      BY <1>2 DEF NetIn
  <2> QED BY <1>1, <2>1, <2>2
<1>5. ASSUME NEW id \in NetIn(L), id \notin NetIn(K)
      PROVE  /\ L[id].node \in DOMAIN ids /\ id = ids[L[id].node] /\ L[id].node \in DOMAIN n.nets \ DOMAIN F
             /\ L[id].subnet = n.nets[L[id].node].subnet
  <2>1. id \in Ids /\ L[id].state = "created" /\ L[id].subnet # 0
      BY DEF NetIn, OnChain
  <2>2. \E x \in DOMAIN ids : ids[x] = id
      BY <1>5, <2>1 DEF CreationOf, NetIn, OnChain
  <2>3. PICK x \in DOMAIN ids : ids[x] = id
      BY <2>2
  <2>4. L[id].node = x /\ (CreatedOn(K, n, b, L, x, id) \/ JoinedOn(K, b, L, x, id))
      BY <2>3 DEF CreationOf
  <2>5. CreatedOn(K, n, b, L, x, id)
      BY <1>5, <2>1, <2>4 DEF JoinedOn, NetIn, OnChain
  <2>6. b.create[x].net /\ L[id].subnet = n.nets[x].subnet /\ x \in DOMAIN b.create
      BY <2>1, <2>3, <2>5 DEF CreatedOn, CreationOf
  <2> QED BY <1>1, <2>3, <2>4, <2>6
<1>6. ASSUME NEW z \in DOMAIN n.nets  PROVE \E id \in NetIn(L) : z = L[id].node
  <2>1. CASE z \in DOMAIN F
      BY <1>3, <1>4, <2>1, FileFacts
  <2>2. CASE z \notin DOMAIN F
    <3>1. z \in DOMAIN ids /\ b.create[z].net
        BY <1>1, <2>2 DEF CreationOf
    <3>2. ids[z] \in Ids /\ L[ids[z]].state = "created" /\ L[ids[z]].node = z
        BY <3>1 DEF CreationOf
    <3>3. CreatedOn(K, n, b, L, z, ids[z])
        BY <3>1 DEF CreationOf, JoinedOn
    <3>4. L[ids[z]].subnet # 0
        BY <1>1, <3>1, <3>3 DEF CreatedOn, Apart
    <3> QED BY <3>2, <3>4 DEF NetIn, OnChain
  <2> QED BY <2>1, <2>2
<1>7. ASSUME NEW id \in NetIn(L)
      PROVE  /\ L[id].node \in DOMAIN n.nets /\ L[id].subnet = n.nets[L[id].node].subnet
             /\ L[id].node \in DOMAIN F => id = F[L[id].node].contract
             /\ L[id].node \notin DOMAIN F => L[id].node \in DOMAIN ids /\ id = ids[L[id].node]
  <2>1. CASE id \in NetIn(K)
      BY <1>1, <1>4, <2>1
  <2>2. CASE id \notin NetIn(K)
      BY <1>5, <2>2
  <2> QED BY <2>1, <2>2
<1> QED BY <1>2, <1>3, <1>6, <1>7

\* The machines of the contracts: those that were there, and those of the batch.
LEMMA CreationMachines ==
    ASSUME NEW K, NEW F, NEW n, NEW b, NEW L, NEW ids,
           DataInv(K), FileInv(K, F), GrownInv(K, F, n, b), CreationOf(K, n, b, ids, L),
           NEW id \in OnChain(L), NEW m \in L[id].machines
    PROVE  /\ \/ id \in OnChain(K) /\ m \in K[id].machines /\ L[id].node = K[id].node
                 /\ K[id].node \in DOMAIN F /\ m.ip \in F[K[id].node].ips
              \/ \E x \in DOMAIN ids :
                   /\ x \in DOMAIN b.create /\ id = ids[x] /\ L[id].node = x /\ m \in b.create[x].machines
                   /\ x \in DOMAIN F => m.ip \notin F[x].ips
           /\ L[id].node \in DOMAIN n.nets /\ m.ip.subnet = n.nets[L[id].node].subnet
           /\ m.ip \in n.nodes[L[id].node].ips
<1>1. id \in Ids /\ L[id].state = "created"
    BY DEF OnChain
<1>2. ASSUME id \in OnChain(K), m \in K[id].machines
      PROVE  /\ L[id].node = K[id].node /\ K[id].node \in DOMAIN F /\ m.ip \in F[K[id].node].ips
             /\ L[id].node \in DOMAIN n.nets /\ m.ip.subnet = n.nets[L[id].node].subnet
             /\ m.ip \in n.nodes[L[id].node].ips
  <2>1. L[id].node = K[id].node
      BY <1>2, CreationNodes
  <2>2. K[id].node \in DOMAIN F /\ m.ip \in F[K[id].node].ips
      BY <1>2 DEF FileInv
  <2>3. /\ K[id].node \in DOMAIN n.nets /\ F[K[id].node].ips \subseteq n.nodes[K[id].node].ips
        /\ n.nets[K[id].node].subnet = K[F[K[id].node].contract].subnet
      BY <2>2 DEF GrownInv, Kept
  <2>4. PICK i \in NetIn(K) : K[i].node = K[id].node /\ m.ip.subnet = K[i].subnet
      BY <1>2 DEF DataInv
  <2>5. F[K[id].node].contract = i
      BY <2>4 DEF FileInv
  <2> QED BY <2>1, <2>2, <2>3, <2>4, <2>5
<1>3. ASSUME NEW x \in DOMAIN ids, id = ids[x], m \in b.create[x].machines
      PROVE  /\ x \in DOMAIN b.create /\ L[id].node = x /\ (x \in DOMAIN F => m.ip \notin F[x].ips)
             /\ L[id].node \in DOMAIN n.nets /\ m.ip.subnet = n.nets[L[id].node].subnet
             /\ m.ip \in n.nodes[L[id].node].ips
  <2>1. x \in DOMAIN b.create /\ L[id].node = x
      BY <1>3 DEF CreationOf
  <2> QED BY <1>3, <2>1 DEF GrownInv
<1>4. (id \in OnChain(K) /\ m \in K[id].machines) \/ \E x \in DOMAIN ids : id = ids[x] /\ m \in b.create[x].machines
  <2>1. CASE \A x \in DOMAIN ids : ids[x] # id
      BY <1>1, <2>1 DEF CreationOf, OnChain
  <2>2. ASSUME NEW x \in DOMAIN ids, ids[x] = id
        PROVE  (id \in OnChain(K) /\ m \in K[id].machines) \/ m \in b.create[x].machines
      BY <1>1, <2>2 DEF CreationOf, CreatedOn, JoinedOn, OnChain
  <2> QED BY <2>1, <2>2
<1> QED BY <1>2, <1>3, <1>4

LEMMA CreationWritten ==
    ASSUME NEW K, NEW F, NEW n, NEW b, NEW L, NEW ids, NEW E,
           DataInv(K), FileInv(K, F), GrownInv(K, F, n, b), CreationOf(K, n, b, ids, L), Saves(n, ids, E)
    PROVE  DataInv(L) /\ FileInv(L, E)
<1>1. /\ \A id \in NetIn(L) :
           /\ L[id].node \in DOMAIN n.nets /\ L[id].subnet = n.nets[L[id].node].subnet
           /\ L[id].node \in DOMAIN F => id = F[L[id].node].contract
           /\ L[id].node \notin DOMAIN F => L[id].node \in DOMAIN ids /\ id = ids[L[id].node]
      /\ \A z \in DOMAIN n.nets : \E id \in NetIn(L) : z = L[id].node
    BY CreationNodes
<1>2. Apart(n)
    BY DEF GrownInv
<1>3. \A i, j \in NetIn(L) : i # j => L[i].node # L[j].node /\ L[i].subnet # L[j].subnet
  <2>1. ASSUME NEW i \in NetIn(L), NEW j \in NetIn(L), i # j  PROVE L[i].node # L[j].node
      BY <1>1, <2>1
  <2> QED BY <1>1, <1>2, <2>1 DEF Apart
<1>4. ASSUME NEW id \in OnChain(L), NEW m \in L[id].machines
      PROVE  /\ \/ id \in OnChain(K) /\ m \in K[id].machines /\ L[id].node = K[id].node
                   /\ K[id].node \in DOMAIN F /\ m.ip \in F[K[id].node].ips
                \/ \E x \in DOMAIN ids :
                     /\ x \in DOMAIN b.create /\ id = ids[x] /\ L[id].node = x /\ m \in b.create[x].machines
                     /\ x \in DOMAIN F => m.ip \notin F[x].ips
             /\ L[id].node \in DOMAIN n.nets /\ m.ip.subnet = n.nets[L[id].node].subnet
             /\ m.ip \in n.nodes[L[id].node].ips
    BY CreationMachines
<1>5. ASSUME NEW id \in OnChain(L), NEW m \in L[id].machines
      PROVE  \E i \in NetIn(L) : L[i].node = L[id].node /\ m.ip.subnet = L[i].subnet
  <2>1. L[id].node \in DOMAIN n.nets /\ m.ip.subnet = n.nets[L[id].node].subnet
      BY <1>4
  <2>2. PICK i \in NetIn(L) : L[id].node = L[i].node
      BY <1>1, <2>1
  <2> QED BY <1>1, <2>1, <2>2
<1>6. ASSUME NEW i \in OnChain(L), NEW j \in OnChain(L), NEW m \in L[i].machines, NEW k \in L[j].machines,
             m.ip = k.ip
      PROVE  i = j /\ m = k
  <2> DEFINE Old(id, q) == /\ id \in OnChain(K) /\ q \in K[id].machines /\ L[id].node = K[id].node
                           /\ K[id].node \in DOMAIN F /\ q.ip \in F[K[id].node].ips
             New(id, q, x) == /\ x \in DOMAIN ids /\ x \in DOMAIN b.create /\ id = ids[x] /\ L[id].node = x
                              /\ q \in b.create[x].machines /\ (x \in DOMAIN F => q.ip \notin F[x].ips)
  <2>1. Old(i, m) \/ \E x : New(i, m, x)
      BY <1>4
  <2>2. Old(j, k) \/ \E x : New(j, k, x)
      BY <1>4
  <2>3. L[i].node = L[j].node
    <3>1. /\ L[i].node \in DOMAIN n.nets /\ m.ip.subnet = n.nets[L[i].node].subnet
          /\ L[j].node \in DOMAIN n.nets /\ k.ip.subnet = n.nets[L[j].node].subnet
        BY <1>4
    <3> QED BY <1>2, <1>6, <3>1 DEF Apart
  <2>4. CASE Old(i, m) /\ Old(j, k)
      BY <1>6, <2>4 DEF DataInv
  <2>5. ASSUME NEW x, New(i, m, x), NEW y, New(j, k, y)  PROVE i = j /\ m = k
    <3>1. x = y
        BY <2>3, <2>5
    <3> QED BY <1>6, <2>5, <3>1 DEF GrownInv
  <2>6. ASSUME NEW x, New(i, m, x), Old(j, k)  PROVE FALSE
      BY <1>6, <2>3, <2>6
  <2>7. ASSUME NEW x, New(j, k, x), Old(i, m)  PROVE FALSE
      BY <1>6, <2>3, <2>7
  <2> HIDE DEF Old, New
  <2> QED BY <2>1, <2>2, <2>4, <2>5, <2>6, <2>7
<1>7. DataInv(L)
    BY <1>3, <1>5, <1>6 DEF DataInv
<1>8. \A z \in DOMAIN F : z \in DOMAIN n.nets /\ n.nodes[z].contract = F[z].contract /\ F[z].contract \in NetIn(K)
    BY FileFacts DEF GrownInv, Kept
<1>9. \A z \in DOMAIN n.nets \ DOMAIN F : n.nodes[z].contract = 0 /\ z \in DOMAIN ids /\ ids[z] \in Ids
    BY DEF GrownInv, CreationOf
<1>10. /\ DOMAIN E = DOMAIN n.nets
       /\ \A z \in DOMAIN E : /\ E[z].ips = n.nodes[z].ips
                              /\ E[z].contract = IF z \in DOMAIN F THEN F[z].contract ELSE ids[z]
  <2> DEFINE C(z) == IF n.nodes[z].contract = 0 /\ z \in DOMAIN ids THEN ids[z] ELSE n.nodes[z].contract
  <2>1. 0 \notin Ids /\ NetIn(K) \subseteq Ids
      BY DEF NetIn, OnChain, Ids
  <2>2. ASSUME NEW z \in DOMAIN n.nets
        PROVE  C(z) # 0 /\ C(z) = IF z \in DOMAIN F THEN F[z].contract ELSE ids[z]
    <3>1. CASE z \in DOMAIN F
        BY <1>8, <2>1, <3>1
    <3>2. CASE z \notin DOMAIN F
        BY <1>9, <2>1, <3>2
    <3> QED BY <3>1, <3>2
  <2>3. /\ DOMAIN E = {z \in DOMAIN n.nets : C(z) # 0}
        /\ \A z \in DOMAIN E : E[z].contract = C(z) /\ E[z].ips = n.nodes[z].ips
      BY DEF Saves
  <2> HIDE DEF C
  <2> QED BY <2>2, <2>3
<1>11. FileInv(L, E)
  <2>1. DOMAIN E = {L[id].node : id \in NetIn(L)}
      BY <1>1, <1>10
  <2>2. \A id \in NetIn(L) : E[L[id].node].contract = id
      BY <1>1, <1>10
  <2>3. \A id \in OnChain(L) : \A m \in L[id].machines :
          L[id].node \in DOMAIN E /\ m.ip \in E[L[id].node].ips
      BY <1>4, <1>10
  <2> QED BY <2>1, <2>2, <2>3 DEF FileInv
<1> QED BY <1>7, <1>11

\* What handle() does, and the file that is saved after it.
Handled(c, ids, L) == L = [id \in Ids |-> AfterCall(c, ids, id)]

LEMMA HandleSaves ==
    ASSUME TypeInv, NEW c \in Calls, pc[c] = "handle", NEW ids \in ContractIds(c),
           NEW o, o = WithContracts(net[c], ids)
    PROVE  Saves(net[c], ids, Entries(o))
<1>1. net[c] \in Network /\ \A z \in DOMAIN net[c].nets : net[c].nodes[z].contract <= MaxId
    BY LocalFacts DEF Stage
<1>2. DOMAIN ids = DOMAIN batch[c].create /\ \A x \in DOMAIN ids : ids[x] \in Ids
    BY ContractIdsFacts
<1>3. PICK n \in Network : n = net[c]
    BY <1>1
<1>4. /\ o \in Network /\ o.nets = n.nets
      /\ \A z \in DOMAIN n.nets :
           /\ o.nodes[z].ips = n.nodes[z].ips
           /\ o.nodes[z].contract = IF n.nodes[z].contract = 0 /\ z \in DOMAIN ids
                                    THEN ids[z] ELSE n.nodes[z].contract
    BY <1>2, <1>3, WithContractsFacts
<1>5. \A z \in DOMAIN o.nets : o.nodes[z].contract <= MaxId
    BY <1>1, <1>2, <1>3, <1>4 DEF Ids
<1>6. /\ DOMAIN Entries(o) = {x \in DOMAIN o.nets : o.nodes[x].contract # 0}
      /\ \A x \in DOMAIN Entries(o) : Entries(o)[x] = o.nodes[x]
    BY <1>4, <1>5, EntriesFacts
<1>7. PICK E : E = Entries(o)
    OBVIOUS
<1>8. Saves(n, ids, E)
    BY <1>4, <1>6, <1>7, ZenonT(60) DEF Saves
<1> QED BY <1>3, <1>7, <1>8

LEMMA HandleDeletion ==
    ASSUME TypeInv, NEW c \in Calls, pc[c] = "handle", call[c].op = "delete", NEW ids \in ContractIds(c),
           NEW L, Handled(c, ids, L), Removal("handle", net[c], stored[c], todo[c], batch[c])
    PROVE  DOMAIN ids = {} /\ Deleted(contract, batch[c], L)
<1>1. DOMAIN ids = {}
  <2>1. DOMAIN batch[c].create = {}
      BY LocalFacts DEF Stage
  <2> QED BY <2>1, ContractIdsFacts
<1>2. batch[c].touch = FALSE /\ batch[c].strip = {}
    BY DEF Removal, DeletesInv
<1>3. ASSUME NEW id \in Ids, id \in batch[c].delete  PROVE L[id].state # "created"
  <2>1. L[id] = [NoContract EXCEPT !.state = "deleted"]
      BY <1>3, AfterDelete DEF Handled
  <2> QED BY <2>1 DEF NoContract
<1>4. ASSUME NEW id \in Ids, id \notin batch[c].delete
      PROVE  /\ L[id].state = contract[id].state /\ L[id].node = contract[id].node
             /\ L[id].subnet = contract[id].subnet
             /\ L[id].machines = IF id = batch[c].id THEN batch[c].rest ELSE contract[id].machines
             /\ L[id].peers = contract[id].peers
  <2>1. L[id] = IF id = batch[c].id
                THEN [contract[id] EXCEPT !.machines = batch[c].rest, !.subnet = batch[c].subnet]
                ELSE Touched(c, id)
    <3>1. id \notin batch[c].strip /\ \A x \in DOMAIN ids : ids[x] # id
        BY <1>1, <1>2
    <3>2. L[id] = AfterCall(c, ids, id)
        BY DEF Handled
    <3>3. AfterCall(c, ids, id) =
            IF id = batch[c].id
            THEN [contract[id] EXCEPT !.machines = batch[c].rest, !.subnet = batch[c].subnet]
            ELSE Touched(c, id)
        BY <1>4, <3>1, AfterUpdate, ZenonT(60)
    <3> QED BY <3>2, <3>3
  <2>2. CASE id = batch[c].id
    <3>1. contract[id] \in ContractEntry
        BY ContractFacts
    <3>2. batch[c].subnet = contract[id].subnet
        BY <1>4, <2>2 DEF Removal, ShrunkInv
    <3>3. L[id] = [contract[id] EXCEPT !.machines = batch[c].rest, !.subnet = batch[c].subnet]
        BY <2>1, <2>2
    <3> QED BY <2>2, <3>1, <3>2, <3>3 DEF ContractEntry
  <2>3. CASE id # batch[c].id
    <3>1. L[id] = contract[id]
        BY <1>2, <2>1, <2>3 DEF Touched
    <3> QED BY <2>3, <3>1
  <2> QED BY <2>2, <2>3
<1> QED BY <1>1, <1>3, <1>4 DEF Deleted

\* A node has one contract of the call, and a contract one node.
LEMMA OneContractEach ==
    ASSUME TypeInv, NEW c \in Calls, NEW ids \in ContractIds(c)
    PROVE  /\ \A x, y \in DOMAIN ids : ids[x] = ids[y] => x = y
           /\ \A x \in DOMAIN ids :
                \/ x \in Created(c) /\ contract[ids[x]].state = "free"
                \/ /\ x \notin Created(c) /\ contract[ids[x]].state = "created"
                   /\ contract[ids[x]].node = x /\ contract[ids[x]].machines # {}
<1>1. /\ DOMAIN ids = DOMAIN batch[c].create
      /\ \A x, y \in Created(c) : ids[x] = ids[y] => x = y
      /\ \A x \in Created(c) : ids[x] \in FreeIds
      /\ \A x \in DOMAIN batch[c].create \ Created(c) : ids[x] \in Joined(c, x)
    BY ContractIdsFacts
<1>2. ASSUME NEW x \in DOMAIN ids
      PROVE  \/ x \in Created(c) /\ contract[ids[x]].state = "free"
             \/ /\ x \notin Created(c) /\ contract[ids[x]].state = "created"
                /\ contract[ids[x]].node = x /\ contract[ids[x]].machines # {}
    BY <1>1 DEF FreeIds, Joined, DeploymentsOf, Live
<1> QED BY <1>1, <1>2

\* A contract of the call is that of a new deployment or of one that is added to.
LEMMA HandledOn ==
    ASSUME TypeInv, NEW c \in Calls, NEW ids \in ContractIds(c), NEW L, Handled(c, ids, L),
           batch[c].delete = {}, batch[c].strip = {}, NEW x \in DOMAIN ids, NEW id \in Ids, id = ids[x]
    PROVE  L[id] = IF contract[id].state = "free" THEN Fresh(c, x) ELSE Joins(c, id, x)
<1>1. L[id] = AfterCall(c, ids, id)
    BY DEF Handled
<1>2. PICK y \in DOMAIN ids :
         /\ ids[y] = id
         /\ AfterCall(c, ids, id) = IF contract[id].state = "free" THEN Fresh(c, y) ELSE Joins(c, id, y)
    BY AfterCreate
<1>3. y = x
    BY <1>2, OneContractEach
<1> QED BY <1>1, <1>2, <1>3

LEMMA HandleCreation ==
    ASSUME TypeInv, NEW c \in Calls, pc[c] = "handle", NEW ids \in ContractIds(c),
           NEW L, Handled(c, ids, L), FileInv(contract, info),
           GrownInv(contract, info, net[c], batch[c]), Stores(contract, stored[c])
    PROVE  CreationOf(contract, net[c], batch[c], ids, L)
<1>1. DOMAIN ids = DOMAIN batch[c].create /\ \A x \in DOMAIN ids : ids[x] \in Ids
    BY ContractIdsFacts
<1>2. /\ \A x, y \in DOMAIN ids : ids[x] = ids[y] => x = y
      /\ \A x \in DOMAIN ids :
           \/ x \in Created(c) /\ contract[ids[x]].state = "free"
           \/ /\ x \notin Created(c) /\ contract[ids[x]].state = "created"
              /\ contract[ids[x]].node = x /\ contract[ids[x]].machines # {}
    BY OneContractEach
<1>3. /\ batch[c].delete = {} /\ batch[c].strip = {} /\ batch[c].id = 0
      /\ \A x \in DOMAIN batch[c].create : batch[c].create[x].net => x \notin DOMAIN info
    BY DEF GrownInv
<1>4. ASSUME NEW id \in Ids
      PROVE  /\ Touched(c, id).state = contract[id].state /\ Touched(c, id).node = contract[id].node
             /\ Touched(c, id).subnet = contract[id].subnet /\ Touched(c, id).machines = contract[id].machines
  <2>1. id \in DOMAIN stored[c] => stored[c][id] = contract[id].machines
      BY DEF Stores
  <2> QED BY <2>1, TouchedFacts
<1>5. ASSUME NEW id \in Ids, \A x \in DOMAIN ids : ids[x] # id
      PROVE  /\ L[id].state = contract[id].state /\ L[id].node = contract[id].node
             /\ L[id].subnet = contract[id].subnet /\ L[id].machines = contract[id].machines
  <2>1. L[id] = AfterCall(c, ids, id) /\ id \notin batch[c].delete /\ id \notin batch[c].strip /\ id # batch[c].id
      BY <1>3 DEF Handled, Ids
  <2>2. L[id] = Touched(c, id)
      BY <1>5, <2>1, AfterUpdate
  <2> QED BY <1>4, <2>2
<1>6. ASSUME NEW x \in DOMAIN ids
      PROVE  /\ L[ids[x]].state = "created" /\ L[ids[x]].node = x
             /\ \/ CreatedOn(contract, net[c], batch[c], L, x, ids[x])
                \/ JoinedOn(contract, batch[c], L, x, ids[x])
  <2>1. PICK id \in Ids : id = ids[x]
      BY <1>1
  <2>3. L[id] = IF contract[id].state = "free" THEN Fresh(c, x) ELSE Joins(c, id, x)
      BY <1>3, <2>1, HandledOn
  <2>4. CASE contract[id].state = "free"
    <3>1. PICK f : f = Fresh(c, x)
        OBVIOUS
    <3>2. /\ f.state = "created" /\ f.node = x /\ f.machines = batch[c].create[x].machines
          /\ f.subnet = IF batch[c].create[x].net THEN net[c].nets[x].subnet ELSE 0
        BY <1>1, <3>1, FreshFacts
    <3>3. L[id] = f
        BY <2>3, <2>4, <3>1
    <3>4. CreatedOn(contract, net[c], batch[c], L, x, id)
        BY <2>4, <3>2, <3>3 DEF CreatedOn
    <3> QED BY <2>1, <3>2, <3>3, <3>4
  <2>5. CASE contract[id].state # "free"
    <3>1. contract[id].state = "created" /\ contract[id].node = x /\ contract[id].machines # {}
        BY <1>2, <2>1, <2>5
    <3>2. x \in DOMAIN info
        BY <3>1 DEF FileInv, OnChain
    <3>3. ~batch[c].create[x].net
        BY <1>1, <1>3, <3>2
    <3>4. PICK f : f = Joins(c, id, x)
        OBVIOUS
    <3>5. /\ f.state = contract[id].state /\ f.node = contract[id].node
          /\ f.machines = Touched(c, id).machines \cup batch[c].create[x].machines
          /\ f.subnet = IF batch[c].create[x].net THEN net[c].nets[x].subnet ELSE contract[id].subnet
        BY <1>1, <3>4, JoinsFacts
    <3>6. L[id] = f
        BY <2>3, <2>5, <3>4
    <3>7. JoinedOn(contract, batch[c], L, x, id)
        BY <1>4, <3>1, <3>3, <3>5, <3>6 DEF JoinedOn
    <3> QED BY <2>1, <3>1, <3>5, <3>6, <3>7
  <2> QED BY <2>4, <2>5
<1> QED BY <1>1, <1>2, <1>5, <1>6 DEF CreationOf

LEMMA HandleData ==
    ASSUME TypeInv, IdleInv, CleanInv, NEW c \in Calls, Handle(c)
    PROVE  IdleInv' /\ CleanInv'
<1>1. /\ pc[c] = "handle" /\ Writes(c) /\ info' = info
      /\ \E ids \in ContractIds(c) :
           /\ contract' = [id \in Ids |-> AfterCall(c, ids, id)]
           /\ Now(c, "save", call[c], WithContracts(net[c], ids), stored[c], todo[c], batch[c])
    BY HandleTypes
<1>2. PICK ids \in ContractIds(c) :
           /\ contract' = [id \in Ids |-> AfterCall(c, ids, id)]
           /\ Now(c, "save", call[c], WithContracts(net[c], ids), stored[c], todo[c], batch[c])
    BY <1>1
<1>3. PICK o : o = WithContracts(net[c], ids)
    OBVIOUS
<1>4. Now(c, "save", call[c], o, stored[c], todo[c], batch[c])
    BY <1>2, <1>3
<1>5. Handled(c, ids, contract')
    BY <1>2 DEF Handled
<1>6. IdleInv'
  <2>1. \A d \in Calls \ {c} : d \in stale' => d \in stale \/ pc[d] # "idle"
      BY <1>1 DEF Writes
  <2> QED BY <1>4, <2>1, IdleMoves DEF Labels
<1>7. ASSUME clean, c \notin stale
      PROVE  DataInv(contract') /\ FileInv(contract', Entries(o))
  <2>1. Saves(net[c], ids, Entries(o))
      BY <1>1, <1>3, HandleSaves
  <2>2. PICK L : L = contract'
      OBVIOUS
  <2>3. PICK E : E = Entries(o)
      OBVIOUS
  <2>4. PICK n : n = net[c]
      OBVIOUS
  <2>5. PICK b : b = batch[c]
      OBVIOUS
  <2>6. Handled(c, ids, L) /\ Saves(n, ids, E)
      BY <1>5, <2>1, <2>2, <2>3, <2>4
  <2>7. CASE call[c].op = "delete"
    <3>1. Removal("handle", net[c], stored[c], todo[c], batch[c])
        BY <1>1, <1>7, <2>7, RemovalFacts
    <3>2. DOMAIN ids = {} /\ Deleted(contract, b, L)
        BY <1>1, <2>5, <2>6, <2>7, <3>1, HandleDeletion
    <3>3. Deletion(contract, info, b) /\ ShrunkInv(contract, info, n, b)
        BY <2>4, <2>5, <3>1 DEF Removal
    <3>4. DataInv(L) /\ FileInv(L, E)
        BY <2>6, <3>2, <3>3, DeletionWritten
    <3> QED BY <2>2, <2>3, <3>4
  <2>8. CASE call[c].op # "delete"
    <3>1. Quiet
      <4>1. \A d \in Calls \ {c} : pc[d] # "save"
          BY <1>1, <1>7, QuietFacts
      <4> QED BY <1>1, <4>1 DEF Quiet
    <3>2. DataInv(contract) /\ FileInv(contract, info) /\ MirrorOf(c)
        BY <1>7, <3>1 DEF CleanInv
    <3>3. GrownInv(contract, info, net[c], batch[c]) /\ Stores(contract, stored[c])
        BY <1>1, <2>8, <3>2 DEF MirrorOf, Mirror
    <3>4. CreationOf(contract, n, b, ids, L)
        BY <1>1, <2>4, <2>5, <2>6, <3>2, <3>3, HandleCreation
    <3>5. GrownInv(contract, info, n, b)
        BY <2>4, <2>5, <3>3
    <3>6. DataInv(L) /\ FileInv(L, E)
        BY <2>6, <3>2, <3>4, <3>5, CreationWritten
    <3> QED BY <2>2, <2>3, <3>6
  <2> QED BY <2>7, <2>8
<1>8. Mirror(contract', info', "save", call[c], o, stored[c], todo[c], batch[c])
    BY DEF Mirror
<1>9. CleanInv'
    BY <1>1, <1>4, <1>7, <1>8, WritesAlone
<1> QED BY <1>6, <1>9
-----------------------------------------------------------------------------
(***************************************************************************)
(* The theorems.                                                           *)
(***************************************************************************)
LEMMA InitData == Init => IdleInv /\ CleanInv
<1> SUFFICES ASSUME Init  PROVE IdleInv /\ CleanInv
    OBVIOUS
<1>1. /\ contract = [id \in Ids |-> NoContract] /\ info = <<>> /\ stale = {}
      /\ \A c \in Calls : pc[c] = "idle" /\ batch[c] = NoBatch
    BY DEF Init
<1>2. OnChain(contract) = {}
    BY <1>1 DEF OnChain, NoContract
<1>3. DataInv(contract)
    BY <1>2 DEF DataInv, NetIn
<1>4. FileInv(contract, info)
    BY <1>1, <1>2 DEF FileInv, NetIn
<1>5. \A c \in Calls : MirrorOf(c)
    BY <1>1 DEF MirrorOf, Mirror
<1> QED BY <1>1, <1>3, <1>4, <1>5 DEF IdleInv, CleanInv

LEMMA StepData ==
    ASSUME TypeInv, IdleInv, CleanInv, [Next]_vars
    PROVE  IdleInv' /\ CleanInv'
<1>1. ASSUME NEW c \in Calls, Step(c) \/ Crash(c)  PROVE IdleInv' /\ CleanInv'
  <2>1. CASE Begin(c)
      BY <2>1, BeginData
  <2>2. CASE Load(c)
      BY <2>2, LoadData
  <2>3. CASE LoadFails(c)
      BY <2>3, LoadFailsData
  <2>4. CASE LoadSave(c)
      BY <2>4, LoadSaveData
  <2>5. CASE Build(c)
      BY <2>5, BuildData
  <2>6. CASE Remove(c)
      BY <2>6, RemoveStepData
  <2>7. CASE Rest(c)
      BY <2>7, RestData
  <2>8. CASE FreeIps(c)
      BY <2>8, FreeIpsData
  <2>9. CASE Handle(c)
      BY <2>9, HandleData
  <2>10. CASE HandleFails(c)
      BY <2>10, HandleFailsData
  <2>11. CASE Save(c)
      BY <2>11, SaveData
  <2>12. CASE Crash(c)
      BY <2>12, CrashData
  <2> QED BY <1>1, <2>1, <2>2, <2>3, <2>4, <2>5, <2>6, <2>7, <2>8, <2>9, <2>10, <2>11, <2>12 DEF Step
<1>2. ASSUME NEW id \in Ids, Cancel(id)  PROVE IdleInv' /\ CleanInv'
    BY <1>2, CancelData
<1>3. CASE UNCHANGED vars
  <2>1. UNCHANGED <<contract, info, pc, call, net, stored, todo, batch, stale, clean>>
      BY <1>3 DEF vars, local
  <2> QED BY <2>1 DEF IdleInv, CleanInv, Quiet, SavesInv, MirrorOf
<1> QED BY <1>1, <1>2, <1>3 DEF Next

\* What every call has in memory fits the contracts and info.json, as long as
\* the network is clean and nothing that the call has read has changed.
THEOREM Mirrors == Spec => []CleanInv
<1>1. Init => IdleInv /\ CleanInv
    BY InitData
<1>2. TypeInv /\ (IdleInv /\ CleanInv) /\ [Next]_vars => (IdleInv /\ CleanInv)'
    BY StepData
<1> QED BY <1>1, <1>2, Types, PTL DEF Spec

\* No two machines have an address in common, whichever calls gave them out
\* (AddressesDistinct; getFreeIP, validateUserIP and deleteReservedIp of
\* network.ts, over add and delete of VMHL and HighLevelBase).
THEOREM AddressesApart == Spec => []AddressesDistinct
<1>1. CleanInv => AddressesDistinct
  <2> SUFFICES ASSUME CleanInv, clean, NEW m \in Deployed, NEW k \in Deployed, m.ip = k.ip
               PROVE  m = k
      BY DEF AddressesDistinct
  <2>1. PICK i \in OnChain(contract) : \E q \in contract[i].machines : m = [id |-> i, name |-> q.name, ip |-> q.ip]
      BY DEF Deployed, OnChain, Live
  <2>2. PICK q \in contract[i].machines : m = [id |-> i, name |-> q.name, ip |-> q.ip]
      BY <2>1
  <2>3. PICK j \in OnChain(contract) : \E l \in contract[j].machines : k = [id |-> j, name |-> l.name, ip |-> l.ip]
      BY DEF Deployed, OnChain, Live
  <2>4. PICK l \in contract[j].machines : k = [id |-> j, name |-> l.name, ip |-> l.ip]
      BY <2>3
  <2>5. q.ip = l.ip
      BY <2>2, <2>4
  <2>6. i = j /\ q = l
      BY <2>5 DEF CleanInv, DataInv
  <2> QED BY <2>2, <2>4, <2>6
<1> QED BY <1>1, Mirrors, PTL

\* A node has one network workload and a subnet of its own, and its machines
\* have addresses of that (SubnetsDistinct; addNode, getFreeSubnet and the
\* network workloads that handle() creates and deletes).
THEOREM SubnetsApart == Spec => []SubnetsDistinct
<1>1. CleanInv => SubnetsDistinct
  <2> SUFFICES ASSUME CleanInv, clean
               PROVE  /\ \A i, j \in InNetwork : i # j => /\ contract[i].node # contract[j].node
                                                          /\ contract[i].subnet # contract[j].subnet
                      /\ \A m \in Deployed : LET x == contract[m.id].node
                                             IN x \in DOMAIN Nets /\ m.ip.subnet = Nets[x].subnet
      BY DEF SubnetsDistinct
  <2>1. DataInv(contract) /\ InNetwork = NetIn(contract)
      BY DEF CleanInv, InNetwork, NetIn, OnChain, Live
  <2>2. ASSUME NEW m \in Deployed
        PROVE  contract[m.id].node \in DOMAIN Nets /\ m.ip.subnet = Nets[contract[m.id].node].subnet
    <3>1. PICK i \in OnChain(contract) : \E q \in contract[i].machines : m = [id |-> i, name |-> q.name, ip |-> q.ip]
        BY DEF Deployed, OnChain, Live
    <3>2. PICK q \in contract[i].machines : m = [id |-> i, name |-> q.name, ip |-> q.ip]
        BY <3>1
    <3>3. m.id = i /\ m.ip = q.ip
        BY <3>2
    <3>4. PICK j \in NetIn(contract) : contract[j].node = contract[i].node /\ q.ip.subnet = contract[j].subnet
        BY <2>1 DEF DataInv
    <3>5. contract[i].node \in DOMAIN Nets /\ Nets[contract[i].node] = contract[j]
      <4> DEFINE x == contract[i].node
                 h == CHOOSE id \in InNetwork : contract[id].node = x
      <4>1. x \in DOMAIN Nets /\ Nets[x] = contract[h]
          BY <2>1, <3>4 DEF Nets
      <4>2. h \in InNetwork /\ contract[h].node = x
          BY <2>1, <3>4
      <4> HIDE DEF h
      <4>3. h = j
          BY <2>1, <3>4, <4>2 DEF DataInv
      <4> QED BY <4>1, <4>3
    <3> QED BY <3>3, <3>4, <3>5
  <2> QED BY <2>1, <2>2 DEF DataInv
<1> QED BY <1>1, Mirrors, PTL

\* Between two calls info.json has the nodes of the network, the contracts of
\* their network workloads and the addresses that are taken (InfoComplete;
\* load and save of network.ts).
THEOREM InfoTold == Spec => []InfoComplete
<1>1. CleanInv => InfoComplete
  <2> SUFFICES ASSUME CleanInv, clean, Quiet
               PROVE  /\ DOMAIN info = DOMAIN Nets
                      /\ \A id \in InNetwork : info[contract[id].node].contract = id
                      /\ \A m \in Deployed : m.ip \in info[contract[m.id].node].ips
      BY DEF InfoComplete, Quiet
  <2>1. FileInv(contract, info) /\ InNetwork = NetIn(contract)
      BY DEF CleanInv, InNetwork, NetIn, OnChain, Live
  <2>2. DOMAIN info = DOMAIN Nets
      BY <2>1 DEF FileInv, Nets
  <2>3. \A id \in InNetwork : info[contract[id].node].contract = id
      BY <2>1 DEF FileInv
  <2>4. ASSUME NEW m \in Deployed  PROVE m.ip \in info[contract[m.id].node].ips
    <3>1. PICK i \in OnChain(contract) : \E q \in contract[i].machines : m = [id |-> i, name |-> q.name, ip |-> q.ip]
        BY DEF Deployed, OnChain, Live
    <3>2. PICK q \in contract[i].machines : m = [id |-> i, name |-> q.name, ip |-> q.ip]
        BY <3>1
    <3>3. m.id = i /\ m.ip = q.ip
        BY <3>2
    <3> QED BY <2>1, <3>3 DEF FileInv
  <2> QED BY <2>2, <2>3, <2>4
<1> QED BY <1>1, Mirrors, PTL
-----------------------------------------------------------------------------
(***************************************************************************)
(* Routes: what the peers of the network workloads are for.                *)
(***************************************************************************)
\* Of the peers of a node one at most is for a subnet, a subnet is behind one
\* node at most, and nothing is behind a node without an address.
RoutedIn(K) ==
    /\ \A i \in NetIn(K) : Disjoint(K[i].peers)
    /\ \A i, j \in NetIn(K) : i # j => Behind(K[i].peers) \cap Behind(K[j].peers) = {}
    /\ \A i \in NetIn(K) : K[i].node \notin AccessNodes => Behind(K[i].peers) = {}

\* A call that creates: a node that is new to a network that exists has changed
\* the peers of the others, and the batch updates them.
WiredInv(F, n, b) ==
    /\ Wired(n)
    /\ F # <<>> /\ ~b.touch => \A z \in DOMAIN b.create : ~b.create[z].net

WiredOf(p, r, F, n, b) == p \in {"loadSave", "build", "handle"} /\ r.op # "delete" => WiredInv(F, n, b)

RouteInv ==
    clean => /\ RoutedIn(contract)
             /\ \A c \in Calls : c \notin stale => WiredOf(pc[c], call[c], info, net[c], batch[c])

\* What is loaded: the peers of the network workloads, and the access points
\* that follow from them.
LEMMA LoadsWired ==
    ASSUME TypeInv, FileInv(contract, info), RoutedIn(contract),
           NEW n, n = IF Exists THEN Loaded ELSE EmptyNetwork
    PROVE  WiredInv(info, n, NoBatch)
<1>1. \A z \in DOMAIN info : info[z].contract \in NetIn(contract) /\ contract[info[z].contract].node = z
    BY FileFacts
<1>2. Wired(n)
  <2>1. CASE Exists
    <3>1. n = Loaded
        BY <2>1
    <3>2. /\ DOMAIN Loaded.nets = Found /\ Loaded.points = AccessPoints(Loaded.nets) /\ Loaded.access = {}
          /\ \A x \in Found : x \in DOMAIN info /\ Loaded.nets[x].peers = contract[info[x].contract].peers
        BY LoadedFacts
    <3>3. /\ DOMAIN n.nets = Found /\ n.points = AccessPoints(n.nets) /\ n.access = {}
          /\ \A x \in Found : x \in DOMAIN info /\ n.nets[x].peers = contract[info[x].contract].peers
        BY <3>1, <3>2
    <3>4. ASSUME NEW x \in DOMAIN n.nets, NEW y \in DOMAIN n.nets, x # y
          PROVE  Behind(n.nets[x].peers) \cap Behind(n.nets[y].peers) = {}
      <4>1. PICK i \in NetIn(contract) : i = info[x].contract /\ contract[i].node = x
          BY <1>1, <3>3
      <4>2. PICK j \in NetIn(contract) : j = info[y].contract /\ contract[j].node = y
          BY <1>1, <3>3
      <4>3. n.nets[x].peers = contract[i].peers /\ n.nets[y].peers = contract[j].peers
          BY <3>3, <4>1, <4>2
      <4>4. Behind(contract[i].peers) \cap Behind(contract[j].peers) = {}
          BY <3>4, <4>1, <4>2 DEF RoutedIn
      <4> QED BY <4>3, <4>4
    <3>5. ASSUME NEW x \in DOMAIN n.nets
          PROVE  Disjoint(n.nets[x].peers) /\ (x \notin AccessNodes => Behind(n.nets[x].peers) = {})
      <4>1. PICK i \in NetIn(contract) : i = info[x].contract /\ contract[i].node = x
          BY <1>1, <3>3
      <4>2. n.nets[x].peers = contract[i].peers
          BY <3>3, <4>1
      <4>3. Disjoint(contract[i].peers) /\ (contract[i].node \notin AccessNodes => Behind(contract[i].peers) = {})
          BY DEF RoutedIn
      <4> QED BY <4>1, <4>2, <4>3
    <3>6. Routed(n.nets)
        BY <3>4, <3>5 DEF Routed
    <3> QED BY <3>3, <3>6, LoadedWired
  <2>2. CASE ~Exists
    <3>1. DOMAIN n.nets = {} /\ n.points = {} /\ n.access = {}
        BY <2>2 DEF EmptyNetwork
    <3> QED BY <3>1 DEF Wired, Routed, Pointed
  <2> QED BY <2>1, <2>2
<1> QED BY <1>2 DEF WiredInv, NoBatch

\* A machine more.
LEMMA WiredStep ==
    ASSUME NEW n \in Network, NEW b \in Batch, WiredInv(info, n, b), Apart(n),
           NEW g, NEW new, NEW x, GrownBy(n, g, new, x), NEW m,
           NEW o, o.nets = g.nets, o.points = g.points, o.access = g.access,
           NEW e \in Batch, Grew(b, new, x, m, e)
    PROVE  WiredInv(info, o, e)
<1>1. Wired(o)
    BY DEF WiredInv, GrownBy, Wired
<1>2. ASSUME info # <<>>, ~e.touch, NEW z \in DOMAIN e.create  PROVE ~e.create[z].net
  <2>1. e.touch <=> b.touch \/ (Exists /\ new # {})
    <3>1. e.touch = (b.touch \/ (Exists /\ new # {}))
        BY DEF Grew
    <3> QED BY <3>1
  <2>2. ~b.touch /\ new = {}
      BY <1>2, <2>1 DEF Exists
  <2>3. e.create[z].net => z \in new \/ (z \in DOMAIN b.create /\ b.create[z].net)
      BY GrewFacts
  <2>4. z \in DOMAIN b.create => ~b.create[z].net
      BY <1>2, <2>2 DEF WiredInv
  <2> QED BY <2>2, <2>3, <2>4
<1> QED BY <1>1, <1>2 DEF WiredInv

\* A step of a call; the others have what they had, or are not under way.
LEMMA RoutesMove ==
    ASSUME TypeInv, RouteInv, NEW c \in Calls, NEW p, NEW r, NEW n, NEW s, NEW t, NEW b,
           Now(c, p, r, n, s, t, b), clean' => clean /\ RoutedIn(contract'),
           clean' /\ c \notin stale' => WiredOf(p, r, info', n, b),
           clean' => \A d \in Calls \ {c} : d \notin stale' => pc[d] = "idle" \/ (d \notin stale /\ info' = info)
    PROVE  RouteInv'
<1> SUFFICES ASSUME clean'
             PROVE  /\ RoutedIn(contract')
                    /\ \A d \in Calls : d \notin stale' => WiredOf(pc'[d], call'[d], info', net'[d], batch'[d])
    BY DEF RouteInv
<1>1. /\ pc'[c] = p /\ call'[c] = r /\ net'[c] = n /\ batch'[c] = b
      /\ \A d \in Calls \ {c} : /\ pc'[d] = pc[d] /\ call'[d] = call[d] /\ net'[d] = net[d]
                                /\ batch'[d] = batch[d]
    BY Elsewhere
<1>2. ASSUME NEW d \in Calls, d \notin stale'  PROVE WiredOf(pc'[d], call'[d], info', net'[d], batch'[d])
  <2>1. CASE d = c
      BY <1>1, <1>2, <2>1
  <2>2. CASE d # c /\ pc[d] = "idle"
      BY <1>1, <2>2 DEF WiredOf
  <2>3. CASE d # c /\ pc[d] # "idle"
    <3>1. WiredOf(pc[d], call[d], info, net[d], batch[d]) /\ info' = info
        BY <1>2, <2>3 DEF RouteInv
    <3> QED BY <1>1, <2>3, <3>1
  <2> QED BY <2>1, <2>2, <2>3
<1> QED BY <1>2

\* A call that has no network workload to create, or ends.
LEMMA RoutesStay ==
    ASSUME TypeInv, RouteInv, NEW c \in Calls, NEW p, NEW r, NEW n, NEW s, NEW t, NEW b,
           Now(c, p, r, n, s, t, b), clean' => clean /\ UNCHANGED <<contract, info>>,
           p \notin {"loadSave", "build", "handle"} \/ r.op = "delete",
           \A d \in Calls \ {c} : d \in stale' <=> d \in stale
    PROVE  RouteInv'
<1>1. clean' => clean /\ RoutedIn(contract')
    BY DEF RouteInv
<1>2. WiredOf(p, r, info', n, b)
    BY DEF WiredOf
<1>3. clean' => \A d \in Calls \ {c} : d \notin stale' => pc[d] = "idle" \/ (d \notin stale /\ info' = info)
    OBVIOUS
<1> QED BY <1>1, <1>2, <1>3, RoutesMove

LEMMA BeginRoutes ==
    ASSUME TypeInv, RouteInv, NEW c \in Calls, Begin(c)
    PROVE  RouteInv'
<1>1. /\ UNCHANGED <<contract, info, stale, clean>> /\ \E r, t, b : Begun(c, r, t, b)
    BY BeginShape
<1>2. PICK r, t, b : Begun(c, r, t, b)
    BY <1>1
<1>3. Now(c, "load", r, net[c], stored[c], t, b)
    BY <1>2 DEF Begun
<1> QED BY <1>1, <1>3, RoutesStay

LEMMA LoadRoutes ==
    ASSUME TypeInv, CleanInv, RouteInv, NEW c \in Calls, Load(c)
    PROVE  RouteInv'
<1> DEFINE p == IF Exists THEN "loadSave" ELSE AfterLoad(c)
<1>1. /\ pc[c] = "load" /\ UNCHANGED <<contract, info, clean>>
      /\ stale' = IF \E d \in Calls : pc[d] = "save" THEN stale \cup {c} ELSE stale
    BY DEF Load
<1>2. PICK n : n = IF Exists THEN Loaded ELSE EmptyNetwork
    OBVIOUS
<1>3. Now(c, p, call[c], n, stored'[c], todo[c], batch[c])
    BY <1>2, LoadTypes
<1> HIDE DEF p
<1>4. ASSUME clean', c \notin stale', call[c].op # "delete"  PROVE WiredInv(info, n, batch[c])
  <2>1. clean /\ c \notin stale /\ Quiet
      BY <1>1, <1>4 DEF Quiet
  <2>2. FileInv(contract, info) /\ RoutedIn(contract)
      BY <2>1 DEF CleanInv, RouteInv
  <2>3. batch[c] = NoBatch
      BY <1>1, <1>4, <2>1 DEF CleanInv, MirrorOf, Mirror
  <2> QED BY <1>2, <2>2, <2>3, LoadsWired
<1>5. clean' /\ c \notin stale' => WiredOf(p, call[c], info', n, batch[c])
    BY <1>1, <1>4 DEF WiredOf
<1>6. clean' => clean /\ RoutedIn(contract')
    BY <1>1 DEF RouteInv
<1>7. \A d \in Calls \ {c} : d \notin stale' => d \notin stale /\ info' = info
    BY <1>1
<1> QED BY <1>3, <1>5, <1>6, <1>7, RoutesMove

LEMMA LoadSaveRoutes ==
    ASSUME TypeInv, CleanInv, RouteInv, NEW c \in Calls, LoadSave(c)
    PROVE  RouteInv'
<1>1. /\ pc[c] = "loadSave" /\ info' = Entries(net[c]) /\ contract' = contract
      /\ IF info' = info THEN UNCHANGED <<stale, clean>> ELSE Writes(c)
    BY DEF LoadSave
<1>2. Now(c, AfterLoad(c), call[c], net[c], stored[c], todo[c], batch[c])
    BY LoadSaveTypes
<1>3. clean' => clean /\ info' = info
  <2>1. CASE info' = info
      BY <1>1, <2>1
  <2>2. CASE clean' /\ info' # info
    <3>1. clean /\ c \notin stale
        BY <1>1, <2>2 DEF Writes
    <3>2. JustLoaded(contract, info, net[c])
        BY <1>1, <3>1 DEF CleanInv, MirrorOf, Mirror
    <3>3. net[c] \in Network /\ \A z \in DOMAIN net[c].nets : net[c].nodes[z].contract <= MaxId
        BY LocalFacts DEF Stage
    <3> QED BY <1>1, <2>2, <3>2, <3>3, EntriesLoaded
  <2> QED BY <2>1, <2>2
<1>4. clean' => stale' = stale
    BY <1>1, <1>3
<1>5. ASSUME clean', c \notin stale'  PROVE WiredOf(AfterLoad(c), call[c], info', net[c], batch[c])
  <2>1. WiredOf("loadSave", call[c], info, net[c], batch[c])
      BY <1>1, <1>3, <1>4, <1>5 DEF RouteInv
  <2> QED BY <1>3, <1>5, <2>1 DEF WiredOf
<1>6. clean' => clean /\ RoutedIn(contract')
    BY <1>1, <1>3 DEF RouteInv
<1> QED BY <1>2, <1>3, <1>4, <1>5, <1>6, RoutesMove

LEMMA ThrowRoutes ==
    ASSUME TypeInv, RouteInv, NEW c \in Calls, Throw(c)
    PROVE  RouteInv'
<1>1. stale' = stale \ {c} /\ UNCHANGED <<contract, info, clean>>
    BY DEF Throw
<1>2. Now(c, "idle", NoRequest, EmptyNetwork, <<>>, <<>>, NoBatch)
    BY ThrowTypes
<1> QED BY <1>1, <1>2, RoutesStay

LEMMA BuildRoutes ==
    ASSUME TypeInv, CleanInv, RouteInv, NEW c \in Calls, Build(c)
    PROVE  RouteInv'
<1>1. ASSUME NEW i, NEW g, NEW new, NEW ip, Built(c, i, g, new, ip)  PROVE RouteInv'
  <2> DEFINE p == IF Len(todo[c]) = 1 THEN "handle" ELSE "build"
  <2>1. PICK x : x = i.node
      OBVIOUS
  <2>2. PICK m : m = [name |-> i.machine, ip |-> ip]
      OBVIOUS
  <2>3. PICK n : n = net'[c]
      OBVIOUS
  <2>4. PICK b : b = batch'[c]
      OBVIOUS
  <2>5. /\ pc[c] = "build" /\ GrownBy(net[c], g, new, x)
        /\ UNCHANGED <<contract, info, stale, clean>>
        /\ Now(c, p, call[c], ReserveIp(g, i.node, ip), stored[c], Tail(todo[c]),
               GrownBatch(batch[c], new, i.node, [name |-> i.machine, ip |-> ip]))
      BY <1>1, <2>1 DEF Built
  <2>6. /\ n.nets = g.nets /\ n.points = g.points /\ n.access = g.access
        /\ Grew(batch[c], new, x, m, b) /\ TypeInv'
      BY <1>1, <2>1, <2>2, <2>3, <2>4, BuiltFacts
  <2>7. batch[c] \in Batch /\ net[c] \in Network /\ call[c].op # "delete" /\ b \in Batch
      BY <2>4, <2>5, <2>6, LocalFacts DEF Stage, TypeInv
  <2> HIDE DEF p
  <2>8. Now(c, p, call[c], n, stored[c], Tail(todo[c]), b)
    <3>1. /\ net'[c] = ReserveIp(g, i.node, ip)
          /\ batch'[c] = GrownBatch(batch[c], new, i.node, [name |-> i.machine, ip |-> ip])
        BY <2>5, Elsewhere
    <3> QED BY <2>3, <2>4, <2>5, <3>1
  <2>9. ASSUME clean', c \notin stale'  PROVE WiredInv(info, n, b)
    <3>1. clean /\ c \notin stale
        BY <2>5, <2>9
    <3>2. WiredInv(info, net[c], batch[c])
        BY <2>5, <2>7, <3>1 DEF RouteInv, WiredOf
    <3>3. Apart(net[c])
        BY <2>5, <2>7, <3>1 DEF CleanInv, MirrorOf, Mirror, GrownInv
    <3> QED BY <2>5, <2>6, <2>7, <3>2, <3>3, WiredStep
  <2>10. clean' /\ c \notin stale' => WiredOf(p, call[c], info', n, b)
      BY <2>5, <2>9 DEF WiredOf
  <2>11. clean' => clean /\ RoutedIn(contract')
      BY <2>5 DEF RouteInv
  <2>12. \A d \in Calls \ {c} : d \notin stale' => d \notin stale /\ info' = info
      BY <2>5
  <2> QED BY <2>8, <2>10, <2>11, <2>12, RoutesMove
<1> QED BY <1>1, BuildShape, ThrowRoutes

\* A deletion, and the ways in which a call ends or begins.
LEMMA DeleteRoutes ==
    ASSUME TypeInv, RouteInv, NEW c \in Calls, Remove(c) \/ Rest(c) \/ FreeIps(c)
    PROVE  RouteInv'
<1>1. ASSUME NEW p, NEW n, NEW t, NEW b, Now(c, p, call[c], n, stored[c], t, b), call[c].op = "delete",
             UNCHANGED <<contract, info, stale, clean>>
      PROVE  RouteInv'
    BY <1>1, RoutesStay
<1>2. pc[c] \in {"remove", "rest", "free"} /\ call[c].op = "delete"
  <2>1. pc[c] \in {"remove", "rest", "free"}
      BY DEF Remove, Rest, FreeIps
  <2> QED BY <2>1, LocalFacts DEF Stage
<1>3. CASE Remove(c)
    BY <1>1, <1>2, <1>3, RemoveShape
<1>4. CASE Rest(c)
    BY <1>1, <1>2, <1>4, RestTypes, ThrowRoutes
<1>5. CASE FreeIps(c)
    BY <1>1, <1>2, <1>5, FreeIpsTypes
<1> QED BY <1>3, <1>4, <1>5

LEMMA EndRoutes ==
    ASSUME TypeInv, RouteInv, NEW c \in Calls, HandleFails(c) \/ Crash(c) \/ LoadFails(c)
    PROVE  RouteInv'
<1>1. CASE HandleFails(c)
  <2>1. /\ info' = info /\ stale' = stale \ {c} /\ clean' = (clean /\ contract' = contract)
        /\ Now(c, "idle", NoRequest, EmptyNetwork, <<>>, <<>>, NoBatch)
      BY <1>1, HandleFailsTypes
  <2>2. clean' => clean /\ UNCHANGED <<contract, info>>
      BY <2>1
  <2> QED BY <2>1, <2>2, RoutesStay
<1>2. CASE Crash(c)
  <2>1. /\ UNCHANGED <<contract, info>> /\ stale' = stale \ {c} /\ clean' = (clean /\ pc[c] # "save")
        /\ Now(c, "idle", NoRequest, EmptyNetwork, <<>>, <<>>, NoBatch)
      BY <1>2, CrashTypes
  <2>2. clean' => clean /\ UNCHANGED <<contract, info>>
      BY <2>1
  <2> QED BY <2>1, <2>2, RoutesStay
<1>3. CASE LoadFails(c)
    BY <1>3, ThrowRoutes DEF LoadFails
<1> QED BY <1>1, <1>2, <1>3

\* A call that writes: nobody else who is under way counts any more.
LEMMA RoutesWrite ==
    ASSUME TypeInv, RouteInv, NEW c \in Calls, NEW p, NEW r, NEW n, NEW s, NEW t, NEW b,
           Now(c, p, r, n, s, t, b), p \in {"idle", "save"}, Writes(c),
           clean /\ c \notin stale => RoutedIn(contract')
    PROVE  RouteInv'
<1>1. /\ clean' => clean /\ c \notin stale
      /\ \A d \in Calls \ {c} : d \notin stale' => pc[d] = "idle"
    BY DEF Writes
<1>2. WiredOf(p, r, info', n, b)
    BY DEF WiredOf
<1> QED BY <1>1, <1>2, RoutesMove

LEMMA SaveRoutes ==
    ASSUME TypeInv, RouteInv, NEW c \in Calls, Save(c)
    PROVE  RouteInv'
<1>1. /\ Writes(c) /\ contract' = contract
      /\ Now(c, "idle", NoRequest, EmptyNetwork, <<>>, <<>>, NoBatch)
    BY SaveTypes
<1>2. clean => RoutedIn(contract')
    BY <1>1 DEF RouteInv
<1> QED BY <1>1, <1>2, RoutesWrite

\* The peers after handle(): a new network workload has those of the Network
\* object, and so have the others if the batch updates them.
CreationPeers(K, n, b, ids, L) ==
    /\ \A x \in DOMAIN ids : b.create[x].net => L[ids[x]].peers = n.nets[x].peers
    /\ \A id \in NetIn(K) : L[id].peers = IF b.touch THEN PeersOf(n, K[id].node) ELSE K[id].peers

LEMMA HandlePeers ==
    ASSUME TypeInv, NEW c \in Calls, pc[c] = "handle", NEW ids \in ContractIds(c),
           NEW L, Handled(c, ids, L),
           GrownInv(contract, info, net[c], batch[c]), Stores(contract, stored[c]),
           CreationOf(contract, net[c], batch[c], ids, L)
    PROVE  CreationPeers(contract, net[c], batch[c], ids, L)
<1>1. DOMAIN ids = DOMAIN batch[c].create /\ \A x \in DOMAIN ids : ids[x] \in Ids
    BY ContractIdsFacts
<1>2. batch[c].delete = {} /\ batch[c].strip = {} /\ batch[c].id = 0
    BY DEF GrownInv
<1>3. ASSUME NEW x \in DOMAIN ids, NEW id \in Ids, id = ids[x]
      PROVE  /\ batch[c].create[x].net => L[id].peers = net[c].nets[x].peers
             /\ ~batch[c].create[x].net /\ contract[id].state # "free" => L[id].peers = Touched(c, id).peers
  <2>1. L[id] = IF contract[id].state = "free" THEN Fresh(c, x) ELSE Joins(c, id, x)
      BY <1>2, <1>3, HandledOn
  <2>2. batch[c].create[x].net => Fresh(c, x).peers = net[c].nets[x].peers
      BY <1>1, FreshFacts
  <2>3. Joins(c, id, x).peers = IF batch[c].create[x].net THEN net[c].nets[x].peers ELSE Touched(c, id).peers
      BY <1>1, JoinsFacts
  <2>4. CASE contract[id].state = "free"
      BY <2>1, <2>2, <2>4
  <2>5. CASE contract[id].state # "free"
      BY <2>1, <2>3, <2>5
  <2> QED BY <2>4, <2>5
<1>4. ASSUME NEW id \in NetIn(contract)
      PROVE  L[id].peers = IF batch[c].touch THEN PeersOf(net[c], contract[id].node) ELSE contract[id].peers
  <2>1. id \in Ids /\ contract[id].state = "created" /\ id \in DOMAIN stored[c]
      BY DEF NetIn, OnChain, Stores
  <2>2. Touched(c, id).peers = IF batch[c].touch THEN PeersOf(net[c], contract[id].node) ELSE contract[id].peers
      BY <2>1, TouchedFacts
  <2>3. L[id].peers = Touched(c, id).peers
    <3>1. ASSUME NEW x \in DOMAIN ids, ids[x] = id  PROVE L[id].peers = Touched(c, id).peers
      <4>1. JoinedOn(contract, batch[c], L, x, ids[x])
          BY <2>1, <3>1 DEF CreationOf, CreatedOn
      <4>2. ~batch[c].create[x].net
          BY <4>1 DEF JoinedOn
      <4> QED BY <1>3, <2>1, <3>1, <4>2
    <3>2. CASE \A x \in DOMAIN ids : ids[x] # id
      <4>1. L[id] = AfterCall(c, ids, id) /\ id \notin batch[c].delete /\ id \notin batch[c].strip /\ id # batch[c].id
          BY <1>2, <2>1 DEF Handled, Ids
      <4>2. L[id] = Touched(c, id)
          BY <3>2, <4>1, AfterUpdate
      <4> QED BY <4>2
    <3> QED BY <3>1, <3>2
  <2> QED BY <2>2, <2>3
<1> QED BY <1>1, <1>3, <1>4 DEF CreationPeers

LEMMA CreationRouted ==
    ASSUME NEW K, NEW F, NEW n, NEW b, NEW L, NEW ids,
           DataInv(K), FileInv(K, F), GrownInv(K, F, n, b), CreationOf(K, n, b, ids, L),
           RoutedIn(K), WiredInv(F, n, b), CreationPeers(K, n, b, ids, L)
    PROVE  RoutedIn(L)
<1>1. /\ \A id \in OnChain(K) : id \in OnChain(L) /\ L[id].node = K[id].node /\ L[id].subnet = K[id].subnet
      /\ NetIn(K) \subseteq NetIn(L)
      /\ \A id \in NetIn(L) :
           /\ L[id].node \in DOMAIN n.nets
           /\ L[id].node \in DOMAIN F => id = F[L[id].node].contract
           /\ L[id].node \notin DOMAIN F => L[id].node \in DOMAIN ids /\ id = ids[L[id].node]
    BY CreationNodes
<1>2. ASSUME NEW id \in NetIn(L), id \notin NetIn(K)
      PROVE  /\ L[id].node \in DOMAIN b.create /\ b.create[L[id].node].net
             /\ L[id].peers = n.nets[L[id].node].peers
  <2>1. L[id].node \notin DOMAIN F
      BY <1>1, <1>2, FileFacts
  <2>2. L[id].node \in DOMAIN ids /\ id = ids[L[id].node] /\ L[id].node \in DOMAIN n.nets
      BY <1>1, <2>1
  <2>3. L[id].node \in DOMAIN b.create /\ b.create[L[id].node].net
      BY <2>1, <2>2 DEF GrownInv
  <2> QED BY <2>2, <2>3 DEF CreationPeers
<1>3. CASE F = <<>> \/ b.touch
  <2>1. ASSUME NEW id \in NetIn(L)  PROVE L[id].node \in DOMAIN n.nets /\ L[id].peers = n.nets[L[id].node].peers
    <3>1. CASE id \in NetIn(K)
      <4>1. K[id].node \in DOMAIN F /\ L[id].node = K[id].node
          BY <1>1, <3>1 DEF FileInv, NetIn
      <4>2. b.touch
          BY <1>3, <4>1
      <4>3. L[id].peers = PeersOf(n, K[id].node)
          BY <3>1, <4>2 DEF CreationPeers
      <4> QED BY <1>1, <4>1, <4>3 DEF PeersOf
    <3>2. CASE id \notin NetIn(K)
        BY <1>1, <1>2, <3>2
    <3> QED BY <3>1, <3>2
  <2>2. ASSUME NEW i \in NetIn(L), NEW j \in NetIn(L), i # j
        PROVE  L[i].node # L[j].node
      BY <1>1, <2>2
  <2>3. Routed(n.nets)
      BY DEF WiredInv, Wired
  <2> QED BY <2>1, <2>2, <2>3 DEF RoutedIn, Routed
<1>4. CASE F # <<>> /\ ~b.touch
  <2>1. NetIn(L) = NetIn(K)
    <3>1. ASSUME NEW id \in NetIn(L), id \notin NetIn(K)  PROVE FALSE
        BY <1>2, <1>4, <3>1 DEF WiredInv
    <3> QED BY <1>1, <3>1
  <2>2. \A id \in NetIn(K) : L[id].peers = K[id].peers /\ L[id].node = K[id].node
      BY <1>1, <1>4 DEF CreationPeers, NetIn
  <2> QED BY <2>1, <2>2 DEF RoutedIn
<1> QED BY <1>3, <1>4

LEMMA HandleRoutes ==
    ASSUME TypeInv, CleanInv, RouteInv, NEW c \in Calls, Handle(c)
    PROVE  RouteInv'
<1>1. /\ pc[c] = "handle" /\ Writes(c)
      /\ \E ids \in ContractIds(c) :
           /\ contract' = [id \in Ids |-> AfterCall(c, ids, id)]
           /\ Now(c, "save", call[c], WithContracts(net[c], ids), stored[c], todo[c], batch[c])
    BY HandleTypes
<1>2. PICK ids \in ContractIds(c) :
           /\ contract' = [id \in Ids |-> AfterCall(c, ids, id)]
           /\ Now(c, "save", call[c], WithContracts(net[c], ids), stored[c], todo[c], batch[c])
    BY <1>1
<1>3. PICK L : L = contract'
    OBVIOUS
<1>4. Handled(c, ids, L)
    BY <1>2, <1>3 DEF Handled
<1>5. ASSUME clean, c \notin stale  PROVE RoutedIn(L)
  <2>1. RoutedIn(contract)
      BY <1>5 DEF RouteInv
  <2>2. CASE call[c].op = "delete"
    <3>1. Removal("handle", net[c], stored[c], todo[c], batch[c])
        BY <1>1, <1>5, <2>2, RemovalFacts
    <3>2. Deleted(contract, batch[c], L)
        BY <1>1, <1>4, <2>2, <3>1, HandleDeletion
    <3>3. \A id \in NetIn(L) : /\ id \in NetIn(contract) /\ L[id].peers = contract[id].peers
                               /\ L[id].node = contract[id].node
        BY <3>2 DEF Deleted, NetIn, OnChain
    <3> QED BY <2>1, <3>3 DEF RoutedIn
  <2>3. CASE call[c].op # "delete"
    <3>1. Quiet
      <4>1. \A d \in Calls \ {c} : pc[d] # "save"
          BY <1>1, <1>5, QuietFacts
      <4> QED BY <1>1, <4>1 DEF Quiet
    <3>2. /\ DataInv(contract) /\ FileInv(contract, info)
          /\ GrownInv(contract, info, net[c], batch[c]) /\ Stores(contract, stored[c])
        BY <1>1, <1>5, <2>3, <3>1 DEF CleanInv, MirrorOf, Mirror
    <3>3. CreationOf(contract, net[c], batch[c], ids, L)
        BY <1>1, <1>4, <3>2, HandleCreation
    <3>4. CreationPeers(contract, net[c], batch[c], ids, L)
        BY <1>1, <1>4, <3>2, <3>3, HandlePeers
    <3>5. WiredInv(info, net[c], batch[c])
        BY <1>1, <1>5, <2>3 DEF RouteInv, WiredOf
    <3>6. PICK n : n = net[c]
        OBVIOUS
    <3>7. PICK b : b = batch[c]
        OBVIOUS
    <3>8. /\ GrownInv(contract, info, n, b) /\ CreationOf(contract, n, b, ids, L)
          /\ CreationPeers(contract, n, b, ids, L) /\ WiredInv(info, n, b)
        BY <3>2, <3>3, <3>4, <3>5, <3>6, <3>7
    <3> QED BY <2>1, <3>2, <3>8, CreationRouted
  <2> QED BY <2>2, <2>3
<1> QED BY <1>1, <1>2, <1>3, <1>5, RoutesWrite

LEMMA RouteStep ==
    ASSUME TypeInv, CleanInv, RouteInv, [Next]_vars
    PROVE  RouteInv'
<1>1. ASSUME NEW c \in Calls, Step(c) \/ Crash(c)  PROVE RouteInv'
    BY <1>1, BeginRoutes, LoadRoutes, LoadSaveRoutes, BuildRoutes, DeleteRoutes, EndRoutes,
       HandleRoutes, SaveRoutes DEF Step
<1>2. ASSUME NEW id \in Ids, Cancel(id)  PROVE RouteInv'
  <2>1. ~clean'
      BY <1>2 DEF Cancel
  <2> QED BY <2>1 DEF RouteInv
<1>3. CASE UNCHANGED vars
    BY <1>3 DEF vars, local, RouteInv
<1> QED BY <1>1, <1>2, <1>3 DEF Next

\* Of all the peers in the network workloads one at most is for a subnet, and a
\* call that creates has changed the peers of the nodes that it found.
THEOREM Wirings == Spec => []RouteInv
<1>1. Init => RouteInv
  <2> SUFFICES ASSUME Init  PROVE RouteInv
      OBVIOUS
  <2>1. NetIn(contract) = {}
      BY DEF Init, NetIn, OnChain, NoContract
  <2>2. RoutedIn(contract)
      BY <2>1 DEF RoutedIn
  <2>3. \A c \in Calls : pc[c] = "idle"
      BY DEF Init
  <2> QED BY <2>2, <2>3 DEF RouteInv, WiredOf
<1>2. TypeInv /\ CleanInv /\ RouteInv /\ [Next]_vars => RouteInv'
    BY RouteStep
<1> QED BY <1>1, <1>2, Types, Mirrors, PTL DEF Spec

\* Of the peers of a node, one at most is for a subnet, whichever calls have
\* brought nodes and access points to the network (RoutesUnique; generatePeers,
\* addNode, addAccess and load of network.ts, and the updates of VMHL.create).
THEOREM RoutesApart == Spec => []RoutesUnique
<1>1. RouteInv => RoutesUnique
  <2> SUFFICES ASSUME RouteInv, clean, NEW id \in InNetwork,
                      NEW p \in contract[id].peers, NEW q \in contract[id].peers, p # q
               PROVE  p.allowed \cap q.allowed = {}
      BY DEF RoutesUnique
  <2>1. id \in NetIn(contract)
      BY DEF InNetwork, NetIn, OnChain, Live
  <2> QED BY <2>1 DEF RouteInv, RoutedIn, Disjoint
<1> QED BY <1>1, Wirings, PTL
-----------------------------------------------------------------------------
(***************************************************************************)
(* With the last machine the network goes.                                 *)
(***************************************************************************)
\* A network has a machine, and every node of it has one that is not an access
\* node; and what the file has for taken are the addresses of machines.
BusyOn(K, z) == \E j \in OnChain(K) : K[j].node = z /\ K[j].machines # {}
Occupied(K) ==
    /\ NetIn(K) # {} => \E j \in OnChain(K) : K[j].machines # {}
    /\ \A i \in NetIn(K) : K[i].node \in AccessNodes \/ BusyOn(K, K[i].node)
Taken(K, F) ==
    \A z \in DOMAIN F : \A ip \in F[z].ips :
      \E j \in OnChain(K) : K[j].node = z /\ \E m \in K[j].machines : m.ip = ip

\* The contracts as the batch b of a deletion leaves them are occupied.
Remaining(K, b, j) == IF j = b.id THEN b.rest ELSE K[j].machines
Busies(K, b, z) == \E j \in OnChain(K) \ b.delete : K[j].node = z /\ Remaining(K, b, j) # {}
Leaves(K, b) ==
    /\ NetIn(K) \ b.delete # {} => \E j \in OnChain(K) \ b.delete : Remaining(K, b, j) # {}
    /\ \A i \in NetIn(K) \ b.delete : K[i].node \in AccessNodes \/ Busies(K, b, K[i].node)

\* Every machine that goes has yet to be deleted, or its address will be freed.
Going(K, b) == K[b.id].machines \ b.rest
Pends(K, b, t) ==
    \A m \in Going(K, b) : IF t = <<>> THEN m.ip \in b.ips ELSE \E k \in DOMAIN t : t[k] = m

\* The Network object has no addresses that the file has not, nor any of the
\* machines that are deleted already; of these the batch has the addresses.
PointsOpen(n) == \A p \in n.points : p.node \in AccessNodes
Exact(K, F, n, b, t) ==
    \A z \in DOMAIN n.nets :
      /\ n.nodes[z].ips \subseteq F[z].ips
      /\ z = K[b.id].node =>
           \A m \in Going(K, b) : m.ip \in n.nodes[z].ips => \E k \in DOMAIN t : t[k] = m
Collects(K, n, b, t) ==
    K[b.id].node \in DOMAIN n.nets =>
      \A m \in Going(K, b) : m.ip \in b.ips \/ \E k \in DOMAIN t : t[k] = m

\* A creation: the addresses are those of the file and of the machines of the
\* batch, and a node that is new gets a machine unless it is an access node.
Grows(F, n, b) ==
    /\ \A z \in DOMAIN n.nets : \A ip \in n.nodes[z].ips :
         \/ z \in DOMAIN F /\ ip \in F[z].ips
         \/ z \in DOMAIN b.create /\ \E m \in b.create[z].machines : m.ip = ip
    /\ \A z \in DOMAIN n.nets \ DOMAIN F : z \in AccessNodes \/ b.create[z].machines # {}
    /\ DOMAIN n.nets # DOMAIN F => \E x \in DOMAIN b.create : b.create[x].machines # {}

Works(K, F, p, r, n, t, b) ==
    /\ p \in {"loadSave", "build", "handle"} /\ r.op # "delete" => Grows(F, n, b)
    /\ r.op = "delete" =>
         /\ p \in {"load", "loadSave"} => Pends(K, b, t) /\ (t = <<>> => Leaves(K, b))
         /\ p \in {"loadSave", "remove"} => PointsOpen(n)
         /\ p \in {"remove", "rest"} => Collects(K, n, b, t)
         /\ p \in {"remove", "rest", "handle"} => Exact(K, F, n, b, t)
         /\ p = "free" => Pends(K, b, t) /\ \A z \in DOMAIN n.nets : n.nodes[z].ips \subseteq F[z].ips
         /\ p \in {"rest", "free", "handle"} => Leaves(K, b)

WorksOf(c) == Works(contract, info, pc[c], call[c], net[c], todo[c], batch[c])
FreedInv ==
    clean => /\ Occupied(contract)
             /\ Quiet => Taken(contract, info)
             /\ \A c \in Calls : pc[c] = "save" => Taken(contract, Entries(net[c]))
             /\ \A c \in Calls : c \notin stale => WorksOf(c)

\* An address that a deletion leaves is of a machine that it leaves.
LEMMA IpStays ==
    ASSUME NEW K, NEW F, NEW n, NEW b, Deletion(K, F, b), ShrunkInv(K, F, n, b), Exact(K, F, n, b, <<>>),
           Taken(K, F), NEW z \in DOMAIN n.nets, NEW ip \in n.nodes[z].ips
    PROVE  \E j \in OnChain(K) \ b.delete :
             K[j].node = z /\ \E m \in Remaining(K, b, j) : m.ip = ip
<1>1. z \in DOMAIN F /\ ip \in F[z].ips
    BY DEF ShrunkInv, Exact
<1>2. PICK j \in OnChain(K) : K[j].node = z /\ \E m \in K[j].machines : m.ip = ip
    BY <1>1 DEF Taken
<1>3. PICK m \in K[j].machines : m.ip = ip
    BY <1>2
<1>4. CASE j = b.id
  <2>1. m \in b.rest
    <3>1. ASSUME m \notin b.rest  PROVE FALSE
      <4>1. m \in Going(K, b) /\ z = K[b.id].node
          BY <1>2, <1>3, <1>4, <3>1 DEF Going
      <4>2. \E k \in DOMAIN <<>> : <<>>[k] = m
          BY <1>3, <4>1 DEF Exact
      <4> QED BY <4>2
    <3> QED BY <3>1
  <2>2. b.id \notin b.delete
      BY <2>1 DEF ShrunkInv
  <2> QED BY <1>2, <1>3, <1>4, <2>1, <2>2 DEF Remaining
<1>5. CASE j # b.id
  <2>1. j \notin b.delete
      BY <1>3, <1>5 DEF ShrunkInv
  <2> QED BY <1>2, <1>3, <1>5, <2>1 DEF Remaining
<1> QED BY <1>4, <1>5

\* A deletion as handle() writes it.
LEMMA DeletionOccupied ==
    ASSUME NEW K, NEW F, NEW n, NEW b, NEW L, NEW E, NEW ids, DOMAIN ids = {},
           Deletion(K, F, b), ShrunkInv(K, F, n, b), Deleted(K, b, L), Saves(n, ids, E),
           Taken(K, F), Leaves(K, b), Exact(K, F, n, b, <<>>)
    PROVE  Occupied(L) /\ Taken(L, E)
<1>1. /\ OnChain(L) = OnChain(K) \ b.delete /\ NetIn(L) = NetIn(K) \ b.delete
      /\ \A j \in OnChain(L) : L[j].node = K[j].node /\ L[j].machines = Remaining(K, b, j)
    BY DEF Deleted, OnChain, NetIn, Remaining
<1>2. NetIn(L) \subseteq OnChain(L)
    BY DEF NetIn
<1>3. NetIn(L) # {} => \E j \in OnChain(L) : L[j].machines # {}
    BY <1>1 DEF Leaves
<1>4. ASSUME NEW i \in NetIn(L), L[i].node \notin AccessNodes  PROVE BusyOn(L, L[i].node)
  <2>1. Busies(K, b, L[i].node)
      BY <1>1, <1>2, <1>4 DEF Leaves
  <2> QED BY <1>1, <2>1 DEF Busies, BusyOn
<1>5. ASSUME NEW z \in DOMAIN E, NEW ip \in E[z].ips
      PROVE  \E j \in OnChain(L) : L[j].node = z /\ \E m \in L[j].machines : m.ip = ip
  <2>1. z \in DOMAIN n.nets /\ ip \in n.nodes[z].ips
      BY <1>5 DEF Saves
  <2>2. PICK j \in OnChain(K) \ b.delete : K[j].node = z /\ \E m \in Remaining(K, b, j) : m.ip = ip
      BY <2>1, IpStays
  <2> QED BY <1>1, <2>2
<1> QED BY <1>3, <1>4, <1>5 DEF Occupied, Taken

\* The contracts that a creation keeps, and those that it works on.
LEMMA CreationKeeps ==
    ASSUME NEW K, NEW n, NEW b, NEW L, NEW ids, CreationOf(K, n, b, ids, L)
    PROVE  /\ \A id \in OnChain(K) : /\ id \in OnChain(L) /\ L[id].node = K[id].node
                                     /\ K[id].machines \subseteq L[id].machines
           /\ \A x \in DOMAIN b.create : /\ ids[x] \in OnChain(L) /\ L[ids[x]].node = x
                                         /\ b.create[x].machines \subseteq L[ids[x]].machines
<1>1. ASSUME NEW x \in DOMAIN b.create
      PROVE  /\ ids[x] \in OnChain(L) /\ L[ids[x]].node = x
             /\ b.create[x].machines \subseteq L[ids[x]].machines
             /\ ids[x] \in OnChain(K) => K[ids[x]].node = x /\ K[ids[x]].machines \subseteq L[ids[x]].machines
  <2>1. /\ ids[x] \in Ids /\ L[ids[x]].state = "created" /\ L[ids[x]].node = x
        /\ CreatedOn(K, n, b, L, x, ids[x]) \/ JoinedOn(K, b, L, x, ids[x])
      BY DEF CreationOf
  <2> QED BY <2>1 DEF CreatedOn, JoinedOn, OnChain
<1>2. ASSUME NEW id \in OnChain(K)
      PROVE  id \in OnChain(L) /\ L[id].node = K[id].node /\ K[id].machines \subseteq L[id].machines
  <2>1. CASE \E x \in DOMAIN ids : ids[x] = id
      BY <1>1, <2>1 DEF CreationOf
  <2>2. CASE \A x \in DOMAIN ids : ids[x] # id
      BY <2>2 DEF CreationOf, OnChain
  <2> QED BY <2>1, <2>2
<1> QED BY <1>1, <1>2

LEMMA CreationOccupied ==
    ASSUME NEW K, NEW F, NEW n, NEW b, NEW L, NEW ids, NEW E,
           DataInv(K), FileInv(K, F), GrownInv(K, F, n, b), CreationOf(K, n, b, ids, L), Saves(n, ids, E),
           Occupied(K), Taken(K, F), Grows(F, n, b)
    PROVE  Occupied(L) /\ Taken(L, E)
<1>1. /\ \A id \in OnChain(K) : /\ id \in OnChain(L) /\ L[id].node = K[id].node
                                /\ K[id].machines \subseteq L[id].machines
      /\ \A x \in DOMAIN b.create : /\ ids[x] \in OnChain(L) /\ L[ids[x]].node = x
                                    /\ b.create[x].machines \subseteq L[ids[x]].machines
    BY CreationKeeps
<1>2. \A id \in NetIn(L) : L[id].node \in DOMAIN n.nets
    BY CreationNodes
<1>3. \A z \in DOMAIN n.nets \ DOMAIN F : z \in DOMAIN b.create
    BY DEF GrownInv
<1>4. ASSUME NetIn(L) # {}  PROVE \E j \in OnChain(L) : L[j].machines # {}
  <2>1. CASE NetIn(K) # {}
      BY <1>1, <2>1 DEF Occupied
  <2>2. CASE NetIn(K) = {}
    <3>1. DOMAIN F = {} /\ DOMAIN n.nets # {}
        BY <1>2, <1>4, <2>2 DEF FileInv
    <3>2. PICK x \in DOMAIN b.create : b.create[x].machines # {}
        BY <3>1 DEF Grows
    <3> QED BY <1>1, <3>2
  <2> QED BY <2>1, <2>2
<1>5. ASSUME NEW i \in NetIn(L), L[i].node \notin AccessNodes  PROVE BusyOn(L, L[i].node)
  <2>1. PICK z \in DOMAIN n.nets : z = L[i].node
      BY <1>2
  <2>2. CASE z \in DOMAIN F
    <3>1. PICK k \in NetIn(K) : K[k].node = z
        BY <2>2 DEF FileInv
    <3>2. PICK j \in OnChain(K) : K[j].node = z /\ K[j].machines # {}
        BY <1>5, <2>1, <3>1 DEF Occupied, BusyOn
    <3> QED BY <1>1, <2>1, <3>2 DEF BusyOn
  <2>3. CASE z \notin DOMAIN F
    <3>1. z \in DOMAIN b.create /\ b.create[z].machines # {}
        BY <1>3, <1>5, <2>1, <2>3 DEF Grows
    <3> QED BY <1>1, <2>1, <3>1 DEF BusyOn
  <2> QED BY <2>2, <2>3
<1>6. ASSUME NEW z \in DOMAIN E, NEW ip \in E[z].ips
      PROVE  \E j \in OnChain(L) : L[j].node = z /\ \E m \in L[j].machines : m.ip = ip
  <2>1. z \in DOMAIN n.nets /\ ip \in n.nodes[z].ips
      BY <1>6 DEF Saves
  <2>2. CASE z \in DOMAIN F /\ ip \in F[z].ips
      BY <1>1, <2>2 DEF Taken
  <2>3. CASE z \in DOMAIN b.create /\ \E m \in b.create[z].machines : m.ip = ip
      BY <1>1, <2>3
  <2> QED BY <2>1, <2>2, <2>3 DEF Grows
<1> QED BY <1>4, <1>5, <1>6 DEF Occupied, Taken

\* What has just been loaded.
LEMMA GrowsLoaded ==
    ASSUME NEW F, NEW K, NEW n, NEW b, JustLoaded(K, F, n)
    PROVE  Grows(F, n, b)
BY DEF JustLoaded, Grows

LEMMA WorksLoaded ==
    ASSUME NEW K, NEW F, NEW n, NEW r, NEW t, NEW b, NEW q \in {"loadSave", "build", "remove", "free"},
           JustLoaded(K, F, n), q = "remove" => t # <<>>, q = "free" => t = <<>>,
           r.op = "delete" => PointsOpen(n) /\ Pends(K, b, t) /\ (t = <<>> => Leaves(K, b))
    PROVE  Works(K, F, q, r, n, t, b)
<1>1. Grows(F, n, b)
    BY GrowsLoaded
<1>2. DOMAIN n.nets = DOMAIN F /\ \A z \in DOMAIN F : n.nodes[z].ips = F[z].ips
    BY DEF JustLoaded
<1>3. ASSUME r.op = "delete", q = "remove"  PROVE Collects(K, n, b, t) /\ Exact(K, F, n, b, t)
  <2>1. \A m \in Going(K, b) : \E k \in DOMAIN t : t[k] = m
      BY <1>3 DEF Pends
  <2> QED BY <1>2, <2>1 DEF Collects, Exact
<1>4. \A z \in DOMAIN n.nets : n.nodes[z].ips \subseteq F[z].ips
    BY <1>2
<1> QED BY <1>1, <1>3, <1>4 DEF Works

\* A machine more.
LEMMA GrewMachines ==
    ASSUME NEW b \in Batch, NEW new, NEW x, NEW m, NEW e \in Batch, Grew(b, new, x, m, e)
    PROVE  /\ DOMAIN e.create = DOMAIN b.create \cup new \cup {x}
           /\ m \in e.create[x].machines
           /\ \A y \in DOMAIN b.create : b.create[y].machines \subseteq e.create[y].machines
<1>1. /\ DOMAIN e.create = DOMAIN b.create \cup new \cup {x}
      /\ \A y \in DOMAIN e.create :
           e.create[y].machines = Deployment(b, y).machines \cup (IF y = x THEN {m} ELSE {})
    BY DEF Grew
<1>2. \A y \in DOMAIN b.create : Deployment(b, y) = b.create[y]
    BY DEF Deployment
<1>3. m \in e.create[x].machines
    BY <1>1
<1>4. \A y \in DOMAIN b.create : b.create[y].machines \subseteq e.create[y].machines
    BY <1>1, <1>2
<1> QED BY <1>1, <1>3, <1>4

LEMMA GrowsStep ==
    ASSUME NEW K, NEW F, NEW n \in Network, NEW b \in Batch, GrownInv(K, F, n, b), Grows(F, n, b),
           NEW g, NEW new, NEW x, GrownBy(n, g, new, x), NEW m,
           NEW o, o.nets = g.nets, \A z \in DOMAIN g.nets \ {x} : o.nodes[z] = g.nodes[z],
           o.nodes[x].ips = g.nodes[x].ips \cup {m.ip},
           NEW e \in Batch, Grew(b, new, x, m, e)
    PROVE  Grows(F, o, e)
<1>1. /\ DOMAIN e.create = DOMAIN b.create \cup new \cup {x}
      /\ m \in e.create[x].machines
      /\ \A y \in DOMAIN b.create : b.create[y].machines \subseteq e.create[y].machines
    BY GrewMachines
<1>2. /\ DOMAIN g.nets = DOMAIN n.nets \cup new /\ new \subseteq {x} \cup AccessNodes /\ x \in DOMAIN g.nets
      /\ \A z \in DOMAIN n.nets : g.nodes[z] = n.nodes[z]
      /\ \A z \in DOMAIN g.nets \ DOMAIN n.nets : g.nodes[z].ips = {}
    BY DEF GrownBy, Extends
<1>3. ASSUME NEW z \in DOMAIN o.nets, NEW ip \in g.nodes[z].ips
      PROVE  \/ z \in DOMAIN F /\ ip \in F[z].ips
             \/ z \in DOMAIN e.create /\ \E k \in e.create[z].machines : k.ip = ip
  <2>1. z \in DOMAIN n.nets /\ ip \in n.nodes[z].ips
      BY <1>2, <1>3
  <2>2. \/ z \in DOMAIN F /\ ip \in F[z].ips
        \/ z \in DOMAIN b.create /\ \E k \in b.create[z].machines : k.ip = ip
      BY <2>1 DEF Grows
  <2> QED BY <1>1, <2>2
<1>4. ASSUME NEW z \in DOMAIN o.nets, NEW ip \in o.nodes[z].ips
      PROVE  \/ z \in DOMAIN F /\ ip \in F[z].ips
             \/ z \in DOMAIN e.create /\ \E k \in e.create[z].machines : k.ip = ip
  <2>1. CASE z = x /\ ip = m.ip
      BY <1>1, <2>1
  <2>2. CASE ip \in g.nodes[z].ips
      BY <1>3, <2>2
  <2>3. ip \in g.nodes[z].ips \/ (z = x /\ ip = m.ip)
    <3>1. CASE z = x
        BY <3>1
    <3>2. CASE z # x
        BY <3>2
    <3> QED BY <3>1, <3>2
  <2> QED BY <2>1, <2>2, <2>3
<1>5. ASSUME NEW z \in DOMAIN o.nets \ DOMAIN F, z \notin AccessNodes  PROVE e.create[z].machines # {}
  <2>1. CASE z \in DOMAIN n.nets
    <3>1. z \in DOMAIN b.create /\ b.create[z].machines # {}
        BY <1>5, <2>1 DEF GrownInv, Grows
    <3> QED BY <1>1, <3>1
  <2>2. CASE z \notin DOMAIN n.nets
    <3>1. z = x
        BY <1>2, <1>5, <2>2
    <3> QED BY <1>1, <3>1
  <2> QED BY <2>1, <2>2
<1>6. \E y \in DOMAIN e.create : e.create[y].machines # {}
    BY <1>1
<1> QED BY <1>4, <1>5, <1>6 DEF Grows

\* A step of a call; the others have what they had, or are not under way.
LEMMA FreedMove ==
    ASSUME TypeInv, FreedInv, NEW c \in Calls, NEW p, NEW r, NEW n, NEW s, NEW t, NEW b,
           Now(c, p, r, n, s, t, b),
           clean' => /\ clean /\ Occupied(contract')
                     /\ p = "save" => Taken(contract', Entries(n))
                     /\ Quiet' => Taken(contract', info'),
           clean' /\ c \notin stale' => Works(contract', info', p, r, n, t, b),
           clean' => \A d \in Calls \ {c} :
                       /\ pc[d] = "save" => contract' = contract
                       /\ d \notin stale' =>
                            pc[d] = "idle" \/ (d \notin stale /\ UNCHANGED <<contract, info>>)
    PROVE  FreedInv'
<1> SUFFICES ASSUME clean'
             PROVE  /\ Occupied(contract') /\ (Quiet' => Taken(contract', info'))
                    /\ \A d \in Calls : pc'[d] = "save" => Taken(contract', Entries(net'[d]))
                    /\ \A d \in Calls : d \notin stale' => WorksOf(d)'
    BY DEF FreedInv
<1>1. /\ pc'[c] = p /\ call'[c] = r /\ net'[c] = n /\ todo'[c] = t /\ batch'[c] = b
      /\ \A d \in Calls \ {c} : /\ pc'[d] = pc[d] /\ call'[d] = call[d] /\ net'[d] = net[d]
                                /\ todo'[d] = todo[d] /\ batch'[d] = batch[d]
    BY Elsewhere
<1>2. ASSUME NEW d \in Calls, pc'[d] = "save"  PROVE Taken(contract', Entries(net'[d]))
  <2>1. CASE d = c
      BY <1>1, <1>2, <2>1
  <2>2. CASE d # c
    <3>1. pc[d] = "save" /\ net'[d] = net[d] /\ contract' = contract
        BY <1>1, <1>2, <2>2
    <3>2. Taken(contract, Entries(net[d]))
        BY <3>1 DEF FreedInv
    <3> QED BY <3>1, <3>2
  <2> QED BY <2>1, <2>2
<1>3. ASSUME NEW d \in Calls, d \notin stale'  PROVE WorksOf(d)'
  <2>1. CASE d = c
      BY <1>1, <1>3, <2>1 DEF WorksOf
  <2>2. CASE d # c /\ pc[d] = "idle"
    <3>1. pc'[d] = "idle"
        BY <1>1, <2>2
    <3> QED BY <3>1 DEF WorksOf, Works
  <2>3. CASE d # c /\ pc[d] # "idle"
    <3>1. d \notin stale /\ UNCHANGED <<contract, info>>
        BY <1>3, <2>3
    <3>2. WorksOf(d)
        BY <3>1 DEF FreedInv
    <3> QED BY <1>1, <2>3, <3>1, <3>2 DEF WorksOf
  <2> QED BY <2>1, <2>2, <2>3
<1> QED BY <1>2, <1>3

\* A step that changes neither the contracts nor the file.
LEMMA FreedReads ==
    ASSUME TypeInv, FreedInv, NEW c \in Calls, NEW p, NEW r, NEW n, NEW s, NEW t, NEW b,
           Now(c, p, r, n, s, t, b), p # "save",
           clean' => clean /\ pc[c] # "save" /\ UNCHANGED <<contract, info>>,
           clean' /\ c \notin stale' => Works(contract, info, p, r, n, t, b),
           \A d \in Calls \ {c} : d \in stale' <=> d \in stale
    PROVE  FreedInv'
<1>1. pc'[c] = p /\ \A d \in Calls \ {c} : pc'[d] = pc[d]
    BY Elsewhere
<1>2. ASSUME clean'
      PROVE  /\ clean /\ Occupied(contract') /\ (Quiet' => Taken(contract', info'))
             /\ \A d \in Calls \ {c} : d \notin stale' => d \notin stale
  <2>1. clean /\ pc[c] # "save" /\ contract' = contract /\ info' = info
      BY <1>2
  <2>2. Quiet' => Quiet
      BY <1>1, <2>1 DEF Quiet
  <2> QED BY <2>1, <2>2 DEF FreedInv
<1>3. clean' /\ c \notin stale' => Works(contract', info', p, r, n, t, b)
    OBVIOUS
<1> QED BY <1>2, <1>3, FreedMove

LEMMA FreedEnds ==
    ASSUME TypeInv, FreedInv, NEW c \in Calls, NEW r, NEW n, NEW s, NEW t, NEW b,
           Now(c, "idle", r, n, s, t, b), stale' = stale \ {c},
           clean' => clean /\ pc[c] # "save" /\ UNCHANGED <<contract, info>>
    PROVE  FreedInv'
<1>1. Works(contract, info, "idle", r, n, t, b)
    BY DEF Works
<1> QED BY <1>1, FreedReads

LEMMA ThrowFreed ==
    ASSUME TypeInv, FreedInv, NEW c \in Calls, Throw(c), pc[c] # "save"
    PROVE  FreedInv'
<1>1. stale' = stale \ {c} /\ UNCHANGED <<contract, info, clean>>
    BY DEF Throw
<1> QED BY <1>1, ThrowTypes, FreedEnds

LEMMA EndFreed ==
    ASSUME TypeInv, FreedInv, NEW c \in Calls, HandleFails(c) \/ Crash(c) \/ LoadFails(c)
    PROVE  FreedInv'
<1>1. CASE HandleFails(c)
  <2>1. /\ pc[c] = "handle" /\ info' = info /\ stale' = stale \ {c}
        /\ clean' = (clean /\ contract' = contract)
        /\ Now(c, "idle", NoRequest, EmptyNetwork, <<>>, <<>>, NoBatch)
      BY <1>1, HandleFailsTypes
  <2> QED BY <2>1, FreedEnds
<1>2. CASE Crash(c)
  <2>1. /\ UNCHANGED <<contract, info>> /\ stale' = stale \ {c} /\ clean' = (clean /\ pc[c] # "save")
        /\ Now(c, "idle", NoRequest, EmptyNetwork, <<>>, <<>>, NoBatch)
      BY <1>2, CrashTypes
  <2> QED BY <2>1, FreedEnds
<1>3. CASE LoadFails(c)
    BY <1>3, ThrowFreed DEF LoadFails
<1> QED BY <1>1, <1>2, <1>3

LEMMA BeginFreed ==
    ASSUME TypeInv, FreedInv, NEW c \in Calls, Begin(c)
    PROVE  FreedInv'
<1>1. /\ pc[c] = "idle" /\ UNCHANGED <<contract, info, stale, clean>> /\ \E r, t, b : Begun(c, r, t, b)
    BY BeginShape
<1>2. PICK r, t, b : Begun(c, r, t, b)
    BY <1>1
<1>3. Now(c, "load", r, net[c], stored[c], t, b)
    BY <1>2 DEF Begun
<1>4. Works(contract, info, "load", r, net[c], t, b)
  <2>1. CASE r.op # "delete"
      BY <2>1 DEF Works
  <2>2. ASSUME r.op = "delete", NEW id \in DeploymentsOf(r.name), NEW gone \in SUBSET contract[id].machines,
               gone # {}, t = SetToSeq(gone), b = Chosen(batch[c], id, gone)
        PROVE  Works(contract, info, "load", r, net[c], t, b)
    <3>1. id \in Ids /\ batch[c] \in Batch
        BY LocalFacts DEF DeploymentsOf
    <3>2. b.id = id /\ b.rest = contract[id].machines \ gone /\ IsFiniteSet(gone)
        BY <2>2, <3>1, ChosenFacts DEF Fin
    <3>3. t # <<>> /\ \A m \in gone : \E k \in DOMAIN t : t[k] = m
        BY <2>2, <3>2, SetToSeqFacts
    <3>4. Going(contract, b) = gone
        BY <3>2 DEF Going
    <3>5. Pends(contract, b, t)
        BY <3>3, <3>4 DEF Pends
    <3> QED BY <3>3, <3>5 DEF Works
  <2> QED BY <1>2, <2>1, <2>2 DEF Begun
<1> QED BY <1>1, <1>3, <1>4, FreedReads

LEMMA LoadFreed ==
    ASSUME TypeInv, CleanInv, RouteInv, FreedInv, NEW c \in Calls, Load(c)
    PROVE  FreedInv'
<1> DEFINE p == IF Exists THEN "loadSave" ELSE AfterLoad(c)
<1>1. /\ pc[c] = "load" /\ UNCHANGED <<contract, info, clean>>
      /\ stale' = IF \E d \in Calls : pc[d] = "save" THEN stale \cup {c} ELSE stale
    BY DEF Load
<1>2. PICK n : n = IF Exists THEN Loaded ELSE EmptyNetwork
    OBVIOUS
<1>3. Now(c, p, call[c], n, stored'[c], todo[c], batch[c])
    BY <1>2, LoadTypes
<1>4. /\ p \in {"loadSave", "build", "remove", "free"}
      /\ p = "remove" => todo[c] # <<>>
      /\ p = "free" => todo[c] = <<>>
    BY DEF AfterLoad
<1> HIDE DEF p
<1>5. ASSUME clean', c \notin stale'  PROVE Works(contract, info, p, call[c], n, todo[c], batch[c])
  <2>1. clean /\ c \notin stale /\ Quiet
      BY <1>1, <1>5 DEF Quiet
  <2>2. FileInv(contract, info) /\ RoutedIn(contract)
      BY <2>1 DEF CleanInv, RouteInv
  <2>3. JustLoaded(contract, info, n)
      BY <1>2, <2>2, LoadsAll
  <2>4. PointsOpen(n)
    <3>1. WiredInv(info, n, NoBatch)
        BY <1>2, <2>2, LoadsWired
    <3> QED BY <3>1 DEF WiredInv, Wired, Pointed, PointsOpen
  <2>5. Works(contract, info, "load", call[c], net[c], todo[c], batch[c])
      BY <1>1, <2>1 DEF FreedInv, WorksOf
  <2>6. call[c].op = "delete" => Pends(contract, batch[c], todo[c]) /\ (todo[c] = <<>> => Leaves(contract, batch[c]))
      BY <2>5 DEF Works
  <2> QED BY <1>4, <2>3, <2>4, <2>6, WorksLoaded
<1>6. p # "save" /\ pc[c] # "save" /\ \A d \in Calls \ {c} : d \in stale' <=> d \in stale
    BY <1>1, <1>4
<1> QED BY <1>1, <1>3, <1>5, <1>6, FreedReads

LEMMA LoadSaveFreed ==
    ASSUME TypeInv, CleanInv, FreedInv, NEW c \in Calls, LoadSave(c)
    PROVE  FreedInv'
<1>1. /\ pc[c] = "loadSave" /\ info' = Entries(net[c]) /\ contract' = contract
      /\ IF info' = info THEN UNCHANGED <<stale, clean>> ELSE Writes(c)
    BY DEF LoadSave
<1>2. Now(c, AfterLoad(c), call[c], net[c], stored[c], todo[c], batch[c])
    BY LoadSaveTypes
<1>3. /\ AfterLoad(c) \in {"loadSave", "build", "remove", "free"} /\ AfterLoad(c) # "save"
      /\ AfterLoad(c) = "remove" => todo[c] # <<>>
      /\ AfterLoad(c) = "free" => todo[c] = <<>>
    BY DEF AfterLoad
<1>4. ASSUME clean', c \notin stale'  PROVE Works(contract, info, AfterLoad(c), call[c], net[c], todo[c], batch[c])
  <2>1. clean /\ c \notin stale
      BY <1>1, <1>4 DEF Writes
  <2>2. JustLoaded(contract, info, net[c])
      BY <1>1, <2>1 DEF CleanInv, MirrorOf, Mirror
  <2>3. Works(contract, info, "loadSave", call[c], net[c], todo[c], batch[c])
      BY <1>1, <2>1 DEF FreedInv, WorksOf
  <2>4. call[c].op = "delete" =>
          PointsOpen(net[c]) /\ Pends(contract, batch[c], todo[c]) /\ (todo[c] = <<>> => Leaves(contract, batch[c]))
      BY <2>3 DEF Works
  <2> QED BY <1>3, <2>2, <2>4, WorksLoaded
<1>5. clean' => info' = info
  <2>1. CASE clean' /\ info' # info
    <3>1. clean /\ c \notin stale
        BY <1>1, <2>1 DEF Writes
    <3>2. JustLoaded(contract, info, net[c])
        BY <1>1, <3>1 DEF CleanInv, MirrorOf, Mirror
    <3>3. net[c] \in Network /\ \A z \in DOMAIN net[c].nets : net[c].nodes[z].contract <= MaxId
        BY LocalFacts DEF Stage
    <3> QED BY <1>1, <2>1, <3>2, <3>3, EntriesLoaded
  <2> QED BY <2>1
<1>6. CASE info' = info
  <2>1. UNCHANGED <<contract, info, stale, clean>> /\ pc[c] # "save"
      BY <1>1, <1>6
  <2> QED BY <1>2, <1>3, <1>4, <2>1, FreedReads
<1>7. CASE info' # info
    BY <1>5, <1>7 DEF FreedInv
<1> QED BY <1>6, <1>7

LEMMA BuildFreed ==
    ASSUME TypeInv, CleanInv, FreedInv, NEW c \in Calls, Build(c)
    PROVE  FreedInv'
<1>1. ASSUME NEW i, NEW g, NEW new, NEW ip, Built(c, i, g, new, ip)  PROVE FreedInv'
  <2> DEFINE p == IF Len(todo[c]) = 1 THEN "handle" ELSE "build"
  <2>1. PICK x : x = i.node
      OBVIOUS
  <2>2. PICK m : m = [name |-> i.machine, ip |-> ip]
      OBVIOUS
  <2>3. PICK n : n = net'[c]
      OBVIOUS
  <2>4. PICK b : b = batch'[c]
      OBVIOUS
  <2>5. /\ pc[c] = "build" /\ GrownBy(net[c], g, new, x)
        /\ UNCHANGED <<contract, info, stale, clean>>
        /\ Now(c, p, call[c], ReserveIp(g, i.node, ip), stored[c], Tail(todo[c]),
               GrownBatch(batch[c], new, i.node, [name |-> i.machine, ip |-> ip]))
      BY <1>1, <2>1 DEF Built
  <2>6. /\ n.nets = g.nets /\ \A z \in DOMAIN g.nets \ {x} : n.nodes[z] = g.nodes[z]
        /\ n.nodes[x].ips = g.nodes[x].ips \cup {ip}
        /\ Grew(batch[c], new, x, m, b) /\ TypeInv'
      BY <1>1, <2>1, <2>2, <2>3, <2>4, BuiltFacts
  <2>7. batch[c] \in Batch /\ net[c] \in Network /\ call[c].op # "delete" /\ b \in Batch
      BY <2>4, <2>5, <2>6, LocalFacts DEF Stage, TypeInv
  <2>8. m.ip = ip /\ p \in {"handle", "build"}
      BY <2>2
  <2> HIDE DEF p
  <2>9. Now(c, p, call[c], n, stored[c], Tail(todo[c]), b)
    <3>1. /\ net'[c] = ReserveIp(g, i.node, ip)
          /\ batch'[c] = GrownBatch(batch[c], new, i.node, [name |-> i.machine, ip |-> ip])
        BY <2>5, Elsewhere
    <3> QED BY <2>3, <2>4, <2>5, <3>1
  <2>10. ASSUME clean', c \notin stale'  PROVE Works(contract, info, p, call[c], n, Tail(todo[c]), b)
    <3>1. clean /\ c \notin stale
        BY <2>5, <2>10
    <3>2. GrownInv(contract, info, net[c], batch[c]) /\ Grows(info, net[c], batch[c])
        BY <2>5, <2>7, <3>1 DEF CleanInv, MirrorOf, Mirror, FreedInv, WorksOf, Works
    <3>3. n.nodes[x].ips = g.nodes[x].ips \cup {m.ip}
        BY <2>6, <2>8
    <3>4. Grows(info, n, b)
        BY <2>5, <2>6, <2>7, <3>2, <3>3, GrowsStep
    <3> QED BY <2>7, <2>8, <3>4 DEF Works
  <2>11. p # "save" /\ pc[c] # "save"
      BY <2>5, <2>8
  <2> QED BY <2>5, <2>9, <2>10, <2>11, FreedReads
<1>2. pc[c] # "save"
    BY DEF Build
<1> QED BY <1>1, <1>2, BuildShape, ThrowFreed

\* Every element of a sequence is the first or one of the others.
LEMMA TailOnto ==
    ASSUME NEW S, NEW s \in Seq(S), s # <<>>, NEW k \in DOMAIN s
    PROVE  s[k] = Head(s) \/ \E j \in DOMAIN Tail(s) : Tail(s)[j] = s[k]
<1>1. Len(s) \in Nat /\ Len(s) # 0 /\ DOMAIN s = 1..Len(s)
    OBVIOUS
<1>2. DOMAIN Tail(s) = 1..(Len(s) - 1) /\ \A j \in 1..(Len(s) - 1) : Tail(s)[j] = s[j + 1]
    BY <1>1
<1>3. CASE k = 1
    BY <1>3
<1>4. CASE k # 1
  <2>1. k \in Nat /\ k - 1 \in 1..(Len(s) - 1) /\ (k - 1) + 1 = k
      BY <1>1, <1>4
  <2>2. Tail(s)[k - 1] = s[k]
      BY <1>2, <2>1
  <2> QED BY <1>2, <2>1, <2>2
<1> QED BY <1>3, <1>4

\* With one access node: what a deletion leaves is occupied, when its own node
\* has an address left, and so has the access node or there is another node.
OneAccess == \A a, d \in AccessNodes : a = d
LeftOpen(K, n, b) ==
    /\ K[b.id].node \in DOMAIN n.nets \ AccessNodes => n.nodes[K[b.id].node].ips # {}
    /\ \A a \in AccessNodes \cap DOMAIN n.nets : n.nodes[a].ips = {} => DOMAIN n.nets # {a}

LEMMA LeavesEnough ==
    ASSUME OneAccess, NEW K, NEW F, NEW n, NEW b, Deletion(K, F, b), ShrunkInv(K, F, n, b),
           Exact(K, F, n, b, <<>>), Taken(K, F), Occupied(K), LeftOpen(K, n, b)
    PROVE  Leaves(K, b)
<1>1. ASSUME NEW z \in DOMAIN n.nets, n.nodes[z].ips # {}
      PROVE  Busies(K, b, z)
  <2>1. PICK ip \in n.nodes[z].ips : TRUE
      BY <1>1
  <2>2. PICK j \in OnChain(K) \ b.delete : K[j].node = z /\ \E m \in Remaining(K, b, j) : m.ip = ip
      BY IpStays
  <2> QED BY <2>2 DEF Busies
<1>2. ASSUME NEW i \in NetIn(K) \ b.delete
      PROVE  K[i].node \in DOMAIN n.nets
  <2>1. K[i].node \in DOMAIN F /\ F[K[i].node].contract = i
      BY DEF Deletion, FileInv
  <2> QED BY <2>1 DEF ShrunkInv
<1>3. ASSUME NEW i \in NetIn(K) \ b.delete, K[i].node \notin AccessNodes
      PROVE  Busies(K, b, K[i].node)
  <2>1. CASE K[i].node = K[b.id].node
    <3>1. K[i].node \in DOMAIN n.nets
        BY <1>2
    <3>2. n.nodes[K[i].node].ips # {}
        BY <1>3, <2>1, <3>1 DEF LeftOpen
    <3> QED BY <1>1, <3>1, <3>2
  <2>2. CASE K[i].node # K[b.id].node
    <3>1. PICK j \in OnChain(K) : K[j].node = K[i].node /\ K[j].machines # {}
        BY <1>3 DEF Occupied, BusyOn
    <3>2. j # b.id /\ j \notin b.delete
        BY <2>2, <3>1 DEF ShrunkInv
    <3>3. Remaining(K, b, j) # {}
        BY <3>1, <3>2 DEF Remaining
    <3> QED BY <3>1, <3>2, <3>3 DEF Busies
  <2> QED BY <2>1, <2>2
<1>4. ASSUME NEW i \in NetIn(K) \ b.delete
      PROVE  \E z : Busies(K, b, z)
  <2>1. PICK a : a = K[i].node
      OBVIOUS
  <2>2. a \in DOMAIN n.nets
      BY <1>2, <2>1
  <2>3. CASE a \notin AccessNodes
      BY <1>3, <2>1, <2>3
  <2>4. CASE n.nodes[a].ips # {}
      BY <1>1, <2>2, <2>4
  <2>5. CASE a \in AccessNodes /\ n.nodes[a].ips = {}
    <3>1. DOMAIN n.nets # {a}
        BY <2>2, <2>5 DEF LeftOpen
    <3>2. PICK y \in DOMAIN n.nets : y # a
        BY <2>2, <3>1
    <3>3. y \notin AccessNodes
        BY <2>5, <3>2 DEF OneAccess
    <3>4. y \in DOMAIN F
        BY DEF ShrunkInv
    <3>5. F[y].contract \in NetIn(K) /\ K[F[y].contract].node = y
        BY <3>4, FileFacts DEF Deletion
    <3>6. F[y].contract \notin b.delete
        BY <3>5 DEF ShrunkInv, NetIn
    <3> QED BY <1>3, <3>3, <3>5, <3>6
  <2> QED BY <2>3, <2>4, <2>5
<1>5. NetIn(K) \ b.delete # {} => \E j \in OnChain(K) \ b.delete : Remaining(K, b, j) # {}
    BY <1>4 DEF Busies
<1> QED BY <1>3, <1>5 DEF Leaves

\* The node leaves, or the last one; the access points are what they were.
LEMMA GonePoints ==
    ASSUME NEW n \in Network, NEW x, NEW o, o = Gone(n, x)
    PROVE  o.points = n.points
<1>1. CASE Exists
  <2>1. o = [n EXCEPT !.nets = Except(n.nets, {x}), !.nodes = Except(n.nodes, {x})]
      BY <1>1 DEF Gone, DeleteNode
  <2> QED BY <2>1 DEF Network
<1>2. CASE ~Exists
    BY <1>2 DEF Gone
<1> QED BY <1>1, <1>2

\* A Network object that has lost nodes.
Within(o, n) ==
    /\ o.points = n.points /\ DOMAIN o.nets \subseteq DOMAIN n.nets
    /\ \A z \in DOMAIN o.nets : o.nodes[z].ips = n.nodes[z].ips

\* What remains after a machine.
LEMMA RemoveWithin ==
    ASSUME TypeInv, NEW c \in Calls, pc[c] = "remove",
           Removal("remove", net[c], stored[c], todo[c], batch[c])
    PROVE  /\ Within(AfterRemove(c).net, FreedNet(c))
           /\ Stays(c) => /\ AfterRemove(c).net = FreedNet(c)
                          /\ AfterRemove(c).batch.ips = batch[c].ips \cup {Head(todo[c]).ip}
           /\ ~Stays(c) =>
                /\ Home(c) \notin DOMAIN AfterRemove(c).net.nets
                /\ \A a : AfterRemove(c).net.nodes[a].ips = {} => DOMAIN AfterRemove(c).net.nets # {a}
<1>1. PICK n : n = FreedNet(c)
    OBVIOUS
<1>2. n \in Network
    BY <1>1, PartsFacts DEF Shrunk
<1>3. CASE Stays(c)
  <2>1. AfterRemove(c) = [net |-> FreedNet(c), batch |-> StayBatch(c)]
      BY <1>3 DEF AfterRemove
  <2>2. AfterRemove(c).net = n /\ AfterRemove(c).batch = StayBatch(c)
      BY <1>1, <2>1
  <2>3. Within(n, n)
      BY DEF Within
  <2> QED BY <1>1, <1>3, <2>2, <2>3, StayBatchFacts
<1>4. CASE ~Stays(c)
  <2>1. PICK l : l = LeftNet(c)
      OBVIOUS
  <2>2. PICK at : at = Left(c)
      OBVIOUS
  <2>3. PICK o : o = AfterRemove(c)
      OBVIOUS
  <2>4. at.net = l /\ o = LeaveLast(c, at) /\ l = Gone(n, Home(c))
      BY <1>1, <1>4, <2>1, <2>2, <2>3 DEF AfterRemove, Left, LeftNet
  <2>5. /\ l \in Network /\ Within(l, n)
        /\ DOMAIN l.nets = IF Exists THEN DOMAIN n.nets \ {Home(c)} ELSE DOMAIN n.nets
    <3>1. PICK x : x = Home(c)
        OBVIOUS
    <3>2. l = Gone(n, x)
        BY <2>4, <3>1
    <3>3. Shrunk(n, l) /\ \A z \in DOMAIN l.nets : l.nodes[z] = n.nodes[z]
        BY <1>2, <3>2, GoneFacts
    <3>4. DOMAIN l.nets = IF Exists THEN DOMAIN n.nets \ {x} ELSE DOMAIN n.nets
        BY <1>2, <3>2, GoneFacts
    <3>5. l.points = n.points
        BY <1>2, <3>2, GonePoints
    <3>6. Within(l, n)
        BY <3>3, <3>4, <3>5 DEF Within
    <3> QED BY <3>1, <3>3, <3>4, <3>6 DEF Shrunk
  <2>6. Exists
    <3>1. Home(c) \in DOMAIN info
      <4>1. Home(c) \in DOMAIN n.nets /\ ShrunkInv(contract, info, n, Emptied(c))
          BY <1>1, FreedFacts
      <4> QED BY <4>1 DEF ShrunkInv
    <3> QED BY <3>1, PartialEmpty DEF Exists
  <2>7. Home(c) \notin DOMAIN l.nets
      BY <2>5, <2>6
  <2>8. CASE Unused(l) = {} /\ o = at
    <3>1. ASSUME NEW a, l.nodes[a].ips = {}, DOMAIN l.nets = {a}  PROVE FALSE
      <4>1. DOMAIN l.nodes = {a}
          BY <2>5, <3>1, NetworkFacts
      <4>2. Cardinality(DOMAIN l.nodes) = 1 /\ Ips(l, a) = {} /\ a \in DOMAIN l.nodes
          BY <3>1, <4>1, FS_Singleton DEF Ips
      <4>3. a \in Unused(l)
          BY <4>2 DEF Unused
      <4> QED BY <2>8, <4>3
    <3> QED BY <1>1, <1>4, <2>3, <2>4, <2>5, <2>7, <2>8, <3>1
  <2>9. ASSUME NEW y \in Unused(l), o.net = Gone(l, y)
        PROVE  Within(o.net, n) /\ DOMAIN o.net.nets = {}
    <3>1. PICK e : e = o.net
        OBVIOUS
    <3>2. Within(e, l) /\ DOMAIN e.nets = DOMAIN l.nets \ {y}
        BY <2>5, <2>6, <2>9, <3>1, GoneFacts, GonePoints DEF Within, Shrunk
    <3>3. DOMAIN l.nets = DOMAIN l.nodes /\ IsFiniteSet(DOMAIN l.nets)
        BY <2>5, NetworkFacts
    <3>4. y \in DOMAIN l.nets /\ Cardinality(DOMAIN l.nets) = 1
        BY <3>3 DEF Unused
    <3>5. DOMAIN l.nets = {y}
        BY <3>3, <3>4, FS_Singleton
    <3> QED BY <2>5, <3>1, <3>2, <3>5 DEF Within
  <2>10. (Unused(l) = {} /\ o = at) \/ \E y \in Unused(l) : o.net = Gone(l, y)
      BY <2>4, LeaveLastFacts
  <2>11. CASE \E y \in Unused(l) : o.net = Gone(l, y)
    <3>1. Within(o.net, n) /\ DOMAIN o.net.nets = {}
        BY <2>9, <2>11
    <3>2. \A a : DOMAIN o.net.nets # {a}
        BY <3>1
    <3> QED BY <1>1, <1>4, <2>3, <3>1, <3>2
  <2> QED BY <2>8, <2>10, <2>11
<1> QED BY <1>3, <1>4

\* Remove, and what a deletion works with.
LEMMA RemoveWorks ==
    ASSUME OneAccess, TypeInv, NEW c \in Calls, pc[c] = "remove",
           Removal("remove", net[c], stored[c], todo[c], batch[c]),
           Occupied(contract), Taken(contract, info), PointsOpen(net[c]),
           Collects(contract, net[c], batch[c], todo[c]),
           Exact(contract, info, net[c], batch[c], todo[c])
    PROVE  LET n == AfterRemove(c).net
               b == AfterRemove(c).batch
               t == Tail(todo[c])
           IN /\ PointsOpen(n) /\ Collects(contract, n, b, t) /\ Exact(contract, info, n, b, t)
              /\ t = <<>> => Leaves(contract, b)
<1>1. PICK g : g = FreedNet(c)
    OBVIOUS
<1>2. PICK n : n = AfterRemove(c).net
    OBVIOUS
<1>3. PICK b : b = AfterRemove(c).batch
    OBVIOUS
<1>4. PICK t : t = Tail(todo[c])
    OBVIOUS
<1>5. PICK m : m = Head(todo[c])
    OBVIOUS
<1>6. PICK x : x = Home(c)
    OBVIOUS
<1>7. /\ Within(n, g)
      /\ Stays(c) => n = g /\ b.ips = batch[c].ips \cup {m.ip}
      /\ ~Stays(c) => /\ x \notin DOMAIN n.nets
                      /\ \A a : n.nodes[a].ips = {} => DOMAIN n.nets # {a}
    BY <1>1, <1>2, <1>3, <1>5, <1>6, RemoveWithin
<1>8. /\ g \in Network /\ DOMAIN g.nets = DOMAIN net[c].nets /\ g.points = net[c].points
      /\ \A z \in DOMAIN net[c].nets : z # x => g.nodes[z] = net[c].nodes[z]
      /\ x \in DOMAIN net[c].nets => g.nodes[x].ips = net[c].nodes[x].ips \ {m.ip}
    BY <1>1, <1>5, <1>6, PartsFacts DEF Shrunk
<1>9. b.id = batch[c].id /\ b.rest = batch[c].rest
    BY <1>3, RemovedFacts DEF Trimmed
<1>10. x = contract[b.id].node /\ Going(contract, b) = Going(contract, batch[c])
    BY <1>6, <1>9 DEF Home, Going
<1>11. \A k \in DOMAIN todo[c] : todo[c][k] = m \/ \E j \in DOMAIN t : t[j] = todo[c][k]
  <2>1. todo[c] \in Seq(Machine) /\ todo[c] # <<>>
      BY LocalFacts DEF Stage
  <2> QED BY <1>4, <1>5, <2>1, TailOnto
<1>12. PointsOpen(n)
    BY <1>7, <1>8 DEF PointsOpen, Within
<1>13. ASSUME NEW z \in DOMAIN n.nets
       PROVE  /\ n.nodes[z].ips \subseteq info[z].ips
              /\ z = x => \A q \in Going(contract, b) : q.ip \in n.nodes[z].ips => \E j \in DOMAIN t : t[j] = q
  <2>1. z \in DOMAIN net[c].nets /\ n.nodes[z].ips = g.nodes[z].ips
      BY <1>7, <1>8 DEF Within
  <2>2. n.nodes[z].ips \subseteq net[c].nodes[z].ips /\ (z = x => m.ip \notin n.nodes[z].ips)
    <3>1. CASE z = x
        BY <1>8, <2>1, <3>1
    <3>2. CASE z # x
        BY <1>8, <2>1, <3>2
    <3> QED BY <3>1, <3>2
  <2>3. ASSUME z = x, NEW q \in Going(contract, b), q.ip \in n.nodes[z].ips
        PROVE  \E j \in DOMAIN t : t[j] = q
    <3>1. q.ip \in net[c].nodes[z].ips /\ q # m
        BY <2>2, <2>3
    <3>2. PICK k \in DOMAIN todo[c] : todo[c][k] = q
        BY <1>9, <1>10, <2>1, <2>3, <3>1 DEF Exact
    <3> QED BY <1>11, <3>1, <3>2
  <2> QED BY <2>1, <2>2, <2>3 DEF Exact
<1>14. Exact(contract, info, n, b, t)
    BY <1>10, <1>13 DEF Exact
<1>15. Collects(contract, n, b, t)
  <2>1. ASSUME x \in DOMAIN n.nets, NEW q \in Going(contract, b)
        PROVE  q.ip \in b.ips \/ \E j \in DOMAIN t : t[j] = q
    <3>1. b.ips = batch[c].ips \cup {m.ip} /\ x \in DOMAIN net[c].nets
        BY <1>7, <1>8, <2>1
    <3>2. q.ip \in batch[c].ips \/ \E k \in DOMAIN todo[c] : todo[c][k] = q
        BY <1>9, <1>10, <2>1, <3>1 DEF Collects
    <3> QED BY <1>11, <3>1, <3>2
  <2> QED BY <1>10, <2>1 DEF Collects
<1>16. LeftOpen(contract, n, b)
  <2>1. CASE Stays(c)
    <3>1. /\ n = g /\ DOMAIN g.nodes = DOMAIN g.nets /\ x \in DOMAIN g.nets
      <4>1. x \in DOMAIN g.nets
          BY <1>1, <1>6, FreedFacts
      <4> QED BY <1>7, <1>8, <2>1, <4>1, NetworkFacts
    <3>2. Ips(g, x) = g.nodes[x].ips
        BY <3>1 DEF Ips
    <3>3. g.nodes[x].ips # {} \/ (HasAccessPoint(g, x) /\ Cardinality(DOMAIN g.nets) # 1)
        BY <1>1, <1>6, <2>1, <3>1, <3>2 DEF Stays
    <3>4. HasAccessPoint(g, x) => x \in AccessNodes
        BY <1>12, <3>1 DEF HasAccessPoint, PointsOpen
    <3>5. ASSUME NEW a, DOMAIN g.nets = {a}  PROVE a = x /\ Cardinality(DOMAIN g.nets) = 1
      <4>1. Cardinality({a}) = 1
          BY FS_Singleton
      <4> QED BY <3>1, <3>5, <4>1
    <3> QED BY <1>10, <3>1, <3>3, <3>4, <3>5 DEF LeftOpen
  <2>2. CASE ~Stays(c)
      BY <1>7, <1>10, <2>2 DEF LeftOpen
  <2> QED BY <2>1, <2>2
<1>17. ASSUME t = <<>>  PROVE Leaves(contract, b)
  <2>1. Removal(Label(c), n, stored[c], t, b)
      BY <1>2, <1>3, <1>4, RemoveData
  <2>2. Deletion(contract, info, b) /\ ShrunkInv(contract, info, n, b)
      BY <2>1 DEF Removal
  <2>3. Exact(contract, info, n, b, <<>>)
      BY <1>14, <1>17
  <2> QED BY <1>16, <2>2, <2>3, LeavesEnough
<1> QED BY <1>2, <1>3, <1>4, <1>12, <1>14, <1>15, <1>17

\* A step of a deletion that writes nothing.
LEMMA DeletesFreed ==
    ASSUME TypeInv, CleanInv, FreedInv, NEW c \in Calls, pc[c] \in {"remove", "rest", "free"},
           NEW p \in {"remove", "rest", "load", "handle"}, NEW n, NEW t, NEW b,
           Now(c, p, call[c], n, stored[c], t, b), UNCHANGED <<contract, info, stale, clean>>,
           ASSUME clean, c \notin stale, call[c].op = "delete", WorksOf(c), Quiet, Taken(contract, info),
                  Occupied(contract), Removal(pc[c], net[c], stored[c], todo[c], batch[c])
           PROVE  Works(contract, info, p, call[c], n, t, b)
    PROVE  FreedInv'
<1>1. ASSUME clean', c \notin stale'  PROVE Works(contract, info, p, call[c], n, t, b)
  <2>1. clean /\ c \notin stale
      BY <1>1
  <2>2. call[c].op = "delete"
      BY LocalFacts DEF Stage
  <2>3. Quiet
    <3>1. \A d \in Calls \ {c} : pc[d] # "save"
        BY <2>1, QuietFacts
    <3> QED BY <3>1 DEF Quiet
  <2>4. Taken(contract, info) /\ Occupied(contract) /\ WorksOf(c)
      BY <2>1, <2>3 DEF FreedInv
  <2>5. Removal(pc[c], net[c], stored[c], todo[c], batch[c])
      BY <2>1, <2>2, RemovalFacts
  <2> QED BY <2>1, <2>2, <2>3, <2>4, <2>5
<1>2. clean' => clean /\ pc[c] # "save" /\ UNCHANGED <<contract, info>>
    OBVIOUS
<1>3. \A d \in Calls \ {c} : d \in stale' <=> d \in stale
    OBVIOUS
<1>4. p # "save"
    OBVIOUS
<1> QED BY <1>1, <1>2, <1>3, <1>4, FreedReads

LEMMA RemoveFreed ==
    ASSUME OneAccess, TypeInv, CleanInv, FreedInv, NEW c \in Calls, Remove(c)
    PROVE  FreedInv'
<1>1. /\ pc[c] = "remove" /\ UNCHANGED <<contract, info, stale, clean>>
      /\ Now(c, Label(c), call[c], AfterRemove(c).net, stored[c], Tail(todo[c]), AfterRemove(c).batch)
    BY RemoveShape
<1>2. Label(c) \in {"remove", "rest"}
    BY DEF Label
<1>3. ASSUME clean, c \notin stale, call[c].op = "delete", WorksOf(c), Quiet, Taken(contract, info),
             Occupied(contract), Removal(pc[c], net[c], stored[c], todo[c], batch[c])
      PROVE  Works(contract, info, Label(c), call[c], AfterRemove(c).net, Tail(todo[c]), AfterRemove(c).batch)
  <2>1. Removal("remove", net[c], stored[c], todo[c], batch[c])
      BY <1>1, <1>3
  <2>2. /\ PointsOpen(net[c]) /\ Collects(contract, net[c], batch[c], todo[c])
        /\ Exact(contract, info, net[c], batch[c], todo[c])
      BY <1>1, <1>3 DEF WorksOf, Works
  <2>3. PICK n : n = AfterRemove(c).net
      OBVIOUS
  <2>4. PICK b : b = AfterRemove(c).batch
      OBVIOUS
  <2>5. PICK t : t = Tail(todo[c])
      OBVIOUS
  <2>6. /\ PointsOpen(n) /\ Collects(contract, n, b, t) /\ Exact(contract, info, n, b, t)
        /\ t = <<>> => Leaves(contract, b)
      BY <1>1, <1>3, <2>1, <2>2, <2>3, <2>4, <2>5, RemoveWorks
  <2>7. Label(c) = "rest" => t = <<>>
      BY <1>1, <2>1, <2>5, HeadFacts
  <2>8. Works(contract, info, Label(c), call[c], n, t, b)
      BY <1>2, <1>3, <2>6, <2>7 DEF Works
  <2> QED BY <2>3, <2>4, <2>5, <2>8
<1>4. pc[c] \in {"remove", "rest", "free"} /\ Label(c) \in {"remove", "rest", "load", "handle"}
    BY <1>1, <1>2
<1> QED BY <1>1, <1>3, <1>4, DeletesFreed

\* What goes on to be updated: all of the addresses that go are in the batch.
LEMMA AllCollected ==
    ASSUME NEW K, NEW F, NEW n, NEW b, Deletion(K, F, b), ShrunkInv(K, F, n, b),
           Collects(K, n, b, <<>>), b.subnet # 0, b.delete = {}
    PROVE  Pends(K, b, <<>>)
<1>1. b.id \in NetIn(K)
    BY DEF Deletion, ShrunkInv, NetIn
<1>2. K[b.id].node \in DOMAIN F
    BY <1>1 DEF Deletion, FileInv
<1>3. K[b.id].node \in DOMAIN n.nets
    BY <1>2 DEF ShrunkInv
<1>4. \A m \in Going(K, b) : m.ip \in b.ips
  <2>1. ASSUME NEW m \in Going(K, b)  PROVE m.ip \in b.ips \/ \E k \in DOMAIN <<>> : <<>>[k] = m
      BY <1>3 DEF Collects
  <2>2. DOMAIN <<>> = {}
      OBVIOUS
  <2> QED BY <2>1, <2>2
<1> QED BY <1>4 DEF Pends

LEMMA RestFreed ==
    ASSUME TypeInv, CleanInv, FreedInv, NEW c \in Calls, Rest(c)
    PROVE  FreedInv'
<1>1. pc[c] = "rest"
    BY RestTypes
<1>2. CASE Throw(c)
    BY <1>1, <1>2, ThrowFreed
<1>3. ASSUME NEW p \in {"load", "handle"}, Now(c, p, call[c], net[c], stored[c], todo[c], batch[c]),
             p = "load" <=> (batch[c].subnet # 0 /\ batch[c].delete \cup batch[c].strip = {}),
             UNCHANGED <<contract, info, stale, clean>>
      PROVE  FreedInv'
  <2>1. ASSUME clean, c \notin stale, call[c].op = "delete", WorksOf(c), Quiet, Taken(contract, info),
               Occupied(contract), Removal(pc[c], net[c], stored[c], todo[c], batch[c])
        PROVE  Works(contract, info, p, call[c], net[c], todo[c], batch[c])
    <3>1. /\ Deletion(contract, info, batch[c]) /\ ShrunkInv(contract, info, net[c], batch[c])
          /\ todo[c] = <<>>
        BY <1>1, <2>1 DEF Removal, DeletesInv
    <3>2. /\ Collects(contract, net[c], batch[c], todo[c]) /\ Leaves(contract, batch[c])
          /\ Exact(contract, info, net[c], batch[c], todo[c])
        BY <1>1, <2>1 DEF WorksOf, Works
    <3>3. p = "load" => Pends(contract, batch[c], todo[c])
      <4>1. ASSUME p = "load"  PROVE Pends(contract, batch[c], <<>>)
        <5>1. batch[c].subnet # 0 /\ batch[c].delete = {}
            BY <1>3, <4>1
        <5>2. Collects(contract, net[c], batch[c], <<>>)
            BY <3>1, <3>2
        <5> QED BY <3>1, <5>1, <5>2, AllCollected
      <4> QED BY <3>1, <4>1
    <3> QED BY <1>3, <2>1, <3>2, <3>3 DEF Works
  <2>2. pc[c] \in {"remove", "rest", "free"} /\ p \in {"remove", "rest", "load", "handle"}
      BY <1>1, <1>3
  <2> QED BY <1>3, <2>1, <2>2, DeletesFreed
<1> QED BY <1>2, <1>3, RestTypes

LEMMA FreeIpsFreed ==
    ASSUME TypeInv, CleanInv, FreedInv, NEW c \in Calls, FreeIps(c)
    PROVE  FreedInv'
<1>1. PICK o : o = WithoutIps(net[c], Home(c), batch[c].ips)
    OBVIOUS
<1>2. /\ pc[c] = "free" /\ UNCHANGED <<contract, info, stale, clean>>
      /\ Now(c, "handle", call[c], o, stored[c], todo[c], batch[c])
    BY <1>1, FreeIpsTypes
<1>3. ASSUME clean, c \notin stale, call[c].op = "delete", WorksOf(c), Quiet, Taken(contract, info),
             Occupied(contract), Removal(pc[c], net[c], stored[c], todo[c], batch[c])
      PROVE  Works(contract, info, "handle", call[c], o, todo[c], batch[c])
  <2>1. PICK n \in Network : n = net[c]
      BY LocalFacts
  <2>2. PICK b : b = batch[c]
      OBVIOUS
  <2>3. PICK x : x = Home(c)
      OBVIOUS
  <2>4. PICK S : S = b.ips
      OBVIOUS
  <2>5. o = WithoutIps(n, x, S)
      BY <1>1, <2>1, <2>2, <2>3, <2>4
  <2>6. /\ o.nets = n.nets /\ \A z \in DOMAIN n.nets : z # x => o.nodes[z] = n.nodes[z]
        /\ x \in DOMAIN n.nets => o.nodes[x].ips = n.nodes[x].ips \ S
      BY <2>5, WithoutIpsFacts
  <2>7. /\ Pends(contract, b, todo[c]) /\ Leaves(contract, b)
        /\ \A z \in DOMAIN n.nets : n.nodes[z].ips \subseteq info[z].ips
      BY <1>2, <1>3, <2>1, <2>2 DEF WorksOf, Works
  <2>8. todo[c] = <<>>
      BY <1>2, <1>3 DEF Removal, DeletesInv
  <2>9. \A m \in Going(contract, b) : m.ip \in S
      BY <2>4, <2>7, <2>8 DEF Pends
  <2>10. x = contract[b.id].node
      BY <2>2, <2>3 DEF Home
  <2>11. ASSUME NEW z \in DOMAIN o.nets
         PROVE  /\ o.nodes[z].ips \subseteq info[z].ips
                /\ z = x => \A m \in Going(contract, b) : m.ip \notin o.nodes[z].ips
    <3>1. z \in DOMAIN n.nets
        BY <2>6
    <3>2. CASE z = x
      <4>1. o.nodes[z].ips = n.nodes[z].ips \ S
          BY <2>6, <3>1, <3>2
      <4> QED BY <2>7, <2>9, <3>1, <4>1
    <3>3. CASE z # x
        BY <2>6, <2>7, <3>1, <3>3
    <3> QED BY <3>2, <3>3
  <2>12. Exact(contract, info, o, b, todo[c])
      BY <2>10, <2>11 DEF Exact
  <2> QED BY <1>3, <2>2, <2>7, <2>12 DEF Works
<1>4. pc[c] \in {"remove", "rest", "free"} /\ "handle" \in {"remove", "rest", "load", "handle"}
    BY <1>2
<1> QED BY <1>2, <1>3, <1>4, DeletesFreed

LEMMA HandleFreed ==
    ASSUME TypeInv, CleanInv, FreedInv, NEW c \in Calls, Handle(c)
    PROVE  FreedInv'
<1>1. /\ pc[c] = "handle" /\ Writes(c) /\ info' = info
      /\ \E ids \in ContractIds(c) :
           /\ contract' = [id \in Ids |-> AfterCall(c, ids, id)]
           /\ Now(c, "save", call[c], WithContracts(net[c], ids), stored[c], todo[c], batch[c])
    BY HandleTypes
<1>2. PICK ids \in ContractIds(c) :
           /\ contract' = [id \in Ids |-> AfterCall(c, ids, id)]
           /\ Now(c, "save", call[c], WithContracts(net[c], ids), stored[c], todo[c], batch[c])
    BY <1>1
<1>3. PICK o : o = WithContracts(net[c], ids)
    OBVIOUS
<1>4. Now(c, "save", call[c], o, stored[c], todo[c], batch[c])
    BY <1>2, <1>3
<1>5. Handled(c, ids, contract')
    BY <1>2 DEF Handled
<1>6. ASSUME clean, c \notin stale
      PROVE  Occupied(contract') /\ Taken(contract', Entries(o))
  <2>1. Saves(net[c], ids, Entries(o))
      BY <1>1, <1>3, HandleSaves
  <2>2. PICK L : L = contract'
      OBVIOUS
  <2>3. PICK E : E = Entries(o)
      OBVIOUS
  <2>4. PICK n : n = net[c]
      OBVIOUS
  <2>5. PICK b : b = batch[c]
      OBVIOUS
  <2>6. Handled(c, ids, L) /\ Saves(n, ids, E)
      BY <1>5, <2>1, <2>2, <2>3, <2>4
  <2>7. Quiet
    <3>1. \A d \in Calls \ {c} : pc[d] # "save"
        BY <1>1, <1>6, QuietFacts
    <3> QED BY <1>1, <3>1 DEF Quiet
  <2>8. Occupied(contract) /\ Taken(contract, info) /\ WorksOf(c)
      BY <1>6, <2>7 DEF FreedInv
  <2>9. CASE call[c].op = "delete"
    <3>1. Removal("handle", net[c], stored[c], todo[c], batch[c])
        BY <1>1, <1>6, <2>9, RemovalFacts
    <3>2. DOMAIN ids = {} /\ Deleted(contract, b, L)
        BY <1>1, <2>5, <2>6, <2>9, <3>1, HandleDeletion
    <3>3. Deletion(contract, info, b) /\ ShrunkInv(contract, info, n, b) /\ todo[c] = <<>>
        BY <2>4, <2>5, <3>1 DEF Removal, DeletesInv
    <3>4. Exact(contract, info, n, b, todo[c]) /\ Leaves(contract, b)
        BY <1>1, <2>4, <2>5, <2>8, <2>9 DEF WorksOf, Works
    <3>5. Exact(contract, info, n, b, <<>>)
        BY <3>3, <3>4
    <3>6. Occupied(L) /\ Taken(L, E)
        BY <2>6, <2>8, <3>2, <3>3, <3>4, <3>5, DeletionOccupied
    <3> QED BY <2>2, <2>3, <3>6
  <2>10. CASE call[c].op # "delete"
    <3>1. DataInv(contract) /\ FileInv(contract, info) /\ MirrorOf(c)
        BY <1>6, <2>7 DEF CleanInv
    <3>2. GrownInv(contract, info, net[c], batch[c]) /\ Stores(contract, stored[c])
        BY <1>1, <2>10, <3>1 DEF MirrorOf, Mirror
    <3>3. CreationOf(contract, n, b, ids, L)
        BY <1>1, <2>4, <2>5, <2>6, <3>1, <3>2, HandleCreation
    <3>4. GrownInv(contract, info, n, b)
        BY <2>4, <2>5, <3>2
    <3>5. Grows(info, n, b)
        BY <1>1, <2>4, <2>5, <2>8, <2>10 DEF WorksOf, Works
    <3>6. Occupied(L) /\ Taken(L, E)
        BY <2>6, <2>8, <3>1, <3>3, <3>4, <3>5, CreationOccupied
    <3> QED BY <2>2, <2>3, <3>6
  <2> QED BY <2>9, <2>10
<1>7. clean' => clean /\ c \notin stale
    BY <1>1 DEF Writes
<1>8. ~Quiet'
  <2>1. pc'[c] = "save"
      BY <1>4, Elsewhere
  <2> QED BY <2>1 DEF Quiet
<1>9. Works(contract', info', "save", call[c], o, todo[c], batch[c])
    BY DEF Works
<1>10. ASSUME clean', NEW d \in Calls \ {c}
       PROVE  pc[d] # "save" /\ (d \notin stale' => pc[d] = "idle")
  <2>1. stale' = (stale \ {c}) \cup {e \in Calls \ {c} : pc[e] # "idle"}
      BY <1>1 DEF Writes
  <2>2. pc[d] # "save"
      BY <1>1, <1>7, <1>10, QuietFacts
  <2> QED BY <1>10, <2>1, <2>2
<1> QED BY <1>4, <1>6, <1>7, <1>8, <1>9, <1>10, FreedMove

LEMMA SaveFreed ==
    ASSUME TypeInv, CleanInv, FreedInv, NEW c \in Calls, Save(c)
    PROVE  FreedInv'
<1>1. /\ pc[c] = "save" /\ info' = Entries(net[c]) /\ Writes(c) /\ contract' = contract
      /\ Now(c, "idle", NoRequest, EmptyNetwork, <<>>, <<>>, NoBatch)
    BY SaveTypes
<1>2. stale' = (stale \ {c}) \cup {d \in Calls \ {c} : pc[d] # "idle"} /\ (clean' => clean)
    BY <1>1 DEF Writes
<1>3. clean' => clean /\ Occupied(contract') /\ Taken(contract', info')
    BY <1>1, <1>2 DEF FreedInv
<1>4. Works(contract', info', "idle", NoRequest, EmptyNetwork, <<>>, NoBatch)
    BY DEF Works
<1>5. \A d \in Calls \ {c} : d \notin stale' => pc[d] = "idle"
    BY <1>2
<1> QED BY <1>1, <1>3, <1>4, <1>5, FreedMove

LEMMA FreedStep ==
    ASSUME OneAccess, TypeInv, CleanInv, RouteInv, FreedInv, [Next]_vars
    PROVE  FreedInv'
<1>1. ASSUME NEW c \in Calls, Step(c) \/ Crash(c)  PROVE FreedInv'
    BY <1>1, BeginFreed, LoadFreed, LoadSaveFreed, BuildFreed, RemoveFreed, RestFreed, FreeIpsFreed,
       HandleFreed, SaveFreed, EndFreed DEF Step
<1>2. ASSUME NEW id \in Ids, Cancel(id)  PROVE FreedInv'
  <2>1. ~clean'
      BY <1>2 DEF Cancel
  <2> QED BY <2>1 DEF FreedInv
<1>3. CASE UNCHANGED vars
  <2>1. UNCHANGED <<contract, info, pc, call, net, todo, batch, stale, clean>>
      BY <1>3 DEF vars, local
  <2> QED BY <2>1 DEF FreedInv, Quiet, WorksOf
<1> QED BY <1>1, <1>2, <1>3 DEF Next

LEMMA InitFreed == Init => FreedInv
<1> SUFFICES ASSUME Init  PROVE FreedInv
    OBVIOUS
<1>1. /\ contract = [id \in Ids |-> NoContract] /\ info = <<>> /\ \A c \in Calls : pc[c] = "idle"
    BY DEF Init
<1>2. NetIn(contract) = {}
    BY <1>1 DEF NetIn, OnChain, NoContract
<1>3. DOMAIN info = {}
    BY <1>1
<1>4. Occupied(contract) /\ Taken(contract, info)
    BY <1>2, <1>3 DEF Occupied, Taken
<1>5. \A c \in Calls : pc[c] # "save" /\ WorksOf(c)
    BY <1>1 DEF WorksOf, Works
<1> QED BY <1>4, <1>5 DEF FreedInv

\* In a network with one access node, the last machine that is deleted takes
\* along all of the network: the contracts of its network workloads and the
\* entries of info.json (NetworkFreed; the deletion of machine after machine by
\* _delete of highlevel/base.ts, deleteNode and save of network.ts).
THEOREM NetworkGoes == ASSUME OneAccess PROVE Spec => []NetworkFreed
<1>1. FreedInv /\ CleanInv /\ TypeInv => NetworkFreed
  <2> SUFFICES ASSUME FreedInv, CleanInv, TypeInv, clean, Deployed = {}, Quiet
               PROVE  InNetwork = {} /\ info = <<>>
      BY DEF NetworkFreed, Quiet
  <2>1. InNetwork = NetIn(contract) /\ FileInv(contract, info) /\ Occupied(contract)
      BY DEF CleanInv, FreedInv, InNetwork, NetIn, OnChain, Live
  <2>2. \A j \in OnChain(contract) : contract[j].machines = {}
    <3>1. ASSUME NEW j \in OnChain(contract), NEW m \in contract[j].machines  PROVE FALSE
      <4>1. [id |-> j, name |-> m.name, ip |-> m.ip] \in Deployed
          BY <3>1 DEF Deployed, OnChain, Live
      <4> QED BY <4>1
    <3> QED BY <3>1
  <2>3. NetIn(contract) = {}
      BY <2>1, <2>2 DEF Occupied
  <2>4. DOMAIN info = {}
      BY <2>1, <2>3 DEF FileInv
  <2>5. info = <<>>
    <3>1. info \in [{} -> InfoEntry] /\ <<>> \in [{} -> InfoEntry]
        BY <2>4, PartialFacts DEF TypeInv
    <3> QED BY <3>1
  <2> QED BY <2>1, <2>3, <2>5
<1>2. TypeInv /\ CleanInv /\ RouteInv /\ FreedInv /\ [Next]_vars => FreedInv'
    BY FreedStep
<1> QED BY <1>1, <1>2, InitFreed, Types, Mirrors, Wirings, PTL DEF Spec
=============================================================================
