--------------------------- MODULE PrivateNetwork ---------------------------
(***************************************************************************)
(* One private network, the deployments whose machines are in it, and its  *)
(* info.json.  What a network is, is spread over the network workloads of  *)
(* the deployments (a node's network workload is part of the deployment    *)
(* that came to the node first), the machines with their addresses, and    *)
(* info.json, which says which contract has the network workload of a node *)
(* and which addresses are taken.  A call loads all of it into a Network   *)
(* object, changes that, hands the workloads to handle() and saves.        *)
(*                                                                         *)
(* handle() is one step: TwinDeploymentHandler models it.  The saves of a  *)
(* batch are one step, with the state of the last.                         *)
(***************************************************************************)
EXTENDS NetworkPeers, Sequences

CONSTANTS
    Calls,         \* what may run at the same time; each runs call after call
    Names,         \* of deployments
    Machines,
    MaxId,         \* bound: contracts that are ever created
    Requests,
    Beside,        \* bound: the requests that may begin while a call is under way
    Faults         \* "rmb", "deploy", "crash", "cancel": what may go wrong

Ids == 1..MaxId
AnyIp == [subnet |-> 0, host |-> 0]

\* What deploy and add_machine are asked to create.
Item == [machine : Machines, node : Nodes, ip : [subnet : Nat, host : Nat]]
Request == [op : {"deploy", "add", "delete"}, name : Names, items : Seq(Item),
            access : BOOLEAN, machines : SUBSET Machines]

ASSUME NetworkAssumption == MaxId \in Nat /\ Beside \subseteq Requests /\ Requests \subseteq Request

VARIABLES
    contract,   \* id -> a deployment: its node, network workload and machines
    info,       \* info.json: node -> its contract and addresses; <<>>: no file
    pc, call,   \* call -> its next step, its request
    net,        \* call -> its Network object
    stored,     \* call -> the contracts it was loaded from, with their machines
    todo,       \* call -> the machines it has yet to create or delete
    batch,      \* call -> what it hands to handle()
    stale,      \* the calls that have read what another call has changed since
    clean       \* nothing has gone wrong with this network (see Properties)

local == <<net, stored, todo, batch>>
vars == <<contract, info, pc, call, local, stale, clean>>

\* subnet 0: the deployment has no network workload.
NoContract == [state |-> "free", name |-> "", node |-> 0, subnet |-> 0, peers |-> {}, machines |-> {}]

\* create: node -> a deployment for it; touch: the network workloads of the
\* loaded deployments change; delete, strip: contracts that go, or lose their
\* network workload.  Of a deletion: the contract, what remains of it, the
\* addresses that were freed, and whether the node left the network.
NoBatch == [create |-> <<>>, touch |-> FALSE, delete |-> {}, strip |-> {},
            id |-> 0, rest |-> {}, subnet |-> 0, ips |-> {}, left |-> FALSE]

NoRequest == [op |-> "none", name |-> "", items |-> <<>>, access |-> FALSE, machines |-> {}]

Init ==
    /\ contract = [id \in Ids |-> NoContract]
    /\ info = <<>>
    /\ pc = [c \in Calls |-> "idle"] /\ call = [c \in Calls |-> NoRequest]
    /\ net = [c \in Calls |-> EmptyNetwork] /\ stored = [c \in Calls |-> <<>>]
    /\ todo = [c \in Calls |-> <<>>] /\ batch = [c \in Calls |-> NoBatch]
    /\ stale = {} /\ clean = TRUE

Live(id) == contract[id].state = "created"
Exists == info # <<>>
Goto(c, p) == pc' = [pc EXCEPT ![c] = p]

\* A call writes: the others that are under way have read something older, and
\* what it writes may be wrong if it has.
Writes(c) ==
    /\ stale' = (stale \ {c}) \cup {b \in Calls \ {c} : pc[b] # "idle"}
    /\ clean' = (clean /\ c \notin stale)

\* A call ends; what it had in memory is gone.
Ended(c) ==
    /\ Goto(c, "idle")
    /\ call' = [call EXCEPT ![c] = NoRequest]
    /\ net' = [net EXCEPT ![c] = EmptyNetwork] /\ stored' = [stored EXCEPT ![c] = <<>>]
    /\ todo' = [todo EXCEPT ![c] = <<>>] /\ batch' = [batch EXCEPT ![c] = NoBatch]
Throw(c) == Ended(c) /\ stale' = stale \ {c} /\ UNCHANGED <<contract, info, clean>>
-----------------------------------------------------------------------------
(***************************************************************************)
(* A call and Network.load.                                                *)
(***************************************************************************)
DeploymentsOf(n) == {id \in Ids : Live(id) /\ contract[id].name = n /\ contract[id].machines # {}}
MachinesOf(n) == UNION {{m.name : m \in contract[id].machines} : id \in DeploymentsOf(n)}

\* What the modules check first.  A deletion takes one deployment at a time.
Deploys(r) == r.op = "deploy" /\ DeploymentsOf(r.name) = {}
Adds(r) == /\ r.op = "add" /\ DeploymentsOf(r.name) # {}
           /\ r.items[1].machine \notin MachinesOf(r.name)

SetToSeq(S) == CHOOSE f \in [1..Cardinality(S) -> S] : \A i, j \in DOMAIN f : f[i] = f[j] => i = j

Begin(c) ==
    /\ pc[c] = "idle"
    /\ \E r \in (IF \A b \in Calls : pc[b] = "idle" THEN Requests ELSE Beside) :
         /\ call' = [call EXCEPT ![c] = r]
         /\ \/ /\ Deploys(r) \/ Adds(r)
               /\ todo' = [todo EXCEPT ![c] = r.items]
               /\ UNCHANGED batch
            \/ /\ r.op = "delete"
               /\ \E id \in DeploymentsOf(r.name) :
                    LET gone == {m \in contract[id].machines : m.name \in r.machines}
                    IN /\ gone # {}
                       /\ todo' = [todo EXCEPT ![c] = SetToSeq(gone)]
                       /\ batch' = [batch EXCEPT ![c].id = id,
                                                 ![c].rest = contract[id].machines \ gone,
                                                 ![c].subnet = contract[id].subnet]
    /\ Goto(c, "load")
    /\ UNCHANGED <<contract, info, net, stored, stale, clean>>

\* The nodes of info.json whose deployment still has the network workload.
Found == {x \in DOMAIN info : contract[info[x].contract].subnet # 0}

Loaded ==
    LET nets == [x \in Found |-> [subnet |-> contract[info[x].contract].subnet,
                                  peers |-> contract[info[x].contract].peers]]
    IN [EmptyNetwork EXCEPT !.nets = nets, !.nodes = [x \in Found |-> info[x]],
                            !.points = AccessPoints(nets)]

AfterLoad(c) ==
    IF call[c].op # "delete" THEN "build" ELSE IF todo[c] # <<>> THEN "remove" ELSE "free"

\* Without an info.json there is nothing to load.  A node cannot be asked for
\* the deployment of a contract that is deleted.
Load(c) ==
    /\ pc[c] = "load"
    /\ \A x \in DOMAIN info : Live(info[x].contract)
    /\ net' = [net EXCEPT ![c] = IF Exists THEN Loaded ELSE EmptyNetwork]
    /\ stored' = [stored EXCEPT ![c] = [id \in {info[x].contract : x \in Found} |->
                                            contract[id].machines]]
    /\ Goto(c, IF Exists THEN "loadSave" ELSE AfterLoad(c))
    /\ stale' = IF \E b \in Calls : pc[b] = "save" THEN stale \cup {c} ELSE stale
    /\ UNCHANGED <<contract, info, call, todo, batch, clean>>

LoadFails(c) ==
    /\ pc[c] = "load" /\ Exists
    /\ "rmb" \in Faults \/ \E x \in DOMAIN info : ~Live(info[x].contract)
    /\ Throw(c)

\* save(): the nodes that have a contract; without any the file is removed.
Entries(n) == Except(n.nodes, {x \in DOMAIN n.nodes : n.nodes[x].contract = 0})

LoadSave(c) ==
    /\ pc[c] = "loadSave"
    /\ info' = Entries(net[c])
    /\ IF info' = info THEN UNCHANGED <<stale, clean>> ELSE Writes(c)
    /\ Goto(c, AfterLoad(c))
    /\ UNCHANGED <<contract, call, local>>
-----------------------------------------------------------------------------
(***************************************************************************)
(* VMHL.create, machine by machine.                                        *)
(***************************************************************************)
\* The Network object and the batch while a machine is created.
At(c) == [net |-> net[c], batch |-> batch[c]]

Deployment(b, x) == IF x \in DOMAIN b.create THEN b.create[x] ELSE [net |-> FALSE, machines |-> {}]
WithMachine(b, x, m) ==
    [b EXCEPT !.create = With(@, x, [Deployment(b, x) EXCEPT !.machines = @ \cup {m}])]

\* An address that is asked for reserves its subnet for the node, which fails
\* when the node has it already, and another one in case an access node comes.
Subnets(at, ip) ==
    IF ip.subnet = 0 THEN {[net |-> at.net, access |-> 0]}
    ELSE IF ip.subnet \in Reserved(at.net) THEN {}
    ELSE LET n == Reserve(at.net, ip.subnet)
         IN {[net |-> Reserve(n, FreeSubnet(n)), access |-> FreeSubnet(n)]}

WithAccessNode(n, subnet) ==
    UNION {UNION {{[net |-> n2, node |-> y] : n2 \in AddAccess(n1, y)} : n1 \in AddNode(n, y, subnet)} :
           y \in AccessNodes}

\* Every outcome of creating an item; none, when it throws.
CreateOn(at, i, access) ==
    LET x == i.node
        hasAccess == access /\ AccessNodes \cap DOMAIN at.net.nets # {}
        relay == access /\ ~hasAccess /\ x \notin AccessNodes
        Starts == UNION {IF relay
                         THEN {[net |-> n.net, nodes |-> {n.node}] : n \in WithAccessNode(s.net, s.access)}
                         ELSE {[net |-> s.net, nodes |-> {}]} : s \in Subnets(at, i.ip)}
        Grown == UNION {{[net |-> n, nodes |-> s.nodes \cup ({x} \ DOMAIN s.net.nets)] :
                           n \in AddNode(s.net, x, i.ip.subnet)} : s \in Starts}
        \* On an access node of its own the first machine gets the access point.
        Opened == UNION {IF ~Exists /\ x \in g.nodes /\ access /\ ~hasAccess /\ ~relay
                         THEN {[g EXCEPT !.net = n] : n \in AddAccess(g.net, x)}
                         ELSE {g} : g \in Grown}
        Batch(g, m) ==
            LET nets == [y \in DOMAIN at.batch.create \cup g.nodes |->
                           [Deployment(at.batch, y) EXCEPT !.net = @ \/ y \in g.nodes]]
            IN WithMachine([at.batch EXCEPT !.create = nets,
                                            !.touch = @ \/ (Exists /\ g.nodes # {})], x, m)
    IN UNION {{[net |-> ReserveIp(g.net, x, ip), batch |-> Batch(g, [name |-> i.machine, ip |-> ip])] :
                 ip \in IpChoices(g.net, x, i.ip)} : g \in Opened}

Build(c) ==
    /\ pc[c] = "build" /\ todo[c] # <<>>
    /\ LET outcomes == CreateOn(At(c), Head(todo[c]), call[c].access)
       IN IF outcomes = {} THEN Throw(c)
          ELSE \E o \in outcomes :
                 /\ net' = [net EXCEPT ![c] = o.net]
                 /\ batch' = [batch EXCEPT ![c] = o.batch]
                 /\ todo' = [todo EXCEPT ![c] = Tail(@)]
                 /\ Goto(c, IF Len(todo[c]) = 1 THEN "handle" ELSE "build")
                 /\ UNCHANGED <<contract, info, call, stored, stale, clean>>
-----------------------------------------------------------------------------
(***************************************************************************)
(* HighLevelBase._delete: first the machines, one by one, then the rest.   *)
(***************************************************************************)
\* The network workload of another contract goes, with the contract when it has
\* nothing else.
Drop(c, b, id) ==
    IF id \notin DOMAIN stored[c] THEN b
    ELSE IF stored[c][id] = {} THEN [b EXCEPT !.delete = @ \cup {id}]
    ELSE [b EXCEPT !.strip = @ \cup {id}]

\* deleteNode does nothing when the file is gone.
Contract(n, x) == IF Exists THEN ContractOf(n, x) ELSE 0
Gone(n, x) == IF Exists THEN DeleteNode(n, x) ELSE n

\* The node of a deleted machine leaves the network.
LeaveNode(c, n, b, x) ==
    LET id == Contract(n, x)
    IN IF id # b.id THEN Drop(c, b, id)
       ELSE IF b.rest = {} THEN [b EXCEPT !.delete = @ \cup {id}, !.subnet = 0]
       ELSE [b EXCEPT !.subnet = 0, !.left = TRUE]

\* The last node leaves when it has no addresses, access point or not.
Unused(n) == {x \in DOMAIN n.nodes : Cardinality(DOMAIN n.nodes) = 1 /\ Ips(n, x) = {}}
\* Mutant: it stays.
LeaveLastStays(c, at) == at

LeaveLast(c, at) ==
    IF Unused(at.net) = {} THEN at
    ELSE LET y == CHOOSE x \in Unused(at.net) : TRUE
         IN [net |-> Gone(at.net, y), batch |-> Drop(c, at.batch, Contract(at.net, y))]

Remove(c) ==
    /\ pc[c] = "remove"
    /\ LET m == Head(todo[c])
           x == contract[batch[c].id].node
           n == FreeReservedIp(net[c], x, m.ip)
           b == IF batch[c].rest = {} /\ batch[c].subnet = 0
                THEN [batch[c] EXCEPT !.delete = @ \cup {batch[c].id}] ELSE batch[c]
           kept == Ips(n, x) # {} \/ (HasAccessPoint(n, x) /\ Cardinality(DOMAIN n.nodes) # 1)
           at == IF kept THEN [net |-> n, batch |-> [b EXCEPT !.ips = @ \cup {m.ip}]]
                 ELSE LeaveLast(c, [net |-> Gone(n, x), batch |-> LeaveNode(c, n, b, x)])
       IN net' = [net EXCEPT ![c] = at.net] /\ batch' = [batch EXCEPT ![c] = at.batch]
    /\ todo' = [todo EXCEPT ![c] = Tail(@)]
    /\ Goto(c, IF Len(todo[c]) = 1 THEN "rest" ELSE "remove")
    /\ UNCHANGED <<contract, info, call, stored, stale, clean>>

\* What remains of the deployment is updated.  With a network workload in it the
\* network is loaded again; without one there is no Network object to give the
\* addresses back to, and the call throws.
Rest(c) ==
    /\ pc[c] = "rest"
    /\ LET b == batch[c]
       IN IF b.rest # {} /\ b.subnet = 0 /\ (b.ips # {} \/ b.left) THEN Throw(c)
          ELSE /\ Goto(c, IF b.subnet # 0 /\ b.delete \cup b.strip = {} THEN "load" ELSE "handle")
               /\ UNCHANGED <<contract, info, call, local, stale, clean>>

FreeIps(c) ==
    /\ pc[c] = "free"
    /\ LET x == contract[batch[c].id].node
           n == net[c]
       IN net' = [net EXCEPT ![c] = IF x \in DOMAIN n.nodes
                                    THEN [n EXCEPT !.nodes[x].ips = @ \ batch[c].ips] ELSE n]
    /\ Goto(c, "handle")
    /\ UNCHANGED <<contract, info, call, stored, todo, batch, stale, clean>>
-----------------------------------------------------------------------------
(***************************************************************************)
(* handle() and the save of the Network object.                            *)
(***************************************************************************)
\* add_machine adds to the contract that its deployment has on the node.
Joined(c, x) == {id \in DeploymentsOf(call[c].name) : call[c].op = "add" /\ contract[id].node = x}

FreeIds == {id \in Ids : contract[id].state = "free"}
Created(c) == {x \in DOMAIN batch[c].create : Joined(c, x) = {}}

\* The contract of each node that the call works on; ids come in order.
ContractIds(c) ==
    LET new == Created(c)
    IN {f \in [DOMAIN batch[c].create -> Ids] :
          /\ \A x, y \in new : f[x] = f[y] => x = y
          /\ {f[x] : x \in new} = {id \in FreeIds : Cardinality({j \in FreeIds : j < id}) < Cardinality(new)}
          /\ \A x \in DOMAIN batch[c].create \ new : f[x] \in Joined(c, x)}

PeersOf(n, x) == IF x \in DOMAIN n.nets THEN n.nets[x].peers ELSE {}

\* A deployment as its node has it after the call.  The network workloads have
\* the data of the Network object, whatever is changed with them.
AfterCall(c, ids, id) ==
    LET b == batch[c]
        d == contract[id]
        n == net[c]
        on == {x \in DOMAIN ids : ids[x] = id}
        touched == IF b.touch /\ id \in DOMAIN stored[c]
                   THEN [d EXCEPT !.machines = stored[c][id], !.peers = PeersOf(n, d.node)] ELSE d
        joined(x) == [touched EXCEPT !.machines = @ \cup b.create[x].machines,
                                     !.subnet = IF b.create[x].net THEN n.nets[x].subnet ELSE @,
                                     !.peers = IF b.create[x].net THEN n.nets[x].peers ELSE @]
        fresh(x) == [state |-> "created", name |-> call[c].name, node |-> x,
                     subnet |-> IF b.create[x].net THEN n.nets[x].subnet ELSE 0,
                     peers |-> IF b.create[x].net THEN n.nets[x].peers ELSE {},
                     machines |-> b.create[x].machines]
    IN IF id \in b.delete THEN [NoContract EXCEPT !.state = "deleted"]
       ELSE IF id \in b.strip THEN [d EXCEPT !.subnet = 0, !.peers = {}]
       ELSE IF on # {} THEN LET x == CHOOSE y \in on : TRUE
                            IN IF d.state = "free" THEN fresh(x) ELSE joined(x)
       ELSE IF id = b.id THEN [d EXCEPT !.machines = b.rest, !.subnet = b.subnet]
       ELSE touched

Updates(c) == (IF batch[c].touch THEN DOMAIN stored[c] ELSE {}) \cup
              ({batch[c].id} \ ({0} \cup batch[c].delete)) \cup batch[c].strip

\* Mutant: a Network object is not told the contracts of its new nodes.
WithoutContracts(n, ids) == n

\* The saves tell the Network object the contracts of its new nodes.
WithContracts(n, ids) ==
    [n EXCEPT !.nodes = [x \in DOMAIN @ |->
        IF @[x].contract = 0 /\ x \in DOMAIN ids THEN [@[x] EXCEPT !.contract = ids[x]] ELSE @[x]]]

Handle(c) ==
    /\ pc[c] = "handle"
    /\ \A id \in Updates(c) : Live(id)
    /\ \E ids \in ContractIds(c) :
         /\ contract' = [id \in Ids |-> AfterCall(c, ids, id)]
         /\ net' = [net EXCEPT ![c] = WithContracts(@, ids)]
    /\ Writes(c)
    /\ Goto(c, "save")
    /\ UNCHANGED <<info, call, stored, todo, batch>>

\* It throws, or the process stops in it: some of the deployments changed, and
\* the contracts it has created stay.
HandleFails(c) ==
    /\ pc[c] = "handle" /\ "deploy" \in Faults
    /\ \E ids \in ContractIds(c), done \in SUBSET Ids :
         contract' = [id \in Ids |-> IF id \in done /\ (Live(id) \/ \E x \in DOMAIN ids : ids[x] = id)
                                     THEN AfterCall(c, ids, id) ELSE contract[id]]
    /\ clean' = (clean /\ contract' = contract)
    /\ stale' = stale \ {c}
    /\ Ended(c)
    /\ UNCHANGED info

Save(c) ==
    /\ pc[c] = "save"
    /\ info' = Entries(net[c])
    /\ Writes(c)
    /\ Ended(c)
    /\ UNCHANGED contract

\* The process stops; a call that throws before handle(), because the node has
\* not the resources or does not answer, leaves as much behind.
Crash(c) ==
    /\ pc[c] # "idle" /\ "crash" \in Faults
    /\ clean' = (clean /\ pc[c] # "save")
    /\ stale' = stale \ {c}
    /\ Ended(c)
    /\ UNCHANGED <<contract, info>>

\* Somebody cancels a contract without the modules.
Cancel(id) ==
    /\ "cancel" \in Faults /\ Live(id)
    /\ contract' = [contract EXCEPT ![id] = [NoContract EXCEPT !.state = "deleted"]]
    /\ clean' = FALSE
    /\ UNCHANGED <<info, pc, call, local, stale>>

Step(c) ==
    \/ Begin(c) \/ Load(c) \/ LoadFails(c) \/ LoadSave(c)
    \/ Build(c) \/ Remove(c) \/ Rest(c) \/ FreeIps(c)
    \/ Handle(c) \/ HandleFails(c) \/ Save(c)

Next == (\E c \in Calls : Step(c) \/ Crash(c)) \/ \E id \in Ids : Cancel(id)

Spec == Init /\ [][Next]_vars
-----------------------------------------------------------------------------
(***************************************************************************)
(* Properties.  They are about a network that is clean: no call has        *)
(* written what it worked out from something that another has changed      *)
(* since, none has failed in handle() with a change made or has stopped    *)
(* before it had saved, and nobody has cancelled a contract behind it.     *)
(***************************************************************************)
TypeOK ==
    /\ \A id \in Ids : /\ contract[id].state \in {"free", "created", "deleted"}
                       /\ contract[id].subnet \in Nat
    /\ DOMAIN info \subseteq Nodes
    /\ \A x \in DOMAIN info : info[x].contract \in Ids
    /\ pc \in [Calls -> {"idle", "load", "loadSave", "build", "remove", "rest", "free",
                          "handle", "save"}]
    /\ \A c \in Calls : DOMAIN net[c].nets = DOMAIN net[c].nodes
    /\ clean \in BOOLEAN

InNetwork == {id \in Ids : Live(id) /\ contract[id].subnet # 0}
Nets == [x \in {contract[id].node : id \in InNetwork} |->
           contract[CHOOSE id \in InNetwork : contract[id].node = x]]
Deployed == UNION {{[id |-> id, name |-> m.name, ip |-> m.ip] : m \in contract[id].machines} :
                     id \in {i \in Ids : Live(i)}}

\* No two machines have an address in common, whoever deployed them and when.
AddressesDistinct ==
    clean => \A m, k \in Deployed : m.ip = k.ip => m = k

\* A node has one network workload, no two nodes have the same subnet, no
\* access point has the subnet of a node, and a machine has an address of the
\* subnet of its node.
SubnetsDistinct ==
    clean =>
      /\ \A i, j \in InNetwork : i # j => /\ contract[i].node # contract[j].node
                                          /\ contract[i].subnet # contract[j].subnet
      /\ \A m \in Deployed : LET x == contract[m.id].node
                             IN x \in DOMAIN Nets /\ m.ip.subnet = Nets[x].subnet

\* info.json tells where the network workloads are and which addresses are
\* taken, whenever no call is on its way.
InfoComplete ==
    (clean /\ \A c \in Calls : pc[c] # "save") =>
      /\ DOMAIN info = DOMAIN Nets
      /\ \A id \in InNetwork : info[contract[id].node].contract = id
      /\ \A m \in Deployed : m.ip \in info[contract[m.id].node].ips

\* Of the peers of a node, one at most is for a subnet.
RoutesUnique ==
    clean => \A id \in InNetwork : \A p, q \in contract[id].peers :
               p # q => p.allowed \cap q.allowed = {}

\* A call that adds nodes leaves a network in which every node reaches all the
\* others and the access points: directly, or over the access node that relays
\* for it, and for the other if that is hidden as well.
Hop(x, s) == {p \in Nets[x].peers : s \in p.allowed}
Direct(x, s) == \E p \in Hop(x, s) : p.subnet = s
Over(x, s, Then(_, _)) ==
    \E p \in Hop(x, s) : \E z \in DOMAIN Nets : Nets[z].subnet = p.subnet /\ Then(z, s)
OneRelay(x, s) == Over(x, s, Direct)
Reaches(x, s) == Direct(x, s) \/ OneRelay(x, s) \/ Over(x, s, OneRelay)
AllReach ==
    \A x \in DOMAIN Nets :
        \A s \in (SubnetsOf(Nets) \cup {p.subnet : p \in AccessPoints(Nets)}) \ {Nets[x].subnet} :
            Reaches(x, s)
GrowsReachable ==
    [][\A c \in Calls :
         (pc[c] = "handle" /\ pc'[c] = "save" /\ clean' /\ \E x \in DOMAIN batch[c].create : batch[c].create[x].net)
         => AllReach']_vars

\* With the last machine the network goes: all of its contracts and info.json.
\* (With one access node: two nodes with access points keep each other.)
NetworkFreed ==
    (clean /\ Deployed = {} /\ \A c \in Calls : pc[c] # "save") =>
        InNetwork = {} /\ info = <<>>
=============================================================================
