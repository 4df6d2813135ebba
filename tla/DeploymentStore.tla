-------------------------- MODULE DeploymentStore --------------------------
(***************************************************************************)
(* What the deployment modules (machines, k8s, zdbs, qsfs_zdbs, gateways)  *)
(* know of the contracts they made.  The state of a deployment lives in    *)
(* two places that nothing keeps in step: the contracts of the chain, with *)
(* the workloads that their nodes hold, and contracts.json in the user's   *)
(* storage.  Calls of the modules, and of the contracts module that        *)
(* cancels contracts behind their back, read the one and write the other   *)
(* in steps of their own, in one process or in several.                    *)
(*                                                                         *)
(* The storage is the file system (the default): a dump happens when it is *)
(* called.  An instance is a machine, zdb or gateway together with the     *)
(* disks and addresses that are deployed and deleted with it.  handle() is *)
(* one step here: TwinDeploymentHandler models it, and what a call that    *)
(* throws leaves behind.                                                   *)
(***************************************************************************)
EXTENDS Integers, FiniteSets

CONSTANTS
    Calls,       \* calls of the client, each of one operation
    Names,       \* names of deployments
    Module,      \* [Names -> ModuleNames]: two deployments share no directory
    Instances,   \* names of machines, zdbs or gateways within a deployment
    Masters,     \* the instances that are masters of a k8s cluster
    Nodes,
    Ids,         \* contract ids
    LeastZdbs,   \* of a qsfs_zdbs deployment: 7 in the code, 3 and 4 for metadata
    NoName, NoInstance, NoNode,
    Requests,    \* what is asked of the modules
    Faults       \* "rmb", "deploy", "crash": what may go wrong

ModuleNames == {"machines", "k8s", "zdbs", "qsfs_zdbs", "gateway"}
Operations == {"deploy", "update", "add", "deleteInstance", "delete", "get",
               "cancel", "cancelMine"}

\* deploy and update have a plan, the instances of each node; deploy may add an
\* access node that only gets a network; add has an instance and its node.
Request == [op : Operations, name : Names \cup {NoName},
            plan : [Nodes -> SUBSET Instances], access : SUBSET Nodes,
            instance : Instances \cup {NoInstance}, node : Nodes \cup {NoNode}]

ASSUME StoreAssumption ==
    /\ Module \in [Names -> ModuleNames] /\ Masters \subseteq Instances
    /\ NoName \notin Names /\ NoInstance \notin Instances
    /\ NoNode \notin Nodes /\ LeastZdbs \in Nat
    /\ Requests \subseteq Request
    /\ \A r \in Requests : /\ r.name = NoName <=> r.op \in {"cancel", "cancelMine"}
                           /\ r.op = "add" => r.instance # NoInstance /\ r.node # NoNode

VARIABLES
    contract,    \* id -> the contract on the chain and what its node holds
    store,       \* name -> the ids in contracts.json; there is no file for {}
    info,        \* id -> the deployment in contracts/<id>.json
    pc, call,    \* call -> its next step, its request
    todo,        \* call -> the contracts it still has to look at
    seen,        \* call -> the deployments it has read
    work,        \* call -> what it hands to handle()
    results,     \* call -> the contracts handle() reported
    saving,      \* call -> the contracts that save() adds and removes
    loaded,      \* call -> the contracts save() has read
    disturbed,   \* the names about which the store may be wrong (see Properties)
    alone        \* the calls that have had their deployment to themselves

memory == <<todo, seen, work, results, saving, loaded>>
vars == <<contract, store, info, pc, call, memory, disturbed, alone>>

Free == [name |-> NoName, node |-> NoNode, instances |-> {}, state |-> "free"]
NoWork == [create |-> {}, update |-> {}, delete |-> {}]
NoChange == [created |-> {}, updated |-> {}, deleted |-> {}]

Live(id) == contract[id].state = "created"
MayStay(n) == IF Module[n] \in {"machines", "k8s"} THEN BOOLEAN ELSE {FALSE}
Name(c) == call[c].name
Op(c) == call[c].op
Settled == {"idle", "returned", "threw", "crashed"}

Init ==
    /\ contract = [id \in Ids |-> Free]
    /\ store = [n \in Names |-> {}]
    /\ info = [id \in Ids |-> NoName]
    /\ pc = [c \in Calls |-> "idle"]
    /\ call = [c \in Calls |-> [op |-> "get", name |-> NoName, plan |-> [x \in Nodes |-> {}],
                               access |-> {}, instance |-> NoInstance, node |-> NoNode]]
    /\ todo = [c \in Calls |-> {}]
    /\ seen = [c \in Calls |-> {}]
    /\ work = [c \in Calls |-> NoWork]
    /\ results = [c \in Calls |-> NoChange]
    /\ saving = [c \in Calls |-> NoChange]
    /\ loaded = [c \in Calls |-> {}]
    /\ disturbed = {} /\ alone = {}

Goto(c, p) == pc' = [pc EXCEPT ![c] = p]
Throw(c) == Goto(c, "threw") /\ UNCHANGED memory
-----------------------------------------------------------------------------
(***************************************************************************)
(* The modules' own checks: before anything is read, and of what was read. *)
(***************************************************************************)
\* The directory of a deployment exists as long as its contracts.json.
Exists(n) == store[n] # {}

Begin(c, r, p) ==
    /\ pc[c] = "idle"
    /\ call' = [call EXCEPT ![c] = r]
    /\ Goto(c, p)
    /\ LET others == {b \in Calls \ {c} : Name(b) = r.name /\ pc[b] \notin Settled}
       IN alone' = (alone \ others) \cup (IF others = {} THEN {c} ELSE {})
    /\ UNCHANGED <<contract, store, info, memory, disturbed>>

\* A method either checks that the name is free, or that it is not, or it gets
\* what there is; ok is what else it checks first.
Method(c, r, ok) ==
    \/ /\ r.op = "deploy"
       /\ Begin(c, r, IF ok /\ ~Exists(r.name) THEN "build" ELSE "threw")
    \/ /\ r.op \in {"update", "add", "deleteInstance"}
       /\ Begin(c, r, IF ok /\ Exists(r.name) THEN "load" ELSE "threw")
    \/ /\ r.op \in {"delete", "get"}
       /\ Begin(c, r, IF Exists(r.name) THEN "load" ELSE "returned")

RequestsTo(m) == {r \in Requests : r.name # NoName /\ Module[r.name] = m}
Planned(r) == UNION {r.plan[x] : x \in Nodes}

Machines(c) == \E r \in RequestsTo("machines") : Method(c, r, TRUE)

\* deploy and update take one master at most, deploy needs it.
K8s(c) ==
    \E r \in RequestsTo("k8s") :
        Method(c, r, /\ r.op \in {"deploy", "update"} =>
                          Cardinality(Planned(r) \cap Masters) <= 1
                     /\ r.op = "deploy" => Planned(r) \cap Masters # {})

Zdbs(c) == \E r \in RequestsTo("zdbs") : Method(c, r, TRUE)

QsfsZdbs(c) ==
    \E r \in RequestsTo("qsfs_zdbs") :
        /\ r.op \in {"deploy", "delete", "get"}
        /\ Method(c, r, r.op = "deploy" => Cardinality(Planned(r)) >= LeastZdbs)

Gateway(c) ==
    \E r \in RequestsTo("gateway") :
        r.op \in {"deploy", "delete", "get"} /\ Method(c, r, TRUE)

InstancesSeen(c) == UNION {d.instances : d \in seen[c]}

MachinesFinds(c) ==
    /\ InstancesSeen(c) # {}
    /\ Op(c) = "add" => call[c].instance \notin InstancesSeen(c)

\* After delete_worker of the master a cluster can only be deleted.
K8sFinds(c) ==
    /\ InstancesSeen(c) \cap Masters # {}
    /\ Op(c) = "add" => call[c].instance \notin InstancesSeen(c)

ZdbsFinds(c) ==
    Op(c) = "add" => seen[c] # {} /\ call[c].instance \notin InstancesSeen(c)

Finds(c) ==
    CASE Module[Name(c)] = "machines" -> MachinesFinds(c)
      [] Module[Name(c)] = "k8s" -> K8sFinds(c)
      [] OTHER -> ZdbsFinds(c)
-----------------------------------------------------------------------------
(***************************************************************************)
(* _get: the deployments of a name, as the chain and the nodes have them.  *)
(* Contracts that are gone are dropped from contracts.json, and so are     *)
(* those without a workload of the module's types.                         *)
(***************************************************************************)
\* A list that has become empty since _get found the deployment is saved.
Load(c) ==
    /\ pc[c] = "load"
    /\ todo' = [todo EXCEPT ![c] = store[Name(c)]]
    /\ seen' = [seen EXCEPT ![c] = {}]
    /\ \/ Goto(c, "get") /\ UNCHANGED saving
       \/ /\ ~Exists(Name(c))
          /\ Goto(c, "pruneLoad")
          /\ saving' = [saving EXCEPT ![c] = NoChange]
    /\ UNCHANGED <<contract, store, info, call, work, results, loaded, disturbed, alone>>

\* invalidateDeployment asks a BaseModule, which has no workload types.
Found(c, id) == Op(c) # "cancel" /\ contract[id].instances # {}

Deployment(id) == [id |-> id, node |-> contract[id].node,
                   instances |-> contract[id].instances]

GetOne(c) ==
    /\ pc[c] = "get"
    /\ \E id \in todo[c] :
         /\ todo' = [todo EXCEPT ![c] = @ \ {id}]
         /\ \/ /\ Live(id) /\ Found(c, id)
               /\ seen' = [seen EXCEPT ![c] = @ \cup {Deployment(id)}]
               /\ UNCHANGED <<pc, saving>>
            \/ /\ ~(Live(id) /\ Found(c, id))
               /\ saving' = [saving EXCEPT ![c] = [NoChange EXCEPT !.deleted = {id}]]
               /\ Goto(c, "pruneLoad")
               /\ UNCHANGED seen
    /\ UNCHANGED <<contract, store, info, call, work, results, loaded, disturbed, alone>>

GetFails(c) ==
    /\ pc[c] = "get" /\ todo[c] # {} /\ "rmb" \in Faults
    /\ Throw(c)
    /\ UNCHANGED <<contract, store, info, call, disturbed, alone>>

\* The last _get of deleteInstance only prunes what became empty.
GetDone(c) ==
    /\ pc[c] = "get" /\ todo[c] = {}
    /\ todo' = [todo EXCEPT ![c] = {d.id : d \in seen[c]}]
    /\ Goto(c, IF Op(c) \in {"get", "cancel"} \/ results[c] # NoChange THEN "returned"
               ELSE IF Op(c) \in {"update", "add"} /\ ~Finds(c) THEN "threw"
               ELSE "build")
    /\ UNCHANGED <<contract, store, info, call, seen, work, results, saving, loaded, disturbed, alone>>
-----------------------------------------------------------------------------
(***************************************************************************)
(* What each operation hands to handle().                                  *)
(***************************************************************************)
New(x, instances) == [node |-> x, instances |-> instances]

\* Mutant: what is left of it goes along unless an address or access point stays.
WithoutRest(d, gone, stays) ==
    IF gone = {} THEN NoWork
    ELSE IF ~stays
    THEN [NoWork EXCEPT !.delete = {d.id}]
    ELSE [NoWork EXCEPT !.update = {[d EXCEPT !.instances = @ \ gone]}]

\* The network workload stays on a node that still has addresses or an access
\* point on it (stays); a deployment that is left with nothing is deleted.
Without(d, gone, stays) ==
    IF gone = {} THEN NoWork
    ELSE IF d.instances \subseteq gone /\ ~stays
    THEN [NoWork EXCEPT !.delete = {d.id}]
    ELSE [NoWork EXCEPT !.update = {[d EXCEPT !.instances = @ \ gone]}]

\* UpdateDeployment adds new workloads only while it compares an old one that
\* stays (DeploymentMerge).
Changed(d, new) ==
    IF new = d.instances THEN {}
    ELSE {[d EXCEPT !.instances = IF @ \cap new = {} THEN {} ELSE new]}

ListedNodes(n) == {contract[id].node : id \in store[n]}

Together(works) ==
    [create |-> UNION {w.create : w \in works},
     update |-> UNION {w.update : w \in works},
     delete |-> UNION {w.delete : w \in works}]

DeployWork(r) ==
    [NoWork EXCEPT !.create =
        {New(x, r.plan[x]) : x \in {y \in Nodes : r.plan[y] # {}}}
            \cup {New(x, {}) : x \in {y \in r.access : r.plan[y] = {}}}]

\* The node of a deployment is looked up in contracts.json once more.
UpdateWork(c, stays) ==
    LET plan == call[c].plan
        used == {x \in Nodes : plan[x] # {}}
        kept == {d \in seen[c] : d.node \in used /\ d.id \in store[Name(c)]}
    IN Together(
         {Without(d, d.instances, stays) : d \in seen[c] \ kept} \cup
         {[create |-> {New(x, plan[x]) : x \in used \ ListedNodes(Name(c))},
           update |-> UNION {Changed(d, plan[d.node]) : d \in kept},
           delete |-> {}]})
\* Mutant: _add hands over the new workloads without the old ones.
AddWorkAlone(c) ==
    LET old == {d \in seen[c] : d.node = call[c].node /\ d.id \in store[Name(c)]}
    IN IF old # {}
       THEN [NoWork EXCEPT !.update = {[(CHOOSE d \in old : TRUE) EXCEPT
                                          !.instances = {call[c].instance}]}]
       ELSE [NoWork EXCEPT !.create = {New(call[c].node, {call[c].instance})}]

\* A contract that is listed for the node but was not read gets a second one.
AddWork(c) ==
    LET i == call[c].instance
        x == call[c].node
        old == {d \in seen[c] : d.node = x /\ d.id \in store[Name(c)]}
    IN IF old # {}
       THEN [NoWork EXCEPT !.update = {LET d == CHOOSE e \in old : TRUE
                                       IN [d EXCEPT !.instances = @ \cup {i}]}]
       ELSE [NoWork EXCEPT !.create = {New(x, {i})}]

Build(c) ==
    /\ pc[c] = "build"
    /\ \/ /\ Op(c) = "deploy"
          /\ work' = [work EXCEPT ![c] = DeployWork(call[c])]
          /\ UNCHANGED todo
       \/ /\ Op(c) = "update"
          /\ \E stays \in MayStay(Name(c)) : work' = [work EXCEPT ![c] = UpdateWork(c, stays)]
          /\ UNCHANGED todo
       \/ /\ Op(c) = "add"
          /\ work' = [work EXCEPT ![c] = AddWork(c)]
          /\ UNCHANGED todo
       \/ /\ Op(c) \in {"deleteInstance", "delete"}
          /\ \E d \in seen[c], stays \in MayStay(Name(c)) :
               /\ d.id \in todo[c]
               /\ todo' = [todo EXCEPT ![c] = @ \ {d.id}]
               /\ work' = [work EXCEPT ![c] =
                    Without(d, IF Op(c) = "delete" THEN d.instances
                               ELSE d.instances \cap {call[c].instance}, stays)]
    /\ Goto(c, "handle")
    /\ UNCHANGED <<contract, store, info, call, seen, results, saving, loaded, disturbed, alone>>

\* Every deployment was looked at: _delete saves what it did, _deleteInstance
\* did not find the instance.
BuildDone(c) ==
    /\ pc[c] = "build" /\ Op(c) \in {"deleteInstance", "delete"} /\ todo[c] = {}
    /\ IF Op(c) = "delete"
       THEN Goto(c, "saveLoad") /\ saving' = [saving EXCEPT ![c] = results[c]]
       ELSE Goto(c, "threw") /\ UNCHANGED saving
    /\ UNCHANGED <<contract, store, info, call, todo, seen, work, results, loaded, disturbed, alone>>
-----------------------------------------------------------------------------
(***************************************************************************)
(* handle() and save().                                                    *)
(***************************************************************************)
FreeIds == {id \in Ids : contract[id].state = "free"}
NewContracts(created) == {f \in [created -> FreeIds] : \A t, u \in created : f[t] = f[u] => t = u}

\* The contracts after some of a call's work; fresh has the new ids.
Applied(n, fresh, updates, deletes) ==
    [id \in Ids |->
        IF \E t \in DOMAIN fresh : fresh[t] = id
        THEN LET t == CHOOSE u \in DOMAIN fresh : fresh[u] = id
             IN [name |-> n, node |-> t.node, instances |-> t.instances, state |-> "created"]
        ELSE IF id \in deletes
        THEN [contract[id] EXCEPT !.state = "deleted", !.instances = {}]
        ELSE IF \E d \in updates : d.id = id
        THEN [contract[id] EXCEPT !.instances = (CHOOSE d \in updates : d.id = id).instances]
        ELSE contract[id]]

\* A deletion may take along deployments, also of others, that only have the
\* network.
NetworkOnly == {id \in Ids : Live(id) /\ contract[id].instances = {}}
Along(c) ==
    IF Op(c) \in {"update", "deleteInstance", "delete"} /\ work[c] # NoWork
       /\ MayStay(Name(c)) = BOOLEAN
    THEN SUBSET NetworkOnly ELSE {{}}

\* A call that has changed nothing goes on or returns; if it has changed the
\* networks of others (rewired) it saves that, as nothing.
AfterHandle(c, changes, rewired) ==
    CASE Op(c) = "delete" -> "build"
      [] Op(c) = "deleteInstance" /\ changes = NoChange -> "build"
      [] Op(c) = "update" /\ changes = NoChange /\ ~rewired -> "returned"
      [] OTHER -> "saveLoad"

\* A call fills a deployment that another one has emptied since it was read.
Revives(updates) == \E d \in updates : contract[d.id].instances = {} /\ d.instances # {}

Handle(c) ==
    /\ pc[c] = "handle"
    /\ \A d \in work[c].update : Live(d.id)
    /\ \E fresh \in NewContracts(work[c].create), along \in Along(c),
          rewired \in MayStay(Name(c)) :
         LET deletes == work[c].delete \cup along
             changes == [created |-> {fresh[t] : t \in DOMAIN fresh},
                         updated |-> {d.id : d \in work[c].update},
                         deleted |-> deletes]
             all == [created |-> changes.created,
                     updated |-> results[c].updated \cup changes.updated,
                     deleted |-> results[c].deleted \cup changes.deleted]
         IN /\ contract' = Applied(Name(c), fresh, work[c].update, deletes)
            /\ results' = [results EXCEPT ![c] = all]
            /\ saving' = [saving EXCEPT ![c] = all]
            /\ Goto(c, AfterHandle(c, changes, rewired))
    /\ disturbed' = IF Revives(work[c].update)
                    THEN disturbed \cup {Name(c)} ELSE disturbed
    /\ UNCHANGED <<store, info, call, todo, seen, work, loaded, alone>>

\* handle() throws, or the process stops in it, with a part of the work done:
\* its rollback finds none of the contracts that were created.
HandleFails(c) ==
    /\ pc[c] = "handle" /\ "deploy" \in Faults
    /\ \E created \in SUBSET work[c].create, deletes \in SUBSET work[c].delete,
          updates \in SUBSET {d \in work[c].update : Live(d.id)} :
         \E fresh \in NewContracts(created) :
           /\ contract' = Applied(Name(c), fresh, updates, deletes)
           /\ disturbed' = IF created # {} \/ Revives(updates)
                           THEN disturbed \cup {Name(c)} ELSE disturbed
    /\ Throw(c)
    /\ UNCHANGED <<store, info, call, alone>>

\* save() reads contracts.json, and writes its own copy of it back.
Saving(c) == \E b \in Calls \ {c} : Name(b) = Name(c) /\ pc[b] \in {"saveDump", "pruneDump"}
\* Mutant: the path of contracts.json leaves out the name.
SaveLoadShared(c) ==
    /\ \/ pc[c] = "saveLoad" /\ Goto(c, "saveDump")
       \/ pc[c] = "pruneLoad" /\ Goto(c, "pruneDump")
    /\ loaded' = [loaded EXCEPT ![c] = UNION {store[n] : n \in Names}]
    /\ disturbed' = IF Saving(c) THEN disturbed \cup {Name(c)} ELSE disturbed
    /\ UNCHANGED <<contract, store, info, call, todo, seen, work, results, saving, alone>>

SaveLoad(c) ==
    /\ \/ pc[c] = "saveLoad" /\ Goto(c, "saveDump")
       \/ pc[c] = "pruneLoad" /\ Goto(c, "pruneDump")
    /\ loaded' = [loaded EXCEPT ![c] = store[Name(c)]]
    /\ disturbed' = IF Saving(c) THEN disturbed \cup {Name(c)} ELSE disturbed
    /\ UNCHANGED <<contract, store, info, call, todo, seen, work, results, saving, alone>>
\* Mutants: save() starts from an empty list; contracts/<id>.json is only
\* written by deploy; it has another field where the name belongs.
SaveDumpWith(c, list, Entry(_)) ==
    /\ \/ /\ pc[c] = "saveDump"
          /\ Goto(c, IF Op(c) = "deleteInstance" THEN "load" ELSE "returned")
       \/ pc[c] = "pruneDump" /\ Goto(c, "get")
    /\ store' = [store EXCEPT ![Name(c)] = (list \cup saving[c].created) \ saving[c].deleted]
    /\ info' = [id \in Ids |-> IF id \in saving[c].deleted THEN NoName
                               ELSE IF id \in saving[c].created THEN Entry(id)
                               ELSE info[id]]
    /\ UNCHANGED <<contract, call, memory, disturbed, alone>>
SaveDumpOverwrites(c) == SaveDumpWith(c, {}, LAMBDA id : Name(c))
SaveDumpInfoOnce(c) ==
    SaveDumpWith(c, loaded[c], LAMBDA id : IF Op(c) = "deploy" THEN Name(c) ELSE info[id])
SaveDumpInfoNode(c) == SaveDumpWith(c, loaded[c], LAMBDA id : contract[id].node)

SaveDump(c) ==
    /\ \/ /\ pc[c] = "saveDump"
          /\ Goto(c, IF Op(c) = "deleteInstance" THEN "load" ELSE "returned")
       \/ pc[c] = "pruneDump" /\ Goto(c, "get")
    /\ store' = [store EXCEPT ![Name(c)] =
                    (loaded[c] \cup saving[c].created) \ saving[c].deleted]
    /\ info' = [id \in Ids |-> IF id \in saving[c].deleted THEN NoName
                               ELSE IF id \in saving[c].created THEN Name(c)
                               ELSE info[id]]
    /\ UNCHANGED <<contract, call, memory, disturbed, alone>>
-----------------------------------------------------------------------------
(***************************************************************************)
(* The contracts module, which cancels contracts behind the modules' back. *)
(***************************************************************************)
Cancelled(id) ==
    /\ contract' = [contract EXCEPT ![id].state = "deleted", ![id].instances = {}]
    /\ alone' = alone \ {c \in Calls : Name(c) = contract[id].name}

Cancel(c) ==
    /\ pc[c] = "idle"
    /\ \E r \in Requests, id \in Ids \ FreeIds :
         /\ r.op = "cancel"
         /\ call' = [call EXCEPT ![c] = r]
         /\ Cancelled(id)
         /\ todo' = [todo EXCEPT ![c] = {id}]
    /\ Goto(c, "invalidate")
    /\ UNCHANGED <<store, info, seen, work, results, saving, loaded, disturbed>>

\* invalidateDeployment runs _get on the deployment of the contract.
Invalidate(c) ==
    /\ pc[c] = "invalidate"
    /\ \E id \in todo[c] :
         IF info[id] = NoName THEN Goto(c, "returned") /\ UNCHANGED <<call, disturbed, alone>>
         ELSE /\ call' = [call EXCEPT ![c].name = info[id]]
              /\ disturbed' = disturbed \cup {info[id]}
              /\ alone' = alone \ {b \in Calls : Name(b) = info[id]}
              /\ Goto(c, IF Exists(info[id]) THEN "load" ELSE "returned")
    /\ UNCHANGED <<contract, store, info, memory>>

\* cancelMyContracts goes through the contracts one by one.  What it lists has
\* contractID and it invalidates contractId: no deployment is.
CancelMine(c) ==
    /\ \/ /\ pc[c] = "idle" /\ \E r \in Requests : r.op = "cancelMine"
                                             /\ call' = [call EXCEPT ![c] = r]
          /\ todo' = [todo EXCEPT ![c] = {id \in Ids : Live(id)}]
          /\ Goto(c, "cancelMine")
          /\ UNCHANGED <<contract, alone>>
       \/ /\ pc[c] = "cancelMine"
          /\ \E id \in todo[c] : Cancelled(id) /\ todo' = [todo EXCEPT ![c] = @ \ {id}]
          /\ UNCHANGED <<pc, call>>
       \/ /\ pc[c] = "cancelMine" /\ todo[c] = {}
          /\ Goto(c, "returned")
          /\ UNCHANGED <<contract, call, todo, alone>>
    /\ UNCHANGED <<store, info, seen, work, results, saving, loaded, disturbed>>

\* The process stops; a builder that throws (the node has not the resources)
\* leaves as much behind.  Contracts that were not saved are in no contracts.json.
Crash(c) ==
    /\ pc[c] \notin Settled /\ "crash" \in Faults
    /\ Goto(c, "crashed")
    /\ disturbed' = IF pc[c] \in {"saveLoad", "saveDump"} /\ saving[c].created # {}
                    THEN disturbed \cup {Name(c)} ELSE disturbed
    /\ UNCHANGED <<contract, store, info, call, memory, alone>>

Step(c) ==
    \/ Machines(c) \/ K8s(c) \/ Zdbs(c) \/ QsfsZdbs(c) \/ Gateway(c)
    \/ Load(c) \/ GetOne(c) \/ GetFails(c) \/ GetDone(c)
    \/ Build(c) \/ BuildDone(c) \/ Handle(c) \/ HandleFails(c)
    \/ SaveLoad(c) \/ SaveDump(c)
    \/ Cancel(c) \/ Invalidate(c) \/ CancelMine(c)

Next == \E c \in Calls : Step(c) \/ Crash(c)

Spec == Init /\ [][Next]_vars
-----------------------------------------------------------------------------
(***************************************************************************)
(* Properties.                                                             *)
(***************************************************************************)
TypeOK ==
    /\ contract \in [Ids -> [name : Names \cup {NoName}, node : Nodes \cup {NoNode},
                              instances : SUBSET Instances,
                              state : {"free", "created", "deleted"}]]
    /\ store \in [Names -> SUBSET Ids]
    /\ info \in [Ids -> Names \cup {NoName}]
    /\ pc \in [Calls -> Settled \cup {"load", "get", "pruneLoad", "pruneDump", "build",
                                       "handle", "saveLoad", "saveDump", "invalidate",
                                       "cancelMine"}]
    /\ call \in [Calls -> Request]
    /\ todo \in [Calls -> SUBSET Ids] /\ loaded \in [Calls -> SUBSET Ids]
    /\ disturbed \subseteq Names /\ alone \subseteq Calls

\* contracts.json never lists a contract of another deployment, and what is
\* listed was created.
OwnContracts ==
    \A n \in Names : \A id \in store[n] :
        contract[id].state # "free" /\ contract[id].name = n

\* A contract with an instance is listed, or about to be by the call that made
\* it, unless one of five things happened to its deployment: a call stopped
\* between handle() and save(), handle() threw and left contracts it had made,
\* two calls saved it at once, one filled what another had emptied, or
\* contracts.cancel was used on it.
Pending(id) ==
    \E c \in Calls : pc[c] \in {"saveLoad", "saveDump"} /\ id \in saving[c].created
NothingForgotten ==
    \A n \in Names \ disturbed : \A id \in Ids :
        Live(id) /\ contract[id].name = n /\ contract[id].instances # {} =>
            id \in store[n] \/ Pending(id)

\* contracts/<id>.json names the deployment of each contract that is listed.
InfoNamesDeployment ==
    \A n \in Names \ disturbed : \A id \in store[n] : Live(id) => info[id] = n

\* What a call that returns has achieved, if it had the deployment to itself:
\* the instances are where the plan has them, the one that was added is there,
\* the one that was deleted is gone from the contracts that are reported, and
\* get tells what is deployed and listed.
Holding(n) == {id \in Ids : Live(id) /\ contract[id].name = n /\ contract[id].instances # {}}
Held(n, x) == UNION {contract[id].instances : id \in {i \in Holding(n) : contract[i].node = x}}
SeenOn(c, x) == UNION {d.instances : d \in {e \in seen[c] : e.node = x}}
Achieved(c) ==
    LET r == call[c] IN
    CASE r.op = "deploy" -> \A x \in Nodes : Held(r.name, x) = r.plan[x]
      [] r.op = "update" ->
           (\A d \in seen[c] : r.plan[d.node] = {} \/ r.plan[d.node] \cap d.instances # {})
             => \A x \in Nodes : Held(r.name, x) = r.plan[x]
      [] r.op = "add" -> \A x \in Nodes :
           Held(r.name, x) = SeenOn(c, x) \cup (IF x = r.node THEN {r.instance} ELSE {})
      [] r.op = "deleteInstance" -> \A id \in Holding(r.name) :
           r.instance \in contract[id].instances => id \notin results[c].updated \cup results[c].deleted
      [] r.op = "delete" -> \A x \in Nodes : Held(r.name, x) = {}
      [] r.op = "get" -> /\ store[r.name] = {d.id : d \in seen[c]}
                         /\ \A x \in Nodes : Held(r.name, x) = SeenOn(c, x)
      [] OTHER -> TRUE
ReturnsDone ==
    [][\A c \in Calls :
         (/\ pc[c] # "returned" /\ pc'[c] = "returned" /\ call'[c].name # NoName
          /\ c \in alone' /\ call'[c].name \notin disturbed')
         => Achieved(c)']_vars

\* A deleteInstance that has the deployment to itself takes the instance out of
\* one contract, and nothing else out of any. (It stops at the first that has it;
\* after an update that failed halfway there may be another.)
OnlyInstanceGone ==
    [][\A c \in Calls :
         (/\ pc[c] = "handle" /\ pc'[c] = "saveLoad" /\ Op(c) = "deleteInstance"
          /\ c \in alone /\ Name(c) \notin disturbed)
         => \E id \in results'[c].updated \cup results'[c].deleted :
              /\ call[c].instance \in contract[id].instances
              /\ \A i \in Holding(Name(c)) :
                   contract'[i].instances = contract[i].instances
                      \ (IF i = id THEN {call[c].instance} ELSE {})]_vars
=============================================================================
