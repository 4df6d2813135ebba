----------------------- MODULE DeploymentStoreProofs -----------------------
(***************************************************************************)
(* Proofs about DeploymentStore, for any number of calls, names, nodes and *)
(* contracts, any requests and any faults: contracts.json lists no         *)
(* contract of another deployment, and forgets none but for the five       *)
(* reasons that the model names; and a call that has its deployment to     *)
(* itself, and returns, has achieved what it was asked.                    *)
(***************************************************************************)
EXTENDS DeploymentStore, TLAPS

ContractType == [name : Names \cup {NoName}, node : Nodes \cup {NoNode},
                 instances : SUBSET Instances, state : {"free", "created", "deleted"}]
NewType == [node : Nodes \cup {NoNode}, instances : SUBSET Instances]
DeploymentType == [id : Ids, node : Nodes \cup {NoNode}, instances : SUBSET Instances]
WorkType == [create : SUBSET NewType, update : SUBSET DeploymentType, delete : SUBSET Ids]
ChangeType == [created : SUBSET Ids, updated : SUBSET Ids, deleted : SUBSET Ids]
Reading == {"load", "get", "pruneLoad", "pruneDump"}
Working == Reading \cup {"build", "handle", "saveLoad", "saveDump"}

\* TypeOK, with the memory of the calls: a call at work has a name.
Types ==
    /\ TypeOK
    /\ seen \in [Calls -> SUBSET DeploymentType]
    /\ work \in [Calls -> WorkType]
    /\ results \in [Calls -> ChangeType]
    /\ saving \in [Calls -> ChangeType]
    /\ \A c \in Calls : /\ pc[c] \in Working => Name(c) \in Names
                        /\ Op(c) = "add" => call[c].instance # NoInstance
-----------------------------------------------------------------------------
(***************************************************************************)
(* What the parts of a step do.                                            *)
(***************************************************************************)
\* The five modules begin a call in the same way, of a name of theirs.
LEMMA Asking ==
    ASSUME NEW c \in Calls, Machines(c) \/ K8s(c) \/ Zdbs(c) \/ QsfsZdbs(c) \/ Gateway(c)
    PROVE  \E r \in Requests, p \in {"build", "load", "threw", "returned"} :
             r.name \in Names /\ r.op \notin {"cancel", "cancelMine"} /\ Begin(c, r, p)
  <1>1. ASSUME NEW m, NEW r \in RequestsTo(m), NEW ok \in BOOLEAN, Method(c, r, ok)
        PROVE  \E p \in {"build", "load", "threw", "returned"} :
                 r.name \in Names /\ r.op \notin {"cancel", "cancelMine"} /\ Begin(c, r, p)
    <2>1. r \in Requests /\ r.name \in Names
      BY <1>1, StoreAssumption DEF RequestsTo, Request
    <2>2. CASE r.op = "deploy" /\ Begin(c, r, IF ok /\ ~Exists(r.name) THEN "build" ELSE "threw")
      BY <2>1, <2>2
    <2>3. CASE r.op \in {"update", "add", "deleteInstance"}
               /\ Begin(c, r, IF ok /\ Exists(r.name) THEN "load" ELSE "threw")
      BY <2>1, <2>3
    <2>4. CASE r.op \in {"delete", "get"}
               /\ Begin(c, r, IF Exists(r.name) THEN "load" ELSE "returned")
      BY <2>1, <2>4
    <2> QED BY <1>1, <2>2, <2>3, <2>4 DEF Method
  <1>2. \A m : RequestsTo(m) \subseteq Requests
    BY DEF RequestsTo
  <1>3. CASE Machines(c) BY <1>1, <1>2, <1>3 DEF Machines
  <1>4. CASE K8s(c) BY <1>1, <1>2, <1>4 DEF K8s
  <1>5. CASE Zdbs(c) BY <1>1, <1>2, <1>5 DEF Zdbs
  <1>6. CASE QsfsZdbs(c) BY <1>1, <1>2, <1>6 DEF QsfsZdbs
  <1>7. CASE Gateway(c) BY <1>1, <1>2, <1>7 DEF Gateway
  <1> QED BY <1>3, <1>4, <1>5, <1>6, <1>7

\* What becomes of one contract.
Turned(before, after, n, fresh, updates, deletes, id) ==
    /\ after \in ContractType
    /\ before.state # "free" => /\ after.state # "free" /\ after.name = before.name
                                /\ before.state = "deleted" => after.state = "deleted"
                                /\ id \in deletes => after.state = "deleted"
    /\ before.state # "free" /\ after.state = "created" /\ after.instances # {}
       /\ before.instances = {} => \E d \in updates : d.id = id /\ d.instances # {}
    /\ before.state = "free" /\ after.state = "created" =>
         after.name = n /\ \E t \in DOMAIN fresh : fresh[t] = id
    /\ (\E t \in DOMAIN fresh : fresh[t] = id) => after.name = n /\ after.state = "created"

\* Applied() gives free ids to new contracts, and changes the others in place.
LEMMA AppliedFacts ==
    ASSUME contract \in [Ids -> ContractType], NEW n \in Names \cup {NoName},
           NEW created \in SUBSET NewType, NEW fresh \in NewContracts(created),
           NEW updates \in SUBSET DeploymentType, NEW deletes \in SUBSET Ids,
           NEW id \in Ids
    PROVE  Turned(contract[id], Applied(n, fresh, updates, deletes)[id], n, fresh, updates, deletes, id)
  <1> DEFINE after == Applied(n, fresh, updates, deletes)[id]
             before == contract[id]
  <1>1. before \in ContractType OBVIOUS
  <1>2. fresh \in [created -> FreeIds] /\ DOMAIN fresh = created
    BY DEF NewContracts
  <1>3. \A t \in DOMAIN fresh : fresh[t] = id => before.state = "free"
    BY <1>2 DEF FreeIds
  <1>4. CASE \E t \in DOMAIN fresh : fresh[t] = id
    <2> DEFINE t == CHOOSE u \in DOMAIN fresh : fresh[u] = id
    <2>1. t \in created /\ fresh[t] = id
      BY <1>2, <1>4
    <2>2. after = [name |-> n, node |-> t.node, instances |-> t.instances, state |-> "created"]
      BY <1>4 DEF Applied
    <2>3. t \in NewType
      BY <2>1
    <2>4. after \in ContractType
      BY <2>2, <2>3 DEF NewType, ContractType
    <2> QED BY <1>3, <1>4, <2>2, <2>4 DEF Turned
  <1>5. CASE ~(\E t \in DOMAIN fresh : fresh[t] = id) /\ id \in deletes
    <2>1. after = [before EXCEPT !.state = "deleted", !.instances = {}]
      BY <1>5 DEF Applied
    <2> QED BY <1>1, <1>5, <2>1 DEF ContractType, Turned
  <1>6. CASE /\ ~(\E t \in DOMAIN fresh : fresh[t] = id) /\ id \notin deletes
             /\ \E d \in updates : d.id = id
    <2> DEFINE d == CHOOSE e \in updates : e.id = id
    <2>1. d \in updates /\ d.id = id
      BY <1>6
    <2>2. after = [before EXCEPT !.instances = d.instances]
      BY <1>6 DEF Applied
    <2>3. d.instances \in SUBSET Instances
      BY <2>1 DEF DeploymentType
    <2> HIDE DEF d
    <2> QED BY <1>1, <1>6, <2>1, <2>2, <2>3 DEF ContractType, Turned
  <1>7. CASE /\ ~(\E t \in DOMAIN fresh : fresh[t] = id) /\ id \notin deletes
             /\ ~(\E d \in updates : d.id = id)
    <2>1. after = before
      BY <1>7 DEF Applied
    <2> QED BY <1>1, <1>7, <2>1 DEF Turned
  <1> QED BY <1>4, <1>5, <1>6, <1>7

LEMMA WorkTypes ==
    ASSUME Types, NEW c \in Calls, Name(c) \in Names
    PROVE  /\ DeployWork(call[c]) \in WorkType
           /\ \A stays \in BOOLEAN : UpdateWork(c, stays) \in WorkType
           /\ Op(c) = "add" => AddWork(c) \in WorkType
           /\ \A d \in seen[c], gone \in SUBSET Instances, stays \in BOOLEAN :
                Without(d, gone, stays) \in WorkType
  <1> DEFINE r == call[c]
  <1>1. /\ seen[c] \in SUBSET DeploymentType
        /\ r.plan \in [Nodes -> SUBSET Instances] /\ r.access \in SUBSET Nodes
        /\ r.instance \in Instances \cup {NoInstance} /\ r.node \in Nodes \cup {NoNode}
    BY DEF Types, TypeOK, Request
  <1>2. NoWork \in WorkType
    BY DEF NoWork, WorkType
  <1>3. ASSUME NEW x \in Nodes \cup {NoNode}, NEW instances \in SUBSET Instances
        PROVE  New(x, instances) \in NewType
    BY DEF New, NewType
  <1>4. ASSUME NEW d \in seen[c], NEW gone \in SUBSET Instances, NEW stays \in BOOLEAN
        PROVE  Without(d, gone, stays) \in WorkType
    <2>1. d \in DeploymentType /\ d.id \in Ids
      BY <1>1 DEF DeploymentType
    <2>2. [d EXCEPT !.instances = @ \ gone] \in DeploymentType
      BY <2>1 DEF DeploymentType
    <2> QED BY <1>2, <2>1, <2>2 DEF Without, WorkType, NoWork
  <1>5. DeployWork(r) \in WorkType
    BY <1>1, <1>3 DEF DeployWork, NoWork, WorkType
  <1>6. ASSUME NEW d \in seen[c], NEW new \in SUBSET Instances
        PROVE  Changed(d, new) \in SUBSET DeploymentType
    <2>1. d \in DeploymentType
      BY <1>1
    <2> QED BY <2>1 DEF Changed, DeploymentType
  <1>7. ASSUME NEW stays \in BOOLEAN PROVE UpdateWork(c, stays) \in WorkType
    <2> DEFINE used == {x \in Nodes : r.plan[x] # {}}
               kept == {d \in seen[c] : d.node \in used /\ d.id \in store[Name(c)]}
               removes == {Without(d, d.instances, stays) : d \in seen[c] \ kept}
               changes == [create |-> {New(x, r.plan[x]) : x \in used \ ListedNodes(Name(c))},
                           update |-> UNION {Changed(d, r.plan[d.node]) : d \in kept},
                           delete |-> {}]
    <2>1. removes \in SUBSET WorkType
      BY <1>1, <1>4 DEF DeploymentType
    <2>2. changes.create \in SUBSET NewType
      BY <1>1, <1>3
    <2>3. \A d \in kept : r.plan[d.node] \in SUBSET Instances
      BY <1>1
    <2>4. changes.update \in SUBSET DeploymentType
      BY <1>6, <2>3
    <2>5. changes \in WorkType
      BY <2>2, <2>4 DEF WorkType
    <2>6. UpdateWork(c, stays) = Together(removes \cup {changes})
      BY DEF UpdateWork
    <2>7. removes \cup {changes} \in SUBSET WorkType
      BY <2>1, <2>5
    <2>8. ASSUME NEW works \in SUBSET WorkType PROVE Together(works) \in WorkType
      BY DEF Together, WorkType
    <2> QED BY <2>6, <2>7, <2>8
  <1>8. ASSUME Op(c) = "add" PROVE AddWork(c) \in WorkType
    <2> DEFINE i == r.instance
               old == {d \in seen[c] : d.node = r.node /\ d.id \in store[Name(c)]}
               grown(d) == [d EXCEPT !.instances = @ \cup {i}]
    <2>1. i \in Instances
      BY <1>1, <1>8 DEF Types, Op
    <2>2. CASE old # {}
      <3> DEFINE d == CHOOSE e \in old : TRUE
      <3>1. d \in DeploymentType
        BY <1>1, <2>2
      <3>2. grown(d) \in DeploymentType
        BY <2>1, <3>1 DEF DeploymentType
      <3>3. AddWork(c) = [NoWork EXCEPT !.update = {grown(d)}]
        BY <2>2 DEF AddWork
      <3> HIDE DEF d, grown
      <3> QED BY <1>2, <3>2, <3>3 DEF WorkType
    <2>3. CASE old = {}
      <3>1. AddWork(c) = [NoWork EXCEPT !.create = {New(r.node, {i})}]
        BY <2>3 DEF AddWork
      <3> QED BY <1>1, <1>2, <1>3, <2>1, <3>1 DEF WorkType
    <2> QED BY <2>2, <2>3
  <1> QED BY <1>4, <1>5, <1>7, <1>8
-----------------------------------------------------------------------------
(***************************************************************************)
(* Types.                                                                  *)
(***************************************************************************)
LEMMA TypesInit == Init => Types
  <1> SUFFICES ASSUME Init PROVE Types
    OBVIOUS
  <1>1. \A c \in Calls : Op(c) = "get" /\ call[c] \in Request /\ pc[c] = "idle"
    BY DEF Init, Op, Request, Operations
  <1>2. call \in [Calls -> Request]
    BY <1>1 DEF Init
  <1> QED BY <1>1, <1>2 DEF Init, Types, TypeOK, Free, NoWork, NoChange, WorkType, ChangeType,
                            Settled, Working, Reading

\* Settled calls and the moves of one call, which most steps are made of.
PcType == Settled \cup Working \cup {"invalidate", "cancelMine"}

LEMMA AskingTypes ==
    ASSUME Types, NEW c \in Calls, NEW r \in Requests, NEW p \in {"build", "load", "threw", "returned"},
           r.name \in Names, Begin(c, r, p)
    PROVE  Types'
  <1>1. r \in Request /\ (r.op = "add" => r.instance # NoInstance)
    BY StoreAssumption
  <1>2. call' \in [Calls -> Request]
    BY <1>1 DEF Types, TypeOK, Begin
  <1>3. pc' \in [Calls -> PcType]
    BY DEF Types, TypeOK, Begin, Goto, PcType, Settled, Working, Reading
  <1>4. alone' \subseteq Calls
    BY DEF Types, TypeOK, Begin
  <1>5. \A b \in Calls : /\ pc'[b] \in Working => call'[b].name \in Names
                         /\ call'[b].op = "add" => call'[b].instance # NoInstance
    BY <1>1 DEF Types, TypeOK, Begin, Goto, Name, Op
  <1> QED BY <1>2, <1>3, <1>4, <1>5
          DEF Types, TypeOK, Begin, memory, Name, Op, PcType, Settled, Working, Reading

LEMMA GetTypes ==
    ASSUME Types, NEW c \in Calls, Load(c) \/ GetOne(c) \/ GetFails(c) \/ GetDone(c)
    PROVE  Types'
  <1>1. Name(c) \in Names
    BY DEF Types, Load, GetOne, GetFails, GetDone, Working, Reading
  <1>2. CASE Load(c)
    <2>1. store[Name(c)] \in SUBSET Ids
      BY <1>1 DEF Types, TypeOK
    <2>2. NoChange \in ChangeType
      BY DEF NoChange, ChangeType
    <2>3. saving' \in [Calls -> ChangeType]
      BY <1>2, <2>2 DEF Load, Types
    <2>4. pc' \in [Calls -> PcType] /\ \A b \in Calls : pc'[b] \in Working => Name(b) \in Names
      BY <1>1, <1>2 DEF Load, Types, TypeOK, Goto, PcType, Settled, Working, Reading
    <2> QED BY <1>1, <1>2, <2>1, <2>3, <2>4
            DEF Load, Types, TypeOK, Name, Op, PcType, Settled, Working, Reading
  <1>3. CASE GetOne(c)
    <2> PICK id \in todo[c] :
          /\ todo' = [todo EXCEPT ![c] = @ \ {id}]
          /\ \/ /\ Live(id) /\ Found(c, id)
                /\ seen' = [seen EXCEPT ![c] = @ \cup {Deployment(id)}]
                /\ UNCHANGED <<pc, saving>>
             \/ /\ ~(Live(id) /\ Found(c, id))
                /\ saving' = [saving EXCEPT ![c] = [NoChange EXCEPT !.deleted = {id}]]
                /\ Goto(c, "pruneLoad")
                /\ UNCHANGED seen
      BY <1>3 DEF GetOne
    <2>1. id \in Ids
      BY DEF Types, TypeOK
    <2>2. Deployment(id) \in DeploymentType
      BY <2>1 DEF Types, TypeOK, Deployment, DeploymentType
    <2>3. [NoChange EXCEPT !.deleted = {id}] \in ChangeType
      BY <2>1 DEF NoChange, ChangeType
    <2>4. todo' \in [Calls -> SUBSET Ids]
      BY DEF Types, TypeOK
    <2>5. seen' \in [Calls -> SUBSET DeploymentType] /\ saving' \in [Calls -> ChangeType]
      BY <2>2, <2>3 DEF Types
    <2>6. pc' \in [Calls -> PcType] /\ \A b \in Calls : pc'[b] \in Working => Name(b) \in Names
      BY <1>1 DEF Types, TypeOK, Goto, PcType, Settled, Working, Reading
    <2> QED BY <1>3, <2>4, <2>5, <2>6
            DEF GetOne, Types, TypeOK, Name, Op, PcType, Settled, Working, Reading
  <1>4. CASE GetFails(c)
    BY <1>4 DEF GetFails, Throw, memory, Types, TypeOK, Goto, Name, Op, Settled, Working, Reading
  <1>5. CASE GetDone(c)
    <2>1. {d.id : d \in seen[c]} \in SUBSET Ids
      BY DEF Types, DeploymentType
    <2> QED BY <1>1, <1>5, <2>1 DEF GetDone, Types, TypeOK, Goto, Name, Op, Settled, Working, Reading
  <1> QED BY <1>2, <1>3, <1>4, <1>5

LEMMA BuildTypes ==
    ASSUME Types, NEW c \in Calls, Build(c) \/ BuildDone(c)
    PROVE  Types'
  <1>1. Name(c) \in Names
    BY DEF Types, Build, BuildDone, Working
  <1>2. CASE Build(c)
    <2>1. MayStay(Name(c)) \subseteq BOOLEAN
      BY DEF MayStay
    <2>2. \E w \in WorkType : work' = [work EXCEPT ![c] = w]
      <3>1. CASE Op(c) = "deploy" /\ work' = [work EXCEPT ![c] = DeployWork(call[c])]
        BY <1>1, <3>1, WorkTypes
      <3>2. CASE Op(c) = "update" /\ \E stays \in MayStay(Name(c)) :
                    work' = [work EXCEPT ![c] = UpdateWork(c, stays)]
        BY <1>1, <2>1, <3>2, WorkTypes
      <3>3. CASE Op(c) = "add" /\ work' = [work EXCEPT ![c] = AddWork(c)]
        BY <1>1, <3>3, WorkTypes
      <3>4. CASE \E d \in seen[c], stays \in MayStay(Name(c)) :
                    work' = [work EXCEPT ![c] =
                      Without(d, IF Op(c) = "delete" THEN d.instances
                                 ELSE d.instances \cap {call[c].instance}, stays)]
        <4> PICK d \in seen[c], stays \in MayStay(Name(c)) :
                    work' = [work EXCEPT ![c] =
                      Without(d, IF Op(c) = "delete" THEN d.instances
                                 ELSE d.instances \cap {call[c].instance}, stays)]
          BY <3>4
        <4>1. d.instances \in SUBSET Instances
          BY DEF Types, DeploymentType
        <4>2. (IF Op(c) = "delete" THEN d.instances
                ELSE d.instances \cap {call[c].instance}) \in SUBSET Instances
          BY <4>1
        <4> QED BY <1>1, <2>1, <4>2, WorkTypes
      <3> QED BY <1>2, <3>1, <3>2, <3>3, <3>4 DEF Build
    <2>3. todo' \in [Calls -> SUBSET Ids]
      <3>1. UNCHANGED todo \/ \E d : todo' = [todo EXCEPT ![c] = @ \ {d.id}]
        BY <1>2 DEF Build
      <3> QED BY <3>1 DEF Types, TypeOK
    <2>4. work' \in [Calls -> WorkType]
      BY <2>2 DEF Types
    <2> QED BY <1>1, <1>2, <2>3, <2>4 DEF Build, Types, TypeOK, Goto, Name, Op, Settled, Working, Reading
  <1>3. CASE BuildDone(c)
    BY <1>1, <1>3 DEF BuildDone, Types, TypeOK, Goto, Name, Op, Settled, Working, Reading
  <1> QED BY <1>2, <1>3

\* The contracts after a part of the work of a call.
LEMMA AppliedTypes ==
    ASSUME Types, NEW c \in Calls, Name(c) \in Names, NEW created \in SUBSET work[c].create,
           NEW fresh \in NewContracts(created), NEW updates \in SUBSET work[c].update,
           NEW deletes \in SUBSET Ids
    PROVE  /\ Applied(Name(c), fresh, updates, deletes) \in [Ids -> ContractType]
           /\ \A id \in Ids : Turned(contract[id], Applied(Name(c), fresh, updates, deletes)[id],
                                     Name(c), fresh, updates, deletes, id)
           /\ created \in SUBSET NewType /\ updates \in SUBSET DeploymentType
           /\ contract \in [Ids -> ContractType]
  <1>1. work[c] \in WorkType /\ contract \in [Ids -> ContractType]
    BY DEF Types, TypeOK, ContractType
  <1>2. created \in SUBSET NewType /\ updates \in SUBSET DeploymentType
    BY <1>1 DEF WorkType
  <1>3. \A id \in Ids : Turned(contract[id], Applied(Name(c), fresh, updates, deletes)[id],
                               Name(c), fresh, updates, deletes, id)
    BY <1>1, <1>2, AppliedFacts
  <1> QED BY <1>1, <1>2, <1>3 DEF Applied, Turned

LEMMA HandleTypes ==
    ASSUME Types, NEW c \in Calls, Handle(c) \/ HandleFails(c)
    PROVE  Types'
  <1>1. Name(c) \in Names /\ work[c] \in WorkType /\ results[c] \in ChangeType
    BY DEF Types, Handle, HandleFails, Working
  <1>2. CASE Handle(c)
    <2> PICK fresh \in NewContracts(work[c].create), along \in Along(c),
             rewired \in MayStay(Name(c)) :
         LET deletes == work[c].delete \cup along
             changes == [created |-> {fresh[t] : t \in DOMAIN fresh},
                         updated |-> {d.id : d \in work[c].update},
                         deleted |-> deletes]
             all == [created |-> changes.created,
                     updated |-> results[c].updated \cup changes.updated,
                     deleted |-> results[c].deleted \cup changes.deleted]
         IN /\ contract' = Applied(Name(c), fresh, work[c].update, deletes)
            /\ results' = [results EXCEPT ![c] = all]
            /\ saving' = [saving EXCEPT ![c] = all]
            /\ Goto(c, AfterHandle(c, changes, rewired))
      BY <1>2 DEF Handle
    <2> DEFINE deletes == work[c].delete \cup along
               changes == [created |-> {fresh[t] : t \in DOMAIN fresh},
                           updated |-> {d.id : d \in work[c].update},
                           deleted |-> deletes]
               all == [created |-> changes.created,
                       updated |-> results[c].updated \cup changes.updated,
                       deleted |-> results[c].deleted \cup changes.deleted]
    <2>1. along \in SUBSET Ids
      BY DEF Along, NetworkOnly
    <2>2. deletes \in SUBSET Ids
      BY <1>1, <2>1 DEF WorkType
    <2>3. contract' \in [Ids -> ContractType]
      BY <1>1, <2>2, AppliedTypes
    <2>4. changes.created \in SUBSET Ids
      BY DEF NewContracts, FreeIds
    <2>5. changes.updated \in SUBSET Ids
      BY <1>1 DEF WorkType, DeploymentType
    <2>6. all \in ChangeType
      BY <1>1, <2>2, <2>4, <2>5 DEF ChangeType
    <2>7. results' \in [Calls -> ChangeType] /\ saving' \in [Calls -> ChangeType]
      BY <2>6 DEF Types
    <2>8. AfterHandle(c, changes, rewired) \in {"build", "returned", "saveLoad"}
      BY DEF AfterHandle
    <2>9. pc' \in [Calls -> PcType] /\ \A b \in Calls : pc'[b] \in Working => Name(b) \in Names
      BY <1>1, <2>8 DEF Types, TypeOK, Goto, PcType, Settled, Working, Reading
    <2>10. disturbed' \subseteq Names
      BY <1>1, <1>2 DEF Handle, Types, TypeOK
    <2>11. UNCHANGED <<store, info, call, todo, seen, work, loaded, alone>>
      BY <1>2 DEF Handle
    <2> QED BY <2>3, <2>7, <2>9, <2>10, <2>11
            DEF Types, TypeOK, ContractType, Name, Op, PcType, Settled, Working, Reading
  <1>3. CASE HandleFails(c)
    <2> PICK created \in SUBSET work[c].create, deletes \in SUBSET work[c].delete,
            updates \in SUBSET {d \in work[c].update : Live(d.id)} :
         \E fresh \in NewContracts(created) :
           /\ contract' = Applied(Name(c), fresh, updates, deletes)
           /\ disturbed' = IF created # {} \/ Revives(updates)
                           THEN disturbed \cup {Name(c)} ELSE disturbed
      BY <1>3 DEF HandleFails
    <2>1. deletes \in SUBSET Ids /\ updates \in SUBSET work[c].update
      BY <1>1 DEF WorkType
    <2>2. contract' \in [Ids -> ContractType]
      <3> PICK fresh \in NewContracts(created) : contract' = Applied(Name(c), fresh, updates, deletes)
        OBVIOUS
      <3> QED BY <1>1, <2>1, AppliedTypes
    <2>3. disturbed' \subseteq Names
      BY <1>1 DEF Types, TypeOK
    <2> QED BY <1>1, <1>3, <2>2, <2>3
            DEF HandleFails, Throw, memory, Goto, Types, TypeOK, ContractType, Name, Op,
                Settled, Working, Reading
  <1> QED BY <1>2, <1>3

LEMMA SaveTypes ==
    ASSUME Types, NEW c \in Calls, SaveLoad(c) \/ SaveDump(c)
    PROVE  Types'
  <1>1. Name(c) \in Names /\ saving[c] \in ChangeType
    BY DEF Types, SaveLoad, SaveDump, Working, Reading
  <1>2. CASE SaveLoad(c)
    BY <1>1, <1>2 DEF SaveLoad, Types, TypeOK, Goto, Name, Op, Settled, Working, Reading
  <1>3. CASE SaveDump(c)
    <2>1. (loaded[c] \cup saving[c].created) \ saving[c].deleted \in SUBSET Ids
      BY <1>1 DEF Types, TypeOK, ChangeType
    <2>2. store' \in [Names -> SUBSET Ids]
      BY <1>3, <2>1 DEF SaveDump, Types, TypeOK
    <2>3. info' \in [Ids -> Names \cup {NoName}]
      BY <1>1, <1>3 DEF SaveDump, Types, TypeOK
    <2> QED BY <1>1, <1>3, <2>2, <2>3
            DEF SaveDump, memory, Types, TypeOK, Goto, Name, Op, Settled, Working, Reading
  <1> QED BY <1>2, <1>3

LEMMA CancelledTypes ==
    ASSUME Types, NEW id \in Ids, Cancelled(id)
    PROVE  /\ contract' \in [Ids -> ContractType] /\ alone' \subseteq Calls
           /\ \A k \in Ids : contract'[k] =
                IF k = id THEN [contract[id] EXCEPT !.state = "deleted", !.instances = {}]
                ELSE contract[k]
  <1> DEFINE gone == [contract[id] EXCEPT !.state = "deleted", !.instances = {}]
  <1>1. contract \in [Ids -> ContractType] /\ contract[id] \in ContractType
    BY DEF Types, TypeOK, ContractType
  <1>2. gone \in ContractType
    BY <1>1 DEF ContractType
  <1>3. contract' = [contract EXCEPT ![id] = gone]
    BY DEF Cancelled
  <1>4. alone' \subseteq Calls
    BY DEF Cancelled, Types, TypeOK
  <1> HIDE DEF gone
  <1>5. contract' \in [Ids -> ContractType] /\ \A k \in Ids : contract'[k] = IF k = id THEN gone ELSE contract[k]
    BY <1>1, <1>2, <1>3
  <1> QED BY <1>4, <1>5 DEF gone

LEMMA ContractsTypes ==
    ASSUME Types, NEW c \in Calls, Cancel(c) \/ Invalidate(c) \/ CancelMine(c) \/ Crash(c)
    PROVE  Types'
  <1>1. CASE Cancel(c)
    <2> PICK r \in Requests, id \in Ids \ FreeIds :
          /\ r.op = "cancel"
          /\ call' = [call EXCEPT ![c] = r]
          /\ Cancelled(id)
          /\ todo' = [todo EXCEPT ![c] = {id}]
      BY <1>1 DEF Cancel
    <2>1. contract' \in [Ids -> ContractType] /\ alone' \subseteq Calls
      BY CancelledTypes
    <2>2. r \in Request
      BY StoreAssumption
    <2> QED BY <1>1, <2>1, <2>2 DEF Cancel, Types, TypeOK, ContractType, Goto, Name, Op, Settled, Working, Reading
  <1>2. CASE Invalidate(c)
    <2> PICK id \in todo[c] :
         IF info[id] = NoName THEN Goto(c, "returned") /\ UNCHANGED <<call, disturbed, alone>>
         ELSE /\ call' = [call EXCEPT ![c].name = info[id]]
              /\ disturbed' = disturbed \cup {info[id]}
              /\ alone' = alone \ {b \in Calls : Name(b) = info[id]}
              /\ Goto(c, IF Exists(info[id]) THEN "load" ELSE "returned")
      BY <1>2 DEF Invalidate
    <2>1. CASE info[id] = NoName
      <3>1. UNCHANGED <<contract, store, info, memory, call, disturbed, alone>>
        BY <1>2, <2>1 DEF Invalidate
      <3>2. pc' \in [Calls -> PcType] /\ \A b \in Calls : pc'[b] = pc[b] \/ pc'[b] = "returned"
        BY <2>1 DEF Goto, Types, TypeOK, PcType, Settled, Working, Reading
      <3> QED BY <3>1, <3>2 DEF memory, Types, TypeOK, Name, Op, PcType, Settled, Working, Reading
    <2>2. CASE info[id] # NoName
      <3>1. info[id] \in Names
        BY <2>2 DEF Types, TypeOK
      <3>2. call' \in [Calls -> Request] /\ \A b \in Calls :
              /\ call'[b].op = call[b].op /\ call'[b].instance = call[b].instance
              /\ call'[b].name = IF b = c THEN info[id] ELSE call[b].name
        <4>1. call[c] \in Request
          BY DEF Types, TypeOK
        <4>2. [call[c] EXCEPT !.name = info[id]] \in Request
          BY <3>1, <4>1 DEF Request
        <4>3. call' = [call EXCEPT ![c] = [call[c] EXCEPT !.name = info[id]]]
          BY <2>2
        <4>4. call' \in [Calls -> Request]
          BY <4>2, <4>3 DEF Types, TypeOK
        <4>5. \A b \in Calls : call'[b] = IF b = c THEN [call[c] EXCEPT !.name = info[id]] ELSE call[b]
          BY <4>3 DEF Types, TypeOK
        <4> QED BY <4>1, <4>4, <4>5 DEF Request
      <3>3. pc' \in [Calls -> PcType] /\ \A b \in Calls \ {c} : pc'[b] = pc[b]
        BY <2>2 DEF Types, TypeOK, Goto, PcType, Settled, Working, Reading
      <3>4. disturbed' \subseteq Names /\ alone' \subseteq Calls
        BY <2>2, <3>1 DEF Types, TypeOK
      <3>5. UNCHANGED <<contract, store, info, memory>>
        BY <1>2 DEF Invalidate
      <3> QED BY <3>1, <3>2, <3>3, <3>4, <3>5 DEF memory, Types, TypeOK, Name, Op, PcType, Settled, Working, Reading
    <2> QED BY <2>1, <2>2
  <1>3. CASE CancelMine(c)
    <2>1. UNCHANGED <<store, info, seen, work, results, saving, loaded, disturbed>>
      BY <1>3 DEF CancelMine
    <2>2. CASE /\ pc[c] = "idle" /\ \E r \in Requests : r.op = "cancelMine"
                                             /\ call' = [call EXCEPT ![c] = r]
               /\ todo' = [todo EXCEPT ![c] = {id \in Ids : Live(id)}]
               /\ Goto(c, "cancelMine")
               /\ UNCHANGED <<contract, alone>>
      <3> PICK r \in Requests : r.op = "cancelMine" /\ call' = [call EXCEPT ![c] = r]
        BY <2>2
      <3>1. r \in Request
        BY StoreAssumption
      <3> QED BY <2>1, <2>2, <3>1 DEF Types, TypeOK, Goto, Name, Op, Settled, Working, Reading
    <2>3. CASE /\ pc[c] = "cancelMine"
               /\ \E id \in todo[c] : Cancelled(id) /\ todo' = [todo EXCEPT ![c] = @ \ {id}]
               /\ UNCHANGED <<pc, call>>
      <3>1. contract' \in [Ids -> ContractType] /\ alone' \subseteq Calls
        BY <2>3, CancelledTypes DEF Types, TypeOK
      <3>2. todo' \in [Calls -> SUBSET Ids]
        BY <2>3 DEF Types, TypeOK
      <3> QED BY <2>1, <2>3, <3>1, <3>2 DEF Types, TypeOK, ContractType, Name, Op
    <2>4. CASE /\ pc[c] = "cancelMine" /\ todo[c] = {}
               /\ Goto(c, "returned")
               /\ UNCHANGED <<contract, call, todo, alone>>
      BY <2>1, <2>4 DEF Types, TypeOK, Goto, Name, Op, Settled, Working, Reading
    <2> QED BY <1>3, <2>2, <2>3, <2>4 DEF CancelMine
  <1>4. CASE Crash(c)
    <2>1. pc[c] \in {"saveLoad", "saveDump"} => Name(c) \in Names
      BY DEF Types, Working
    <2>2. disturbed' \subseteq Names
      BY <1>4, <2>1 DEF Crash, Types, TypeOK
    <2> QED BY <1>4, <2>2 DEF Crash, memory, Types, TypeOK, Goto, Name, Op, Settled, Working, Reading
  <1> QED BY <1>1, <1>2, <1>3, <1>4

LEMMA TypesNext == Types /\ [Next]_vars => Types'
  <1> SUFFICES ASSUME Types, [Next]_vars PROVE Types'
    OBVIOUS
  <1>1. CASE UNCHANGED vars
    BY <1>1 DEF vars, memory, Types, TypeOK, Name, Op
  <1>2. CASE Next
    <2> PICK c \in Calls : Step(c) \/ Crash(c)
      BY <1>2 DEF Next
    <2>1. CASE Machines(c) \/ K8s(c) \/ Zdbs(c) \/ QsfsZdbs(c) \/ Gateway(c)
      BY <2>1, Asking, AskingTypes
    <2>2. CASE Load(c) \/ GetOne(c) \/ GetFails(c) \/ GetDone(c)
      BY <2>2, GetTypes
    <2>3. CASE Build(c) \/ BuildDone(c)
      BY <2>3, BuildTypes
    <2>4. CASE Handle(c) \/ HandleFails(c)
      BY <2>4, HandleTypes
    <2>5. CASE SaveLoad(c) \/ SaveDump(c)
      BY <2>5, SaveTypes
    <2>6. CASE Cancel(c) \/ Invalidate(c) \/ CancelMine(c) \/ Crash(c)
      BY <2>6, ContractsTypes
    <2> QED BY <2>1, <2>2, <2>3, <2>4, <2>5, <2>6 DEF Step
  <1> QED BY <1>1, <1>2

\* The variables keep their types, and a call at work has a name.
THEOREM TypeCorrect == Spec => []TypeOK
  <1>1. Types => TypeOK
    BY DEF Types
  <1> QED BY <1>1, TypesInit, TypesNext, PTL DEF Spec
-----------------------------------------------------------------------------
(***************************************************************************)
(* Ownership: whatever a call has in hand belongs to its deployment.       *)
(***************************************************************************)
Dumps == {"saveDump", "pruneDump"}
Saves == Dumps \cup {"saveLoad", "pruneLoad"}

Own(ids, n) == \A id \in ids : contract[id].state # "free" /\ contract[id].name = n

\* A call that has not begun has nothing in hand.
Owns(c) ==
    /\ pc[c] \in {"idle", "invalidate"} => seen[c] = {} /\ results[c] = NoChange
    /\ Own(results[c].created, Name(c))
    /\ pc[c] \in Reading \ {"load"} => Own(todo[c], Name(c))
    /\ pc[c] \in (Reading \ {"load"}) \cup {"build", "handle"} =>
         Own({d.id : d \in seen[c]}, Name(c))
    /\ pc[c] = "handle" => Own({d.id : d \in work[c].update} \cup work[c].delete, Name(c))
    /\ pc[c] \in Saves => Own(saving[c].created, Name(c))
    /\ pc[c] \in Dumps => Own(loaded[c], Name(c))
    /\ pc[c] = "cancelMine" => \A id \in todo[c] : contract[id].state # "free"

Ownership == Types /\ OwnContracts /\ \A c \in Calls : Owns(c)

\* A step works for one call.
Untouched(b) ==
    /\ pc'[b] = pc[b] /\ call'[b] = call[b] /\ todo'[b] = todo[b] /\ seen'[b] = seen[b]
    /\ work'[b] = work[b] /\ results'[b] = results[b] /\ saving'[b] = saving[b]
    /\ loaded'[b] = loaded[b]

LEMMA OneCall ==
    ASSUME Types, NEW c \in Calls, Step(c) \/ Crash(c), NEW b \in Calls \ {c}
    PROVE  Untouched(b)
  <1> USE DEF Types, TypeOK, memory, Goto, Untouched
  <1>1. CASE Machines(c) \/ K8s(c) \/ Zdbs(c) \/ QsfsZdbs(c) \/ Gateway(c)
    BY <1>1, Asking DEF Begin
  <1>2. CASE Load(c) BY <1>2 DEF Load
  <1>3. CASE GetOne(c) BY <1>3 DEF GetOne
  <1>4. CASE GetFails(c) BY <1>4 DEF GetFails, Throw
  <1>5. CASE GetDone(c) BY <1>5 DEF GetDone
  <1>6. CASE Build(c)
    <2>1. todo'[b] = todo[b] /\ work'[b] = work[b]
      BY <1>6 DEF Build
    <2> QED BY <1>6, <2>1 DEF Build
  <1>7. CASE BuildDone(c) BY <1>7 DEF BuildDone
  <1>8. CASE Handle(c)
    <2>1. results'[b] = results[b] /\ saving'[b] = saving[b] /\ pc'[b] = pc[b]
      BY <1>8 DEF Handle
    <2> QED BY <1>8, <2>1 DEF Handle
  <1>9. CASE HandleFails(c) BY <1>9 DEF HandleFails, Throw
  <1>10. CASE SaveLoad(c) BY <1>10 DEF SaveLoad
  <1>11. CASE SaveDump(c) BY <1>11 DEF SaveDump
  <1>12. CASE Cancel(c) BY <1>12 DEF Cancel
  <1>13. CASE Invalidate(c) BY <1>13 DEF Invalidate
  <1>14. CASE CancelMine(c) BY <1>14 DEF CancelMine
  <1>15. CASE Crash(c) BY <1>15 DEF Crash
  <1> QED BY <1>1, <1>2, <1>3, <1>4, <1>5, <1>6, <1>7, <1>8, <1>9, <1>10, <1>11, <1>12,
             <1>13, <1>14, <1>15 DEF Step

\* A contract keeps its deployment, and one that is deleted stays so.
Kept ==
    \A id \in Ids : contract[id].state # "free" =>
        /\ contract'[id].state # "free" /\ contract'[id].name = contract[id].name
        /\ contract[id].state = "deleted" => contract'[id].state = "deleted"

\* handle() makes contracts of the deployment of the call and no others; only
\* a call that fills what is empty makes instances appear in an old one.
LEMMA HandleKeeps ==
    ASSUME Types, NEW c \in Calls, Handle(c) \/ HandleFails(c)
    PROVE  /\ Kept
           /\ \A id \in Ids : contract[id].state # "free" /\ Live(id)' /\ contract[id].instances = {}
                               /\ contract'[id].instances # {}
                => Name(c) \in disturbed' /\ \E d \in work[c].update : d.id = id
           /\ \A id \in Ids : contract[id].state = "free" /\ Live(id)' =>
                /\ contract'[id].name = Name(c)
                /\ \/ Handle(c) /\ work[c].create # {} /\ id \in results'[c].created
                   \/ Name(c) \in disturbed'
  <1>1. Name(c) \in Names /\ work[c] \in WorkType
    BY DEF Types, Handle, HandleFails, Working
  <1>2. CASE Handle(c)
    <2> PICK fresh \in NewContracts(work[c].create), along \in Along(c),
             rewired \in MayStay(Name(c)) :
         LET deletes == work[c].delete \cup along
             changes == [created |-> {fresh[t] : t \in DOMAIN fresh},
                         updated |-> {d.id : d \in work[c].update},
                         deleted |-> deletes]
             all == [created |-> changes.created,
                     updated |-> results[c].updated \cup changes.updated,
                     deleted |-> results[c].deleted \cup changes.deleted]
         IN /\ contract' = Applied(Name(c), fresh, work[c].update, deletes)
            /\ results' = [results EXCEPT ![c] = all]
      BY <1>2 DEF Handle
    <2> DEFINE deletes == work[c].delete \cup along
    <2>1. deletes \in SUBSET Ids
      BY <1>1 DEF WorkType, Along, NetworkOnly
    <2>2. contract' = Applied(Name(c), fresh, work[c].update, deletes)
      OBVIOUS
    <2>3. results'[c].created = {fresh[t] : t \in DOMAIN fresh}
      BY DEF Types
    <2>4. DOMAIN fresh = work[c].create
      BY DEF NewContracts
    <2>5. disturbed' = IF Revives(work[c].update) THEN disturbed \cup {Name(c)} ELSE disturbed
      BY <1>2 DEF Handle
    <2>6. work[c].create \in SUBSET NewType /\ work[c].update \in SUBSET DeploymentType
          /\ contract \in [Ids -> ContractType]
      BY <1>1 DEF WorkType, Types, TypeOK, ContractType
    <2> HIDE DEF deletes
    <2>7. \A id \in Ids : Turned(contract[id], contract'[id], Name(c), fresh, work[c].update, deletes, id)
      BY <1>1, <2>1, <2>2, AppliedTypes
    <2>8. Kept
      BY <2>7 DEF Kept, Turned
    <2>9. ASSUME NEW id \in Ids, contract[id].state # "free", Live(id)', contract[id].instances = {},
                 contract'[id].instances # {}
          PROVE  Name(c) \in disturbed' /\ \E d \in work[c].update : d.id = id
      <3>1. \E d \in work[c].update : d.id = id /\ d.instances # {}
        BY <2>7, <2>9 DEF Live, Turned
      <3> QED BY <2>5, <2>9, <3>1 DEF Revives
    <2>10. ASSUME NEW id \in Ids, contract[id].state = "free", Live(id)'
          PROVE  /\ contract'[id].name = Name(c) /\ work[c].create # {}
                 /\ id \in results'[c].created
      <3>1. contract'[id].name = Name(c) /\ \E t \in DOMAIN fresh : fresh[t] = id
        BY <2>7, <2>10 DEF Live, Turned
      <3> QED BY <2>3, <2>4, <3>1
    <2> QED BY <1>2, <2>8, <2>9, <2>10
  <1>3. CASE HandleFails(c)
    <2> PICK created \in SUBSET work[c].create, deletes \in SUBSET work[c].delete,
            updates \in SUBSET {d \in work[c].update : Live(d.id)} :
         \E fresh \in NewContracts(created) :
           /\ contract' = Applied(Name(c), fresh, updates, deletes)
           /\ disturbed' = IF created # {} \/ Revives(updates)
                           THEN disturbed \cup {Name(c)} ELSE disturbed
      BY <1>3 DEF HandleFails
    <2> PICK fresh \in NewContracts(created) :
           /\ contract' = Applied(Name(c), fresh, updates, deletes)
           /\ disturbed' = IF created # {} \/ Revives(updates)
                           THEN disturbed \cup {Name(c)} ELSE disturbed
      OBVIOUS
    <2>1. deletes \in SUBSET Ids /\ updates \in SUBSET work[c].update
      BY <1>1 DEF WorkType
    <2>2. DOMAIN fresh = created
      BY DEF NewContracts
    <2>3. \A id \in Ids : Turned(contract[id], contract'[id], Name(c), fresh, updates, deletes, id)
      BY <1>1, <2>1, AppliedTypes
    <2>4. Kept
      BY <2>3 DEF Kept, Turned
    <2>5. ASSUME NEW id \in Ids, contract[id].state # "free", Live(id)', contract[id].instances = {},
                 contract'[id].instances # {}
          PROVE  Name(c) \in disturbed' /\ \E d \in work[c].update : d.id = id
      <3>1. \E d \in updates : d.id = id /\ d.instances # {}
        BY <2>3, <2>5 DEF Live, Turned
      <3> QED BY <2>1, <2>5, <3>1 DEF Revives
    <2>6. ASSUME NEW id \in Ids, contract[id].state = "free", Live(id)'
          PROVE  contract'[id].name = Name(c) /\ Name(c) \in disturbed'
      <3>1. contract'[id].name = Name(c) /\ \E t \in DOMAIN fresh : fresh[t] = id
        BY <2>3, <2>6 DEF Live, Turned
      <3> QED BY <2>2, <3>1
    <2> QED BY <2>4, <2>5, <2>6
  <1> QED BY <1>2, <1>3

LEMMA HandleResults ==
    ASSUME Types, NEW c \in Calls, Handle(c)
    PROVE  /\ saving'[c] = results'[c]
           /\ pc'[c] \in {"build", "returned", "saveLoad"}
           /\ work[c].create # {} /\ Op(c) # "delete" => pc'[c] = "saveLoad"
           /\ \A id \in results'[c].created : Live(id)' /\ contract'[id].name = Name(c)
           /\ \A id \in results'[c].deleted :
                \/ id \in results[c].deleted
                \/ /\ id \in work[c].delete \/ Live(id)
                   /\ contract[id].state # "free" => contract'[id].state = "deleted"
  <1>1. Name(c) \in Names /\ work[c] \in WorkType
    BY DEF Types, Handle, Working
  <1> PICK fresh \in NewContracts(work[c].create), along \in Along(c),
           rewired \in MayStay(Name(c)) :
         LET deletes == work[c].delete \cup along
             changes == [created |-> {fresh[t] : t \in DOMAIN fresh},
                         updated |-> {d.id : d \in work[c].update},
                         deleted |-> deletes]
             all == [created |-> changes.created,
                     updated |-> results[c].updated \cup changes.updated,
                     deleted |-> results[c].deleted \cup changes.deleted]
         IN /\ contract' = Applied(Name(c), fresh, work[c].update, deletes)
            /\ results' = [results EXCEPT ![c] = all]
            /\ saving' = [saving EXCEPT ![c] = all]
            /\ Goto(c, AfterHandle(c, changes, rewired))
    BY DEF Handle
  <1> DEFINE deletes == work[c].delete \cup along
             changes == [created |-> {fresh[t] : t \in DOMAIN fresh},
                         updated |-> {d.id : d \in work[c].update},
                         deleted |-> deletes]
  <1>2. along \subseteq NetworkOnly /\ NetworkOnly \subseteq Ids /\ \A id \in NetworkOnly : Live(id)
    BY DEF Along, NetworkOnly
  <1>3. DOMAIN fresh = work[c].create /\ \A t \in DOMAIN fresh : fresh[t] \in Ids
    BY DEF NewContracts, FreeIds
  <1>4. deletes \in SUBSET Ids
    BY <1>1, <1>2 DEF WorkType
  <1>5. /\ contract' = Applied(Name(c), fresh, work[c].update, deletes)
        /\ pc'[c] = AfterHandle(c, changes, rewired)
    BY DEF Goto, Types, TypeOK
  <1>6. saving'[c] = results'[c] /\ results'[c].created = changes.created
        /\ results'[c].deleted = results[c].deleted \cup deletes
    BY DEF Types
  <1>7. \A id \in Ids : Turned(contract[id], contract'[id], Name(c), fresh, work[c].update, deletes, id)
    BY <1>1, <1>4, <1>5, AppliedTypes
  <1>8. work[c].create # {} => changes # NoChange
    BY <1>3 DEF NoChange
  <1>9. pc'[c] \in {"build", "returned", "saveLoad"}
        /\ (work[c].create # {} /\ Op(c) # "delete" => pc'[c] = "saveLoad")
    BY <1>5, <1>8 DEF AfterHandle
  <1>10. ASSUME NEW id \in results'[c].created PROVE Live(id)' /\ contract'[id].name = Name(c)
    <2>1. id \in Ids /\ \E t \in DOMAIN fresh : fresh[t] = id
      BY <1>3, <1>6
    <2> QED BY <1>7, <2>1 DEF Turned, Live
  <1>11. ASSUME NEW id \in results'[c].deleted, id \notin results[c].deleted
         PROVE  /\ id \in work[c].delete \/ Live(id)
                /\ contract[id].state # "free" => contract'[id].state = "deleted"
    BY <1>2, <1>4, <1>6, <1>7, <1>11 DEF Turned
  <1> QED BY <1>6, <1>9, <1>10, <1>11

\* The other steps only delete contracts.
OnlyDeletes ==
    \A id \in Ids : contract'[id] = contract[id]
                    \/ /\ contract'[id] = [contract[id] EXCEPT !.state = "deleted", !.instances = {}]
                       /\ contract[id].state # "free"

LEMMA OthersDelete ==
    ASSUME Types, NEW c \in Calls, Step(c) \/ Crash(c), ~Handle(c), ~HandleFails(c),
           Owns(c)
    PROVE  OnlyDeletes
  <1>1. CASE UNCHANGED contract
    BY <1>1 DEF OnlyDeletes
  <1>2. ASSUME NEW id \in Ids, contract[id].state # "free", Cancelled(id) PROVE OnlyDeletes
    BY <1>2, CancelledTypes DEF OnlyDeletes
  <1>3. CASE Cancel(c)
    BY <1>2, <1>3 DEF Cancel, FreeIds
  <1>4. CASE CancelMine(c)
    <2>1. todo[c] \subseteq Ids
      BY DEF Types, TypeOK
    <2> QED BY <1>1, <1>2, <1>4, <2>1 DEF CancelMine, Owns
  <1>5. CASE Machines(c) \/ K8s(c) \/ Zdbs(c) \/ QsfsZdbs(c) \/ Gateway(c)
    BY <1>1, <1>5, Asking DEF Begin
  <1> QED
    BY <1>1, <1>3, <1>4, <1>5
    DEF Step, Load, GetOne, GetFails, GetDone, Build, BuildDone, SaveLoad, SaveDump, Invalidate, Crash

LEMMA StepKeeps ==
    ASSUME Types, NEW c \in Calls, Step(c) \/ Crash(c), Owns(c)
    PROVE  Kept
  <1>1. CASE Handle(c) \/ HandleFails(c)
    BY <1>1, HandleKeeps
  <1>2. CASE ~Handle(c) /\ ~HandleFails(c)
    <2>1. OnlyDeletes
      BY <1>2, OthersDelete
    <2>2. \A id \in Ids : contract[id] \in ContractType
      BY DEF Types, TypeOK, ContractType
    <2> QED BY <2>1, <2>2 DEF OnlyDeletes, Kept, ContractType
  <1> QED BY <1>1, <1>2

LEMMA OthersOwn ==
    ASSUME Types, NEW b \in Calls, Owns(b), Kept, Untouched(b)
    PROVE  Owns(b)'
  <1>1. /\ todo[b] \subseteq Ids /\ loaded[b] \subseteq Ids /\ seen[b] \subseteq DeploymentType
        /\ results[b].created \subseteq Ids /\ saving[b].created \subseteq Ids
        /\ work[b].update \subseteq DeploymentType /\ work[b].delete \subseteq Ids
    BY DEF Types, TypeOK, ChangeType, WorkType
  <1>2. {d.id : d \in seen[b]} \subseteq Ids /\ {d.id : d \in work[b].update} \subseteq Ids
    BY <1>1 DEF DeploymentType
  <1> QED BY <1>1, <1>2 DEF Owns, Own, Kept, Untouched, Name

\* What was owned before the step is owned after it.
LEMMA OwnKept ==
    ASSUME Kept
    PROVE  \A ids \in SUBSET Ids, n \in Names \cup {NoName} :
             Own(ids, n) => \A id \in ids : contract'[id].state # "free" /\ contract'[id].name = n
  BY DEF Own, Kept

LEMMA ReadersOwn ==
    ASSUME Ownership, NEW c \in Calls, Kept, Types',
           \/ Machines(c) \/ K8s(c) \/ Zdbs(c) \/ QsfsZdbs(c) \/ Gateway(c)
           \/ Load(c) \/ GetOne(c) \/ GetFails(c) \/ GetDone(c)
    PROVE  Owns(c)'
  <1> USE DEF Ownership, Own, Name, Saves, Dumps, Reading
  <1>1. Types /\ Owns(c)
    OBVIOUS
  <1>2. /\ todo[c] \subseteq Ids /\ seen[c] \subseteq DeploymentType /\ results[c].created \subseteq Ids
        /\ saving[c].created \subseteq Ids /\ loaded[c] \subseteq Ids
        /\ {d.id : d \in seen[c]} \subseteq Ids
    BY <1>1 DEF Types, TypeOK, ChangeType, DeploymentType
  <1>3. CASE Machines(c) \/ K8s(c) \/ Zdbs(c) \/ QsfsZdbs(c) \/ Gateway(c)
    <2>1. PICK r \in Requests, p \in {"build", "load", "threw", "returned"} : Begin(c, r, p)
      BY <1>3, Asking
    <2> QED BY <1>1, <2>1 DEF Begin, memory, Goto, Types, TypeOK, Owns, NoChange
  <1>4. CASE Load(c)
    <2>1. Name(c) \in Names
      BY <1>1, <1>4 DEF Types, Load, Working
    <2>2. /\ pc'[c] \in {"get", "pruneLoad"} /\ todo'[c] = store[Name(c)] /\ seen'[c] = {}
          /\ pc'[c] = "pruneLoad" => saving'[c].created = {}
          /\ UNCHANGED <<contract, call, results>>
      BY <1>4 DEF Load, Goto, Types, TypeOK, NoChange
    <2> QED BY <1>1, <2>1, <2>2 DEF OwnContracts, Owns
  <1>5. CASE GetOne(c)
    <2>1. UNCHANGED <<contract, call, results>> /\ pc[c] = "get"
      BY <1>5 DEF GetOne
    <2>2. PICK id \in todo[c] :
          /\ todo'[c] = todo[c] \ {id}
          /\ \/ seen'[c] = seen[c] \cup {Deployment(id)} /\ pc'[c] = "get"
             \/ seen'[c] = seen[c] /\ pc'[c] = "pruneLoad" /\ saving'[c].created = {}
      BY <1>5 DEF GetOne, Goto, Types, TypeOK, NoChange
    <2>3. Deployment(id).id = id
      BY DEF Deployment
    <2>4. \A d \in seen'[c] : d \in seen[c] \/ d.id = id
      BY <2>2, <2>3
    <2>5. Own({d.id : d \in seen[c]}, Name(c)) /\ Own(todo[c], Name(c))
      BY <1>1, <2>1 DEF Owns
    <2>6. \A k \in {d.id : d \in seen'[c]} : contract[k].state # "free" /\ contract[k].name = Name(c)
      BY <2>4, <2>5
    <2> QED BY <1>1, <2>1, <2>2, <2>5, <2>6 DEF Owns
  <1>6. CASE GetFails(c)
    BY <1>1, <1>6 DEF GetFails, Throw, memory, Goto, Types, TypeOK, Owns
  <1>7. CASE GetDone(c)
    BY <1>1, <1>7 DEF GetDone, Goto, Types, TypeOK, Owns
  <1> QED BY <1>3, <1>4, <1>5, <1>6, <1>7

\* What is handed to handle() is about the deployments that were read.
About(w) == {d.id : d \in w.update} \cup w.delete

LEMMA WorkSeen ==
    ASSUME Types, NEW c \in Calls
    PROVE  LET ids == {d.id : d \in seen[c]}
           IN /\ About(DeployWork(call[c])) = {}
              /\ \A stays \in BOOLEAN : About(UpdateWork(c, stays)) \subseteq ids
              /\ About(AddWork(c)) \subseteq ids
              /\ \A d \in seen[c] : \A gone, stays :
                   About(Without(d, gone, stays)) \subseteq ids /\ Without(d, gone, stays).create = {}
  <1> DEFINE r == call[c]
             ids == {d.id : d \in seen[c]}
  <1>1. seen[c] \in SUBSET DeploymentType
    BY DEF Types
  <1>2. About(DeployWork(r)) = {}
    BY DEF About, DeployWork, NoWork
  <1>3. ASSUME NEW d \in seen[c], NEW gone, NEW stays
        PROVE  /\ About(Without(d, gone, stays)) \subseteq ids
               /\ Without(d, gone, stays).create = {}
    <2>1. [d EXCEPT !.instances = @ \ gone].id = d.id
      BY <1>1 DEF DeploymentType
    <2> QED BY <2>1 DEF About, Without, NoWork
  <1>4. ASSUME NEW stays \in BOOLEAN PROVE About(UpdateWork(c, stays)) \subseteq ids
    <2> DEFINE used == {x \in Nodes : r.plan[x] # {}}
               kept == {d \in seen[c] : d.node \in used /\ d.id \in store[Name(c)]}
               removes == {Without(d, d.instances, stays) : d \in seen[c] \ kept}
               changes == [create |-> {New(x, r.plan[x]) : x \in used \ ListedNodes(Name(c))},
                           update |-> UNION {Changed(d, r.plan[d.node]) : d \in kept},
                           delete |-> {}]
    <2>1. \A w \in removes : About(w) \subseteq ids
      BY <1>3
    <2>2. \A d \in kept : \A new : \A e \in Changed(d, new) : e.id = d.id
      BY <1>1 DEF Changed, DeploymentType
    <2>3. About(changes) \subseteq ids
      BY <2>2 DEF About
    <2>4. UpdateWork(c, stays) = Together(removes \cup {changes})
      BY DEF UpdateWork
    <2>5. ASSUME NEW works, \A w \in works : About(w) \subseteq ids
          PROVE  About(Together(works)) \subseteq ids
      BY <2>5 DEF About, Together
    <2>6. \A w \in removes \cup {changes} : About(w) \subseteq ids
      BY <2>1, <2>3
    <2> QED BY <2>4, <2>5, <2>6
  <1>5. About(AddWork(c)) \subseteq ids
    <2> DEFINE old == {d \in seen[c] : d.node = r.node /\ d.id \in store[Name(c)]}
    <2>1. CASE old # {}
      <3> DEFINE d == CHOOSE e \in old : TRUE
      <3>1. d \in seen[c] /\ d \in DeploymentType
        BY <1>1, <2>1
      <3>2. [d EXCEPT !.instances = @ \cup {r.instance}].id = d.id
        BY <3>1 DEF DeploymentType
      <3>3. AddWork(c) = [NoWork EXCEPT !.update = {[d EXCEPT !.instances = @ \cup {r.instance}]}]
        BY <2>1 DEF AddWork
      <3> HIDE DEF d
      <3> QED BY <3>1, <3>2, <3>3 DEF About, NoWork
    <2>2. CASE old = {}
      BY <2>2 DEF AddWork, About, NoWork
    <2> QED BY <2>1, <2>2
  <1> QED BY <1>2, <1>3, <1>4, <1>5

LEMMA BuildersOwn ==
    ASSUME Ownership, NEW c \in Calls, Types', Build(c) \/ BuildDone(c)
    PROVE  Owns(c)'
  <1> USE DEF Ownership, Own, Name, Saves, Dumps, Reading
  <1>1. Types /\ Owns(c)
    OBVIOUS
  <1>2. CASE Build(c)
    <2>1. /\ UNCHANGED <<contract, call, seen, results>>
          /\ pc[c] = "build" /\ pc'[c] = "handle"
      BY <1>2 DEF Build, Goto, Types, TypeOK
    <2>2. MayStay(Name(c)) \subseteq BOOLEAN
      BY DEF MayStay
    <2>3. About(work'[c]) \subseteq {d.id : d \in seen[c]}
      <3>1. \/ work'[c] = DeployWork(call[c])
            \/ \E stays \in BOOLEAN : work'[c] = UpdateWork(c, stays)
            \/ work'[c] = AddWork(c)
            \/ \E d \in seen[c] : \E gone, stays : work'[c] = Without(d, gone, stays)
        <4>1. ASSUME NEW w, work' = [work EXCEPT ![c] = w] PROVE work'[c] = w
          BY <4>1 DEF Types
        <4> QED BY <1>2, <2>2, <4>1 DEF Build
      <3> QED BY <3>1, WorkSeen
    <2> QED BY <1>1, <2>1, <2>3 DEF Owns, About
  <1>3. CASE BuildDone(c)
    BY <1>1, <1>3 DEF BuildDone, Goto, Types, TypeOK, Owns
  <1> QED BY <1>2, <1>3

LEMMA HandlersOwn ==
    ASSUME Ownership, NEW c \in Calls, Kept, Types', Handle(c) \/ HandleFails(c)
    PROVE  Owns(c)'
  <1>1. Types /\ Owns(c) /\ pc[c] = "handle"
    BY DEF Ownership, Handle, HandleFails
  <1>2. CASE Handle(c)
    <2>1. UNCHANGED <<call, todo, seen, work, loaded>>
      BY <1>2 DEF Handle
    <2>2. {d.id : d \in seen[c]} \subseteq Ids
      BY <1>1 DEF Types, DeploymentType
    <2>3. Own({d.id : d \in seen[c]}, Name(c))
      BY <1>1 DEF Owns
    <2>4. /\ pc'[c] \in {"build", "returned", "saveLoad"} /\ saving'[c] = results'[c]
          /\ \A id \in results'[c].created : Live(id)' /\ contract'[id].name = Name(c)
      BY <1>1, <1>2, HandleResults
    <2>5. \A id \in {d.id : d \in seen[c]} : contract'[id].state # "free" /\ contract'[id].name = Name(c)
      BY <2>2, <2>3 DEF Own, Kept
    <2>6. \A id \in results'[c].created : contract'[id].state # "free" /\ contract'[id].name = Name(c)
      BY <2>4 DEF Live
    <2> QED BY <2>1, <2>4, <2>5, <2>6 DEF Owns, Own, Name, Saves, Dumps, Reading
  <1>3. CASE HandleFails(c)
    <2>1. UNCHANGED <<call, memory>> /\ pc'[c] = "threw"
      BY <1>3 DEF HandleFails, Throw, Goto, Types, TypeOK
    <2>2. results[c].created \subseteq Ids
      BY DEF Ownership, Types, ChangeType
    <2> QED BY <1>1, <2>1, <2>2 DEF Owns, Own, Kept, memory, Name, Saves, Dumps, Reading
  <1> QED BY <1>2, <1>3

LEMMA SaversOwn ==
    ASSUME Ownership, NEW c \in Calls, Kept, Types',
           SaveLoad(c) \/ SaveDump(c) \/ Cancel(c) \/ Invalidate(c) \/ CancelMine(c) \/ Crash(c)
    PROVE  Owns(c)'
  <1> USE DEF Ownership, Own, Name, Saves, Dumps, Reading
  <1>1. Types /\ Owns(c) /\ OwnContracts
    OBVIOUS
  <1>2. CASE SaveLoad(c)
    <2>1. Name(c) \in Names
      BY <1>1, <1>2 DEF Types, SaveLoad, Working
    <2>2. loaded'[c] = store[Name(c)] /\ UNCHANGED <<contract, call, todo, seen, work, results, saving>>
      BY <1>2 DEF SaveLoad, Types, TypeOK
    <2>3. \/ pc[c] = "saveLoad" /\ pc'[c] = "saveDump"
          \/ pc[c] = "pruneLoad" /\ pc'[c] = "pruneDump"
      BY <1>2 DEF SaveLoad, Goto, Types, TypeOK
    <2> QED BY <1>1, <2>1, <2>2, <2>3 DEF Owns, OwnContracts
  <1>3. CASE SaveDump(c)
    <2>1. UNCHANGED <<contract, call, memory>>
      BY <1>3 DEF SaveDump
    <2>2. \/ pc[c] = "saveDump" /\ pc'[c] \in {"load", "returned"}
          \/ pc[c] = "pruneDump" /\ pc'[c] = "get"
      BY <1>3 DEF SaveDump, Goto, Types, TypeOK
    <2> QED BY <1>1, <2>1, <2>2 DEF Owns, memory
  <1>4. CASE Cancel(c)
    BY <1>1, <1>4 DEF Cancel, Goto, Types, TypeOK, Owns, NoChange
  <1>5. CASE Invalidate(c)
    <2>1. seen[c] = {} /\ results[c] = NoChange /\ UNCHANGED <<contract, memory>>
      BY <1>1, <1>5 DEF Invalidate, Owns
    <2>2. pc'[c] \in {"load", "returned"}
      BY <1>5 DEF Invalidate, Goto, Types, TypeOK
    <2> QED BY <2>1, <2>2 DEF Owns, NoChange, memory
  <1>6. CASE CancelMine(c)
    <2>1. UNCHANGED <<seen, results>> /\ call'[c] \in Request
      BY <1>6 DEF CancelMine, Types, TypeOK
    <2>2. results[c].created \subseteq Ids /\ todo[c] \subseteq Ids
      BY <1>1 DEF Types, TypeOK, ChangeType
    <2>3. CASE /\ pc[c] = "idle" /\ pc'[c] = "cancelMine" /\ UNCHANGED contract
               /\ todo'[c] = {id \in Ids : Live(id)}
      BY <1>1, <2>1, <2>3 DEF Owns, NoChange, Live
    <2>4. CASE /\ pc[c] = "cancelMine" /\ pc'[c] \in {"cancelMine", "returned"}
               /\ todo'[c] \subseteq todo[c] /\ UNCHANGED call
      BY <1>1, <2>1, <2>2, <2>4 DEF Owns, Kept
    <2> QED BY <1>6, <2>3, <2>4 DEF CancelMine, Goto, Types, TypeOK
  <1>7. CASE Crash(c)
    BY <1>1, <1>7 DEF Crash, memory, Goto, Types, TypeOK, Owns
  <1> QED BY <1>2, <1>3, <1>4, <1>5, <1>6, <1>7

LEMMA StoresOwn ==
    ASSUME Ownership, NEW c \in Calls, Kept, Types', Step(c) \/ Crash(c)
    PROVE  OwnContracts'
  <1>1. Types /\ OwnContracts /\ Owns(c)
    BY DEF Ownership
  <1>2. CASE UNCHANGED store
    <2>1. \A n \in Names : store[n] \subseteq Ids
      BY <1>1 DEF Types, TypeOK
    <2> QED BY <1>1, <1>2, <2>1 DEF OwnContracts, Kept
  <1>3. CASE SaveDump(c)
    <2>1. /\ store' = [store EXCEPT ![Name(c)] = (loaded[c] \cup saving[c].created) \ saving[c].deleted]
          /\ UNCHANGED contract /\ pc[c] \in Dumps
      BY <1>3 DEF SaveDump, Dumps
    <2>2. Own(loaded[c], Name(c)) /\ Own(saving[c].created, Name(c))
      BY <1>1, <2>1 DEF Owns, Saves
    <2> QED BY <1>1, <2>1, <2>2 DEF OwnContracts, Own, Types, TypeOK
  <1>4. CASE Machines(c) \/ K8s(c) \/ Zdbs(c) \/ QsfsZdbs(c) \/ Gateway(c)
    BY <1>2, <1>4, Asking DEF Begin
  <1> QED
    BY <1>2, <1>3, <1>4
    DEF Step, Load, GetOne, GetFails, GetDone, Build, BuildDone, Handle, HandleFails, SaveLoad,
        Cancel, Invalidate, CancelMine, Crash

LEMMA OwnershipInit == Init => Ownership
  <1> SUFFICES ASSUME Init PROVE Ownership
    OBVIOUS
  <1>1. Types
    BY TypesInit
  <1> QED BY <1>1 DEF Init, Ownership, OwnContracts, Owns, Own, NoChange, Saves, Dumps, Reading

LEMMA OwnershipNext == Ownership /\ [Next]_vars => Ownership'
  <1> SUFFICES ASSUME Ownership, [Next]_vars PROVE Ownership'
    OBVIOUS
  <1>1. Types /\ Types'
    BY TypesNext DEF Ownership
  <1>2. CASE UNCHANGED vars
    BY <1>1, <1>2 DEF vars, memory, Ownership, OwnContracts, Owns, Own, Name
  <1>3. CASE Next
    <2> PICK c \in Calls : Step(c) \/ Crash(c)
      BY <1>3 DEF Next
    <2>1. Owns(c) /\ Kept
      BY <1>1, StepKeeps DEF Ownership
    <2>2. OwnContracts'
      BY <1>1, <2>1, StoresOwn
    <2>3. Owns(c)'
      BY <1>1, <2>1, ReadersOwn, BuildersOwn, HandlersOwn, SaversOwn DEF Step
    <2>4. ASSUME NEW b \in Calls \ {c} PROVE Owns(b)'
      BY <1>1, <2>1, OneCall, OthersOwn DEF Ownership
    <2> QED BY <1>1, <2>2, <2>3, <2>4 DEF Ownership
  <1> QED BY <1>2, <1>3

\* contracts.json never lists a contract of another deployment.
THEOREM ListsOwn == Spec => []OwnContracts
  <1>1. Ownership => OwnContracts
    BY DEF Ownership
  <1> QED BY <1>1, OwnershipInit, OwnershipNext, PTL DEF Spec
-----------------------------------------------------------------------------
(***************************************************************************)
(* Nothing is forgotten.  Only an undisturbed deployment counts: no other  *)
(* call saves it between the read and the write of a save, so that what is *)
(* written is what is listed, with the changes of the call.                *)
(***************************************************************************)
\* What a call takes from the list is deleted or empty, for good.
Careful(c) ==
    /\ \A id \in results[c].deleted : contract[id].state = "deleted"
    /\ pc[c] \in Saves => \A id \in saving[c].deleted :
         /\ contract[id].state # "free"
         /\ Live(id) => /\ contract[id].name = Name(c)
                        /\ Name(c) \in disturbed \/ contract[id].instances = {}
    /\ Op(c) = "cancel" /\ pc[c] \in Reading => Name(c) \in disturbed
    /\ Op(c) = "delete" /\ pc[c] = "handle" => work[c].create = {}

\* What it has read is what is listed when it writes.
UpToDate(c) ==
    pc[c] \in Dumps /\ Name(c) \notin disturbed => loaded[c] = store[Name(c)]

OneSaves ==
    \A b, c \in Calls : b # c /\ pc[b] \in Dumps /\ pc[c] \in Dumps /\ Name(b) = Name(c)
        => Name(c) \in disturbed

Remembering ==
    /\ Ownership
    /\ \A c \in Calls : Careful(c) /\ UpToDate(c)
    /\ OneSaves /\ NothingForgotten /\ InfoNamesDeployment

\* Instances only appear in a contract that is new, which its call is about to
\* save, or in a disturbed deployment.
Calm(c) ==
    /\ disturbed \subseteq disturbed'
    /\ \A id \in Ids : Live(id)' /\ contract'[id].instances # {} =>
         IF contract[id].state = "free"
         THEN \/ contract'[id].name \in disturbed'
              \/ pc'[c] = "saveLoad" /\ id \in saving'[c].created
         ELSE contract[id].instances # {} \/ contract'[id].name \in disturbed'

LEMMA DisturbedStays ==
    ASSUME NEW c \in Calls, Step(c) \/ Crash(c)
    PROVE  disturbed \subseteq disturbed'
  <1>1. CASE Machines(c) \/ K8s(c) \/ Zdbs(c) \/ QsfsZdbs(c) \/ Gateway(c)
    BY <1>1, Asking DEF Begin
  <1>2. CASE HandleFails(c) \/ Handle(c) \/ SaveLoad(c) \/ Invalidate(c) \/ Crash(c)
    BY <1>2 DEF HandleFails, Handle, SaveLoad, Invalidate, Crash
  <1> QED
    BY <1>1, <1>2
    DEF Step, Load, GetOne, GetFails, GetDone, Build, BuildDone, SaveDump, Cancel, CancelMine

LEMMA StepCalm ==
    ASSUME Ownership, NEW c \in Calls, Careful(c), Step(c) \/ Crash(c)
    PROVE  Calm(c)
  <1>1. Types /\ Owns(c) /\ disturbed \subseteq disturbed'
    BY DisturbedStays DEF Ownership
  <1>2. CASE Handle(c) \/ HandleFails(c)
    <2>1. ASSUME NEW id \in Ids, Live(id)', contract'[id].instances # {}, contract[id].state = "free"
          PROVE  \/ contract'[id].name \in disturbed'
                 \/ pc'[c] = "saveLoad" /\ id \in saving'[c].created
      <3>1. /\ contract'[id].name = Name(c)
            /\ \/ Handle(c) /\ work[c].create # {} /\ id \in results'[c].created
               \/ Name(c) \in disturbed'
        BY <1>1, <1>2, <2>1, HandleKeeps
      <3>2. ASSUME Handle(c), work[c].create # {}, id \in results'[c].created
            PROVE  pc'[c] = "saveLoad" /\ id \in saving'[c].created
        <4>1. Op(c) # "delete"
          BY <3>2 DEF Careful, Handle
        <4> QED BY <1>1, <3>2, <4>1, HandleResults
      <3> QED BY <3>1, <3>2
    <2>2. ASSUME NEW id \in Ids, Live(id)', contract'[id].instances # {},
                 contract[id].state # "free", contract[id].instances = {}
          PROVE  contract'[id].name \in disturbed'
      <3>1. Name(c) \in disturbed' /\ \E d \in work[c].update : d.id = id
        BY <1>1, <1>2, <2>2, HandleKeeps
      <3>2. contract[id].name = Name(c)
        BY <1>1, <1>2, <3>1 DEF Owns, Own, Handle, HandleFails
      <3>3. contract'[id].name = contract[id].name
        BY <1>1, <1>2, <2>2, HandleKeeps DEF Kept
      <3> QED BY <3>1, <3>2, <3>3
    <2> QED BY <1>1, <2>1, <2>2 DEF Calm
  <1>3. CASE ~Handle(c) /\ ~HandleFails(c)
    <2>1. OnlyDeletes
      BY <1>1, <1>3, OthersDelete
    <2>2. \A id \in Ids : contract[id] \in ContractType
      BY <1>1 DEF Types, TypeOK, ContractType
    <2>3. ASSUME NEW id \in Ids, Live(id)', contract'[id].instances # {}
          PROVE  contract[id].state # "free" /\ contract[id].instances # {}
      <3>1. contract'[id].state = "created"
        BY <2>3 DEF Live
      <3>2. CASE contract'[id] = contract[id]
        BY <2>3, <3>1, <3>2
      <3>3. CASE contract'[id] = [contract[id] EXCEPT !.state = "deleted", !.instances = {}]
        BY <2>2, <3>1, <3>3 DEF ContractType
      <3> QED BY <2>1, <3>2, <3>3 DEF OnlyDeletes
    <2> QED BY <1>1, <2>3 DEF Calm
  <1> QED BY <1>2, <1>3

\* contracts.json only changes by the dump of a save.
LEMMA OnlyDumps ==
    ASSUME Types, NEW c \in Calls, Step(c) \/ Crash(c)
    PROVE  \/ UNCHANGED <<store, info>>
           \/ SaveDump(c) /\ \A n \in Names \ {Name(c)} : store'[n] = store[n]
  <1>1. CASE Machines(c) \/ K8s(c) \/ Zdbs(c) \/ QsfsZdbs(c) \/ Gateway(c)
    BY <1>1, Asking DEF Begin
  <1>2. CASE SaveDump(c)
    BY <1>2 DEF SaveDump, Types, TypeOK
  <1> QED
    BY <1>1, <1>2
    DEF Step, Load, GetOne, GetFails, GetDone, Build, BuildDone, Handle, HandleFails, SaveLoad,
        Cancel, Invalidate, CancelMine, Crash

LEMMA OthersCareful ==
    ASSUME Remembering, NEW c \in Calls, Step(c) \/ Crash(c), Kept, Calm(c), NEW b \in Calls \ {c}
    PROVE  Careful(b)' /\ UpToDate(b)'
  <1>1. Types /\ Untouched(b) /\ Careful(b) /\ UpToDate(b)
    BY OneCall DEF Remembering, Ownership
  <1>2. results[b].deleted \subseteq Ids /\ saving[b].deleted \subseteq Ids
    BY <1>1 DEF Types, ChangeType
  <1>3. \A id \in Ids : contract[id] \in ContractType
    BY <1>1 DEF Types, TypeOK, ContractType
  <1>4. Careful(b)'
    <2>1. ASSUME pc[b] \in Saves, NEW id \in saving[b].deleted
          PROVE  /\ contract'[id].state # "free"
                 /\ Live(id)' => /\ contract'[id].name = Name(b)
                                 /\ Name(b) \in disturbed' \/ contract'[id].instances = {}
      <3>1. contract[id].state # "free"
        BY <1>1, <2>1 DEF Careful
      <3>2. Live(id)' => Live(id) /\ contract'[id].name = contract[id].name
        BY <1>2, <1>3, <3>1 DEF Live, Kept, ContractType
      <3>3. Live(id) => contract[id].name = Name(b) /\ (Name(b) \in disturbed \/ contract[id].instances = {})
        BY <1>1, <2>1 DEF Careful
      <3> QED BY <1>2, <3>1, <3>2, <3>3 DEF Calm, Kept
    <2>2. \A id \in results[b].deleted : contract'[id].state = "deleted"
      BY <1>1, <1>2 DEF Careful, Kept
    <2> QED BY <1>1, <2>1, <2>2 DEF Careful, Untouched, Name, Op, Calm
  <1>5. UpToDate(b)'
    <2> SUFFICES ASSUME pc[b] \in Dumps, Name(b) \notin disturbed' PROVE loaded[b] = store'[Name(b)]
      BY <1>1 DEF UpToDate, Untouched, Name
    <2>1. Name(b) \in Names /\ loaded[b] = store[Name(b)] /\ Name(b) \notin disturbed
      BY <1>1 DEF UpToDate, Calm, Types, Working, Reading, Dumps
    <2>2. CASE SaveDump(c)
      <3>1. pc[c] \in Dumps
        BY <2>2 DEF SaveDump, Dumps
      <3>2. Name(c) # Name(b)
        BY <2>1, <3>1 DEF Remembering, OneSaves
      <3> QED BY <1>1, <2>1, <2>2, <3>2 DEF SaveDump, Types, TypeOK
    <2> QED BY <1>1, <2>1, <2>2, OnlyDumps
  <1> QED BY <1>4, <1>5

LEMMA ReadersCareful ==
    ASSUME Remembering, NEW c \in Calls,
           \/ Machines(c) \/ K8s(c) \/ Zdbs(c) \/ QsfsZdbs(c) \/ Gateway(c)
           \/ Load(c) \/ GetOne(c) \/ GetFails(c) \/ GetDone(c)
    PROVE  Careful(c)' /\ UpToDate(c)'
  <1> USE DEF Saves, Dumps, Reading, Name, Op
  <1>1. Types /\ Owns(c) /\ Careful(c)
    BY DEF Remembering, Ownership
  <1>2. CASE Machines(c) \/ K8s(c) \/ Zdbs(c) \/ QsfsZdbs(c) \/ Gateway(c)
    <2>1. PICK r \in Requests, p \in {"build", "load", "threw", "returned"} :
            r.op \notin {"cancel", "cancelMine"} /\ Begin(c, r, p)
      BY <1>2, Asking
    <2> QED BY <1>1, <2>1 DEF Begin, memory, Goto, Types, TypeOK, Careful, UpToDate
  <1>3. CASE Load(c)
    <2>1. /\ pc[c] = "load" /\ pc'[c] \in {"get", "pruneLoad"}
          /\ pc'[c] = "pruneLoad" => saving'[c].deleted = {}
          /\ UNCHANGED <<contract, call, results, disturbed>>
      BY <1>1, <1>3 DEF Load, Goto, Types, TypeOK, NoChange
    <2> QED BY <1>1, <2>1 DEF Careful, UpToDate
  <1>4. CASE GetOne(c)
    <2>1. UNCHANGED <<contract, call, results, disturbed>> /\ pc[c] = "get"
      BY <1>4 DEF GetOne
    <2>2. PICK id \in todo[c] :
          \/ pc'[c] = "get"
          \/ ~(Live(id) /\ Found(c, id)) /\ pc'[c] = "pruneLoad" /\ saving'[c].deleted = {id}
      BY <1>1, <1>4 DEF GetOne, Goto, Types, TypeOK, NoChange
    <2>3. contract[id].state # "free" /\ contract[id].name = Name(c)
      BY <1>1, <2>1 DEF Owns, Own
    <2>4. Op(c) = "cancel" => Name(c) \in disturbed
      BY <1>1, <2>1 DEF Careful
    <2>5. ~Found(c, id) => Op(c) = "cancel" \/ contract[id].instances = {}
      BY DEF Found
    <2> QED BY <1>1, <2>1, <2>2, <2>3, <2>4, <2>5 DEF Careful, UpToDate, Live
  <1>5. CASE GetFails(c)
    BY <1>1, <1>5 DEF GetFails, Throw, memory, Goto, Types, TypeOK, Careful, UpToDate
  <1>6. CASE GetDone(c)
    <2>1. /\ UNCHANGED <<contract, call, results, disturbed>>
          /\ pc'[c] \in {"returned", "threw", "build"}
      BY <1>1, <1>6 DEF GetDone, Goto, Types, TypeOK
    <2> QED BY <1>1, <2>1 DEF Careful, UpToDate
  <1> QED BY <1>2, <1>3, <1>4, <1>5, <1>6

LEMMA HandlersCareful ==
    ASSUME Remembering, NEW c \in Calls, Kept,
           Build(c) \/ BuildDone(c) \/ Handle(c) \/ HandleFails(c)
    PROVE  Careful(c)' /\ UpToDate(c)'
  <1> USE DEF Saves, Dumps, Reading, Name, Op
  <1>1. Types /\ Owns(c) /\ Careful(c)
    BY DEF Remembering, Ownership
  <1>2. results[c].deleted \subseteq Ids /\ results[c].created \subseteq Ids
    BY <1>1 DEF Types, ChangeType
  <1>3. CASE Build(c)
    <2>1. UNCHANGED <<contract, call, results, disturbed>> /\ pc'[c] = "handle"
      BY <1>1, <1>3 DEF Build, Goto, Types, TypeOK
    <2>2. ASSUME Op(c) = "delete" PROVE work'[c].create = {}
      <3>1. \E d \in seen[c] : \E gone, stays : work'[c] = Without(d, gone, stays)
        BY <1>1, <1>3, <2>2 DEF Build, Types
      <3> QED BY <1>1, <3>1, WorkSeen
    <2> QED BY <1>1, <2>1, <2>2 DEF Careful, UpToDate
  <1>4. CASE BuildDone(c)
    <2>1. /\ UNCHANGED <<contract, call, results, disturbed>> /\ pc'[c] \in {"saveLoad", "threw"}
          /\ pc'[c] = "saveLoad" => saving'[c] = results[c]
      BY <1>1, <1>4 DEF BuildDone, Goto, Types, TypeOK
    <2> QED BY <1>1, <2>1 DEF Careful, UpToDate, Live
  <1>5. CASE Handle(c)
    <2>1. UNCHANGED call /\ pc[c] = "handle"
      BY <1>5 DEF Handle
    <2>2. pc'[c] \in {"build", "returned", "saveLoad"} /\ saving'[c] = results'[c]
      BY <1>1, <1>5, HandleResults
    <2>3. ASSUME NEW id \in results'[c].deleted PROVE contract'[id].state = "deleted"
      <3>1. CASE id \in results[c].deleted
        BY <1>1, <1>2, <3>1 DEF Careful, Kept
      <3>2. CASE id \notin results[c].deleted
        <4>1. /\ id \in work[c].delete \/ Live(id)
              /\ contract[id].state # "free" => contract'[id].state = "deleted"
          BY <1>1, <1>5, <3>2, HandleResults
        <4>2. contract[id].state # "free"
          BY <1>1, <2>1, <4>1 DEF Owns, Own, Live
        <4> QED BY <4>1, <4>2
      <3> QED BY <3>1, <3>2
    <2> QED BY <2>1, <2>2, <2>3 DEF Careful, UpToDate, Live
  <1>6. CASE HandleFails(c)
    <2>1. UNCHANGED <<call, memory>> /\ pc'[c] = "threw"
      BY <1>1, <1>6 DEF HandleFails, Throw, Goto, Types, TypeOK
    <2> QED BY <1>1, <1>2, <2>1 DEF Careful, UpToDate, Kept, memory
  <1> QED BY <1>3, <1>4, <1>5, <1>6

LEMMA SaversCareful ==
    ASSUME Remembering, NEW c \in Calls, Kept,
           SaveLoad(c) \/ SaveDump(c) \/ Cancel(c) \/ Invalidate(c) \/ CancelMine(c) \/ Crash(c)
    PROVE  Careful(c)' /\ UpToDate(c)'
  <1> USE DEF Saves, Dumps, Reading, Name, Op
  <1>1. Types /\ Owns(c) /\ Careful(c) /\ disturbed \subseteq disturbed'
    BY DisturbedStays DEF Remembering, Ownership, Step
  <1>2. results[c].deleted \subseteq Ids
    BY <1>1 DEF Types, ChangeType
  <1>3. CASE SaveLoad(c)
    <2>1. /\ loaded'[c] = store[Name(c)]
          /\ UNCHANGED <<contract, store, call, work, results, saving>>
          /\ \/ pc[c] = "saveLoad" /\ pc'[c] = "saveDump"
             \/ pc[c] = "pruneLoad" /\ pc'[c] = "pruneDump"
      BY <1>1, <1>3 DEF SaveLoad, Goto, Types, TypeOK
    <2> QED BY <1>1, <2>1 DEF Careful, UpToDate, Live
  <1>4. CASE SaveDump(c)
    <2>1. /\ UNCHANGED <<contract, call, memory, disturbed>>
          /\ \/ pc[c] = "saveDump" /\ pc'[c] = (IF Op(c) = "deleteInstance" THEN "load" ELSE "returned")
             \/ pc[c] = "pruneDump" /\ pc'[c] = "get"
      BY <1>1, <1>4 DEF SaveDump, Goto, Types, TypeOK
    <2> QED BY <1>1, <2>1 DEF Careful, UpToDate, memory
  <1>5. CASE Cancel(c)
    <2>1. UNCHANGED results /\ pc'[c] = "invalidate"
      BY <1>1, <1>5 DEF Cancel, Goto, Types, TypeOK
    <2> QED BY <1>1, <1>2, <2>1 DEF Careful, UpToDate, Kept
  <1>6. CASE Invalidate(c)
    <2>1. UNCHANGED <<contract, memory>> /\ pc'[c] \in {"load", "returned"}
      BY <1>1, <1>6 DEF Invalidate, Goto, Types, TypeOK
    <2>2. pc'[c] = "load" => call'[c].name \in disturbed'
      <3>1. PICK id \in todo[c] :
              IF info[id] = NoName THEN Goto(c, "returned")
              ELSE /\ call' = [call EXCEPT ![c].name = info[id]]
                   /\ disturbed' = disturbed \cup {info[id]}
        BY <1>6 DEF Invalidate
      <3>2. CASE info[id] = NoName
        BY <1>1, <3>1, <3>2 DEF Goto, Types, TypeOK
      <3>3. CASE info[id] # NoName
        <4>1. call[c] \in Request
          BY <1>1, <1>1 DEF Types, TypeOK
        <4>2. call'[c] = [call[c] EXCEPT !.name = info[id]]
          BY <1>1, <3>1, <3>3 DEF Types, TypeOK
        <4>3. call'[c].name = info[id]
          BY <4>1, <4>2 DEF Request
        <4> QED BY <3>1, <3>3, <4>3
      <3> QED BY <3>2, <3>3
    <2> QED BY <1>1, <2>1, <2>2 DEF Careful, UpToDate, memory
  <1>7. CASE CancelMine(c)
    <2>1. UNCHANGED results /\ pc'[c] \in {"cancelMine", "returned"}
      BY <1>1, <1>7 DEF CancelMine, Goto, Types, TypeOK
    <2> QED BY <1>1, <1>2, <2>1 DEF Careful, UpToDate, Kept
  <1>8. CASE Crash(c)
    <2>1. UNCHANGED <<contract, call, memory>> /\ pc'[c] = "crashed"
      BY <1>1, <1>8 DEF Crash, Goto, Types, TypeOK
    <2> QED BY <1>1, <2>1 DEF Careful, UpToDate, memory
  <1> QED BY <1>3, <1>4, <1>5, <1>6, <1>7, <1>8

LEMMA OneSavesNext ==
    ASSUME Remembering, NEW c \in Calls, Step(c) \/ Crash(c)
    PROVE  OneSaves'
  <1>1. Types /\ OneSaves /\ disturbed \subseteq disturbed'
    BY DisturbedStays DEF Remembering, Ownership
  <1>2. \A b \in Calls \ {c} : pc'[b] = pc[b] /\ call'[b] = call[b]
    BY <1>1, OneCall DEF Untouched
  <1>3. ASSUME NEW b \in Calls \ {c}, pc'[b] \in Dumps, pc'[c] \in Dumps, Name(b)' = Name(c)'
        PROVE  Name(c)' \in disturbed'
    <2>1. SaveLoad(c)
      <3>1. CASE Machines(c) \/ K8s(c) \/ Zdbs(c) \/ QsfsZdbs(c) \/ Gateway(c)
        BY <1>1, <1>3, <3>1, Asking DEF Begin, Goto, Types, TypeOK, Dumps
      <3>2. CASE Handle(c)
        BY <1>1, <1>3, <3>2, HandleResults DEF Dumps
      <3>3. CASE CancelMine(c)
        BY <1>1, <1>3, <3>3 DEF CancelMine, Goto, Types, TypeOK, Dumps
      <3>4. CASE Load(c) \/ GetOne(c) \/ GetFails(c) \/ GetDone(c)
        BY <1>1, <1>3, <3>4 DEF Load, GetOne, GetFails, GetDone, Throw, Goto, Types, TypeOK, Dumps
      <3>5. CASE Build(c) \/ BuildDone(c) \/ HandleFails(c) \/ SaveDump(c)
        BY <1>1, <1>3, <3>5 DEF Build, BuildDone, HandleFails, SaveDump, Throw, Goto, Types, TypeOK, Dumps
      <3>6. CASE Cancel(c) \/ Invalidate(c) \/ Crash(c)
        BY <1>1, <1>3, <3>6 DEF Cancel, Invalidate, Crash, Goto, Types, TypeOK, Dumps
      <3> QED BY <3>1, <3>2, <3>3, <3>4, <3>5, <3>6 DEF Step
    <2>2. Saving(c)
      BY <1>2, <1>3, <2>1 DEF SaveLoad, Saving, Name, Dumps
    <2> QED BY <2>1, <2>2 DEF SaveLoad, Name
  <1> QED BY <1>1, <1>2, <1>3 DEF OneSaves, Name

\* What is saved: the list as it is, with the changes of the call.
LEMMA DumpFacts ==
    ASSUME Remembering, NEW c \in Calls, SaveDump(c), NEW n \in Names \ disturbed, NEW id \in Ids,
           Live(id), contract[id].name = n
    PROVE  /\ id \in store[n] /\ contract[id].instances # {} => id \in store'[n]
           /\ id \in saving[c].created /\ contract[id].instances # {} => id \in store'[n]
           /\ id \in store'[n] => \/ id \in store[n] /\ id \notin saving[c].created /\ info'[id] = info[id]
                                  \/ info'[id] = n
  <1>1. Types /\ Owns(c) /\ Careful(c) /\ UpToDate(c) /\ OwnContracts
    BY DEF Remembering, Ownership
  <1>2. /\ pc[c] \in Dumps /\ Name(c) \in Names
        /\ store' = [store EXCEPT ![Name(c)] = (loaded[c] \cup saving[c].created) \ saving[c].deleted]
        /\ info'[id] = IF id \in saving[c].deleted THEN NoName
                       ELSE IF id \in saving[c].created THEN Name(c) ELSE info[id]
    BY <1>1 DEF SaveDump, Dumps, Types, Working, Reading
  <1>3. id \in saving[c].deleted => n = Name(c) /\ contract[id].instances = {}
    BY <1>1, <1>2 DEF Careful, Saves
  <1>4. id \in saving[c].created => n = Name(c)
    BY <1>1, <1>2 DEF Owns, Own, Saves
  <1>5. CASE n # Name(c)
    BY <1>1, <1>2, <1>3, <1>4, <1>5 DEF Types, TypeOK
  <1>6. CASE n = Name(c)
    <2>1. loaded[c] = store[n]
      BY <1>1, <1>2, <1>6 DEF UpToDate
    <2>2. store'[n] = (store[n] \cup saving[c].created) \ saving[c].deleted
      BY <1>1, <1>2, <1>6, <2>1 DEF Types, TypeOK
    <2> QED BY <1>2, <1>3, <1>6, <2>2
  <1> QED BY <1>5, <1>6

LEMMA NothingForgottenNext ==
    ASSUME Remembering, NEW c \in Calls, Step(c) \/ Crash(c), Kept, Calm(c)
    PROVE  NothingForgotten'
  <1>1. Types /\ Owns(c) /\ NothingForgotten /\ disturbed \subseteq disturbed'
    BY DEF Remembering, Ownership, Calm
  <1>2. \A id \in Ids : contract[id] \in ContractType
    BY <1>1 DEF Types, TypeOK, ContractType
  <1> SUFFICES ASSUME NEW n \in Names, n \notin disturbed', NEW id \in Ids, Live(id)',
                      contract'[id].name = n, contract'[id].instances # {}
               PROVE  id \in store'[n] \/ Pending(id)'
    BY DEF NothingForgotten
  <1>3. CASE contract[id].state = "free"
    BY <1>3 DEF Calm, Pending
  <1>4. CASE contract[id].state # "free"
    <2>1. Live(id) /\ contract[id].name = n /\ contract[id].instances # {} /\ n \notin disturbed
      BY <1>1, <1>2, <1>4 DEF Calm, Kept, Live, ContractType
    <2>2. CASE id \in store[n]
      BY <1>1, <2>1, <2>2, OnlyDumps, DumpFacts
    <2>3. CASE \E b \in Calls \ {c} : pc[b] \in {"saveLoad", "saveDump"} /\ id \in saving[b].created
      BY <1>1, <2>3, OneCall DEF Untouched, Pending
    <2>4. CASE pc[c] \in {"saveLoad", "saveDump"} /\ id \in saving[c].created
      <3>1. Name(c) = n
        BY <1>1, <2>1, <2>4 DEF Owns, Own, Saves, Dumps
      <3>2. CASE SaveLoad(c)
        BY <1>1, <2>4, <3>2 DEF SaveLoad, Goto, Pending, Types, TypeOK
      <3>3. CASE SaveDump(c)
        BY <2>1, <2>4, <3>3, DumpFacts
      <3>4. CASE Crash(c)
        BY <2>4, <3>1, <3>4 DEF Crash
      <3>5. CASE Machines(c) \/ K8s(c) \/ Zdbs(c) \/ QsfsZdbs(c) \/ Gateway(c)
        BY <2>4, <3>5, Asking DEF Begin
      <3> QED
        BY <2>4, <3>2, <3>3, <3>4, <3>5
        DEF Step, Load, GetOne, GetFails, GetDone, Build, BuildDone, Handle, HandleFails,
            Cancel, Invalidate, CancelMine
    <2> QED BY <1>1, <2>1, <2>2, <2>3, <2>4 DEF NothingForgotten, Pending
  <1> QED BY <1>3, <1>4

LEMMA InfoNamesNext ==
    ASSUME Remembering, NEW c \in Calls, Step(c) \/ Crash(c), Kept, Calm(c), Ownership'
    PROVE  InfoNamesDeployment'
  <1>1. Types /\ OwnContracts /\ OwnContracts' /\ InfoNamesDeployment /\ disturbed \subseteq disturbed'
    BY DEF Remembering, Ownership, Calm
  <1> SUFFICES ASSUME NEW n \in Names, n \notin disturbed', NEW id \in store'[n], Live(id)'
               PROVE  info'[id] = n
    BY DEF InfoNamesDeployment
  <1>2. id \in Ids /\ contract'[id].name = n
    BY <1>1 DEF Ownership, Types, TypeOK, OwnContracts
  <1>3. CASE UNCHANGED <<store, info>>
    <2>1. contract[id].state # "free" /\ contract[id] \in ContractType
      BY <1>1, <1>2, <1>3 DEF OwnContracts, Types, TypeOK, ContractType
    <2>2. Live(id)
      BY <1>2, <2>1 DEF Live, Kept, ContractType
    <2> QED BY <1>1, <1>3, <2>2 DEF InfoNamesDeployment
  <1>4. CASE SaveDump(c)
    <2>1. Live(id) /\ contract[id].name = n /\ n \notin disturbed
      BY <1>1, <1>2, <1>4 DEF SaveDump, Live
    <2>2. id \in store[n] => info[id] = n
      BY <1>1, <2>1 DEF InfoNamesDeployment
    <2> QED BY <1>2, <1>4, <2>1, <2>2, DumpFacts
  <1> QED BY <1>1, <1>3, <1>4, OnlyDumps

LEMMA RememberingInit == Init => Remembering
  <1> SUFFICES ASSUME Init PROVE Remembering
    OBVIOUS
  <1>1. Ownership
    BY OwnershipInit
  <1>2. \A id \in Ids : ~Live(id)
    BY DEF Init, Live, Free
  <1> QED BY <1>1, <1>2 DEF Init, Remembering, Careful, UpToDate, OneSaves, NothingForgotten,
          InfoNamesDeployment, NoChange, Op, Saves, Dumps, Reading

LEMMA RememberingNext == Remembering /\ [Next]_vars => Remembering'
  <1> SUFFICES ASSUME Remembering, [Next]_vars PROVE Remembering'
    OBVIOUS
  <1>1. Ownership'
    BY OwnershipNext DEF Remembering
  <1>2. CASE UNCHANGED vars
    <2> USE DEF vars, memory
    <2>1. \A c \in Calls : Careful(c)' /\ UpToDate(c)'
      BY <1>2 DEF Remembering, Careful, UpToDate, Live, Name, Op
    <2>2. OneSaves' /\ NothingForgotten' /\ InfoNamesDeployment'
      BY <1>2 DEF Remembering, OneSaves, NothingForgotten, InfoNamesDeployment, Pending, Live, Name
    <2> QED BY <1>1, <2>1, <2>2 DEF Remembering
  <1>3. CASE Next
    <2> PICK c \in Calls : Step(c) \/ Crash(c)
      BY <1>3 DEF Next
    <2>1. Kept /\ Calm(c)
      BY StepKeeps, StepCalm DEF Remembering, Ownership
    <2>2. Careful(c)' /\ UpToDate(c)'
      BY <2>1, ReadersCareful, HandlersCareful, SaversCareful DEF Step
    <2>3. \A b \in Calls \ {c} : Careful(b)' /\ UpToDate(b)'
      BY <2>1, OthersCareful
    <2>4. OneSaves' /\ NothingForgotten' /\ InfoNamesDeployment'
      BY <1>1, <2>1, OneSavesNext, NothingForgottenNext, InfoNamesNext
    <2> QED BY <1>1, <2>2, <2>3, <2>4 DEF Remembering
  <1> QED BY <1>2, <1>3

\* A contract with an instance is listed in contracts.json, or about to be,
\* but for the reasons that disturb its deployment.
THEOREM Remembered == Spec => []NothingForgotten
  <1>1. Remembering => NothingForgotten
    BY DEF Remembering
  <1> QED BY <1>1, RememberingInit, RememberingNext, PTL DEF Spec

\* contracts/<id>.json names the deployment of every listed contract.
THEOREM InfoNames == Spec => []InfoNamesDeployment
  <1>1. Remembering => InfoNamesDeployment
    BY DEF Remembering
  <1> QED BY <1>1, RememberingInit, RememberingNext, PTL DEF Spec
-----------------------------------------------------------------------------
(***************************************************************************)
(* What calls achieve.  A call that has its deployment to itself finds     *)
(* what it has read unchanged when it acts on it.                          *)
(***************************************************************************)
\* A call that has its deployment to itself, and nothing has disturbed that.
Sole(c) == c \in alone /\ pc[c] \in Working /\ Name(c) \notin disturbed

\* Who is alone with a deployment, and what steps go with what operation.
Changes == {"deploy", "update", "add", "deleteInstance", "delete"}
Lone(c) ==
    /\ pc[c] \in {"idle", "invalidate", "cancelMine"} \/ Op(c) \in {"cancel", "cancelMine"} => c \notin alone
    /\ c \in alone /\ pc[c] \in Working =>
         \A b \in Calls \ {c} : pc[b] \in Working => Name(b) # Name(c)
    /\ pc[c] = "invalidate" => Op(c) = "cancel"
    /\ pc[c] \in Reading => Op(c) \notin {"deploy", "cancelMine"}
    /\ pc[c] \in {"build", "handle", "saveLoad", "saveDump"} => Op(c) \in Changes
    /\ \/ pc[c] \in Reading /\ Op(c) # "deleteInstance"
       \/ pc[c] \in {"build", "handle"} /\ Op(c) # "delete"
       => results[c] = NoChange

\* A deployment that was read is still what its contract and node have.
Fits(c, d) == d.id \in Holding(Name(c)) /\ d = Deployment(d.id)
SeenIds(c) == {d.id : d \in seen[c]}
AllFit(c) == \A d \in seen[c] : Fits(c, d)
Listed(c) == store[Name(c)] = SeenIds(c) /\ AllFit(c)

\* What a call has read and not yet done, at each of its steps.
GetPhase(c) == store[Name(c)] = todo[c] \cup SeenIds(c) /\ AllFit(c)

PrunePhase(c) ==
    /\ store[Name(c)] = todo[c] \cup SeenIds(c) \cup saving[c].deleted
    /\ saving[c].created = {} /\ saving[c].deleted \cap (todo[c] \cup SeenIds(c)) = {}
    /\ AllFit(c)

BuildPhase(c) ==
    /\ Op(c) = "deploy" => Holding(Name(c)) = {}
    /\ Op(c) \in {"update", "add"} => Listed(c)
    /\ Op(c) = "deleteInstance" => AllFit(c)
    /\ Op(c) = "delete" => /\ Holding(Name(c)) \subseteq todo[c]
                           /\ \A d \in seen[c] : d.id \in todo[c] => Fits(c, d)

HandlePhase(c) ==
    /\ Op(c) = "deploy" => Holding(Name(c)) = {} /\ work[c] = DeployWork(call[c])
    /\ Op(c) = "update" => Listed(c) /\ \E stays \in BOOLEAN : work[c] = UpdateWork(c, stays)
    /\ Op(c) = "add" => Listed(c) /\ work[c] = AddWork(c)
    /\ Op(c) = "deleteInstance" =>
         /\ AllFit(c)
         /\ \E d \in seen[c], stays \in BOOLEAN :
              work[c] = Without(d, d.instances \cap {call[c].instance}, stays)
    /\ Op(c) = "delete" =>
         \E d \in seen[c], stays \in BOOLEAN :
           /\ work[c] = Without(d, d.instances, stays) /\ Fits(c, d) /\ d.id \notin todo[c]
           /\ Holding(Name(c)) \subseteq todo[c] \cup {d.id}
           /\ \A e \in seen[c] : e.id \in todo[c] => Fits(c, e)

Phase(c) ==
    /\ pc[c] = "get" => GetPhase(c)
    /\ pc[c] \in {"pruneLoad", "pruneDump"} => PrunePhase(c)
    /\ pc[c] = "build" => BuildPhase(c)
    /\ pc[c] = "handle" => HandlePhase(c)
    /\ pc[c] \in {"saveLoad", "saveDump"} => Achieved(c)
    /\ pc[c] \in Reading /\ Op(c) = "deleteInstance" /\ results[c] # NoChange => Achieved(c)
Achieving == Remembering /\ \A c \in Calls : Lone(c) /\ (Sole(c) => Phase(c))

\* The steps of a call that is under way leave the requests alone, and the list
\* of those that are alone.
LEMMA WorkSteps ==
    ASSUME Types, NEW c \in Calls,
           \/ Load(c) \/ GetOne(c) \/ GetFails(c) \/ GetDone(c) \/ Build(c) \/ BuildDone(c)
           \/ Handle(c) \/ HandleFails(c) \/ SaveLoad(c) \/ SaveDump(c) \/ Crash(c)
    PROVE  /\ UNCHANGED <<call, alone>>
           /\ pc'[c] \in Working \cup {"threw", "returned", "crashed"}
           /\ pc[c] \in Working \/ pc'[c] = "crashed"
  <1> USE DEF Types, TypeOK, Goto, Throw, Working, Reading
  <1>1. CASE Load(c) \/ GetOne(c) \/ GetFails(c) \/ GetDone(c)
    BY <1>1 DEF Load, GetOne, GetFails, GetDone
  <1>2. CASE Build(c) \/ BuildDone(c)
    BY <1>2 DEF Build, BuildDone
  <1>3. CASE Handle(c)
    <2>1. pc'[c] \in {"build", "returned", "saveLoad"}
      BY <1>3, HandleResults
    <2> QED BY <1>3, <2>1 DEF Handle
  <1>4. CASE HandleFails(c) \/ SaveLoad(c) \/ SaveDump(c) \/ Crash(c)
    BY <1>4 DEF HandleFails, SaveLoad, SaveDump, Crash
  <1> QED BY <1>1, <1>2, <1>3, <1>4

\* Whoever is alone on a name stays so unless another call comes to it.
LEMMA LoneNext ==
    ASSUME Ownership, \A c \in Calls : Lone(c), NEW b \in Calls, Step(b) \/ Crash(b)
    PROVE  \A c \in Calls : /\ pc'[c] \in {"idle", "invalidate", "cancelMine"} \/ Op(c)' \in {"cancel", "cancelMine"} => c \notin alone'
                            /\ c \in alone' /\ pc'[c] \in Working =>
                                 \A e \in Calls \ {c} : pc'[e] \in Working => Name(e)' # Name(c)'
  <1>1. Types /\ \A c \in Calls \ {b} : Untouched(c)
    BY OneCall DEF Ownership
  <1> USE DEF Lone, Untouched, Name, Op
  <1>2. CASE UNCHANGED <<call, alone>> /\ pc[b] \in Working /\ pc'[b] \in Working \cup {"threw", "returned", "crashed"}
    BY <1>1, <1>2 DEF Working, Reading
  <1>3. CASE UNCHANGED <<call, alone>> /\ pc'[b] = "crashed"
    BY <1>1, <1>3 DEF Working, Reading
  <1>4. CASE Machines(b) \/ K8s(b) \/ Zdbs(b) \/ QsfsZdbs(b) \/ Gateway(b)
    <2> PICK r \in Requests, p \in {"build", "load", "threw", "returned"} :
          r.name \in Names /\ r.op \notin {"cancel", "cancelMine"} /\ Begin(b, r, p)
      BY <1>4, Asking
    <2> DEFINE others == {e \in Calls \ {b} : Name(e) = r.name /\ pc[e] \notin Settled}
    <2>1. alone' = (alone \ others) \cup (IF others = {} THEN {b} ELSE {})
      BY DEF Begin
    <2>2. pc[b] = "idle" /\ call'[b] = r /\ pc'[b] = p
      BY <1>1 DEF Begin, Goto, Types, TypeOK
    <2>3. b \notin alone
      BY <2>2
    <2>4. \A e \in Calls \ {b} : pc[e] \in Working /\ Name(e) = r.name => e \in others
      BY DEF Working, Reading, Settled
    <2> HIDE DEF others
    <2>5. \A c \in Calls \ {b} : c \in alone' => c \in alone /\ c \notin others
      BY <2>1
    <2>6. b \in alone' => others = {}
      BY <2>1, <2>3
    <2> QED BY <1>1, <2>2, <2>4, <2>5, <2>6
  <1>5. CASE Cancel(b)
    <2>1. call'[b].op = "cancel" /\ pc[b] = "idle" /\ pc'[b] = "invalidate"
      BY <1>1, <1>5 DEF Cancel, Goto, Types, TypeOK
    <2>2. alone' \subseteq alone
      BY <1>5 DEF Cancel, Cancelled
    <2>3. b \notin alone'
      BY <2>1, <2>2
    <2>4. \A c \in Calls \ {b} : pc'[c] = pc[c] /\ call'[c] = call[c]
      BY <1>1
    <2>5. pc'[b] \notin Working
      BY <2>1 DEF Working, Reading
    <2> QED BY <2>2, <2>3, <2>4, <2>5
  <1>6. CASE Invalidate(b)
    <2> PICK id \in todo[b] :
         IF info[id] = NoName THEN Goto(b, "returned") /\ UNCHANGED <<call, disturbed, alone>>
         ELSE /\ call' = [call EXCEPT ![b].name = info[id]]
              /\ disturbed' = disturbed \cup {info[id]}
              /\ alone' = alone \ {e \in Calls : Name(e) = info[id]}
              /\ Goto(b, IF Exists(info[id]) THEN "load" ELSE "returned")
      BY <1>6 DEF Invalidate
    <2>1. pc[b] = "invalidate" /\ pc'[b] \in {"load", "returned"}
      BY <1>1, <1>6 DEF Invalidate, Goto, Types, TypeOK
    <2>2. b \notin alone /\ alone' \subseteq alone
      BY <2>1
    <2>3. ASSUME info[id] # NoName
          PROVE  call'[b].name = info[id] /\ \A c \in Calls : c \in alone' => Name(c) # info[id]
      <3>1. call[b] \in Request /\ call' = [call EXCEPT ![b].name = info[id]]
        BY <1>1, <2>3 DEF Types, TypeOK
      <3> QED BY <1>1, <2>3, <3>1 DEF Types, TypeOK, Request
    <2>4. info[id] = NoName => pc'[b] = "returned"
      BY <1>1 DEF Goto, Types, TypeOK
    <2>5. \A c \in Calls \ {b} : pc'[c] = pc[c] /\ call'[c] = call[c]
      BY <1>1
    <2>6. pc'[b] \in Working => info[id] # NoName
      BY <2>4 DEF Working, Reading
    <2>7. ASSUME NEW c \in Calls \ {b}, NEW e \in Calls \ {c}, c \in alone', pc'[c] \in Working, pc'[e] \in Working
          PROVE  call'[e].name # call'[c].name
      <3>1. CASE e = b
        BY <2>3, <2>5, <2>6, <2>7, <3>1
      <3>2. CASE e # b
        BY <2>2, <2>5, <2>7, <3>2
      <3> QED BY <3>1, <3>2
    <2> QED BY <2>2, <2>5, <2>7
  <1>7. CASE CancelMine(b)
    <2>1. alone' \subseteq alone
      BY <1>7 DEF CancelMine, Cancelled
    <2>2. \/ pc[b] = "idle" /\ call'[b].op = "cancelMine" /\ pc'[b] = "cancelMine"
          \/ UNCHANGED call /\ pc'[b] \in {"cancelMine", "returned"}
      BY <1>1, <1>7 DEF CancelMine, Goto, Types, TypeOK
    <2>3. pc[b] \in {"idle", "cancelMine"} /\ pc'[b] \notin Working
      BY <1>7, <2>2 DEF CancelMine, Working, Reading
    <2>4. b \notin alone'
      BY <2>1, <2>3
    <2>5. \A c \in Calls \ {b} : pc'[c] = pc[c] /\ call'[c] = call[c]
      BY <1>1
    <2> QED BY <2>1, <2>3, <2>4, <2>5
  <1> QED BY <1>1, <1>2, <1>3, <1>4, <1>5, <1>6, <1>7, WorkSteps DEF Step

\* How the five modules begin a call.
LEMMA Asked ==
    ASSUME NEW c \in Calls, Machines(c) \/ K8s(c) \/ Zdbs(c) \/ QsfsZdbs(c) \/ Gateway(c)
    PROVE  \E r \in Requests :
             /\ r.name \in Names
             /\ \/ r.op \in {"deploy", "update", "add", "deleteInstance"} /\ Begin(c, r, "threw")
                \/ r.op = "deploy" /\ ~Exists(r.name) /\ Begin(c, r, "build")
                \/ r.op \in {"update", "add", "deleteInstance", "delete", "get"} /\ Begin(c, r, "load")
                \/ r.op \in {"delete", "get"} /\ ~Exists(r.name) /\ Begin(c, r, "returned")
  <1>1. ASSUME NEW m, NEW r \in RequestsTo(m), NEW ok \in BOOLEAN, Method(c, r, ok)
        PROVE  /\ r \in Requests /\ r.name \in Names
               /\ \/ r.op \in {"deploy", "update", "add", "deleteInstance"} /\ Begin(c, r, "threw")
                  \/ r.op = "deploy" /\ ~Exists(r.name) /\ Begin(c, r, "build")
                  \/ r.op \in {"update", "add", "deleteInstance", "delete", "get"} /\ Begin(c, r, "load")
                  \/ r.op \in {"delete", "get"} /\ ~Exists(r.name) /\ Begin(c, r, "returned")
    <2>1. r \in Requests /\ r.name \in Names
      BY <1>1, StoreAssumption DEF RequestsTo, Request
    <2>2. CASE r.op = "deploy" /\ Begin(c, r, IF ok /\ ~Exists(r.name) THEN "build" ELSE "threw")
      <3>1. CASE ok /\ ~Exists(r.name)
        BY <2>1, <2>2, <3>1
      <3>2. CASE ~(ok /\ ~Exists(r.name))
        BY <2>1, <2>2, <3>2
      <3> QED BY <3>1, <3>2
    <2>3. CASE r.op \in {"update", "add", "deleteInstance"}
               /\ Begin(c, r, IF ok /\ Exists(r.name) THEN "load" ELSE "threw")
      <3>1. CASE ok /\ Exists(r.name)
        BY <2>1, <2>3, <3>1
      <3>2. CASE ~(ok /\ Exists(r.name))
        BY <2>1, <2>3, <3>2
      <3> QED BY <3>1, <3>2
    <2>4. CASE r.op \in {"delete", "get"}
               /\ Begin(c, r, IF Exists(r.name) THEN "load" ELSE "returned")
      <3>1. CASE Exists(r.name)
        BY <2>1, <2>4, <3>1
      <3>2. CASE ~Exists(r.name)
        BY <2>1, <2>4, <3>2
      <3> QED BY <3>1, <3>2
    <2> QED BY <1>1, <2>2, <2>3, <2>4 DEF Method
  <1>2. \A m : RequestsTo(m) \subseteq Requests
    BY DEF RequestsTo
  <1>3. CASE Machines(c) BY <1>1, <1>2, <1>3 DEF Machines
  <1>4. CASE K8s(c) BY <1>1, <1>2, <1>4 DEF K8s
  <1>5. CASE Zdbs(c) BY <1>1, <1>2, <1>5 DEF Zdbs
  <1>6. CASE QsfsZdbs(c) BY <1>1, <1>2, <1>6 DEF QsfsZdbs
  <1>7. CASE Gateway(c) BY <1>1, <1>2, <1>7 DEF Gateway
  <1> QED BY <1>3, <1>4, <1>5, <1>6, <1>7

\* Which steps go with which operation, and which calls have results.
Controlled(p, op, res) ==
    /\ p = "invalidate" => op = "cancel"
    /\ p \in Reading => op \notin {"deploy", "cancelMine"}
    /\ p \in {"build", "handle", "saveLoad", "saveDump"} => op \in Changes
    /\ \/ p \in Reading /\ op # "deleteInstance"
       \/ p \in {"build", "handle"} /\ op # "delete"
       => res = NoChange

LEMMA ControlNext ==
    ASSUME Ownership, NEW c \in Calls, Lone(c), Step(c) \/ Crash(c)
    PROVE  Controlled(pc'[c], Op(c)', results'[c])
  <1>1. Types /\ Owns(c) /\ Controlled(pc[c], Op(c), results[c])
    BY DEF Ownership, Lone, Controlled
  <1> USE DEF Controlled, Op, Reading, Changes
  <1>2. CASE Machines(c) \/ K8s(c) \/ Zdbs(c) \/ QsfsZdbs(c) \/ Gateway(c)
    <2>1. PICK r \in Requests :
             \/ r.op \in {"deploy", "update", "add", "deleteInstance"} /\ Begin(c, r, "threw")
             \/ r.op = "deploy" /\ Begin(c, r, "build")
             \/ r.op \in {"update", "add", "deleteInstance", "delete", "get"} /\ Begin(c, r, "load")
             \/ r.op \in {"delete", "get"} /\ Begin(c, r, "returned")
      BY <1>2, Asked
    <2>2. results'[c] = NoChange
      BY <1>1, <2>1 DEF Begin, memory, Owns
    <2>3. call'[c] = r
      BY <1>1, <2>1 DEF Begin, Types, TypeOK
    <2> QED BY <1>1, <2>1, <2>2, <2>3 DEF Begin, Goto, Types, TypeOK
  <1>3. CASE Load(c) \/ GetOne(c) \/ GetFails(c)
    <2>1. /\ UNCHANGED <<call, results>>
          /\ pc[c] \in {"load", "get"} /\ pc'[c] \in {"get", "pruneLoad", "threw"}
      BY <1>1, <1>3 DEF Load, GetOne, GetFails, Throw, memory, Goto, Types, TypeOK
    <2> QED BY <1>1, <2>1
  <1>4. CASE GetDone(c)
    <2> DEFINE p == IF Op(c) \in {"get", "cancel"} \/ results[c] # NoChange THEN "returned"
                    ELSE IF Op(c) \in {"update", "add"} /\ ~Finds(c) THEN "threw"
                    ELSE "build"
    <2>4. UNCHANGED <<call, results>> /\ pc[c] = "get" /\ Goto(c, p)
      BY <1>4 DEF GetDone
    <2>5. \/ p \in {"returned", "threw"}
          \/ p = "build" /\ Op(c) \notin {"get", "cancel"} /\ results[c] = NoChange
      OBVIOUS
    <2> HIDE DEF p
    <2>6. pc'[c] = p
      BY <1>1, <2>4 DEF Goto, Types, TypeOK
    <2>1. /\ UNCHANGED <<call, results>> /\ pc[c] = "get"
          /\ \/ pc'[c] \in {"returned", "threw"}
             \/ pc'[c] = "build" /\ Op(c) \notin {"get", "cancel"} /\ results[c] = NoChange
      BY <2>4, <2>5, <2>6
    <2>2. Op(c) \in Operations
      BY <1>1 DEF Types, TypeOK, Request
    <2> QED BY <1>1, <2>1, <2>2 DEF Operations
  <1>5. CASE Build(c) \/ BuildDone(c)
    <2>1. /\ UNCHANGED <<call, results>> /\ pc[c] = "build"
          /\ pc'[c] \in {"handle", "saveLoad", "threw"}
      BY <1>1, <1>5 DEF Build, BuildDone, Goto, Types, TypeOK
    <2> QED BY <1>1, <2>1
  <1>6. CASE Handle(c)
    <2>1. /\ UNCHANGED call /\ pc[c] = "handle" /\ pc'[c] \in {"build", "saveLoad", "returned"}
      BY <1>1, <1>6, HandleResults DEF Handle
    <2>2. ASSUME pc'[c] = "build", Op(c) # "delete"  PROVE results'[c] = NoChange
      <3> PICK fresh \in NewContracts(work[c].create), along \in Along(c),
               rewired \in MayStay(Name(c)) :
         LET deletes == work[c].delete \cup along
             changes == [created |-> {fresh[t] : t \in DOMAIN fresh},
                         updated |-> {d.id : d \in work[c].update},
                         deleted |-> deletes]
             all == [created |-> changes.created,
                     updated |-> results[c].updated \cup changes.updated,
                     deleted |-> results[c].deleted \cup changes.deleted]
         IN /\ results' = [results EXCEPT ![c] = all]
            /\ Goto(c, AfterHandle(c, changes, rewired))
        BY <1>6 DEF Handle
      <3> DEFINE changes == [created |-> {fresh[t] : t \in DOMAIN fresh},
                             updated |-> {d.id : d \in work[c].update},
                             deleted |-> work[c].delete \cup along]
      <3>1. AfterHandle(c, changes, rewired) = "build"
        BY <1>1, <2>2 DEF Goto, Types, TypeOK
      <3>2. changes = NoChange
        BY <2>2, <3>1 DEF AfterHandle
      <3>3. results[c] = NoChange
        BY <1>1, <2>1, <2>2
      <3>4. results'[c] = [created |-> changes.created,
                           updated |-> results[c].updated \cup changes.updated,
                           deleted |-> results[c].deleted \cup changes.deleted]
        BY <1>1 DEF Types
      <3> HIDE DEF changes
      <3> QED BY <3>2, <3>3, <3>4 DEF NoChange
    <2> QED BY <1>1, <2>1, <2>2
  <1>7. CASE HandleFails(c) \/ Crash(c) \/ Cancel(c) \/ CancelMine(c)
    <2>1. \/ pc'[c] \in {"threw", "crashed", "cancelMine", "returned"}
          \/ pc'[c] = "invalidate" /\ call'[c].op = "cancel"
      BY <1>1, <1>7 DEF HandleFails, Crash, Cancel, CancelMine, Throw, Goto, Types, TypeOK
    <2> QED BY <2>1
  <1>8. CASE SaveLoad(c)
    <2>1. /\ UNCHANGED <<call, results>>
          /\ \/ pc[c] = "saveLoad" /\ pc'[c] = "saveDump"
             \/ pc[c] = "pruneLoad" /\ pc'[c] = "pruneDump"
      BY <1>1, <1>8 DEF SaveLoad, Goto, Types, TypeOK
    <2> QED BY <1>1, <2>1
  <1>9. CASE SaveDump(c)
    <2>1. /\ UNCHANGED <<call, results>>
          /\ \/ pc[c] = "saveDump" /\ pc'[c] = (IF Op(c) = "deleteInstance" THEN "load" ELSE "returned")
             \/ pc[c] = "pruneDump" /\ pc'[c] = "get"
      BY <1>1, <1>9 DEF SaveDump, memory, Goto, Types, TypeOK
    <2> QED BY <1>1, <2>1
  <1>10. CASE Invalidate(c)
    <2>1. results'[c] = NoChange /\ pc'[c] \in {"load", "returned"}
      BY <1>1, <1>10 DEF Invalidate, memory, Owns, Goto, Types, TypeOK
    <2>2. call'[c].op = call[c].op
      BY <1>1, <1>10 DEF Invalidate, Types, TypeOK, Request
    <2>3. Op(c) = "cancel"
      BY <1>1, <1>10 DEF Invalidate
    <2> QED BY <2>1, <2>2, <2>3
  <1> QED BY <1>2, <1>3, <1>4, <1>5, <1>6, <1>7, <1>8, <1>9, <1>10 DEF Step

\* handle() leaves contracts alone that it was not handed, and moves none.
LEMMA HandleElsewhere ==
    ASSUME Types, NEW c \in Calls, Handle(c) \/ HandleFails(c), NEW id \in Ids,
           contract[id].state # "free"
    PROVE  /\ contract'[id].node = contract[id].node
           /\ id \notin About(work[c]) /\ contract[id].instances # {} => contract'[id] = contract[id]
  <1>1. contract[id] \in ContractType
    BY DEF Types, TypeOK, ContractType
  <1>2. ASSUME NEW created, NEW fresh \in NewContracts(created), NEW updates, updates \subseteq work[c].update,
               NEW deletes, contract' = Applied(Name(c), fresh, updates, deletes)
        PROVE  /\ contract'[id].node = contract[id].node
               /\ id \in deletes \/ (\E d \in updates : d.id = id) \/ contract'[id] = contract[id]
    <2>1. \A t \in DOMAIN fresh : fresh[t] # id
      BY DEF NewContracts, FreeIds
    <2>2. CASE id \in deletes
      <3>1. contract'[id] = [contract[id] EXCEPT !.state = "deleted", !.instances = {}]
        BY <1>2, <2>1, <2>2 DEF Applied
      <3> QED BY <1>1, <2>2, <3>1 DEF ContractType
    <2>3. CASE id \notin deletes /\ \E d \in updates : d.id = id
      <3> DEFINE e == CHOOSE d \in updates : d.id = id
      <3>1. contract'[id] = [contract[id] EXCEPT !.instances = e.instances]
        BY <1>2, <2>1, <2>3 DEF Applied
      <3> HIDE DEF e
      <3> QED BY <1>1, <2>3, <3>1 DEF ContractType
    <2>4. CASE id \notin deletes /\ ~\E d \in updates : d.id = id
      BY <1>2, <2>1, <2>4 DEF Applied
    <2> QED BY <2>2, <2>3, <2>4
  <1>3. CASE Handle(c)
    <2> PICK fresh \in NewContracts(work[c].create), along \in Along(c) :
          contract' = Applied(Name(c), fresh, work[c].update, work[c].delete \cup along)
      BY <1>3 DEF Handle
    <2>1. id \in along => contract[id].instances = {}
      BY DEF Along, NetworkOnly
    <2>2. /\ contract'[id].node = contract[id].node
          /\ \/ id \in work[c].delete \cup along
             \/ \E d \in work[c].update : d.id = id
             \/ contract'[id] = contract[id]
      BY <1>2
    <2> QED BY <2>1, <2>2 DEF About
  <1>4. CASE HandleFails(c)
    <2> PICK created \in SUBSET work[c].create, deletes \in SUBSET work[c].delete,
             updates \in SUBSET {d \in work[c].update : Live(d.id)} :
               \E fresh \in NewContracts(created) :
                  contract' = Applied(Name(c), fresh, updates, deletes)
      BY <1>4 DEF HandleFails
    <2> PICK fresh \in NewContracts(created) : contract' = Applied(Name(c), fresh, updates, deletes)
      OBVIOUS
    <2>1. updates \subseteq work[c].update
      OBVIOUS
    <2>2. /\ contract'[id].node = contract[id].node
          /\ id \in deletes \/ (\E d \in updates : d.id = id) \/ contract'[id] = contract[id]
      BY <1>2, <2>1
    <2> QED BY <2>1, <2>2 DEF About
  <1> QED BY <1>3, <1>4

\* Who cancels a contract is not alone, and leaves nobody alone, with its name.
LEMMA CancelsNoted ==
    ASSUME Types, NEW b \in Calls, Step(b) \/ Crash(b), ~Handle(b), ~HandleFails(b), Owns(b),
           NEW id \in Ids, contract'[id] # contract[id]
    PROVE  /\ contract'[id] = [contract[id] EXCEPT !.state = "deleted", !.instances = {}]
           /\ \A c \in Calls : c \in alone' => Name(c) # contract[id].name
  <1>1. OnlyDeletes
    BY OthersDelete
  <1>2. ASSUME NEW i \in Ids, Cancelled(i)
        PROVE  \A c \in Calls : c \in alone' => Name(c) # contract[id].name
    <2>1. i = id
      BY <1>2, CancelledTypes
    <2> QED BY <1>2, <2>1 DEF Cancelled
  <1>3. \E i \in Ids : Cancelled(i)
    <2>1. CASE Cancel(b)
      BY <2>1 DEF Cancel
    <2>2. CASE CancelMine(b)
      BY <2>2 DEF CancelMine, Types, TypeOK
    <2>3. CASE Machines(b) \/ K8s(b) \/ Zdbs(b) \/ QsfsZdbs(b) \/ Gateway(b)
      BY <2>3, Asking DEF Begin
    <2> QED
      BY <2>1, <2>2, <2>3
      DEF Step, Load, GetOne, GetFails, GetDone, Build, BuildDone, SaveLoad, SaveDump, Invalidate, Crash
  <1> QED BY <1>1, <1>2, <1>3 DEF OnlyDeletes

\* Contracts stay at their node.
LEMMA NodesStay ==
    ASSUME Types, NEW b \in Calls, Step(b) \/ Crash(b), Owns(b), NEW id \in Ids, contract[id].state # "free"
    PROVE  contract'[id].node = contract[id].node
  <1>1. CASE Handle(b) \/ HandleFails(b)
    BY <1>1, HandleElsewhere
  <1>2. CASE ~Handle(b) /\ ~HandleFails(b)
    <2>1. contract[id] \in ContractType
      BY DEF Types, TypeOK, ContractType
    <2>2. contract'[id] = contract[id] \/ contract'[id] = [contract[id] EXCEPT !.state = "deleted", !.instances = {}]
      BY <1>2, CancelsNoted
    <2> QED BY <2>1, <2>2 DEF ContractType
  <1> QED BY <1>1, <1>2

\* What a call does leaves a deployment alone that another call has to itself.
Alike(n) ==
    /\ Holding(n)' = Holding(n) /\ \A id \in Holding(n) : contract'[id] = contract[id]
    /\ store'[n] = store[n] /\ ListedNodes(n)' = ListedNodes(n)

LEMMA Elsewhere ==
    ASSUME Remembering, NEW b \in Calls, Step(b) \/ Crash(b), NEW c \in Calls \ {b}, c \in alone',
           pc[c] \in Working, pc[b] \in Working => Name(b) # Name(c), NEW n, n = Name(c)
    PROVE  Alike(n)
  <1>1. Types /\ Owns(b) /\ OwnContracts /\ Kept /\ n \in Names
    BY StepKeeps DEF Remembering, Ownership, Types
  <1>2. \A id \in Ids : contract[id] \in ContractType
    BY <1>1 DEF Types, TypeOK, ContractType
  <1>3. \A id \in Holding(n) : id \in Ids /\ contract[id].name = n /\ contract[id].state = "created"
                               /\ contract[id].instances # {}
    BY DEF Holding, Live
  <1>4. (\A id \in Holding(n) : contract'[id] = contract[id]) /\ Holding(n)' = Holding(n)
    <2>1. CASE Handle(b) \/ HandleFails(b)
      <3>1. pc[b] = "handle" /\ Name(b) # n
        BY <2>1 DEF Handle, HandleFails, Working
      <3>2. \A id \in About(work[b]) : contract[id].name # n
        BY <1>1, <3>1 DEF Owns, Own, About
      <3>3. \A id \in Holding(n) : contract'[id] = contract[id]
        BY <1>1, <1>3, <2>1, <3>2, HandleElsewhere
      <3>4. ASSUME NEW id \in Ids, Live(id)', contract'[id].name = n, contract'[id].instances # {}
            PROVE  id \in Holding(n)
        <4>1. contract[id].state # "free"
          BY <1>1, <2>1, <3>1, <3>4, HandleKeeps
        <4>2. contract[id].name = n /\ Live(id)
          BY <1>1, <1>2, <3>4, <4>1 DEF Kept, Live, ContractType
        <4>3. ASSUME contract[id].instances = {} PROVE FALSE
          <5>1. \E d \in work[b].update : d.id = id
            BY <1>1, <2>1, <3>4, <4>1, <4>3, HandleKeeps
          <5> QED BY <3>2, <4>2, <5>1 DEF About
        <4> QED BY <4>2, <4>3 DEF Holding
      <3>5. Holding(n)' \subseteq Holding(n)
        BY <3>4 DEF Holding, Live
      <3>6. Holding(n) \subseteq Holding(n)'
        BY <1>3, <3>3 DEF Holding, Live
      <3> QED BY <3>3, <3>5, <3>6
    <2>2. CASE ~Handle(b) /\ ~HandleFails(b)
      <3>1. \A id \in Ids : contract[id].name = n => contract'[id] = contract[id]
        BY <1>1, <2>2, CancelsNoted
      <3>2. \A id \in Ids : contract'[id] = contract[id] \/ contract'[id].state = "deleted"
        BY <1>1, <1>2, <2>2, CancelsNoted DEF ContractType
      <3> QED BY <1>3, <3>1, <3>2 DEF Holding, Live
    <2> QED BY <2>1, <2>2
  <1>5. store'[n] = store[n]
    <2>1. CASE SaveDump(b)
      <3>1. Name(b) # n
        BY <2>1 DEF SaveDump, Working, Reading
      <3> QED BY <1>1, <2>1, <3>1, OnlyDumps
    <2> QED BY <1>1, <2>1, OnlyDumps
  <1>6. ListedNodes(n)' = ListedNodes(n)
    <2>1. \A id \in store[n] : id \in Ids /\ contract[id].state # "free"
      BY <1>1 DEF OwnContracts, Types, TypeOK
    <2>2. \A id \in store[n] : contract'[id].node = contract[id].node
      BY <1>1, <2>1, NodesStay
    <2> QED BY <1>5, <2>2 DEF ListedNodes
  <1> QED BY <1>4, <1>5, <1>6 DEF Alike

\* Nothing that a call relies on changes while its deployment stays alike.
LEMMA RelyStays ==
    ASSUME Types, NEW c \in Calls, Untouched(c), NEW n, n = Name(c), Alike(n)
    PROVE  /\ Name(c)' = n /\ Op(c)' = Op(c) /\ SeenIds(c)' = SeenIds(c)
           /\ \A d : Fits(c, d) => Fits(c, d)'
           /\ AllFit(c) => AllFit(c)'
           /\ Listed(c) => Listed(c)'
           /\ Achieved(c) => Achieved(c)'
           /\ AddWork(c)' = AddWork(c)
           /\ \A stays \in BOOLEAN : UpdateWork(c, stays)' = UpdateWork(c, stays)
  <1>1. Name(c)' = n /\ Op(c)' = Op(c) /\ SeenIds(c)' = SeenIds(c)
    BY DEF Untouched, Name, Op, SeenIds
  <1>2. ASSUME NEW d, Fits(c, d) PROVE Fits(c, d)'
    <2>1. d.id \in Holding(n) /\ d = Deployment(d.id)
      BY <1>2 DEF Fits
    <2>2. contract'[d.id] = contract[d.id] /\ d.id \in Holding(n)'
      BY <2>1 DEF Alike
    <2>3. Deployment(d.id)' = Deployment(d.id)
      BY <2>2 DEF Deployment
    <2> QED BY <1>1, <2>1, <2>2, <2>3 DEF Fits
  <1>3. AllFit(c) => AllFit(c)'
    BY <1>2 DEF AllFit, Untouched
  <1>4. Listed(c) => Listed(c)'
    BY <1>1, <1>3 DEF Listed, Alike
  <1>5. Achieved(c) => Achieved(c)'
    <2>1. \A x \in Nodes : Held(n, x)' = Held(n, x)
      <3> TAKE x \in Nodes
      <3>1. {i \in Holding(n) : contract[i].node = x}' = {i \in Holding(n) : contract[i].node = x}
        BY DEF Alike
      <3>2. \A i \in Holding(n) : contract'[i].instances = contract[i].instances
        BY DEF Alike
      <3> QED BY <3>1, <3>2 DEF Held
    <2>2. \A x \in Nodes : SeenOn(c, x)' = SeenOn(c, x)
      BY DEF SeenOn, Untouched
    <2>3. call[c].name = n /\ call'[c] = call[c] /\ seen'[c] = seen[c] /\ results'[c] = results[c]
      BY DEF Untouched, Name
    <2>4. Holding(n)' = Holding(n) /\ store'[n] = store[n]
          /\ \A i \in Holding(n) : contract'[i].instances = contract[i].instances
      BY DEF Alike
    <2> HIDE DEF Alike, Untouched
    <2> QED BY <2>1, <2>2, <2>3, <2>4 DEF Achieved
  <1>6. AddWork(c)' = AddWork(c)
    BY DEF AddWork, Alike, Untouched, Name
  <1>7. ASSUME NEW stays \in BOOLEAN PROVE UpdateWork(c, stays)' = UpdateWork(c, stays)
    <2>1. /\ call'[c] = call[c] /\ seen'[c] = seen[c]
          /\ ListedNodes(Name(c))' = ListedNodes(Name(c)) /\ store[Name(c)]' = store[Name(c)]
      <3>1. ListedNodes(n)' = ListedNodes(n) /\ store'[n] = store[n]
        BY DEF Alike
      <3> QED BY <1>1, <3>1 DEF Untouched
    <2> QED BY <2>1 DEF UpdateWork
  <1> QED BY <1>1, <1>2, <1>3, <1>4, <1>5, <1>6, <1>7

\* So whoever has a deployment to itself can go on from where it was.
LEMMA PhaseStays ==
    ASSUME Types, NEW c \in Calls, Untouched(c), NEW n, n = Name(c), Alike(n), Phase(c)
    PROVE  Phase(c)'
  <1>1. /\ Name(c)' = n /\ Op(c)' = Op(c) /\ SeenIds(c)' = SeenIds(c)
        /\ \A d : Fits(c, d) => Fits(c, d)'
        /\ AllFit(c) => AllFit(c)'
        /\ Listed(c) => Listed(c)'
        /\ Achieved(c) => Achieved(c)'
        /\ AddWork(c)' = AddWork(c)
        /\ \A stays \in BOOLEAN : UpdateWork(c, stays)' = UpdateWork(c, stays)
    BY RelyStays
  <1>2. /\ pc'[c] = pc[c] /\ call'[c] = call[c] /\ todo'[c] = todo[c] /\ seen'[c] = seen[c]
        /\ work'[c] = work[c] /\ results'[c] = results[c] /\ saving'[c] = saving[c]
    BY DEF Untouched
  <1>3. Holding(n)' = Holding(n) /\ store'[n] = store[n]
    BY DEF Alike
  <1>4. GetPhase(c) => GetPhase(c)'
    BY <1>1, <1>2, <1>3 DEF GetPhase
  <1>5. PrunePhase(c) => PrunePhase(c)'
    BY <1>1, <1>2, <1>3 DEF PrunePhase
  <1>6. BuildPhase(c) => BuildPhase(c)'
    BY <1>1, <1>2, <1>3 DEF BuildPhase
  <1>7. HandlePhase(c) => HandlePhase(c)'
    BY <1>1, <1>2, <1>3 DEF HandlePhase
  <1> QED BY <1>1, <1>2, <1>4, <1>5, <1>6, <1>7 DEF Phase

\* Another call's step leaves alone what a call relies on.
LEMMA OthersPhase ==
    ASSUME Remembering, NEW b \in Calls, Step(b) \/ Crash(b), NEW c \in Calls \ {b},
           Lone(c), Sole(c), Phase(c), c \in alone'
    PROVE  Phase(c)'
  <1>1. Types /\ Untouched(c)
    BY OneCall DEF Remembering, Ownership
  <1> PICK n : n = Name(c)
    OBVIOUS
  <1>2. Alike(n)
    BY Elsewhere DEF Sole, Lone
  <1> QED BY <1>1, <1>2, PhaseStays

\* Who is alone after another's step was so before it.
LEMMA AloneBefore ==
    ASSUME NEW b \in Calls, Step(b) \/ Crash(b), NEW c \in Calls \ {b}, c \in alone'
    PROVE  c \in alone
  <1>1. CASE Machines(b) \/ K8s(b) \/ Zdbs(b) \/ QsfsZdbs(b) \/ Gateway(b)
    BY <1>1, Asking DEF Begin
  <1>2. CASE Cancel(b) \/ Invalidate(b) \/ CancelMine(b)
    BY <1>2 DEF Cancel, Invalidate, CancelMine, Cancelled
  <1> QED
    BY <1>1, <1>2
    DEF Step, Load, GetOne, GetFails, GetDone, Build, BuildDone, Handle, HandleFails, SaveLoad,
        SaveDump, Crash

\* What is held is listed, for a call that is alone and not about to save.
LEMMA AllListed ==
    ASSUME Remembering, NEW c \in Calls, Name(c) \in Names, Name(c) \notin disturbed,
           pc[c] \notin {"saveLoad", "saveDump"},
           \A b \in Calls \ {c} : pc[b] \in Working => Name(b) # Name(c)
    PROVE  Holding(Name(c)) \subseteq store[Name(c)]
  <1> SUFFICES ASSUME NEW id \in Holding(Name(c)) PROVE id \in store[Name(c)]
    OBVIOUS
  <1>1. id \in Ids /\ Live(id) /\ contract[id].name = Name(c) /\ contract[id].instances # {}
    BY DEF Holding
  <1>2. id \in store[Name(c)] \/ Pending(id)
    BY <1>1 DEF Remembering, NothingForgotten
  <1>3. ASSUME Pending(id) PROVE FALSE
    <2> PICK b \in Calls : pc[b] \in {"saveLoad", "saveDump"} /\ id \in saving[b].created
      BY <1>3 DEF Pending
    <2>1. Name(b) = Name(c)
      BY <1>1 DEF Remembering, Ownership, Owns, Own, Saves, Dumps
    <2> QED BY <2>1 DEF Working
  <1> QED BY <1>2, <1>3

\* What was read is what is held.
LEMMA HeldSeen ==
    ASSUME NEW c \in Calls, Holding(Name(c)) \subseteq SeenIds(c), AllFit(c), NEW x \in Nodes
    PROVE  Held(Name(c), x) = SeenOn(c, x)
  <1>1. \A d \in seen[c] : /\ d.id \in Holding(Name(c)) /\ d.node = contract[d.id].node
                           /\ d.instances = contract[d.id].instances
    BY DEF AllFit, Fits, Deployment
  <1>2. \A id \in Holding(Name(c)) : \E d \in seen[c] : d.id = id
    BY DEF SeenIds
  <1>3. \A i : i \in Held(Name(c), x) <=>
               \E id \in Holding(Name(c)) : contract[id].node = x /\ i \in contract[id].instances
    BY DEF Held
  <1>4. \A i : i \in SeenOn(c, x) <=> \E d \in seen[c] : d.node = x /\ i \in d.instances
    BY DEF SeenOn
  <1>5. \A i : i \in Held(Name(c), x) <=> i \in SeenOn(c, x)
    BY <1>1, <1>2, <1>3, <1>4
  <1> QED BY <1>5 DEF Held, SeenOn

\* The same after a step.
Visible(c) ==
    /\ Remembering /\ Name(c) \in Names /\ Name(c) \notin disturbed
    /\ pc[c] \notin {"saveLoad", "saveDump"}
    /\ \A b \in Calls \ {c} : pc[b] \in Working => Name(b) # Name(c)

LEMMA AllListedNext ==
    ASSUME NEW c \in Calls
    PROVE  Visible(c)' => (Holding(Name(c)) \subseteq store[Name(c)])'
  <1>1. Visible(c) => Holding(Name(c)) \subseteq store[Name(c)]
    BY AllListed DEF Visible
  <1> QED BY <1>1, PTL

\* What a step of a call owes: its next phase, or, when it returns, the result.
Owed(c) ==
    (c \in alone /\ Name(c) \notin disturbed)' =>
       /\ pc'[c] \in Working => Phase(c)'
       /\ pc'[c] = "returned" /\ call'[c].name # NoName => Achieved(c)'

\* Who is alone and undisturbed after a step of its own was so before it.
LEMMA SoleBefore ==
    ASSUME Types, NEW c \in Calls, Step(c) \/ Crash(c), c \in alone', Name(c)' \notin disturbed',
           UNCHANGED <<call, alone>>, pc[c] \in Working
    PROVE  Sole(c)
  BY DisturbedStays DEF Sole, Name

\* A call that begins alone sees in contracts.json all that its deployment holds.
LEMMA BeginsWell ==
    ASSUME Remembering, Remembering', \A e \in Calls : Lone(e), NEW c \in Calls,
           Machines(c) \/ K8s(c) \/ Zdbs(c) \/ QsfsZdbs(c) \/ Gateway(c)
    PROVE  Owed(c)
  <1>1. Types /\ Owns(c) /\ \A b \in Calls \ {c} : Untouched(b)
    BY OneCall DEF Remembering, Ownership, Step
  <1> SUFFICES ASSUME c \in alone', Name(c)' \notin disturbed'
               PROVE  /\ pc'[c] \in Working => Phase(c)'
                      /\ pc'[c] = "returned" => Achieved(c)'
    BY DEF Owed
  <1> PICK r \in Requests :
             /\ r.name \in Names
             /\ \/ r.op \in {"deploy", "update", "add", "deleteInstance"} /\ Begin(c, r, "threw")
                \/ r.op = "deploy" /\ ~Exists(r.name) /\ Begin(c, r, "build")
                \/ r.op \in {"update", "add", "deleteInstance", "delete", "get"} /\ Begin(c, r, "load")
                \/ r.op \in {"delete", "get"} /\ ~Exists(r.name) /\ Begin(c, r, "returned")
    BY Asked
  <1> DEFINE others == {e \in Calls \ {c} : Name(e) = r.name /\ pc[e] \notin Settled}
  <1>2. /\ pc[c] = "idle" /\ call'[c] = r /\ UNCHANGED <<contract, store, memory, disturbed>>
        /\ alone' = (alone \ others) \cup (IF others = {} THEN {c} ELSE {})
    BY <1>1 DEF Begin, Types, TypeOK
  <1>3. Name(c)' = r.name /\ Op(c)' = r.op
    BY <1>2 DEF Name, Op
  <1>4. others = {}
    <2>1. c \notin alone
      BY <1>2 DEF Lone
    <2> HIDE DEF others
    <2> QED BY <1>2, <2>1
  <1>5. \A b \in Calls \ {c} : pc'[b] \in Working => Name(b)' # r.name
    <2>1. \A b \in Calls \ {c} : pc[b] \in Working => Name(b) # r.name
      BY <1>4 DEF Working, Reading, Settled
    <2> QED BY <1>1, <2>1 DEF Untouched, Name
  <1>6. pc'[c] \notin {"saveLoad", "saveDump"}
    BY <1>1 DEF Begin, Goto, Types, TypeOK
  <1>7. Holding(r.name)' \subseteq store'[r.name]
    <2>1. Visible(c)'
      BY <1>3, <1>5, <1>6 DEF Visible
    <2>2. (Holding(Name(c)) \subseteq store[Name(c)])'
      BY <2>1, AllListedNext
    <2> QED BY <1>3, <2>2
  <1>8. seen'[c] = {} /\ results'[c] = NoChange
    BY <1>1, <1>2 DEF Owns, memory
  <1>9. CASE r.op \in {"deploy", "update", "add", "deleteInstance"} /\ Begin(c, r, "threw")
    BY <1>1, <1>9 DEF Begin, Goto, Types, TypeOK, Working, Reading
  <1>10. CASE r.op = "deploy" /\ ~Exists(r.name) /\ Begin(c, r, "build")
    <2>1. pc'[c] = "build"
      BY <1>1, <1>10 DEF Begin, Goto, Types, TypeOK
    <2>2. Holding(r.name)' = {}
      BY <1>2, <1>7, <1>10 DEF Exists
    <2> QED BY <1>3, <1>10, <2>1, <2>2 DEF Phase, BuildPhase, Reading
  <1>11. CASE r.op \in {"update", "add", "deleteInstance", "delete", "get"} /\ Begin(c, r, "load")
    <2>1. pc'[c] = "load"
      BY <1>1, <1>11 DEF Begin, Goto, Types, TypeOK
    <2> QED BY <1>8, <2>1 DEF Phase
  <1>12. CASE r.op \in {"delete", "get"} /\ ~Exists(r.name) /\ Begin(c, r, "returned")
    <2>1. pc'[c] = "returned"
      BY <1>1, <1>12 DEF Begin, Goto, Types, TypeOK
    <2>2. store'[r.name] = {} /\ Holding(r.name)' = {}
      BY <1>2, <1>7, <1>12 DEF Exists
    <2>3. \A x \in Nodes : Held(r.name, x)' = {} /\ SeenOn(c, x)' = {}
      BY <1>8, <2>2 DEF Held, SeenOn
    <2> QED BY <1>2, <1>8, <1>12, <2>1, <2>2, <2>3 DEF Achieved, Working, Reading
  <1> QED BY <1>9, <1>10, <1>11, <1>12

\* What a call has achieved stays so while the contracts do.
LEMMA AchievedStays ==
    ASSUME NEW c \in Calls, UNCHANGED contract, call'[c] = call[c], results'[c] = results[c],
           Op(c) # "deleteInstance" => seen'[c] = seen[c],
           Op(c) = "get" => UNCHANGED store, Achieved(c)
    PROVE  Achieved(c)'
  <1> PICK n : n = Name(c)
    OBVIOUS
  <1>1. Holding(n)' = Holding(n) /\ call[c].name = n /\ call'[c].name = n
    BY DEF Holding, Live, Name
  <1>2. \A x \in Nodes : /\ Held(n, x)' = Held(n, x)
                         /\ call[c].op # "deleteInstance" => SeenOn(c, x)' = SeenOn(c, x)
    BY <1>1 DEF Held, SeenOn, Op
  <1>3. /\ call[c].op = "get" => store' = store
        /\ call[c].op # "deleteInstance" => seen'[c] = seen[c]
    BY DEF Op
  <1> QED BY <1>1, <1>2, <1>3 DEF Achieved

\* _get reads what is deployed, and drops from the list only what holds nothing.
LEMMA ReadsWell ==
    ASSUME Remembering, NEW c \in Calls, Lone(c), Sole(c) => Phase(c),
           Load(c) \/ GetOne(c) \/ GetFails(c) \/ GetDone(c)
    PROVE  Owed(c)
  <1>1. Types /\ Owns(c)
    BY DEF Remembering, Ownership
  <1> SUFFICES ASSUME c \in alone', Name(c)' \notin disturbed'
               PROVE  /\ pc'[c] \in Working => Phase(c)'
                      /\ pc'[c] = "returned" => Achieved(c)'
    BY DEF Owed
  <1>2. UNCHANGED <<call, alone, contract, store, results>> /\ pc[c] \in {"load", "get"}
    BY DEF Load, GetOne, GetFails, GetDone, Throw, memory
  <1>3. Sole(c) /\ Phase(c) /\ Name(c) \in Names
    BY <1>1, <1>2, SoleBefore DEF Step, Working, Reading, Types
  <1>4. Op(c)' = Op(c) /\ Name(c)' = Name(c) /\ call'[c] = call[c] /\ results'[c] = results[c]
    BY <1>2 DEF Op, Name
  <1>5. Op(c) # "cancel" /\ Op(c) \notin {"deploy", "cancelMine"}
    BY <1>2, <1>3 DEF Sole, Lone, Reading
  <1>6. \A d : Fits(c, d)' <=> Fits(c, d)
    BY <1>2, <1>4 DEF Fits, Holding, Live, Deployment
  <1>7. Op(c) = "deleteInstance" /\ results[c] # NoChange => Achieved(c)'
    BY <1>2, <1>3, <1>4, AchievedStays DEF Phase, Reading
  <1>8. CASE Load(c)
    <2>1. /\ pc'[c] \in {"get", "pruneLoad"} /\ todo'[c] = store[Name(c)] /\ seen'[c] = {}
          /\ pc'[c] = "pruneLoad" => saving'[c].created = {} /\ saving'[c].deleted = {}
      BY <1>1, <1>8 DEF Load, Goto, Types, TypeOK, NoChange
    <2>2. GetPhase(c)' /\ (pc'[c] = "pruneLoad" => PrunePhase(c)')
      BY <1>2, <1>4, <2>1 DEF GetPhase, PrunePhase, SeenIds, AllFit
    <2> QED BY <1>4, <1>7, <2>1, <2>2 DEF Phase
  <1>9. CASE GetOne(c)
    <2>1. pc[c] = "get" /\ GetPhase(c)
      BY <1>3, <1>9 DEF GetOne, Phase
    <2> PICK id \in todo[c] :
         /\ todo' = [todo EXCEPT ![c] = @ \ {id}]
         /\ \/ /\ Live(id) /\ Found(c, id)
               /\ seen' = [seen EXCEPT ![c] = @ \cup {Deployment(id)}]
               /\ UNCHANGED <<pc, saving>>
            \/ /\ ~(Live(id) /\ Found(c, id))
               /\ saving' = [saving EXCEPT ![c] = [NoChange EXCEPT !.deleted = {id}]]
               /\ Goto(c, "pruneLoad")
               /\ UNCHANGED seen
      BY <1>9 DEF GetOne
    <2>2. id \in Ids /\ contract[id].name = Name(c) /\ todo'[c] = todo[c] \ {id}
      BY <1>1, <2>1 DEF Types, TypeOK, Owns, Own, Reading
    <2>3. Deployment(id).id = id
      BY DEF Deployment
    <2>4. CASE Live(id) /\ Found(c, id) /\ seen' = [seen EXCEPT ![c] = @ \cup {Deployment(id)}] /\ UNCHANGED pc
      <3>1. seen'[c] = seen[c] \cup {Deployment(id)}
        BY <1>1, <2>4 DEF Types
      <3>2. Fits(c, Deployment(id))
        BY <2>2, <2>3, <2>4 DEF Fits, Holding, Found
      <3>3. AllFit(c)'
        BY <1>6, <2>1, <3>1, <3>2 DEF GetPhase, AllFit
      <3>4. SeenIds(c)' = SeenIds(c) \cup {id}
        BY <2>3, <3>1 DEF SeenIds
      <3>5. GetPhase(c)'
        BY <1>2, <1>4, <2>1, <2>2, <3>3, <3>4 DEF GetPhase
      <3> QED BY <1>4, <1>7, <2>1, <2>4, <3>5 DEF Phase
    <2>5. CASE /\ ~(Live(id) /\ Found(c, id)) /\ Goto(c, "pruneLoad") /\ UNCHANGED seen
               /\ saving' = [saving EXCEPT ![c] = [NoChange EXCEPT !.deleted = {id}]]
      <3>1. pc'[c] = "pruneLoad" /\ saving'[c] = [NoChange EXCEPT !.deleted = {id}]
        BY <1>1, <2>5 DEF Goto, Types, TypeOK
      <3>2. saving'[c].created = {} /\ saving'[c].deleted = {id}
        BY <3>1 DEF NoChange
      <3>3. id \notin Holding(Name(c))
        BY <1>5, <2>5 DEF Holding, Found
      <3>4. id \notin SeenIds(c)
        BY <2>1, <3>3 DEF GetPhase, AllFit, SeenIds, Fits
      <3>5. AllFit(c)' /\ SeenIds(c)' = SeenIds(c)
        BY <1>6, <2>1, <2>5 DEF GetPhase, AllFit, SeenIds
      <3>6. PrunePhase(c)'
        BY <1>2, <1>4, <2>1, <2>2, <3>2, <3>4, <3>5 DEF GetPhase, PrunePhase
      <3> QED BY <1>4, <1>7, <3>1, <3>6 DEF Phase
    <2> QED BY <2>4, <2>5
  <1>10. CASE GetFails(c)
    BY <1>1, <1>10 DEF GetFails, Throw, Goto, Types, TypeOK, Working, Reading
  <1>11. CASE GetDone(c)
    <2>1. GetPhase(c) /\ todo[c] = {} /\ todo'[c] = SeenIds(c) /\ UNCHANGED seen
      BY <1>1, <1>3, <1>11 DEF GetDone, Phase, Types, TypeOK, SeenIds
    <2>2. Listed(c) /\ AllFit(c)
      BY <2>1 DEF GetPhase, Listed
    <2>3. AllFit(c)' /\ SeenIds(c)' = SeenIds(c)
      BY <1>6, <2>1, <2>2 DEF AllFit, SeenIds
    <2>4. Listed(c)'
      BY <1>2, <1>4, <2>2, <2>3 DEF Listed
    <2>5. pc[c] = "get"
      BY <1>11 DEF GetDone
    <2>6. Holding(Name(c)) \subseteq SeenIds(c) /\ Holding(Name(c))' = Holding(Name(c))
      <3>1. Holding(Name(c)) \subseteq store[Name(c)]
        BY <1>3, <2>5, AllListed DEF Sole, Lone
      <3> QED BY <1>2, <1>4, <2>2, <3>1 DEF Listed, Holding, Live
    <2> DEFINE p == IF Op(c) \in {"get", "cancel"} \/ results[c] # NoChange THEN "returned"
                    ELSE IF Op(c) \in {"update", "add"} /\ ~Finds(c) THEN "threw"
                    ELSE "build"
    <2>7. Goto(c, p)
      BY <1>11 DEF GetDone
    <2>8. \/ p = "returned" /\ (Op(c) \in {"get", "cancel"} \/ results[c] # NoChange)
          \/ p = "threw"
          \/ p = "build" /\ Op(c) \notin {"get", "cancel"}
      OBVIOUS
    <2> HIDE DEF p
    <2>9. pc'[c] = p
      BY <1>1, <2>7 DEF Goto, Types, TypeOK
    <2>10. CASE p = "returned" /\ Op(c) = "get"
      <3>1. \A x \in Nodes : Held(Name(c), x) = SeenOn(c, x)
        BY <2>2, <2>6, HeldSeen
      <3>2. \A x \in Nodes : Held(Name(c), x)' = Held(Name(c), x) /\ SeenOn(c, x)' = SeenOn(c, x)
        BY <1>2, <2>1, <2>6 DEF Held, SeenOn
      <3>3. store'[Name(c)] = {d.id : d \in seen'[c]}
        BY <1>2, <2>1, <2>2 DEF Listed, SeenIds
      <3>4. call'[c].op = "get" /\ call'[c].name = Name(c)
        BY <1>4, <2>10 DEF Op, Name
      <3>5. Achieved(c)'
        BY <1>4, <3>1, <3>2, <3>3, <3>4 DEF Achieved
      <3> QED BY <2>9, <2>10, <3>5 DEF Working, Reading
    <2>11. CASE p = "returned" /\ results[c] # NoChange
      <3>1. Op(c) = "deleteInstance"
        BY <2>5, <2>11 DEF Lone, Reading
      <3> QED BY <1>7, <2>9, <2>11, <3>1 DEF Working, Reading
    <2>12. CASE p = "threw"
      BY <2>9, <2>12 DEF Working, Reading
    <2>13. CASE p = "build" /\ Op(c) \notin {"get", "cancel"}
      <3>1. BuildPhase(c)'
        BY <1>4, <1>5, <2>1, <2>3, <2>4, <2>6 DEF BuildPhase, AllFit, SeenIds
      <3> QED BY <2>9, <2>13, <3>1 DEF Phase, Reading
    <2> QED BY <1>5, <2>8, <2>10, <2>11, <2>12, <2>13
  <1> QED BY <1>8, <1>9, <1>10, <1>11

\* What is handed to handle() was made of deployments that are as they were read.
LEMMA BuildsWell ==
    ASSUME Remembering, NEW c \in Calls, Lone(c), Sole(c) => Phase(c), Build(c) \/ BuildDone(c)
    PROVE  Owed(c)
  <1>1. Types
    BY DEF Remembering, Ownership
  <1> SUFFICES ASSUME c \in alone', Name(c)' \notin disturbed'
               PROVE  /\ pc'[c] \in Working => Phase(c)'
                      /\ pc'[c] = "returned" => Achieved(c)'
    BY DEF Owed
  <1>2. UNCHANGED <<call, alone, contract, store, results, seen>> /\ pc[c] = "build"
    BY DEF Build, BuildDone
  <1>3. BuildPhase(c) /\ Op(c) \in Changes
    BY <1>1, <1>2, SoleBefore DEF Step, Working, Phase, Lone
  <1>4. Op(c)' = Op(c) /\ Name(c)' = Name(c) /\ call'[c] = call[c] /\ results'[c] = results[c]
        /\ seen'[c] = seen[c] /\ SeenIds(c)' = SeenIds(c)
    BY <1>2 DEF Op, Name, SeenIds
  <1>5. Holding(Name(c))' = Holding(Name(c))
    BY <1>2, <1>4 DEF Holding, Live
  <1>6. \A d : Fits(c, d)' <=> Fits(c, d)
    BY <1>2, <1>4, <1>5 DEF Fits, Deployment
  <1>7. (AllFit(c)' <=> AllFit(c)) /\ (Listed(c)' <=> Listed(c))
    BY <1>2, <1>4, <1>6 DEF AllFit, Listed
  <1>8. CASE Build(c)
    <2>1. pc'[c] = "handle" /\ \A v : work' = [work EXCEPT ![c] = v] => work'[c] = v
      BY <1>1, <1>8 DEF Build, Goto, Types, TypeOK
    <2>2. CASE Op(c) = "deploy" /\ work' = [work EXCEPT ![c] = DeployWork(call[c])]
      <3>1. work'[c] = DeployWork(call'[c]) /\ Holding(Name(c))' = {}
        BY <1>3, <1>4, <1>5, <2>1, <2>2 DEF BuildPhase
      <3> QED BY <1>4, <2>1, <2>2, <3>1 DEF Phase, HandlePhase, Reading
    <2>3. CASE Op(c) = "update" /\ \E stays \in MayStay(Name(c)) : work' = [work EXCEPT ![c] = UpdateWork(c, stays)]
      <3> PICK stays \in BOOLEAN : work'[c] = UpdateWork(c, stays)
        BY <2>1, <2>3 DEF MayStay
      <3>1. UpdateWork(c, stays)' = UpdateWork(c, stays)
        BY <1>2, <1>4 DEF UpdateWork, ListedNodes
      <3>2. Listed(c)'
        BY <1>3, <1>7, <2>3 DEF BuildPhase
      <3> QED BY <1>4, <2>1, <2>3, <3>1, <3>2 DEF Phase, HandlePhase, Reading
    <2>4. CASE Op(c) = "add" /\ work' = [work EXCEPT ![c] = AddWork(c)]
      <3>1. AddWork(c)' = AddWork(c)
        BY <1>2, <1>4 DEF AddWork
      <3>2. Listed(c)'
        BY <1>3, <1>7, <2>4 DEF BuildPhase
      <3> QED BY <1>4, <2>1, <2>4, <3>1, <3>2 DEF Phase, HandlePhase, Reading
    <2>5. CASE Op(c) \in {"deleteInstance", "delete"}
               /\ \E d \in seen[c], stays \in MayStay(Name(c)) :
                    /\ d.id \in todo[c]
                    /\ todo' = [todo EXCEPT ![c] = @ \ {d.id}]
                    /\ work' = [work EXCEPT ![c] =
                         Without(d, IF Op(c) = "delete" THEN d.instances
                                    ELSE d.instances \cap {call[c].instance}, stays)]
      <3> PICK d \in seen[c], stays \in BOOLEAN :
             /\ d.id \in todo[c]
             /\ todo'[c] = todo[c] \ {d.id}
             /\ work'[c] = Without(d, IF Op(c) = "delete" THEN d.instances
                                      ELSE d.instances \cap {call[c].instance}, stays)
        BY <1>1, <2>1, <2>5 DEF MayStay, Types, TypeOK
      <3>1. CASE Op(c) = "deleteInstance"
        <4>1. AllFit(c)'
          BY <1>3, <1>7, <3>1 DEF BuildPhase
        <4>2. work'[c] = Without(d, d.instances \cap {call'[c].instance}, stays) /\ d \in seen'[c]
          BY <1>4, <3>1
        <4> QED BY <1>4, <2>1, <3>1, <4>1, <4>2 DEF Phase, HandlePhase, Reading
      <3>2. CASE Op(c) = "delete"
        <4>1. Fits(c, d) /\ Holding(Name(c)) \subseteq todo'[c] \cup {d.id}
              /\ \A e \in seen[c] : e.id \in todo'[c] => Fits(c, e)
          BY <1>3, <3>2 DEF BuildPhase
        <4>2. Fits(c, d)' /\ Holding(Name(c))' \subseteq todo'[c] \cup {d.id} /\ d.id \notin todo'[c]
              /\ \A e \in seen'[c] : e.id \in todo'[c] => Fits(c, e)'
          BY <1>4, <1>5, <1>6, <4>1
        <4>3. work'[c] = Without(d, d.instances, stays) /\ d \in seen'[c]
          BY <1>4, <3>2
        <4>4. HandlePhase(c)'
          BY <1>4, <3>2, <4>2, <4>3 DEF HandlePhase
        <4> QED BY <2>1, <4>4 DEF Phase, Reading
      <3> QED BY <2>5, <3>1, <3>2
    <2> QED BY <1>8, <2>2, <2>3, <2>4, <2>5 DEF Build
  <1>9. CASE BuildDone(c)
    <2>1. todo[c] = {} /\ pc'[c] \in {"saveLoad", "threw"} /\ (pc'[c] = "saveLoad" => Op(c) = "delete")
      BY <1>1, <1>9 DEF BuildDone, Goto, Types, TypeOK
    <2>2. CASE pc'[c] = "saveLoad"
      <3>1. Op(c) = "delete" /\ Holding(Name(c))' = {}
        BY <1>3, <1>5, <2>1, <2>2 DEF BuildPhase
      <3>2. \A x \in Nodes : Held(Name(c), x)' = {}
        BY <3>1 DEF Held
      <3>3. call'[c].op = "delete" /\ call'[c].name = Name(c)
        BY <1>4, <3>1 DEF Op, Name
      <3>4. Achieved(c)'
        BY <1>4, <3>2, <3>3 DEF Achieved
      <3> QED BY <2>2, <3>4 DEF Phase, Reading
    <2>3. CASE pc'[c] = "threw"
      BY <2>3 DEF Working, Reading
    <2> QED BY <2>1, <2>2, <2>3
  <1> QED BY <1>8, <1>9

\* Work that only concerns contracts that are held, each of them once.
Tidy(w, n) ==
    /\ \A u \in w.update : /\ u.id \in Holding(n) \ w.delete /\ u.node = contract[u.id].node
                           /\ \A v \in w.update : v.id = u.id => v = u
    /\ w.delete \subseteq Holding(n)

\* What handle() makes of the contracts of a deployment when its work is tidy.
Handled(n, w, fresh, along) ==
    /\ \A t \in w.create :
         /\ fresh[t] \in Ids /\ fresh[t] \notin Holding(n)
         /\ contract'[fresh[t]] = [name |-> n, node |-> t.node, instances |-> t.instances,
                                   state |-> "created"]
    /\ \A id \in w.delete \cup along :
         id \in Ids /\ contract'[id].state = "deleted" /\ contract'[id].instances = {}
    /\ \A u \in w.update : contract'[u.id] = [contract[u.id] EXCEPT !.instances = u.instances]
    /\ \A id \in Holding(n) : id \notin About(w) => contract'[id] = contract[id]
    /\ \A id \in Holding(n)' : \/ id \in Holding(n) \ w.delete
                               \/ \E t \in w.create : fresh[t] = id

LEMMA HandledWork ==
    ASSUME Types, NEW n \in Names, NEW w \in WorkType, Tidy(w, n), NEW fresh \in NewContracts(w.create),
           NEW along, along \subseteq NetworkOnly,
           contract' = Applied(n, fresh, w.update, w.delete \cup along)
    PROVE  Handled(n, w, fresh, along)
  <1>1. fresh \in [w.create -> FreeIds] /\ DOMAIN fresh = w.create
        /\ \A t, u \in w.create : fresh[t] = fresh[u] => t = u
    BY DEF NewContracts
  <1>2. \A id \in Ids : contract[id] \in ContractType
    BY DEF Types, TypeOK, ContractType
  <1>3. \A id \in Holding(n) : id \in Ids /\ contract[id].state = "created" /\ contract[id].name = n
                               /\ contract[id].instances # {}
    BY DEF Holding, Live
  <1>4. \A id \in along : id \in Ids /\ contract[id].state = "created" /\ contract[id].instances = {}
    BY DEF NetworkOnly, Live
  <1>5. \A t \in w.create : fresh[t] \in Ids /\ contract[fresh[t]].state = "free"
    BY <1>1 DEF FreeIds
  <1>6. \A id \in w.delete \cup along : id \in Ids /\ contract[id].state = "created"
    BY <1>3, <1>4 DEF Tidy
  <1>7. \A u \in w.update : u.id \in Holding(n) /\ u.id \notin w.delete
    BY DEF Tidy
  <1> DEFINE deletes == w.delete \cup along
  <1>8. \A id \in Ids : contract'[id] =
          IF \E t \in w.create : fresh[t] = id
          THEN LET t == CHOOSE u \in w.create : fresh[u] = id
               IN [name |-> n, node |-> t.node, instances |-> t.instances, state |-> "created"]
          ELSE IF id \in deletes THEN [contract[id] EXCEPT !.state = "deleted", !.instances = {}]
          ELSE IF \E d \in w.update : d.id = id
          THEN [contract[id] EXCEPT !.instances = (CHOOSE d \in w.update : d.id = id).instances]
          ELSE contract[id]
    BY <1>1 DEF Applied
  <1> HIDE DEF deletes
  <1>9. ASSUME NEW t \in w.create
        PROVE  contract'[fresh[t]] = [name |-> n, node |-> t.node, instances |-> t.instances,
                                      state |-> "created"]
    <2> DEFINE s == CHOOSE u \in w.create : fresh[u] = fresh[t]
    <2>1. s \in w.create /\ fresh[s] = fresh[t]
      OBVIOUS
    <2>2. s = t
      BY <1>1, <2>1
    <2>3. fresh[t] \in Ids
      BY <1>5
    <2> QED BY <1>8, <2>2, <2>3
  <1>10. ASSUME NEW id \in Ids, contract[id].state # "free"
         PROVE  ~\E t \in w.create : fresh[t] = id
    BY <1>5, <1>10
  <1>11. ASSUME NEW id \in deletes
         PROVE  contract'[id] = [contract[id] EXCEPT !.state = "deleted", !.instances = {}] /\ id \in Ids
    <2>1. id \in Ids /\ contract[id].state = "created"
      BY <1>6, <1>11 DEF deletes
    <2> QED BY <1>8, <1>10, <1>11, <2>1
  <1>12. ASSUME NEW id \in Holding(n), id \notin w.delete PROVE id \notin deletes
    BY <1>3, <1>4, <1>12 DEF deletes
  <1>13. ASSUME NEW u \in w.update
         PROVE  contract'[u.id] = [contract[u.id] EXCEPT !.instances = u.instances]
    <2> DEFINE v == CHOOSE d \in w.update : d.id = u.id
    <2>1. v \in w.update /\ v.id = u.id
      OBVIOUS
    <2>2. v = u
      BY <2>1 DEF Tidy
    <2>3. u.id \in Ids /\ u.id \notin deletes /\ contract[u.id].state # "free"
      BY <1>3, <1>7, <1>12
    <2>4. \E d \in w.update : d.id = u.id
      OBVIOUS
    <2> HIDE DEF v
    <2>5. contract'[u.id] = [contract[u.id] EXCEPT !.instances = (CHOOSE d \in w.update : d.id = u.id).instances]
      BY <1>8, <1>10, <2>3, <2>4
    <2> QED BY <2>2, <2>5 DEF v
  <1>14. ASSUME NEW id \in Ids, contract[id].state # "free", id \notin deletes, \A u \in w.update : u.id # id
         PROVE  contract'[id] = contract[id]
    BY <1>8, <1>10, <1>14
  <1>15. ASSUME NEW id \in Holding(n), id \notin About(w) PROVE contract'[id] = contract[id]
    BY <1>3, <1>12, <1>14, <1>15 DEF About
  <1>16. ASSUME NEW id \in Ids, Live(id)', contract'[id].name = n, contract'[id].instances # {},
                ~\E t \in w.create : fresh[t] = id
         PROVE  id \in Holding(n) \ w.delete
    <2>1. id \notin deletes
      BY <1>2, <1>11, <1>16 DEF ContractType
    <2>2. CASE \E u \in w.update : u.id = id
      BY <1>7, <2>2
    <2>3. CASE \A u \in w.update : u.id # id
      <3>1. contract'[id] = contract[id]
        BY <1>8, <1>16, <2>1, <2>3
      <3> QED BY <1>16, <2>1, <3>1 DEF Holding, Live, deletes
    <2> QED BY <2>2, <2>3
  <1>17. \A id \in deletes : contract'[id].state = "deleted" /\ contract'[id].instances = {} /\ id \in Ids
    BY <1>2, <1>11 DEF ContractType
  <1>18. \A id \in Holding(n)' : \/ id \in Holding(n) \ w.delete
                                 \/ \E t \in w.create : fresh[t] = id
    BY <1>16 DEF Holding
  <1>19. \A t \in w.create : fresh[t] \notin Holding(n)
    BY <1>3, <1>5
  <1> QED BY <1>5, <1>9, <1>13, <1>15, <1>17, <1>18, <1>19 DEF deletes, Handled

\* The instances on a node after handle(): those of new contracts, of those
\* that were updated, and of those that it was not handed.
NewOn(w, x, i) == \E t \in w.create : t.node = x /\ i \in t.instances
UpdatedOn(w, x, i) == \E u \in w.update : u.node = x /\ i \in u.instances
LeftOn(w, n, x, i) == \E id \in Holding(n) \ About(w) : contract[id].node = x /\ i \in contract[id].instances

LEMMA HeldAfter ==
    ASSUME Types, NEW n \in Names, NEW w \in WorkType, Tidy(w, n), NEW fresh \in NewContracts(w.create),
           NEW along, along \subseteq NetworkOnly,
           contract' = Applied(n, fresh, w.update, w.delete \cup along), NEW x \in Nodes, NEW i
    PROVE  i \in Held(n, x)' <=> NewOn(w, x, i) \/ UpdatedOn(w, x, i) \/ LeftOn(w, n, x, i)
  <1>1. /\ \A t \in w.create :
             /\ fresh[t] \in Ids
             /\ contract'[fresh[t]] = [name |-> n, node |-> t.node, instances |-> t.instances,
                                       state |-> "created"]
        /\ \A u \in w.update : contract'[u.id] = [contract[u.id] EXCEPT !.instances = u.instances]
        /\ \A id \in Holding(n) : id \notin About(w) => contract'[id] = contract[id]
        /\ \A id \in Holding(n)' : id \in Holding(n) \ w.delete \/ \E t \in w.create : fresh[t] = id
    <2>1. Handled(n, w, fresh, along)
      BY HandledWork
    <2> QED BY <2>1 DEF Handled
  <1>2. \A id \in Holding(n) : id \in Ids /\ contract[id].state = "created" /\ contract[id].name = n
                               /\ contract[id].instances # {}
    BY DEF Holding, Live
  <1>3. \A id \in Ids : contract[id] \in ContractType
    BY DEF Types, TypeOK, ContractType
  <1>4. \A id \in Ids : contract'[id].state = "created" /\ contract'[id].name = n /\ i \in contract'[id].instances
                        => id \in Holding(n)'
    BY DEF Holding, Live
  <1>5. i \in Held(n, x)' <=> \E id \in Holding(n)' : contract'[id].node = x /\ i \in contract'[id].instances
    BY DEF Held
  <1>6. \A u \in w.update : u.id \in Holding(n) /\ u.node = contract[u.id].node
    BY DEF Tidy
  <1>7. ASSUME NEW u \in w.update
        PROVE  /\ contract'[u.id].node = u.node /\ contract'[u.id].instances = u.instances
               /\ contract'[u.id].state = "created" /\ contract'[u.id].name = n
    <2>1. contract'[u.id] = [contract[u.id] EXCEPT !.instances = u.instances]
      BY <1>1
    <2>2. contract[u.id] \in ContractType /\ contract[u.id].state = "created" /\ contract[u.id].name = n
          /\ contract[u.id].node = u.node
      BY <1>2, <1>3, <1>6
    <2> QED BY <2>1, <2>2 DEF ContractType
  <1>8. ASSUME NewOn(w, x, i) PROVE i \in Held(n, x)'
    <2> PICK t \in w.create : t.node = x /\ i \in t.instances
      BY <1>8 DEF NewOn
    <2> DEFINE id == fresh[t]
    <2>1. id \in Ids /\ contract'[id] = [name |-> n, node |-> t.node, instances |-> t.instances,
                                         state |-> "created"]
      BY <1>1
    <2> HIDE DEF id
    <2>2. contract'[id].state = "created" /\ contract'[id].name = n /\ contract'[id].node = x
          /\ i \in contract'[id].instances
      BY <2>1
    <2>3. id \in Holding(n)'
      BY <1>4, <2>1, <2>2
    <2> QED BY <1>5, <2>2, <2>3
  <1>9. ASSUME UpdatedOn(w, x, i) PROVE i \in Held(n, x)'
    <2> PICK u \in w.update : u.node = x /\ i \in u.instances
      BY <1>9 DEF UpdatedOn
    <2>1. u.id \in Ids
      BY <1>2, <1>6
    <2>2. contract'[u.id].state = "created" /\ contract'[u.id].name = n /\ contract'[u.id].node = x
          /\ i \in contract'[u.id].instances
      BY <1>7
    <2>3. u.id \in Holding(n)'
      BY <1>4, <2>1, <2>2
    <2> QED BY <1>5, <2>2, <2>3
  <1>10. ASSUME LeftOn(w, n, x, i) PROVE i \in Held(n, x)'
    <2> PICK id \in Holding(n) : id \notin About(w) /\ contract[id].node = x /\ i \in contract[id].instances
      BY <1>10 DEF LeftOn
    <2>1. contract'[id] = contract[id] /\ id \in Ids
      BY <1>1, <1>2
    <2>2. contract'[id].state = "created" /\ contract'[id].name = n /\ contract'[id].node = x
          /\ i \in contract'[id].instances
      BY <1>2, <2>1
    <2>3. id \in Holding(n)'
      BY <1>4, <2>1, <2>2
    <2> QED BY <1>5, <2>2, <2>3
  <1>11. ASSUME NEW id \in Holding(n)', contract'[id].node = x, i \in contract'[id].instances
         PROVE  NewOn(w, x, i) \/ UpdatedOn(w, x, i) \/ LeftOn(w, n, x, i)
    <2>1. CASE \E t \in w.create : fresh[t] = id
      <3> PICK t \in w.create : fresh[t] = id
        BY <2>1
      <3>1. contract'[id] = [name |-> n, node |-> t.node, instances |-> t.instances, state |-> "created"]
        BY <1>1
      <3>2. t.node = x /\ i \in t.instances
        BY <1>11, <3>1
      <3> QED BY <3>2 DEF NewOn
    <2>2. CASE \E u \in w.update : u.id = id
      BY <1>7, <1>11, <2>2 DEF UpdatedOn
    <2>3. CASE ~(\E t \in w.create : fresh[t] = id) /\ ~\E u \in w.update : u.id = id
      <3>1. id \in Holding(n) /\ id \notin About(w)
        BY <1>1, <2>3 DEF About
      <3> QED BY <1>1, <1>11, <3>1 DEF LeftOn
    <2> QED BY <2>1, <2>2, <2>3
  <1> QED BY <1>5, <1>8, <1>9, <1>10, <1>11

\* A deployment that fits is the one of its contract.
LEMMA FitFacts ==
    ASSUME NEW c \in Calls, NEW n, n = Name(c), NEW d, Fits(c, d)
    PROVE  /\ d.id \in Holding(n) /\ d.id \in Ids
           /\ d.node = contract[d.id].node /\ d.instances = contract[d.id].instances /\ d.instances # {}
           /\ contract[d.id].state = "created" /\ contract[d.id].name = n
           /\ \A e : Fits(c, e) /\ e.id = d.id => e = d
  <1>1. d.id \in Holding(n) /\ d = Deployment(d.id)
    BY DEF Fits
  <1>2. d.id \in Ids /\ contract[d.id].instances # {}
        /\ contract[d.id].state = "created" /\ contract[d.id].name = n
    BY <1>1 DEF Holding, Live
  <1>3. d.node = contract[d.id].node /\ d.instances = contract[d.id].instances
    BY <1>1 DEF Deployment
  <1>4. \A e : Fits(c, e) /\ e.id = d.id => e = d
    BY <1>1 DEF Fits
  <1> QED BY <1>1, <1>2, <1>3, <1>4

\* What update hands to handle().
Used(plan) == {x \in Nodes : plan[x] # {}}
UpdateCreates(w, plan, listed) ==
    \A t : t \in w.create <=> \E x \in Used(plan) \ listed : t = New(x, plan[x])
UpdateUpdates(w, plan, read, stays) ==
    \A u : u \in w.update <=>
      \/ \E d \in read : d.node \in Used(plan) /\ u \in Changed(d, plan[d.node])
      \/ stays /\ \E d \in read : d.node \notin Used(plan) /\ u = [d EXCEPT !.instances = {}]
UpdateDeletes(w, plan, read, stays) ==
    \A id : id \in w.delete <=> ~stays /\ \E d \in read : d.node \notin Used(plan) /\ id = d.id

LEMMA UpdateShape ==
    ASSUME Types, NEW c \in Calls, Listed(c), NEW stays \in BOOLEAN,
           NEW w, w = UpdateWork(c, stays), NEW plan, plan = call[c].plan
    PROVE  /\ UpdateCreates(w, plan, ListedNodes(Name(c)))
           /\ UpdateUpdates(w, plan, seen[c], stays)
           /\ UpdateDeletes(w, plan, seen[c], stays)
  <1> DEFINE used == Used(plan)
             read == seen[c]
             kept == {d \in read : d.node \in used}
             rest == {Without(d, d.instances, stays) : d \in read \ kept}
             main == [create |-> {New(x, plan[x]) : x \in used \ ListedNodes(Name(c))},
                      update |-> UNION {Changed(d, plan[d.node]) : d \in kept},
                      delete |-> {}]
  <1>1. w = Together(rest \cup {main})
    <2>1. kept = {d \in seen[c] : d.node \in used /\ d.id \in store[Name(c)]}
      BY DEF Listed, SeenIds
    <2> HIDE DEF kept
    <2> QED BY <2>1 DEF UpdateWork, Used
  <1>2. \A d \in read : d.instances # {} /\ d \in DeploymentType
    BY FitFacts DEF Listed, AllFit, Types
  <1>3. \A d \in read : Without(d, d.instances, stays) =
          IF stays THEN [NoWork EXCEPT !.update = {[d EXCEPT !.instances = {}]}]
                   ELSE [NoWork EXCEPT !.delete = {d.id}]
    <2> TAKE d \in read
    <2>1. d.instances \ d.instances = {} /\ d.instances \subseteq d.instances
      OBVIOUS
    <2>2. [d EXCEPT !.instances = @ \ d.instances] = [d EXCEPT !.instances = {}]
      BY <1>2, <2>1
    <2> QED BY <1>2, <2>1, <2>2 DEF Without
  <1>4. \A v \in rest : v.create = {}
    BY <1>3 DEF NoWork
  <1>5. \A u : (\E v \in rest : u \in v.update) <=>
               stays /\ \E d \in read \ kept : u = [d EXCEPT !.instances = {}]
    <2>1. \A d \in read : Without(d, d.instances, stays).update =
            IF stays THEN {[d EXCEPT !.instances = {}]} ELSE {}
      BY <1>3 DEF NoWork
    <2> HIDE DEF kept
    <2> QED BY <2>1, ZenonT(60)
  <1>6. \A id : (\E v \in rest : id \in v.delete) <=> ~stays /\ \E d \in read \ kept : id = d.id
    <2>1. \A d \in read : Without(d, d.instances, stays).delete = IF stays THEN {} ELSE {d.id}
      BY <1>3 DEF NoWork
    <2> HIDE DEF kept
    <2> QED BY <2>1
  <1> HIDE DEF rest
  <1>7. /\ \A t : t \in w.create <=> (\E v \in rest : t \in v.create) \/ t \in main.create
        /\ \A u : u \in w.update <=> (\E v \in rest : u \in v.update) \/ u \in main.update
        /\ \A id : id \in w.delete <=> (\E v \in rest : id \in v.delete) \/ id \in main.delete
    <2> HIDE DEF main
    <2>1. w = [create |-> UNION {v.create : v \in rest \cup {main}},
               update |-> UNION {v.update : v \in rest \cup {main}},
               delete |-> UNION {v.delete : v \in rest \cup {main}}]
      BY <1>1 DEF Together
    <2> QED BY <2>1
  <1>8. UpdateCreates(w, plan, ListedNodes(Name(c)))
    BY <1>4, <1>7 DEF UpdateCreates
  <1>9. UpdateUpdates(w, plan, read, stays)
    <2>1. \A u : u \in main.update <=> \E d \in read : d.node \in Used(plan) /\ u \in Changed(d, plan[d.node])
      OBVIOUS
    <2>2. \A u : (\E d \in read \ kept : u = [d EXCEPT !.instances = {}]) <=>
                 \E d \in read : d.node \notin Used(plan) /\ u = [d EXCEPT !.instances = {}]
      OBVIOUS
    <2> HIDE DEF main, kept
    <2> QED BY <1>5, <1>7, <2>1, <2>2 DEF UpdateUpdates
  <1>10. UpdateDeletes(w, plan, read, stays)
    <2>1. \A id : (\E d \in read \ kept : id = d.id) <=> \E d \in read : d.node \notin Used(plan) /\ id = d.id
      OBVIOUS
    <2>2. main.delete = {}
      OBVIOUS
    <2> HIDE DEF main, kept
    <2> QED BY <1>6, <1>7, <2>1, <2>2 DEF UpdateDeletes
  <1> QED BY <1>8, <1>9, <1>10

\* UpdateDeployment changes a deployment once, or not at all.
LEMMA ChangedFacts ==
    ASSUME NEW d \in DeploymentType, NEW new
    PROVE  /\ \A u \in Changed(d, new) :
                /\ u.id = d.id /\ u.node = d.node /\ new # d.instances
                /\ u.instances = IF d.instances \cap new = {} THEN {} ELSE new
                /\ \A v \in Changed(d, new) : v = u
           /\ new # d.instances => \E u \in Changed(d, new) : TRUE
  BY DEF Changed, DeploymentType

\* A deployment that update keeps or empties is updated at most once.
LEMMA UpdateTidy ==
    ASSUME Types, NEW c \in Calls, AllFit(c), NEW n, n = Name(c), NEW stays \in BOOLEAN,
           NEW w, NEW plan,
           UpdateUpdates(w, plan, seen[c], stays), UpdateDeletes(w, plan, seen[c], stays)
    PROVE  Tidy(w, n)
  <1> DEFINE Emptied(d, u) == stays /\ d.node \notin Used(plan) /\ u = [d EXCEPT !.instances = {}]
             Kept2(d, u) == d.node \in Used(plan) /\ u \in Changed(d, plan[d.node])
  <1>1. \A d \in seen[c] : /\ d \in DeploymentType /\ Fits(c, d) /\ d.id \in Holding(n)
                           /\ d.node = contract[d.id].node
                           /\ \A e \in seen[c] : e.id = d.id => e = d
    BY FitFacts DEF AllFit, Types
  <1>2. \A u \in w.update : \E d \in seen[c] : Emptied(d, u) \/ Kept2(d, u)
    BY DEF UpdateUpdates
  <1>3. ASSUME NEW d \in seen[c], NEW u, Emptied(d, u) \/ Kept2(d, u)
        PROVE  u.id = d.id /\ u.node = d.node
    <2>1. CASE Emptied(d, u)
      BY <1>1, <2>1 DEF DeploymentType
    <2>2. CASE Kept2(d, u)
      BY <1>1, <2>2, ChangedFacts
    <2> QED BY <1>3, <2>1, <2>2
  <1>4. ASSUME NEW d \in seen[c], NEW u, NEW v, Emptied(d, u) \/ Kept2(d, u), Emptied(d, v) \/ Kept2(d, v)
        PROVE  u = v
    <2>1. CASE Emptied(d, u)
      BY <1>4, <2>1
    <2>2. CASE Kept2(d, u)
      <3>1. Kept2(d, v)
        BY <1>4, <2>2
      <3> QED BY <1>1, <2>2, <3>1, ChangedFacts
    <2> QED BY <1>4, <2>1, <2>2
  <1>5. ASSUME NEW d \in seen[c], NEW u, Emptied(d, u) \/ Kept2(d, u)
        PROVE  d.id \notin w.delete
    BY <1>1, <1>5 DEF UpdateDeletes
  <1>6. w.delete \subseteq Holding(n)
    BY <1>1 DEF UpdateDeletes
  <1> HIDE DEF Emptied, Kept2
  <1>7. ASSUME NEW u \in w.update
        PROVE  /\ u.id \in Holding(n) \ w.delete /\ u.node = contract[u.id].node
               /\ \A v \in w.update : v.id = u.id => v = u
    <2> PICK d \in seen[c] : Emptied(d, u) \/ Kept2(d, u)
      BY <1>2
    <2>1. u.id = d.id /\ u.node = d.node
      BY <1>3
    <2>2. ASSUME NEW v \in w.update, v.id = u.id PROVE v = u
      <3> PICK e \in seen[c] : Emptied(e, v) \/ Kept2(e, v)
        BY <1>2
      <3>1. e.id = d.id
        BY <1>3, <2>1, <2>2
      <3>2. e = d
        BY <1>1, <3>1
      <3> QED BY <1>4, <3>2
    <2> QED BY <1>1, <1>5, <2>1, <2>2
  <1> QED BY <1>6, <1>7 DEF Tidy

\* After it, the instances are where the plan has them.
LEMMA UpdateReaches ==
    ASSUME Types, NEW c \in Calls, NEW n, n = Name(c), Listed(c), Holding(n) \subseteq store[n],
           NEW stays \in BOOLEAN, NEW w, NEW plan,
           UpdateCreates(w, plan, ListedNodes(n)),
           UpdateUpdates(w, plan, seen[c], stays), UpdateDeletes(w, plan, seen[c], stays),
           \A d \in seen[c] : plan[d.node] = {} \/ plan[d.node] \cap d.instances # {},
           NEW x \in Nodes, NEW i
    PROVE  NewOn(w, x, i) \/ UpdatedOn(w, x, i) \/ LeftOn(w, n, x, i) <=> i \in plan[x]
  <1>1. \A d \in seen[c] : /\ d \in DeploymentType /\ d.id \in Holding(n)
                           /\ d.node = contract[d.id].node /\ d.instances = contract[d.id].instances
                           /\ d.instances # {} /\ \A e \in seen[c] : e.id = d.id => e = d
    BY FitFacts DEF Listed, AllFit, Types
  <1>2. \A id \in Holding(n) : \E d \in seen[c] : d.id = id
    BY DEF Listed, SeenIds
  <1>3. ListedNodes(n) = {d.node : d \in seen[c]}
    BY <1>1 DEF Listed, ListedNodes, SeenIds
  <1>4. ASSUME NEW d \in seen[c], d.node \in Used(plan), NEW u \in Changed(d, plan[d.node])
        PROVE  u.id = d.id /\ u.node = d.node /\ u.instances = plan[d.node] /\ plan[d.node] # d.instances
    <2>1. plan[d.node] \cap d.instances # {}
      BY <1>4 DEF Used
    <2> QED BY <1>1, <1>4, <2>1, ChangedFacts
  <1>5. \A d \in seen[c] : [d EXCEPT !.instances = {}].id = d.id /\ [d EXCEPT !.instances = {}].instances = {}
    BY <1>1 DEF DeploymentType
  <1>6. ASSUME NEW d \in seen[c], d.node \in Used(plan), plan[d.node] # d.instances
        PROVE  \E u \in w.update : u.id = d.id /\ u.node = d.node /\ u.instances = plan[d.node]
    <2> PICK u \in Changed(d, plan[d.node]) : TRUE
      BY <1>1, <1>6, ChangedFacts
    <2>1. u \in w.update
      BY <1>6 DEF UpdateUpdates
    <2> QED BY <1>4, <1>6, <2>1
  <1>7. ASSUME NEW d \in seen[c], d.node \in Used(plan), plan[d.node] = d.instances
        PROVE  d.id \notin About(w)
    <2>1. ASSUME NEW u \in w.update, u.id = d.id PROVE FALSE
      <3>1. CASE \E e \in seen[c] : e.node \in Used(plan) /\ u \in Changed(e, plan[e.node])
        BY <1>1, <1>4, <1>7, <2>1, <3>1
      <3>2. CASE \E e \in seen[c] : e.node \notin Used(plan) /\ u = [e EXCEPT !.instances = {}]
        BY <1>1, <1>5, <1>7, <2>1, <3>2
      <3> QED BY <3>1, <3>2 DEF UpdateUpdates
    <2>2. d.id \notin w.delete
      BY <1>1, <1>7 DEF UpdateDeletes
    <2> QED BY <2>1, <2>2 DEF About
  <1>8. ASSUME NEW d \in seen[c], d.node \notin Used(plan)
        PROVE  d.id \in About(w)
    <2>1. CASE stays
      <3>1. [d EXCEPT !.instances = {}] \in w.update
        BY <1>8, <2>1 DEF UpdateUpdates
      <3> QED BY <1>5, <3>1 DEF About
    <2>2. CASE ~stays
      BY <1>8, <2>2 DEF UpdateDeletes, About
    <2> QED BY <2>1, <2>2
  <1>9. ASSUME i \in plan[x]
        PROVE  NewOn(w, x, i) \/ UpdatedOn(w, x, i) \/ LeftOn(w, n, x, i)
    <2>1. x \in Used(plan)
      BY <1>9 DEF Used
    <2>2. CASE x \notin ListedNodes(n)
      <3>1. New(x, plan[x]) \in w.create
        BY <2>1, <2>2 DEF UpdateCreates
      <3>2. New(x, plan[x]).node = x /\ New(x, plan[x]).instances = plan[x]
        BY DEF New
      <3> QED BY <1>9, <3>1, <3>2 DEF NewOn
    <2>3. CASE \E d \in seen[c] : d.node = x
      <3> PICK d \in seen[c] : d.node = x
        BY <2>3
      <3>1. CASE plan[x] = d.instances
        <4>1. d.id \notin About(w)
          BY <1>7, <2>1, <3>1
        <4> QED BY <1>1, <1>9, <3>1, <4>1 DEF LeftOn
      <3>2. CASE plan[x] # d.instances
        BY <1>6, <1>9, <2>1, <3>2 DEF UpdatedOn
      <3> QED BY <3>1, <3>2
    <2> QED BY <1>3, <2>2, <2>3
  <1>10. ASSUME NewOn(w, x, i) PROVE i \in plan[x]
    BY <1>10 DEF NewOn, UpdateCreates, New
  <1>11. ASSUME UpdatedOn(w, x, i) PROVE i \in plan[x]
    <2> PICK u \in w.update : u.node = x /\ i \in u.instances
      BY <1>11 DEF UpdatedOn
    <2>1. CASE \E d \in seen[c] : d.node \in Used(plan) /\ u \in Changed(d, plan[d.node])
      BY <1>4, <2>1
    <2>2. CASE \E d \in seen[c] : d.node \notin Used(plan) /\ u = [d EXCEPT !.instances = {}]
      BY <1>5, <2>2
    <2> QED BY <2>1, <2>2 DEF UpdateUpdates
  <1>12. ASSUME LeftOn(w, n, x, i) PROVE i \in plan[x]
    <2> PICK id \in Holding(n) \ About(w) : contract[id].node = x /\ i \in contract[id].instances
      BY <1>12 DEF LeftOn
    <2> PICK d \in seen[c] : d.id = id
      BY <1>2
    <2>1. d.node = x /\ i \in d.instances
      BY <1>1
    <2>2. x \in Used(plan)
      BY <1>8, <2>1
    <2>3. plan[x] = d.instances
      BY <1>6, <2>1, <2>2 DEF About
    <2> QED BY <2>1, <2>3
  <1> QED BY <1>9, <1>10, <1>11, <1>12

\* What add hands to handle(): the deployment of the node with the instance, or a
\* new one.
AddsTo(c, w, d) ==
    /\ d.node = call[c].node /\ w.create = {} /\ w.delete = {}
    /\ w.update = {[d EXCEPT !.instances = @ \cup {call[c].instance}]}
AddsNew(c, w) ==
    /\ \A d \in seen[c] : d.node # call[c].node
    /\ w.create = {New(call[c].node, {call[c].instance})} /\ w.update = {} /\ w.delete = {}

LEMMA AddShape ==
    ASSUME NEW c \in Calls, Listed(c), NEW w, w = AddWork(c)
    PROVE  AddsNew(c, w) \/ \E d \in seen[c] : AddsTo(c, w, d)
  <1> DEFINE i == call[c].instance
             old == {d \in seen[c] : d.node = call[c].node /\ d.id \in store[Name(c)]}
  <1>1. \A d \in seen[c] : d.id \in store[Name(c)]
    BY DEF Listed, SeenIds
  <1>2. CASE old # {}
    <2> DEFINE d == CHOOSE e \in old : TRUE
    <2>1. d \in old
      BY <1>2
    <2>2. w = [NoWork EXCEPT !.update = {[d EXCEPT !.instances = @ \cup {i}]}]
      BY <1>2 DEF AddWork
    <2> HIDE DEF d
    <2> QED BY <2>1, <2>2 DEF AddsTo, NoWork
  <1>3. CASE old = {}
    <2>1. w = [NoWork EXCEPT !.create = {New(call[c].node, {i})}]
      BY <1>3 DEF AddWork
    <2> QED BY <1>1, <1>3, <2>1 DEF AddsNew, NoWork
  <1> QED BY <1>2, <1>3

\* After it, the instances are those that were read, and the new one.
LEMMA AddReaches ==
    ASSUME Types, NEW c \in Calls, NEW n, n = Name(c), Listed(c), Holding(n) \subseteq store[n],
           NEW w, w = AddWork(c)
    PROVE  /\ Tidy(w, n)
           /\ \A x \in Nodes : \A i :
                NewOn(w, x, i) \/ UpdatedOn(w, x, i) \/ LeftOn(w, n, x, i) <=>
                i \in SeenOn(c, x) \cup (IF x = call[c].node THEN {call[c].instance} ELSE {})
  <1>1. \A d \in seen[c] : /\ d \in DeploymentType /\ d.id \in Holding(n)
                           /\ d.node = contract[d.id].node /\ d.instances = contract[d.id].instances
                           /\ d.instances # {} /\ \A e \in seen[c] : e.id = d.id => e = d
    BY FitFacts DEF Listed, AllFit, Types
  <1>2. \A id \in Holding(n) : \E d \in seen[c] : d.id = id
    BY DEF Listed, SeenIds
  <1>3. \A x \in Nodes : \A i : i \in SeenOn(c, x) <=> \E d \in seen[c] : d.node = x /\ i \in d.instances
    BY DEF SeenOn
  <1>4. \A x, i : LeftOn(w, n, x, i) <=>
                  \E d \in seen[c] : d.id \notin About(w) /\ d.node = x /\ i \in d.instances
    BY <1>1, <1>2 DEF LeftOn
  <1>5. CASE AddsNew(c, w)
    <2>1. About(w) = {} /\ Tidy(w, n)
      BY <1>5 DEF AddsNew, About, Tidy
    <2>2. \A x, i : (NewOn(w, x, i) <=> x = call[c].node /\ i = call[c].instance) /\ ~UpdatedOn(w, x, i)
      BY <1>5 DEF AddsNew, NewOn, UpdatedOn, New
    <2> QED BY <1>3, <1>4, <2>1, <2>2
  <1>6. ASSUME NEW d \in seen[c], AddsTo(c, w, d)
        PROVE  /\ Tidy(w, n)
               /\ \A x \in Nodes : \A i :
                    NewOn(w, x, i) \/ UpdatedOn(w, x, i) \/ LeftOn(w, n, x, i) <=>
                    i \in SeenOn(c, x) \cup (IF x = call[c].node THEN {call[c].instance} ELSE {})
    <2> PICK u : u = [d EXCEPT !.instances = @ \cup {call[c].instance}]
      OBVIOUS
    <2>1. u.id = d.id /\ u.node = d.node /\ u.instances = d.instances \cup {call[c].instance}
      BY <1>1 DEF DeploymentType
    <2>2. w.update = {u} /\ w.create = {} /\ w.delete = {} /\ d.node = call[c].node
      BY <1>6 DEF AddsTo
    <2>3. Tidy(w, n)
      BY <1>1, <2>1, <2>2 DEF Tidy
    <2>4. \A x, i : UpdatedOn(w, x, i) <=> x = d.node /\ i \in d.instances \cup {call[c].instance}
      BY <2>1, <2>2 DEF UpdatedOn
    <2>5. \A x, i : ~NewOn(w, x, i)
      BY <2>2 DEF NewOn
    <2>6. About(w) = {d.id}
      BY <2>1, <2>2, ZenonT(60) DEF About
    <2>7. \A x, i : LeftOn(w, n, x, i) <=> \E e \in seen[c] : e # d /\ e.node = x /\ i \in e.instances
      BY <1>1, <1>4, <2>6
    <2>8. \A x, i : NewOn(w, x, i) \/ UpdatedOn(w, x, i) \/ LeftOn(w, n, x, i) <=>
                    \/ x = d.node /\ i = call[c].instance
                    \/ \E e \in seen[c] : e.node = x /\ i \in e.instances
      BY <2>4, <2>5, <2>7
    <2> QED BY <1>3, <2>2, <2>3, <2>8
  <1> QED BY <1>5, <1>6, AddShape

\* One contract lost the instance, and none lost another.
InstanceGone(c) ==
    \E id \in results'[c].updated \cup results'[c].deleted :
       /\ call[c].instance \in contract[id].instances
       /\ \A i \in Holding(Name(c)) :
            contract'[i].instances = contract[i].instances
               \ (IF i = id THEN {call[c].instance} ELSE {})

\* handle() achieves what the call was asked for.
LEMMA HandlesWell ==
    ASSUME Remembering, NEW c \in Calls, Lone(c), Sole(c), Phase(c), Handle(c)
    PROVE  /\ pc'[c] \in Working => Phase(c)'
           /\ pc'[c] = "returned" => Achieved(c)'
           /\ pc'[c] = "saveLoad" /\ Op(c) = "deleteInstance" => InstanceGone(c)
  <1>1. Types /\ Owns(c) /\ pc[c] = "handle" /\ HandlePhase(c)
    BY DEF Remembering, Ownership, Handle, Phase
  <1> PICK n : n = Name(c)
    OBVIOUS
  <1> PICK w : w = work[c]
    OBVIOUS
  <1>2. n \in Names /\ w \in WorkType /\ Op(c) \in Changes
    BY <1>1 DEF Types, Working, Lone
  <1> PICK fresh \in NewContracts(w.create), along \in Along(c),
           rewired \in MayStay(Name(c)) :
         LET deletes == w.delete \cup along
             changes == [created |-> {fresh[t] : t \in DOMAIN fresh},
                         updated |-> {d.id : d \in w.update},
                         deleted |-> deletes]
             all == [created |-> changes.created,
                     updated |-> results[c].updated \cup changes.updated,
                     deleted |-> results[c].deleted \cup changes.deleted]
         IN /\ contract' = Applied(n, fresh, w.update, deletes)
            /\ results' = [results EXCEPT ![c] = all]
            /\ Goto(c, AfterHandle(c, changes, rewired))
    BY DEF Handle
  <1> PICK changes : changes = [created |-> {fresh[t] : t \in DOMAIN fresh},
                                updated |-> {d.id : d \in w.update},
                                deleted |-> w.delete \cup along]
    OBVIOUS
  <1>3. /\ along \subseteq NetworkOnly /\ (w = NoWork => along = {})
        /\ contract' = Applied(n, fresh, w.update, w.delete \cup along)
        /\ pc'[c] = AfterHandle(c, changes, rewired)
        /\ results'[c].updated = results[c].updated \cup changes.updated
        /\ results'[c].deleted = results[c].deleted \cup changes.deleted
    BY <1>1 DEF Along, Goto, Types, TypeOK
  <1>4. /\ Op(c) \in {"deploy", "add"} => pc'[c] = "saveLoad"
        /\ Op(c) = "update" => pc'[c] \in {"saveLoad", "returned"}
        /\ Op(c) = "delete" => pc'[c] = "build"
        /\ Op(c) = "deleteInstance" => pc'[c] = IF changes = NoChange THEN "build" ELSE "saveLoad"
    BY <1>2, <1>3 DEF AfterHandle
  <1>5. UNCHANGED <<call, todo, seen, store>>
    BY DEF Handle
  <1>6. Name(c)' = n /\ Op(c)' = Op(c) /\ call'[c] = call[c] /\ seen'[c] = seen[c] /\ todo'[c] = todo[c]
        /\ call[c].name = n
    BY <1>5 DEF Name, Op
  <1>7. Holding(n) \subseteq store[n]
    BY <1>1, <1>2, AllListed DEF Sole, Lone
  <1>8. Tidy(w, n) => /\ Handled(n, w, fresh, along)
                      /\ \A x \in Nodes : \A i : i \in Held(n, x)' <=>
                           NewOn(w, x, i) \/ UpdatedOn(w, x, i) \/ LeftOn(w, n, x, i)
    BY <1>1, <1>2, <1>3, HandledWork, HeldAfter
  <1>9. \A id \in Holding(n) : id \in Ids /\ contract[id] \in ContractType /\ contract[id].instances # {}
    BY <1>1 DEF Holding, Types, TypeOK, ContractType
  <1>10. Achieved(c)' /\ Op(c) # "deleteInstance" /\ pc'[c] \in {"saveLoad", "returned"} =>
           /\ pc'[c] \in Working => Phase(c)'
           /\ pc'[c] = "returned" => Achieved(c)'
    BY DEF Phase, Reading
  <1>11. CASE Op(c) = "deploy"
    <2>1. Holding(n) = {} /\ w = DeployWork(call[c])
      BY <1>1, <1>11 DEF HandlePhase
    <2>2. w.update = {} /\ w.delete = {}
          /\ \A t : t \in w.create <=>
                \/ \E y \in Nodes : call[c].plan[y] # {} /\ t = New(y, call[c].plan[y])
                \/ \E y \in call[c].access : call[c].plan[y] = {} /\ t = New(y, {})
      BY <2>1 DEF DeployWork, NoWork
    <2>3. Tidy(w, n)
      BY <2>2 DEF Tidy
    <2>4. \A x \in Nodes : \A i : NewOn(w, x, i) <=> i \in call[c].plan[x]
      <3> TAKE x \in Nodes
      <3> TAKE i
      <3>1. ASSUME NewOn(w, x, i) PROVE i \in call[c].plan[x]
        BY <2>2, <3>1 DEF NewOn, New
      <3>2. ASSUME i \in call[c].plan[x] PROVE NewOn(w, x, i)
        <4>1. New(x, call[c].plan[x]) \in w.create
          BY <2>2, <3>2
        <4> QED BY <3>2, <4>1 DEF NewOn, New
      <3> QED BY <3>1, <3>2
    <2>5. \A x \in Nodes : \A i : ~UpdatedOn(w, x, i) /\ ~LeftOn(w, n, x, i)
      BY <2>1, <2>2 DEF UpdatedOn, LeftOn
    <2>6. \A x \in Nodes : \A i : i \in Held(n, x)' <=> i \in call[c].plan[x]
      BY <1>8, <2>3, <2>4, <2>5
    <2>7. \A x \in Nodes : Held(n, x)' = call[c].plan[x]
      <3>1. \A x \in Nodes : call[c].plan[x] \in SUBSET Instances
        BY <1>1 DEF Types, TypeOK, Request
      <3> QED BY <2>6, <3>1 DEF Held
    <2>8. Achieved(c)'
      BY <1>6, <1>11, <2>7 DEF Achieved, Op
    <2> QED BY <1>4, <1>10, <1>11, <2>8
  <1>12. CASE Op(c) = "update"
    <2>1. PICK stays \in BOOLEAN : Listed(c) /\ w = UpdateWork(c, stays)
      BY <1>1, <1>12 DEF HandlePhase
    <2> PICK plan : plan = call[c].plan
      OBVIOUS
    <2>2. /\ UpdateCreates(w, plan, ListedNodes(n))
          /\ UpdateUpdates(w, plan, seen[c], stays) /\ UpdateDeletes(w, plan, seen[c], stays)
      BY <1>1, <2>1, UpdateShape DEF Listed
    <2>3. Tidy(w, n)
      BY <1>1, <2>1, <2>2, UpdateTidy DEF Listed
    <2>4. ASSUME \A d \in seen[c] : plan[d.node] = {} \/ plan[d.node] \cap d.instances # {}
          PROVE  \A x \in Nodes : Held(n, x)' = plan[x]
      <3>1. \A x \in Nodes : \A i : i \in Held(n, x)' <=> i \in plan[x]
        BY <1>1, <1>7, <1>8, <2>1, <2>2, <2>3, <2>4, UpdateReaches, SMTT(30)
      <3>2. \A x \in Nodes : plan[x] \in SUBSET Instances
        BY <1>1 DEF Types, TypeOK, Request
      <3> QED BY <3>1, <3>2 DEF Held
    <2>5. Achieved(c)'
      BY <1>6, <1>12, <2>4 DEF Achieved, Op
    <2> QED BY <1>4, <1>10, <1>12, <2>5
  <1>13. CASE Op(c) = "add"
    <2>1. Listed(c) /\ w = AddWork(c)
      BY <1>1, <1>13 DEF HandlePhase
    <2>2. /\ Tidy(w, n)
          /\ \A x \in Nodes : \A i :
               NewOn(w, x, i) \/ UpdatedOn(w, x, i) \/ LeftOn(w, n, x, i) <=>
               i \in SeenOn(c, x) \cup (IF x = call[c].node THEN {call[c].instance} ELSE {})
      BY <1>1, <1>7, <2>1, AddReaches
    <2>3. \A x \in Nodes : Held(n, x)' = SeenOn(c, x) \cup (IF x = call[c].node THEN {call[c].instance} ELSE {})
      <3>1. \A x \in Nodes : \A i : i \in Held(n, x)' <=>
              i \in SeenOn(c, x) \cup (IF x = call[c].node THEN {call[c].instance} ELSE {})
        BY <1>8, <2>2
      <3> QED BY <3>1 DEF Held
    <2>4. \A x \in Nodes : SeenOn(c, x)' = SeenOn(c, x)
      BY <1>6 DEF SeenOn
    <2>5. Achieved(c)'
      BY <1>6, <1>13, <2>3, <2>4 DEF Achieved, Op
    <2> QED BY <1>4, <1>10, <1>13, <2>5
  <1>14. CASE Op(c) = "delete"
    <2> PICK d \in seen[c], stays \in BOOLEAN :
           /\ w = Without(d, d.instances, stays) /\ Fits(c, d) /\ d.id \notin todo[c]
           /\ Holding(n) \subseteq todo[c] \cup {d.id}
           /\ \A e \in seen[c] : e.id \in todo[c] => Fits(c, e)
      BY <1>1, <1>14 DEF HandlePhase
    <2>1. d.id \in Holding(n) /\ d.node = contract[d.id].node /\ d.instances # {} /\ d \in DeploymentType
      BY <1>1, FitFacts DEF Types
    <2> PICK u : u = [d EXCEPT !.instances = @ \ d.instances]
      OBVIOUS
    <2>2. u.id = d.id /\ u.node = d.node /\ u.instances = {}
      BY <2>1 DEF DeploymentType
    <2>3. w.create = {} /\ \/ w.delete = {d.id} /\ w.update = {}
                           \/ w.delete = {} /\ w.update = {u}
      BY <2>1 DEF Without, NoWork
    <2>4. Tidy(w, n) /\ About(w) = {d.id}
      <3>1. CASE w.delete = {d.id} /\ w.update = {}
        BY <2>1, <3>1 DEF Tidy, About
      <3>2. CASE w.delete = {} /\ w.update = {u}
        <4>1. Tidy(w, n)
          BY <2>1, <2>2, <3>2 DEF Tidy
        <4>2. About(w) = {u.id}
          BY <3>2 DEF About
        <4> QED BY <2>2, <4>1, <4>2
      <3> QED BY <2>3, <3>1, <3>2
    <2>5. Handled(n, w, fresh, along)
      BY <1>8, <2>4
    <2>6. contract'[d.id].instances = {}
      <3>1. CASE w.delete = {d.id}
        BY <2>5, <3>1 DEF Handled
      <3>2. CASE w.update = {u}
        <4>2. u \in w.update
          BY <3>2
        <4>3. contract'[u.id] = [contract[u.id] EXCEPT !.instances = u.instances]
          BY <2>5, <4>2 DEF Handled
        <4>1. contract'[d.id] = [contract[d.id] EXCEPT !.instances = {}]
          BY <2>2, <4>3
        <4> QED BY <1>9, <2>1, <4>1 DEF ContractType
      <3> QED BY <2>3, <3>1, <3>2
    <2>7. Holding(n)' \subseteq Holding(n) /\ d.id \notin Holding(n)'
      BY <2>3, <2>5, <2>6 DEF Handled, Holding
    <2>8. \A id \in Holding(n) : id # d.id => contract'[id] = contract[id] /\ id \in Holding(n)'
      <3> TAKE id \in Holding(n)
      <3> HAVE id # d.id
      <3>1. contract'[id] = contract[id]
        BY <2>4, <2>5 DEF Handled
      <3> QED BY <3>1 DEF Holding, Live
    <2>9. ASSUME NEW e \in seen[c], e.id \in todo[c] PROVE Fits(c, e)'
      <3>1. Fits(c, e) /\ e.id # d.id
        BY <2>9
      <3>2. e.id \in Holding(n) /\ e = Deployment(e.id)
        BY <3>1 DEF Fits
      <3>3. contract'[e.id] = contract[e.id] /\ e.id \in Holding(n)'
        BY <2>8, <3>1, <3>2
      <3> QED BY <1>6, <3>2, <3>3 DEF Fits, Deployment
    <2>10. Holding(n)' \subseteq todo[c]
      BY <2>7
    <2>11. BuildPhase(c)'
      BY <1>6, <1>14, <2>9, <2>10 DEF BuildPhase
    <2> QED BY <1>4, <1>14, <2>11 DEF Phase, Reading
  <1>15. CASE Op(c) = "deleteInstance"
    <2> PICK i : i = call[c].instance
      OBVIOUS
    <2> PICK d \in seen[c], stays \in BOOLEAN : w = Without(d, d.instances \cap {i}, stays)
      BY <1>1, <1>15 DEF HandlePhase
    <2>1. AllFit(c) /\ results[c] = NoChange
      BY <1>1, <1>15 DEF HandlePhase, Lone
    <2>2. Fits(c, d) /\ d \in DeploymentType
      BY <1>1, <2>1 DEF AllFit, Types
    <2>3. d.id \in Holding(n) /\ d.node = contract[d.id].node /\ d.instances = contract[d.id].instances
      BY <2>2, FitFacts
    <2>4. CASE i \notin d.instances
      <3>1. w = NoWork
        BY <2>4 DEF Without
      <3>2. along = {} /\ w.create = {} /\ w.update = {} /\ w.delete = {}
        <4>1. along = {}
          BY <1>3, <3>1
        <4>2. NoWork.create = {} /\ NoWork.update = {} /\ NoWork.delete = {}
          BY DEF NoWork
        <4> QED BY <3>1, <4>1, <4>2
      <3>3. DOMAIN fresh = {}
        BY <3>2 DEF NewContracts
      <3>4. pc'[c] = "build"
        BY <1>4, <1>15, <3>2, <3>3 DEF NoChange
      <3>5. Tidy(w, n) /\ About(w) = {}
        BY <3>2 DEF Tidy, About
      <3>6. \A id \in Holding(n) : contract'[id] = contract[id] /\ id \in Holding(n)'
        <4> TAKE id \in Holding(n)
        <4>1. contract'[id] = contract[id]
          BY <1>8, <3>5 DEF Handled
        <4> QED BY <4>1 DEF Holding, Live
      <3>7. ASSUME NEW e \in seen[c] PROVE Fits(c, e)'
        <4>1. e.id \in Holding(n) /\ e = Deployment(e.id)
          BY <2>1 DEF AllFit, Fits
        <4>2. contract'[e.id] = contract[e.id] /\ e.id \in Holding(n)'
          BY <3>6, <4>1
        <4> QED BY <1>6, <4>1, <4>2 DEF Fits, Deployment
      <3>8. BuildPhase(c)'
        BY <1>6, <1>15, <3>7 DEF BuildPhase, AllFit
      <3> QED BY <3>4, <3>8 DEF Phase, Reading
    <2>5. CASE i \in d.instances
      <3> PICK u : u = [d EXCEPT !.instances = @ \ {i}]
        OBVIOUS
      <3>1. u.id = d.id /\ u.node = d.node /\ u.instances = d.instances \ {i}
        BY <2>2 DEF DeploymentType
      <3>2. d.instances \cap {i} = {i}
        BY <2>5
      <3>3. w.create = {} /\ \/ w.delete = {d.id} /\ w.update = {} /\ d.instances = {i}
                             \/ w.delete = {} /\ w.update = {u}
        <4>1. w = Without(d, {i}, stays)
          BY <3>2
        <4>2. w = IF d.instances \subseteq {i} /\ ~stays THEN [NoWork EXCEPT !.delete = {d.id}]
                  ELSE [NoWork EXCEPT !.update = {u}]
          BY <4>1 DEF Without
        <4> QED BY <2>5, <4>2 DEF NoWork
      <3>4. Tidy(w, n) /\ About(w) = {d.id}
        <4>1. CASE w.delete = {d.id} /\ w.update = {}
          BY <2>3, <4>1 DEF Tidy, About
        <4>2. CASE w.delete = {} /\ w.update = {u}
          <5>1. Tidy(w, n)
            BY <2>3, <3>1, <4>2 DEF Tidy
          <5>2. About(w) = {u.id}
            BY <4>2 DEF About
          <5> QED BY <3>1, <5>1, <5>2
        <4> QED BY <3>3, <4>1, <4>2
      <3>5. Handled(n, w, fresh, along)
        BY <1>8, <3>4
      <3>6. contract'[d.id].instances = contract[d.id].instances \ {i}
        <4>1. CASE w.delete = {d.id} /\ d.instances = {i}
          BY <2>3, <3>5, <4>1 DEF Handled
        <4>2. CASE w.update = {u}
          <5>2. u \in w.update
            BY <4>2
          <5>3. contract'[u.id] = [contract[u.id] EXCEPT !.instances = u.instances]
            BY <3>5, <5>2 DEF Handled
          <5>1. contract'[d.id] = [contract[d.id] EXCEPT !.instances = u.instances]
            BY <3>1, <5>3
          <5> QED BY <1>9, <2>3, <3>1, <5>1 DEF ContractType
        <4> QED BY <3>3, <4>1, <4>2
      <3>7. \A id \in Holding(n) : id # d.id => contract'[id] = contract[id]
        BY <3>4, <3>5 DEF Handled
      <3>8. changes.updated \cup changes.deleted = {d.id} \cup along
        <4>1. changes.updated = {e.id : e \in w.update} /\ changes.deleted = w.delete \cup along
          OBVIOUS
        <4>2. changes.updated \cup changes.deleted = About(w) \cup along
          BY <4>1 DEF About
        <4> QED BY <3>4, <4>2
      <3>9. results'[c].updated \cup results'[c].deleted = {d.id} \cup along
        <4>1. results[c].updated = {} /\ results[c].deleted = {}
          BY <2>1 DEF NoChange
        <4> QED BY <1>3, <3>8, <4>1
      <3>10. pc'[c] = "saveLoad"
        <4>1. changes # NoChange
          BY <3>8 DEF NoChange
        <4> QED BY <1>4, <1>15, <4>1
      <3>11. InstanceGone(c)
        <4>1. d.id \in results'[c].updated \cup results'[c].deleted /\ i \in contract[d.id].instances
          BY <2>3, <2>5, <3>9
        <4>2. \A id \in Holding(n) : contract'[id].instances =
                contract[id].instances \ (IF id = d.id THEN {i} ELSE {})
          BY <3>6, <3>7
        <4> QED BY <4>1, <4>2, ZenonT(60) DEF InstanceGone
      <3>12. \A id \in Holding(n)' : i \in contract'[id].instances => id \notin {d.id} \cup along
        BY <3>5, <3>6 DEF Handled, Holding
      <3>13. Achieved(c)'
        BY <1>6, <1>15, <3>9, <3>12 DEF Achieved, Op
      <3> QED BY <3>10, <3>11, <3>13 DEF Phase, Reading
    <2> QED BY <2>4, <2>5
  <1> QED BY <1>2, <1>11, <1>12, <1>13, <1>14, <1>15 DEF Changes


\* save() does not touch what was achieved.
LEMMA SavesWell ==
    ASSUME Remembering, NEW c \in Calls, Lone(c), Sole(c) => Phase(c), SaveLoad(c) \/ SaveDump(c)
    PROVE  Owed(c)
  <1>1. Types /\ UpToDate(c)
    BY DEF Remembering, Ownership
  <1> SUFFICES ASSUME c \in alone', Name(c)' \notin disturbed'
               PROVE  /\ pc'[c] \in Working => Phase(c)'
                      /\ pc'[c] = "returned" => Achieved(c)'
    BY DEF Owed
  <1>2. UNCHANGED <<call, alone, contract, todo, seen, results, saving>>
        /\ pc[c] \in {"saveLoad", "pruneLoad", "saveDump", "pruneDump"}
    BY DEF SaveLoad, SaveDump, memory
  <1>3. Sole(c) /\ Phase(c) /\ Name(c) \in Names
    BY <1>1, <1>2, SoleBefore DEF Step, Working, Reading, Types
  <1>4. Op(c)' = Op(c) /\ Name(c)' = Name(c) /\ call'[c] = call[c] /\ results'[c] = results[c]
        /\ seen'[c] = seen[c] /\ todo'[c] = todo[c] /\ saving'[c] = saving[c]
    BY <1>2 DEF Op, Name
  <1>5. AllFit(c)' <=> AllFit(c)
    BY <1>2, <1>4 DEF AllFit, Fits, Holding, Live, Deployment
  <1>6. SeenIds(c)' = SeenIds(c)
    BY <1>4 DEF SeenIds
  <1>7. Op(c) = "deleteInstance" /\ results[c] # NoChange /\ pc[c] \in Reading => Achieved(c)'
    BY <1>2, <1>3, <1>4, AchievedStays DEF Phase
  <1>8. pc[c] \in {"saveLoad", "saveDump"} => Achieved(c)' /\ Op(c) \in Changes
    BY <1>2, <1>3, <1>4, AchievedStays DEF Phase, Lone, Changes
  <1>9. CASE SaveLoad(c)
    <2>1. /\ UNCHANGED store
          /\ \/ pc[c] = "saveLoad" /\ pc'[c] = "saveDump"
             \/ pc[c] = "pruneLoad" /\ pc'[c] = "pruneDump"
      BY <1>1, <1>9 DEF SaveLoad, Goto, Types, TypeOK
    <2>2. CASE pc[c] = "saveLoad" /\ pc'[c] = "saveDump"
      BY <1>8, <2>2 DEF Phase, Reading
    <2>3. CASE pc[c] = "pruneLoad" /\ pc'[c] = "pruneDump"
      <3>1. PrunePhase(c)
        BY <1>3, <2>3 DEF Phase
      <3>2. PrunePhase(c)'
        BY <1>4, <1>5, <1>6, <2>1, <3>1 DEF PrunePhase
      <3> QED BY <1>4, <1>7, <2>3, <3>2 DEF Phase, Reading
    <2> QED BY <2>1, <2>2, <2>3
  <1>10. CASE SaveDump(c)
    <2>1. /\ store'[Name(c)] = (loaded[c] \cup saving[c].created) \ saving[c].deleted
          /\ \/ pc[c] = "saveDump" /\ pc'[c] = (IF Op(c) = "deleteInstance" THEN "load" ELSE "returned")
             \/ pc[c] = "pruneDump" /\ pc'[c] = "get"
      BY <1>1, <1>3, <1>10 DEF SaveDump, Goto, Types, TypeOK
    <2>2. CASE pc[c] = "saveDump" /\ pc'[c] = (IF Op(c) = "deleteInstance" THEN "load" ELSE "returned")
      <3>1. pc'[c] \in {"load", "returned"} /\ Achieved(c)'
        BY <1>8, <2>2
      <3> QED BY <3>1 DEF Phase, Working, Reading
    <2>3. CASE pc[c] = "pruneDump" /\ pc'[c] = "get"
      <3>1. loaded[c] = store[Name(c)]
        BY <1>1, <1>3, <2>3 DEF UpToDate, Dumps, Sole
      <3>2. PrunePhase(c)
        BY <1>3, <2>3 DEF Phase
      <3>3. store'[Name(c)] = todo[c] \cup SeenIds(c)
        BY <2>1, <3>1, <3>2 DEF PrunePhase
      <3>4. GetPhase(c)'
        BY <1>4, <1>5, <1>6, <3>2, <3>3 DEF PrunePhase, GetPhase
      <3> QED BY <1>4, <1>7, <2>3, <3>4 DEF Phase, Reading
    <2> QED BY <2>1, <2>2, <2>3
  <1> QED BY <1>9, <1>10

\* Every step of a call leaves what the next one needs.
LEMMA StepWell ==
    ASSUME Achieving, Remembering', NEW c \in Calls, Step(c) \/ Crash(c)
    PROVE  Owed(c)
  <1>1. Remembering /\ Types /\ (\A e \in Calls : Lone(e)) /\ (Sole(c) => Phase(c))
    BY DEF Achieving, Remembering, Ownership
  <1>2. CASE Machines(c) \/ K8s(c) \/ Zdbs(c) \/ QsfsZdbs(c) \/ Gateway(c)
    BY <1>1, <1>2, BeginsWell
  <1>3. CASE Load(c) \/ GetOne(c) \/ GetFails(c) \/ GetDone(c)
    BY <1>1, <1>3, ReadsWell
  <1>4. CASE Build(c) \/ BuildDone(c)
    BY <1>1, <1>4, BuildsWell
  <1>5. CASE Handle(c)
    <2>1. UNCHANGED <<call, alone>> /\ pc[c] = "handle"
      BY <1>5 DEF Handle
    <2>2. (c \in alone /\ Name(c) \notin disturbed)' => Sole(c)
      BY <1>1, <1>5, <2>1, SoleBefore DEF Step, Working
    <2> QED BY <1>1, <1>5, <2>2, HandlesWell DEF Owed
  <1>6. CASE HandleFails(c) \/ Crash(c)
    <2>1. pc'[c] \in {"threw", "crashed"}
      BY <1>1, <1>6 DEF HandleFails, Crash, Throw, Goto, Types, TypeOK
    <2> QED BY <2>1 DEF Owed, Working, Reading
  <1>7. CASE SaveLoad(c) \/ SaveDump(c)
    BY <1>1, <1>7, SavesWell
  <1>8. CASE Cancel(c)
    <2>1. pc'[c] = "invalidate"
      BY <1>1, <1>8 DEF Cancel, Goto, Types, TypeOK
    <2> QED BY <2>1 DEF Owed, Working, Reading
  <1>9. CASE Invalidate(c) \/ CancelMine(c)
    <2>1. alone' \subseteq alone
      BY <1>9 DEF Invalidate, CancelMine, Cancelled
    <2>2. c \notin alone
      BY <1>1, <1>9 DEF Lone, Invalidate, CancelMine
    <2> QED BY <2>1, <2>2 DEF Owed
  <1> QED BY <1>2, <1>3, <1>4, <1>5, <1>6, <1>7, <1>8, <1>9 DEF Step

LEMMA AchievingInit == Init => Achieving
  <1> SUFFICES ASSUME Init PROVE Achieving
    OBVIOUS
  <1>1. Remembering
    BY RememberingInit
  <1>2. \A c \in Calls : pc[c] = "idle" /\ c \notin alone
    BY DEF Init
  <1>3. \A c \in Calls : Lone(c) /\ ~Sole(c)
    BY <1>2 DEF Lone, Sole, Reading
  <1> QED BY <1>1, <1>3 DEF Achieving

LEMMA AchievingNext == Achieving /\ [Next]_vars => Achieving'
  <1> SUFFICES ASSUME Achieving, [Next]_vars PROVE Achieving'
    OBVIOUS
  <1>1. Remembering /\ Ownership /\ Types /\ \A c \in Calls : Lone(c) /\ (Sole(c) => Phase(c))
    BY DEF Achieving, Remembering, Ownership
  <1>2. Remembering'
    BY <1>1, RememberingNext
  <1>3. CASE UNCHANGED vars
    <2> USE <1>3 DEF vars, memory
    <2>1. \A c \in Calls : Name(c)' = Name(c) /\ Op(c)' = Op(c)
      BY DEF Name, Op
    <2>2. \A c \in Calls : Lone(c)'
      BY <1>1, <2>1 DEF Lone
    <2>3. ASSUME NEW c \in Calls, Sole(c)' PROVE Phase(c)'
      <3> PICK n : n = Name(c)
        OBVIOUS
      <3>1. Sole(c)
        BY <2>1, <2>3 DEF Sole
      <3>2. Untouched(c)
        BY DEF Untouched
      <3>3. Alike(n)
        BY DEF Alike, Holding, Live, ListedNodes
      <3> QED BY <1>1, <3>1, <3>2, <3>3, PhaseStays
    <2> QED BY <1>2, <2>2, <2>3 DEF Achieving
  <1>4. ASSUME NEW b \in Calls, Step(b) \/ Crash(b) PROVE Achieving'
    <2>1. \A c \in Calls \ {b} : Untouched(c)
      BY <1>1, <1>4, OneCall
    <2>2. \A c \in Calls :
             /\ pc'[c] \in {"idle", "invalidate", "cancelMine"} \/ Op(c)' \in {"cancel", "cancelMine"} => c \notin alone'
             /\ c \in alone' /\ pc'[c] \in Working =>
                  \A e \in Calls \ {c} : pc'[e] \in Working => Name(e)' # Name(c)'
      BY <1>1, <1>4, LoneNext
    <2>3. \A c \in Calls : Controlled(pc'[c], Op(c)', results'[c])
      <3>1. Controlled(pc'[b], Op(b)', results'[b])
        BY <1>1, <1>4, ControlNext
      <3>2. ASSUME NEW c \in Calls \ {b} PROVE Controlled(pc'[c], Op(c)', results'[c])
        <4>1. Controlled(pc[c], Op(c), results[c])
          BY <1>1 DEF Lone, Controlled
        <4> QED BY <2>1, <4>1 DEF Untouched, Op
      <3> QED BY <3>1, <3>2
    <2>4. \A c \in Calls : Lone(c)'
      BY <2>2, <2>3 DEF Lone, Controlled
    <2>5. ASSUME NEW c \in Calls, Sole(c)' PROVE Phase(c)'
      <3>1. CASE c = b
        <4>1. Owed(c)
          BY <1>2, <1>4, <3>1, StepWell
        <4> QED BY <2>5, <4>1 DEF Owed, Sole
      <3>2. CASE c # b
        <4>1. c \in alone' /\ pc'[c] \in Working /\ Name(c)' \notin disturbed'
          BY <2>5 DEF Sole
        <4>2. Name(c)' = Name(c) /\ pc[c] \in Working /\ disturbed \subseteq disturbed'
          BY <1>4, <2>1, <3>2, <4>1, DisturbedStays DEF Untouched, Name
        <4>3. c \in alone
          BY <1>1, <1>4, <3>2, <4>1, <4>2, AloneBefore
        <4>4. Sole(c)
          BY <4>1, <4>2, <4>3 DEF Sole
        <4> QED BY <1>1, <1>4, <3>2, <4>1, <4>4, OthersPhase
      <3> QED BY <3>1, <3>2
    <2> QED BY <1>2, <2>4, <2>5 DEF Achieving
  <1> QED BY <1>3, <1>4 DEF Next

LEMMA AchievingAlways == Spec => []Achieving
  BY AchievingInit, AchievingNext, PTL DEF Spec

\* A call that returns, and had its deployment to itself, has achieved what it
\* was asked: after deploy and update the instances are where the plan has them,
\* add has added its instance and left the others, delete has left none, what
\* deleteInstance reports no longer has the instance, and get tells what is
\* deployed and listed. Whatever the other calls do meanwhile.
THEOREM CallsAchieve == Spec => ReturnsDone
  <1>1. ASSUME Achieving, Achieving', [Next]_vars, NEW c \in Calls,
               pc[c] # "returned", pc'[c] = "returned", call'[c].name # NoName,
               c \in alone', call'[c].name \notin disturbed'
        PROVE  Achieved(c)'
    <2>1. pc' # pc
      BY <1>1
    <2> PICK b \in Calls : Step(b) \/ Crash(b)
      BY <1>1, <2>1 DEF Next, vars
    <2>2. b = c
      BY <1>1, OneCall DEF Achieving, Remembering, Ownership, Untouched
    <2>3. Owed(c)
      BY <1>1, <2>2, StepWell DEF Achieving
    <2> QED BY <1>1, <2>3 DEF Owed, Name
  <1>2. Achieving /\ Achieving' /\ [Next]_vars =>
          \A c \in Calls :
            (/\ pc[c] # "returned" /\ pc'[c] = "returned" /\ call'[c].name # NoName
             /\ c \in alone' /\ call'[c].name \notin disturbed')
            => Achieved(c)'
    BY <1>1
  <1> QED BY <1>2, AchievingAlways, PTL DEF ReturnsDone, Spec

\* A deleteInstance that has its deployment to itself takes the instance out of
\* one contract, and nothing else out of any contract of the deployment.
THEOREM NothingElseGone == Spec => OnlyInstanceGone
  <1>1. ASSUME Achieving, [Next]_vars, NEW c \in Calls, pc[c] = "handle", pc'[c] = "saveLoad",
               Op(c) = "deleteInstance", c \in alone, Name(c) \notin disturbed
        PROVE  InstanceGone(c)
    <2>1. pc' # pc /\ Remembering /\ Types /\ Lone(c) /\ (Sole(c) => Phase(c))
      BY <1>1 DEF Achieving, Remembering, Ownership
    <2> PICK b \in Calls : Step(b) \/ Crash(b)
      BY <1>1, <2>1 DEF Next, vars
    <2>2. b = c
      BY <1>1, <2>1, OneCall DEF Untouched
    <2>3. Sole(c)
      BY <1>1 DEF Sole, Working
    <2>4. Handle(c)
      <3>1. CASE Machines(c) \/ K8s(c) \/ Zdbs(c) \/ QsfsZdbs(c) \/ Gateway(c)
        BY <1>1, <3>1, Asking DEF Begin
      <3> QED
        BY <1>1, <2>1, <2>2, <3>1
        DEF Step, Load, GetOne, GetFails, GetDone, Build, BuildDone, HandleFails, SaveLoad, SaveDump,
            Cancel, Invalidate, CancelMine, Crash, Throw, Goto, Types, TypeOK
    <2> QED BY <1>1, <2>1, <2>3, <2>4, HandlesWell
  <1>2. Achieving /\ [Next]_vars =>
          \A c \in Calls :
            (/\ pc[c] = "handle" /\ pc'[c] = "saveLoad" /\ Op(c) = "deleteInstance"
             /\ c \in alone /\ Name(c) \notin disturbed)
            => \E id \in results'[c].updated \cup results'[c].deleted :
                 /\ call[c].instance \in contract[id].instances
                 /\ \A i \in Holding(Name(c)) :
                      contract'[i].instances = contract[i].instances
                         \ (IF i = id THEN {call[c].instance} ELSE {})
    BY <1>1 DEF InstanceGone
  <1> QED BY <1>2, AchievingAlways, PTL DEF OnlyInstanceGone, Spec
=============================================================================
