------------------------ MODULE TwinDeploymentHandler ------------------------
(***************************************************************************)
(* Concurrent executions of TwinDeploymentHandler.handle: each walks a     *)
(* merged batch of TwinDeployments, creates / updates / cancels contracts  *)
(* on the chain, sends the deployments to the nodes over RMB, waits until  *)
(* they are ready, saves the networks, and rolls back when a step throws.  *)
(* Every await of the code is a step; an uncaught exception is Throw.      *)
(* The chain and the nodes are external: they do what src/ relies on.      *)
(***************************************************************************)
EXTENDS Naturals, Sequences, FiniteSetsExt

CONSTANTS
    Handlers,   \* the calls of handle() that run concurrently
    NoHandler,  \* "created by none of them"
    Names,      \* names a gateway can ask a name contract for
    Specs,      \* contents a deployment can have on a node
    NoSpec,     \* no content: nothing deployed
    Version,    \* [Specs -> Nat]: the version field of that content
    Batch,      \* [Handlers -> Seq(TwinDeployment)]: what merge() returned
    Existing,   \* Seq: the contracts on the chain before, ids 1..Len(Existing)
    MaxId,      \* bound: the last contract id the chain assigns
    Faults      \* which external calls may fail

FaultKinds ==
    {"capacity",  \* checkNodesCapacity refuses the batch
     "query",     \* a chain query throws
     "tx",        \* an extrinsic is refused and has no effect
     "txUnknown", \* an extrinsic takes effect but its answer is an error
     "cancel",    \* a cancelContract extrinsic is refused
     "rmb",       \* an RMB request is not delivered
     "rmbLost",   \* an RMB request is executed but its answer is lost
     "workload",  \* a workload ends in state "error" on its node
     "timeout",   \* waitForDeployment gives up
     "storage",   \* Network.save throws
     "external"}  \* a contract is cancelled by someone else

Ids == 1..MaxId

\* class TwinDeployment: names are those of its gateway-name-proxy workloads,
\* contract_id is 0 (undefined) for a deployment that is not deployed yet.
TwinDeployment == [operation : {"deploy", "update", "delete"},
                   spec : Specs, contract_id : Ids \cup {0},
                   names : Seq(Names), network : BOOLEAN]

ASSUME HandlerAssumption ==
    /\ MaxId \in Nat
    /\ NoHandler \notin Handlers
    /\ NoSpec \notin Specs
    /\ Version \in [Specs -> Nat]
    /\ Batch \in [Handlers -> Seq(TwinDeployment)]
    /\ Existing \in Seq([kind : {"node", "name"}, spec : Specs \cup {NoSpec},
                         names : SUBSET Names])
    /\ Len(Existing) <= MaxId
    /\ Faults \subseteq FaultKinds

\* A batch is the result of merge(): a deployment has no contract yet, an
\* update or a deletion names an existing node contract, each named at most once, except
\* that two deletions of one contract are both kept.
ASSUME BatchAssumption ==
    \A h \in Handlers : \A i, j \in 1..Len(Batch[h]) :
        /\ Batch[h][i].operation = "deploy" <=> Batch[h][i].contract_id = 0
        /\ Batch[h][i].contract_id <= Len(Existing)
        /\ Batch[h][i].contract_id # 0 => Existing[Batch[h][i].contract_id].kind = "node"
        /\ (Batch[h][i].operation = "update"
              /\ Batch[h][i].contract_id = Batch[h][j].contract_id) => i = j

\* A name contract is for one name: createNameContract takes a name.
ASSUME NameAssumption ==
    \A i \in 1..Len(Existing) : Existing[i].kind = "name" =>
        \A n, m \in Existing[i].names : n = m

VARIABLES
    contract,   \* chain: id -> contract
    registry,   \* chain: name -> id of its name contract, 0 if there is none
    nextId,     \* chain: the id of the next contract
    node,       \* nodes: contract id -> what the node holds for it
    pc,         \* handler: the step it awaits
    item,       \* handler: index of the TwinDeployment it works on
    name,       \* handler: index in the gateway names of that item
    mode,       \* handler: "forward", or the rollback it is in
    target,     \* handler: id of the name contract to cancel
    cid,        \* handler: deployment.contract_id of every item
    created,    \* handler: contracts.created
    updated,    \* handler: contracts.updated
    deleted,    \* handler: contracts.deleted
    ready       \* handler: items whose waitForDeployment returned

chain == <<contract, registry, nextId>>
results == <<created, updated, deleted>>
control == <<pc, item, name, mode>>
vars == <<chain, node, control, target, cid, results, ready>>

Contract == [state : {"free", "created", "deleted"}, kind : {"node", "name"},
             by : Handlers \cup {NoHandler}]
NodeState == [want : Specs \cup {NoSpec}, cur : Specs \cup {NoSpec},
              state : {"none", "ok", "error", "deleted"}]

\* An entry of contracts.created: the chain's answer has a field contractId,
\* the record deploy() builds for its own rollback a field contract_id.
Entry == [contractId : Ids \cup {0}, contract_id : Ids \cup {0}]
FromChain(id) == [contractId |-> id, contract_id |-> 0]
FromDeploy(id) == [contractId |-> 0, contract_id |-> id]

Steps == {"check", "nameQuery", "nameCreate", "createNode", "rmbDeploy",
          "updateNode", "rmbUpdate", "undo", "cancelGet", "cancelTx",
          "wait", "save", "returned", "threw"}
Modes == {"forward", "inner", "outer"}

Free == [state |-> "free", kind |-> "node", by |-> NoHandler]
Nothing == [want |-> NoSpec, cur |-> NoSpec, state |-> "none"]

Init ==
    /\ contract = [i \in Ids |->
         IF i <= Len(Existing)
         THEN [state |-> "created", kind |-> Existing[i].kind, by |-> NoHandler]
         ELSE Free]
    /\ registry \in [Names -> 0..Len(Existing)]
    /\ \A n \in Names :
         IF registry[n] = 0
         THEN \A i \in 1..Len(Existing) : n \notin Existing[i].names
         ELSE /\ Existing[registry[n]].kind = "name"
              /\ n \in Existing[registry[n]].names
    /\ nextId = Len(Existing) + 1
    /\ node = [i \in Ids |->
         IF i <= Len(Existing) /\ Existing[i].kind = "node"
         THEN [want |-> Existing[i].spec, cur |-> Existing[i].spec, state |-> "ok"]
         ELSE Nothing]
    /\ pc = [h \in Handlers |-> "check"]
    /\ item = [h \in Handlers |-> 1]
    /\ name = [h \in Handlers |-> 1]
    /\ mode = [h \in Handlers |-> "forward"]
    /\ target = [h \in Handlers |-> 0]
    /\ cid = [h \in Handlers |->
         [i \in 1..Len(Batch[h]) |-> Batch[h][i].contract_id]]
    /\ created = [h \in Handlers |-> {}]
    /\ updated = [h \in Handlers |-> {}]
    /\ deleted = [h \in Handlers |-> {}]
    /\ ready = [h \in Handlers |-> {}]
-----------------------------------------------------------------------------
(***************************************************************************)
(* Where control goes.                                                     *)
(***************************************************************************)
Item(h) == Batch[h][item[h]]
GatewayName(h) == Item(h).names[name[h]]
MoreNames(h) == name[h] <= Len(Item(h).names)
Count(h) == Len(Batch[h])

Goto(h, p, i, n, m) ==
    /\ pc' = [pc EXCEPT ![h] = p]
    /\ item' = [item EXCEPT ![h] = i]
    /\ name' = [name EXCEPT ![h] = n]
    /\ mode' = [mode EXCEPT ![h] = m]

\* After its name contracts are checked, a deployment is sent.
Body(op) == IF op = "deploy" THEN "createNode" ELSE "updateNode"

\* The name contracts of an item are deleted before its own contract.
UndoStep(h, i) == IF Batch[h][i].names = <<>> THEN "cancelGet" ELSE "undo"

\* The first await of iteration i of the loop of handle.
LoopStep(h, i) ==
    IF i > Count(h) THEN "wait"
    ELSE IF Batch[h][i].operation = "delete" THEN UndoStep(h, i)
    ELSE IF Batch[h][i].names # <<>> THEN "nameQuery"
    ELSE Body(Batch[h][i].operation)

Loop(h, i) == Goto(h, LoopStep(h, i), i, 1, "forward")

\* MUTANT: rollback cancels the contract of every item that has one.
RollbackMatchesAll(entries, id) == id # 0

\* The test of rollback: the item has a contract, and contracts.created has
\* an entry whose contract_id is that contract.
RollbackMatches(entries, id) ==
    id # 0 /\ \E c \in entries : c.contract_id = id

\* The loop of rollback from item i on; then handle throws.
RollbackFrom(h, i) ==
    LET matching == {j \in i..Count(h) : RollbackMatches(created[h], cid[h][j])}
    IN IF matching = {}
       THEN Goto(h, "threw", item[h], 1, "outer")
       ELSE LET j == Min(matching) IN Goto(h, UndoStep(h, j), j, 1, "outer")

\* An exception: out of the loop of handle or of the rollback inside deploy it
\* reaches the catch of handle, which rolls back; out of that rollback it
\* leaves handle.
Throw(h) ==
    IF mode[h] = "outer" THEN Goto(h, "threw", item[h], 1, "outer")
                         ELSE RollbackFrom(h, 1)

\* MUTANT: deploy() rethrows without cancelling its contract.
RethrowOnly(h) == RollbackFrom(h, 1)

\* deploy() failed after its contract was created: its own rollback, with that
\* contract as the only created one.
InnerRollback(h) ==
    IF RollbackMatches({FromDeploy(cid[h][item[h]])}, cid[h][item[h]])
    THEN Goto(h, UndoStep(h, item[h]), item[h], 1, "inner")
    ELSE RollbackFrom(h, 1)
-----------------------------------------------------------------------------
(***************************************************************************)
(* The chain (external).  A refused extrinsic changes nothing; one whose   *)
(* answer is lost has its effect and still makes the caller throw.         *)
(***************************************************************************)
Created(h, kind) ==
    /\ nextId <= MaxId
    /\ contract' = [contract EXCEPT ![nextId] =
                      [state |-> "created", kind |-> kind, by |-> h]]
    /\ nextId' = nextId + 1

Cancelled(id) ==
    /\ contract' = [contract EXCEPT ![id].state = "deleted"]
    /\ registry' = [n \in Names |-> IF registry[n] = id THEN 0 ELSE registry[n]]
    /\ UNCHANGED nextId

Live(id) == id \in Ids /\ contract[id].state = "created"
-----------------------------------------------------------------------------
(***************************************************************************)
(* The steps of handle.                                                    *)
(***************************************************************************)
\* validate and checkNodesCapacity come before the try: nothing to roll back.
Check(h) ==
    /\ pc[h] = "check"
    /\ \/ Loop(h, 1)
       \/ "capacity" \in Faults /\ Goto(h, "threw", 1, 1, "outer")
    /\ UNCHANGED <<chain, node, target, cid, results, ready>>

\* MUTANT: only the first gateway of a deployment is checked.
FirstNameOnly(h) == Goto(h, Body(Item(h).operation), item[h], 1, "forward")

\* createNameContract is done for one name: the next one, or the deployment.
NextName(h) ==
    IF name[h] < Len(Item(h).names)
    THEN Goto(h, "nameQuery", item[h], name[h] + 1, "forward")
    ELSE Goto(h, Body(Item(h).operation), item[h], 1, "forward")

NameQuery(h) ==
    /\ pc[h] = "nameQuery"
    /\ \/ registry[GatewayName(h)] # 0 /\ NextName(h)
       \/ registry[GatewayName(h)] = 0
            /\ Goto(h, "nameCreate", item[h], name[h], "forward")
       \/ "query" \in Faults /\ Throw(h)
    /\ UNCHANGED <<chain, node, target, cid, results, ready>>

\* The chain refuses a name that is registered in the meantime (NameExists).
NameCreate(h) ==
    /\ pc[h] = "nameCreate"
    /\ \/ /\ registry[GatewayName(h)] = 0
          /\ Created(h, "name")
          /\ registry' = [registry EXCEPT ![GatewayName(h)] = nextId]
          /\ NextName(h) \/ ("txUnknown" \in Faults /\ Throw(h))
       \/ /\ registry[GatewayName(h)] # 0 \/ "tx" \in Faults
          /\ Throw(h)
          /\ UNCHANGED chain
    /\ UNCHANGED <<node, target, cid, results, ready>>

CreateNode(h) ==
    /\ pc[h] = "createNode"
    /\ \/ /\ Created(h, "node")
          /\ UNCHANGED registry
          /\ \/ /\ cid' = [cid EXCEPT ![h][item[h]] = nextId]
                /\ Goto(h, "rmbDeploy", item[h], 1, "forward")
             \/ "txUnknown" \in Faults /\ Throw(h) /\ UNCHANGED cid
       \/ "tx" \in Faults /\ Throw(h) /\ UNCHANGED <<chain, cid>>
    /\ UNCHANGED <<node, target, results, ready>>

\* A node accepts what it is sent and works on it later (NodeApply).
Accept(id, spec) == node' = [node EXCEPT ![id].want = spec]

RmbDeploy(h) ==
    LET id == cid[h][item[h]] IN
    /\ pc[h] = "rmbDeploy"
    /\ \/ /\ Accept(id, Item(h).spec)
          /\ \/ /\ created' = [created EXCEPT ![h] = @ \cup {FromChain(id)}]
                /\ Loop(h, item[h] + 1)
             \/ "rmbLost" \in Faults /\ InnerRollback(h) /\ UNCHANGED created
       \/ "rmb" \in Faults /\ InnerRollback(h) /\ UNCHANGED <<node, created>>
    /\ UNCHANGED <<chain, target, cid, updated, deleted, ready>>

\* updateNodeContract on a contract that is not live is refused.
UpdateNode(h) ==
    /\ pc[h] = "updateNode"
    /\ \/ Live(cid[h][item[h]]) /\ Goto(h, "rmbUpdate", item[h], 1, "forward")
       \/ (~Live(cid[h][item[h]]) \/ Faults \cap {"query", "tx", "txUnknown"} # {})
            /\ Throw(h)
    /\ UNCHANGED <<chain, node, target, cid, results, ready>>

RmbUpdate(h) ==
    LET id == cid[h][item[h]] IN
    /\ pc[h] = "rmbUpdate"
    /\ \/ /\ Accept(id, Item(h).spec)
          /\ \/ /\ updated' = [updated EXCEPT ![h] = @ \cup {id}]
                /\ Loop(h, item[h] + 1)
             \/ "rmbLost" \in Faults /\ Throw(h) /\ UNCHANGED updated
       \/ "rmb" \in Faults /\ Throw(h) /\ UNCHANGED <<node, updated>>
    /\ UNCHANGED <<chain, target, cid, created, deleted, ready>>
-----------------------------------------------------------------------------
(***************************************************************************)
(* Deleting an item, in the loop of handle and in rollback alike: the name *)
(* contract of every gateway, then the contract of the deployment.         *)
(***************************************************************************)
\* deleteNameContract looks the name up, and cancels whatever it got.
Undo(h) ==
    /\ pc[h] = "undo"
    /\ \/ /\ target' = [target EXCEPT ![h] = registry[GatewayName(h)]]
          /\ Goto(h, "cancelGet", item[h], name[h], mode[h])
       \/ "query" \in Faults /\ Throw(h) /\ UNCHANGED target
    /\ UNCHANGED <<chain, node, cid, results, ready>>

\* MUTANT: deleteNameContract cancels the contract of the deployment.
CancelDeployment(h) == cid[h][item[h]]

CancelTarget(h) == IF MoreNames(h) THEN target[h] ELSE cid[h][item[h]]

\* What follows a cancellation that succeeded.
AfterCancel(h) ==
    IF MoreNames(h)
    THEN /\ Goto(h, IF name[h] < Len(Item(h).names) THEN "undo" ELSE "cancelGet",
                 item[h], name[h] + 1, mode[h])
         /\ UNCHANGED results
    ELSE CASE mode[h] = "forward" ->
                /\ deleted' = [deleted EXCEPT ![h] = @ \cup {cid[h][item[h]]}]
                /\ Loop(h, item[h] + 1)
                /\ UNCHANGED <<created, updated>>
           [] mode[h] = "inner" -> Throw(h) /\ UNCHANGED results
           [] mode[h] = "outer" -> RollbackFrom(h, item[h] + 1) /\ UNCHANGED results

\* Contracts.cancel first reads the contract: there is none with id 0.
CancelGet(h) ==
    LET id == CancelTarget(h) IN
    /\ pc[h] = "cancelGet"
    /\ \/ Live(id)
            /\ Goto(h, "cancelTx", item[h], name[h], mode[h]) /\ UNCHANGED results
       \/ id # 0 /\ ~Live(id) /\ AfterCancel(h)
       \/ (id = 0 \/ "query" \in Faults) /\ Throw(h) /\ UNCHANGED results
    /\ UNCHANGED <<chain, node, target, cid, ready>>

\* By now the contract may be gone: the chain refuses (ContractNotExists).
CancelTx(h) ==
    LET id == CancelTarget(h) IN
    /\ pc[h] = "cancelTx"
    /\ \/ /\ Live(id)
          /\ Cancelled(id)
          /\ \/ AfterCancel(h)
             \/ "txUnknown" \in Faults /\ Throw(h) /\ UNCHANGED results
       \/ (~Live(id) \/ "cancel" \in Faults) /\ Throw(h) /\ UNCHANGED <<chain, results>>
    /\ UNCHANGED <<node, target, cid, ready>>
-----------------------------------------------------------------------------
(***************************************************************************)
(* waitForDeployments and saveNetworks.                                    *)
(***************************************************************************)
Awaited(h) == {i \in 1..Count(h) : Batch[h][i].operation # "delete"}

\* MUTANT: the version of the workload is not compared.
CheckWorkloadAnyVersion(n, spec) == n.state = "ok"

\* checkWorkload, of all workloads of a deployment: ready is "ok" at the
\* version that was sent.
CheckWorkload(n, spec) ==
    n.state = "ok" /\ n.cur # NoSpec /\ Version[n.cur] = Version[spec]

PollReady(h) ==
    /\ pc[h] = "wait"
    /\ \E i \in Awaited(h) \ ready[h] :
         /\ CheckWorkload(node[cid[h][i]], Batch[h][i].spec)
         /\ ready' = [ready EXCEPT ![h] = @ \cup {i}]
    /\ UNCHANGED <<chain, node, control, target, cid, results>>

\* MUTANT: the loop of waitForDeployment has no timeout.
PollThrowNoTimeout(h) ==
    /\ pc[h] = "wait"
    /\ \E i \in Awaited(h) \ ready[h] : node[cid[h][i]].state = "error"
    /\ Throw(h)
    /\ UNCHANGED <<chain, node, target, cid, results, ready>>

\* A workload in state "error", of whatever version, makes the wait throw, as
\* do a failed request and the timeout.
PollThrow(h) ==
    /\ pc[h] = "wait"
    /\ \E i \in Awaited(h) \ ready[h] :
         node[cid[h][i]].state = "error" \/ Faults \cap {"timeout", "rmb", "query"} # {}
    /\ Throw(h)
    /\ UNCHANGED <<chain, node, target, cid, results, ready>>

\* MUTANT: saveNetworks goes one past the last item.
SaveStepOnePast(h, i) == IF i > Count(h) + 1 THEN "returned" ELSE "save"

SaveStep(h, i) == IF i > Count(h) THEN "returned" ELSE "save"

WaitDone(h) ==
    /\ pc[h] = "wait"
    /\ Awaited(h) \subseteq ready[h]
    /\ Goto(h, SaveStep(h, 1), 1, 1, "forward")
    /\ UNCHANGED <<chain, node, target, cid, results, ready>>

SaveNetworks(h) ==
    /\ pc[h] = "save"
    /\ \/ Goto(h, SaveStep(h, item[h] + 1), item[h] + 1, 1, "forward")
       \/ Item(h).network /\ "storage" \in Faults /\ Throw(h)
    /\ UNCHANGED <<chain, node, target, cid, results, ready>>
-----------------------------------------------------------------------------
(***************************************************************************)
(* The environment (external).                                             *)
(***************************************************************************)
NodeApply(id) ==
    /\ node[id].want \notin {NoSpec, node[id].cur}
    /\ \E s \in {"ok"} \cup (IF "workload" \in Faults THEN {"error"} ELSE {}) :
         node' = [node EXCEPT ![id].cur = node[id].want, ![id].state = s]
    /\ UNCHANGED <<chain, control, target, cid, results, ready>>

\* A node drops the deployment of a cancelled contract.
NodeDecommission(id) ==
    /\ contract[id].state = "deleted"
    /\ node[id].state # "deleted"
    /\ node' = [node EXCEPT ![id] = [Nothing EXCEPT !.state = "deleted"]]
    /\ UNCHANGED <<chain, control, target, cid, results, ready>>

ExternalCancel(id) ==
    /\ "external" \in Faults
    /\ Live(id)
    /\ Cancelled(id)
    /\ UNCHANGED <<node, control, target, cid, results, ready>>

Handle(h) ==
    \/ Check(h) \/ NameQuery(h) \/ NameCreate(h) \/ CreateNode(h) \/ RmbDeploy(h)
    \/ UpdateNode(h) \/ RmbUpdate(h) \/ Undo(h) \/ CancelGet(h) \/ CancelTx(h)
    \/ PollReady(h) \/ PollThrow(h) \/ WaitDone(h) \/ SaveNetworks(h)

Environment(id) == NodeApply(id) \/ NodeDecommission(id) \/ ExternalCancel(id)

Settled(h) == pc[h] \in {"returned", "threw"}

\* Every call has settled: nothing more has to happen.
Terminated == (\A h \in Handlers : Settled(h)) /\ UNCHANGED vars

Next ==
    \/ \E h \in Handlers : Handle(h)
    \/ \E id \in Ids : Environment(id)
    \/ Terminated

Spec == Init /\ [][Next]_vars

\* The awaited calls answer and the event loop runs every continuation; the
\* nodes and the other users of the chain owe nothing.
FairSpec == Spec /\ \A h \in Handlers : WF_vars(Handle(h))
-----------------------------------------------------------------------------
(***************************************************************************)
(* Properties.                                                             *)
(***************************************************************************)
InLoop == {"nameQuery", "nameCreate", "createNode", "rmbDeploy", "updateNode",
           "rmbUpdate", "undo", "cancelGet", "cancelTx"}

ChainOK ==
    /\ contract \in [Ids -> Contract]
    /\ registry \in [Names -> Ids \cup {0}]
    /\ nextId \in 1..(MaxId + 1)
    /\ node \in [Ids -> NodeState]

HandlersOK ==
    /\ pc \in [Handlers -> Steps]
    /\ item \in [Handlers -> Nat \ {0}]
    /\ name \in [Handlers -> Nat \ {0}]
    /\ mode \in [Handlers -> Modes]
    /\ target \in [Handlers -> Ids \cup {0}]
    /\ cid \in [Handlers -> Seq(Ids \cup {0})]
    /\ created \in [Handlers -> SUBSET Entry]
    /\ updated \in [Handlers -> SUBSET Ids]
    /\ deleted \in [Handlers -> SUBSET Ids]
    /\ ready \in [Handlers -> SUBSET Nat]

IndexOK(h) ==
    /\ item[h] <= Count(h) + 1
    /\ pc[h] \in InLoop \cup {"save"} => item[h] <= Count(h)
    /\ pc[h] \in {"nameQuery", "nameCreate", "undo"} => MoreNames(h)
    /\ Len(cid[h]) = Count(h)
    /\ ready[h] \subseteq Awaited(h)

\* Every variable has its type, and no handler works on an item or a gateway
\* name its batch does not have.
TypeOK == ChainOK /\ HandlersOK /\ \A h \in Handlers : IndexOK(h)

\* Refinement of ContractLedger: handle() only cancels node contracts that
\* this very call created or was asked to delete, touches none after it has
\* settled, and a call that returns has reported every contract it created in
\* contracts.created and cancelled every contract it was asked to delete.
IsNode(id) == contract[id].kind = "node"
ToDelete(h) == {Batch[h][i].contract_id :
                i \in {j \in 1..Count(h) : Batch[h][j].operation = "delete"}}
LedgerState == [id \in Ids |-> IF IsNode(id) THEN contract[id].state ELSE "free"]
LedgerOwner == [id \in Ids |-> IF IsNode(id) THEN contract[id].by ELSE NoHandler]
Outcome == [h \in Handlers |-> IF Settled(h) THEN pc[h] ELSE "running"]
Report == [h \in Handlers |->
             IF pc[h] = "returned" THEN {e.contractId : e \in created[h]} ELSE {}]

Ledger == INSTANCE ContractLedger WITH
    Calls <- Handlers, NoCall <- NoHandler, ContractIds <- Ids,
    Doomed <- [h \in Handlers |-> ToDelete(h)],
    Revocable <- "external" \in Faults,
    state <- LedgerState, owner <- LedgerOwner, outcome <- Outcome, report <- Report

ImplementsLedger == Ledger!LedgerSpec

\* The live node contracts a call has created.
Owns(h, id) == Live(id) /\ IsNode(id) /\ contract[id].by = h

\* deploy() cancels its contract when the node could not be asked to deploy:
\* of a call that threw, only items that were sent to their node still have a
\* contract.
FailedDeployUndone ==
    \A h \in Handlers : pc[h] = "threw" =>
        \A id \in Ids : Owns(h, id) => FromChain(id) \in created[h]

\* The comment of rollback: a call that threw has cancelled all it created.
RollbackCancelsCreated ==
    \A h \in Handlers : pc[h] = "threw" => \A id \in Ids : ~Owns(h, id)

\* A call that returned has waited for the nodes: every deployment it sent is
\* live and its node holds the content that was sent, not an older version.
\* (For calls whose contracts nobody else updates or cancels.)
SuccessMeansDeployed ==
    \A h \in Handlers : pc[h] = "returned" =>
        \A i \in Awaited(h) :
            /\ Live(cid[h][i])
            /\ node[cid[h][i]].cur = Batch[h][i].spec
            /\ node[cid[h][i]].state = "ok"

\* A gateway that was deployed has a name contract for each of its names.
\* (For calls that do not share names.)
NamesBacked ==
    \A h \in Handlers : pc[h] = "returned" =>
        \A i \in Awaited(h) : \A k \in 1..Len(Batch[h][i].names) :
            registry[Batch[h][i].names[k]] # 0

\* A gateway that was deleted leaves no name contract behind.
\* (For calls that do not share names.)
NamesReleased ==
    \A h \in Handlers : pc[h] = "returned" =>
        \A i \in 1..Count(h) \ Awaited(h) : \A k \in 1..Len(Batch[h][i].names) :
            registry[Batch[h][i].names[k]] = 0

\* Every call settles, whatever the nodes do: it returns or it throws.
AllSettle == \A h \in Handlers : <>Settled(h)
=============================================================================
