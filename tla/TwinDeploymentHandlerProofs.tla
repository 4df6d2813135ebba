--------------------- MODULE TwinDeploymentHandlerProofs ---------------------
(***************************************************************************)
(* Proofs about TwinDeploymentHandler, for every set of concurrent calls,  *)
(* every batch and every set of faults.                                    *)
(***************************************************************************)
EXTENDS TwinDeploymentHandler, TLAPS, SequenceTheorems

Undoing == {"undo", "cancelGet", "cancelTx"}
Operation(h, i) == Batch[h][i].operation

\* Call h may be at step p of item i and gateway n in mode m: the operation of
\* the item fits the step.  The rollback of handle never finds anything to do,
\* so its mode is only seen once the call has thrown.
Located(h, p, i, n, m) ==
    /\ p \in Steps /\ i \in Nat \ {0} /\ n \in Nat \ {0} /\ m \in Modes
    /\ i <= Count(h) + 1
    /\ p \in InLoop \cup {"save"} => i <= Count(h)
    /\ p \in {"nameQuery", "nameCreate", "undo"} => n <= Len(Batch[h][i].names)
    /\ p = "check" => i = 1 /\ m = "forward"
    /\ m = "outer" <=> p = "threw"
    /\ m = "inner" => p \in Undoing /\ Operation(h, i) = "deploy"
    /\ m = "forward" /\ p \in Undoing => Operation(h, i) = "delete"
    /\ p \in {"createNode", "rmbDeploy"} => Operation(h, i) = "deploy"
    /\ p \in {"updateNode", "rmbUpdate"} => Operation(h, i) = "update"
    /\ p \in {"nameQuery", "nameCreate"} => Operation(h, i) # "delete"

ControlInv ==
    /\ pc \in [Handlers -> Steps]
    /\ item \in [Handlers -> Nat \ {0}]
    /\ name \in [Handlers -> Nat \ {0}]
    /\ mode \in [Handlers -> Modes]
    /\ \A h \in Handlers : Located(h, pc[h], item[h], name[h], mode[h])

\* Contract ids are handed out in order and never again, and those that were
\* there before keep their kind.
ChainInv ==
    /\ contract \in [Ids -> Contract]
    /\ registry \in [Names -> Ids \cup {0}]
    /\ nextId \in 1..(MaxId + 1)
    /\ nextId > Len(Existing)
    /\ \A id \in Ids : contract[id].state = "free" <=> id >= nextId
    /\ \A id \in Ids : id >= nextId => contract[id] = Free
    /\ \A id \in Ids : id <= Len(Existing) => contract[id].kind = Existing[id].kind
    /\ \A n \in Names : registry[n] # 0 =>
          registry[n] < nextId /\ ~IsNode(registry[n])

Mine(h, id) == id < nextId /\ IsNode(id) /\ contract[id].by = h

MemoryTypes ==
    /\ target \in [Handlers -> Ids \cup {0}]
    /\ cid \in [Handlers -> Seq(Ids \cup {0})]
    /\ created \in [Handlers -> SUBSET Entry]
    /\ updated \in [Handlers -> SUBSET Ids]
    /\ deleted \in [Handlers -> SUBSET Ids]
    /\ ready \in [Handlers -> SUBSET Nat]

\* What a call remembers is what is on the chain.
MemoryInv(h) ==
    /\ Len(cid[h]) = Count(h)
    /\ ready[h] \subseteq Awaited(h)
    /\ target[h] # 0 => target[h] < nextId /\ ~IsNode(target[h])
    /\ \A i \in 1..Count(h) :
         IF Operation(h, i) = "deploy"
         THEN cid[h][i] # 0 => Mine(h, cid[h][i])
         ELSE cid[h][i] = Batch[h][i].contract_id
    /\ pc[h] = "rmbDeploy" \/ mode[h] = "inner" => cid[h][item[h]] # 0
    /\ \A e \in created[h] :
         e = FromChain(e.contractId) /\ e.contractId # 0 /\ Mine(h, e.contractId)

\* Until it throws, a call has reported every contract it created but the one
\* it is deploying, and cancelled every contract it had to up to its item.
AccountInv(h) == mode[h] = "forward" =>
    /\ \A id \in Ids : Mine(h, id) =>
         \/ FromChain(id) \in created[h]
         \/ pc[h] = "rmbDeploy" /\ id = cid[h][item[h]]
    /\ \A i \in 1..Count(h) :
         /\ Operation(h, i) = "delete"
         /\ i < item[h] \/ pc[h] \in {"wait", "save", "returned"}
         => contract[Batch[h][i].contract_id].state = "deleted"

IInv == /\ ControlInv /\ ChainInv /\ MemoryTypes
        /\ node \in [Ids -> NodeState]
        /\ \A h \in Handlers : MemoryInv(h) /\ AccountInv(h)
-----------------------------------------------------------------------------
(***************************************************************************)
(* Constants.                                                              *)
(***************************************************************************)
LEMMA BatchFacts ==
    ASSUME NEW h \in Handlers
    PROVE  /\ Count(h) \in Nat
           /\ \A i \in 1..Count(h) :
                /\ Batch[h][i] \in TwinDeployment
                /\ Operation(h, i) \in {"deploy", "update", "delete"}
                /\ Batch[h][i].names \in Seq(Names)
                /\ Len(Batch[h][i].names) \in Nat
                /\ Operation(h, i) = "deploy" <=> Batch[h][i].contract_id = 0
                /\ Operation(h, i) # "deploy" =>
                     /\ Batch[h][i].contract_id \in 1..Len(Existing)
                     /\ Batch[h][i].contract_id \in Ids
                     /\ Existing[Batch[h][i].contract_id].kind = "node"
  <1>1. Batch[h] \in Seq(TwinDeployment)
    BY HandlerAssumption
  <1>2. Count(h) \in Nat /\ \A i \in 1..Count(h) : Batch[h][i] \in TwinDeployment
    BY <1>1 DEF Count
  <1>3. ASSUME NEW i \in 1..Count(h)
        PROVE  /\ Operation(h, i) \in {"deploy", "update", "delete"}
               /\ Batch[h][i].names \in Seq(Names)
               /\ Batch[h][i].contract_id \in Ids \cup {0}
    BY <1>2 DEF TwinDeployment, Operation
  <1>4. ASSUME NEW i \in 1..Count(h)
        PROVE  /\ Operation(h, i) = "deploy" <=> Batch[h][i].contract_id = 0
               /\ Batch[h][i].contract_id <= Len(Existing)
               /\ Batch[h][i].contract_id # 0 =>
                    Existing[Batch[h][i].contract_id].kind = "node"
    BY BatchAssumption DEF Count, Operation
  <1>5. ASSUME NEW i \in 1..Count(h), Operation(h, i) # "deploy"
        PROVE  Batch[h][i].contract_id \in 1..Len(Existing)
    BY <1>3, <1>4, <1>5, HandlerAssumption DEF Ids
  <1> QED
    BY <1>2, <1>3, <1>4, <1>5

LEMMA LastExisting == Len(Existing) \in Nat /\ MaxId \in Nat /\ Len(Existing) <= MaxId
  BY HandlerAssumption
-----------------------------------------------------------------------------
(***************************************************************************)
(* Control.                                                                *)
(***************************************************************************)
\* A jump to a place that fits keeps the control of every call.
LEMMA GotoControl ==
    ASSUME ControlInv, NEW h \in Handlers, NEW p, NEW i, NEW n, NEW m,
           Goto(h, p, i, n, m), Located(h, p, i, n, m)
    PROVE  /\ ControlInv'
           /\ pc'[h] = p /\ item'[h] = i /\ name'[h] = n /\ mode'[h] = m
           /\ \A k \in Handlers \ {h} : /\ pc'[k] = pc[k] /\ item'[k] = item[k]
                                        /\ name'[k] = name[k] /\ mode'[k] = mode[k]
  <1>1. p \in Steps /\ i \in Nat \ {0} /\ n \in Nat \ {0} /\ m \in Modes
    BY DEF Located
  <1>2. /\ pc' \in [Handlers -> Steps] /\ item' \in [Handlers -> Nat \ {0}]
        /\ name' \in [Handlers -> Nat \ {0}] /\ mode' \in [Handlers -> Modes]
    BY <1>1 DEF ControlInv, Goto
  <1>3. pc'[h] = p /\ item'[h] = i /\ name'[h] = n /\ mode'[h] = m
    BY DEF ControlInv, Goto
  <1>4. \A k \in Handlers \ {h} : /\ pc'[k] = pc[k] /\ item'[k] = item[k]
                                  /\ name'[k] = name[k] /\ mode'[k] = mode[k]
    BY DEF ControlInv, Goto
  <1>5. \A k \in Handlers : Located(k, pc'[k], item'[k], name'[k], mode'[k])
    BY <1>3, <1>4 DEF ControlInv
  <1> QED
    BY <1>2, <1>3, <1>4, <1>5 DEF ControlInv

\* Every iteration of the loop of handle starts where its operation says.
LEMMA LoopLocated ==
    ASSUME NEW h \in Handlers, NEW i \in 1..(Count(h) + 1)
    PROVE  /\ Located(h, LoopStep(h, i), i, 1, "forward")
           /\ LoopStep(h, i) # "rmbDeploy"
           /\ LoopStep(h, i) \in {"wait", "save", "returned"} <=> i = Count(h) + 1
  <1>1. CASE i = Count(h) + 1
    <2>1. LoopStep(h, i) = "wait"
      BY <1>1, BatchFacts DEF LoopStep
    <2> QED
      BY <1>1, <2>1, BatchFacts
      DEF Located, Steps, Modes, InLoop, Undoing
  <1>2. CASE i <= Count(h)
    <2>1. i \in 1..Count(h)
      BY <1>2, BatchFacts
    <2>2. Batch[h][i].names # <<>> => 1 <= Len(Batch[h][i].names)
      BY <2>1, BatchFacts, EmptySeq
    <2>3. /\ ~(i > Count(h))
          /\ Operation(h, i) \in {"deploy", "update", "delete"}
      BY <2>1, BatchFacts
    <2> QED
      BY <2>1, <2>2, <2>3, BatchFacts
      DEF Located, Steps, Modes, InLoop, Undoing, LoopStep, UndoStep, Body, Operation
  <1> QED
    BY <1>1, <1>2, BatchFacts

LEMMA UndoLocated ==
    ASSUME NEW h \in Handlers, NEW i \in 1..Count(h), NEW m,
           \/ m = "forward" /\ Operation(h, i) = "delete"
           \/ m = "inner" /\ Operation(h, i) = "deploy"
    PROVE  Located(h, UndoStep(h, i), i, 1, m) /\ UndoStep(h, i) \in Undoing
  <1>1. Batch[h][i].names # <<>> => 1 <= Len(Batch[h][i].names)
    BY BatchFacts, EmptySeq
  <1> QED
    BY <1>1, BatchFacts
    DEF Located, Steps, Modes, InLoop, Undoing, UndoStep

\* The rollback of handle finds nothing to cancel: the entries of
\* contracts.created have no field contract_id.  An exception settles the call.
LEMMA IdleRollback ==
    ASSUME NEW h \in Handlers, MemoryInv(h), NEW i
    PROVE  /\ RollbackFrom(h, i) = Goto(h, "threw", item[h], 1, "outer")
           /\ Throw(h) = Goto(h, "threw", item[h], 1, "outer")
  <1>1. \A e \in created[h] : e.contract_id = 0
    BY DEF MemoryInv, FromChain
  <1>2. \A id : ~RollbackMatches(created[h], id)
    BY <1>1 DEF RollbackMatches
  <1>3. \A j : RollbackFrom(h, j) = Goto(h, "threw", item[h], 1, "outer")
    BY <1>2 DEF RollbackFrom
  <1> QED
    BY <1>3 DEF Throw

\* So does the rollback inside deploy, after it cancelled that contract.
LEMMA ThrowControl ==
    ASSUME IInv, NEW h \in Handlers, Throw(h)
    PROVE  /\ ControlInv'
           /\ pc'[h] = "threw" /\ mode'[h] = "outer"
           /\ \A k \in Handlers \ {h} : /\ pc'[k] = pc[k] /\ item'[k] = item[k]
                                        /\ name'[k] = name[k] /\ mode'[k] = mode[k]
  <1>1. Goto(h, "threw", item[h], 1, "outer")
    BY IdleRollback DEF IInv
  <1>2. Located(h, "threw", item[h], 1, "outer")
    BY DEF IInv, ControlInv, Located, Steps, Modes, InLoop, Undoing
  <1> QED
    BY <1>1, <1>2, GotoControl DEF IInv

LEMMA LoopControl ==
    ASSUME IInv, NEW h \in Handlers, NEW i \in 1..(Count(h) + 1), Loop(h, i)
    PROVE  /\ ControlInv'
           /\ pc'[h] # "rmbDeploy" /\ item'[h] = i /\ mode'[h] = "forward"
           /\ pc'[h] \in {"wait", "save", "returned"} <=> i = Count(h) + 1
           /\ \A k \in Handlers \ {h} : /\ pc'[k] = pc[k] /\ item'[k] = item[k]
                                        /\ name'[k] = name[k] /\ mode'[k] = mode[k]
  <1>1. Goto(h, LoopStep(h, i), i, 1, "forward")
    BY DEF Loop
  <1>2. Located(h, LoopStep(h, i), i, 1, "forward")
    BY LoopLocated
  <1> QED
    BY <1>1, <1>2, GotoControl, LoopLocated DEF IInv
-----------------------------------------------------------------------------
(***************************************************************************)
(* The chain.                                                              *)
(***************************************************************************)
\* A step of call h keeps what is known of every contract, and only h creates.
Grows(h) ==
    /\ nextId' >= nextId
    /\ \A id \in Ids : id < nextId =>
         /\ contract'[id].kind = contract[id].kind
         /\ contract'[id].by = contract[id].by
         /\ contract[id].state = "deleted" => contract'[id].state = "deleted"
    /\ \A id \in Ids : nextId <= id /\ id < nextId' => contract'[id].by = h

LEMMA UnchangedGrows ==
    ASSUME ChainInv, UNCHANGED chain, NEW h
    PROVE  ChainInv' /\ Grows(h)
  <1>1. contract' = contract /\ registry' = registry /\ nextId' = nextId
    BY DEF chain
  <1>2. ChainInv'
    BY <1>1 DEF ChainInv, IsNode
  <1>3. Grows(h)
    BY <1>1, LastExisting DEF ChainInv, Grows, Ids
  <1> QED
    BY <1>2, <1>3

LEMMA CreatedGrows ==
    ASSUME ChainInv, NEW h \in Handlers, NEW kind \in {"node", "name"}, Created(h, kind),
           \/ UNCHANGED registry
           \/ kind = "name" /\ \E n \in Names : registry' = [registry EXCEPT ![n] = nextId]
    PROVE  /\ ChainInv' /\ Grows(h)
           /\ nextId \in Ids /\ nextId' = nextId + 1
           /\ contract'[nextId] = [state |-> "created", kind |-> kind, by |-> h]
           /\ \A id \in Ids \ {nextId} : contract'[id] = contract[id]
  <1>1. nextId \in Ids /\ nextId' = nextId + 1
    BY LastExisting DEF ChainInv, Created, Ids
  <1>2. /\ contract'[nextId] = [state |-> "created", kind |-> kind, by |-> h]
        /\ \A id \in Ids \ {nextId} : contract'[id] = contract[id]
        /\ contract' \in [Ids -> Contract]
    BY <1>1 DEF ChainInv, Created, Contract
  <1>3. Grows(h)
    BY <1>1, <1>2, LastExisting DEF ChainInv, Grows, Ids
  <1>4. registry' \in [Names -> Ids \cup {0}]
    BY <1>1 DEF ChainInv
  <1>5. \A n \in Names : registry'[n] # 0 => registry'[n] < nextId' /\ contract'[registry'[n]].kind # "node"
    <2> SUFFICES ASSUME NEW n \in Names, registry'[n] # 0
                 PROVE  registry'[n] < nextId' /\ contract'[registry'[n]].kind # "node"
      OBVIOUS
    <2>1. CASE registry'[n] = registry[n]
      BY <1>1, <1>2, <2>1, LastExisting DEF ChainInv, IsNode, Ids
    <2>2. CASE registry'[n] # registry[n]
      BY <1>1, <1>2, <2>2 DEF ChainInv, IsNode
    <2> QED
      BY <2>1, <2>2
  <1>6. nextId' \in 1..(MaxId + 1) /\ nextId' > Len(Existing)
    BY <1>1, LastExisting DEF ChainInv, Ids
  <1>7. \A id \in Ids : contract'[id].state = "free" <=> id >= nextId'
    BY <1>1, <1>2, LastExisting DEF ChainInv, Ids
  <1>8. \A id \in Ids : /\ id >= nextId' => contract'[id] = Free
                        /\ id <= Len(Existing) => contract'[id].kind = Existing[id].kind
    BY <1>1, <1>2, LastExisting DEF ChainInv, Ids
  <1> QED
    BY <1>1, <1>2, <1>3, <1>4, <1>5, <1>6, <1>7, <1>8 DEF ChainInv, IsNode

LEMMA CancelledGrows ==
    ASSUME ChainInv, NEW h, NEW id \in Ids, Live(id), Cancelled(id)
    PROVE  /\ ChainInv' /\ Grows(h)
           /\ nextId' = nextId
           /\ contract' = [contract EXCEPT ![id].state = "deleted"]
  <1>1. /\ contract' \in [Ids -> Contract]
        /\ \A j \in Ids : /\ contract'[j].kind = contract[j].kind
                          /\ contract'[j].by = contract[j].by
                          /\ j # id => contract'[j] = contract[j]
        /\ contract'[id].state = "deleted"
    BY DEF ChainInv, Cancelled, Contract
  <1>2. nextId' = nextId /\ id < nextId
    BY LastExisting DEF ChainInv, Cancelled, Live, Ids
  <1>3. /\ registry' \in [Names -> Ids \cup {0}]
        /\ \A n \in Names : registry'[n] \in {0, registry[n]}
    BY DEF ChainInv, Cancelled
  <1>4. \A n \in Names : registry'[n] # 0 => registry'[n] < nextId' /\ contract'[registry'[n]].kind # "node"
    <2> SUFFICES ASSUME NEW n \in Names, registry'[n] # 0
                 PROVE  registry'[n] < nextId' /\ contract'[registry'[n]].kind # "node"
      OBVIOUS
    <2>1. registry'[n] = registry[n] /\ registry[n] \in Ids
      BY <1>3 DEF ChainInv
    <2>2. registry[n] < nextId /\ contract[registry[n]].kind # "node"
      BY <2>1 DEF ChainInv, IsNode
    <2> QED
      BY <1>1, <1>2, <2>1, <2>2 DEF IsNode
  <1>5. Grows(h)
    BY <1>1, <1>2, LastExisting DEF ChainInv, Grows, Ids
  <1>6. /\ \A j \in Ids : contract'[j].state = "free" <=> j >= nextId'
        /\ \A j \in Ids : j >= nextId' => contract'[j] = Free
        /\ \A j \in Ids : j <= Len(Existing) => contract'[j].kind = Existing[j].kind
    BY <1>1, <1>2, LastExisting DEF ChainInv, Live, Ids
  <1> QED
    BY <1>1, <1>2, <1>3, <1>4, <1>5, <1>6 DEF ChainInv, Cancelled, IsNode

\* A call whose own variables did not change keeps its invariant, whatever
\* another call does to the chain.
LEMMA OthersKeep ==
    ASSUME IInv, ChainInv', NEW h, Grows(h), NEW k \in Handlers, k # h,
           /\ pc'[k] = pc[k] /\ item'[k] = item[k] /\ mode'[k] = mode[k]
           /\ target'[k] = target[k] /\ cid'[k] = cid[k]
           /\ created'[k] = created[k] /\ ready'[k] = ready[k]
    PROVE  MemoryInv(k)' /\ AccountInv(k)'
  <1>1. nextId \in Nat /\ nextId' \in Nat /\ nextId' >= nextId
    BY LastExisting DEF IInv, ChainInv, Grows
  <1>2. \A id \in Ids : Mine(k, id) <=> Mine(k, id)'
    BY <1>1 DEF Grows, Mine, IsNode, Ids
  <1>3. target[k] \in Ids \cup {0} /\ \A i \in 1..Count(k) : cid[k][i] \in Ids \cup {0}
    BY BatchFacts DEF IInv, MemoryTypes, MemoryInv
  <1>4. \A e \in created[k] : e \in Entry
    BY DEF IInv, MemoryTypes
  <1>5. MemoryInv(k)
    BY DEF IInv
  <1>6. target'[k] # 0 => target'[k] < nextId' /\ contract'[target'[k]].kind # "node"
    BY <1>1, <1>3, <1>5 DEF Grows, MemoryInv, IsNode, Ids
  <1>7. \A i \in 1..Count(k) :
          IF Operation(k, i) = "deploy"
          THEN cid'[k][i] # 0 => Mine(k, cid[k][i])'
          ELSE cid'[k][i] = Batch[k][i].contract_id
    BY <1>2, <1>3, <1>5 DEF MemoryInv
  <1>8. \A e \in created'[k] :
          e = FromChain(e.contractId) /\ e.contractId # 0 /\ Mine(k, e.contractId)'
    BY <1>2, <1>4, <1>5 DEF MemoryInv, Entry
  <1>9. MemoryInv(k)'
    BY <1>5, <1>6, <1>7, <1>8 DEF MemoryInv, IsNode
  <1>10. AccountInv(k)'
    <2>1. SUFFICES ASSUME mode'[k] = "forward"
                   PROVE  /\ \A id \in Ids : Mine(k, id)' =>
                               \/ FromChain(id) \in created'[k]
                               \/ pc'[k] = "rmbDeploy" /\ id = cid'[k][item'[k]]
                          /\ \A i \in 1..Count(k) :
                               /\ Operation(k, i) = "delete"
                               /\ i < item'[k] \/ pc'[k] \in {"wait", "save", "returned"}
                               => contract'[Batch[k][i].contract_id].state = "deleted"
      BY DEF AccountInv
    <2>2. AccountInv(k) /\ mode[k] = "forward"
      BY <2>1 DEF IInv
    <2>3. \A i \in 1..Count(k) : Operation(k, i) # "deploy" =>
            Batch[k][i].contract_id \in Ids /\ Batch[k][i].contract_id < nextId
      BY <1>1, BatchFacts, LastExisting DEF IInv, ChainInv
    <2> QED
      BY <1>2, <2>2, <2>3 DEF AccountInv, Grows
  <1> QED
    BY <1>9, <1>10

\* What is left to show of a step of call h.
LEMMA StepOfOne ==
    ASSUME IInv, NEW h \in Handlers, ControlInv', ChainInv', MemoryTypes',
           node' \in [Ids -> NodeState], Grows(h), MemoryInv(h)', AccountInv(h)',
           \A k \in Handlers \ {h} :
             /\ pc'[k] = pc[k] /\ item'[k] = item[k] /\ mode'[k] = mode[k]
             /\ target'[k] = target[k] /\ cid'[k] = cid[k]
             /\ created'[k] = created[k] /\ ready'[k] = ready[k]
    PROVE  IInv'
  <1>1. \A k \in Handlers \ {h} : MemoryInv(k)' /\ AccountInv(k)'
    BY OthersKeep
  <1> QED
    BY <1>1 DEF IInv
-----------------------------------------------------------------------------
(***************************************************************************)
(* Steps that share an argument.                                           *)
(***************************************************************************)
Kept == UNCHANGED <<target, cid, results, ready>>

LEMMA KeptFacts ==
    ASSUME MemoryTypes, Kept
    PROVE  /\ MemoryTypes'
           /\ target' = target /\ cid' = cid /\ created' = created
           /\ updated' = updated /\ deleted' = deleted /\ ready' = ready
  BY DEF MemoryTypes, Kept, results

\* What call h remembers stays true when the chain grows.
LEMMA SameMemory ==
    ASSUME IInv, NEW h \in Handlers, ChainInv', Grows(h),
           /\ target'[h] = target[h] /\ cid'[h] = cid[h]
           /\ created'[h] = created[h] /\ ready'[h] \subseteq Awaited(h),
           pc'[h] = "rmbDeploy" \/ mode'[h] = "inner" => cid[h][item'[h]] # 0
    PROVE  MemoryInv(h)'
  <1>1. nextId \in Nat /\ nextId' \in Nat /\ nextId' >= nextId
    BY LastExisting DEF IInv, ChainInv, Grows
  <1>2. \A id \in Ids : Mine(h, id) => Mine(h, id)'
    BY <1>1 DEF Grows, Mine, IsNode, Ids
  <1>3. /\ target[h] \in Ids \cup {0}
        /\ \A i \in 1..Count(h) : cid[h][i] \in Ids \cup {0}
        /\ \A e \in created[h] : e \in Entry
    BY BatchFacts DEF IInv, MemoryTypes, MemoryInv
  <1>4. MemoryInv(h)
    BY DEF IInv
  <1>5. target'[h] # 0 => target'[h] < nextId' /\ contract'[target'[h]].kind # "node"
    BY <1>1, <1>3, <1>4 DEF Grows, MemoryInv, IsNode, Ids
  <1>6. \A i \in 1..Count(h) :
          IF Operation(h, i) = "deploy"
          THEN cid'[h][i] # 0 => Mine(h, cid[h][i])'
          ELSE cid'[h][i] = Batch[h][i].contract_id
    BY <1>2, <1>3, <1>4 DEF MemoryInv
  <1>7. \A e \in created'[h] :
          e = FromChain(e.contractId) /\ e.contractId # 0 /\ Mine(h, e.contractId)'
    BY <1>2, <1>3, <1>4 DEF MemoryInv, Entry
  <1> QED
    BY <1>4, <1>5, <1>6, <1>7 DEF MemoryInv, IsNode

\* An exception keeps the invariant, whatever happened to the chain before it.
LEMMA ThrowStep ==
    ASSUME IInv, NEW h \in Handlers, Throw(h), ChainInv', Grows(h), Kept,
           node' \in [Ids -> NodeState]
    PROVE  IInv'
  <1>1. /\ ControlInv'
        /\ pc'[h] = "threw" /\ mode'[h] = "outer"
        /\ \A k \in Handlers \ {h} : /\ pc'[k] = pc[k] /\ item'[k] = item[k]
                                     /\ name'[k] = name[k] /\ mode'[k] = mode[k]
    BY ThrowControl
  <1>2. /\ MemoryTypes'
        /\ target' = target /\ cid' = cid /\ created' = created
        /\ updated' = updated /\ deleted' = deleted /\ ready' = ready
    BY KeptFacts DEF IInv
  <1>3. MemoryInv(h)'
    BY <1>1, <1>2, SameMemory DEF IInv, MemoryInv
  <1>4. AccountInv(h)'
    BY <1>1 DEF AccountInv
  <1> QED
    BY <1>1, <1>2, <1>3, <1>4, StepOfOne

\* A call goes on with its item, and creates no node contract meanwhile.
LEMMA StayStep ==
    ASSUME IInv, NEW h \in Handlers, ChainInv', Grows(h), Kept,
           node' \in [Ids -> NodeState], NEW p, NEW n, NEW m,
           Goto(h, p, item[h], n, m), Located(h, p, item[h], n, m),
           m = mode[h], pc[h] # "rmbDeploy", p # "rmbDeploy",
           m = "forward" => pc[h] \in {"wait", "save"} \/ p \notin {"wait", "save", "returned"},
           \A id \in Ids : Mine(h, id)' => Mine(h, id)
    PROVE  IInv'
  <1>1. /\ ControlInv'
        /\ pc'[h] = p /\ item'[h] = item[h] /\ name'[h] = n /\ mode'[h] = m
        /\ \A k \in Handlers \ {h} : /\ pc'[k] = pc[k] /\ item'[k] = item[k]
                                     /\ name'[k] = name[k] /\ mode'[k] = mode[k]
    BY GotoControl DEF IInv
  <1>2. /\ MemoryTypes'
        /\ target' = target /\ cid' = cid /\ created' = created
        /\ updated' = updated /\ deleted' = deleted /\ ready' = ready
    BY KeptFacts DEF IInv
  <1>3. MemoryInv(h)'
    BY <1>1, <1>2, SameMemory DEF IInv, MemoryInv
  <1>4. \A i \in 1..Count(h) : Operation(h, i) # "deploy" =>
          Batch[h][i].contract_id \in Ids /\ Batch[h][i].contract_id < nextId
    BY BatchFacts, LastExisting DEF IInv, ChainInv
  <1>5. AccountInv(h)'
    <2>1. SUFFICES ASSUME m = "forward"
                   PROVE  /\ \A id \in Ids : Mine(h, id)' => FromChain(id) \in created'[h]
                          /\ \A i \in 1..Count(h) :
                               /\ Operation(h, i) = "delete"
                               /\ i < item'[h] \/ pc'[h] \in {"wait", "save", "returned"}
                               => contract'[Batch[h][i].contract_id].state = "deleted"
      BY <1>1 DEF AccountInv
    <2>2. AccountInv(h) /\ mode[h] = "forward"
      BY <2>1 DEF IInv
    <2>3. \A id \in Ids : Mine(h, id)' => FromChain(id) \in created'[h]
      BY <1>2, <2>2 DEF AccountInv
    <2>4. pc'[h] \in {"wait", "save", "returned"} => pc[h] \in {"wait", "save"}
      BY <1>1, <2>1
    <2>5. \A i \in 1..Count(h) :
            /\ Operation(h, i) = "delete"
            /\ i < item'[h] \/ pc'[h] \in {"wait", "save", "returned"}
            => contract[Batch[h][i].contract_id].state = "deleted"
      BY <1>1, <2>2, <2>4 DEF AccountInv
    <2> QED
      BY <1>4, <2>3, <2>5 DEF Grows
  <1> QED
    BY <1>1, <1>2, <1>3, <1>5, StepOfOne

LEMMA SameChain ==
    ASSUME IInv, UNCHANGED chain, NEW h
    PROVE  /\ ChainInv' /\ Grows(h)
           /\ contract' = contract /\ nextId' = nextId /\ registry' = registry
           /\ \A id \in Ids : Mine(h, id)' <=> Mine(h, id)
  BY UnchangedGrows DEF IInv, chain, Mine, IsNode

\* The node and the data of a step that only moves a call.
LEMMA NodeKept == ASSUME IInv, UNCHANGED node PROVE node' \in [Ids -> NodeState]
  BY DEF IInv

\* A call that is done with an item of its batch accounts for it.
LEMMA LoopAccount ==
    ASSUME IInv, NEW h \in Handlers, Grows(h), mode[h] = "forward",
           item[h] \in 1..Count(h), Loop(h, item[h] + 1),
           \A id \in Ids : Mine(h, id)' => FromChain(id) \in created'[h],
           Operation(h, item[h]) = "delete" =>
             contract'[Batch[h][item[h]].contract_id].state = "deleted"
    PROVE  AccountInv(h)'
  <1>1. item[h] + 1 \in 1..(Count(h) + 1)
    BY BatchFacts
  <1>2. /\ pc'[h] # "rmbDeploy" /\ item'[h] = item[h] + 1
        /\ pc'[h] \in {"wait", "save", "returned"} => item[h] = Count(h)
    BY <1>1, LoopControl, BatchFacts
  <1>3. ASSUME NEW i \in 1..Count(h), Operation(h, i) = "delete",
               i < item'[h] \/ pc'[h] \in {"wait", "save", "returned"}
        PROVE  contract'[Batch[h][i].contract_id].state = "deleted"
    <2>1. CASE i = item[h]
      BY <1>3, <2>1
    <2>2. CASE i # item[h]
      <3>1. i < item[h]
        BY <1>2, <1>3, <2>2, BatchFacts
      <3>2. contract[Batch[h][i].contract_id].state = "deleted"
        BY <1>3, <3>1 DEF IInv, AccountInv
      <3>3. Batch[h][i].contract_id \in Ids /\ Batch[h][i].contract_id < nextId
        BY <1>3, BatchFacts, LastExisting DEF IInv, ChainInv
      <3> QED
        BY <3>2, <3>3 DEF Grows
    <2> QED
      BY <2>1, <2>2
  <1> QED
    BY <1>2, <1>3 DEF AccountInv

\* Where a call is, read off the control invariant.
LEMMA Here ==
    ASSUME IInv, NEW h \in Handlers
    PROVE  /\ Located(h, pc[h], item[h], name[h], mode[h])
           /\ MemoryInv(h) /\ AccountInv(h)
           /\ item[h] \in Nat \ {0} /\ name[h] \in Nat \ {0}
           /\ pc[h] \in InLoop \cup {"save"} => item[h] \in 1..Count(h)
           /\ \A i \in 1..Count(h) : cid[h][i] \in Ids \cup {0}
  <1>1. Located(h, pc[h], item[h], name[h], mode[h]) /\ MemoryInv(h) /\ AccountInv(h)
    BY DEF IInv, ControlInv
  <1>2. /\ item[h] \in Nat \ {0} /\ name[h] \in Nat \ {0}
        /\ pc[h] \in InLoop \cup {"save"} => item[h] \in 1..Count(h)
    BY <1>1, BatchFacts DEF Located
  <1>3. \A i \in 1..Count(h) : cid[h][i] \in Ids \cup {0}
    BY <1>1, BatchFacts DEF IInv, MemoryTypes, MemoryInv
  <1> QED
    BY <1>1, <1>2, <1>3

\* The deployment at hand is one of the batch, its names are gateway names.
LEMMA NamesHere ==
    ASSUME IInv, NEW h \in Handlers, pc[h] \in InLoop
    PROVE  /\ item[h] \in 1..Count(h)
           /\ Item(h).names = Batch[h][item[h]].names
           /\ Item(h).names \in Seq(Names)
           /\ Len(Item(h).names) \in Nat
           /\ name[h] \in Nat \ {0}
  <1>1. item[h] \in 1..Count(h) /\ name[h] \in Nat \ {0}
    BY Here
  <1>2. Batch[h][item[h]].names \in Seq(Names) /\ Len(Batch[h][item[h]].names) \in Nat
    BY <1>1, BatchFacts
  <1> QED
    BY <1>1, <1>2 DEF Item

LEMMA NameCreateInRange ==
    ASSUME IInv, NEW h \in Handlers, pc[h] = "nameCreate"
    PROVE  GatewayName(h) \in Names
  <1>1. pc[h] \in InLoop
    BY DEF InLoop
  <1>2. Item(h).names \in Seq(Names) /\ name[h] \in Nat \ {0}
    BY <1>1, NamesHere
  <1>3. name[h] <= Len(Batch[h][item[h]].names)
    BY Here DEF Located
  <1>4. name[h] <= Len(Item(h).names)
    BY <1>3 DEF Item
  <1> QED
    BY <1>2, <1>4 DEF GatewayName
-----------------------------------------------------------------------------
(***************************************************************************)
(* Every action keeps the invariant.                                       *)
(***************************************************************************)
LEMMA CheckInv == ASSUME IInv, NEW h \in Handlers, Check(h) PROVE IInv'
  <1>1. /\ pc[h] = "check" /\ item[h] = 1 /\ mode[h] = "forward"
        /\ UNCHANGED chain /\ Kept /\ UNCHANGED node
        /\ Loop(h, 1) \/ Goto(h, "threw", 1, 1, "outer")
    BY Here DEF Check, Kept, Located
  <1>2. ChainInv' /\ Grows(h) /\ node' \in [Ids -> NodeState]
    BY <1>1, SameChain, NodeKept
  <1>3. CASE Goto(h, "threw", 1, 1, "outer")
    <2>1. Throw(h)
      BY <1>1, <1>3, IdleRollback, Here
    <2> QED
      BY <1>1, <1>2, <2>1, ThrowStep
  <1>4. CASE Loop(h, 1)
    <2>1. 1 \in 1..(Count(h) + 1)
      BY BatchFacts
    <2>2. /\ ControlInv'
          /\ pc'[h] # "rmbDeploy" /\ item'[h] = 1 /\ mode'[h] = "forward"
          /\ pc'[h] \in {"wait", "save", "returned"} <=> 1 = Count(h) + 1
          /\ \A k \in Handlers \ {h} : /\ pc'[k] = pc[k] /\ item'[k] = item[k]
                                       /\ name'[k] = name[k] /\ mode'[k] = mode[k]
      BY <1>4, <2>1, LoopControl
    <2>3. /\ MemoryTypes'
          /\ target' = target /\ cid' = cid /\ created' = created /\ ready' = ready
      BY <1>1, KeptFacts DEF IInv
    <2>4. MemoryInv(h)'
      BY <1>2, <2>2, <2>3, SameMemory, Here DEF MemoryInv
    <2>5. \A id \in Ids : Mine(h, id)' => FromChain(id) \in created'[h]
      BY <1>1, <2>3, SameChain, Here DEF AccountInv
    <2>6. \A i \in 1..Count(h) :
            ~(i < item'[h] \/ pc'[h] \in {"wait", "save", "returned"})
      BY <2>2, BatchFacts
    <2>7. AccountInv(h)'
      BY <2>5, <2>6 DEF AccountInv
    <2> QED
      BY <1>2, <2>2, <2>3, <2>4, <2>7, StepOfOne
  <1> QED
    BY <1>1, <1>3, <1>4 DEF Check

\* createNameContract returned: the next name, or the deployment itself.
LEMMA NextNameGoes ==
    ASSUME IInv, NEW h \in Handlers, pc[h] \in {"nameQuery", "nameCreate"}, NextName(h)
    PROVE  \E p \in {"nameQuery", "createNode", "updateNode"}, n \in Nat :
             Goto(h, p, item[h], n, "forward") /\ Located(h, p, item[h], n, "forward")
  <1>1. /\ item[h] \in 1..Count(h) /\ name[h] \in Nat \ {0}
        /\ Operation(h, item[h]) \in {"deploy", "update"}
    BY Here, BatchFacts DEF Located, InLoop
  <1>2. CASE name[h] < Len(Item(h).names)
    <2>1. Goto(h, "nameQuery", item[h], name[h] + 1, "forward")
      BY <1>2 DEF NextName
    <2>2. Located(h, "nameQuery", item[h], name[h] + 1, "forward")
      <3>1. Count(h) \in Nat /\ Len(Batch[h][item[h]].names) \in Nat
        BY <1>1, BatchFacts
      <3>2. item[h] \in Nat \ {0} /\ item[h] <= Count(h) /\ item[h] <= Count(h) + 1
        BY <1>1, <3>1
      <3>3. name[h] + 1 \in Nat \ {0} /\ name[h] + 1 <= Len(Batch[h][item[h]].names)
        BY <1>1, <1>2, <3>1 DEF Item
      <3>4. Operation(h, item[h]) # "delete"
        BY <1>1
      <3> QED
        BY <3>2, <3>3, <3>4 DEF Located, Steps, Modes, InLoop, Undoing
    <2> QED
      BY <1>1, <2>1, <2>2
  <1>3. CASE ~(name[h] < Len(Item(h).names))
    <2>1. Goto(h, Body(Item(h).operation), item[h], 1, "forward")
      BY <1>3 DEF NextName
    <2>2. Located(h, Body(Item(h).operation), item[h], 1, "forward")
      BY <1>1, BatchFacts
      DEF Located, Steps, Modes, InLoop, Undoing, Item, Body, Operation
    <2> QED
      BY <2>1, <2>2 DEF Body
  <1> QED
    BY <1>2, <1>3

LEMMA NameQueryInv == ASSUME IInv, NEW h \in Handlers, NameQuery(h) PROVE IInv'
  <1>1. /\ pc[h] = "nameQuery" /\ mode[h] = "forward"
        /\ item[h] \in 1..Count(h) /\ name[h] \in Nat \ {0}
        /\ Operation(h, item[h]) \in {"deploy", "update"}
        /\ name[h] <= Len(Batch[h][item[h]].names)
        /\ UNCHANGED chain /\ Kept /\ UNCHANGED node
    BY Here, BatchFacts DEF NameQuery, Kept, Located, InLoop, Undoing, Modes
  <1>2. /\ ChainInv' /\ Grows(h) /\ node' \in [Ids -> NodeState]
        /\ \A id \in Ids : Mine(h, id)' => Mine(h, id)
    BY <1>1, SameChain, NodeKept
  <1>3. CASE Throw(h)
    BY <1>1, <1>2, <1>3, ThrowStep
  <1>4. CASE NextName(h)
    <2>1. PICK p \in {"nameQuery", "createNode", "updateNode"}, n \in Nat :
             Goto(h, p, item[h], n, "forward") /\ Located(h, p, item[h], n, "forward")
      BY <1>1, <1>4, NextNameGoes
    <2> QED
      BY <1>1, <1>2, <2>1, StayStep
  <1>5. CASE Goto(h, "nameCreate", item[h], name[h], "forward")
    <2>1. Located(h, "nameCreate", item[h], name[h], "forward")
      BY <1>1, BatchFacts DEF Located, Steps, Modes, InLoop, Undoing
    <2> QED
      BY <1>1, <1>2, <1>5, <2>1, StayStep
  <1> QED
    BY <1>3, <1>4, <1>5 DEF NameQuery

LEMMA NameCreateInv == ASSUME IInv, NEW h \in Handlers, NameCreate(h) PROVE IInv'
  <1>1. /\ pc[h] = "nameCreate" /\ mode[h] = "forward"
        /\ item[h] \in 1..Count(h) /\ name[h] \in Nat \ {0}
        /\ name[h] <= Len(Batch[h][item[h]].names)
        /\ Kept /\ UNCHANGED node
    BY Here, BatchFacts DEF NameCreate, Kept, Located, InLoop, Undoing, Modes
  <1>2. GatewayName(h) \in Names
    BY <1>1, BatchFacts DEF GatewayName, Item
  <1>3. node' \in [Ids -> NodeState]
    BY <1>1, NodeKept
  <1>4. /\ ChainInv' /\ Grows(h)
        /\ \A id \in Ids : Mine(h, id)' => Mine(h, id)
    <2>1. CASE UNCHANGED chain
      BY <2>1, SameChain
    <2>2. CASE /\ Created(h, "name")
               /\ registry' = [registry EXCEPT ![GatewayName(h)] = nextId]
      <3>1. /\ ChainInv' /\ Grows(h)
            /\ nextId \in Ids /\ nextId' = nextId + 1
            /\ contract'[nextId] = [state |-> "created", kind |-> "name", by |-> h]
            /\ \A id \in Ids \ {nextId} : contract'[id] = contract[id]
        BY <1>2, <2>2, CreatedGrows DEF IInv
      <3>2. \A id \in Ids : Mine(h, id)' => Mine(h, id)
        BY <3>1 DEF Mine, IsNode, Ids
      <3> QED
        BY <3>1, <3>2
    <2> QED
      BY <2>1, <2>2 DEF NameCreate
  <1>5. CASE Throw(h)
    BY <1>1, <1>3, <1>4, <1>5, ThrowStep
  <1>6. CASE NextName(h)
    <2>1. PICK p \in {"nameQuery", "createNode", "updateNode"}, n \in Nat :
             Goto(h, p, item[h], n, "forward") /\ Located(h, p, item[h], n, "forward")
      BY <1>1, <1>6, NextNameGoes
    <2> QED
      BY <1>1, <1>3, <1>4, <2>1, StayStep
  <1> QED
    BY <1>5, <1>6 DEF NameCreate

LEMMA CreateNodeInv == ASSUME IInv, NEW h \in Handlers, CreateNode(h) PROVE IInv'
  <1>1. /\ pc[h] = "createNode" /\ mode[h] = "forward"
        /\ item[h] \in 1..Count(h) /\ Operation(h, item[h]) = "deploy"
        /\ UNCHANGED <<node, target, results, ready>>
    BY Here DEF CreateNode, Located, InLoop, Undoing, Modes
  <1>2. node' \in [Ids -> NodeState]
    BY <1>1, NodeKept
  <1>3. CASE UNCHANGED <<chain, cid>> /\ Throw(h)
    BY <1>1, <1>2, <1>3, SameChain, ThrowStep DEF Kept
  <1>4. CASE Created(h, "node") /\ UNCHANGED registry
    <2>1. /\ ChainInv' /\ Grows(h)
          /\ nextId \in Ids /\ nextId' = nextId + 1
          /\ contract'[nextId] = [state |-> "created", kind |-> "node", by |-> h]
          /\ \A id \in Ids \ {nextId} : contract'[id] = contract[id]
      BY <1>4, CreatedGrows DEF IInv
    <2>2. CASE Throw(h) /\ UNCHANGED cid
      BY <1>1, <1>2, <2>1, <2>2, ThrowStep DEF Kept
    <2>3. CASE /\ cid' = [cid EXCEPT ![h][item[h]] = nextId]
               /\ Goto(h, "rmbDeploy", item[h], 1, "forward")
      <3>1. Located(h, "rmbDeploy", item[h], 1, "forward")
        BY <1>1, BatchFacts DEF Located, Steps, Modes, InLoop, Undoing
      <3>2. /\ ControlInv'
            /\ pc'[h] = "rmbDeploy" /\ item'[h] = item[h] /\ mode'[h] = "forward"
            /\ \A k \in Handlers \ {h} : /\ pc'[k] = pc[k] /\ item'[k] = item[k]
                                         /\ name'[k] = name[k] /\ mode'[k] = mode[k]
        BY <2>3, <3>1, GotoControl DEF IInv
      <3>3. /\ target' = target /\ created' = created /\ updated' = updated
            /\ deleted' = deleted /\ ready' = ready
        BY <1>1 DEF results
      <3>4. cid[h] \in Seq(Ids \cup {0}) /\ item[h] \in 1..Len(cid[h])
        BY <1>1, Here DEF IInv, MemoryTypes, MemoryInv
      <3>5. /\ cid'[h] \in Seq(Ids \cup {0}) /\ Len(cid'[h]) = Count(h)
            /\ \A j \in 1..Count(h) :
                 cid'[h][j] = IF j = item[h] THEN nextId ELSE cid[h][j]
            /\ cid' = [cid EXCEPT ![h] = cid'[h]]
        <4>1. cid' = [cid EXCEPT ![h] = [cid[h] EXCEPT ![item[h]] = nextId]]
          BY <2>3
        <4>2. cid'[h] = [cid[h] EXCEPT ![item[h]] = nextId]
          BY <4>1 DEF IInv, MemoryTypes
        <4>3. Len(cid[h]) = Count(h) /\ nextId \in Ids \cup {0}
          BY <2>1, Here DEF MemoryInv
        <4>4. /\ [cid[h] EXCEPT ![item[h]] = nextId] \in Seq(Ids \cup {0})
              /\ Len([cid[h] EXCEPT ![item[h]] = nextId]) = Len(cid[h])
              /\ \A j \in 1..Len(cid[h]) :
                   [cid[h] EXCEPT ![item[h]] = nextId][j] =
                     IF j = item[h] THEN nextId ELSE cid[h][j]
          BY <3>4, <4>3, ExceptSeq
        <4> QED
          BY <4>1, <4>2, <4>3, <4>4
      <3>6. MemoryTypes' /\ \A k \in Handlers \ {h} : cid'[k] = cid[k]
        BY <3>3, <3>5 DEF IInv, MemoryTypes
      <3>7. nextId \in Nat
        BY LastExisting DEF IInv, ChainInv
      <3>8. \A id \in Ids : Mine(h, id)' <=> Mine(h, id) \/ id = nextId
        BY <2>1, <3>7 DEF Mine, IsNode, Ids
      <3>9. MemoryInv(h)'
        <4>1. /\ MemoryInv(h)
              /\ target[h] \in Ids \cup {0}
              /\ \A i \in 1..Count(h) : cid[h][i] \in Ids \cup {0}
              /\ \A e \in created[h] : e \in Entry
          BY Here DEF IInv, MemoryTypes
        <4>2. target'[h] # 0 => target'[h] < nextId' /\ contract'[target'[h]].kind # "node"
          BY <2>1, <3>3, <3>7, <4>1 DEF MemoryInv, IsNode, Ids
        <4>3. \A i \in 1..Count(h) :
                IF Operation(h, i) = "deploy"
                THEN cid'[h][i] # 0 => /\ cid'[h][i] < nextId'
                                       /\ contract'[cid'[h][i]].kind = "node"
                                       /\ contract'[cid'[h][i]].by = h
                ELSE cid'[h][i] = Batch[h][i].contract_id
          <5> TAKE i \in 1..Count(h)
          <5>1. CASE i = item[h]
            <6>1. cid'[h][i] = nextId
              BY <3>5, <5>1
            <6> QED
              BY <1>1, <2>1, <3>7, <5>1, <6>1
          <5>2. CASE i # item[h]
            <6>1. cid'[h][i] = cid[h][i] /\ cid[h][i] \in Ids \cup {0}
              BY <3>5, <4>1, <5>2
            <6>2. IF Operation(h, i) = "deploy"
                  THEN cid[h][i] # 0 => Mine(h, cid[h][i])
                  ELSE cid[h][i] = Batch[h][i].contract_id
              BY <4>1 DEF MemoryInv
            <6> QED
              BY <2>1, <3>7, <6>1, <6>2 DEF Mine, IsNode, Ids
          <5> QED
            BY <5>1, <5>2
        <4>4. \A e \in created'[h] :
                e = FromChain(e.contractId) /\ e.contractId # 0 /\ Mine(h, e.contractId)'
          BY <3>3, <3>8, <4>1 DEF MemoryInv, Entry
        <4>5. cid'[h][item'[h]] # 0
          BY <1>1, <2>1, <3>2, <3>5 DEF Ids
        <4> QED
          BY <3>3, <3>5, <4>1, <4>2, <4>3, <4>4, <4>5 DEF MemoryInv, IsNode, Mine
      <3>10. AccountInv(h)'
        <4>1. cid'[h][item'[h]] = nextId
          BY <1>1, <3>2, <3>5
        <4>2. \A id \in Ids : Mine(h, id)' => FromChain(id) \in created'[h] \/ id = nextId
          BY <1>1, <3>3, <3>8, Here DEF AccountInv
        <4>3. \A i \in 1..Count(h) : Operation(h, i) = "delete" /\ i < item'[h] =>
                contract'[Batch[h][i].contract_id].state = "deleted"
          <5>1. \A i \in 1..Count(h) : Operation(h, i) = "delete" =>
                  Batch[h][i].contract_id \in Ids /\ Batch[h][i].contract_id # nextId
            BY <3>7, BatchFacts, LastExisting DEF IInv, ChainInv
          <5> QED
            BY <1>1, <2>1, <3>2, <5>1, Here DEF AccountInv
        <4> QED
          BY <3>2, <4>1, <4>2, <4>3 DEF AccountInv
      <3> QED
        BY <1>2, <2>1, <3>2, <3>3, <3>6, <3>9, <3>10, StepOfOne
    <2> QED
      BY <1>4, <2>2, <2>3, <1>3 DEF CreateNode
  <1> QED
    BY <1>3, <1>4 DEF CreateNode

\* deploy() rolls its own contract back: the one it just created.
LEMMA InnerRollbackStep ==
    ASSUME IInv, NEW h \in Handlers, pc[h] = "rmbDeploy", InnerRollback(h),
           UNCHANGED chain, Kept, node' \in [Ids -> NodeState]
    PROVE  IInv'
  <1>1. /\ item[h] \in 1..Count(h) /\ Operation(h, item[h]) = "deploy"
        /\ cid[h][item[h]] # 0
    BY Here DEF Located, InLoop, MemoryInv
  <1>2. Goto(h, UndoStep(h, item[h]), item[h], 1, "inner")
    BY <1>1 DEF InnerRollback, RollbackMatches, FromDeploy
  <1>3. Located(h, UndoStep(h, item[h]), item[h], 1, "inner")
    BY <1>1, UndoLocated
  <1>4. /\ ControlInv'
        /\ item'[h] = item[h] /\ mode'[h] = "inner"
        /\ \A k \in Handlers \ {h} : /\ pc'[k] = pc[k] /\ item'[k] = item[k]
                                     /\ name'[k] = name[k] /\ mode'[k] = mode[k]
    BY <1>2, <1>3, GotoControl DEF IInv
  <1>5. /\ MemoryTypes'
        /\ target' = target /\ cid' = cid /\ created' = created
        /\ updated' = updated /\ deleted' = deleted /\ ready' = ready
    BY KeptFacts DEF IInv
  <1>6. ChainInv' /\ Grows(h)
    BY SameChain
  <1>7. MemoryInv(h)'
    BY <1>1, <1>4, <1>5, <1>6, SameMemory, Here DEF MemoryInv
  <1>8. AccountInv(h)'
    BY <1>4 DEF AccountInv
  <1> QED
    BY <1>4, <1>5, <1>6, <1>7, <1>8, StepOfOne

LEMMA AcceptNode ==
    ASSUME IInv, NEW id \in Ids, NEW spec \in Specs, Accept(id, spec)
    PROVE  node' \in [Ids -> NodeState]
  BY DEF IInv, Accept, NodeState

LEMMA RmbDeployInv == ASSUME IInv, NEW h \in Handlers, RmbDeploy(h) PROVE IInv'
  <1>1. /\ pc[h] = "rmbDeploy" /\ mode[h] = "forward"
        /\ item[h] \in 1..Count(h) /\ Operation(h, item[h]) = "deploy"
        /\ cid[h][item[h]] \in Ids
        /\ UNCHANGED chain /\ UNCHANGED <<target, cid, updated, deleted, ready>>
    BY Here DEF RmbDeploy, Located, InLoop, Undoing, Modes, MemoryInv
  <1>2. node' \in [Ids -> NodeState]
    <2>1. Item(h).spec \in Specs
      BY <1>1, BatchFacts DEF Item, TwinDeployment
    <2> QED
      BY <1>1, <2>1, AcceptNode, NodeKept DEF RmbDeploy
  <1>3. CASE InnerRollback(h) /\ UNCHANGED created
    BY <1>1, <1>2, <1>3, InnerRollbackStep DEF Kept, results
  <1>4. CASE /\ created' = [created EXCEPT ![h] = @ \cup {FromChain(cid[h][item[h]])}]
             /\ Loop(h, item[h] + 1)
    <2>1. item[h] + 1 \in 1..(Count(h) + 1)
      BY <1>1, BatchFacts
    <2>2. /\ ControlInv'
          /\ pc'[h] # "rmbDeploy" /\ mode'[h] = "forward"
          /\ \A k \in Handlers \ {h} : /\ pc'[k] = pc[k] /\ item'[k] = item[k]
                                       /\ name'[k] = name[k] /\ mode'[k] = mode[k]
      BY <1>4, <2>1, LoopControl
    <2>3. /\ ChainInv' /\ Grows(h)
          /\ contract' = contract /\ nextId' = nextId
          /\ \A id \in Ids : Mine(h, id)' <=> Mine(h, id)
      BY <1>1, SameChain
    <2>4. FromChain(cid[h][item[h]]) \in Entry
      BY <1>1 DEF FromChain, Entry
    <2>5. /\ created'[h] = created[h] \cup {FromChain(cid[h][item[h]])}
          /\ \A k \in Handlers \ {h} : created'[k] = created[k]
          /\ MemoryTypes'
      BY <1>1, <1>4, <2>4 DEF IInv, MemoryTypes
    <2>6. MemoryInv(h) /\ AccountInv(h)
      BY Here
    <2>7. Mine(h, cid[h][item[h]])
      BY <1>1, <2>6 DEF MemoryInv, Ids
    <2>8. \A e \in created'[h] :
            e = FromChain(e.contractId) /\ e.contractId # 0 /\ Mine(h, e.contractId)'
      <3> TAKE e \in created'[h]
      <3>1. e = FromChain(e.contractId) /\ e.contractId # 0 /\ Mine(h, e.contractId)
        <4>1. CASE e \in created[h]
          BY <2>6, <4>1 DEF MemoryInv
        <4>2. CASE e = FromChain(cid[h][item[h]])
          <5>1. e.contractId = cid[h][item[h]]
            BY <4>2 DEF FromChain
          <5> QED
            BY <1>1, <2>7, <4>2, <5>1 DEF Ids
        <4> QED
          BY <2>5, <4>1, <4>2
      <3>2. e.contractId \in Ids
        BY <2>5, <3>1 DEF MemoryTypes, Entry, Ids
      <3> QED
        BY <2>3, <3>1, <3>2
    <2>9. MemoryInv(h)'
      BY <1>1, <2>2, <2>3, <2>6, <2>8 DEF MemoryInv, Mine, IsNode
    <2>10. \A id \in Ids : Mine(h, id)' => FromChain(id) \in created'[h]
      BY <2>3, <2>5, <2>6, <1>1 DEF AccountInv
    <2>11. AccountInv(h)'
      BY <1>1, <1>4, <2>3, <2>10, LoopAccount
    <2> QED
      BY <1>1, <1>2, <2>2, <2>3, <2>5, <2>9, <2>11, StepOfOne
  <1> QED
    BY <1>3, <1>4 DEF RmbDeploy

LEMMA UpdateNodeInv == ASSUME IInv, NEW h \in Handlers, UpdateNode(h) PROVE IInv'
  <1>1. /\ pc[h] = "updateNode" /\ mode[h] = "forward"
        /\ item[h] \in 1..Count(h) /\ Operation(h, item[h]) = "update"
        /\ UNCHANGED chain /\ Kept /\ UNCHANGED node
    BY Here DEF UpdateNode, Kept, Located, InLoop, Undoing, Modes
  <1>2. /\ ChainInv' /\ Grows(h) /\ node' \in [Ids -> NodeState]
        /\ \A id \in Ids : Mine(h, id)' => Mine(h, id)
    BY <1>1, SameChain, NodeKept
  <1>3. CASE Throw(h)
    BY <1>1, <1>2, <1>3, ThrowStep
  <1>4. CASE Goto(h, "rmbUpdate", item[h], 1, "forward")
    <2>1. Located(h, "rmbUpdate", item[h], 1, "forward")
      BY <1>1, BatchFacts DEF Located, Steps, Modes, InLoop, Undoing
    <2> QED
      BY <1>1, <1>2, <1>4, <2>1, StayStep
  <1> QED
    BY <1>3, <1>4 DEF UpdateNode

\* A call is done with an item that created no contract.
LEMMA NextItemStep ==
    ASSUME IInv, NEW h \in Handlers, ChainInv', Grows(h), MemoryTypes',
           node' \in [Ids -> NodeState],
           mode[h] = "forward", item[h] \in 1..Count(h), pc[h] # "rmbDeploy",
           Loop(h, item[h] + 1),
           \A id \in Ids : Mine(h, id)' => Mine(h, id),
           Operation(h, item[h]) = "delete" =>
             contract'[Batch[h][item[h]].contract_id].state = "deleted",
           UNCHANGED <<target, cid, created, ready>>
    PROVE  IInv'
  <1>1. item[h] + 1 \in 1..(Count(h) + 1)
    BY BatchFacts
  <1>2. /\ ControlInv'
        /\ pc'[h] # "rmbDeploy" /\ mode'[h] = "forward"
        /\ \A k \in Handlers \ {h} : /\ pc'[k] = pc[k] /\ item'[k] = item[k]
                                     /\ name'[k] = name[k] /\ mode'[k] = mode[k]
    BY <1>1, LoopControl
  <1>3. MemoryInv(h)'
    BY <1>2, SameMemory, Here DEF MemoryInv
  <1>4. AccountInv(h)'
    <2>1. \A id \in Ids : Mine(h, id)' => FromChain(id) \in created'[h]
      BY Here DEF AccountInv
    <2> QED
      BY <2>1, LoopAccount
  <1> QED
    BY <1>2, <1>3, <1>4, StepOfOne

LEMMA RmbUpdateInv == ASSUME IInv, NEW h \in Handlers, RmbUpdate(h) PROVE IInv'
  <1>1. /\ pc[h] = "rmbUpdate" /\ mode[h] = "forward"
        /\ item[h] \in 1..Count(h) /\ Operation(h, item[h]) = "update"
        /\ UNCHANGED chain /\ UNCHANGED <<target, cid, created, deleted, ready>>
    BY Here DEF RmbUpdate, Located, InLoop, Undoing, Modes
  <1>2. cid[h][item[h]] \in Ids
    BY <1>1, Here, BatchFacts DEF MemoryInv
  <1>3. node' \in [Ids -> NodeState]
    <2>1. Item(h).spec \in Specs
      BY <1>1, BatchFacts DEF Item, TwinDeployment
    <2> QED
      BY <1>2, <2>1, AcceptNode, NodeKept DEF RmbUpdate
  <1>4. /\ ChainInv' /\ Grows(h)
        /\ \A id \in Ids : Mine(h, id)' => Mine(h, id)
    BY <1>1, SameChain
  <1>5. CASE Throw(h) /\ UNCHANGED updated
    BY <1>1, <1>3, <1>4, <1>5, ThrowStep DEF Kept, results
  <1>6. CASE /\ updated' = [updated EXCEPT ![h] = @ \cup {cid[h][item[h]]}]
             /\ Loop(h, item[h] + 1)
    <2>1. MemoryTypes'
      BY <1>1, <1>2, <1>6 DEF IInv, MemoryTypes
    <2> QED
      BY <1>1, <1>3, <1>4, <1>6, <2>1, NextItemStep
  <1> QED
    BY <1>5, <1>6 DEF RmbUpdate

LEMMA UndoInv == ASSUME IInv, NEW h \in Handlers, Undo(h) PROVE IInv'
  <1>1. /\ pc[h] = "undo" /\ item[h] \in 1..Count(h) /\ name[h] \in Nat \ {0}
        /\ name[h] <= Len(Batch[h][item[h]].names)
        /\ UNCHANGED chain /\ UNCHANGED <<node, cid, results, ready>>
    BY Here DEF Undo, Located, InLoop
  <1>2. /\ ChainInv' /\ Grows(h) /\ node' \in [Ids -> NodeState]
        /\ contract' = contract /\ nextId' = nextId
        /\ \A id \in Ids : Mine(h, id)' <=> Mine(h, id)
    BY <1>1, SameChain, NodeKept
  <1>3. CASE Throw(h) /\ UNCHANGED target
    BY <1>1, <1>2, <1>3, ThrowStep DEF Kept
  <1>4. CASE /\ target' = [target EXCEPT ![h] = registry[GatewayName(h)]]
             /\ Goto(h, "cancelGet", item[h], name[h], mode[h])
    <2>1. Located(h, "cancelGet", item[h], name[h], mode[h])
      BY <1>1, Here, BatchFacts DEF Located, Steps, Modes, InLoop, Undoing
    <2>2. /\ ControlInv'
          /\ pc'[h] = "cancelGet" /\ item'[h] = item[h] /\ mode'[h] = mode[h]
          /\ \A k \in Handlers \ {h} : /\ pc'[k] = pc[k] /\ item'[k] = item[k]
                                       /\ name'[k] = name[k] /\ mode'[k] = mode[k]
      BY <1>4, <2>1, GotoControl DEF IInv
    <2>3. GatewayName(h) \in Names
      BY <1>1, BatchFacts DEF GatewayName, Item
    <2>4. /\ registry[GatewayName(h)] \in Ids \cup {0}
          /\ registry[GatewayName(h)] # 0 =>
               /\ registry[GatewayName(h)] < nextId
               /\ ~IsNode(registry[GatewayName(h)])
      BY <2>3 DEF IInv, ChainInv
    <2>5. /\ target'[h] = registry[GatewayName(h)]
          /\ \A k \in Handlers \ {h} : target'[k] = target[k]
          /\ cid' = cid /\ created' = created /\ ready' = ready
          /\ MemoryTypes'
      BY <1>1, <1>4, <2>4 DEF IInv, MemoryTypes, results
    <2>6. MemoryInv(h)'
      <3>1. \A i \in 1..Count(h) : cid[h][i] \in Ids \cup {0}
        BY Here
      <3>2. \A e \in created[h] : e \in Entry
        BY DEF IInv, MemoryTypes
      <3>3. MemoryInv(h)
        BY Here
      <3>4. \A i \in 1..Count(h) :
              IF Operation(h, i) = "deploy"
              THEN cid'[h][i] # 0 => Mine(h, cid[h][i])'
              ELSE cid'[h][i] = Batch[h][i].contract_id
        BY <1>2, <2>5, <3>1, <3>3 DEF MemoryInv
      <3>5. \A e \in created'[h] :
              e = FromChain(e.contractId) /\ e.contractId # 0 /\ Mine(h, e.contractId)'
        BY <1>2, <2>5, <3>2, <3>3 DEF MemoryInv, Entry
      <3> QED
        BY <1>1, <1>2, <2>2, <2>4, <2>5, <3>3, <3>4, <3>5 DEF MemoryInv, IsNode
    <2>7. AccountInv(h)'
      <3>1. AccountInv(h)
        BY Here
      <3>2. \A id \in Ids : mode'[h] = "forward" /\ Mine(h, id)' =>
              FromChain(id) \in created'[h]
        BY <1>1, <1>2, <2>2, <2>5, <3>1 DEF AccountInv
      <3>3. \A i \in 1..Count(h) :
              /\ mode'[h] = "forward" /\ Operation(h, i) = "delete"
              /\ i < item'[h] \/ pc'[h] \in {"wait", "save", "returned"}
              => contract'[Batch[h][i].contract_id].state = "deleted"
        BY <1>1, <1>2, <2>2, <3>1 DEF AccountInv
      <3> QED
        BY <3>2, <3>3 DEF AccountInv
    <2> QED
      BY <1>2, <2>2, <2>5, <2>6, <2>7, StepOfOne
  <1> QED
    BY <1>3, <1>4 DEF Undo

\* A cancellation has succeeded: the next name, the next item, or the end of
\* the rollback inside deploy.
LEMMA AfterCancelStep ==
    ASSUME IInv, NEW h \in Handlers, pc[h] \in {"cancelGet", "cancelTx"},
           ChainInv', Grows(h), node' \in [Ids -> NodeState],
           UNCHANGED <<target, cid, ready>>, AfterCancel(h),
           \A id \in Ids : Mine(h, id)' => Mine(h, id),
           MoreNames(h) \/ contract'[cid[h][item[h]]].state = "deleted"
    PROVE  IInv'
  <1>1. /\ item[h] \in 1..Count(h) /\ name[h] \in Nat \ {0}
        /\ \/ mode[h] = "forward" /\ Operation(h, item[h]) = "delete"
           \/ mode[h] = "inner" /\ Operation(h, item[h]) = "deploy"
    BY Here DEF Located, Undoing, InLoop, Modes
  <1>2. CASE MoreNames(h)
    <2> DEFINE p == IF name[h] < Len(Item(h).names) THEN "undo" ELSE "cancelGet"
    <2>1. Goto(h, p, item[h], name[h] + 1, mode[h]) /\ UNCHANGED results
      BY <1>2 DEF AfterCancel
    <2>3. p \in {"undo", "cancelGet"} /\ (p = "undo" => name[h] < Len(Item(h).names))
      OBVIOUS
    <2>2. Located(h, p, item[h], name[h] + 1, mode[h])
      <3> HIDE DEF p
      <3>1. p = "undo" => name[h] + 1 <= Len(Batch[h][item[h]].names)
        <4>1. Len(Batch[h][item[h]].names) \in Nat
          BY <1>1, BatchFacts
        <4> QED
          BY <1>1, <2>3, <4>1 DEF Item
      <3> QED
        BY <1>1, <2>3, <3>1, BatchFacts DEF Located, Steps, Modes, InLoop, Undoing
    <2> HIDE DEF p
    <2> QED
      BY <1>1, <2>1, <2>2, <2>3, StayStep DEF Kept
  <1>3. CASE ~MoreNames(h) /\ mode[h] = "forward"
    <2>1. /\ deleted' = [deleted EXCEPT ![h] = @ \cup {cid[h][item[h]]}]
          /\ Loop(h, item[h] + 1)
          /\ UNCHANGED <<created, updated>>
      BY <1>3 DEF AfterCancel
    <2>2. cid[h][item[h]] = Batch[h][item[h]].contract_id /\ cid[h][item[h]] \in Ids
      BY <1>1, <1>3, Here, BatchFacts DEF MemoryInv
    <2>3. MemoryTypes'
      BY <2>1, <2>2 DEF IInv, MemoryTypes
    <2> QED
      BY <1>1, <1>3, <2>1, <2>2, <2>3, NextItemStep
  <1>4. CASE ~MoreNames(h) /\ mode[h] = "inner"
    <2>1. Throw(h) /\ UNCHANGED results
      BY <1>4 DEF AfterCancel
    <2> QED
      BY <2>1, ThrowStep DEF Kept
  <1> QED
    BY <1>1, <1>2, <1>3, <1>4

\* The id that is about to be cancelled: a name contract, or a node contract
\* this call created or was asked to delete.
LEMMA CancelTargetFacts ==
    ASSUME IInv, NEW h \in Handlers, pc[h] \in {"cancelGet", "cancelTx"}
    PROVE  /\ item[h] \in 1..Count(h)
           /\ CancelTarget(h) \in Ids \cup {0}
           /\ CancelTarget(h) # 0 => CancelTarget(h) < nextId
           /\ MoreNames(h) /\ CancelTarget(h) # 0 => ~IsNode(CancelTarget(h))
           /\ ~MoreNames(h) =>
                /\ CancelTarget(h) = cid[h][item[h]] /\ CancelTarget(h) # 0
                /\ IsNode(CancelTarget(h))
                /\ \/ contract[CancelTarget(h)].by = h
                   \/ CancelTarget(h) \in ToDelete(h)
  <1>1. /\ item[h] \in 1..Count(h)
        /\ \/ mode[h] = "forward" /\ Operation(h, item[h]) = "delete"
           \/ mode[h] = "inner" /\ Operation(h, item[h]) = "deploy"
        /\ MemoryInv(h) /\ cid[h][item[h]] \in Ids \cup {0}
    BY Here DEF Located, Undoing, InLoop, Modes
  <1>2. CASE MoreNames(h)
    BY <1>1, <1>2 DEF CancelTarget, IInv, MemoryTypes, MemoryInv
  <1>3. CASE ~MoreNames(h) /\ mode[h] = "forward"
    <2>1. cid[h][item[h]] = Batch[h][item[h]].contract_id
      BY <1>1, <1>3 DEF MemoryInv
    <2>2. /\ cid[h][item[h]] \in 1..Len(Existing) /\ cid[h][item[h]] \in Ids
          /\ Existing[cid[h][item[h]]].kind = "node"
      BY <1>1, <1>3, <2>1, BatchFacts
    <2>3. IsNode(cid[h][item[h]]) /\ cid[h][item[h]] < nextId
      BY <2>2, LastExisting DEF IInv, ChainInv, IsNode
    <2>4. cid[h][item[h]] \in ToDelete(h)
      BY <1>1, <1>3, <2>1 DEF ToDelete, Operation
    <2> QED
      BY <1>1, <1>3, <2>2, <2>3, <2>4 DEF CancelTarget, Ids
  <1>4. CASE ~MoreNames(h) /\ mode[h] = "inner"
    <2>1. cid[h][item[h]] # 0 /\ Mine(h, cid[h][item[h]])
      BY <1>1, <1>4 DEF MemoryInv
    <2> QED
      BY <1>1, <1>4, <2>1 DEF CancelTarget, Mine
  <1> QED
    BY <1>1, <1>2, <1>3, <1>4

LEMMA CancelGetInv == ASSUME IInv, NEW h \in Handlers, CancelGet(h) PROVE IInv'
  <1> DEFINE id == CancelTarget(h)
  <1>1. /\ pc[h] = "cancelGet" /\ item[h] \in 1..Count(h)
        /\ UNCHANGED chain /\ UNCHANGED <<node, target, cid, ready>>
    BY Here DEF CancelGet, Located, InLoop
  <1>2. /\ ChainInv' /\ Grows(h) /\ node' \in [Ids -> NodeState]
        /\ contract' = contract
        /\ \A j \in Ids : Mine(h, j)' => Mine(h, j)
    BY <1>1, SameChain, NodeKept
  <1>3. CASE Throw(h) /\ UNCHANGED results
    BY <1>1, <1>2, <1>3, ThrowStep DEF Kept
  <1>4. CASE Goto(h, "cancelTx", item[h], name[h], mode[h]) /\ UNCHANGED results
    <2>1. Located(h, "cancelTx", item[h], name[h], mode[h])
      BY <1>1, Here, BatchFacts DEF Located, Steps, Modes, InLoop, Undoing
    <2> QED
      BY <1>1, <1>2, <1>4, <2>1, StayStep DEF Kept
  <1>5. CASE id # 0 /\ ~Live(id) /\ AfterCancel(h)
    <2>1. ~MoreNames(h) => contract'[cid[h][item[h]]].state = "deleted"
      <3>1. id \in Ids /\ id < nextId /\ (~MoreNames(h) => id = cid[h][item[h]])
        BY <1>1, <1>5, CancelTargetFacts
      <3>2. contract[id].state # "free" /\ contract[id].state # "created"
        BY <1>5, <3>1, LastExisting DEF IInv, ChainInv, Live, Ids
      <3>3. contract[id].state = "deleted"
        BY <3>1, <3>2 DEF IInv, ChainInv, Contract
      <3> QED
        BY <1>2, <3>1, <3>3
    <2> QED
      BY <1>1, <1>2, <1>5, <2>1, AfterCancelStep
  <1> QED
    BY <1>3, <1>4, <1>5 DEF CancelGet

LEMMA CancelTxInv == ASSUME IInv, NEW h \in Handlers, CancelTx(h) PROVE IInv'
  <1> DEFINE id == CancelTarget(h)
  <1>1. /\ pc[h] = "cancelTx" /\ UNCHANGED <<node, target, cid, ready>>
    BY DEF CancelTx
  <1>2. node' \in [Ids -> NodeState]
    BY <1>1, NodeKept
  <1>3. CASE Throw(h) /\ UNCHANGED <<chain, results>>
    BY <1>1, <1>2, <1>3, SameChain, ThrowStep DEF Kept
  <1>4. CASE Live(id) /\ Cancelled(id)
    <2>1. id \in Ids /\ (~MoreNames(h) => id = cid[h][item[h]])
      BY <1>1, <1>4, CancelTargetFacts DEF Live
    <2>2. /\ ChainInv' /\ Grows(h) /\ nextId' = nextId
          /\ contract' = [contract EXCEPT ![id].state = "deleted"]
      BY <1>4, <2>1, CancelledGrows DEF IInv
    <2>3. /\ \A j \in Ids : Mine(h, j)' => Mine(h, j)
          /\ contract'[id].state = "deleted"
      BY <2>1, <2>2 DEF IInv, ChainInv, Contract, Mine, IsNode
    <2>4. CASE AfterCancel(h)
      BY <1>1, <1>2, <2>1, <2>2, <2>3, <2>4, AfterCancelStep
    <2>5. CASE Throw(h) /\ UNCHANGED results
      BY <1>1, <1>2, <2>2, <2>5, ThrowStep DEF Kept
    <2> QED
      BY <1>3, <1>4, <2>4, <2>5 DEF CancelTx
  <1> QED
    BY <1>3, <1>4 DEF CancelTx

LEMMA PollReadyInv == ASSUME IInv, NEW h \in Handlers, PollReady(h) PROVE IInv'
  <1>1. /\ pc[h] = "wait" /\ UNCHANGED <<chain, node, control, target, cid, results>>
        /\ \E i \in Awaited(h) : ready' = [ready EXCEPT ![h] = @ \cup {i}]
    BY DEF PollReady
  <1>2. Awaited(h) \subseteq Nat
    BY DEF Awaited
  <1>3. /\ MemoryTypes' /\ ready'[h] \subseteq Awaited(h)
        /\ \A k \in Handlers \ {h} : ready'[k] = ready[k]
        /\ target' = target /\ cid' = cid /\ created' = created
    BY <1>1, <1>2, Here DEF IInv, MemoryTypes, MemoryInv, results
  <1>4. pc' = pc /\ item' = item /\ name' = name /\ mode' = mode
    BY <1>1 DEF control
  <1>5. ControlInv'
    BY <1>4 DEF IInv, ControlInv
  <1>6. /\ ChainInv' /\ Grows(h) /\ node' \in [Ids -> NodeState] /\ contract' = contract
        /\ \A id \in Ids : Mine(h, id)' => Mine(h, id)
    BY <1>1, SameChain, NodeKept
  <1>7. MemoryInv(h)'
    BY <1>3, <1>4, <1>6, SameMemory, Here DEF MemoryInv
  <1>8. AccountInv(h)'
    BY <1>3, <1>4, <1>6, Here DEF AccountInv
  <1> QED
    BY <1>3, <1>4, <1>5, <1>6, <1>7, <1>8, StepOfOne

LEMMA PollThrowInv == ASSUME IInv, NEW h \in Handlers, PollThrow(h) PROVE IInv'
  BY SameChain, NodeKept, ThrowStep DEF PollThrow, Kept

\* The loop of saveNetworks: every contract is settled by now.
LEMMA SaveMove ==
    ASSUME IInv, NEW h \in Handlers, pc[h] \in {"wait", "save"},
           NEW i \in 1..(Count(h) + 1), Goto(h, SaveStep(h, i), i, 1, "forward"),
           UNCHANGED chain, UNCHANGED node, Kept
    PROVE  IInv'
  <1>1. mode[h] = "forward"
    BY Here DEF Located, Undoing, Modes
  <1>2. SaveStep(h, i) \in {"save", "returned"} /\ (SaveStep(h, i) = "save" => i <= Count(h))
    BY BatchFacts DEF SaveStep
  <1>3. Located(h, SaveStep(h, i), i, 1, "forward")
    BY <1>2, BatchFacts DEF Located, Steps, Modes, InLoop, Undoing
  <1>4. /\ ControlInv'
        /\ pc'[h] = SaveStep(h, i) /\ mode'[h] = "forward"
        /\ \A k \in Handlers \ {h} : /\ pc'[k] = pc[k] /\ item'[k] = item[k]
                                     /\ name'[k] = name[k] /\ mode'[k] = mode[k]
    BY <1>3, GotoControl DEF IInv
  <1>5. /\ MemoryTypes'
        /\ target' = target /\ cid' = cid /\ created' = created
        /\ updated' = updated /\ deleted' = deleted /\ ready' = ready
    BY KeptFacts DEF IInv
  <1>6. /\ ChainInv' /\ Grows(h) /\ node' \in [Ids -> NodeState] /\ contract' = contract
        /\ \A id \in Ids : Mine(h, id)' => Mine(h, id)
    BY SameChain, NodeKept
  <1>7. MemoryInv(h)'
    BY <1>2, <1>4, <1>5, <1>6, SameMemory, Here DEF MemoryInv
  <1>8. AccountInv(h)'
    <2>1. AccountInv(h)
      BY Here
    <2>2. \A id \in Ids : Mine(h, id)' => FromChain(id) \in created'[h]
      BY <1>1, <1>5, <1>6, <2>1 DEF AccountInv
    <2>3. \A j \in 1..Count(h) : Operation(h, j) = "delete" =>
            contract'[Batch[h][j].contract_id].state = "deleted"
      BY <1>1, <1>6, <2>1 DEF AccountInv
    <2> QED
      BY <2>2, <2>3 DEF AccountInv
  <1> QED
    BY <1>4, <1>5, <1>6, <1>7, <1>8, StepOfOne

LEMMA WaitDoneInv == ASSUME IInv, NEW h \in Handlers, WaitDone(h) PROVE IInv'
  <1>1. 1 \in 1..(Count(h) + 1)
    BY BatchFacts
  <1> QED
    BY <1>1, SaveMove DEF WaitDone, Kept

LEMMA SaveNetworksInv == ASSUME IInv, NEW h \in Handlers, SaveNetworks(h) PROVE IInv'
  <1>1. pc[h] = "save" /\ UNCHANGED chain /\ UNCHANGED node /\ Kept
    BY DEF SaveNetworks, Kept
  <1>2. item[h] + 1 \in 1..(Count(h) + 1)
    BY <1>1, Here, BatchFacts DEF InLoop
  <1>3. CASE Goto(h, SaveStep(h, item[h] + 1), item[h] + 1, 1, "forward")
    BY <1>1, <1>2, <1>3, SaveMove
  <1>4. CASE Throw(h)
    BY <1>1, <1>4, SameChain, NodeKept, ThrowStep
  <1> QED
    BY <1>3, <1>4 DEF SaveNetworks

\* The calls see nothing of a step of the environment but the chain.
LEMMA EnvironmentStep ==
    ASSUME IInv, ChainInv', node' \in [Ids -> NodeState], Grows(NoHandler),
           UNCHANGED <<control, target, cid, results, ready>>
    PROVE  IInv'
  <1>1. /\ pc' = pc /\ item' = item /\ name' = name /\ mode' = mode
        /\ target' = target /\ cid' = cid /\ ready' = ready
        /\ created' = created /\ updated' = updated /\ deleted' = deleted
    BY DEF control, results
  <1>2. ControlInv' /\ MemoryTypes'
    BY <1>1 DEF IInv, ControlInv, MemoryTypes
  <1>3. ASSUME NEW k \in Handlers PROVE MemoryInv(k)' /\ AccountInv(k)'
    BY <1>1, OthersKeep, HandlerAssumption
  <1> QED
    BY <1>2, <1>3 DEF IInv

LEMMA EnvironmentInv == ASSUME IInv, NEW id \in Ids, Environment(id) PROVE IInv'
  <1>1. CASE NodeApply(id)
    <2>1. /\ UNCHANGED chain /\ UNCHANGED <<control, target, cid, results, ready>>
          /\ \E s \in {"ok", "error"} :
               node' = [node EXCEPT ![id].cur = node[id].want, ![id].state = s]
      BY <1>1 DEF NodeApply
    <2>2. node' \in [Ids -> NodeState]
      <3>1. PICK s \in {"ok", "error"} :
               node' = [node EXCEPT ![id] = [node[id] EXCEPT !.cur = node[id].want, !.state = s]]
        BY <2>1
      <3>2. node \in [Ids -> NodeState]
        BY DEF IInv
      <3>3. [node[id] EXCEPT !.cur = node[id].want, !.state = s] \in NodeState
        BY <3>2 DEF NodeState
      <3> QED
        BY <3>1, <3>2, <3>3
    <2> QED
      BY <2>1, <2>2, SameChain, EnvironmentStep
  <1>2. CASE NodeDecommission(id)
    <2>1. /\ UNCHANGED chain /\ UNCHANGED <<control, target, cid, results, ready>>
          /\ node' = [node EXCEPT ![id] = [Nothing EXCEPT !.state = "deleted"]]
      BY <1>2 DEF NodeDecommission
    <2>2. [Nothing EXCEPT !.state = "deleted"] \in NodeState
      BY DEF Nothing, NodeState
    <2>3. node' \in [Ids -> NodeState]
      BY <2>1, <2>2 DEF IInv
    <2> QED
      BY <2>1, <2>3, SameChain, EnvironmentStep
  <1>3. CASE ExternalCancel(id)
    <2>1. Live(id) /\ Cancelled(id) /\ UNCHANGED <<node, control, target, cid, results, ready>>
      BY <1>3 DEF ExternalCancel
    <2>2. ChainInv' /\ Grows(NoHandler)
      BY <2>1, CancelledGrows DEF IInv
    <2> QED
      BY <2>1, <2>2, NodeKept, EnvironmentStep
  <1> QED
    BY <1>1, <1>2, <1>3 DEF Environment

LEMMA StutterInv == ASSUME IInv, UNCHANGED vars PROVE IInv'
  <1>1. UNCHANGED chain /\ UNCHANGED node /\ UNCHANGED <<control, target, cid, results, ready>>
    BY DEF vars
  <1> QED
    BY <1>1, SameChain, NodeKept, EnvironmentStep

LEMMA HandleInv == ASSUME IInv, NEW h \in Handlers, Handle(h) PROVE IInv'
  BY CheckInv, NameQueryInv, NameCreateInv, CreateNodeInv, RmbDeployInv,
     UpdateNodeInv, RmbUpdateInv, UndoInv, CancelGetInv, CancelTxInv,
     PollReadyInv, PollThrowInv, WaitDoneInv, SaveNetworksInv
  DEF Handle

LEMMA NextInv == ASSUME IInv, [Next]_vars PROVE IInv'
  BY HandleInv, EnvironmentInv, StutterInv DEF Next, Terminated

LEMMA InitInv == ASSUME Init PROVE IInv
  <1>1. \A id \in Ids : id <= Len(Existing) =>
          /\ id \in 1..Len(Existing)
          /\ Existing[id] \in [kind : {"node", "name"}, spec : Specs \cup {NoSpec},
                               names : SUBSET Names]
    <2>1. Existing \in Seq([kind : {"node", "name"}, spec : Specs \cup {NoSpec},
                            names : SUBSET Names])
      BY HandlerAssumption
    <2>2. \A id \in 1..Len(Existing) :
            Existing[id] \in [kind : {"node", "name"}, spec : Specs \cup {NoSpec},
                              names : SUBSET Names]
      BY <2>1, ElementOfSeq
    <2> QED
      BY <2>2, LastExisting DEF Ids
  <1>2. ControlInv
    <2>1. /\ pc \in [Handlers -> Steps] /\ item \in [Handlers -> Nat \ {0}]
          /\ name \in [Handlers -> Nat \ {0}] /\ mode \in [Handlers -> Modes]
      BY DEF Init, Steps, Modes
    <2>2. ASSUME NEW h \in Handlers
          PROVE  Located(h, pc[h], item[h], name[h], mode[h])
      <3>1. pc[h] = "check" /\ item[h] = 1 /\ name[h] = 1 /\ mode[h] = "forward"
        BY DEF Init
      <3> QED
        BY <3>1, BatchFacts DEF Located, Steps, Modes, InLoop, Undoing
    <2> QED
      BY <2>1, <2>2 DEF ControlInv
  <1>3. ChainInv
    <2>1. contract = [i \in Ids |->
            IF i <= Len(Existing)
            THEN [state |-> "created", kind |-> Existing[i].kind, by |-> NoHandler]
            ELSE Free]
      BY DEF Init
    <2>2. contract \in [Ids -> Contract]
      BY <1>1, <2>1 DEF Contract, Free
    <2>3. \A i \in Ids : i <= Len(Existing) =>
            /\ contract[i].state = "created" /\ contract[i].by = NoHandler
            /\ contract[i].kind = Existing[i].kind
      BY <2>1
    <2>4. \A i \in Ids : ~(i <= Len(Existing)) =>
            contract[i] = Free /\ contract[i].state = "free"
      BY <2>1 DEF Free
    <2>5. nextId = Len(Existing) + 1 /\ nextId \in 1..(MaxId + 1)
      BY LastExisting DEF Init
    <2>6. registry \in [Names -> 0..Len(Existing)]
      BY DEF Init
    <2>7. \A n \in Names : registry[n] # 0 =>
            registry[n] \in 1..Len(Existing) /\ Existing[registry[n]].kind = "name"
      BY <2>6, LastExisting DEF Init
    <2>8. registry \in [Names -> Ids \cup {0}]
      BY <2>6, LastExisting DEF Ids
    <2>9. \A n \in Names : registry[n] # 0 => registry[n] < nextId /\ ~IsNode(registry[n])
      BY <2>3, <2>5, <2>7, LastExisting DEF IsNode, Ids
    <2>10. \A id \in Ids : contract[id].state = "free" <=> id >= nextId
      <3> TAKE id \in Ids
      <3>1. CASE id <= Len(Existing)
        BY <2>3, <2>5, <3>1, LastExisting DEF Ids
      <3>2. CASE ~(id <= Len(Existing))
        BY <2>4, <2>5, <3>2, LastExisting DEF Ids, Free
      <3> QED
        BY <3>1, <3>2
    <2>11. \A id \in Ids : id >= nextId => contract[id] = Free
      BY <2>4, <2>5, LastExisting DEF Ids
    <2>12. \A id \in Ids : id <= Len(Existing) => contract[id].kind = Existing[id].kind
      BY <2>3
    <2> QED
      BY <2>2, <2>5, <2>8, <2>9, <2>10, <2>11, <2>12, LastExisting DEF ChainInv
  <1>4. node \in [Ids -> NodeState]
    BY <1>1 DEF Init, NodeState, Nothing
  <1>5. \A h \in Handlers :
          /\ cid[h] \in Seq(Ids \cup {0}) /\ Len(cid[h]) = Count(h)
          /\ \A i \in 1..Count(h) : cid[h][i] = Batch[h][i].contract_id
    <2> TAKE h \in Handlers
    <2>1. cid[h] = [i \in 1..Count(h) |-> Batch[h][i].contract_id]
      BY DEF Init, Count
    <2>2. \A i \in 1..Count(h) : Batch[h][i].contract_id \in Ids \cup {0}
      BY BatchFacts
    <2> QED
      BY <2>1, <2>2, BatchFacts
  <1>6. MemoryTypes
    BY <1>5 DEF Init, MemoryTypes
  <1>7. ASSUME NEW h \in Handlers PROVE MemoryInv(h) /\ AccountInv(h)
    <2>1. /\ target[h] = 0 /\ created[h] = {} /\ ready[h] = {}
          /\ pc[h] = "check" /\ mode[h] = "forward" /\ item[h] = 1
      BY DEF Init
    <2>2. MemoryInv(h)
      BY <1>5, <2>1, BatchFacts DEF MemoryInv
    <2>3. \A id \in Ids : ~Mine(h, id)
      <3>1. \A id \in Ids : contract[id].by = NoHandler
        BY DEF Init, Free
      <3> QED
        BY <3>1, HandlerAssumption DEF Mine
    <2>4. AccountInv(h)
      BY <2>1, <2>3, BatchFacts DEF AccountInv
    <2> QED
      BY <2>2, <2>4
  <1> QED
    BY <1>2, <1>3, <1>4, <1>6, <1>7 DEF IInv

LEMMA TypeFromInv == ASSUME IInv PROVE TypeOK
  <1>1. ChainOK /\ HandlersOK
    BY DEF IInv, ChainInv, ControlInv, MemoryTypes, ChainOK, HandlersOK
  <1>2. ASSUME NEW h \in Handlers PROVE IndexOK(h)
    BY Here DEF IndexOK, Located, MemoryInv, MoreNames, Item
  <1> QED
    BY <1>1, <1>2 DEF TypeOK

LEMMA Invariance == Spec => []IInv
  <1>1. Init => IInv
    BY InitInv
  <1>2. IInv /\ [Next]_vars => IInv'
    BY NextInv
  <1> QED
    BY <1>1, <1>2, PTL DEF Spec

\* Every variable has its type in every execution, and no handler reads an
\* item or a gateway name its batch does not have.
THEOREM TypeCorrect == Spec => []TypeOK
  <1>1. IInv => TypeOK
    BY TypeFromInv
  <1> QED
    BY <1>1, Invariance, PTL
-----------------------------------------------------------------------------
(***************************************************************************)
(* Refinement of ContractLedger.                                           *)
(***************************************************************************)
Moves(h, P) == \E p \in P : pc' = [pc EXCEPT ![h] = p]
Busy == Steps \ {"returned"}

LEMMA JumpsMove ==
    ASSUME IInv, NEW h \in Handlers
    PROVE  /\ Throw(h) => Moves(h, {"threw"})
           /\ \A i \in 1..(Count(h) + 1) : Loop(h, i) => Moves(h, Busy \ {"threw"})
           /\ pc[h] \in {"nameQuery", "nameCreate"} /\ NextName(h) =>
                Moves(h, Busy \ {"threw"})
           /\ InnerRollback(h) => Moves(h, Busy)
           /\ pc[h] \in {"cancelGet", "cancelTx"} /\ AfterCancel(h) =>
                /\ Moves(h, Busy)
                /\ created' = created
  <1>1. Throw(h) => Moves(h, {"threw"})
    BY IdleRollback, Here DEF Goto, Moves
  <1>2. ASSUME NEW i \in 1..(Count(h) + 1), Loop(h, i) PROVE Moves(h, Busy \ {"threw"})
    <2>1. LoopStep(h, i) \in Busy \ {"threw"}
      BY DEF LoopStep, UndoStep, Body, Busy, Steps
    <2> QED
      BY <1>2, <2>1 DEF Loop, Goto, Moves
  <1>3. ASSUME pc[h] \in {"nameQuery", "nameCreate"}, NextName(h)
        PROVE  Moves(h, Busy \ {"threw"})
    BY <1>3 DEF NextName, Goto, Moves, Body, Busy, Steps
  <1>4. ASSUME InnerRollback(h) PROVE Moves(h, Busy)
    <2>1. UndoStep(h, item[h]) \in Busy /\ "threw" \in Busy
      BY DEF UndoStep, Busy, Steps
    <2> QED
      BY <1>4, <2>1, IdleRollback, Here DEF InnerRollback, Goto, Moves
  <1>5. ASSUME pc[h] \in {"cancelGet", "cancelTx"}, AfterCancel(h)
        PROVE  Moves(h, Busy) /\ created' = created
    <2>1. item[h] + 1 \in 1..(Count(h) + 1) /\ mode[h] \in {"forward", "inner"}
      BY <1>5, Here, BatchFacts DEF Located, InLoop, Modes
    <2>2. CASE MoreNames(h)
      BY <1>5, <2>2 DEF AfterCancel, Goto, Moves, results, Busy, Steps
    <2>3. CASE ~MoreNames(h) /\ mode[h] = "forward"
      <3>1. Loop(h, item[h] + 1) /\ created' = created
        BY <1>5, <2>3 DEF AfterCancel
      <3>2. Moves(h, Busy \ {"threw"})
        BY <1>2, <2>1, <3>1
      <3> QED
        BY <3>1, <3>2 DEF Moves
    <2>4. CASE ~MoreNames(h) /\ mode[h] = "inner"
      <3>1. Throw(h) /\ created' = created
        BY <1>5, <2>4 DEF AfterCancel, results
      <3> QED
        BY <1>1, <3>1 DEF Moves, Busy, Steps
    <2> QED
      BY <2>1, <2>2, <2>3, <2>4
  <1> QED
    BY <1>1, <1>2, <1>3, <1>4, <1>5

\* A step of h that does not return leaves the other calls alone and settles
\* h at most.
LEMMA LedgerControl ==
    ASSUME IInv, NEW h \in Handlers, ~Settled(h), Moves(h, Busy) \/ pc' = pc
    PROVE  /\ Outcome[h] = "running"
           /\ Outcome' = Outcome \/ Outcome' = [Outcome EXCEPT ![h] = "threw"]
           /\ (\A k \in Handlers \ {h} : created'[k] = created[k]) => Report' = Report
  <1>1. pc \in [Handlers -> Steps]
    BY DEF IInv, ControlInv
  <1>2. PICK p \in Busy : pc' = [pc EXCEPT ![h] = p]
    <2>1. CASE pc' = pc
      <3>1. pc[h] \in Busy /\ pc' = [pc EXCEPT ![h] = pc[h]]
        BY <1>1, <2>1 DEF Settled, Busy
      <3> QED
        BY <3>1
    <2> QED
      BY <2>1 DEF Moves
  <1>3. pc'[h] # "returned" /\ pc[h] # "returned" /\ \A k \in Handlers \ {h} : pc'[k] = pc[k]
    BY <1>1, <1>2 DEF Busy, Settled
  <1>4. Outcome[h] = "running"
    BY DEF Outcome
  <1>5. Outcome' = Outcome \/ Outcome' = [Outcome EXCEPT ![h] = "threw"]
    BY <1>1, <1>2, <1>3 DEF Outcome, Settled, Busy
  <1>6. ASSUME \A k \in Handlers \ {h} : created'[k] = created[k] PROVE Report' = Report
    BY <1>3, <1>6 DEF Report
  <1> QED
    BY <1>4, <1>5, <1>6

LedgerStep == [Ledger!Next]_(Ledger!ledgerVars)

\* A step that neither creates nor cancels a node contract: it may fail.
LEMMA QuietStep ==
    ASSUME IInv, NEW h \in Handlers, ~Settled(h), Moves(h, Busy) \/ pc' = pc,
           LedgerState' = LedgerState, LedgerOwner' = LedgerOwner,
           \A k \in Handlers \ {h} : created'[k] = created[k]
    PROVE  LedgerStep
  <1>1. /\ Outcome[h] = "running" /\ Report' = Report
        /\ Outcome' = Outcome \/ Outcome' = [Outcome EXCEPT ![h] = "threw"]
    BY LedgerControl
  <1>2. CASE Outcome' = Outcome
    BY <1>1, <1>2 DEF LedgerStep, Ledger!ledgerVars
  <1>3. CASE Outcome' = [Outcome EXCEPT ![h] = "threw"]
    <2>1. Ledger!Fail(h)
      BY <1>1, <1>3 DEF Ledger!Fail
    <2> QED
      BY <2>1 DEF LedgerStep, Ledger!Next
  <1> QED
    BY <1>1, <1>2, <1>3

LEMMA SameContracts ==
    ASSUME contract' = contract
    PROVE  LedgerState' = LedgerState /\ LedgerOwner' = LedgerOwner
  BY DEF LedgerState, LedgerOwner, IsNode

LEMMA GotoMoves ==
    ASSUME NEW h, NEW p, NEW i, NEW n, NEW m, Goto(h, p, i, n, m), p \in Busy
    PROVE  Moves(h, Busy)
  BY DEF Goto, Moves

LEMMA MovesMore ==
    ASSUME NEW h, NEW P, NEW Q, Moves(h, P), P \subseteq Q PROVE Moves(h, Q)
  BY DEF Moves

\* Most steps do not touch the contracts.
LEMMA QuietActions ==
    ASSUME IInv, NEW h \in Handlers,
           \/ Check(h) \/ NameQuery(h) \/ RmbDeploy(h) \/ UpdateNode(h)
           \/ RmbUpdate(h) \/ Undo(h) \/ CancelGet(h) \/ PollReady(h) \/ PollThrow(h)
    PROVE  LedgerStep
  <1>1. ~Settled(h)
    BY DEF Check, NameQuery, RmbDeploy, UpdateNode, RmbUpdate, Undo, CancelGet,
           PollReady, PollThrow, Settled
  <1>2. contract' = contract
    BY DEF Check, NameQuery, RmbDeploy, UpdateNode, RmbUpdate, Undo, CancelGet,
           PollReady, PollThrow, chain
  <1>3. /\ {"threw"} \subseteq Busy /\ Busy \ {"threw"} \subseteq Busy
        /\ {"nameCreate", "rmbUpdate", "cancelGet", "cancelTx", "threw"} \subseteq Busy
    BY DEF Busy, Steps
  <1>4. Throw(h) => Moves(h, Busy)
    BY <1>3, JumpsMove, MovesMore
  <1>5. Moves(h, Busy) \/ pc' = pc
    <2>1. CASE Check(h)
      <3>1. 1 \in 1..(Count(h) + 1)
        BY BatchFacts
      <3> QED
        BY <1>3, <2>1, <3>1, JumpsMove, MovesMore, GotoMoves DEF Check
    <2>2. CASE NameQuery(h)
      BY <1>3, <1>4, <2>2, JumpsMove, MovesMore, GotoMoves DEF NameQuery
    <2>3. CASE RmbDeploy(h)
      <3>1. item[h] + 1 \in 1..(Count(h) + 1)
        BY <2>3, Here, BatchFacts DEF RmbDeploy, InLoop
      <3> QED
        BY <1>3, <2>3, <3>1, JumpsMove, MovesMore DEF RmbDeploy
    <2>4. CASE UpdateNode(h)
      BY <1>3, <1>4, <2>4, GotoMoves DEF UpdateNode
    <2>5. CASE RmbUpdate(h)
      <3>1. item[h] + 1 \in 1..(Count(h) + 1)
        BY <2>5, Here, BatchFacts DEF RmbUpdate, InLoop
      <3> QED
        BY <1>3, <1>4, <2>5, <3>1, JumpsMove, MovesMore DEF RmbUpdate
    <2>6. CASE Undo(h)
      BY <1>3, <1>4, <2>6, GotoMoves DEF Undo
    <2>7. CASE CancelGet(h)
      BY <1>3, <1>4, <2>7, JumpsMove, GotoMoves DEF CancelGet
    <2>8. CASE PollReady(h)
      BY <2>8 DEF PollReady, control
    <2>9. CASE PollThrow(h)
      BY <1>4, <2>9 DEF PollThrow
    <2> QED
      BY <2>1, <2>2, <2>3, <2>4, <2>5, <2>6, <2>7, <2>8, <2>9
  <1>6. \A k \in Handlers \ {h} : created'[k] = created[k]
    <2>1. CASE RmbDeploy(h)
      BY <2>1 DEF RmbDeploy, IInv, MemoryTypes
    <2>2. CASE CancelGet(h)
      BY <2>2, JumpsMove DEF CancelGet, results
    <2> QED
      BY <2>1, <2>2 DEF Check, NameQuery, UpdateNode, RmbUpdate, Undo, PollReady,
                        PollThrow, results
  <1> QED
    BY <1>1, <1>2, <1>5, <1>6, SameContracts, QuietStep

LEMMA NameCreateLedger ==
    ASSUME IInv, NEW h \in Handlers, NameCreate(h) PROVE LedgerStep
  <1>1. ~Settled(h) /\ created' = created /\ pc[h] = "nameCreate"
    BY DEF NameCreate, Settled, results
  <1>2. Moves(h, Busy)
    <2>1. {"threw"} \subseteq Busy /\ Busy \ {"threw"} \subseteq Busy
      BY DEF Busy, Steps
    <2> QED
      BY <2>1, JumpsMove, MovesMore DEF NameCreate
  <1>3. LedgerState' = LedgerState /\ LedgerOwner' = LedgerOwner
    <2>1. CASE UNCHANGED chain
      BY <2>1, SameContracts DEF chain
    <2>2. CASE Created(h, "name")
      <3>1. /\ nextId \in Ids
            /\ contract' = [contract EXCEPT ![nextId] =
                              [state |-> "created", kind |-> "name", by |-> h]]
        BY <2>2, LastExisting DEF Created, IInv, ChainInv, Ids
      <3>2. contract[nextId] = Free
        BY <3>1, LastExisting DEF IInv, ChainInv
      <3>3. \A id \in Ids : /\ LedgerState'[id] = LedgerState[id]
                            /\ LedgerOwner'[id] = LedgerOwner[id]
        <4> TAKE id \in Ids
        <4>1. CASE id = nextId
          BY <3>1, <3>2, <4>1 DEF LedgerState, LedgerOwner, IsNode, Free, IInv, ChainInv
        <4>2. CASE id # nextId
          BY <3>1, <4>2 DEF LedgerState, LedgerOwner, IsNode, IInv, ChainInv
        <4> QED
          BY <4>1, <4>2
      <3> QED
        BY <3>3 DEF LedgerState, LedgerOwner
    <2> QED
      BY <2>1, <2>2 DEF NameCreate
  <1> QED
    BY <1>1, <1>2, <1>3, QuietStep

LEMMA CreateNodeLedger ==
    ASSUME IInv, NEW h \in Handlers, CreateNode(h) PROVE LedgerStep
  <1>1. ~Settled(h) /\ created' = created
    BY DEF CreateNode, Settled, results
  <1>2. Moves(h, Busy)
    <2>1. {"threw"} \subseteq Busy /\ "rmbDeploy" \in Busy
      BY DEF Busy, Steps
    <2> QED
      BY <2>1, JumpsMove, MovesMore, GotoMoves DEF CreateNode
  <1>3. CASE UNCHANGED chain
    BY <1>1, <1>2, <1>3, SameContracts, QuietStep DEF chain
  <1>4. CASE Created(h, "node")
    <2>1. /\ nextId \in Ids
          /\ contract' = [contract EXCEPT ![nextId] =
                            [state |-> "created", kind |-> "node", by |-> h]]
      BY <1>4, LastExisting DEF Created, IInv, ChainInv, Ids
    <2>2. contract[nextId] = Free
      BY <2>1, LastExisting DEF IInv, ChainInv
    <2>3. /\ LedgerState[nextId] = "free"
          /\ LedgerState' = [LedgerState EXCEPT ![nextId] = "created"]
          /\ LedgerOwner' = [LedgerOwner EXCEPT ![nextId] = h]
      <3>1. contract \in [Ids -> Contract]
        BY DEF IInv, ChainInv
      <3>2. /\ contract'[nextId].kind = "node" /\ contract'[nextId].state = "created"
            /\ contract'[nextId].by = h
            /\ \A id \in Ids \ {nextId} : contract'[id] = contract[id]
        BY <2>1, <3>1
      <3>3. LedgerState[nextId] = "free"
        BY <2>1, <2>2 DEF LedgerState, Free
      <3>4. LedgerState' = [id \in Ids |->
                              IF id = nextId THEN "created" ELSE LedgerState[id]]
        BY <3>2 DEF LedgerState, IsNode
      <3>5. LedgerOwner' = [id \in Ids |->
                              IF id = nextId THEN h ELSE LedgerOwner[id]]
        BY <3>2 DEF LedgerOwner, IsNode
      <3>6. DOMAIN LedgerState = Ids /\ DOMAIN LedgerOwner = Ids
        BY DEF LedgerState, LedgerOwner
      <3> QED
        BY <2>1, <3>3, <3>4, <3>5, <3>6
    <2>4. /\ Outcome[h] = "running" /\ Report' = Report
          /\ Outcome' = Outcome \/ Outcome' = [Outcome EXCEPT ![h] = "threw"]
      BY <1>1, <1>2, LedgerControl
    <2>5. Ledger!Acquire(h)
      BY <2>1, <2>3, <2>4 DEF Ledger!Acquire, Ledger!Settles
    <2> QED
      BY <2>5 DEF LedgerStep, Ledger!Next
  <1> QED
    BY <1>3, <1>4 DEF CreateNode

\* Only what the call created or was asked to delete is cancelled.
LEMMA CancelledLedger ==
    ASSUME IInv, NEW id \in Ids, Live(id), Cancelled(id)
    PROVE  /\ LedgerOwner' = LedgerOwner
           /\ IF IsNode(id)
              THEN Ledger!Cancel(id)
              ELSE LedgerState' = LedgerState
  <1>1. contract' = [contract EXCEPT ![id].state = "deleted"] /\ contract \in [Ids -> Contract]
    BY DEF Cancelled, IInv, ChainInv
  <1>2. \A j \in Ids : /\ contract'[j].kind = contract[j].kind
                       /\ contract'[j].by = contract[j].by
                       /\ contract'[j].state =
                            IF j = id THEN "deleted" ELSE contract[j].state
    BY <1>1 DEF Contract
  <1>3. LedgerOwner' = LedgerOwner
    BY <1>2 DEF LedgerOwner, IsNode
  <1>4. CASE IsNode(id)
    <2>1. LedgerState[id] = "created"
      BY <1>4 DEF LedgerState, Live
    <2>2. LedgerState' = [j \in Ids |-> IF j = id THEN "deleted" ELSE LedgerState[j]]
      BY <1>2, <1>4 DEF LedgerState, IsNode
    <2>3. DOMAIN LedgerState = Ids
      BY DEF LedgerState
    <2>4. LedgerState' = [LedgerState EXCEPT ![id] = "deleted"]
      BY <2>2, <2>3
    <2> QED
      BY <1>3, <1>4, <2>1, <2>4 DEF Ledger!Cancel
  <1>5. CASE ~IsNode(id)
    <2>1. LedgerState' = LedgerState
      BY <1>2, <1>5 DEF LedgerState, IsNode
    <2> QED
      BY <1>3, <1>5, <2>1
  <1> QED
    BY <1>4, <1>5

LEMMA CancelTxLedger ==
    ASSUME IInv, NEW h \in Handlers, CancelTx(h) PROVE LedgerStep
  <1> DEFINE id == CancelTarget(h)
  <1>1. pc[h] = "cancelTx" /\ ~Settled(h)
    BY DEF CancelTx, Settled
  <1>2. Moves(h, Busy) /\ created' = created
    <2>1. {"threw"} \subseteq Busy
      BY DEF Busy, Steps
    <2> QED
      BY <1>1, <2>1, JumpsMove, MovesMore DEF CancelTx, results
  <1>3. CASE UNCHANGED chain
    BY <1>1, <1>2, <1>3, SameContracts, QuietStep DEF chain
  <1>4. CASE Live(id) /\ Cancelled(id)
    <2>1. id \in Ids
      BY <1>4 DEF Live
    <2>2. CASE ~IsNode(id)
      BY <1>1, <1>2, <1>4, <2>1, <2>2, CancelledLedger, QuietStep
    <2>3. CASE IsNode(id)
      <3>1. Ledger!Cancel(id) /\ LedgerOwner' = LedgerOwner
        BY <1>4, <2>1, <2>3, CancelledLedger
      <3>2. contract[id].by = h \/ id \in ToDelete(h)
        BY <1>1, <2>1, <2>3, CancelTargetFacts DEF Ids
      <3>3. id \in Ledger!Owned(h) \cup [k \in Handlers |-> ToDelete(k)][h]
        BY <2>1, <2>3, <3>2 DEF Ledger!Owned, LedgerOwner
      <3>4. /\ Outcome[h] = "running" /\ Report' = Report
            /\ Outcome' = Outcome \/ Outcome' = [Outcome EXCEPT ![h] = "threw"]
        BY <1>1, <1>2, LedgerControl
      <3>5. Ledger!Release(h)
        BY <3>1, <3>3, <3>4 DEF Ledger!Release, Ledger!Settles
      <3> QED
        BY <3>5 DEF LedgerStep, Ledger!Next
    <2> QED
      BY <2>2, <2>3
  <1> QED
    BY <1>3, <1>4 DEF CancelTx

\* A call that returns has accounted for all its contracts.
LEMMA ReturnLedger ==
    ASSUME IInv, NEW h \in Handlers, pc[h] \in {"wait", "save"},
           pc' = [pc EXCEPT ![h] = "returned"], contract' = contract, created' = created
    PROVE  LedgerStep
  <1>1. /\ pc \in [Handlers -> Steps] /\ ~Settled(h) /\ mode[h] = "forward"
        /\ MemoryInv(h) /\ AccountInv(h)
    BY Here DEF IInv, ControlInv, Settled, Located, Undoing, Modes
  <1>2. Outcome[h] = "running" /\ Outcome' = [Outcome EXCEPT ![h] = "returned"]
    BY <1>1 DEF Outcome, Settled
  <1>3. Report' = [Report EXCEPT ![h] = {e.contractId : e \in created[h]}]
    BY <1>1 DEF Report, Settled
  <1>4. {e.contractId : e \in created[h]} = Ledger!Owned(h)
    <2>1. ASSUME NEW e \in created[h] PROVE e.contractId \in Ledger!Owned(h)
      <3>1. e.contractId \in Ids /\ Mine(h, e.contractId)
        BY <1>1 DEF MemoryInv, IInv, MemoryTypes, Entry
      <3> QED
        BY <3>1 DEF Ledger!Owned, LedgerOwner, Mine
    <2>2. ASSUME NEW id \in Ledger!Owned(h)
          PROVE  \E e \in created[h] : id = e.contractId
      <3>1. id \in Ids /\ IsNode(id) /\ contract[id].by = h
        BY <2>2, HandlerAssumption DEF Ledger!Owned, LedgerOwner
      <3>2. id < nextId
        <4>1. contract[id].by # NoHandler
          BY <3>1, HandlerAssumption
        <4> QED
          BY <3>1, <4>1, LastExisting DEF IInv, ChainInv, Free, Ids
      <3>3. FromChain(id) \in created[h]
        BY <1>1, <3>1, <3>2 DEF AccountInv, Mine
      <3>4. FromChain(id).contractId = id
        BY DEF FromChain
      <3> QED
        BY <3>3, <3>4
    <2> QED
      BY <2>1, <2>2
  <1>5. \A id \in ToDelete(h) : LedgerState[id] = "deleted"
    <2>1. ASSUME NEW i \in 1..Count(h), Operation(h, i) = "delete"
          PROVE  LedgerState[Batch[h][i].contract_id] = "deleted"
      <3>1. /\ Batch[h][i].contract_id \in Ids
            /\ Batch[h][i].contract_id <= Len(Existing)
            /\ Existing[Batch[h][i].contract_id].kind = "node"
        BY <2>1, BatchFacts, LastExisting
      <3>2. contract[Batch[h][i].contract_id].kind = "node"
        BY <3>1 DEF IInv, ChainInv
      <3>3. contract[Batch[h][i].contract_id].state = "deleted"
        BY <1>1, <2>1 DEF AccountInv
      <3> QED
        BY <3>1, <3>2, <3>3 DEF LedgerState, IsNode
    <2> QED
      BY <2>1 DEF ToDelete, Operation
  <1>6. LedgerState' = LedgerState /\ LedgerOwner' = LedgerOwner
    BY SameContracts
  <1>7. Ledger!Return(h)
    BY <1>2, <1>3, <1>4, <1>5, <1>6 DEF Ledger!Return
  <1> QED
    BY <1>7 DEF LedgerStep, Ledger!Next

LEMMA SaveLedger ==
    ASSUME IInv, NEW h \in Handlers, WaitDone(h) \/ SaveNetworks(h) PROVE LedgerStep
  <1>1. /\ pc[h] \in {"wait", "save"} /\ ~Settled(h)
        /\ contract' = contract /\ created' = created
    BY DEF WaitDone, SaveNetworks, Settled, chain, results
  <1>2. \/ \E i \in Nat : pc' = [pc EXCEPT ![h] = SaveStep(h, i)]
        \/ Moves(h, {"threw"})
    BY Here, JumpsMove DEF WaitDone, SaveNetworks, Goto
  <1>3. CASE pc' = [pc EXCEPT ![h] = "returned"]
    BY <1>1, <1>3, ReturnLedger
  <1>4. CASE Moves(h, {"threw"}) \/ pc' = [pc EXCEPT ![h] = "save"]
    <2>1. Moves(h, Busy)
      BY <1>4 DEF Moves, Busy, Steps
    <2> QED
      BY <1>1, <2>1, SameContracts, QuietStep
  <1> QED
    BY <1>2, <1>3, <1>4 DEF SaveStep

LEMMA EnvironmentLedger ==
    ASSUME IInv, NEW id \in Ids, Environment(id) PROVE LedgerStep
  <1>1. Outcome' = Outcome /\ Report' = Report
    BY DEF Environment, NodeApply, NodeDecommission, ExternalCancel, control, results,
           Outcome, Report, Settled
  <1>2. CASE ExternalCancel(id) /\ IsNode(id)
    <2>1. Ledger!Cancel(id) /\ LedgerOwner' = LedgerOwner
      BY <1>2, CancelledLedger DEF ExternalCancel
    <2>2. Ledger!Revoke
      BY <1>1, <1>2, <2>1 DEF Ledger!Revoke, ExternalCancel
    <2> QED
      BY <2>2 DEF LedgerStep, Ledger!Next
  <1>3. CASE ~(ExternalCancel(id) /\ IsNode(id))
    <2>1. LedgerState' = LedgerState /\ LedgerOwner' = LedgerOwner
      BY <1>3, CancelledLedger, SameContracts
      DEF Environment, NodeApply, NodeDecommission, ExternalCancel, chain
    <2> QED
      BY <1>1, <2>1 DEF LedgerStep, Ledger!ledgerVars
  <1> QED
    BY <1>2, <1>3

LEMMA StutterLedger == ASSUME UNCHANGED vars PROVE LedgerStep
  BY DEF vars, chain, control, results, LedgerStep, Ledger!ledgerVars, LedgerState,
         LedgerOwner, Outcome, Report, Settled, IsNode

LEMMA NextLedger == ASSUME IInv, [Next]_vars PROVE LedgerStep
  <1>1. ASSUME NEW h \in Handlers, Handle(h) PROVE LedgerStep
    BY <1>1, QuietActions, NameCreateLedger, CreateNodeLedger, CancelTxLedger, SaveLedger
    DEF Handle
  <1> QED
    BY <1>1, EnvironmentLedger, StutterLedger DEF Next, Terminated

LEMMA InitLedger == ASSUME Init PROVE Ledger!Init
  <1>1. \A id \in Ids : /\ LedgerState[id] \in {"free", "created"}
                        /\ LedgerOwner[id] = NoHandler
    BY DEF Init, LedgerState, LedgerOwner, Free
  <1>2. LedgerState \in [Ids -> {"free", "created"}]
    BY <1>1 DEF LedgerState
  <1>3. LedgerOwner = [id \in Ids |-> NoHandler]
    BY <1>1 DEF LedgerOwner
  <1>4. Outcome = [h \in Handlers |-> "running"] /\ Report = [h \in Handlers |-> {}]
    BY DEF Init, Outcome, Report, Settled
  <1> QED
    BY <1>2, <1>3, <1>4 DEF Ledger!Init

\* handle() implements ContractLedger: whatever fails, it cancels only node
\* contracts that this call created or was asked to delete, none once it has
\* settled, and a call that returns reported all the contracts it created and
\* cancelled all it was asked to delete.
THEOREM Implements == Spec => ImplementsLedger
  <1>1. Init => Ledger!Init
    BY InitLedger
  <1>2. IInv /\ [Next]_vars => LedgerStep
    BY NextLedger
  <1>3. IInv /\ [Next]_vars => [Ledger!Next]_(Ledger!ledgerVars)
    BY <1>2 DEF LedgerStep
  <1> QED
    BY <1>1, <1>3, Invariance, PTL DEF Spec, ImplementsLedger, Ledger!LedgerSpec
-----------------------------------------------------------------------------
(***************************************************************************)
(* The rollback inside deploy.                                             *)
(***************************************************************************)
\* The rollback gets through: its queries and its cancellation are answered,
\* and it has no name contract to look up first.
RollbackGetsThrough ==
    /\ Faults \cap {"query", "txUnknown", "cancel"} = {}
    /\ \A h \in Handlers : \A i \in 1..Count(h) : Batch[h][i].names = <<>>

\* What AccountInv says of a call going forward, of one that is in trouble.
UndoneInv(h) ==
    /\ mode[h] = "inner" => \A id \in Ids : Mine(h, id) =>
         FromChain(id) \in created[h] \/ id = cid[h][item[h]]
    /\ mode[h] = "outer" => \A id \in Ids : Mine(h, id) /\ Live(id) =>
         FromChain(id) \in created[h]

LEMMA ThrowUndone ==
    ASSUME IInv, NEW h \in Handlers, mode[h] = "forward", pc[h] # "rmbDeploy",
           Throw(h), created' = created, \A id \in Ids : Mine(h, id)' => Mine(h, id)
    PROVE  UndoneInv(h)'
  <1>1. mode'[h] = "outer"
    BY ThrowControl
  <1>2. \A id \in Ids : Mine(h, id)' => FromChain(id) \in created'[h]
    BY Here DEF AccountInv
  <1> QED
    BY <1>1, <1>2 DEF UndoneInv

LEMMA ForwardUndone ==
    ASSUME IInv, NEW h \in Handlers, mode'[h] = "forward" PROVE UndoneInv(h)'
  BY DEF UndoneInv

LEMMA GoesForward ==
    ASSUME IInv, NEW h \in Handlers,
           \/ NextName(h) \/ \E i : Loop(h, i)
           \/ \E p, i, n : Goto(h, p, i, n, "forward")
    PROVE  mode'[h] = "forward"
  BY DEF IInv, ControlInv, NextName, Loop, Goto

\* Going forward, a call throws with all its contracts reported.
LEMMA ForwardSteps ==
    ASSUME IInv, RollbackGetsThrough, NEW h \in Handlers,
           \/ Check(h) \/ NameQuery(h) \/ NameCreate(h) \/ CreateNode(h)
           \/ UpdateNode(h) \/ RmbUpdate(h) \/ PollReady(h) \/ PollThrow(h)
           \/ WaitDone(h) \/ SaveNetworks(h)
    PROVE  UndoneInv(h)'
  <1>1. /\ mode[h] = "forward" /\ pc[h] # "rmbDeploy"
        /\ created' = created
    BY Here DEF Check, NameQuery, NameCreate, CreateNode, UpdateNode, RmbUpdate,
       PollReady, PollThrow, WaitDone, SaveNetworks, Located, Undoing, Modes, results
  <1>2. CASE Throw(h) /\ UNCHANGED chain
    BY <1>1, <1>2, SameChain, ThrowUndone
  <1>3. CASE mode'[h] = "forward"
    BY <1>3, ForwardUndone
  <1>4. CASE Check(h)
    <2>1. CASE Goto(h, "threw", 1, 1, "outer")
      <3>1. Throw(h)
        BY <1>4, <2>1, IdleRollback, Here DEF Check, Located
      <3> QED
        BY <1>2, <1>4, <3>1 DEF Check
    <2> QED
      BY <1>3, <1>4, <2>1, GoesForward DEF Check
  <1>5. CASE NameCreate(h)
    <2>1. ~("txUnknown" \in Faults)
      BY DEF RollbackGetsThrough
    <2> QED
      BY <1>2, <1>3, <1>5, <2>1, GoesForward DEF NameCreate
  <1>6. CASE CreateNode(h)
    <2>1. ~("txUnknown" \in Faults)
      BY DEF RollbackGetsThrough
    <2> QED
      BY <1>2, <1>3, <1>6, <2>1, GoesForward DEF CreateNode
  <1>7. CASE PollReady(h)
    <2>1. mode' = mode
      BY <1>7 DEF PollReady, control
    <2> QED
      BY <1>1, <1>3, <2>1
  <1>8. CASE \/ NameQuery(h) \/ UpdateNode(h) \/ RmbUpdate(h) \/ PollThrow(h)
             \/ WaitDone(h) \/ SaveNetworks(h)
    BY <1>2, <1>3, <1>8, GoesForward
    DEF NameQuery, UpdateNode, RmbUpdate, PollThrow, WaitDone, SaveNetworks
  <1> QED
    BY <1>4, <1>5, <1>6, <1>7, <1>8

LEMMA RmbDeployUndone ==
    ASSUME IInv, NEW h \in Handlers, RmbDeploy(h) PROVE UndoneInv(h)'
  <1>1. CASE Loop(h, item[h] + 1)
    BY <1>1, GoesForward, ForwardUndone
  <1>2. CASE InnerRollback(h) /\ UNCHANGED created
    <2>1. /\ pc[h] = "rmbDeploy" /\ item[h] \in 1..Count(h)
          /\ mode[h] = "forward" /\ cid[h][item[h]] # 0
          /\ UNCHANGED chain /\ cid' = cid
      BY <1>2, Here DEF RmbDeploy, Located, InLoop, Undoing, Modes, MemoryInv
    <2>2. mode'[h] = "inner" /\ item'[h] = item[h]
      BY <1>2, <2>1 DEF InnerRollback, RollbackMatches, FromDeploy, Goto, IInv, ControlInv
    <2>3. \A id \in Ids : Mine(h, id)' => Mine(h, id)
      BY <2>1, SameChain
    <2>4. \A id \in Ids : Mine(h, id) => FromChain(id) \in created[h] \/ id = cid[h][item[h]]
      BY <2>1, Here DEF AccountInv
    <2> QED
      BY <1>2, <2>1, <2>2, <2>3, <2>4 DEF UndoneInv
  <1> QED
    BY <1>1, <1>2 DEF RmbDeploy

\* The rollback inside deploy ends when its contract is cancelled.
LEMMA CancelUndone ==
    ASSUME IInv, RollbackGetsThrough, NEW h \in Handlers, UndoneInv(h),
           Undo(h) \/ CancelGet(h) \/ CancelTx(h)
    PROVE  UndoneInv(h)'
  <1>1. /\ item[h] \in 1..Count(h) /\ name[h] \in Nat \ {0}
        /\ mode[h] \in {"forward", "inner"} /\ pc[h] # "rmbDeploy"
        /\ pc[h] = "undo" => name[h] <= Len(Batch[h][item[h]].names)
    BY Here DEF Undo, CancelGet, CancelTx, Located, InLoop, Modes
  <1>2. Len(Batch[h][item[h]].names) = 0 /\ ~("query" \in Faults)
        /\ ~("txUnknown" \in Faults) /\ ~("cancel" \in Faults)
    BY <1>1 DEF RollbackGetsThrough
  <1>3. ~MoreNames(h) /\ pc[h] \in {"cancelGet", "cancelTx"}
    BY <1>1, <1>2 DEF MoreNames, Item, Undo, CancelGet, CancelTx
  <1>0. PICK id \in Ids : id = CancelTarget(h)
    BY <1>3, CancelTargetFacts
  <1>4. /\ id # 0 /\ id = cid[h][item[h]] /\ cid' = cid
        /\ CancelGet(h) \/ CancelTx(h)
    BY <1>0, <1>3, CancelTargetFacts DEF Undo, CancelGet, CancelTx
  <1>5. \A j \in Ids : Mine(h, j)' => Mine(h, j)
    <2>1. CASE UNCHANGED chain
      BY <2>1, SameChain
    <2>2. CASE Live(id) /\ Cancelled(id)
      BY <1>4, <2>2 DEF Cancelled, IInv, ChainInv, Contract, Mine, IsNode
    <2> QED
      BY <1>0, <1>4, <2>1, <2>2 DEF CancelGet, CancelTx
  <1>6. \A j \in Ids : Live(j)' => Live(j)
    <2>1. CASE UNCHANGED chain
      BY <2>1, SameChain DEF Live
    <2>2. CASE Live(id) /\ Cancelled(id)
      BY <1>4, <2>2 DEF Cancelled, IInv, ChainInv, Live
    <2> QED
      BY <1>0, <1>4, <2>1, <2>2 DEF CancelGet, CancelTx
  <1>7. \/ Goto(h, "cancelTx", item[h], name[h], mode[h]) /\ UNCHANGED results
        \/ (AfterCancel(h) \/ (Throw(h) /\ UNCHANGED results)) /\ ~Live(id)'
    <2>1. CASE CancelGet(h)
      <3>1. UNCHANGED chain
        BY <2>1 DEF CancelGet
      <3>2. Live(id)' <=> Live(id)
        BY <3>1, SameChain DEF Live
      <3> QED
        BY <1>0, <1>2, <1>4, <2>1, <3>2 DEF CancelGet
    <2>2. CASE CancelTx(h)
      <3>1. CASE Live(id) /\ Cancelled(id)
        <4>1. contract'[id].state = "deleted"
          BY <1>4, <3>1 DEF Cancelled, IInv, ChainInv, Contract
        <4>2. ~Live(id)'
          BY <1>4, <4>1 DEF Live
        <4> QED
          BY <1>0, <1>2, <2>2, <3>1, <4>2 DEF CancelTx
      <3>2. CASE ~Live(id) /\ Throw(h) /\ UNCHANGED <<chain, results>>
        BY <1>6, <3>2
      <3> QED
        BY <1>0, <1>2, <2>2, <3>1, <3>2 DEF CancelTx
    <2> QED
      BY <1>4, <2>1, <2>2
  <1>8. CASE mode[h] = "forward"
    <2>1. CASE Throw(h) /\ UNCHANGED results
      BY <1>1, <1>5, <1>8, <2>1, ThrowUndone DEF results
    <2>2. CASE AfterCancel(h) \/ Goto(h, "cancelTx", item[h], name[h], mode[h])
      BY <1>3, <1>8, <2>2, GoesForward, ForwardUndone DEF AfterCancel
    <2> QED
      BY <1>7, <2>1, <2>2
  <1>9. CASE mode[h] = "inner"
    <2>1. \A j \in Ids : Mine(h, j)' => FromChain(j) \in created[h] \/ j = id
      BY <1>4, <1>5, <1>9 DEF UndoneInv
    <2>2. CASE Goto(h, "cancelTx", item[h], name[h], mode[h]) /\ UNCHANGED results
      <3>1. mode'[h] = "inner" /\ item'[h] = item[h] /\ created' = created
        BY <1>9, <2>2 DEF Goto, IInv, ControlInv, results
      <3>2. \A j \in Ids : Mine(h, j)' =>
              FromChain(j) \in created'[h] \/ j = cid'[h][item'[h]]
        BY <1>4, <2>1, <3>1
      <3>3. mode'[h] # "outer"
        BY <3>1
      <3> QED
        BY <3>2, <3>3 DEF UndoneInv
    <2>3. CASE (AfterCancel(h) \/ (Throw(h) /\ UNCHANGED results)) /\ ~Live(id)'
      <3>1. Throw(h) /\ created' = created
        BY <1>3, <1>9, <2>3 DEF AfterCancel, results
      <3>2. mode'[h] = "outer"
        BY <3>1, ThrowControl
      <3>3. \A j \in Ids : Mine(h, j)' /\ Live(j)' => FromChain(j) \in created'[h]
        BY <2>1, <2>3, <3>1
      <3> QED
        BY <3>2, <3>3 DEF UndoneInv
    <2> QED
      BY <1>7, <2>2, <2>3
  <1> QED
    BY <1>1, <1>8, <1>9

LEMMA OthersUndone ==
    ASSUME ChainInv, ChainInv', NEW h, Grows(h), NEW k \in Handlers, k # h, UndoneInv(k),
           /\ mode'[k] = mode[k] /\ item'[k] = item[k]
           /\ cid'[k] = cid[k] /\ created'[k] = created[k]
    PROVE  UndoneInv(k)'
  <1>1. nextId \in Nat /\ nextId' \in Nat /\ nextId' >= nextId
    BY LastExisting DEF ChainInv, Grows
  <1>2. ASSUME NEW id \in Ids, Mine(k, id)'
        PROVE  Mine(k, id) /\ (Live(id)' => Live(id))
    <2>1. id < nextId
      BY <1>1, <1>2 DEF Grows, Mine, Ids
    <2>2. Mine(k, id)
      BY <1>2, <2>1 DEF Grows, Mine, IsNode
    <2>3. contract[id].state # "free" /\ contract[id].state \in {"free", "created", "deleted"}
      BY <1>1, <2>1 DEF ChainInv, Contract, Ids
    <2>4. Live(id)' => Live(id)
      BY <2>1, <2>3 DEF Grows, Live
    <2> QED
      BY <2>2, <2>4
  <1> QED
    BY <1>2 DEF UndoneInv

\* Jumps of h keep the place of the other calls.
Apart(h) == \A k \in Handlers \ {h} : mode'[k] = mode[k] /\ item'[k] = item[k]

LEMMA JumpsApart ==
    ASSUME IInv, NEW h \in Handlers
    PROVE  /\ \A p, i, n, m : Goto(h, p, i, n, m) => Apart(h)
           /\ Throw(h) => Apart(h)
           /\ \A i : Loop(h, i) => Apart(h)
           /\ NextName(h) => Apart(h)
           /\ InnerRollback(h) => Apart(h)
           /\ pc[h] \in {"cancelGet", "cancelTx"} /\ AfterCancel(h) =>
                Apart(h) /\ created' = created
  <1>1. ASSUME NEW p, NEW i, NEW n, NEW m, Goto(h, p, i, n, m) PROVE Apart(h)
    BY <1>1 DEF Goto, Apart, IInv, ControlInv
  <1>2. /\ Throw(h) => Apart(h)
        /\ \A i : Loop(h, i) => Apart(h)
        /\ NextName(h) => Apart(h)
        /\ InnerRollback(h) => Apart(h)
    BY <1>1, IdleRollback, Here DEF Loop, NextName, InnerRollback
  <1>3. ASSUME pc[h] \in {"cancelGet", "cancelTx"}, AfterCancel(h)
        PROVE  Apart(h) /\ created' = created
    <2>1. mode[h] \in {"forward", "inner"}
      BY <1>3, Here DEF Located, Modes
    <2>2. CASE MoreNames(h)
      BY <1>1, <1>3, <2>2 DEF AfterCancel, results
    <2>3. CASE ~MoreNames(h) /\ mode[h] = "forward"
      BY <1>2, <1>3, <2>3 DEF AfterCancel
    <2>4. CASE ~MoreNames(h) /\ mode[h] = "inner"
      BY <1>2, <1>3, <2>4 DEF AfterCancel, results
    <2> QED
      BY <2>1, <2>2, <2>3, <2>4
  <1> QED
    BY <1>1, <1>2, <1>3

\* A step of h keeps what the other calls know.
LEMMA HandleFrame ==
    ASSUME IInv, NEW h \in Handlers, Handle(h)
    PROVE  /\ Grows(h)
           /\ \A k \in Handlers \ {h} :
                /\ mode'[k] = mode[k] /\ item'[k] = item[k]
                /\ cid'[k] = cid[k] /\ created'[k] = created[k]
  <1>1. Grows(h)
    <2>1. CASE UNCHANGED chain
      BY <2>1, SameChain
    <2>2. CASE NameCreate(h) /\ ~UNCHANGED chain
      <3>1. /\ Created(h, "name")
            /\ registry' = [registry EXCEPT ![GatewayName(h)] = nextId]
        BY <2>2 DEF NameCreate
      <3>2. GatewayName(h) \in Names
        BY <2>2, NameCreateInRange DEF NameCreate
      <3> QED
        BY <3>1, <3>2, CreatedGrows DEF IInv
    <2>3. CASE CreateNode(h) /\ ~UNCHANGED chain
      BY <2>3, CreatedGrows DEF CreateNode, IInv
    <2>4. CASE CancelTx(h) /\ ~UNCHANGED chain
      <3>1. Live(CancelTarget(h)) /\ Cancelled(CancelTarget(h))
        BY <2>4 DEF CancelTx
      <3> QED
        BY <3>1, CancelledGrows DEF Live, IInv
    <2> QED
      BY <2>1, <2>2, <2>3, <2>4
      DEF Handle, Check, NameQuery, RmbDeploy, UpdateNode, RmbUpdate, Undo, CancelGet,
          PollReady, PollThrow, WaitDone, SaveNetworks
  <1>2. \A k \in Handlers \ {h} : cid'[k] = cid[k]
    BY DEF Handle, Check, NameQuery, NameCreate, CreateNode, RmbDeploy, UpdateNode,
       RmbUpdate, Undo, CancelGet, CancelTx, PollReady, PollThrow, WaitDone,
       SaveNetworks, IInv, MemoryTypes
  <1>3. CASE \/ Check(h) \/ NameQuery(h) \/ NameCreate(h) \/ CreateNode(h)
             \/ UpdateNode(h) \/ RmbUpdate(h) \/ Undo(h) \/ PollThrow(h)
             \/ WaitDone(h) \/ SaveNetworks(h)
    <2>1. created' = created
      BY <1>3 DEF Check, NameQuery, NameCreate, CreateNode, UpdateNode, RmbUpdate, Undo,
         PollThrow, WaitDone, SaveNetworks, results
    <2>2. Apart(h)
      BY <1>3, JumpsApart DEF Check, NameQuery, NameCreate, CreateNode, UpdateNode,
         RmbUpdate, Undo, PollThrow, WaitDone, SaveNetworks
    <2> QED
      BY <1>1, <1>2, <2>1, <2>2 DEF Apart
  <1>4. CASE RmbDeploy(h)
    <2>1. \A k \in Handlers \ {h} : created'[k] = created[k]
      BY <1>4 DEF RmbDeploy, IInv, MemoryTypes
    <2>2. Apart(h)
      BY <1>4, JumpsApart DEF RmbDeploy
    <2> QED
      BY <1>1, <1>2, <2>1, <2>2 DEF Apart
  <1>5. CASE CancelGet(h) \/ CancelTx(h)
    <2>1. created' = created /\ Apart(h)
      BY <1>5, JumpsApart DEF CancelGet, CancelTx, results
    <2> QED
      BY <1>1, <1>2, <2>1 DEF Apart
  <1>6. CASE PollReady(h)
    <2>1. created' = created /\ mode' = mode /\ item' = item
      BY <1>6 DEF PollReady, results, control
    <2> QED
      BY <1>1, <1>2, <2>1
  <1> QED
    BY <1>3, <1>4, <1>5, <1>6 DEF Handle

AllUndone == \A k \in Handlers : UndoneInv(k)

LEMMA UndoneNext ==
    ASSUME RollbackGetsThrough, IInv, [Next]_vars, AllUndone PROVE AllUndone'
  <1>1. ChainInv /\ ChainInv'
    BY NextInv DEF IInv
  <1>2. ASSUME NEW h \in Handlers, Handle(h), NEW k \in Handlers PROVE UndoneInv(k)'
    <2>1. CASE k = h
      BY <1>2, <2>1, ForwardSteps, RmbDeployUndone, CancelUndone DEF Handle, AllUndone
    <2>2. CASE k # h
      BY <1>1, <1>2, <2>2, HandleFrame, OthersUndone DEF AllUndone
    <2> QED
      BY <2>1, <2>2
  <1>3. ASSUME (\E id \in Ids : Environment(id)) \/ UNCHANGED vars, NEW k \in Handlers
        PROVE  UndoneInv(k)'
    <2>1. mode' = mode /\ item' = item /\ cid' = cid /\ created' = created
      BY <1>3 DEF Environment, NodeApply, NodeDecommission, ExternalCancel, vars, control,
         results
    <2>2. Grows(NoHandler)
      BY <1>3, SameChain, CancelledGrows
      DEF Environment, NodeApply, NodeDecommission, ExternalCancel, vars, IInv
    <2> QED
      BY <1>1, <2>1, <2>2, OthersUndone, HandlerAssumption DEF AllUndone
  <1> QED
    BY <1>2, <1>3 DEF Next, Terminated, AllUndone

\* When the rollback inside deploy gets through, a call that threw has left no
\* contract of a deployment that did not reach its node.
THEOREM DeployUndone ==
    ASSUME RollbackGetsThrough PROVE Spec => []FailedDeployUndone
  <1>1. Init => AllUndone
    BY DEF Init, UndoneInv, AllUndone
  <1>2. IInv /\ AllUndone /\ [Next]_vars => AllUndone'
    BY UndoneNext
  <1>3. IInv /\ AllUndone => FailedDeployUndone
    <2> SUFFICES ASSUME IInv, NEW h \in Handlers, UndoneInv(h), pc[h] = "threw",
                        NEW id \in Ids, Owns(h, id)
                 PROVE  FromChain(id) \in created[h]
      BY DEF FailedDeployUndone, AllUndone
    <2>1. mode[h] = "outer"
      BY Here DEF Located
    <2>2. Mine(h, id) /\ Live(id)
      <3>1. contract[id].state # "free"
        BY DEF Owns, Live
      <3>2. id < nextId
        BY <3>1, LastExisting DEF IInv, ChainInv, Ids
      <3> QED
        BY <3>2 DEF Owns, Mine
    <2> QED
      BY <2>1, <2>2 DEF UndoneInv
  <1> QED
    BY <1>1, <1>2, <1>3, Invariance, PTL DEF Spec
=============================================================================
