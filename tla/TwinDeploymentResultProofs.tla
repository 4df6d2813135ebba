---------------------- MODULE TwinDeploymentResultProofs ----------------------
(***************************************************************************)
(* Proofs about what a call of TwinDeploymentHandler.handle that returned  *)
(* has achieved: its deployments are on their nodes, the names of its      *)
(* gateways are registered, those of the deleted gateways are free.  Each  *)
(* holds for the calls that share nothing with another call; what they     *)
(* must not share is the hypothesis of the theorem.                        *)
(***************************************************************************)
EXTENDS TwinDeploymentHandlerProofs

Finishing == {"wait", "save", "returned"}

\* The loop of handle is past item i.
Sent(h, i) == i < item[h] \/ pc[h] \in Finishing
-----------------------------------------------------------------------------
(***************************************************************************)
(* A step of a call that stays out of trouble.                             *)
(***************************************************************************)
LEMMA GotoGoes ==
    ASSUME IInv, NEW h \in Handlers, NEW p, NEW i, NEW n, NEW m, Goto(h, p, i, n, m)
    PROVE  pc'[h] = p /\ item'[h] = i /\ name'[h] = n /\ mode'[h] = m
  BY DEF Goto, IInv, ControlInv

LEMMA OutOfTrouble ==
    ASSUME IInv, NEW h \in Handlers, Handle(h), mode'[h] = "forward"
    PROVE  mode[h] = "forward" /\ ~Throw(h) /\ ~InnerRollback(h)
  <1>1. ~Throw(h)
    BY ThrowControl
  <1>2. ~InnerRollback(h)
    <2>1. \A p, i, n : ~Goto(h, p, i, n, "inner") /\ ~Goto(h, p, i, n, "outer")
      BY GotoGoes
    <2> QED
      BY <2>1, IdleRollback, Here DEF InnerRollback
  <1>3. mode[h] \in Modes
    BY DEF IInv, ControlInv
  <1>4. CASE mode[h] = "outer"
    <2>1. pc[h] = "threw"
      BY <1>4, Here DEF Located
    <2> QED
      BY <2>1 DEF Handle, Check, NameQuery, NameCreate, CreateNode, RmbDeploy, UpdateNode,
         RmbUpdate, Undo, CancelGet, CancelTx, PollReady, PollThrow, WaitDone, SaveNetworks
  <1>5. CASE mode[h] = "inner"
    <2>1. pc[h] \in Undoing
      BY <1>5, Here DEF Located
    <2>2. Undo(h) \/ CancelGet(h) \/ CancelTx(h)
      BY <2>1 DEF Undoing, Handle, Check, NameQuery, NameCreate, CreateNode, RmbDeploy,
         UpdateNode, RmbUpdate, PollReady, PollThrow, WaitDone, SaveNetworks
    <2>3. \A p, i, n : ~Goto(h, p, i, n, mode[h])
      BY <1>5 DEF Goto, IInv, ControlInv
    <2>4. ~AfterCancel(h)
      BY <1>1, <1>5, <2>3 DEF AfterCancel
    <2> QED
      BY <1>1, <2>2, <2>3, <2>4 DEF Undo, CancelGet, CancelTx
  <1> QED
    BY <1>1, <1>2, <1>3, <1>4, <1>5 DEF Modes

\* The other calls do not move, nor do they learn anything.
LEMMA OthersStay ==
    ASSUME IInv, NEW h \in Handlers, Handle(h), NEW k \in Handlers \ {h}
    PROVE  /\ pc'[k] = pc[k] /\ item'[k] = item[k] /\ name'[k] = name[k]
           /\ mode'[k] = mode[k] /\ target'[k] = target[k] /\ cid'[k] = cid[k]
           /\ ready'[k] = ready[k]
  <1> DEFINE Still == /\ pc'[k] = pc[k] /\ item'[k] = item[k] /\ name'[k] = name[k]
                      /\ mode'[k] = mode[k]
  <1>1. ASSUME NEW p, NEW i, NEW n, NEW m, Goto(h, p, i, n, m) PROVE Still
    BY <1>1 DEF Goto, IInv, ControlInv
  <1>2. /\ Throw(h) => Still
        /\ \A i : Loop(h, i) => Still
        /\ NextName(h) => Still
        /\ InnerRollback(h) => Still
    BY <1>1, IdleRollback, Here DEF Loop, NextName, InnerRollback
  <1>3. ASSUME pc[h] \in {"cancelGet", "cancelTx"}, AfterCancel(h) PROVE Still
    <2>1. mode[h] \in {"forward", "inner"}
      BY <1>3, Here DEF Located, Modes
    <2> QED
      BY <1>1, <1>2, <1>3, <2>1 DEF AfterCancel
  <1>4. control' = control => Still
    BY DEF control
  <1>5. Still
    <2> HIDE DEF Still
    <2> QED
      BY <1>1, <1>2, <1>3, <1>4
      DEF Handle, Check, NameQuery, NameCreate, CreateNode, RmbDeploy, UpdateNode,
          RmbUpdate, Undo, CancelGet, CancelTx, PollReady, PollThrow, WaitDone, SaveNetworks
  <1>6. target'[k] = target[k] /\ cid'[k] = cid[k] /\ ready'[k] = ready[k]
    BY DEF Handle, Check, NameQuery, NameCreate, CreateNode, RmbDeploy, UpdateNode,
       RmbUpdate, Undo, CancelGet, CancelTx, PollReady, PollThrow, WaitDone,
       SaveNetworks, IInv, MemoryTypes
  <1> QED
    BY <1>5, <1>6

\* Where a jump of the code puts the call.
LEMMA LoopGoes ==
    ASSUME IInv, NEW h \in Handlers, NEW i \in 1..(Count(h) + 1), Loop(h, i)
    PROVE  /\ item'[h] = i /\ name'[h] = 1
           /\ pc'[h] \in {"wait", "nameQuery", "createNode", "updateNode"} \cup Undoing
           /\ pc'[h] = "wait" <=> i = Count(h) + 1
           /\ i <= Count(h) =>
                /\ pc'[h] \in {"createNode", "updateNode"} => Batch[h][i].names = <<>>
                /\ i \in Awaited(h) <=> pc'[h] \notin Undoing
  <1>1. pc'[h] = LoopStep(h, i) /\ item'[h] = i /\ name'[h] = 1
    BY GotoGoes DEF Loop
  <1>2. CASE i = Count(h) + 1
    BY <1>1, <1>2, BatchFacts DEF LoopStep
  <1>3. CASE i <= Count(h)
    <2>1. i \in 1..Count(h) /\ ~(i > Count(h)) /\ i # Count(h) + 1
      BY <1>3, BatchFacts
    <2> QED
      BY <1>1, <1>3, <2>1, BatchFacts
      DEF LoopStep, UndoStep, Body, Undoing, Awaited, Operation
  <1> QED
    BY <1>2, <1>3, BatchFacts

\* Within handle, a call is on the same item, or at the start of an iteration.
LEMMA ItemStep ==
    ASSUME IInv, NEW h \in Handlers, Handle(h), mode'[h] = "forward", pc[h] \notin Finishing
    PROVE  \/ item'[h] = item[h] /\ pc'[h] \notin Finishing
           \/ /\ item'[h] \in 1..(Count(h) + 1) /\ Loop(h, item'[h])
              /\ \/ Check(h) /\ item'[h] = 1
                 \/ /\ pc[h] \in InLoop /\ item'[h] = item[h] + 1
                    /\ RmbDeploy(h) \/ RmbUpdate(h) \/ (pc[h] \in Undoing /\ ~MoreNames(h))
  <1> DEFINE Same == item'[h] = item[h] /\ pc'[h] \notin Finishing
             Looped == item'[h] \in 1..(Count(h) + 1) /\ Loop(h, item'[h])
  <1>1. mode[h] = "forward" /\ ~Throw(h) /\ ~InnerRollback(h)
    BY OutOfTrouble
  <1>2. ASSUME NEW p, NEW n, NEW m, Goto(h, p, item[h], n, m), p \notin Finishing PROVE Same
    BY <1>2, GotoGoes
  <1>3. ASSUME NextName(h) PROVE Same
    BY <1>2, <1>3 DEF NextName, Body, Finishing
  <1>4. ASSUME NEW i \in 1..(Count(h) + 1), Loop(h, i) PROVE Looped /\ item'[h] = i
    BY <1>4, LoopGoes
  <1>5. pc[h] \in InLoop => item[h] + 1 \in 1..(Count(h) + 1)
    BY Here, BatchFacts
  <1>6. ASSUME pc[h] \in {"cancelGet", "cancelTx"}, AfterCancel(h)
        PROVE  Same \/ (Looped /\ item'[h] = item[h] + 1 /\ ~MoreNames(h))
    <2>1. CASE MoreNames(h)
      <3>1. PICK p \in {"undo", "cancelGet"} : Goto(h, p, item[h], name[h] + 1, mode[h])
        BY <1>6, <2>1 DEF AfterCancel
      <3> QED
        BY <1>2, <3>1 DEF Finishing
    <2>2. CASE ~MoreNames(h)
      BY <1>1, <1>4, <1>5, <1>6, <2>2 DEF AfterCancel, InLoop
    <2> QED
      BY <2>1, <2>2
  <1>7. CASE Check(h)
    <2>1. ~Goto(h, "threw", 1, 1, "outer") /\ 1 \in 1..(Count(h) + 1)
      BY GotoGoes, BatchFacts
    <2> QED
      BY <1>4, <1>7, <2>1 DEF Check
  <1>8. CASE NameQuery(h) \/ NameCreate(h) \/ CreateNode(h) \/ UpdateNode(h) \/ Undo(h)
    BY <1>1, <1>2, <1>3, <1>8
    DEF NameQuery, NameCreate, CreateNode, UpdateNode, Undo, Finishing
  <1>9. CASE RmbDeploy(h) \/ RmbUpdate(h)
    BY <1>1, <1>4, <1>5, <1>9 DEF RmbDeploy, RmbUpdate, InLoop
  <1>10. CASE CancelGet(h) \/ CancelTx(h)
    <2>1. Same \/ (Looped /\ item'[h] = item[h] + 1 /\ ~MoreNames(h))
      BY <1>1, <1>2, <1>6, <1>10 DEF CancelGet, CancelTx, Finishing
    <2> QED
      BY <1>10, <2>1 DEF CancelGet, CancelTx, InLoop, Undoing
  <1> QED
    BY <1>7, <1>8, <1>9, <1>10
    DEF Handle, PollReady, PollThrow, WaitDone, SaveNetworks, Finishing

\* An item is only passed by sending it to its node, or by deleting it.
LEMMA Passed ==
    ASSUME IInv, NEW h \in Handlers, Handle(h), mode'[h] = "forward",
           NEW i \in 1..Count(h), Sent(h, i)', ~Sent(h, i)
    PROVE  /\ i = item[h] /\ pc[h] \in InLoop
           /\ RmbDeploy(h) \/ RmbUpdate(h) \/ (pc[h] \in Undoing /\ ~MoreNames(h))
  <1>1. item[h] \in Nat \ {0} /\ pc[h] \notin Finishing /\ ~(i < item[h]) /\ Count(h) \in Nat
    BY Here, BatchFacts DEF Sent
  <1>2. ~(item'[h] = item[h] /\ pc'[h] \notin Finishing)
    BY <1>1 DEF Sent
  <1>3. /\ item'[h] \in 1..(Count(h) + 1) /\ Loop(h, item'[h])
        /\ \/ Check(h) /\ item'[h] = 1
           \/ /\ pc[h] \in InLoop /\ item'[h] = item[h] + 1
              /\ RmbDeploy(h) \/ RmbUpdate(h) \/ (pc[h] \in Undoing /\ ~MoreNames(h))
    BY <1>1, <1>2, ItemStep
  <1>4. PICK j \in 1..(Count(h) + 1) : j = item'[h]
    BY <1>3
  <1>5. pc'[h] \in Finishing => j = Count(h) + 1
    BY <1>3, <1>4, LoopGoes DEF Finishing, Undoing
  <1>6. i < j
    BY <1>1, <1>4, <1>5 DEF Sent
  <1>7. pc[h] \in InLoop => item[h] \in 1..Count(h)
    BY Here
  <1> QED
    BY <1>1, <1>3, <1>4, <1>6, <1>7

LEMMA SentGrows ==
    ASSUME IInv, NEW h \in Handlers, Handle(h), mode'[h] = "forward",
           NEW i \in Awaited(h), Sent(h, i)', ~Sent(h, i)
    PROVE  /\ i = item[h]
           /\ RmbDeploy(h) \/ RmbUpdate(h)
           /\ Accept(cid[h][i], Batch[h][i].spec)
  <1>1. mode[h] = "forward" /\ ~Throw(h) /\ ~InnerRollback(h)
    BY OutOfTrouble
  <1>2. i \in 1..Count(h) /\ Operation(h, i) # "delete"
    BY DEF Awaited, Operation
  <1>3. i = item[h] /\ (RmbDeploy(h) \/ RmbUpdate(h))
    BY <1>1, <1>2, Passed, Here DEF Located
  <1> QED
    BY <1>1, <1>3 DEF RmbDeploy, RmbUpdate, Item

LEMMA SentStays ==
    ASSUME IInv, NEW k \in Handlers, Handle(k), NEW h \in Handlers,
           mode[h] = "forward", mode'[h] = "forward", NEW i \in Awaited(h), Sent(h, i)
    PROVE  Sent(h, i)'
  <1>1. CASE h # k
    BY <1>1, OthersStay DEF Sent
  <1>2. CASE h = k
    <2>1. ~Throw(h) /\ ~InnerRollback(h) /\ Handle(h)
      BY <1>2, OutOfTrouble
    <2>2. i \in 1..Count(h) /\ Count(h) \in Nat /\ item[h] \in Nat \ {0}
      BY BatchFacts, Here DEF Awaited
    <2>3. CASE pc[h] \in Finishing
      <3>1. PollReady(h) \/ WaitDone(h) \/ SaveNetworks(h)
        BY <2>1, <2>3 DEF Finishing, Handle, Check, NameQuery, NameCreate, CreateNode,
           RmbDeploy, UpdateNode, RmbUpdate, Undo, CancelGet, CancelTx, PollThrow
      <3>2. CASE PollReady(h)
        BY <2>3, <3>2 DEF PollReady, control, Sent
      <3>3. CASE WaitDone(h) \/ SaveNetworks(h)
        <4>1. \E j : Goto(h, SaveStep(h, j), j, 1, "forward")
          BY <2>1, <3>3 DEF WaitDone, SaveNetworks
        <4>2. pc'[h] \in Finishing
          BY <4>1, GotoGoes DEF SaveStep, Finishing
        <4> QED
          BY <4>2 DEF Sent
      <3> QED
        BY <3>1, <3>2, <3>3
    <2>4. CASE pc[h] \notin Finishing
      <3>1. i < item[h] /\ item[h] \in Nat \ {0} /\ item[h] <= Count(h) + 1
        BY <2>2, <2>4, Here DEF Sent, Located
      <3>2. \A p, n, m : Goto(h, p, item[h], n, m) => Sent(h, i)'
        BY <3>1, GotoGoes DEF Sent
      <3>3. item[h] <= Count(h) /\ Loop(h, item[h] + 1) => Sent(h, i)'
        BY <2>2, <3>1, LoopGoes DEF Sent
      <3>4. ~Check(h)
        BY <2>2, <3>1, Here DEF Check, Located
      <3>5. NextName(h) => Sent(h, i)'
        BY <3>2 DEF NextName
      <3>6. pc[h] \in InLoop => item[h] <= Count(h)
        BY <2>2, Here
      <3>7. ASSUME pc[h] \in {"cancelGet", "cancelTx"}, AfterCancel(h) PROVE Sent(h, i)'
        BY <1>2, <3>2, <3>3, <3>6, <3>7 DEF AfterCancel, InLoop
      <3> HIDE DEF Sent
      <3> QED
        BY <2>1, <2>4, <3>2, <3>3, <3>4, <3>5, <3>6, <3>7
        DEF Finishing, Handle, NameQuery, NameCreate, CreateNode, InLoop,
            RmbDeploy, UpdateNode, RmbUpdate, Undo, CancelGet, CancelTx, PollReady, PollThrow,
            WaitDone, SaveNetworks
    <2> QED
      BY <2>3, <2>4
  <1> QED
    BY <1>1, <1>2
-----------------------------------------------------------------------------
(***************************************************************************)
(* What a step of a call does to contracts, nodes and ids.                 *)
(***************************************************************************)
\* A node contract is only lost to a call that deletes it, or that rolls back
\* the deployment it is for.
LEMMA LostContract ==
    ASSUME IInv, NEW k \in Handlers, Handle(k), NEW id \in Ids, IsNode(id),
           contract[id].state = "created", contract'[id].state # "created"
    PROVE  /\ item[k] \in 1..Count(k) /\ id = cid[k][item[k]]
           /\ \/ mode[k] = "forward" /\ Operation(k, item[k]) = "delete"
              \/ mode[k] = "inner" /\ Operation(k, item[k]) = "deploy"
  <1>1. contract' # contract /\ ~UNCHANGED chain
    BY DEF chain
  <1>2. ~Created(k, "name") /\ ~Created(k, "node")
    <2>1. contract \in [Ids -> Contract]
      BY DEF IInv, ChainInv
    <2>2. ASSUME NEW kind, Created(k, kind) PROVE FALSE
      <3>1. contract'[id] = contract[id] \/ contract'[id].state = "created"
        BY <2>1, <2>2 DEF Created
      <3> QED
        BY <3>1
    <2> QED
      BY <2>2
  <1>3. CancelTx(k) /\ Live(CancelTarget(k)) /\ Cancelled(CancelTarget(k))
    BY <1>1, <1>2 DEF Handle, Check, NameQuery, NameCreate, CreateNode, RmbDeploy,
       UpdateNode, RmbUpdate, Undo, CancelGet, CancelTx, PollReady, PollThrow, WaitDone,
       SaveNetworks
  <1>4. PICK t \in Ids : t = CancelTarget(k)
    BY <1>3 DEF Live
  <1>5. id = t
    BY <1>1, <1>3, <1>4 DEF Cancelled, IInv, ChainInv
  <1>6. pc[k] = "cancelTx"
    BY <1>3 DEF CancelTx
  <1>7. ~MoreNames(k) /\ id = cid[k][item[k]] /\ item[k] \in 1..Count(k)
    BY <1>4, <1>5, <1>6, CancelTargetFacts DEF Ids
  <1> QED
    BY <1>6, <1>7, Here DEF Located, Undoing, Modes

LEMMA AskFacts ==
    ASSUME IInv, NEW k \in Handlers, RmbDeploy(k) \/ RmbUpdate(k)
    PROVE  item[k] \in Awaited(k) /\ cid[k][item[k]] \in Ids
  <1>1. /\ item[k] \in 1..Count(k) /\ cid[k][item[k]] \in Ids \cup {0}
        /\ \/ pc[k] = "rmbDeploy" /\ Operation(k, item[k]) = "deploy"
           \/ pc[k] = "rmbUpdate" /\ Operation(k, item[k]) = "update"
    BY Here DEF RmbDeploy, RmbUpdate, Located, InLoop
  <1>2. cid[k][item[k]] \in Ids
    BY <1>1, Here, BatchFacts DEF MemoryInv
  <1> QED
    BY <1>1, <1>2 DEF Awaited, Operation

LEMMA CidBelow ==
    ASSUME IInv, NEW h \in Handlers, NEW i \in 1..Count(h)
    PROVE  cid[h][i] \in Nat /\ cid[h][i] < nextId /\ nextId \in Nat
  <1>1. cid[h][i] \in Ids \cup {0} /\ nextId \in Nat \ {0} /\ nextId > Len(Existing)
    BY Here, LastExisting DEF IInv, ChainInv
  <1>2. CASE Operation(h, i) = "deploy"
    BY <1>1, <1>2, Here DEF MemoryInv, Mine, Ids
  <1>3. CASE Operation(h, i) # "deploy"
    <2>1. cid[h][i] \in 1..Len(Existing)
      BY <1>3, Here, BatchFacts DEF MemoryInv
    <2> QED
      BY <1>1, <2>1, LastExisting
  <1> QED
    BY <1>2, <1>3

\* A step of a call asks one node for one deployment of its batch, or none.
LEMMA NodeStep ==
    ASSUME IInv, NEW k \in Handlers, Handle(k), node' # node
    PROVE  /\ RmbDeploy(k) \/ RmbUpdate(k)
           /\ item[k] \in Awaited(k) /\ cid[k][item[k]] \in Ids
           /\ Accept(cid[k][item[k]], Batch[k][item[k]].spec)
  <1>1. (RmbDeploy(k) \/ RmbUpdate(k)) /\ Accept(cid[k][item[k]], Item(k).spec)
    BY DEF Handle, Check, NameQuery, NameCreate, CreateNode, RmbDeploy,
       UpdateNode, RmbUpdate, Undo, CancelGet, CancelTx, PollReady, PollThrow, WaitDone,
       SaveNetworks
  <1> QED
    BY <1>1, AskFacts DEF Item

\* A deployment gets the id of the contract that is created for it.
LEMMA CidStep ==
    ASSUME IInv, NEW k \in Handlers, Handle(k), cid' # cid
    PROVE  /\ item[k] \in 1..Count(k) /\ Operation(k, item[k]) = "deploy"
           /\ pc[k] = "createNode" /\ pc'[k] = "rmbDeploy" /\ item'[k] = item[k]
           /\ nextId \in Ids /\ contract'[nextId].state = "created"
           /\ cid' = [cid EXCEPT ![k][item[k]] = nextId]
           /\ nextId' = nextId + 1 /\ node' = node /\ ready' = ready
  <1>1. /\ CreateNode(k) /\ Created(k, "node") /\ UNCHANGED registry
        /\ cid' = [cid EXCEPT ![k][item[k]] = nextId]
        /\ Goto(k, "rmbDeploy", item[k], 1, "forward")
    BY DEF Handle, Check, NameQuery, NameCreate, CreateNode, RmbDeploy,
       UpdateNode, RmbUpdate, Undo, CancelGet, CancelTx, PollReady, PollThrow, WaitDone,
       SaveNetworks
  <1>2. pc[k] = "createNode" /\ node' = node /\ ready' = ready
    BY <1>1 DEF CreateNode
  <1>3. item[k] \in 1..Count(k) /\ Operation(k, item[k]) = "deploy"
    BY <1>2, Here DEF Located, InLoop
  <1>4. /\ nextId \in Ids /\ nextId' = nextId + 1
        /\ contract'[nextId] = [state |-> "created", kind |-> "node", by |-> k]
    BY <1>1, CreatedGrows DEF IInv
  <1>5. pc'[k] = "rmbDeploy" /\ item'[k] = item[k]
    BY <1>1, GotoGoes
  <1> QED
    BY <1>1, <1>2, <1>3, <1>4, <1>5

\* A workload counts as ready when its node says so.
LEMMA ReadyStep ==
    ASSUME IInv, NEW k \in Handlers, Handle(k), ready' # ready
    PROVE  /\ pc[k] = "wait" /\ pc' = pc /\ item' = item
           /\ node' = node /\ contract' = contract /\ cid' = cid
           /\ \E i \in Awaited(k) :
                /\ CheckWorkload(node[cid[k][i]], Batch[k][i].spec)
                /\ ready' = [ready EXCEPT ![k] = @ \cup {i}]
  <1>1. PollReady(k)
    BY DEF Handle, Check, NameQuery, NameCreate, CreateNode, RmbDeploy,
       UpdateNode, RmbUpdate, Undo, CancelGet, CancelTx, PollReady, PollThrow, WaitDone,
       SaveNetworks
  <1> QED
    BY <1>1 DEF PollReady, control, chain
-----------------------------------------------------------------------------
(***************************************************************************)
(* A call that returned has deployed.                                      *)
(***************************************************************************)
\* What a call updates is its own: no other call updates or deletes it, and
\* nobody cancels it from outside.  Two calls may delete one contract.
OwnContracts ==
    /\ "external" \notin Faults
    /\ \A h, k \in Handlers : h # k =>
         \A i \in 1..Count(h), j \in 1..Count(k) :
           Operation(h, i) = "update" => Batch[h][i].contract_id # Batch[k][j].contract_id

\* The content of an item's deployment before the call: nothing, for a new one.
Before(h, i) == IF Operation(h, i) = "update"
                THEN Existing[Batch[h][i].contract_id].spec ELSE NoSpec

\* An update that changes a deployment changes its version.
NewVersions ==
    \A h \in Handlers : \A i \in Awaited(h) :
      LET s == Before(h, i) IN
      s \in {NoSpec, Batch[h][i].spec} \/ Version[s] # Version[Batch[h][i].spec]

\* Nodes know nothing of contracts to come, and no two items of a batch have
\* one contract, unless both delete it.
OwnInv ==
    /\ \A id \in 1..Len(Existing) : contract[id].by = NoHandler
    /\ \A id \in Ids : id >= nextId => node[id] = Nothing
    /\ \A h \in Handlers : \A i \in Awaited(h), j \in 1..Count(h) :
         i # j /\ cid[h][i] # 0 => cid[h][i] # cid[h][j]

\* Item i of call h: its contract is there; its node has, and was asked for, the
\* content from before or the new one; only the new one once it was sent, and
\* has it when it counts as ready.
Reached(h, i) ==
    /\ cid[h][i] # 0 =>
         /\ contract[cid[h][i]].state = "created"
         /\ node[cid[h][i]].want \in {Before(h, i), Batch[h][i].spec}
         /\ node[cid[h][i]].cur \in {Before(h, i), Batch[h][i].spec}
    /\ Sent(h, i) => cid[h][i] # 0 /\ node[cid[h][i]].want = Batch[h][i].spec
    /\ i \in ready[h] =>
         /\ Sent(h, i)
         /\ node[cid[h][i]].cur = Batch[h][i].spec /\ node[cid[h][i]].state = "ok"

ReachedInv ==
    \A h \in Handlers : mode[h] = "forward" =>
      /\ \A i \in Awaited(h) : Reached(h, i)
      /\ pc[h] \in {"save", "returned"} => Awaited(h) \subseteq ready[h]

\* No other item, of this call or another one, has the contract of an item that
\* is deployed or updated.
LEMMA CidsApart ==
    ASSUME OwnContracts, IInv, OwnInv, NEW h \in Handlers, NEW k \in Handlers,
           NEW i \in Awaited(h), NEW j \in 1..Count(k), cid[h][i] # 0,
           h # k \/ i # j
    PROVE  cid[h][i] # cid[k][j]
  <1>1. CASE h = k
    BY <1>1 DEF OwnInv
  <1>2. CASE h # k
    <2>1. i \in 1..Count(h) /\ Operation(h, i) \in {"deploy", "update"}
      BY BatchFacts DEF Awaited, Operation
    <2>2. MemoryInv(h) /\ MemoryInv(k)
      BY Here
    <2>3. CASE Operation(h, i) = "update" /\ Operation(k, j) # "deploy"
      BY <1>2, <2>1, <2>2, <2>3 DEF OwnContracts, MemoryInv
    <2>4. CASE Operation(h, i) = "deploy" /\ Operation(k, j) # "deploy"
      <3>1. contract[cid[h][i]].by = h
        BY <2>1, <2>2, <2>4 DEF MemoryInv, Mine
      <3>2. contract[cid[k][j]].by = NoHandler
        BY <2>2, <2>4, BatchFacts DEF MemoryInv, OwnInv
      <3> QED
        BY <3>1, <3>2, HandlerAssumption
    <2>5. CASE Operation(k, j) = "deploy"
      <3>1. cid[k][j] # 0 => contract[cid[k][j]].by = k
        BY <2>2, <2>5 DEF MemoryInv, Mine
      <3>2. contract[cid[h][i]].by \in {h, NoHandler}
        BY <2>1, <2>2, BatchFacts DEF MemoryInv, Mine, OwnInv
      <3> QED
        BY <1>2, <3>1, <3>2, HandlerAssumption
    <2> QED
      BY <2>1, <2>3, <2>4, <2>5
  <1> QED
    BY <1>1, <1>2

\* The invariant holds of the ids and the nodes of a step.
LEMMA OwnHandle ==
    ASSUME IInv, OwnInv, NEW k \in Handlers, Handle(k) PROVE OwnInv'
  <1>1. Grows(k) /\ IInv'
    BY HandleFrame, HandleInv
  <1>2. \A id \in 1..Len(Existing) : id \in Ids /\ id < nextId
    BY LastExisting DEF IInv, ChainInv, Ids
  <1>3. \A id \in 1..Len(Existing) : contract'[id].by = NoHandler
    BY <1>1, <1>2 DEF Grows, OwnInv
  <1>4. nextId' >= nextId /\ nextId \in Nat /\ nextId' \in Nat
    BY <1>1, LastExisting DEF Grows, IInv, ChainInv
  <1>5. ASSUME NEW id \in Ids, id >= nextId' PROVE node'[id] = Nothing
    <2>1. id >= nextId /\ node[id] = Nothing
      BY <1>4, <1>5 DEF OwnInv, Ids
    <2>2. CASE node' # node
      <3>1. /\ item[k] \in Awaited(k) /\ cid[k][item[k]] \in Ids
            /\ Accept(cid[k][item[k]], Batch[k][item[k]].spec)
        BY <2>2, NodeStep
      <3>2. cid[k][item[k]] < nextId
        <4>1. item[k] \in 1..Count(k)
          BY <3>1 DEF Awaited
        <4> QED
          BY <4>1, CidBelow
      <3> QED
        BY <1>4, <2>1, <3>1, <3>2 DEF Accept, IInv, Ids
    <2> QED
      BY <2>1, <2>2
  <1>6. ASSUME NEW h \in Handlers, NEW i \in Awaited(h), NEW j \in 1..Count(h),
               i # j, cid'[h][i] # 0
        PROVE  cid'[h][i] # cid'[h][j]
    <2>1. CASE cid' = cid
      BY <1>6, <2>1 DEF OwnInv
    <2>2. CASE cid' # cid
      <3>1. /\ item[k] \in 1..Count(k) /\ nextId \in Ids
            /\ cid' = [cid EXCEPT ![k][item[k]] = nextId]
        BY <2>2, CidStep
      <3>2. ASSUME NEW l \in 1..Count(h)
            PROVE  /\ cid[h][l] \in Nat /\ cid[h][l] < nextId
                   /\ cid'[h][l] = IF h = k /\ l = item[k] THEN nextId ELSE cid[h][l]
        <4>1. cid[h][l] < nextId /\ cid[h][l] \in Nat
          BY CidBelow
        <4>2. cid \in [Handlers -> Seq(Ids \cup {0})] /\ Len(cid[h]) = Count(h)
              /\ Len(cid[k]) = Count(k)
          BY Here DEF IInv, MemoryTypes, MemoryInv
        <4> QED
          BY <3>1, <4>1, <4>2
      <3>3. i \in 1..Count(h)
        BY DEF Awaited
      <3>4. cid[h][i] # 0 => cid[h][i] # cid[h][j]
        BY <1>6 DEF OwnInv
      <3> QED
        BY <1>4, <1>6, <3>2, <3>3, <3>4
    <2> QED
      BY <2>1, <2>2
  <1> QED
    BY <1>3, <1>5, <1>6 DEF OwnInv

\* What was reached of an item stays, whatever step a call takes that leaves
\* the item its contract, and leaves its own call out of trouble.
LEMMA ReachedKept ==
    ASSUME OwnContracts, NewVersions, IInv, OwnInv, ReachedInv,
           NEW k \in Handlers, Handle(k), NEW h \in Handlers, mode[h] = "forward",
           mode'[h] = "forward", NEW i \in Awaited(h), cid'[h][i] = cid[h][i]
    PROVE  Reached(h, i)'
  <1> DEFINE id == cid[h][i]
             s == Batch[h][i].spec
  <1>1. Reached(h, i) /\ i \in 1..Count(h) /\ Operation(h, i) # "delete" /\ id \in Ids \cup {0}
    BY Here DEF ReachedInv, Awaited, Operation
  <1>2. ASSUME id # 0 PROVE contract'[id].state = "created"
    <2>1. contract[id].state = "created" /\ id \in Ids /\ IsNode(id)
      <3>1. IsNode(id)
        <4>1. MemoryInv(h) /\ ChainInv
          BY Here DEF IInv
        <4>2. CASE Operation(h, i) = "deploy"
          BY <1>1, <1>2, <4>1, <4>2 DEF MemoryInv, Mine, IsNode
        <4>3. CASE Operation(h, i) = "update"
          <5>1. id = Batch[h][i].contract_id
            BY <1>1, <4>1, <4>3 DEF MemoryInv
          <5>2. id \in 1..Len(Existing) /\ Existing[id].kind = "node"
            BY <1>1, <4>3, <5>1, BatchFacts
          <5> QED
            BY <1>1, <1>2, <4>1, <5>2, LastExisting DEF ChainInv, IsNode
        <4>4. Operation(h, i) \in {"deploy", "update"}
          BY <1>1, BatchFacts
        <4> QED
          BY <4>2, <4>3, <4>4
      <3> QED
        BY <1>1, <1>2, <3>1 DEF Reached
    <2>2. ASSUME contract'[id].state # "created" PROVE FALSE
      <3>1. /\ item[k] \in 1..Count(k) /\ id = cid[k][item[k]]
            /\ \/ mode[k] = "forward" /\ Operation(k, item[k]) = "delete"
               \/ mode[k] = "inner" /\ Operation(k, item[k]) = "deploy"
        BY <2>1, <2>2, LostContract
      <3>2. h = k /\ i = item[k]
        BY <1>2, <3>1, CidsApart
      <3> QED
        BY <1>1, <3>1, <3>2
    <2> QED
      BY <2>2
  <1>3. \/ node'[id] = node[id]
        \/ /\ h = k /\ i = item[k] /\ id \in Ids
           /\ node'[id] = [node[id] EXCEPT !.want = s]
    <2>1. CASE node' # node
      <3>1. /\ item[k] \in Awaited(k) /\ cid[k][item[k]] \in Ids
            /\ Accept(cid[k][item[k]], Batch[k][item[k]].spec)
        BY <2>1, NodeStep
      <3>2. CASE id = cid[k][item[k]]
        <4>1. id # 0 /\ item[k] \in 1..Count(k)
          BY <3>1, <3>2 DEF Awaited, Ids
        <4>2. h = k /\ i = item[k]
          BY <3>2, <4>1, CidsApart
        <4> QED
          BY <3>1, <4>2 DEF Accept, IInv
      <3>3. CASE id # cid[k][item[k]]
        BY <3>1, <3>3 DEF Accept, IInv
      <3> QED
        BY <3>2, <3>3
    <2> QED
      BY <2>1
  <1>4. id # 0 => /\ node'[id].want \in {Before(h, i), s}
                  /\ node'[id].cur = node[id].cur /\ node'[id].state = node[id].state
                  /\ node[id].want = s => node'[id].want = s
    <2>1. id # 0 => node[id] \in NodeState
      BY <1>1 DEF IInv
    <2> QED
      BY <1>1, <1>3, <2>1 DEF NodeState, Reached
  <1>5. Sent(h, i)' => id # 0 /\ node'[id].want = s
    <2>1. CASE Sent(h, i)
      BY <1>1, <1>4, <2>1 DEF Reached
    <2>2. CASE ~Sent(h, i) /\ Sent(h, i)'
      <3>1. h = k
        BY <2>2, OthersStay DEF Sent
      <3>2. i = item[h] /\ (RmbDeploy(h) \/ RmbUpdate(h)) /\ Accept(id, s)
        BY <2>2, <3>1, SentGrows
      <3>3. id \in Ids
        BY <3>2, AskFacts
      <3> QED
        BY <3>2, <3>3 DEF Accept, IInv, NodeState, Ids
    <2> QED
      BY <2>1, <2>2
  <1>6. i \in ready'[h] =>
          /\ Sent(h, i)'
          /\ node'[id].cur = s /\ node'[id].state = "ok"
    <2> SUFFICES ASSUME i \in ready'[h]
                 PROVE  Sent(h, i)' /\ node'[id].cur = s /\ node'[id].state = "ok"
      OBVIOUS
    <2>1. CASE i \in ready[h]
      <3>1. Sent(h, i) /\ id # 0 /\ node[id].cur = s /\ node[id].state = "ok"
        BY <1>1, <2>1 DEF Reached
      <3>2. Sent(h, i)'
        BY <3>1, SentStays
      <3> QED
        BY <1>4, <3>1, <3>2
    <2>2. CASE i \notin ready[h]
      <3>1. PICK j \in Awaited(k) :
               /\ CheckWorkload(node[cid[k][j]], Batch[k][j].spec)
               /\ ready' = [ready EXCEPT ![k] = @ \cup {j}]
        BY <2>2, ReadyStep
      <3>2. k = h /\ j = i
        BY <2>2, <3>1 DEF IInv, MemoryTypes
      <3>3. ready' # ready
        BY <2>2
      <3>4. pc[h] = "wait" /\ pc' = pc /\ item' = item /\ node' = node
        BY <3>2, <3>3, ReadyStep
      <3>5. Sent(h, i) /\ Sent(h, i)'
        BY <3>4 DEF Sent, Finishing
      <3>6. node[id].state = "ok" /\ node[id].cur # NoSpec /\ Version[node[id].cur] = Version[s]
        BY <3>1, <3>2 DEF CheckWorkload
      <3>7. node[id].cur \in {Before(h, i), s}
        BY <1>1, <3>5 DEF Reached
      <3>8. node[id].cur = s
        BY <3>6, <3>7 DEF NewVersions
      <3> QED
        BY <3>4, <3>5, <3>6, <3>8
    <2> QED
      BY <2>1, <2>2
  <1>7. id # 0 => node'[id].cur \in {Before(h, i), s}
    BY <1>1, <1>4 DEF Reached
  <1> QED
    BY <1>2, <1>4, <1>5, <1>6, <1>7 DEF Reached

\* A call comes to saving its networks by waiting for all its deployments.
LEMMA EndStep ==
    ASSUME IInv, NEW h \in Handlers, Handle(h), pc'[h] \in {"save", "returned"}
    PROVE  WaitDone(h) \/ SaveNetworks(h)
  <1>1. ~Throw(h)
    BY ThrowControl
  <1>2. \A p, i, n, m : Goto(h, p, i, n, m) => p \in {"save", "returned"}
    BY GotoGoes
  <1>3. /\ \A i \in 1..(Count(h) + 1) : ~Loop(h, i)
        /\ ~NextName(h)
    BY <1>2, LoopGoes DEF Undoing, NextName, Body
  <1>4. ~InnerRollback(h)
    BY <1>1, <1>2, IdleRollback, Here DEF InnerRollback, UndoStep
  <1>5. pc[h] \in InLoop => item[h] + 1 \in 1..(Count(h) + 1)
    BY Here, BatchFacts
  <1>6. ASSUME pc[h] \in {"cancelGet", "cancelTx"} PROVE ~AfterCancel(h)
    <2>1. mode[h] \in {"forward", "inner"} /\ pc[h] \in InLoop
      BY <1>6, Here DEF Located, Modes, InLoop
    <2>2. ~Goto(h, IF name[h] < Len(Item(h).names) THEN "undo" ELSE "cancelGet",
                item[h], name[h] + 1, mode[h])
      BY <1>2
    <2>3. ~Loop(h, item[h] + 1)
      BY <1>3, <1>5, <2>1
    <2> QED
      BY <1>1, <2>1, <2>2, <2>3 DEF AfterCancel
  <1>7. ~PollReady(h)
    BY DEF PollReady, control
  <1>8. 1 \in 1..(Count(h) + 1)
    BY BatchFacts
  <1> QED
    BY <1>1, <1>2, <1>3, <1>4, <1>5, <1>6, <1>7, <1>8
    DEF Handle, Check, NameQuery, NameCreate, CreateNode, RmbDeploy, UpdateNode, RmbUpdate,
        Undo, CancelGet, CancelTx, PollThrow, InLoop

LEMMA ReachedHandle ==
    ASSUME OwnContracts, NewVersions, IInv, OwnInv, ReachedInv, NEW k \in Handlers, Handle(k)
    PROVE  ReachedInv'
  <1> SUFFICES ASSUME NEW h \in Handlers, mode'[h] = "forward"
               PROVE  /\ \A i \in Awaited(h) : Reached(h, i)'
                      /\ pc'[h] \in {"save", "returned"} => Awaited(h) \subseteq ready'[h]
    BY DEF ReachedInv, Awaited
  <1>1. mode[h] = "forward"
    BY OutOfTrouble, OthersStay
  <1>2. ASSUME NEW i \in Awaited(h) PROVE Reached(h, i)'
    <2>1. CASE cid'[h][i] = cid[h][i]
      BY <1>1, <2>1, ReachedKept
    <2>2. CASE cid'[h][i] # cid[h][i]
      <3>1. /\ item[k] \in 1..Count(k) /\ Operation(k, item[k]) = "deploy"
            /\ pc[k] = "createNode" /\ pc'[k] = "rmbDeploy" /\ item'[k] = item[k]
            /\ nextId \in Ids /\ contract'[nextId].state = "created"
            /\ cid' = [cid EXCEPT ![k][item[k]] = nextId]
            /\ node' = node /\ ready' = ready
        BY <2>2, CidStep
      <3>2. h = k /\ i = item[h] /\ cid'[h][i] = nextId
        <4>1. h = k
          BY <2>2, OthersStay
        <4>2. cid[h] \in Seq(Ids \cup {0}) /\ Len(cid[h]) = Count(h) /\ i \in 1..Count(h)
          BY Here DEF IInv, MemoryTypes, MemoryInv, Awaited
        <4> QED
          BY <2>2, <3>1, <4>1, <4>2 DEF IInv, MemoryTypes
      <3>3. item[h] \in Nat
        BY Here
      <3>4. ~Sent(h, i) /\ ~Sent(h, i)'
        BY <3>1, <3>2, <3>3 DEF Sent, Finishing
      <3>5. i \notin ready'[h]
        BY <1>1, <3>1, <3>4 DEF ReachedInv, Reached
      <3>6. node[nextId] = Nothing /\ Before(h, i) = NoSpec
        BY <3>1, <3>2, LastExisting DEF OwnInv, Before, IInv, ChainInv
      <3> QED
        BY <3>1, <3>2, <3>4, <3>5, <3>6 DEF Reached, Nothing
    <2> QED
      BY <2>1, <2>2
  <1>3. ASSUME pc'[h] \in {"save", "returned"} PROVE Awaited(h) \subseteq ready'[h]
    <2>1. CASE h # k
      BY <1>1, <1>3, <2>1, OthersStay DEF ReachedInv
    <2>2. CASE h = k
      <3>1. WaitDone(h) \/ SaveNetworks(h)
        BY <1>3, <2>2, EndStep
      <3> QED
        BY <1>1, <3>1 DEF WaitDone, SaveNetworks, ReachedInv
    <2> QED
      BY <2>1, <2>2
  <1> QED
    BY <1>2, <1>3

\* The nodes work, and nobody cancels from outside.
LEMMA ReachedEnvironment ==
    ASSUME OwnContracts, IInv, OwnInv, ReachedInv,
           (\E id \in Ids : Environment(id)) \/ UNCHANGED vars
    PROVE  OwnInv' /\ ReachedInv'
  <1>1. /\ contract' = contract /\ nextId' = nextId /\ cid' = cid /\ ready' = ready
        /\ pc' = pc /\ item' = item /\ mode' = mode
    BY DEF OwnContracts, Environment, NodeApply, NodeDecommission, ExternalCancel, vars,
       chain, control
  <1>2. \/ node' = node
        \/ \E id \in Ids : \/ /\ node[id].want \notin {NoSpec, node[id].cur}
                              /\ \E st \in {"ok", "error"} : node' =
                                   [node EXCEPT ![id].cur = node[id].want, ![id].state = st]
                           \/ contract[id].state = "deleted" /\
                                node' = [node EXCEPT ![id] = [Nothing EXCEPT !.state = "deleted"]]
    BY DEF OwnContracts, Environment, NodeApply, NodeDecommission, ExternalCancel, vars
  <1>3. node \in [Ids -> NodeState] /\ nextId \in Nat
    BY LastExisting DEF IInv, ChainInv
  <1>4. ASSUME NEW id \in Ids
        PROVE  \/ node'[id] = node[id]
               \/ /\ node[id].want \notin {NoSpec, node[id].cur}
                  /\ node'[id].want = node[id].want /\ node'[id].cur = node[id].want
               \/ contract[id].state = "deleted"
    <2>1. node[id] \in NodeState
      BY <1>3
    <2>2. ASSUME NEW j \in Ids, node[j].want \notin {NoSpec, node[j].cur},
                 NEW st \in {"ok", "error"},
                 node' = [node EXCEPT ![j].cur = node[j].want, ![j].state = st]
          PROVE  \/ node'[id] = node[id]
                 \/ /\ node[id].want \notin {NoSpec, node[id].cur}
                    /\ node'[id].want = node[id].want /\ node'[id].cur = node[id].want
      <3>1. node' = [node EXCEPT ![j] = [node[j] EXCEPT !.cur = node[j].want, !.state = st]]
        BY <2>2
      <3> QED
        BY <1>3, <2>1, <2>2, <3>1 DEF NodeState
    <2>3. ASSUME NEW j \in Ids, contract[j].state = "deleted",
                 node' = [node EXCEPT ![j] = [Nothing EXCEPT !.state = "deleted"]]
          PROVE  node'[id] = node[id] \/ contract[id].state = "deleted"
      BY <1>3, <2>3
    <2> QED
      BY <1>2, <2>2, <2>3
  <1>5. OwnInv'
    <2>1. ASSUME NEW id \in Ids, id >= nextId PROVE node'[id] = Nothing
      <3>1. node[id] = Nothing /\ contract[id].state = "free"
        BY <2>1 DEF OwnInv, IInv, ChainInv
      <3> QED
        BY <1>4, <3>1 DEF Nothing
    <2> QED
      BY <1>1, <2>1 DEF OwnInv
  <1>6. ASSUME NEW h \in Handlers, mode[h] = "forward", NEW i \in Awaited(h)
        PROVE  Reached(h, i)'
    <2> DEFINE id == cid[h][i]
    <2>1. Reached(h, i) /\ id \in Ids \cup {0}
      BY <1>6, Here DEF ReachedInv, Awaited
    <2>2. CASE id = 0
      BY <1>1, <2>1, <2>2 DEF Reached, Sent
    <2>3. CASE id # 0
      <3>1. id \in Ids /\ contract[id].state # "deleted"
        BY <2>1, <2>3 DEF Reached
      <3> QED
        BY <1>1, <1>4, <2>1, <2>3, <3>1 DEF Reached, Sent
    <2> QED
      BY <2>2, <2>3
  <1> QED
    BY <1>1, <1>5, <1>6 DEF ReachedInv

LEMMA ReachedNext ==
    ASSUME OwnContracts, NewVersions, IInv, OwnInv, ReachedInv, [Next]_vars
    PROVE  OwnInv' /\ ReachedInv'
  BY OwnHandle, ReachedHandle, ReachedEnvironment DEF Next, Terminated

LEMMA ReachedInit == ASSUME Init PROVE OwnInv /\ ReachedInv
  <1>1. ASSUME NEW h \in Handlers, NEW i \in 1..Count(h)
        PROVE  /\ cid[h][i] = Batch[h][i].contract_id
               /\ i \in Awaited(h) => (cid[h][i] # 0 <=> Operation(h, i) = "update")
               /\ Operation(h, i) = "update" =>
                    /\ cid[h][i] \in 1..Len(Existing) /\ cid[h][i] \in Ids
                    /\ Existing[cid[h][i]].kind = "node"
    BY BatchFacts DEF Init, Count, Awaited, Operation
  <1>2. ASSUME NEW h \in Handlers, NEW i \in Awaited(h), NEW j \in 1..Count(h),
               i # j, cid[h][i] # 0
        PROVE  cid[h][i] # cid[h][j]
    <2>1. i \in 1..Count(h) /\ Operation(h, i) = "update"
      BY <1>1, <1>2 DEF Awaited
    <2> QED
      BY <1>1, <1>2, <2>1, BatchAssumption DEF Operation, Count
  <1>3. /\ \A id \in 1..Len(Existing) : id \in Ids /\ contract[id].by = NoHandler
        /\ \A id \in Ids : id >= nextId => node[id] = Nothing
    BY LastExisting DEF Init, Ids
  <1>4. ASSUME NEW h \in Handlers, NEW i \in Awaited(h) PROVE Reached(h, i)
    <2>1. i \in 1..Count(h) /\ ~Sent(h, i) /\ ready[h] = {}
      BY BatchFacts DEF Init, Sent, Finishing, Awaited
    <2>2. ASSUME cid[h][i] # 0
          PROVE  /\ contract[cid[h][i]].state = "created"
                 /\ node[cid[h][i]].want = Before(h, i)
                 /\ node[cid[h][i]].cur = Before(h, i)
      <3>1. PICK id \in Ids : /\ id = cid[h][i] /\ id = Batch[h][i].contract_id
                              /\ id <= Len(Existing) /\ Existing[id].kind = "node"
                              /\ Operation(h, i) = "update"
        BY <1>1, <2>1, <2>2
      <3>2. /\ contract[id].state = "created"
            /\ node[id].want = Existing[id].spec /\ node[id].cur = Existing[id].spec
        BY <3>1 DEF Init
      <3> QED
        BY <3>1, <3>2 DEF Before
    <2> QED
      BY <2>1, <2>2 DEF Reached
  <1>5. \A h \in Handlers : pc[h] = "check"
    BY DEF Init
  <1> QED
    BY <1>2, <1>3, <1>4, <1>5 DEF OwnInv, ReachedInv

\* When handle() returns, every deployment of its batch is on the chain and its
\* node runs the content that was sent: if no other call updates or deletes the
\* contracts it updates, nobody cancels from outside, and an update that changes
\* a deployment has another version than what was there.
THEOREM SuccessDeployed ==
    ASSUME OwnContracts, NewVersions PROVE Spec => []SuccessMeansDeployed
  <1>1. Init => OwnInv /\ ReachedInv
    BY ReachedInit
  <1>2. IInv /\ OwnInv /\ ReachedInv /\ [Next]_vars => OwnInv' /\ ReachedInv'
    BY ReachedNext
  <1>3. IInv /\ ReachedInv => SuccessMeansDeployed
    <2> SUFFICES ASSUME IInv, ReachedInv, NEW h \in Handlers, pc[h] = "returned",
                        NEW i \in Awaited(h)
                 PROVE  /\ Live(cid[h][i])
                        /\ node[cid[h][i]].cur = Batch[h][i].spec
                        /\ node[cid[h][i]].state = "ok"
      BY DEF SuccessMeansDeployed
    <2>1. mode[h] = "forward"
      BY Here DEF Located, Undoing, Modes
    <2>2. Reached(h, i) /\ i \in ready[h] /\ cid[h][i] \in Ids \cup {0}
      BY <2>1, Here DEF ReachedInv, Awaited
    <2> QED
      BY <2>2 DEF Reached, Live
  <1> QED
    BY <1>1, <1>2, <1>3, Invariance, PTL DEF Spec
-----------------------------------------------------------------------------
(***************************************************************************)
(* What a step of a call does to the registry of names.                    *)
(***************************************************************************)
NamesOf(h, i) == {Batch[h][i].names[n] : n \in 1..Len(Batch[h][i].names)}

\* A name contract is there as long as its name is registered, is of one name,
\* and a call that is about to cancel one got it for the name at hand.
RegistryInv ==
    /\ \A n \in Names : registry[n] # 0 => contract[registry[n]].state = "created"
    /\ \A n, m \in Names : registry[n] = registry[m] /\ registry[n] # 0 => n = m
    /\ \A h \in Handlers : pc[h] \in {"cancelGet", "cancelTx"} /\ MoreNames(h) =>
         \A n \in Names : registry[n] = target[h] /\ target[h] # 0 => n = GatewayName(h)

\* The gateway at hand is one of the item at hand.
LEMMA GatewayFacts ==
    ASSUME IInv, NEW h \in Handlers, pc[h] \in InLoop, MoreNames(h)
    PROVE  /\ item[h] \in 1..Count(h)
           /\ GatewayName(h) \in Names /\ GatewayName(h) \in NamesOf(h, item[h])
  <1>1. /\ item[h] \in 1..Count(h) /\ Item(h).names = Batch[h][item[h]].names
        /\ Item(h).names \in Seq(Names) /\ name[h] \in Nat \ {0}
        /\ Len(Item(h).names) \in Nat
    BY NamesHere
  <1>2. name[h] \in 1..Len(Item(h).names)
    BY <1>1 DEF MoreNames
  <1> QED
    BY <1>1, <1>2 DEF GatewayName, NamesOf

\* A name is registered for an item that is deployed or updated, and freed for
\* one that is deleted or rolled back.
LEMMA RegistryStep ==
    ASSUME IInv, RegistryInv, NEW k \in Handlers, Handle(k)
    PROVE  \/ registry' = registry /\ contract' = contract
           \/ registry' = registry /\ CreateNode(k) /\ Created(k, "node")
           \/ /\ NameCreate(k) /\ Created(k, "name")
              /\ item[k] \in Awaited(k)
              /\ GatewayName(k) \in Names \cap NamesOf(k, item[k])
              /\ registry[GatewayName(k)] = 0
              /\ registry' = [registry EXCEPT ![GatewayName(k)] = nextId]
           \/ /\ CancelTx(k) /\ Cancelled(CancelTarget(k)) /\ CancelTarget(k) \in Ids
              /\ item[k] \in 1..Count(k)
              /\ IF MoreNames(k)
                 THEN /\ GatewayName(k) \in Names \cap NamesOf(k, item[k])
                      /\ registry' = [n \in Names |->
                           IF n = GatewayName(k) /\ registry[n] = target[k]
                           THEN 0 ELSE registry[n]]
                 ELSE registry' = registry
  <1>1. registry \in [Names -> Ids \cup {0}]
    BY DEF IInv, ChainInv
  <1>2. CASE UNCHANGED chain
    BY <1>2 DEF chain
  <1>3. CASE CreateNode(k) /\ ~UNCHANGED chain
    BY <1>3 DEF CreateNode
  <1>4. CASE NameCreate(k) /\ ~UNCHANGED chain
    <2>1. pc[k] = "nameCreate" /\ pc[k] \in InLoop /\ MoreNames(k)
          /\ item[k] \in Awaited(k)
      BY <1>4, Here, NamesHere DEF NameCreate, InLoop, Located, MoreNames, Item, Awaited, Operation
    <2>2. GatewayName(k) \in Names \cap NamesOf(k, item[k])
      BY <2>1, GatewayFacts
    <2> QED
      BY <1>4, <2>1, <2>2 DEF NameCreate
  <1>5. CASE CancelTx(k) /\ ~UNCHANGED chain
    <2>1. Live(CancelTarget(k)) /\ Cancelled(CancelTarget(k)) /\ pc[k] = "cancelTx"
      BY <1>5 DEF CancelTx
    <2>2. PICK t \in Ids : t = CancelTarget(k)
      BY <2>1 DEF Live
    <2>3. item[k] \in 1..Count(k) /\ (~MoreNames(k) => IsNode(t))
      BY <2>1, <2>2, CancelTargetFacts
    <2>4. registry' = [n \in Names |-> IF registry[n] = t THEN 0 ELSE registry[n]]
      BY <2>1, <2>2 DEF Cancelled
    <2>5. CASE MoreNames(k)
      <3>1. GatewayName(k) \in Names \cap NamesOf(k, item[k])
        BY <2>1, <2>5, GatewayFacts DEF InLoop
      <3>2. t = target[k] /\ t # 0
        BY <2>2, <2>5 DEF CancelTarget, Ids
      <3>3. \A n \in Names : registry[n] = t => n = GatewayName(k)
        BY <2>1, <2>5, <3>2 DEF RegistryInv
      <3> QED
        BY <1>5, <2>1, <2>2, <2>3, <2>4, <2>5, <3>1, <3>2, <3>3
    <2>6. CASE ~MoreNames(k)
      <3>1. \A n \in Names : registry[n] # t
        BY <2>3, <2>6 DEF IInv, ChainInv, IsNode, Ids
      <3>2. registry' = registry
        BY <1>1, <2>4, <3>1
      <3> QED
        BY <1>5, <2>1, <2>2, <2>3, <2>6, <3>2
    <2> QED
      BY <2>5, <2>6
  <1> QED
    BY <1>2, <1>3, <1>4, <1>5
    DEF Handle, Check, NameQuery, RmbDeploy, UpdateNode, RmbUpdate, Undo, CancelGet,
        PollReady, PollThrow, WaitDone, SaveNetworks

\* A call comes to cancel a name contract by looking it up.
LEMMA LookedUp ==
    ASSUME IInv, NEW k \in Handlers, Handle(k), pc'[k] \in {"cancelGet", "cancelTx"},
           MoreNames(k)'
    PROVE  /\ item'[k] = item[k] /\ name'[k] = name[k] /\ UNCHANGED chain
           /\ MoreNames(k) /\ GatewayName(k)' = GatewayName(k)
           /\ \/ pc[k] = "undo" /\ target'[k] = registry[GatewayName(k)]
              \/ pc[k] = "cancelGet" /\ target'[k] = target[k]
  <1>1. name'[k] <= Len(Batch[k][item'[k]].names)
    BY DEF MoreNames, Item
  <1>2. ~Throw(k)
    BY ThrowControl
  <1>3. \A p, i, n, m : Goto(k, p, i, n, m) =>
          p \in {"cancelGet", "cancelTx"} /\ n <= Len(Batch[k][i].names)
    BY <1>1, GotoGoes
  <1>4. ASSUME NEW i \in 1..Count(k), NEW m, Goto(k, UndoStep(k, i), i, 1, m) PROVE FALSE
    <2>1. UndoStep(k, i) = "cancelGet" /\ 1 <= Len(Batch[k][i].names)
      BY <1>3, <1>4 DEF UndoStep
    <2> QED
      BY <2>1, BatchFacts, EmptySeq DEF UndoStep
  <1>5. ASSUME NEW i \in 1..(Count(k) + 1), Loop(k, i) PROVE FALSE
    <2>1. LoopStep(k, i) = "cancelGet"
      BY <1>3, <1>5 DEF Loop, LoopStep, Body, UndoStep
    <2>2. i \in 1..Count(k) /\ LoopStep(k, i) = UndoStep(k, i)
      BY <2>1, BatchFacts DEF LoopStep, Body
    <2> QED
      BY <1>4, <1>5, <2>2 DEF Loop
  <1>6. ~NextName(k)
    BY <1>3 DEF NextName, Body
  <1>7. pc[k] \in InLoop => item[k] + 1 \in 1..(Count(k) + 1) /\ item[k] \in 1..Count(k)
    BY Here, BatchFacts
  <1>8. pc[k] \in InLoop => ~InnerRollback(k)
    BY <1>2, <1>4, <1>7, IdleRollback, Here DEF InnerRollback
  <1>9. ASSUME pc[k] \in {"cancelGet", "cancelTx"}, AfterCancel(k) PROVE FALSE
    <2>1. mode[k] \in {"forward", "inner"} /\ pc[k] \in InLoop
      BY <1>9, Here DEF Located, Modes, InLoop
    <2>2. CASE MoreNames(k)
      <3>1. PICK p : /\ Goto(k, p, item[k], name[k] + 1, mode[k])
                     /\ p = IF name[k] < Len(Item(k).names) THEN "undo" ELSE "cancelGet"
        BY <1>9, <2>2 DEF AfterCancel
      <3>2. p = "cancelGet" /\ name[k] + 1 <= Len(Item(k).names)
        BY <1>3, <3>1 DEF Item
      <3>3. Len(Item(k).names) \in Nat /\ name[k] \in Nat
        BY <2>1, NamesHere
      <3> QED
        BY <3>1, <3>2, <3>3
    <2>3. CASE ~MoreNames(k)
      BY <1>2, <1>5, <1>7, <1>9, <2>1, <2>3 DEF AfterCancel
    <2> QED
      BY <2>2, <2>3
  <1>10. CASE Undo(k)
    <2>1. Goto(k, "cancelGet", item[k], name[k], mode[k])
          /\ target' = [target EXCEPT ![k] = registry[GatewayName(k)]] /\ UNCHANGED chain
          /\ pc[k] = "undo"
      BY <1>2, <1>10 DEF Undo
    <2>2. item'[k] = item[k] /\ name'[k] = name[k] /\ target'[k] = registry[GatewayName(k)]
      BY <2>1, GotoGoes DEF IInv, MemoryTypes
    <2> QED
      BY <2>1, <2>2 DEF MoreNames, Item, GatewayName
  <1>11. CASE CancelGet(k)
    <2>1. Goto(k, "cancelTx", item[k], name[k], mode[k])
          /\ target' = target /\ UNCHANGED chain /\ pc[k] = "cancelGet"
      BY <1>2, <1>9, <1>11 DEF CancelGet
    <2>2. item'[k] = item[k] /\ name'[k] = name[k] /\ target'[k] = target[k]
      BY <2>1, GotoGoes
    <2> QED
      BY <2>1, <2>2 DEF MoreNames, Item, GatewayName
  <1>12. ~Check(k) /\ ~NameQuery(k) /\ ~NameCreate(k) /\ ~CreateNode(k) /\ ~UpdateNode(k)
    <2>1. 1 \in 1..(Count(k) + 1)
      BY BatchFacts
    <2> QED
      BY <1>2, <1>3, <1>5, <1>6, <2>1 DEF Check, NameQuery, NameCreate, CreateNode, UpdateNode
  <1>13. ~RmbDeploy(k) /\ ~RmbUpdate(k) /\ ~CancelTx(k)
    BY <1>2, <1>5, <1>7, <1>8, <1>9 DEF RmbDeploy, RmbUpdate, CancelTx, InLoop
  <1>14. ~PollReady(k) /\ ~PollThrow(k) /\ ~WaitDone(k) /\ ~SaveNetworks(k)
    <2>1. \A i : SaveStep(k, i) \in {"save", "returned"}
      BY DEF SaveStep
    <2> QED
      BY <1>2, <1>3, <2>1 DEF PollReady, PollThrow, WaitDone, SaveNetworks, control
  <1> QED
    BY <1>10, <1>11, <1>12, <1>13, <1>14 DEF Handle

\* Any cancellation frees the names of the contract it cancels.
LEMMA CancelledRegistry ==
    ASSUME IInv, RegistryInv, NEW t \in Ids, Cancelled(t)
    PROVE  /\ \A n \in Names : /\ registry'[n] \in {0, registry[n]}
                               /\ registry'[n] # 0 => contract'[registry'[n]].state = "created"
           /\ \A n, m \in Names : registry'[n] = registry'[m] /\ registry'[n] # 0 => n = m
  <1>1. /\ registry \in [Names -> Ids \cup {0}] /\ contract \in [Ids -> Contract]
        /\ registry' = [n \in Names |-> IF registry[n] = t THEN 0 ELSE registry[n]]
        /\ contract' = [contract EXCEPT ![t].state = "deleted"]
    BY DEF Cancelled, IInv, ChainInv
  <1>2. \A n \in Names : registry'[n] = IF registry[n] = t THEN 0 ELSE registry[n]
    BY <1>1
  <1>3. \A id \in Ids : id # t => contract'[id] = contract[id]
    BY <1>1
  <1> QED
    BY <1>1, <1>2, <1>3 DEF RegistryInv

LEMMA RegistryHandle ==
    ASSUME IInv, RegistryInv, NEW k \in Handlers, Handle(k) PROVE RegistryInv'
  <1> DEFINE Backed == \A n \in Names :
               registry'[n] # 0 => contract'[registry'[n]].state = "created"
             OneName == \A n, m \in Names : registry'[n] = registry'[m] /\ registry'[n] # 0 => n = m
             Fresh == \A n \in Names : registry'[n] \in {0, registry[n], nextId}
  <1>1. /\ registry \in [Names -> Ids \cup {0}] /\ nextId \in Nat \ {0}
        /\ \A n \in Names : registry[n] # 0 => registry[n] < nextId
    BY LastExisting DEF IInv, ChainInv
  <1>2. registry' = registry /\ contract' = contract => Backed /\ OneName /\ Fresh
    BY DEF RegistryInv
  <1>3. ASSUME NEW kind \in {"name", "node"}, Created(k, kind),
               \/ registry' = registry
               \/ \E g \in Names : registry' = [registry EXCEPT ![g] = nextId]
        PROVE  Backed /\ OneName /\ Fresh
    <2>1. /\ contract'[nextId].state = "created"
          /\ \A id \in Ids \ {nextId} : contract'[id] = contract[id]
      <3>1. nextId \in Ids /\ contract \in [Ids -> Contract]
        BY <1>3, LastExisting DEF Created, IInv, ChainInv, Ids
      <3> QED
        BY <1>3, <3>1 DEF Created
    <2>2. PICK g : /\ \A n \in Names : registry'[n] =
                        IF n = g THEN nextId ELSE registry[n]
                   /\ g \in Names \/ \A n \in Names : n # g
      <3>1. CASE registry' = registry
        <4>1. PICK g : g \notin Names
          BY NoSetContainsEverything
        <4> QED
          BY <3>1, <4>1
      <3>2. CASE \E g \in Names : registry' = [registry EXCEPT ![g] = nextId]
        BY <1>1, <3>2
      <3> QED
        BY <1>3, <3>1, <3>2
    <2>3. Backed
      BY <1>1, <2>1, <2>2 DEF RegistryInv
    <2>4. OneName
      BY <1>1, <2>2 DEF RegistryInv, Ids
    <2> QED
      BY <2>2, <2>3, <2>4
  <1>4. ASSUME CancelTx(k), Cancelled(CancelTarget(k)), CancelTarget(k) \in Ids
        PROVE  Backed /\ OneName /\ Fresh
    <2>1. PICK t \in Ids : t = CancelTarget(k)
      BY <1>4
    <2> QED
      BY <1>4, <2>1, CancelledRegistry
  <1>5. Backed /\ OneName /\ Fresh
    <2> HIDE DEF Backed, OneName, Fresh
    <2> QED
      BY <1>2, <1>3, <1>4, RegistryStep
  <1>6. ASSUME NEW h \in Handlers, pc'[h] \in {"cancelGet", "cancelTx"}, MoreNames(h)',
               NEW n \in Names, registry'[n] = target'[h], target'[h] # 0
        PROVE  n = GatewayName(h)'
    <2>1. CASE h = k
      <3>1. /\ registry' = registry /\ GatewayName(h)' = GatewayName(h) /\ MoreNames(h)
            /\ \/ pc[h] = "undo" /\ target'[h] = registry[GatewayName(h)]
               \/ pc[h] = "cancelGet" /\ target'[h] = target[h]
        BY <1>6, <2>1, LookedUp DEF chain
      <3>2. GatewayName(h) \in Names
        BY <3>1, GatewayFacts DEF InLoop
      <3> QED
        BY <1>6, <3>1, <3>2 DEF RegistryInv
    <2>2. CASE h # k
      <3>1. /\ pc[h] = pc'[h] /\ MoreNames(h) /\ GatewayName(h)' = GatewayName(h)
            /\ target'[h] = target[h]
        <4>1. /\ pc[h] = pc'[h] /\ item'[h] = item[h] /\ name'[h] = name[h]
              /\ target'[h] = target[h]
          BY <2>2, OthersStay
        <4> QED
          BY <1>6, <4>1 DEF MoreNames, GatewayName, Item
      <3>2. target[h] < nextId /\ target[h] \in Nat
        BY <1>6, <3>1, Here DEF MemoryInv, IInv, MemoryTypes, Ids
      <3>3. registry[n] = target[h]
        BY <1>1, <1>5, <1>6, <3>1, <3>2
      <3> QED
        BY <1>6, <3>1, <3>3 DEF RegistryInv
    <2> QED
      BY <2>1, <2>2
  <1> QED
    BY <1>5, <1>6 DEF RegistryInv

LEMMA RegistryEnvironment ==
    ASSUME IInv, RegistryInv, (\E id \in Ids : Environment(id)) \/ UNCHANGED vars
    PROVE  RegistryInv' /\ \A n \in Names : registry'[n] \in {0, registry[n]}
  <1>1. pc' = pc /\ item' = item /\ name' = name /\ target' = target
    BY DEF Environment, NodeApply, NodeDecommission, ExternalCancel, vars, control
  <1>2. \/ contract' = contract /\ registry' = registry
        \/ \E t \in Ids : Cancelled(t)
    BY DEF Environment, NodeApply, NodeDecommission, ExternalCancel, vars, chain
  <1>3. /\ \A n \in Names : /\ registry'[n] \in {0, registry[n]}
                            /\ registry'[n] # 0 => contract'[registry'[n]].state = "created"
        /\ \A n, m \in Names : registry'[n] = registry'[m] /\ registry'[n] # 0 => n = m
    BY <1>2, CancelledRegistry DEF RegistryInv
  <1>4. \A h \in Handlers : (MoreNames(h)' <=> MoreNames(h)) /\ GatewayName(h)' = GatewayName(h)
    BY <1>1 DEF MoreNames, GatewayName, Item
  <1> QED
    BY <1>1, <1>3, <1>4 DEF RegistryInv

LEMMA RegistryInit == ASSUME Init PROVE RegistryInv
  <1>1. ASSUME NEW n \in Names, registry[n] # 0
        PROVE  registry[n] \in 1..Len(Existing) /\ registry[n] \in Ids
               /\ Existing[registry[n]].kind = "name" /\ n \in Existing[registry[n]].names
    BY <1>1, LastExisting DEF Init, Ids
  <1>2. \A n \in Names : registry[n] # 0 => contract[registry[n]].state = "created"
    BY <1>1, LastExisting DEF Init
  <1>3. \A n, m \in Names : registry[n] = registry[m] /\ registry[n] # 0 => n = m
    BY <1>1, NameAssumption
  <1>4. \A h \in Handlers : pc[h] = "check"
    BY DEF Init
  <1> QED
    BY <1>2, <1>3, <1>4 DEF RegistryInv
-----------------------------------------------------------------------------
(***************************************************************************)
(* Names of gateways.                                                      *)
(***************************************************************************)
\* Calls share no names, and a call deploys or updates no gateway of a name
\* that it deletes.
OwnNames ==
    \A h, k \in Handlers : \A i \in 1..Count(h), j \in 1..Count(k) :
      (h # k \/ (i \in Awaited(h) /\ j \notin Awaited(k))) =>
        NamesOf(h, i) \cap NamesOf(k, j) = {}

\* The name contract of gateway n of item i was checked.
Delivering == {"createNode", "rmbDeploy", "updateNode", "rmbUpdate"}
Checked(h, i, n) == Sent(h, i) \/ (i = item[h] /\ (pc[h] \in Delivering \/ n < name[h]))

BackedInv == \A h \in Handlers : mode[h] = "forward" =>
    \A i \in Awaited(h) : \A n \in 1..Len(Batch[h][i].names) :
        Checked(h, i, n) => registry[Batch[h][i].names[n]] # 0

\* The name contract of gateway n of item i was cancelled.
Freed(h, i, n) == Sent(h, i) \/ (i = item[h] /\ n < name[h])

ReleasedInv == \A h \in Handlers : mode[h] = "forward" =>
    /\ \A i \in 1..Count(h) \ Awaited(h) : \A n \in 1..Len(Batch[h][i].names) :
         Freed(h, i, n) => registry[Batch[h][i].names[n]] = 0
    /\ pc[h] \in {"cancelGet", "cancelTx"} /\ MoreNames(h) =>
         registry[GatewayName(h)] \in {0, target[h]}

\* While a call is not in trouble, no step registers a name it deletes, nor
\* frees one it deploys.
LEMMA NamesApart ==
    ASSUME OwnNames, IInv, RegistryInv, NEW k \in Handlers, Handle(k),
           NEW h \in Handlers, mode[h] = "forward", NEW i \in 1..Count(h),
           NEW g \in NamesOf(h, i), g \in Names
    PROVE  IF i \in Awaited(h) THEN registry[g] # 0 => registry'[g] # 0
                               ELSE registry'[g] \in {0, registry[g]}
  <1>1. /\ registry \in [Names -> Ids \cup {0}] /\ nextId # 0
    BY DEF IInv, ChainInv
  <1>2. CASE registry' = registry
    BY <1>2
  <1>3. CASE /\ item[k] \in Awaited(k)
             /\ GatewayName(k) \in Names \cap NamesOf(k, item[k])
             /\ registry' = [registry EXCEPT ![GatewayName(k)] = nextId]
    <2>1. i \notin Awaited(h) => g # GatewayName(k)
      BY <1>3 DEF OwnNames, Awaited
    <2> QED
      BY <1>1, <1>3, <2>1
  <1>4. CASE /\ CancelTx(k) /\ MoreNames(k) /\ item[k] \in 1..Count(k)
             /\ GatewayName(k) \in Names \cap NamesOf(k, item[k])
             /\ registry' = [n \in Names |->
                  IF n = GatewayName(k) /\ registry[n] = target[k] THEN 0 ELSE registry[n]]
    <2>1. h = k => item[k] \notin Awaited(k)
      BY <1>4, Here DEF CancelTx, Located, Undoing, Awaited, Operation
    <2>2. i \in Awaited(h) => g # GatewayName(k)
      BY <1>4, <2>1 DEF OwnNames
    <2> QED
      BY <1>4, <2>2
  <1> QED
    BY <1>2, <1>3, <1>4, RegistryStep

LEMMA NamesInRange ==
    ASSUME NEW h \in Handlers, NEW i \in 1..Count(h), NEW n \in 1..Len(Batch[h][i].names)
    PROVE  Batch[h][i].names[n] \in Names /\ Batch[h][i].names[n] \in NamesOf(h, i)
  <1>1. Batch[h][i].names \in Seq(Names)
    BY BatchFacts
  <1> QED
    BY <1>1 DEF NamesOf

\* A name counts as checked when it is found registered, or is registered.
LEMMA CheckedGrows ==
    ASSUME IInv, RegistryInv, NEW h \in Handlers, Handle(h), mode'[h] = "forward",
           NEW i \in Awaited(h), NEW n \in 1..Len(Batch[h][i].names),
           Checked(h, i, n)', ~Checked(h, i, n)
    PROVE  registry'[Batch[h][i].names[n]] # 0
  <1>1. mode[h] = "forward" /\ ~Throw(h) /\ ~InnerRollback(h)
    BY OutOfTrouble
  <1>2. i \in 1..Count(h) /\ Count(h) \in Nat /\ Len(Batch[h][i].names) \in Nat
        /\ Operation(h, i) # "delete"
    BY BatchFacts DEF Awaited, Operation
  <1>3. pc[h] \notin Finishing /\ item[h] \in Nat \ {0} /\ name[h] \in Nat \ {0}
    BY Here DEF Checked, Sent
  <1>4. ~Sent(h, i)'
    <2> SUFFICES ASSUME Sent(h, i)' PROVE FALSE
      OBVIOUS
    <2>1. i = item[h] /\ (RmbDeploy(h) \/ RmbUpdate(h))
      BY SentGrows DEF Checked
    <2> QED
      BY <2>1 DEF Checked, RmbDeploy, RmbUpdate, Delivering
  <1>5. i = item'[h] /\ (pc'[h] \in Delivering \/ n < name'[h])
    BY <1>4 DEF Checked
  <1>6. ~(item'[h] \in 1..(Count(h) + 1) /\ Loop(h, item'[h]))
    <2> SUFFICES ASSUME i \in 1..(Count(h) + 1), Loop(h, i) PROVE FALSE
      BY <1>5
    <2>1. name'[h] = 1 /\ i <= Count(h)
          /\ (pc'[h] \in {"createNode", "updateNode"} => Batch[h][i].names = <<>>)
          /\ pc'[h] \in {"wait", "nameQuery", "createNode", "updateNode"} \cup Undoing
      BY <1>2, LoopGoes
    <2>2. pc'[h] \notin Delivering
      BY <1>2, <2>1 DEF Delivering, Undoing
    <2> QED
      BY <1>2, <1>5, <2>1, <2>2
  <1>7. item[h] = i /\ pc[h] \notin Delivering /\ ~(n < name[h])
    BY <1>3, <1>5, <1>6, ItemStep DEF Checked
  <1>8. pc[h] \notin Undoing /\ ~Check(h)
    <2>1. pc[h] \notin Undoing
      BY <1>1, <1>2, <1>7, Here DEF Located
    <2>2. ASSUME Check(h) PROVE FALSE
      <3>1. 1 \in 1..(Count(h) + 1) /\ ~Goto(h, "threw", 1, 1, "outer")
        BY <1>2, GotoGoes
      <3>2. Loop(h, 1) /\ item'[h] = 1
        BY <2>2, <3>1, LoopGoes DEF Check
      <3> QED
        BY <1>6, <3>1, <3>2
    <2> QED
      BY <2>1, <2>2
  <1>9. NameQuery(h) \/ NameCreate(h)
    BY <1>3, <1>7, <1>8
    DEF Finishing, Delivering, Undoing, Handle, CreateNode, RmbDeploy, UpdateNode, RmbUpdate,
        Undo, CancelGet, CancelTx, PollReady, PollThrow, WaitDone, SaveNetworks
  <1>10. GatewayName(h) = Batch[h][i].names[name[h]]
    BY <1>7 DEF GatewayName, Item
  <1>11. NextName(h)
    <2> SUFFICES ASSUME Goto(h, "nameCreate", item[h], name[h], "forward") PROVE FALSE
      BY <1>1, <1>9 DEF NameQuery, NameCreate
    <2> QED
      BY <1>5, <1>7, GotoGoes DEF Delivering
  <1>12. n = name[h]
    <2>1. CASE name[h] < Len(Item(h).names)
      <3>1. pc'[h] = "nameQuery" /\ name'[h] = name[h] + 1
        BY <1>11, <2>1, GotoGoes DEF NextName
      <3> QED
        BY <1>2, <1>3, <1>5, <1>7, <3>1 DEF Delivering
    <2>2. CASE ~(name[h] < Len(Item(h).names))
      BY <1>2, <1>3, <1>7, <2>2 DEF Item
    <2> QED
      BY <2>1, <2>2
  <1>13. CASE NameQuery(h)
    <2>1. ~Goto(h, "nameCreate", item[h], name[h], "forward")
      BY <1>5, <1>7, GotoGoes DEF Delivering
    <2> QED
      BY <1>1, <1>10, <1>12, <1>13, <2>1 DEF NameQuery, chain
  <1>14. CASE NameCreate(h)
    <2>1. registry' = [registry EXCEPT ![GatewayName(h)] = nextId]
      BY <1>1, <1>14 DEF NameCreate
    <2>2. nextId # 0 /\ registry \in [Names -> Ids \cup {0}]
      BY DEF IInv, ChainInv
    <2> QED
      BY <1>2, <1>10, <1>12, <2>1, <2>2, NamesInRange
  <1> QED
    BY <1>9, <1>13, <1>14

LEMMA BackedHandle ==
    ASSUME OwnNames, IInv, RegistryInv, BackedInv, NEW k \in Handlers, Handle(k)
    PROVE  BackedInv'
  <1> SUFFICES ASSUME NEW h \in Handlers, mode'[h] = "forward", NEW i \in Awaited(h),
                      NEW n \in 1..Len(Batch[h][i].names), Checked(h, i, n)'
               PROVE  registry'[Batch[h][i].names[n]] # 0
    BY DEF BackedInv, Awaited
  <1>1. mode[h] = "forward"
    BY OutOfTrouble, OthersStay
  <1>2. CASE Checked(h, i, n)
    <2>1. i \in 1..Count(h) /\ registry[Batch[h][i].names[n]] # 0
      BY <1>1, <1>2 DEF BackedInv, Awaited
    <2> QED
      BY <1>1, <2>1, NamesApart, NamesInRange
  <1>3. CASE ~Checked(h, i, n)
    <2>1. h = k
      BY <1>3, OthersStay DEF Checked, Sent
    <2> QED
      BY <1>3, <2>1, CheckedGrows
  <1> QED
    BY <1>2, <1>3

\* A call that returned has checked every name.
LEMMA BackedEnvironment ==
    ASSUME "external" \notin Faults, IInv, BackedInv,
           (\E id \in Ids : Environment(id)) \/ UNCHANGED vars
    PROVE  BackedInv'
  <1>1. registry' = registry /\ pc' = pc /\ item' = item /\ name' = name /\ mode' = mode
    BY DEF Environment, NodeApply, NodeDecommission, ExternalCancel, vars, chain, control
  <1> QED
    BY <1>1 DEF BackedInv, Checked, Sent

\* When handle() returns, every name of a gateway that it deployed or updated
\* has a name contract: if calls share no names, no call deploys a name that it
\* deletes, and nobody cancels from outside.
THEOREM GatewaysBacked ==
    ASSUME OwnNames, "external" \notin Faults PROVE Spec => []NamesBacked
  <1>1. Init => RegistryInv /\ BackedInv
    <2>1. Init => BackedInv
      <3> SUFFICES ASSUME Init, NEW h \in Handlers, NEW i \in Awaited(h),
                          NEW n \in 1..Len(Batch[h][i].names)
                   PROVE  ~Checked(h, i, n)
        BY DEF BackedInv
      <3>1. item[h] = 1 /\ name[h] = 1 /\ pc[h] = "check" /\ i \in 1..Count(h)
        BY DEF Init, Awaited
      <3>2. Count(h) \in Nat /\ Len(Batch[h][i].names) \in Nat
        BY <3>1, BatchFacts
      <3> QED
        BY <3>1, <3>2 DEF Checked, Sent, Finishing, Delivering
    <2> QED
      BY <2>1, RegistryInit
  <1>2. IInv /\ RegistryInv /\ BackedInv /\ [Next]_vars => RegistryInv' /\ BackedInv'
    BY RegistryHandle, RegistryEnvironment, BackedHandle, BackedEnvironment
    DEF Next, Terminated
  <1>3. IInv /\ BackedInv => NamesBacked
    BY Here DEF BackedInv, NamesBacked, Checked, Sent, Finishing, Located, Undoing, Modes
  <1> QED
    BY <1>1, <1>2, <1>3, Invariance, PTL DEF Spec
-----------------------------------------------------------------------------
\* A name counts as freed when its contract turns out to be gone, or is cancelled.
LEMMA FreedGrows ==
    ASSUME IInv, RegistryInv, ReleasedInv, NEW h \in Handlers, Handle(h), mode'[h] = "forward",
           NEW i \in 1..Count(h) \ Awaited(h), NEW n \in 1..Len(Batch[h][i].names),
           Freed(h, i, n)', ~Freed(h, i, n)
    PROVE  registry'[Batch[h][i].names[n]] = 0
  <1>1. mode[h] = "forward" /\ ~Throw(h)
    BY OutOfTrouble
  <1>2. /\ Count(h) \in Nat /\ Len(Batch[h][i].names) \in Nat
        /\ Operation(h, i) = "delete"
    BY BatchFacts DEF Awaited, Operation
  <1>3. pc[h] \notin Finishing /\ item[h] \in Nat \ {0} /\ name[h] \in Nat \ {0}
    BY Here DEF Freed, Sent
  <1>4. ~Sent(h, i)'
    <2> SUFFICES ASSUME Sent(h, i)' PROVE FALSE
      OBVIOUS
    <2>1. i = item[h] /\ (RmbDeploy(h) \/ RmbUpdate(h) \/ ~MoreNames(h))
      BY Passed DEF Freed
    <2>2. ~RmbDeploy(h) /\ ~RmbUpdate(h)
      BY <1>2, <2>1, AskFacts DEF Awaited, Operation
    <2> QED
      BY <1>2, <1>3, <2>1, <2>2 DEF Freed, MoreNames, Item
  <1>5. i = item'[h] /\ n < name'[h]
    BY <1>4 DEF Freed
  <1>6. ~(item'[h] \in 1..(Count(h) + 1) /\ Loop(h, item'[h]))
    <2> SUFFICES ASSUME i \in 1..(Count(h) + 1), Loop(h, i) PROVE FALSE
      BY <1>5
    <2>1. name'[h] = 1
      BY LoopGoes
    <2> QED
      BY <1>2, <1>5, <2>1
  <1>7. item[h] = i /\ ~(n < name[h])
    BY <1>3, <1>5, <1>6, ItemStep DEF Freed
  <1>8. \A p, m : ~Goto(h, p, item[h], name[h], m)
    BY <1>5, <1>7, GotoGoes
  <1>9. \A p, m : ~Goto(h, p, item[h], 1, m)
    BY <1>2, <1>5, GotoGoes
  <1>10. CASE pc[h] \in {"cancelGet", "cancelTx"} /\ AfterCancel(h)
    <2>1. pc[h] \in InLoop /\ item[h] + 1 \in 1..(Count(h) + 1)
      BY <1>10, Here, BatchFacts DEF InLoop
    <2>2. MoreNames(h)
      <3> SUFFICES ASSUME ~MoreNames(h) PROVE FALSE
        OBVIOUS
      <3>1. Loop(h, item[h] + 1)
        BY <1>1, <1>10 DEF AfterCancel
      <3> QED
        BY <1>3, <1>5, <1>7, <2>1, <3>1, LoopGoes
    <2>3. name'[h] = name[h] + 1
      BY <1>10, <2>2, GotoGoes DEF AfterCancel
    <2>4. n = name[h] /\ GatewayName(h) = Batch[h][i].names[n]
      BY <1>2, <1>3, <1>5, <1>7, <2>3 DEF GatewayName, Item
    <2>5. PICK g \in Names : g = GatewayName(h) /\ g = Batch[h][i].names[n]
      BY <2>1, <2>2, <2>4, GatewayFacts
    <2>6. PICK t : t = target[h] /\ t = CancelTarget(h) /\ registry[g] \in {0, t}
      BY <1>1, <1>10, <2>2, <2>5 DEF ReleasedInv, CancelTarget
    <2>7. CASE CancelGet(h)
      <3>1. registry' = registry
        BY <2>7 DEF CancelGet, chain
      <3>2. ~Live(t)
        BY <1>1, <1>8, <2>6, <2>7 DEF CancelGet
      <3>3. registry[g] # 0 => Live(registry[g])
        BY DEF RegistryInv, Live, IInv, ChainInv
      <3> QED
        BY <2>5, <2>6, <3>1, <3>2, <3>3
    <2>8. CASE CancelTx(h)
      <3>1. Cancelled(t)
        BY <1>1, <2>6, <2>8 DEF CancelTx
      <3> QED
        BY <2>5, <2>6, <3>1 DEF Cancelled
    <2> QED
      BY <1>10, <2>7, <2>8
      DEF Handle, Check, NameQuery, NameCreate, CreateNode, RmbDeploy, UpdateNode, RmbUpdate,
          Undo, PollReady, PollThrow, WaitDone, SaveNetworks
  <1>11. CASE ~(pc[h] \in {"cancelGet", "cancelTx"} /\ AfterCancel(h))
    <2>1. ~CancelGet(h) /\ ~CancelTx(h) /\ ~Undo(h)
      BY <1>1, <1>8, <1>11 DEF CancelGet, CancelTx, Undo
    <2>2. pc[h] \in Undoing \cup {"check"}
      BY <1>1, <1>2, <1>3, <1>7, Here DEF Located, Steps, Finishing, Undoing
    <2>3. ~Check(h)
      <3> SUFFICES ASSUME Loop(h, 1) PROVE FALSE
        BY <1>1, GotoGoes DEF Check
      <3>1. 1 \in 1..(Count(h) + 1) /\ item'[h] = 1
        BY <1>2, LoopGoes
      <3> QED
        BY <1>6, <3>1
    <2> QED
      BY <2>1, <2>2, <2>3
      DEF Undoing, Handle, NameQuery, NameCreate, CreateNode, RmbDeploy, UpdateNode, RmbUpdate,
          PollReady, PollThrow, WaitDone, SaveNetworks
  <1> QED
    BY <1>10, <1>11

LEMMA ReleasedHandle ==
    ASSUME OwnNames, IInv, RegistryInv, ReleasedInv, NEW k \in Handlers, Handle(k)
    PROVE  ReleasedInv'
  <1> SUFFICES ASSUME NEW h \in Handlers, mode'[h] = "forward"
               PROVE  /\ \A i \in 1..Count(h) \ Awaited(h) :
                           \A n \in 1..Len(Batch[h][i].names) :
                             Freed(h, i, n)' => registry'[Batch[h][i].names[n]] = 0
                      /\ pc'[h] \in {"cancelGet", "cancelTx"} /\ MoreNames(h)' =>
                           registry'[GatewayName(h)'] \in {0, target'[h]}
    BY DEF ReleasedInv, Awaited, Count
  <1>1. mode[h] = "forward"
    BY OutOfTrouble, OthersStay
  <1>2. ASSUME NEW i \in 1..Count(h) \ Awaited(h), NEW n \in 1..Len(Batch[h][i].names),
               Freed(h, i, n)'
        PROVE  registry'[Batch[h][i].names[n]] = 0
    <2>1. CASE Freed(h, i, n)
      <3>1. registry[Batch[h][i].names[n]] = 0
        BY <1>1, <2>1 DEF ReleasedInv
      <3> QED
        BY <1>1, <3>1, NamesApart, NamesInRange
    <2>2. CASE ~Freed(h, i, n)
      <3>1. h = k
        BY <1>2, <2>2, OthersStay DEF Freed, Sent
      <3> QED
        BY <1>2, <2>2, <3>1, FreedGrows
    <2> QED
      BY <2>1, <2>2
  <1>3. ASSUME pc'[h] \in {"cancelGet", "cancelTx"}, MoreNames(h)'
        PROVE  registry'[GatewayName(h)'] \in {0, target'[h]}
    <2>1. CASE h = k
      <3>1. /\ registry' = registry /\ MoreNames(h) /\ GatewayName(h)' = GatewayName(h)
            /\ \/ pc[h] = "undo" /\ target'[h] = registry[GatewayName(h)]
               \/ pc[h] = "cancelGet" /\ target'[h] = target[h]
        BY <1>3, <2>1, LookedUp DEF chain
      <3> QED
        BY <1>1, <3>1 DEF ReleasedInv
    <2>2. CASE h # k
      <3>1. /\ pc[h] = pc'[h] /\ item'[h] = item[h] /\ name'[h] = name[h]
            /\ target'[h] = target[h]
        BY <2>2, OthersStay
      <3>2. MoreNames(h) /\ GatewayName(h)' = GatewayName(h)
        BY <1>3, <3>1 DEF MoreNames, GatewayName, Item
      <3>3. PICK g \in Names : g = GatewayName(h) /\ g \in NamesOf(h, item[h])
                               /\ item[h] \in 1..Count(h)
        BY <1>3, <3>1, <3>2, GatewayFacts DEF InLoop
      <3>4. item[h] \notin Awaited(h)
        BY <1>1, <1>3, <3>1, Here DEF Located, Undoing, Awaited, Operation
      <3>5. registry'[g] \in {0, registry[g]}
        BY <1>1, <3>3, <3>4, NamesApart
      <3> QED
        BY <1>1, <1>3, <3>1, <3>2, <3>3, <3>5 DEF ReleasedInv
    <2> QED
      BY <2>1, <2>2
  <1> QED
    BY <1>2, <1>3

\* A cancellation from outside frees a name, too.
LEMMA ReleasedEnvironment ==
    ASSUME IInv, RegistryInv, ReleasedInv, (\E id \in Ids : Environment(id)) \/ UNCHANGED vars
    PROVE  ReleasedInv'
  <1>1. /\ pc' = pc /\ item' = item /\ name' = name /\ mode' = mode /\ target' = target
    BY DEF Environment, NodeApply, NodeDecommission, ExternalCancel, vars, control
  <1>2. \A n \in Names : registry'[n] \in {0, registry[n]}
    BY RegistryEnvironment
  <1>3. ASSUME NEW h \in Handlers, mode[h] = "forward",
               NEW i \in 1..Count(h) \ Awaited(h), NEW n \in 1..Len(Batch[h][i].names),
               Freed(h, i, n)
        PROVE  registry'[Batch[h][i].names[n]] = 0
    BY <1>2, <1>3, NamesInRange, ZenonT(60) DEF ReleasedInv
  <1>4. ASSUME NEW h \in Handlers, mode[h] = "forward",
               pc[h] \in {"cancelGet", "cancelTx"}, MoreNames(h)
        PROVE  registry'[GatewayName(h)] \in {0, target[h]}
    <2>1. GatewayName(h) \in Names
      BY <1>4, GatewayFacts DEF InLoop
    <2> QED
      BY <1>2, <1>4, <2>1 DEF ReleasedInv
  <1>5. \A h \in Handlers :
          /\ MoreNames(h)' <=> MoreNames(h)
          /\ GatewayName(h)' = GatewayName(h)
          /\ \A i, n : Freed(h, i, n)' <=> Freed(h, i, n)
    BY <1>1 DEF MoreNames, GatewayName, Item, Freed, Sent
  <1> QED
    BY <1>1, <1>3, <1>4, <1>5 DEF ReleasedInv, Awaited, Count

\* When handle() returns, the names of the gateways that it deleted have no name
\* contract: if calls share no names and no call deploys a name that it deletes.
\* A cancellation from outside changes nothing of it.
THEOREM GatewaysReleased ==
    ASSUME OwnNames PROVE Spec => []NamesReleased
  <1>1. Init => RegistryInv /\ ReleasedInv
    <2>1. Init => ReleasedInv
      <3> SUFFICES ASSUME Init, NEW h \in Handlers
                   PROVE  /\ pc[h] = "check"
                          /\ \A i \in 1..Count(h) : \A n \in 1..Len(Batch[h][i].names) :
                               ~Freed(h, i, n)
        BY DEF ReleasedInv
      <3>1. item[h] = 1 /\ name[h] = 1 /\ pc[h] = "check"
        BY DEF Init
      <3>2. ASSUME NEW i \in 1..Count(h), NEW n \in 1..Len(Batch[h][i].names)
            PROVE  ~Freed(h, i, n)
        <4>1. Count(h) \in Nat /\ Len(Batch[h][i].names) \in Nat
          BY BatchFacts
        <4> QED
          BY <3>1, <4>1 DEF Freed, Sent, Finishing
      <3> QED
        BY <3>1, <3>2
    <2> QED
      BY <2>1, RegistryInit
  <1>2. OwnNames /\ IInv /\ RegistryInv /\ ReleasedInv /\ [Next]_vars => RegistryInv' /\ ReleasedInv'
    BY RegistryHandle, RegistryEnvironment, ReleasedHandle, ReleasedEnvironment
    DEF Next, Terminated
  <1>3. IInv /\ ReleasedInv => NamesReleased
    BY Here DEF ReleasedInv, NamesReleased, Freed, Sent, Finishing, Located, Undoing, Modes
  <1> QED
    BY <1>1, <1>2, <1>3, Invariance, PTL DEF Spec
=============================================================================
