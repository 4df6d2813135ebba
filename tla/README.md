# A TLA+ model of the grid3 client

This directory holds a specification of the program under `src/src`: a
TypeScript client that rents capacity on the ThreeFold grid. Users describe
machines, Kubernetes clusters, zdbs and gateways; the client turns them into
*deployments*, pays for each with a *contract* on a blockchain, sends them to
*nodes* over a message bus (RMB), and keeps track of its contracts and private
networks in a store of its own. What makes it hard is that one user request is
a long sequence of awaited calls to a chain and to several nodes, each of which
can fail alone, run beside those of another request, or be answered late.

Modules are checked with TLC on small instances and, where said below, proved
with TLAPS for every value of their constants.

## Inventory

| Part | Source | State | Operations | Hard behaviour | Correct when |
|---|---|---|---|---|---|
| Deployment engine | `high_level/twinDeploymentHandler.ts` | the merged batch and the lists created / updated / deleted of one `handle()` call; contracts and deployments live on chain and nodes | `merge`, `handle`, `deploy`, `update`, `delete`, `waitForDeployment(s)`, `saveNetworks`, `rollback` | a failure at any await, rollback inside rollback, other calls between two awaits, lost answers, the timeout | it cancels only what is its own, reports all it created, leaves nothing behind when a deploy fails, returns only when the nodes are done, always settles |
| Chain client | `clients/tf-grid/client.ts` and its modules | `TFClient.lock`, `TFClient.clients`, the connection | `applyExtrinsic`, `queryChain`, `connect`, `disconnect` | concurrent callers, disconnects, callbacks that throw, dropped extrinsics | extrinsics are serial and in order, answers are true, the lock is passed on |
| Deployment changes | `primitives/deployment.ts`, `high_level/*.ts` | none: pure functions of deployments | `UpdateDeployment`, the builders' `create`, `_delete` | the result depends on the order of workloads and of requests | the deployment sent is what was asked, with versions the node reacts to |
| Deployment modules | `modules/base.ts`, `machines.ts`, `k8s.ts`, `zdb.ts`, `qsfs_zdbs.ts`, `gateway.ts`, `contracts.ts` | `contracts.json` of every deployment, one file per contract | `save`, `exists`, `_get`, `_update`, `_add`, `_deleteInstance`, `_delete`, `cancel` | load-change-store without a lock, writes that are not awaited, a crash between `handle` and `save`, contracts cancelled behind the modules' back | the store lists the live contracts of a deployment and no other's; a call that returns has done what it was asked |
| Private networks | `primitives/network.ts`, `zos/znet.ts` | `info.json` of every network and the object loaded from it: nodes, reserved addresses and subnets, access points | `load`, `addNode`, `addAccess`, `deleteNode`, `getFreeIP`, `getFreeSubnet`, `generatePeers`, `save` | a network is spread over contracts of several deployments; two requests on one network; exhausted ranges | addresses and subnets are used once, a node that joins is reached by all, `info.json` tells what is deployed, nothing stays behind the last machine |
| Storage backends | `storage/*.ts` | files, local storage or the key-value store on the chain | `set`, `get`, `remove`, `list`, `update` | a value in several chunks and several extrinsics; lost updates | what was stored is read back |
| Node queries | `primitives/nodes.ts`, `modules/capacity.ts` | none | `filterNodes`, `nodeHasResources`, ... | stale answers | - |
| Rented nodes | `modules/nodes.ts` | rent contracts on the chain | `reserve`, `unreserve` | check, then rent | one user rents a node |
| Stellar wallets | `modules/stellar.ts` | one file of wallets | `import`, `update`, `delete` | lost updates, a delete before an import that fails | a wallet keeps its secret until a call changes it, an update that fails restores it |
| Twin server | `server/server.ts`, `client.ts` | registered functions | `run`, `wrapFunc` | a command that never answers | every command is answered |
| Thin modules, models, primitives, helpers | `modules/{balance,twins,kvstore,zos}.ts`, `modules/models.ts`, `primitives/*.ts`, `zos/*.ts`, `helpers/*.ts` | none | one call or one constructor each | - | - |

How they interact: a module (say `machines.deploy`) checks its store, asks a
builder for TwinDeployments, gives them to `TwinDeploymentHandler.handle`, and
saves the answer. `handle` merges them, and calls the chain client for
contracts and RMB for nodes, one await after the other; at the end it saves the
networks that the TwinDeployments carry. Every extrinsic, of whatever module,
goes through `TFClient.applyExtrinsic` and its static lock. A `tfkvstore`
backend turns a save into extrinsics too. The only shared state inside a
process is the lock, the table of clients and the store; everything else is on
the chain and the nodes, where other processes of the same user act as well.

## Modules

| Module | What it is |
|---|---|
| `ContractLedger` | what a `handle()` call promises about node contracts |
| `TwinDeploymentHandler` | `handle()` in full, any number of concurrent calls |
| `TwinDeploymentHandlerProofs` | its type invariant, the refinement, the undoing of failed deploys |
| `TwinDeploymentResultProofs` | what a call that returned has achieved: deployments, gateway names |
| `SerialExtrinsics` | what `applyExtrinsic` promises to its callers |
| `TFClient` | lock, connections, callbacks and answers of the chain client |
| `TFClientProofs` | its type invariant, mutual exclusion, the open connections, the refinement |
| `DeploymentMerge` | `UpdateDeployment`, `merge` and the requests that are merged |
| `DeploymentMergeProofs` | its type invariant, what `UpdateDeployment` and `merge` do with any batch, versions |
| `DeploymentStore` | the five deployment modules and the contracts module over `contracts.json` |
| `DeploymentStoreProofs` | what `contracts.json` lists, forgets and names, whatever runs at once; what calls achieve that have a deployment to themselves |
| `NetworkPeers` | the `Network` object: subnets, addresses, access points, peers |
| `PrivateNetwork` | calls that change one network, with its workloads and `info.json` |
| `PrivateNetworkProofs` | the operators of `NetworkPeers`; the type invariant of `PrivateNetwork` |
| `PrivateNetworkDataProofs` | its addresses, subnets, routes and `info.json`, for any nodes and calls |
| `WalletStore` | the stellar module over the file system and the key-value store |
| `WalletStoreProofs` | its type invariant, what the file holds, what an update leaves behind |
| `MC...` | small instances for TLC |

`PrivateNetwork` EXTENDS `NetworkPeers`; `TwinDeploymentHandler` and `TFClient`
implement `ContractLedger` and `SerialExtrinsics`. `DeploymentStore` and
`PrivateNetwork` have `handle()` as one step that does all of its work, or
throws with any part of it done: the second is what `TwinDeploymentHandler`
shows of a call that fails, whose rollback cancels nothing that was created.

### TwinDeploymentHandler

One state machine per call: `pc` is the await it is in, `item` the index in the
merged batch, `name` the index in the gateway names of that item, `mode`
whether it goes forward, is in the rollback inside `deploy` ("inner") or in the
catch of `handle` ("outer"). `created`, `updated` and `deleted` are the lists of
the code. `created` holds records with the two fields `contractId` and
`contract_id`, because the code uses both: the chain answers with the first,
`deploy` builds its rollback argument with the second, and `rollback` compares
the second. An exception is `Throw`, which goes where the code's catch blocks
send it; `RollbackFrom` is the loop of `rollback` up to its next await.

Every await is one action: `NameQuery` and `NameCreate` (createNameContract),
`CreateNode` and `RmbDeploy` (deploy), `UpdateNode` and `RmbUpdate` (update),
`Undo`, `CancelGet` and `CancelTx` (deleteNameContract and Contracts.cancel, in
the loop and in both rollbacks), `PollReady` / `PollThrow` / `WaitDone`
(waitForDeployments: the polls of one `Promise.all` are interleaved; the first
that throws ends the call), `SaveNetworks`. What `updateNode` does to the
content hash is left out: the only effect that the rest of the call sees is
whether the contract is live.

The chain and the nodes are external: contracts and the registry of names with
their creation and cancellation, a node that accepts a deployment and works on
it at its own time (`NodeApply`), drops that of a cancelled contract, and a
contract that somebody else cancels. Faults are a CONSTANT, so that a run or a
theorem can say which ones it is about: refused or unanswered extrinsics,
failing queries, refused cancellations, RMB requests lost before or after they
are executed, workloads in error, the timeout, a failing store.

A batch is a CONSTANT: it is the result of `merge`, and `BatchAssumption` states
what `DeploymentMerge` shows of such a result (`MergedOnce`), including that two
deletions of one contract are both kept. Names of workloads are only kept for
gateways, whose name contracts matter. `publicIps`, metadata, signatures, log
events and error texts are left out.

### TFClient

`pc` of a call is the await it is in; `holder` and `queue` are the AwaitLock
(first come, first served, as in the await-lock package); `api[u]` is the
connection of the client `u`, `open` the connections not yet closed, `via[c]`
the one on which the call watches its extrinsic; `tx[c]` is the extrinsic on
the chain. `connect()` is two steps, because `init()` is awaited between the
test and the assignment. The promise of `_applyExtrinsic` settles in one of
three ways: an event of `resultNames` (`CanResolve`), an `ExtrinsicFailed`
whose lookup in `ErrorsMap` works (`CanReject`), or the callback is given an
Error (`WatchError`). When the lookup throws, nothing settles it. Reconnection
by the polkadot library is not modelled: a closed connection stays closed until
`connect()` opens another.

### DeploymentMerge

A workload is a name, a version and a content; the network workload is the one
called `Net`. Of the two loops of `UpdateDeployment`, `Compared` says for which old workloads
the inner one is run, `Visited` how far it gets before the `break`, `Changing` and
`Added` what it comes across there: a change of the workload, or new ones. `Merge` and its parts follow `merge`,
`deployMerge`, `updateMerge` and `_updateToLatest`, and keep the order in which
JavaScript enumerates objects: by number for node and contract ids, by first
use for names. The actions add to a batch what the modules ask for: a new
deployment, the changes of `_update` and `_add`, the network update of the
machine builder, the removals of `_delete`. `Handle` then sends the merged
batch. The comparison of machine addresses inside `UpdateDeployment`, which
keeps the old address, belongs to the networks and is not part of it.

### DeploymentStore

`contract` is the chain with what the nodes hold, `store` the `contracts.json`
of every deployment, `info` the files `contracts/<id>.json`. A call of a module
goes from its own checks (`Machines`, `K8s`, `Zdbs`, `QsfsZdbs`, `Gateway`: one
action per module, with `Method` for what their methods share) over `_get`
(`Load`, `GetOne`, and the save of a contract it drops) to what it hands to
`handle()` (`Build`: `DeployWork`, `UpdateWork`, `AddWork`, `Without`), to
`Handle`, and to `save()`. Loading and dumping are two steps, since the load is
awaited: that is where concurrent saves lose each other's change. The writes of
`contracts/<id>.json` are not awaited, but the file system has done them when
the call returns; for the other backends this is not modelled.

`Cancel` and `Invalidate` are `contracts.cancel` and its `invalidateDeployment`,
which runs `_get` on a `BaseModule` that has no workload types and thereby drops
every live contract of the deployment; `CancelMine` is `cancelMyContracts`, which
invalidates nothing, since its records carry `contractID`. `disturbed` collects
the deployments about which the store may be wrong from then on, and says why:
a crash between `handle` and `save`, a `handle` that threw and left contracts,
two saves at once, a call that filled what another had emptied, or
`contracts.cancel`. The properties exclude exactly these. `alone` collects the
calls that had their deployment to themselves, for `ReturnsDone` and
`OnlyInstanceGone`.

A deletion may keep the network workload on a node, or take along those of
others (`MayStay`, `Along`): which of these happens is in `PrivateNetwork`, here
it is open. An update into which `UpdateDeployment` has to put new workloads
next to none that stays loses them (the third disagreement); `Changed` does so.
An update that only rewires the networks of other deployments saves nothing new
(`rewired`), one that changes nothing returns at once.

The names of the model have a directory each. In the code this is so for four
modules. `zdbs` sets no `moduleName` (`zdb.ts:12`), so its directory is the
project's (`base.ts:45`): it holds a directory for each of the other modules, whose
names `exists` and `list` of zdbs take for deployments, and it may be the directory
of a module of a project that is named accordingly. Neither is in the model.

### NetworkPeers and PrivateNetwork

`NetworkPeers` is the `Network` object as a record (`nets`: the network
workloads, `nodes`: contracts and addresses, `points`: access points,
`reserved`: `reservedSubnets`) with one operator per method. An operator that
may come out in several ways, or throw, is the set of its outcomes: `AddNode`
and `AddAccess` over the relays that `randomChoice` may pick for hidden nodes,
`IpChoices` over the one address that was asked for. Subnets and hosts are
numbers, a key pair is the subnet it was generated with, listen ports and the
routing addresses that double every subnet are left out. Every access node has
a public IPv4 address: `Nodes.getAccessNodes` returns no other (`nodes.ts:94`).

`PrivateNetwork` is one network and the deployments that have machines in it. A
call loads (`Load` and `LoadSave`: `load()` ends with a `save()`), builds its
machines one by one (`CreateOn` is `VMHL.create`, from the chosen address to the
machine) or removes them (`Remove`, `Rest`, `FreeIps` are
`_deleteMachineNetwork` and the end of `_delete`, which may load the network a
second time), hands the workloads to `handle()`, and saves. `AfterCall` is what
becomes of a deployment: the network workloads of loaded deployments are sent
again with the peers of the `Network` object, and a deployment that is merged
with a loaded copy goes back to the machines of that copy.

`stale` are the calls that have read what another has changed since; `clean` is
FALSE from the first write of such a call, a failed `handle()` that changed
something, a crash before the save, or a contract cancelled by hand. All
properties are about a clean network: after these, the code promises nothing
(a dead contract in `info.json` makes every later `load()` throw).

### WalletStore

All wallets are one object in one file. `import`, `update` and `delete` load it
several times each (`exist`, `getWalletSecret`, the check of `save` or `delete`,
and again inside `BackendStorage.update`), which are the stages of a call. A
text is a sequence of wallets and a closing mark; `Cut` is `split()`, one chunk
per key, `WrittenKey` and `ReadKey` are the keys that `set` writes and `get`
reads, which agree for the first two chunks only. Every chunk is a step to read
and a step to write; on the file system a text is one step. A key that is not
there reads as the empty text (external). Encryption is left out, and so are, as
faults of their own, a query of the chain or a decryption that throws
(`kvstore.ts:23`-`28`): the call that reads throws then, as it does for the other
faults. `filesystem.ts:12` truncates a file and then writes it; the
model does both in one step, so a process that ends between the two, which leaves
an empty file, is not in it.

`torn` and `clash` say when the file may not read back: a text of more than two
chunks or of fewer than the one before it, a write that stopped midway, two
calls that were changing the file at once. A file of more than two chunks may also
be there from the beginning. The properties exclude these and nothing else.

## Runs

| Run | Bounds | What it shows |
|---|---|---|
| `HandlerMixed` | one call: update, deploy, delete, deploy; every fault | `TypeOK`; the call implements `ContractLedger`; it always settles |
| `HandlerPair` | two calls, each deploys, one updates, one deletes; faults of extrinsics, RMB, workloads, timeout | a failed deploy leaves no contract (`FailedDeployUndone`); a call that returns has waited for its nodes (`SuccessMeansDeployed`); the refinement |
| `HandlerGateways` | two calls; two gateways of which one name exists, an update, a deleted gateway; seven faults | name contracts exist for what was deployed and are gone for what was deleted; the refinement; both calls settle |
| `RollbackCreated` | two deployments, the second RMB request fails | the disagreement below |
| `ClientSerial` | three extrinsics of two clients, one query, six faults, four connections | one extrinsic at a time, one in the pool, no more connections lost track of than there are queries, the refinement of `SerialExtrinsics` |
| `ClientAnswers` | two extrinsics, one query; all eight faults | a query is answered, an extrinsic too unless one hangs for ever; one that resolves was executed |
| `TransferHangs` | a transfer that fails and an extrinsic behind it | the disagreement below |
| `Merge` | two nodes, one contract, two names and two contents, two requests per batch, deployments up to version 2 | `UpdateDeployment` is exact where it can be, merged updates keep all changes, versions rise where a node has to act and nowhere else; one deployment per node, one change per contract, nothing lost or doubled |
| `UpdateLosesNew` | as `Merge` | the disagreement below |
| `StoreCalls` | three calls, five deployments (one per module), two nodes, two instances, three contracts; lost answers, failed deployments, crashes | `contracts.json` lists no contract of another deployment and forgets none outside the five situations; contract files name their deployment; a call that was alone has achieved what it returns (`ReturnsDone`), and its deletion took one instance and nothing else (`OnlyInstanceGone`) |
| `Networks` | three nodes (access, public, hidden), two deployments of two machines, four contracts, two calls; every fault, up to the first that leaves the network unclean | addresses and subnets are used once, a peer is responsible for a subnet, `info.json` is complete, nodes that join are reached by all, the last machine takes the network with it |
| `Wallets` | three calls, two names that are asked for, files of up to three wallets and three keys, both backends; failing accounts and extrinsics, crashes | the file reads back and keeps its wallets; an update restores what it could not replace |

The bounds are small because the hazards are: a rollback needs one item that
succeeded and one that fails; a conflict needs two calls; the two kinds of
contract and the two places where a rollback starts are all in the batches. A
gateway with two names is the smallest in which the name loop goes round.
Three extrinsics are the smallest number with one at work, one first in the
queue and one behind it. For merging, two copies of one deployment already
contradict each other. What does not depend on such shapes is proved.

Three calls of `StoreCalls` are a call that is disturbed, the one that disturbs
it and one that meets what they left; two instances on two nodes are the
smallest plan that an update can move, split and join. In `Networks` a hidden
node needs an access node to relay for it, and a third node to be reached over
it; a node has its network workload from the deployment that came first, so two
deployments are needed for a machine to leave a node that the other still uses.
`Beside` bounds which requests may begin while another call is under way: an
access node that joins and a machine that goes, the two that rewrite what the
other has loaded. `MaxId` is a real bound there: with four contracts a network
can grow, shrink and grow again once. `OnlyClean` cuts the run at the first
state that is not clean, after which no property says anything. In `Wallets` a
chunk is two tokens (`ChunkSize`, for the 1490 characters of the code), so that
the files have one or two chunks, and `MaxChunks` leaves room for a third.

`MaxId` bounds the contract ids and is large enough that it never refuses a
creation in the runs. `MaxConnections` is a bound that is not reached either: a
call opens one connection at most. The runs of `TFClient` do not check for
deadlock: calls that were never made, and extrinsics that hang, may just stop. The runs of `DeploymentMerge` stop at `MaxVersion` and `MaxId`.
`HandlerMixed`, `HandlerPair` and `HandlerGateways` check for deadlock: a call
that has not settled can always take a step. `StoreCalls`, `Networks` and
`Wallets` do not: they end when every call has settled or the ids are used up.

### Fairness

`AllSettle` assumes weak fairness of every call's own steps: the event loop runs
its continuations, and an awaited request is answered, one way or another. It
assumes nothing of the nodes, which may never finish (`NodeApply` has no
fairness); that the wait still ends is the timeout's merit, and a mutant without
the timeout violates it. `AllAnswered` assumes that the event loop runs and
that the chain works off its pool; nobody is obliged to call, to disconnect or
to fail. An extrinsic hangs (`Hung`) when the chain has dropped it, when its
connection is lost, and when it failed with an error that is not one of a module,
for which the callback throws (`client.ts:95`): nothing in the code ends that wait,
and the call keeps the lock. All three are in the run. `AllAnswered` claims that
queries are answered whatever happens, and extrinsics unless one of them hangs for
ever (`[]<>~Hung`, which an error of the watch may end); it does not hold if one of
the three is left out of `Hung`. A transfer that fails with the error of a module
does not count as hung: that is the disagreement `TransferHangs`.

## Where the code disagrees with what is said of it

* `RollbackCreated`: `rollback` is to "cancel all created contracts"
  (`twinDeploymentHandler.ts:349`). Called by `handle` it compares a field that
  the records do not have, and cancels none. `ContractLedger` therefore lets a
  call that throws keep its contracts; that is the weakest part of its promise.
* `FailedDeployUndone` holds in `HandlerPair`, without gateways. With a gateway
  whose name contract has gone, `deleteNameContract` cancels contract 0, throws,
  and the node contract stays. The rollback inside `deploy` also deletes name
  contracts by name, those included that `createNameContract` only found.
* `TransferHangs`: the section "balances" is not in `ErrorsMap`; a refused
  transfer is never answered and keeps the lock of all clients.
* `UpdateLosesNew`: `UpdateDeployment` loses new workloads when a changed one
  comes before them, or when every old one is deleted. `UpdateExact` says what
  it does right: changes and removals, or additions alone.

Not a disagreement, but worth knowing: `_deleteInstance` (`base.ts:338`) stops at
the first deployment that it changed. An update that moved an instance to another
node and failed halfway leaves it in two contracts; the deletion then reports
success, and one of them keeps it. `Achieved` claims therefore only that what is
reported no longer has the instance, and `OnlyInstanceGone` that nothing else went.

## Proofs

`TwinDeploymentHandlerProofs` (any set of calls, batches, existing contracts
and faults, under `HandlerAssumption` and `BatchAssumption`):

* `TypeCorrect`: `TypeOK`, including that no call works on an item or a name its
  batch does not have. The inductive invariant `IInv` adds `ControlInv` (which
  steps go with which operation and mode, `Located`), `ChainInv` (ids are handed
  out in order and never again), `MemoryInv` (what a call remembers is on the
  chain and its own) and `AccountInv` (until it throws, a call has reported all
  it created but the one it is deploying, and cancelled all it had to, up to its
  item). `TypeOK` alone is not inductive: that `rmbDeploy` has a contract to
  work on, or that an item has names left, follows from how the step was
  reached.
* `Implements`: every step of `handle` is a step or a stutter of
  `ContractLedger` under the mapping in the module. `AccountInv` gives the
  ledger's Return, `MemoryInv` its Release.
* `DeployUndone`: if a rollback's own calls get through and no names are
  involved (`RollbackGetsThrough`), `FailedDeployUndone` is an invariant,
  whatever else fails. The assumption is needed: see the disagreements.

`TwinDeploymentResultProofs` (the same, and `NameAssumption`: a name contract is
for one name) is about calls that returned. Calls that act on the same things
can undo each other's work, so each theorem says which things calls do not share;
the batches of the runs satisfy it.

* `SuccessDeployed`: `SuccessMeansDeployed`, if nobody else updates or cancels a
  contract that a call updates (`OwnContracts`) and an update with new content
  has a new version (`NewVersions`; with an old one the code does not wait for
  the node). `OwnInv`: two items never work on one contract, and the node of a
  contract that is not created yet has nothing. `ReachedInv`: the node of an
  item has the content from before or the new one, and has been sent the new one
  once the loop is past the item. What the poll then sees decides.
* `GatewaysBacked` and `GatewaysReleased`: `NamesBacked` and `NamesReleased`, if
  calls share no gateway names and none deploys a name that it deletes
  (`OwnNames`). `RegistryInv` ties the registry of names to their contracts;
  `BackedInv` and `ReleasedInv` say which names are registered, and which are
  free, at every step of the loop. The first needs that no contract is
  cancelled from outside; the second does not.

`TFClientProofs` (any calls, clients and faults, under `ClientAssumption`):

* `TypeCorrect`, and `MutualExclusion`: one extrinsic at a time. `LockInv` says
  that the holder is the one extrinsic at work and that the queue holds distinct
  waiting extrinsics, and is empty when nobody holds the lock.
* `PoolExclusion`: without lost answers the chain has one extrinsic at most.
* `FewOrphans`: `OneConnection`, for a finite number of calls. `LinkInv` counts:
  a connection that its client lost track of was made beside a query, and no
  query was beside two of them.
* `Implements`: `SerialExtrinsics`, with holder and queue mapped to its line.

`DeploymentStoreProofs` (any calls, deployments, nodes, contracts, requests and
faults, under `StoreAssumption`), in four layers:

* `TypeCorrect`. `Types` adds the memory of the calls to `TypeOK`, and that a
  call at work has a name.
* `ListsOwn`: `OwnContracts`. It is not inductive: `save()` writes what a call
  has in hand. `Ownership` adds `Owns`: whatever a call has read, built, handed
  to `handle()`, got back or is about to save is of its own deployment, at every
  step at which it still uses it.
* `Remembered` and `InfoNames`: `NothingForgotten` and `InfoNamesDeployment`.
  `Remembering` adds what keeps a save from dropping a contract that is alive:
  what a call is about to remove is dead or holds nothing, unless the deployment
  is disturbed (`Careful`); the copy of `contracts.json` it writes back is still
  the file (`UpToDate`); and one call at a time is between load and dump of an
  undisturbed deployment (`OneSaves`).
* `CallsAchieve` and `NothingElseGone`: `ReturnsDone` and `OnlyInstanceGone`.
  Both are about one step, but what it relies on was read many steps before, and
  other calls have run since. `Achieving` adds to `Remembering`, of every call,
  who else may be at work on its deployment and which steps go with which
  operation (`Lone`); and of one that has an undisturbed deployment to itself
  (`Sole`) what it has read and not yet done, at each of its steps (`Phase`):
  `_get` has read what is held and is still to look at the rest of the list; what
  is built, and what is handed to `handle()`, was made of deployments that are as
  they were read (`Fits`); what is saved was achieved. `Elsewhere` says that the
  steps of other calls, on other deployments, change nothing of this, and
  `HandledWork` and `HeldAfter` what `handle()` makes of the contracts when its
  work is in order (`Tidy`); `UpdateReaches` and `AddReaches` compare that with
  the plan. That everything which is held is listed when the call reads the
  list (`AllListed`) is `NothingForgotten`.

`PrivateNetworkProofs` and `PrivateNetworkDataProofs` (any
finite set of nodes, any subnets, addresses, calls, contracts and requests, under
`NetworkAssumption` and `PeersAssumption`):

* `TypeCorrect`. `TypeInv` adds the memory of the calls to `TypeOK`, and which
  request, batch and `Network` object go with which step (`Stage`).
* `Mirrors`, from which `AddressesApart`, `SubnetsApart` and `InfoTold` follow:
  `AddressesDistinct`, `SubnetsDistinct` and `InfoComplete`. None of the three is
  inductive, because a call works on a `Network` object that it loaded some steps
  ago and other calls change contracts and `info.json` in the meantime. `CleanInv`
  says, of a network that nothing has disturbed: the contracts are in order
  (`DataInv`); `info.json` fits them when nobody is between `handle()` and `save()`
  (`FileInv`); a call that is about to save is the only one whose memory is
  still good, and what it saves fits (`SavesInv`); and a call whose memory is not
  stale mirrors the contracts, changed by what it has done so far (`MirrorOf`:
  `GrownInv` of one that adds machines, `DeletesInv`, `ShrunkInv` and
  `PendingInv` of one that deletes). An address or a subnet that such a call picks
  is free in its object, hence free on the chain. `IdleInv`, that a call that is
  not under way has an empty batch and nothing stale, makes a new call a good one.
  A model checker had looked at both before the proof.
* `RoutesApart`: `RoutesUnique`, on top of `CleanInv`. That the peers of one node
  have distinct subnets does not survive a step by itself: a call generates them
  from its `Network` object. `RouteInv` says of the chain (`RoutedIn`) also that a
  subnet is behind one node at most, and none behind a hidden node; and of the
  object of a call that deploys or adds (`WiredInv`) the same, that its access
  points have subnets of their own at nodes with an address, and that a node that
  is new to an existing network makes the batch update the nodes that are in it.
  Lemmas in `PrivateNetworkProofs` say that `generatePeers` keeps the first two.
* `NetworkGoes`: `NetworkFreed`, for networks with at most one access node
  (`OneAccess`). That the last machine takes the network along is worked out in
  many steps, machine by machine, so it needs an invariant about all of the
  earlier ones. `FreedInv` says of the chain that a network has a machine and that
  every node of it has one unless it is an access node (`Occupied`), and that the
  addresses that `info.json` has for taken are those of machines (`Taken`). Of a
  call whose memory is not stale it says (`WorksOf`) that a creation puts a machine
  on every node that it brings (`Grows`); and of a deletion, that the addresses of
  its `Network` object are those of the file without the machines deleted so far
  (`Exact`), that the addresses it has freed are in the batch (`Collects`, `Pends`),
  and that once it has been through its machines the contracts that it keeps are
  occupied again (`Leaves`). `LeavesEnough` is where the one access node is needed:
  the access node that keeps the network has a machine, or another node is there
  that has one. It builds on `CleanInv` and `RouteInv` (`Wirings`). This invariant,
  too, was model-checked on the instance of the run first.

`DeploymentMergeProofs` (any node ids, contents, versions and lengths of a batch,
finitely many names, under `MergeAssumption`) proves all that `Merge` checks:

* The operators first. `Only` and `Ascending`, by which the model says "the elements
  at these positions" and "in the order of the keys", have a `CHOOSE` in them: that
  there is one function that lists a finite set of numbers upwards, and no other, is
  shown by a least counterexample (`CountExists`, `CountUnique`). `FlattenSeq` is a
  recursive function; `FlattenFolds` gives its partial results, and the lemmas after
  it what a flattened sequence holds, that nothing changes when empty parts are left
  out (`FlattenOnly`), and how long it is when no part has more than one element.
* `UpdateFacts` and `UpdateHolds` say what `UpdateDeployment` returns, `LatestMany`
  and `LatestAt` what `_updateToLatest` leaves of a name, `DeployMergeFacts`,
  `UpdateMergeFacts` and `MergeFacts` what `merge` returns for a batch of which every
  request is valid (`Asked`): a deployment is for a node, an update was made of the
  deployment that its contract has, each workload as it was there, or changed and of
  the next version, or with the network's own next version (`Edited`); what is deployed on one node in one call is
  named differently.
* `Inv` says that the contracts are those of the first ids, with sound deployments
  (each name once, no version ahead of the deployment's), and that the batch is
  `Asked`. `TypeOK` alone is not inductive: what `handle()` leaves depends on what the
  batch was made of. A model checker had looked at `Inv` before the proof. Each
  property is then a fact about `Merge` or `UpdateDeployment` for the batches and
  deployments that `Inv` allows; `VersionsChanges` is about the step of `Handle`.

`WalletStoreProofs` (any calls, secrets, size of a chunk and faults, files of any
number of wallets, under `WalletAssumption`: the names are finite, the modelled
keys have room for a wallet of each, and a first file has one wallet of a name, as
an object has) proves all that `Wallets` checks:

* The operators first. `Parsed` is a recursive function; that it exists, gives one
  wallet of a name (`ParsedObject`) and undoes `Text` (`ParsedText`) is shown by a
  least counterexample, from the theorem that the numbers are well-founded: the
  induction theorems of the library are of no use here. `Cutting` says that the
  chunks are not empty and that two of them make the text again, `KeyFacts` that
  the keys of `set` and `get` agree up to the second and not beyond.
* `WalletTypes`: `TypeOK`. `Types` adds that a call that dumps has a rest of the
  chunks of an object left to write (`Dumping`, which also bounds `chunks`), has
  failed no oftener than its restoring allows (`Failed`), and that the keys only
  `get` asks for are empty.
* `FileReads` and `WalletsStay`: `ReadsBack` and `WalletsKept`. They speak of
  moments without a dump; a dump relies on a load of many steps before. `Places`
  says who can be changing the file; `File`, of what is neither torn nor a clash,
  that the two chunks are the text of an object that has the promised wallets
  unless a call is amid a dump (`Contents`), that a reader that nobody can disturb
  has read a beginning of it (`HasRead`), and that a dump keeps what is promised
  (`Keeps`).
* `UpdatesRestore`: `UpdateRestores`. `Phase` follows an update that has the file
  to itself: it finds the wallet, has it with the secret that it remembers until
  the delete is written (`Holds`), and does not have it from there until an import
  is written (`Lacks`), of the old secret only after a failure.

Every action has its lemma that it keeps the invariant; the temporal step comes
last. Model-checked only:

* `AllSettle` and `AllAnswered`: liveness.
* `GrowsReachable` of `PrivateNetwork`: `RouteInv` says that no subnet has two
  routes, not that each has one, which the other invariants would have to add.
  (`NetworkFreed` is proved for one access node, which is what the run has too;
  with two, the workload of the other stays.)

## Not modelled, and what is left

* `machines.update` and `k8s.update` on a network (`PrivateNetwork` has deploy,
  add and the deletions). Reading the code shows that an update that drops a
  machine keeps its address reserved, and that the old and the new `Network`
  object of such a call save one after the other.
* Content hashes of contracts, and with them two updates of one contract at the
  same time (`twinDeploymentHandler.ts:74` and `:91`).
* Calls of `handle()` that share gateway names: whose a name contract is that
  two calls found is not said anywhere.
* The ends of the address ranges (`network.ts:308`, `:394`): nothing stops the
  search there.
* The order of writes that are not awaited with the key-value store
  (`base.ts:70`), and `list` and `remove` of that store.
* Rented nodes: a query and one extrinsic each.

Left out for good: the queries of graphql and the grid proxy (read-only), the
transport of RMB and the message bus server (in packages that are not part of
the repository), validation, logging, wording, encryption and signatures.
