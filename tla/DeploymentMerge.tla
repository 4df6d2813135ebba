--------------------------- MODULE DeploymentMerge ---------------------------
(***************************************************************************)
(* How changes to deployments become one batch: the modules turn a user's  *)
(* change into TwinDeployments (DeploymentFactory.UpdateDeployment, the    *)
(* network update of the machine builder, the filter of a deletion), and   *)
(* TwinDeploymentHandler.merge joins those of one node (deployMerge) and   *)
(* of one contract (_updateToLatest) before handle() sends them.           *)
(***************************************************************************)
EXTENDS Integers, FiniteSets, SequencesExt

CONSTANTS
    Nodes,      \* node ids, numbers: the keys of deploymentMap
    Names,      \* names of the workloads that are not networks
    Net,        \* name of the network
    Contents,   \* what a workload may hold (data, metadata, description)
    MaxBatch,   \* bound: TwinDeployments of one call of handle()
    MaxVersion, \* bound: the version of a deployment
    MaxId       \* bound: contract ids

Ids == 1..MaxId
Workload == [name : Names \cup {Net}, version : Nat, content : Contents]
Deployment == [version : Nat, workloads : Seq(Workload)]
NoDeployment == [version |-> 0, workloads |-> <<>>]

ASSUME MergeAssumption ==
    /\ Nodes \subseteq Nat \ {0}
    /\ Net \notin Names
    /\ IsFiniteSet(Names)
    /\ {MaxBatch, MaxVersion, MaxId} \subseteq Nat

VARIABLES
    deployed,  \* contract id -> the deployment its node holds
    location,  \* contract id -> its node, 0 for a contract not created yet
    batch      \* the TwinDeployments that the next handle() will be given

vars == <<deployed, location, batch>>

\* The numbers of a finite set in order, and the elements of a sequence at some
\* positions.  (SetToSortSeq and SelectSeq, in a form that can be proved about.)
Ascending(S) ==
    CHOOSE f \in [1..Cardinality(S) -> S] : \A i, j \in DOMAIN f : i < j => f[i] < f[j]
Only(s, I) == LET at == Ascending(I) IN [k \in 1..Cardinality(I) |-> s[at[k]]]

NamesOf(workloads) == {workloads[i].name : i \in DOMAIN workloads}
Named(workloads, n) == Only(workloads, {i \in DOMAIN workloads : workloads[i].name = n})
IsNet(w) == w.name = Net
Fresh(n, c) == [name |-> n, version |-> 0, content |-> c]

TwinDeployment(op, node, id, d) ==
    [operation |-> op, node |-> node, contract_id |-> id, deployment |-> d]

\* The contracts the user has, each with a deployment of its own.
Live == {id \in Ids : location[id] # 0}

Init ==
    /\ \E n \in Nodes, a \in Names, c \in Contents :
         /\ deployed = [id \in Ids |->
              IF id = 1 THEN [version |-> 0, workloads |-> <<Fresh(Net, c), Fresh(a, c)>>]
                        ELSE NoDeployment]
         /\ location = [id \in Ids |-> IF id = 1 THEN n ELSE 0]
    /\ batch = <<>>
-----------------------------------------------------------------------------
(***************************************************************************)
(* DeploymentFactory.UpdateDeployment.                                     *)
(***************************************************************************)
Differs(wl, w) == w.name = wl.name /\ ~IsNet(w) /\ w.content # wl.content

\* The inner loop, for the workload wl of the old deployment: the workloads of
\* the new one that it visits, up to the first that changes wl.
Visited(wl, new) == {j \in DOMAIN new : \A k \in 1..(j - 1) : ~Differs(wl, new[k])}
Changing(wl, new) == {j \in Visited(wl, new) : Differs(wl, new[j])}

\* The workloads whose inner loop is run: networks and deleted ones are not.
Compared(old, new) ==
    {i \in DOMAIN old.workloads : LET wl == old.workloads[i]
                                  IN ~IsNet(wl) /\ wl.name \in NamesOf(new)}

\* What the inner loops come across that is new, each name once.
Added(old, new) ==
    LET visited == UNION {Visited(old.workloads[i], new) : i \in Compared(old, new)}
        added == Only(new, {j \in visited :
                    /\ new[j].name \notin NamesOf(old.workloads)
                    /\ \A k \in 1..(j - 1) : new[k].name # new[j].name})
    IN [k \in DOMAIN added |-> [added[k] EXCEPT !.version = old.version + 1]]

\* MUTANT: a workload that is changed keeps its version.
ChangeSameVersion(wl, new, version) ==
    IF Changing(wl, new) = {} THEN wl
    ELSE [wl EXCEPT !.content = new[CHOOSE j \in Changing(wl, new) : TRUE].content]

\* MUTANT: every workload that is compared gets the new version.
ChangeAllVersions(wl, new, version) ==
    IF Changing(wl, new) = {} THEN [wl EXCEPT !.version = version + 1]
    ELSE [wl EXCEPT !.content = new[CHOOSE j \in Changing(wl, new) : TRUE].content,
                    !.version = version + 1]

Change(wl, new, version) ==
    IF Changing(wl, new) = {} THEN wl
    ELSE [wl EXCEPT !.content = new[CHOOSE j \in Changing(wl, new) : TRUE].content,
                    !.version = version + 1]

\* MUTANT: workloads that the new deployment does not have are kept.
KeepDeleted(w, new) == TRUE

Kept(w, new) == IsNet(w) \/ w.name \in NamesOf(new)

UpdateDeployment(old, new) ==
    LET all == [i \in DOMAIN old.workloads |-> Change(old.workloads[i], new, old.version)]
                 \o Added(old, new)
    IN [old EXCEPT !.workloads = Only(all, {i \in DOMAIN all : Kept(all[i], new)})]

\* It returns null when nothing differs.
FoundUpdate(old, new) == UpdateDeployment(old, new) # old
-----------------------------------------------------------------------------
(***************************************************************************)
(* TwinDeploymentHandler.merge.                                            *)
(***************************************************************************)
Of(twins, op) == Only(twins, {i \in DOMAIN twins : twins[i].operation = op})

\* MUTANT: the first deployment of a node, without the others'.
JoinFirst(twins) == Head(twins)

\* The deployments of one node become the first of them, with all workloads.
Join(twins) ==
    [Head(twins) EXCEPT !.deployment.workloads =
       FlattenSeq([i \in DOMAIN twins |-> twins[i].deployment.workloads])]

DeployMerge(twins) ==
    LET deploys == Of(twins, "deploy")
        keys == Ascending({deploys[i].node : i \in DOMAIN deploys})
    IN [k \in DOMAIN keys |->
          Join(Only(deploys, {i \in DOMAIN deploys : deploys[i].node = keys[k]}))]

\* MUTANT: a workload that not every update has is always dropped.
DroppedIfMissing(ws, count, version) == Len(ws) < count

\* A workload that some update lacks was deleted by it, unless it is newer.
Dropped(ws, count, version) == Len(ws) < count /\ Head(ws).version <= version

\* The first of the newest workloads with one name.
Newest(ws) ==
    ws[CHOOSE i \in DOMAIN ws : \A j \in DOMAIN ws :
         ws[j].version <= ws[i].version /\ (ws[j].version = ws[i].version => i <= j)]

\* MUTANT: the merged deployment has the version that its node has already.
SameVersion(version) == version

NextVersion(version) == version + 1

\* workloadMap: its names in the order they come in, and what it has for one.
Firsts(twins) ==
    LET all == FlattenSeq([i \in DOMAIN twins |-> twins[i].deployment.workloads])
    IN Only(all, {i \in DOMAIN all : \A j \in 1..(i - 1) : all[j].name # all[i].name})
Versions(twins, n) ==
    FlattenSeq([i \in DOMAIN twins |-> Named(twins[i].deployment.workloads, n)])

UpdateToLatest(twins) ==
    LET version == Head(twins).deployment.version
        firsts == Firsts(twins)
        kept == Only(firsts, {k \in DOMAIN firsts :
                    ~Dropped(Versions(twins, firsts[k].name), Len(twins), version)})
    IN [Head(twins) EXCEPT
          !.deployment.workloads = IF Len(twins) = 1 THEN @
             ELSE [k \in DOMAIN kept |-> Newest(Versions(twins, kept[k].name))],
          !.deployment.version = NextVersion(@)]

UpdateMerge(twins) ==
    LET updates == Of(twins, "update")
        keys == Ascending({updates[i].contract_id : i \in DOMAIN updates})
    IN [k \in DOMAIN keys |->
          UpdateToLatest(Only(updates, {i \in DOMAIN updates :
                                          updates[i].contract_id = keys[k]}))]

\* MUTANT: the update of a contract that is deleted as well is not dropped.
MergeKeepsUpdates(twins) == DeployMerge(twins) \o UpdateMerge(twins) \o Of(twins, "delete")

Merge(twins) ==
    LET deletes == Of(twins, "delete")
        deleted == {deletes[i].contract_id : i \in DOMAIN deletes}
        updates == UpdateMerge(twins)
    IN DeployMerge(twins)
         \o Only(updates, {i \in DOMAIN updates : updates[i].contract_id \notin deleted})
         \o deletes
-----------------------------------------------------------------------------
(***************************************************************************)
(* What the modules ask for, and the handle() that does it.                *)
(***************************************************************************)
Request(t) ==
    /\ Len(batch) < MaxBatch
    /\ batch' = Append(batch, t)
    /\ UNCHANGED <<deployed, location>>

\* A machine, zdb or gateway is deployed on a node; a call names its workloads
\* differently.
Deploy(node, n, c) ==
    /\ \A i \in DOMAIN batch : batch[i].operation = "deploy" /\ batch[i].node = node =>
         n \notin NamesOf(batch[i].deployment.workloads)
    /\ Request(TwinDeployment("deploy", node, 0,
                              [version |-> 0, workloads |-> <<Fresh(n, c)>>]))

\* The options of update() as a deployment: the contents of some workloads.
NewDeployments ==
    {[i \in DOMAIN ns |-> Fresh(ns[i], f[ns[i]])] :
       ns \in {o \in UNION {[1..k -> Names] : k \in 1..Cardinality(Names)} :
                 \A i, j \in DOMAIN o : o[i] = o[j] => i = j},
       f \in [Names -> Contents]}

\* BaseModule._update: nothing is sent when nothing differs.
Update(id, new) ==
    /\ FoundUpdate(deployed[id], new)
    /\ Request(TwinDeployment("update", 0, id, UpdateDeployment(deployed[id], new)))

\* BaseModule._add: the workloads that are there, and a new one. On the null of
\* UpdateDeployment handle() throws before it sends anything.
Add(id, n, c) ==
    LET new == Append(deployed[id].workloads, Fresh(n, c)) IN
    /\ n \notin NamesOf(deployed[id].workloads)
    /\ FoundUpdate(deployed[id], new)
    /\ Request(TwinDeployment("update", 0, id, UpdateDeployment(deployed[id], new)))

\* VMHL.create: a node joins the network, which the other nodes have to learn.
Rewired(w) == IF IsNet(w) THEN [w EXCEPT !.version = @ + 1] ELSE w
UpdateNetwork(id) ==
    LET ws == deployed[id].workloads
    IN /\ Net \in NamesOf(ws)
       /\ Request(TwinDeployment("update", 0, id,
            [deployed[id] EXCEPT !.workloads = [i \in DOMAIN ws |-> Rewired(ws[i])]]))

\* HighLevelBase._delete, of the named workloads: with its last machine a node
\* may leave the network too. A deployment with nothing left is deleted.
Delete(id, names) ==
    LET ws == deployed[id].workloads
        left == Only(ws, {i \in DOMAIN ws : ws[i].name \notin names})
    IN /\ Len(left) < Len(ws)
       /\ Request(IF left = <<>>
                  THEN TwinDeployment("delete", 0, id, deployed[id])
                  ELSE TwinDeployment("update", 0, id, [deployed[id] EXCEPT !.workloads = left]))

\* handle(): the contracts of the deploys take the next ids.
Handle ==
    LET merged == Merge(batch)
        deploys == Of(merged, "deploy")
        first == Cardinality(Live) + 1
        New(id) == deploys[id - first + 1]
        isNew(id) == id \in first..(first + Len(deploys) - 1)
        Changes(id, op) == {i \in DOMAIN merged :
                             merged[i].contract_id = id /\ merged[i].operation = op}
    IN /\ batch # <<>>
       /\ first + Len(deploys) - 1 <= MaxId
       /\ \A i \in DOMAIN merged : merged[i].deployment.version <= MaxVersion
       /\ deployed' = [id \in Ids |->
            IF isNew(id) THEN New(id).deployment
            ELSE IF Changes(id, "delete") # {} THEN NoDeployment
            ELSE IF Changes(id, "update") # {}
                 THEN merged[CHOOSE i \in Changes(id, "update") : TRUE].deployment
            ELSE deployed[id]]
       /\ location' = [id \in Ids |-> IF isNew(id) THEN New(id).node ELSE location[id]]
       /\ batch' = <<>>

Next ==
    \/ \E node \in Nodes, n \in Names, c \in Contents : Deploy(node, n, c)
    \/ \E id \in Live :
         \/ \E new \in NewDeployments : Update(id, new)
         \/ \E n \in Names, c \in Contents : Add(id, n, c)
         \/ \E names \in SUBSET (Names \cup {Net}) : Delete(id, names)
         \/ UpdateNetwork(id)
    \/ Handle

Spec == Init /\ [][Next]_vars
-----------------------------------------------------------------------------
(***************************************************************************)
(* Properties.                                                             *)
(***************************************************************************)
\* A node holds each workload once, none newer than its deployment.
TypeOK ==
    /\ deployed \in [Ids -> Deployment]
    /\ location \in [Ids -> Nodes \cup {0}]
    /\ batch \in Seq([operation : {"deploy", "update", "delete"}, node : Nodes \cup {0},
                      contract_id : Ids \cup {0}, deployment : Deployment])
    /\ \A id \in Ids : LET ws == deployed[id].workloads IN
         \A i, j \in DOMAIN ws : /\ ws[i].version <= deployed[id].version
                                 /\ (ws[i].name = ws[j].name => i = j)

\* What handle() relies on when it walks a batch: a node gets one deployment,
\* a contract one update, and a contract that is deleted none; every deletion
\* that was asked for is in it.
MergedOnce ==
    LET merged == Merge(batch) IN
    /\ \A i, j \in DOMAIN merged :
         /\ (/\ merged[i].operation = "deploy" /\ merged[j].operation = "deploy"
             /\ merged[i].node = merged[j].node) => i = j
         /\ (/\ merged[i].operation = "update" /\ merged[j].operation # "deploy"
             /\ merged[i].contract_id = merged[j].contract_id) => i = j
    /\ Of(merged, "delete") = Of(batch, "delete")

\* deployMerge loses no workload, doubles none and moves none to another node.
DeploysJoined ==
    LET asked == Of(batch, "deploy")
        merged == Of(Merge(batch), "deploy")
        On(twins, node) == FlattenSeq([i \in DOMAIN twins |->
            IF twins[i].node = node THEN twins[i].deployment.workloads ELSE <<>>])
    IN \A node \in Nodes : On(merged, node) = On(asked, node)

\* _updateToLatest merges updates of one contract "to one deployment with all
\* updates": if no two of them do different things to one workload, every
\* change, addition and removal of each of them is in the result, and nothing
\* else has changed.
At(workloads, n) == ToSet(Named(workloads, n))
UpdatesApplied ==
    \A id \in Live :
        LET twins == Only(batch, {i \in DOMAIN batch : /\ batch[i].operation = "update"
                                                       /\ batch[i].contract_id = id})
            base == deployed[id].workloads
            Edits(n) == {At(twins[i].deployment.workloads, n) : i \in DOMAIN twins}
                          \ {At(base, n)}
            merged == UpdateToLatest(twins).deployment
            all == NamesOf(base) \cup UNION {NamesOf(twins[i].deployment.workloads) :
                                              i \in DOMAIN twins}
        IN (twins # <<>> /\ \A n \in all : Cardinality(Edits(n)) <= 1) =>
             /\ merged.version = deployed[id].version + 1
             /\ \A n \in all : At(merged.workloads, n) =
                                IF Edits(n) = {} THEN At(base, n) ELSE UNION Edits(n)
             /\ NamesOf(merged.workloads) \subseteq all

\* UpdateDeployment does what the new deployment says, when that changes and
\* removes workloads or else only adds some.
Holds(workloads) == {<<w.name, w.content>> : w \in {v \in ToSet(workloads) : ~IsNet(v)}}
UpdateExact ==
    \A id \in Live : \A new \in NewDeployments :
        LET old == deployed[id].workloads IN
        (\/ NamesOf(new) \subseteq NamesOf(old)
         \/ Holds(old) # {} /\ Holds(old) \subseteq Holds(new))
        => Holds(UpdateDeployment(deployed[id], new).workloads) = Holds(new)

\* The comments of UpdateDeployment: it adds the new workloads and removes the
\* deleted ones.
NewWorkloadsAdded ==
    \A id \in Live : \A new \in NewDeployments :
        Holds(deployed[id].workloads) # {} =>
            NamesOf(new) \subseteq NamesOf(UpdateDeployment(deployed[id], new).workloads)

\* What a node goes by: a workload whose content changes, or that is new, has
\* the version of its deployment, and one that is not changed keeps its own, or
\* the node would deploy it again. The network's version counts its own
\* changes, one in a batch.
ChangeVersioned ==
    [][Handle => \A id \in Live :
        LET old == deployed[id].workloads
            new == deployed'[id].workloads
        IN \A w \in ToSet(new) :
             IF At(old, w.name) = {} THEN w.version = deployed'[id].version
             ELSE \A v \in At(old, w.name) :
                    IF w.content # v.content THEN w.version = deployed'[id].version
                    ELSE IF IsNet(w) THEN w.version \in {v.version, v.version + 1}
                    ELSE w.version = v.version]_vars
=============================================================================
