------------------------------ MODULE TFClient ------------------------------
(***************************************************************************)
(* The TFClient objects of a process: queries and extrinsics of concurrent *)
(* callers, the static lock that serialises the extrinsics of all clients, *)
(* the connection each client opens on demand, and the callback that turns *)
(* the events of a finalized extrinsic into the answer of the call.        *)
(***************************************************************************)
EXTENDS Naturals, Sequences, FiniteSets

CONSTANTS
    Calls,           \* the calls made in the life of the process
    NoCall,
    Clients,         \* the TFClient objects (url, mnemonic, key type)
    ClientOf,        \* [Calls -> Clients]
    Section,         \* [Calls -> resultSection of the extrinsic, or "query"]
    MaxConnections,  \* bound: how often a client can be initialised
    Faults           \* what may go wrong outside src/

\* The keys of ErrorsMap, and the sections whose extrinsics src/ applies.
ErrorsMap == {"smartContractModule", "tfgridModule", "tfkvStore"}
Sections == ErrorsMap \cup {"balances"}

FaultKinds ==
    {"init",        \* the connection cannot be established
     "refused",     \* a method throws and nothing reached the chain
     "unanswered",  \* a method throws though the chain got the extrinsic
     "watch",       \* the callback is given an Error
     "failed",      \* ExtrinsicFailed with the error of a module
     "failedOther", \* ExtrinsicFailed with another error (no .module)
     "dropped",     \* the chain drops the extrinsic from its pool
     "disconnect"}  \* GridClient.disconnect, or the connection is lost

ASSUME ClientAssumption ==
    /\ NoCall \notin Calls
    /\ ClientOf \in [Calls -> Clients]
    /\ Section \in [Calls -> Sections \cup {"query"}]
    /\ MaxConnections \in Nat
    /\ Faults \subseteq FaultKinds

VARIABLES
    pc,      \* call: the step it awaits
    holder,  \* the call that holds TFClient.lock
    queue,   \* the calls that wait for the lock, oldest first
    api,     \* client: its connection (client.api), 0 if it has none
    next,    \* the next connection
    open,    \* the connections that are open
    via,     \* call: the connection its extrinsic is watched on
    tx       \* call: its extrinsic on the chain

lock == <<holder, queue>>
links == <<api, next, open>>
vars == <<pc, lock, links, via, tx>>

Connections == 1..MaxConnections
IsQuery(c) == Section[c] = "query"
Answered(c) == pc[c] \in {"resolved", "rejected"}

Init ==
    /\ pc = [c \in Calls |-> "idle"]
    /\ holder = NoCall
    /\ queue = <<>>
    /\ api = [u \in Clients |-> 0]
    /\ next = 1
    /\ open = {}
    /\ via = [c \in Calls |-> 0]
    /\ tx = [c \in Calls |-> "none"]
-----------------------------------------------------------------------------
Settle(c, outcome) == pc' = [pc EXCEPT ![c] = outcome] /\ UNCHANGED lock

\* lock.release(): it passes to the call that has waited longest.
SettleAndRelease(c, outcome) ==
    IF queue = <<>>
    THEN /\ pc' = [pc EXCEPT ![c] = outcome]
         /\ holder' = NoCall
         /\ UNCHANGED queue
    ELSE /\ pc' = [pc EXCEPT ![c] = outcome, ![Head(queue)] = "connect"]
         /\ holder' = Head(queue)
         /\ queue' = Tail(queue)

\* MUTANT: the lock is released after the result, not in a finally.
AnswerNoFinally(c, outcome) ==
    IF c = holder /\ outcome = "resolved" THEN SettleAndRelease(c, outcome)
                                          ELSE Settle(c, outcome)

\* MUTANT: queries release the lock as well.
AnswerReleases(c, outcome) == SettleAndRelease(c, outcome)

\* The promise of the call settles; an extrinsic releases the lock, in a finally.
Answer(c, outcome) ==
    IF c = holder THEN SettleAndRelease(c, outcome) ELSE Settle(c, outcome)

\* queryChain connects at once, applyExtrinsic awaits the lock first.
Call(c) ==
    /\ pc[c] = "idle"
    /\ IF IsQuery(c)
       THEN pc' = [pc EXCEPT ![c] = "connect"] /\ UNCHANGED lock
       ELSE IF holder = NoCall
       THEN /\ pc' = [pc EXCEPT ![c] = "connect"]
            /\ holder' = c
            /\ UNCHANGED queue
       ELSE /\ pc' = [pc EXCEPT ![c] = "locked"]
            /\ queue' = Append(queue, c)
            /\ UNCHANGED holder
    /\ UNCHANGED <<links, via, tx>>

IsConnected(u) == api[u] # 0 /\ api[u] \in open

\* MUTANT: connect() does not look whether the client is connected.
AlwaysInit(u) == TRUE

MustInit(u) == ~IsConnected(u)

Connect(c) ==
    /\ pc[c] = "connect"
    /\ pc' = [pc EXCEPT ![c] = IF MustInit(ClientOf[c]) THEN "init" ELSE "apply"]
    /\ UNCHANGED <<lock, links, via, tx>>

\* client.init() gives the client a new connection, whatever it had before.
NewConnection(u) ==
    /\ next \in Connections
    /\ api' = [api EXCEPT ![u] = next]
    /\ open' = open \cup {next}
    /\ next' = next + 1

InitDone(c) ==
    /\ pc[c] = "init"
    /\ \/ /\ NewConnection(ClientOf[c])
          /\ pc' = [pc EXCEPT ![c] = "apply"]
          /\ UNCHANGED lock
       \/ "init" \in Faults /\ Answer(c, "rejected") /\ UNCHANGED links
    /\ UNCHANGED <<via, tx>>

\* A query is answered; it changes nothing.
ApplyQuery(c) ==
    /\ pc[c] = "apply" /\ IsQuery(c)
    /\ \/ IsConnected(ClientOf[c]) /\ Answer(c, "resolved")
       \/ ("refused" \in Faults \/ ~IsConnected(ClientOf[c])) /\ Answer(c, "rejected")
    /\ UNCHANGED <<links, via, tx>>

\* An extrinsic is signed, submitted and watched.  When the method throws,
\* the promise rejects.
Submit(c) ==
    /\ pc[c] = "apply" /\ ~IsQuery(c)
    /\ \/ /\ IsConnected(ClientOf[c])
          /\ tx' = [tx EXCEPT ![c] = "pool"]
          /\ via' = [via EXCEPT ![c] = api[ClientOf[c]]]
          /\ \/ pc' = [pc EXCEPT ![c] = "watch"] /\ UNCHANGED lock
             \/ "unanswered" \in Faults /\ Answer(c, "rejected")
       \/ /\ "refused" \in Faults \/ ~IsConnected(ClientOf[c])
          /\ Answer(c, "rejected")
          /\ UNCHANGED <<tx, via>>
    /\ UNCHANGED links

\* ErrorsMap[resultSection][....module.error] has a value, not a TypeError:
\* a TypeError in the callback settles nothing.
CanReject(c) == tx[c] = "failed" /\ Section[c] \in ErrorsMap

\* MUTANT: any event of the section resolves, also that of a failure.
ResolvesAnyway(c) == tx[c] \in {"ok", "failed"}

\* The extrinsic succeeded: there is an event of resultNames.
CanResolve(c) == tx[c] = "ok"

\* callback is called with the finalized status of the extrinsic.
Finalized(c) ==
    /\ pc[c] = "watch"
    /\ via[c] \in open
    /\ \/ CanResolve(c) /\ Answer(c, "resolved")
       \/ CanReject(c) /\ Answer(c, "rejected")
    /\ UNCHANGED <<links, via, tx>>

\* callback is called with an Error.
WatchError(c) ==
    /\ pc[c] = "watch"
    /\ "watch" \in Faults
    /\ Answer(c, "rejected")
    /\ UNCHANGED <<links, via, tx>>
-----------------------------------------------------------------------------
(***************************************************************************)
(* The environment (external).                                             *)
(***************************************************************************)
Execute(c) ==
    /\ tx[c] = "pool"
    /\ \E s \in {"ok"} \cup ({"failed", "failedOther", "dropped"} \cap Faults) :
         tx' = [tx EXCEPT ![c] = s]
    /\ UNCHANGED <<pc, lock, links, via>>

Disconnect(u) ==
    /\ "disconnect" \in Faults
    /\ IsConnected(u)
    /\ open' = open \ {api[u]}
    /\ UNCHANGED <<pc, lock, api, next, via, tx>>

Step(c) ==
    Connect(c) \/ InitDone(c) \/ ApplyQuery(c) \/ Submit(c) \/ Finalized(c)

Next ==
    \/ \E c \in Calls : Call(c) \/ Step(c) \/ WatchError(c) \/ Execute(c)
    \/ \E u \in Clients : Disconnect(u)

Spec == Init /\ [][Next]_vars

\* The event loop runs every continuation, and the chain works off its pool.
\* Nobody has to call, to disconnect or to fail.
FairSpec == Spec /\ \A c \in Calls : WF_vars(Step(c)) /\ WF_vars(Execute(c))
-----------------------------------------------------------------------------
(***************************************************************************)
(* Properties.                                                             *)
(***************************************************************************)
InCharge == {"connect", "init", "apply", "watch"}

Typed ==
    /\ pc \in [Calls -> InCharge \cup {"idle", "locked", "resolved", "rejected"}]
    /\ holder \in Calls \cup {NoCall}
    /\ queue \in Seq(Calls)
    /\ next \in Nat \ {0}
    /\ api \in [Clients -> 0..(next - 1)]
    /\ open \subseteq 1..(next - 1)
    /\ via \in [Calls -> 0..(next - 1)]
    /\ tx \in [Calls -> {"none", "pool", "ok", "failed", "failedOther", "dropped"}]

Working(c) == ~IsQuery(c) /\ pc[c] \in InCharge

\* Every variable has its type, and whoever holds the lock is at work.
TypeOK == Typed /\ (holder # NoCall => Working(holder))

\* The lock does what it is there for: extrinsics, of all clients, are between
\* connecting and their answer one at a time, so that no two of them are
\* signed with the same nonce.
OneAtATime == \A c, d \in Calls : Working(c) /\ Working(d) => c = d

\* As long as no answer is lost, the chain has at most one of them at a time.
OneInPool == \A c, d \in Calls : tx[c] = "pool" /\ tx[d] = "pool" => c = d

\* Refinement of SerialExtrinsics: the chain executes the extrinsics in the
\* order of the calls, a call that resolves was executed and, unless its
\* answer can be lost, one that rejects was not.
Extrinsic == {c \in Calls : ~IsQuery(c)}
Line == IF holder = NoCall THEN <<>> ELSE <<holder>> \o queue
Executed == {c \in Extrinsic : tx[c] = "ok"}
AnswerOf == [c \in Extrinsic |-> IF Answered(c) THEN pc[c] ELSE "none"]

Serial == INSTANCE SerialExtrinsics WITH
    Extrinsics <- Extrinsic, Late <- Faults \cap {"unanswered", "watch"} # {},
    line <- Line, executed <- Executed, answer <- AnswerOf

ImplementsSerial == Serial!SerialSpec

\* Extrinsics connect while they hold the lock: only a query can open a second
\* connection of its client, which the client's disconnect() does not close.
Orphans == open \ {api[u] : u \in Clients}
OneConnection == Cardinality(Orphans) <= Cardinality({c \in Calls : IsQuery(c)})

\* An extrinsic whose callback will not be called, or only to throw: the chain
\* dropped it, its connection is lost, or it failed with an error that is not
\* one of a module.
Hung(c) ==
    /\ pc[c] = "watch"
    /\ tx[c] \in {"dropped", "failedOther"} \/ via[c] \notin open

\* A query is always answered, and an extrinsic, which may have to wait for the
\* lock, unless one of them hangs for ever: whatever else goes wrong, the lock
\* is passed on.
AllAnswered ==
    \A c \in Calls :
        IsQuery(c) \/ (\A d \in Calls : []<>~Hung(d)) => (pc[c] # "idle" ~> Answered(c))
=============================================================================
