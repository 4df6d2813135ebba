---------------------------- MODULE WalletStore ----------------------------
(***************************************************************************)
(* The stellar module and the storage below it.  All wallets of a user are *)
(* one object in one file, which every operation reads, changes and writes *)
(* back as a whole.  On the file system a read or a write is one step.  In *)
(* the key-value store of the chain a long text is cut into chunks with a  *)
(* key each; every chunk is an extrinsic of its own to write, and a query  *)
(* of its own to read.                                                     *)
(*                                                                         *)
(* A text is the sequence of the wallets and a closing mark.  A chunk holds*)
(* ChunkSize of these tokens: a cut inside of a wallet is not modelled.    *)
(***************************************************************************)
EXTENDS Integers, SequencesExt

CONSTANTS
    Calls,       \* calls of the stellar module, each of one operation
    Names,       \* names of wallets
    Secrets,
    NoSecret, End,\* no secret; the closing mark of a text
    Backends,    \* "fs" (localstorage is alike) and "tfkvstore"
    ChunkSize,   \* tokens of a chunk: SPLIT_SIZE
    MaxChunks,   \* bound: keys that are modelled
    Requests,    \* what is asked of the module
    FirstWallets,\* what the file may hold at first
    Faults       \* "account", "write", "crash"

Wallet == [name : Names, secret : Secrets]
Request == [op : {"import", "update", "delete"}, name : Names, secret : Secrets]

ASSUME WalletAssumption ==
    /\ Backends \subseteq {"fs", "tfkvstore"} /\ NoSecret \notin Secrets
    /\ ChunkSize \in Nat \ {0} /\ MaxChunks \in Nat \ {0}
    /\ Requests \subseteq Request /\ Requests # {}
    /\ End \notin Wallet
    \* The object of the file has one wallet of a name.
    /\ \A d \in FirstWallets :
         /\ d \in Seq(Wallet)
         /\ \A i, j \in DOMAIN d : d[i].name = d[j].name => i = j
    \* The bound MaxChunks is enough for a wallet of every name.
    /\ IsFiniteSet(Names) /\ Cardinality(Names) < ChunkSize * (MaxChunks + 1)

VARIABLES
    backend,     \* the kind of storage, which never changes
    entry,       \* key -> the text below it; the key is what is added to the file's name
    call, stage, \* call -> its request, what it does next
    restoring,   \* the updates that import the old secret again
    old,         \* call -> the secret an update has found
    text,        \* call -> what it has read so far
    chunks,      \* call -> how many it has read or written
    writes,      \* call -> the chunks that are left to write
    failures,    \* call -> accounts and writes that failed
    promised,    \* the wallets of the imports that returned, until they are changed
    alone,       \* the calls that have had the file to themselves
    torn,        \* there is, or was left, what does not read back (see Properties)
    clash        \* two calls were changing the file at once

vars == <<backend, entry, call, stage, restoring, old, text, chunks, writes,
          failures, promised, alone, torn, clash>>
ghosts == <<failures, promised, alone, torn>>
-----------------------------------------------------------------------------
(***************************************************************************)
(* Wallets, texts and keys.                                                *)
(***************************************************************************)
Has(data, n) == \E i \in DOMAIN data : data[i].name = n
PlaceOf(data, n) == CHOOSE i \in DOMAIN data : data[i].name = n
SecretOf(data, n) == data[PlaceOf(data, n)].secret
\* data[name] = secret keeps the place of a name that is there.
Put(data, w) ==
    IF Has(data, w.name)
    THEN [i \in DOMAIN data |-> IF data[i].name = w.name THEN w ELSE data[i]]
    ELSE Append(data, w)
Without(data, n) == IF Has(data, n) THEN RemoveAt(data, PlaceOf(data, n)) ELSE data

Text(data) == Append(data, End)
WellFormed(t) == t = <<>> \/ \A i \in DOMAIN t : t[i] = End <=> i = Len(t)
Parsed(t) ==
    LET data[i \in 0..(Len(t) - 1)] == IF i = 0 THEN <<>> ELSE Put(data[i - 1], t[i])
    IN IF t = <<>> THEN <<>> ELSE data[Len(t) - 1]

\* split() numbers the keys; get() adds each number to the key before it.
\* Mutant: split() numbers from two.
WrittenKeyFromTwo(i) == IF i = 0 THEN <<>> ELSE <<i + 1>>
WrittenKey(i) == IF i = 0 THEN <<>> ELSE <<i>>
ReadKey(i) == [j \in 1..i |-> j]
Keys == {WrittenKey(i) : i \in 0..MaxChunks} \cup {ReadKey(i) : i \in 0..MaxChunks}
At(k) == IF k \in Keys THEN entry[k] ELSE <<>>

\* split() leaves a last chunk that may be as long as the others.
Cut(t) ==
    LET n == (Len(t) + ChunkSize - 1) \div ChunkSize
    IN [i \in 1..n |-> SubSeq(t, (i - 1) * ChunkSize + 1,
                               IF i = n THEN Len(t) ELSE i * ChunkSize)]
Pieces(t) == IF backend = "fs" THEN <<t>> ELSE Cut(t)

Init ==
    /\ backend \in Backends
    /\ \E data \in FirstWallets :
       /\ torn = (Len(Pieces(Text(data))) > 2)
       /\ entry = [k \in Keys |->
                    IF data = <<>> THEN <<>>
                    ELSE LET p == Pieces(Text(data))
                         IN IF \E i \in DOMAIN p : WrittenKey(i - 1) = k
                            THEN p[CHOOSE i \in DOMAIN p : WrittenKey(i - 1) = k] ELSE <<>>]
    /\ call \in [Calls -> {CHOOSE r \in Requests : TRUE}]
    /\ stage = [c \in Calls |-> "idle"]
    /\ restoring = {}
    /\ old = [c \in Calls |-> NoSecret]
    /\ text = [c \in Calls |-> <<>>]
    /\ chunks = [c \in Calls |-> 0]
    /\ writes = [c \in Calls |-> <<>>]
    /\ failures = [c \in Calls |-> 0]
    /\ promised = {} /\ alone = {} /\ clash = FALSE
-----------------------------------------------------------------------------
(***************************************************************************)
(* The stages of a call.                                                   *)
(***************************************************************************)
Loads == {"exist", "secret", "deleteCheck", "deleteLoad", "saveCheck", "saveLoad"}
Dumps == {"deleteDump", "saveDump"}
Settled == {"idle", "returned", "threw", "crashed"}
Op(c) == call[c].op
Name(c) == call[c].name
\* Mutant: the catch of update() imports the new secret again.
SecretNew(c) == call[c].secret
Secret(c) == IF c \in restoring THEN old[c] ELSE call[c].secret

Begin(c) ==
    /\ stage[c] = "idle"
    /\ \E r \in Requests :
         /\ call' = [call EXCEPT ![c] = r]
         /\ stage' = [stage EXCEPT ![c] =
                IF r.op = "import" THEN "account"
                ELSE IF r.op = "update" THEN "exist" ELSE "deleteCheck"]
    /\ LET others == {b \in Calls \ {c} : stage[b] \notin Settled}
       IN alone' = (alone \ others) \cup (IF others = {} THEN {c} ELSE {})
    /\ UNCHANGED <<backend, entry, restoring, old, text, chunks, writes, failures,
                   promised, torn>>

\* An import that fails makes an update import the old secret, once.
\* Mutant: as often as it fails.
Importing == {"account", "saveCheck", "saveLoad", "saveDump"}
RestoresAgain(c) == Op(c) = "update" /\ stage[c] \in Importing
Restores(c) == Op(c) = "update" /\ stage[c] \in Importing /\ c \notin restoring

Fail(c) ==
    /\ IF Restores(c)
       THEN stage' = [stage EXCEPT ![c] = "account"] /\ restoring' = restoring \cup {c}
       ELSE stage' = [stage EXCEPT ![c] = "threw"] /\ UNCHANGED restoring
    /\ text' = [text EXCEPT ![c] = <<>>]
    /\ chunks' = [chunks EXCEPT ![c] = 0]
    /\ writes' = [writes EXCEPT ![c] = <<>>]
    /\ UNCHANGED <<backend, entry, call, old>>

\* The account of the secret exists on the stellar network, or not.
Account(c) ==
    /\ stage[c] = "account"
    /\ \/ /\ Secret(c) # NoSecret
          /\ stage' = [stage EXCEPT ![c] = "saveCheck"]
          /\ UNCHANGED <<backend, entry, call, restoring, old, text, chunks, writes, ghosts>>
       \/ /\ Secret(c) = NoSecret \/ "account" \in Faults
          /\ Fail(c)
          /\ failures' = [failures EXCEPT ![c] = @ + 1]
          /\ UNCHANGED <<promised, alone, torn>>

\* Mutant: save() does not look for the name.
TakenNever(c, data) == FALSE
Taken(c, data) == Has(data, Name(c))

\* load() of what a stage needs it for.
Loaded(c, data) ==
    LET n == Name(c)
        To(s) == /\ stage' = [stage EXCEPT ![c] = s]
                 /\ text' = [text EXCEPT ![c] = <<>>]
                 /\ chunks' = [chunks EXCEPT ![c] = 0]
                 /\ UNCHANGED <<backend, entry, call, restoring>>
        Dump(s, d) == To(s) /\ writes' = [writes EXCEPT ![c] = Pieces(Text(d))]
    IN \/ stage[c] = "exist" /\ Has(data, n) /\ To("secret") /\ UNCHANGED <<old, writes>>
       \/ /\ stage[c] = "secret" /\ To("deleteCheck")
          /\ old' = [old EXCEPT ![c] = IF Has(data, n) THEN SecretOf(data, n) ELSE NoSecret]
          /\ UNCHANGED writes
       \/ stage[c] = "deleteCheck" /\ Has(data, n) /\ To("deleteLoad") /\ UNCHANGED <<old, writes>>
       \/ stage[c] = "deleteLoad" /\ Dump("deleteDump", Without(data, n)) /\ UNCHANGED old
       \/ stage[c] = "saveCheck" /\ ~Taken(c, data) /\ To("saveLoad") /\ UNCHANGED <<old, writes>>
       \/ /\ stage[c] = "saveLoad" /\ UNCHANGED old
          /\ Dump("saveDump", Put(data, [name |-> n, secret |-> Secret(c)]))
       \/ /\ stage[c] \in {"exist", "deleteCheck"} /\ ~Has(data, n) /\ Fail(c)
       \/ stage[c] = "saveCheck" /\ Taken(c, data) /\ Fail(c)

ReadChunk(c) ==
    LET v == At(ReadKey(chunks[c]))
        whole == text[c] \o v
    IN /\ stage[c] \in Loads
       /\ \/ /\ backend = "tfkvstore" /\ v # <<>>
             /\ text' = [text EXCEPT ![c] = whole]
             /\ chunks' = [chunks EXCEPT ![c] = @ + 1]
             /\ UNCHANGED <<backend, entry, call, stage, restoring, old, writes>>
          \/ /\ backend = "fs" \/ v = <<>>
             /\ IF WellFormed(whole) THEN Loaded(c, Parsed(whole)) ELSE Fail(c)
       /\ UNCHANGED ghosts

\* What comes after a dump: an update goes on to import, the others are done.
AfterDump(c) ==
    IF stage[c] = "deleteDump" /\ Op(c) = "update" THEN "account"
    ELSE IF c \in restoring THEN "threw" ELSE "returned"

\* The text is longer than get() finds, or shorter than the one before it.
Tears(c) ==
    backend = "tfkvstore" /\ (chunks[c] > 1 \/ At(WrittenKey(chunks[c] + 1)) # <<>>)

WriteChunk(c) ==
    /\ stage[c] \in Dumps
    /\ entry' = [entry EXCEPT ![WrittenKey(chunks[c])] = Head(writes[c])]
    /\ writes' = [writes EXCEPT ![c] = Tail(@)]
    /\ \/ /\ Len(writes[c]) > 1
          /\ chunks' = [chunks EXCEPT ![c] = @ + 1]
          /\ UNCHANGED <<stage, torn, promised>>
       \/ /\ Len(writes[c]) = 1
          /\ chunks' = [chunks EXCEPT ![c] = 0]
          /\ stage' = [stage EXCEPT ![c] = AfterDump(c)]
          /\ torn' = (torn \/ Tears(c))
          /\ promised' = IF stage[c] = "saveDump"
                         THEN promised \cup {[name |-> Name(c), secret |-> Secret(c)]}
                         ELSE {w \in promised : w.name # Name(c)}
    /\ UNCHANGED <<backend, call, restoring, old, text, failures, alone>>

\* An extrinsic fails: the chunks before it are written.
WriteFails(c) ==
    /\ stage[c] \in Dumps /\ "write" \in Faults
    /\ torn' = (torn \/ chunks[c] > 0)
    /\ failures' = [failures EXCEPT ![c] = @ + 1]
    /\ Fail(c)
    /\ UNCHANGED <<promised, alone>>

Crash(c) ==
    /\ stage[c] \notin Settled /\ "crash" \in Faults
    /\ stage' = [stage EXCEPT ![c] = "crashed"]
    /\ torn' = (torn \/ (stage[c] \in Dumps /\ chunks[c] > 0))
    /\ text' = [text EXCEPT ![c] = <<>>]
    /\ chunks' = [chunks EXCEPT ![c] = 0]
    /\ writes' = [writes EXCEPT ![c] = <<>>]
    /\ UNCHANGED <<backend, entry, call, restoring, old, failures, promised, alone>>

Step(c) == Begin(c) \/ Account(c) \/ ReadChunk(c) \/ WriteChunk(c) \/ WriteFails(c) \/ Crash(c)

\* From the load that a change is based on to the end of its dump.
Changing(c) == stage[c] \in Dumps \cup {"deleteCheck", "deleteLoad", "saveCheck", "saveLoad"}
Next ==
    /\ \E c \in Calls : Step(c)
    /\ clash' = (clash \/ \E b, c \in Calls : b # c /\ Changing(b)' /\ Changing(c)')

Spec == Init /\ [][Next]_vars
-----------------------------------------------------------------------------
(***************************************************************************)
(* Properties.                                                             *)
(***************************************************************************)
Token == Wallet \cup {End}
TypeOK ==
    /\ backend \in Backends
    /\ entry \in [Keys -> Seq(Token)]
    /\ call \in [Calls -> Request]
    /\ stage \in [Calls -> Settled \cup Loads \cup Dumps \cup {"account"}]
    /\ restoring \subseteq Calls /\ old \in [Calls -> Secrets \cup {NoSecret}]
    /\ text \in [Calls -> Seq(Token)] /\ writes \in [Calls -> Seq(Seq(Token))]
    /\ chunks \in [Calls -> 0..(MaxChunks + 1)] /\ failures \in [Calls -> 0..2]
    /\ \A c \in Calls : stage[c] \in Dumps <=> writes[c] # <<>>
    /\ promised \subseteq Wallet /\ alone \subseteq Calls
    /\ torn \in BOOLEAN /\ clash \in BOOLEAN

\* What get() returns when nothing else happens.
Readable ==
    IF backend = "fs" THEN entry[<<>>]
    ELSE LET n == CHOOSE i \in 0..(MaxChunks + 1) :
                     At(ReadKey(i)) = <<>> /\ \A j \in 0..(i - 1) : At(ReadKey(j)) # <<>>
         IN FlattenSeq([i \in 1..n |-> At(ReadKey(i - 1))])

\* Unless a text took more than two chunks, or fewer than the one before it,
\* or two calls changed the file at once, or a write stopped midway, the file
\* reads back whenever no call is writing it.
ReadsBack ==
    ~torn /\ ~clash /\ (\A c \in Calls : stage[c] \in Dumps => chunks[c] = 0)
        => WellFormed(Readable)

\* Under the same conditions a wallet whose import returned keeps its secret
\* until a call deletes or updates it.
WalletsKept ==
    ~torn /\ ~clash /\ (\A c \in Calls : stage[c] \in Dumps => chunks[c] = 0)
        => promised \subseteq Range(Parsed(Readable))

\* An update that has the file to itself leaves the wallet with the new secret
\* if it returns, and with the old one if it throws after at most one failure.
Restored(c) ==
    (/\ stage[c] \notin Settled /\ stage'[c] \in {"returned", "threw"}
     /\ Op(c) = "update" /\ c \in alone' /\ old[c] # NoSecret
     /\ ~torn' /\ ~clash' /\ failures'[c] <= 1)
    => LET data == Parsed(Readable)'
       IN /\ Has(data, Name(c))
          /\ SecretOf(data, Name(c)) = IF stage'[c] = "returned" THEN call[c].secret ELSE old[c]
UpdateRestores == [][\A c \in Calls : Restored(c)]_vars
=============================================================================
