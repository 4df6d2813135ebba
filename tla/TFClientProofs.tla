--------------------------- MODULE TFClientProofs ---------------------------
(***************************************************************************)
(* Proofs about TFClient, for every set of calls, clients and faults: the  *)
(* lock admits one extrinsic at a time, and the calls are executed and     *)
(* answered in the order in which they were made (SerialExtrinsics).       *)
(***************************************************************************)
EXTENDS TFClient, SequenceTheorems, FiniteSetTheorems, TLAPS

Late == Faults \cap {"unanswered", "watch"} # {}

\* The lock is held by the one extrinsic at work; the calls that wait for it
\* are distinct, and there are none while nobody holds it.
LockInv ==
    /\ holder # NoCall => Working(holder)
    /\ \A c \in Calls : Working(c) => c = holder
    /\ \A i \in 1..Len(queue) : pc[queue[i]] = "locked" /\ ~IsQuery(queue[i])
    /\ \A i, j \in 1..Len(queue) : queue[i] = queue[j] => i = j
    /\ holder = NoCall => queue = <<>>

\* An extrinsic is unknown to the chain until it is submitted, and is in the
\* pool only while its call watches it, unless its answer was lost.
TxInv ==
    \A c \in Calls :
        /\ pc[c] \in {"idle", "locked", "connect", "init", "apply"} => tx[c] = "none"
        /\ tx[c] # "none" => ~IsQuery(c)
        /\ tx[c] = "pool" => pc[c] = "watch" \/ (Late /\ pc[c] = "rejected")

IInv == Typed /\ LockInv /\ TxInv
-----------------------------------------------------------------------------
(***************************************************************************)
(* The effect of answering a call on the lock.                             *)
(***************************************************************************)
\* The call that answers is not among those that wait.
LEMMA NotWaiting ==
    ASSUME IInv, NEW c \in Calls, pc[c] # "locked"
    PROVE  \A i \in 1..Len(queue) : queue[i] # c
BY DEF IInv, LockInv

\* The first call that waits, and the calls behind it.
LEMMA FirstWaiting ==
    ASSUME IInv, queue # <<>>
    PROVE  /\ Head(queue) \in Calls /\ pc[Head(queue)] = "locked"
           /\ ~IsQuery(Head(queue))
           /\ Tail(queue) \in Seq(Calls)
           /\ Len(queue) \in Nat \ {0}
           /\ Len(Tail(queue)) = Len(queue) - 1
           /\ \A i \in 1..Len(Tail(queue)) :
                 i + 1 \in 1..Len(queue) /\ Tail(queue)[i] = queue[i + 1]
<1>1. queue \in Seq(Calls)
  BY DEF IInv, Typed
<1>2. Len(queue) \in Nat \ {0} /\ Head(queue) = queue[1] /\ Head(queue) \in Calls
  BY <1>1, EmptySeq, HeadTailProperties
<1>3. /\ Tail(queue) \in Seq(Calls)
      /\ Len(Tail(queue)) = Len(queue) - 1
      /\ \A i \in 1..Len(Tail(queue)) : Tail(queue)[i] = queue[i + 1]
  BY <1>1, HeadTailProperties
<1>4. \A i \in 1..Len(Tail(queue)) : i + 1 \in 1..Len(queue)
  BY <1>2, <1>3
<1>5. 1 \in 1..Len(queue)
  BY <1>2
<1> QED
  BY <1>2, <1>3, <1>4, <1>5 DEF IInv, LockInv

\* Answering a call keeps the types and the invariant of the lock.
LEMMA AnswerKeeps ==
    ASSUME IInv, NEW c \in Calls, pc[c] \in InCharge,
           NEW o \in {"resolved", "rejected"}, Answer(c, o)
    PROVE  /\ pc' \in [Calls -> InCharge \cup {"idle", "locked", "resolved", "rejected"}]
           /\ holder' \in Calls \cup {NoCall}
           /\ queue' \in Seq(Calls)
           /\ LockInv'
           /\ pc'[c] = o
           /\ \A d \in Calls \ {c} :
                pc'[d] = pc[d] \/ (pc[d] = "locked" /\ pc'[d] = "connect")
<1> USE DEF InCharge
<1>1. CASE c # holder
  <2>1. pc' = [pc EXCEPT ![c] = o] /\ UNCHANGED lock
    BY <1>1 DEF Answer, Settle
  <2>2. IsQuery(c)
    BY <1>1 DEF IInv, LockInv, Working
  <2>3. LockInv'
    <3>1. \A d \in Calls : Working(d)' => Working(d)
      BY <2>1 DEF Working, IInv, Typed, IsQuery
    <3>2. holder # NoCall => Working(holder)'
      BY <1>1, <2>1 DEF IInv, LockInv, Working, Typed, lock, IsQuery
    <3>3. \A i \in 1..Len(queue) : queue[i] \in Calls
      BY DEF IInv, Typed
    <3> QED
      BY <2>1, <3>1, <3>2, <3>3, NotWaiting DEF IInv, LockInv, lock, Typed, IsQuery
  <2> QED
    BY <2>1, <2>3 DEF IInv, Typed, lock
<1>2. CASE c = holder /\ queue = <<>>
  <2>1. pc' = [pc EXCEPT ![c] = o] /\ holder' = NoCall /\ queue' = queue
    BY <1>2 DEF Answer, SettleAndRelease
  <2>2. LockInv'
    <3>1. \A d \in Calls : ~Working(d)'
      BY <1>2, <2>1 DEF Working, IInv, LockInv, Typed, IsQuery
    <3> QED
      BY <1>2, <2>1, <3>1 DEF LockInv
  <2> QED
    BY <2>1, <2>2 DEF IInv, Typed
<1>3. CASE c = holder /\ queue # <<>>
  <2> DEFINE n == Head(queue)
  <2>1. pc' = [pc EXCEPT ![c] = o, ![n] = "connect"] /\ holder' = n /\ queue' = Tail(queue)
    BY <1>3 DEF Answer, SettleAndRelease
  <2>2. /\ n \in Calls /\ pc[n] = "locked" /\ ~IsQuery(n) /\ n # c
        /\ Tail(queue) \in Seq(Calls)
        /\ Len(queue) \in Nat \ {0}
        /\ Len(Tail(queue)) = Len(queue) - 1
        /\ \A i \in 1..Len(Tail(queue)) :
              i + 1 \in 1..Len(queue) /\ Tail(queue)[i] = queue[i + 1]
    BY <1>3, FirstWaiting
  <2>3. /\ pc'[c] = o /\ pc'[n] = "connect"
        /\ \A d \in Calls \ {c, n} : pc'[d] = pc[d]
        /\ pc' \in [Calls -> InCharge \cup {"idle", "locked", "resolved", "rejected"}]
    BY <2>1, <2>2 DEF IInv, Typed
  <2> HIDE DEF n
  <2>4. LockInv'
    <3>1. holder' # NoCall => Working(holder)'
      BY <2>1, <2>2, <2>3 DEF Working, IsQuery
    <3>2. \A d \in Calls : Working(d)' => d = holder'
      BY <1>3, <2>1, <2>3 DEF Working, IsQuery, IInv, LockInv
    <3>3. n = queue[1] /\ 1 \in 1..Len(queue)
      BY <1>3, <2>2, HeadTailProperties DEF n, IInv, Typed
    <3>4. \A i \in 1..Len(Tail(queue)) :
             /\ Tail(queue)[i] \in Calls \ {c, n}
             /\ pc[Tail(queue)[i]] = "locked" /\ ~IsQuery(Tail(queue)[i])
      <4> SUFFICES ASSUME NEW i \in 1..Len(Tail(queue))
                   PROVE  /\ queue[i + 1] \in Calls \ {c, n}
                          /\ pc[queue[i + 1]] = "locked" /\ ~IsQuery(queue[i + 1])
        BY <2>2
      <4>1. i + 1 \in 1..Len(queue) /\ i + 1 # 1
        BY <2>2
      <4>2. queue[i + 1] # n
        BY <4>1, <3>3 DEF IInv, LockInv
      <4> QED
        BY <4>1, <4>2 DEF IInv, LockInv, Typed
    <3>5. \A i \in 1..Len(queue') : pc'[queue'[i]] = "locked" /\ ~IsQuery(queue'[i])
      BY <2>1, <2>3, <3>4
    <3>6. \A i, j \in 1..Len(queue') : queue'[i] = queue'[j] => i = j
      <4> SUFFICES ASSUME NEW i \in 1..Len(Tail(queue)), NEW j \in 1..Len(Tail(queue)),
                          queue[i + 1] = queue[j + 1]
                   PROVE  i = j
        BY <2>1, <2>2
      <4>1. i + 1 = j + 1
        BY <2>2 DEF IInv, LockInv
      <4> QED
        BY <4>1, <2>2
    <3>7. holder' # NoCall
      BY <2>1, <2>2, ClientAssumption
    <3> QED
      BY <3>1, <3>2, <3>5, <3>6, <3>7 DEF LockInv, IsQuery
  <2> QED
    BY <2>1, <2>2, <2>3, <2>4 DEF IInv, Typed
<1> QED
  BY <1>1, <1>2, <1>3
-----------------------------------------------------------------------------
(***************************************************************************)
(* The invariant is inductive.                                             *)
(***************************************************************************)
LEMMA InitInv == Init => IInv
<1> SUFFICES ASSUME Init PROVE IInv
  OBVIOUS
<1>1. Typed
  BY EmptySeq DEF Init, Typed, InCharge
<1>2. LockInv
  BY DEF Init, LockInv, Working, InCharge
<1>3. TxInv
  BY DEF Init, TxInv
<1> QED
  BY <1>1, <1>2, <1>3 DEF IInv

\* A call that answers, or moves on, without a change on the chain.
LEMMA AnswerTx ==
    ASSUME IInv, NEW c \in Calls, pc[c] \in InCharge, UNCHANGED tx,
           NEW o \in {"resolved", "rejected"}, Answer(c, o),
           tx[c] = "pool" => Late /\ o = "rejected"
    PROVE  TxInv'
<1>1. /\ pc'[c] = o
      /\ \A d \in Calls \ {c} :
           pc'[d] = pc[d] \/ (pc[d] = "locked" /\ pc'[d] = "connect")
  BY AnswerKeeps
<1>2. \A d \in Calls : tx'[d] = tx[d] /\ IsQuery(d)' = IsQuery(d)
  BY DEF IsQuery
<1> QED
  BY <1>1, <1>2 DEF IInv, TxInv, Late, InCharge

\* A step of a call that neither answers nor touches the lock.
LEMMA MoveKeeps ==
    ASSUME IInv, NEW c \in Calls, pc[c] \in InCharge,
           NEW p \in InCharge, pc' = [pc EXCEPT ![c] = p], UNCHANGED lock
    PROVE  LockInv' /\ pc' \in [Calls -> InCharge \cup {"idle", "locked", "resolved", "rejected"}]
<1>1. \A d \in Calls : pc'[d] = IF d = c THEN p ELSE pc[d]
  BY DEF IInv, Typed
<1>2. \A d \in Calls : Working(d)' = Working(d)
  BY <1>1 DEF Working, IsQuery
<1>3. \A i \in 1..Len(queue) : queue[i] \in Calls /\ queue[i] # c
  <2>1. pc[c] # "locked" /\ queue \in Seq(Calls)
    BY DEF IInv, Typed, InCharge
  <2> QED
    BY <2>1, NotWaiting, ElementOfSeq
<1>4. holder # NoCall => holder \in Calls
  BY DEF IInv, Typed
<1>5. LockInv'
  BY <1>1, <1>2, <1>3, <1>4 DEF IInv, LockInv, lock, IsQuery
<1> QED
  BY <1>5 DEF IInv, Typed

LEMMA CallInv ==
    ASSUME IInv, NEW c \in Calls, Call(c) PROVE IInv'
<1> USE DEF InCharge
<1>0. /\ pc[c] = "idle" /\ UNCHANGED <<links, via, tx>>
      /\ queue \in Seq(Calls) /\ Len(queue) \in Nat
      /\ \A i \in 1..Len(queue) : queue[i] \in Calls /\ queue[i] # c
  <2>1. pc[c] = "idle" /\ UNCHANGED <<links, via, tx>> /\ queue \in Seq(Calls)
    BY DEF Call, IInv, Typed
  <2> QED
    BY <2>1, NotWaiting, ElementOfSeq, LenProperties
<1>1. \E p \in {"connect", "locked"} : pc' = [pc EXCEPT ![c] = p]
  BY DEF Call
<1>2. \A d \in Calls \ {c} : pc'[d] = pc[d]
  BY <1>1 DEF IInv, Typed
<1>3. TxInv'
  BY <1>0, <1>1, <1>2 DEF IInv, TxInv, Typed, IsQuery, Late
<1>4. CASE IsQuery(c)
  <2>1. pc' = [pc EXCEPT ![c] = "connect"] /\ UNCHANGED lock
    BY <1>4 DEF Call
  <2>2. \A d \in Calls : Working(d)' = Working(d)
    BY <1>2, <1>4 DEF Working, IsQuery
  <2>3. LockInv'
    BY <1>0, <1>2, <2>1, <2>2 DEF IInv, LockInv, lock, IsQuery, Typed
  <2> QED
    BY <1>0, <1>3, <2>1, <2>3 DEF IInv, Typed, links, lock
<1>5. CASE ~IsQuery(c) /\ holder = NoCall
  <2>1. pc' = [pc EXCEPT ![c] = "connect"] /\ holder' = c /\ queue' = queue
    BY <1>5 DEF Call
  <2>2. queue = <<>> /\ \A d \in Calls : ~Working(d)
    BY <1>5, ClientAssumption DEF IInv, LockInv
  <2>3. Working(c)' /\ \A d \in Calls \ {c} : ~Working(d)'
    BY <1>2, <1>5, <2>1, <2>2 DEF Working, IsQuery, IInv, Typed
  <2>4. LockInv'
    BY <2>1, <2>2, <2>3, ClientAssumption DEF LockInv
  <2> QED
    BY <1>0, <1>3, <2>1, <2>4 DEF IInv, Typed, links
<1>6. CASE ~IsQuery(c) /\ holder # NoCall
  <2>1. pc' = [pc EXCEPT ![c] = "locked"] /\ queue' = Append(queue, c) /\ holder' = holder
    BY <1>6 DEF Call
  <2>2. /\ queue' \in Seq(Calls) /\ Len(queue') = Len(queue) + 1
        /\ queue'[Len(queue) + 1] = c
        /\ \A i \in 1..Len(queue) : queue'[i] = queue[i]
    BY <1>0, <2>1, AppendProperties
  <2>3. \A i \in 1..Len(queue') : i \in 1..Len(queue) \/ i = Len(queue) + 1
    BY <1>0, <2>2
  <2>4. pc'[c] = "locked" /\ holder \in Calls
    BY <1>6, <2>1 DEF IInv, Typed
  <2>5. \A d \in Calls : Working(d)' = Working(d)
    BY <1>0, <1>2, <2>4 DEF Working, IsQuery
  <2>6. \A i \in 1..Len(queue') : pc'[queue'[i]] = "locked" /\ ~IsQuery(queue'[i])
    BY <1>0, <1>2, <1>6, <2>2, <2>3, <2>4 DEF IInv, LockInv
  <2>7. \A i, j \in 1..Len(queue') : queue'[i] = queue'[j] => i = j
    BY <1>0, <2>2, <2>3 DEF IInv, LockInv
  <2>8. LockInv'
    BY <1>6, <2>1, <2>4, <2>5, <2>6, <2>7 DEF IInv, LockInv, IsQuery
  <2> QED
    BY <1>0, <1>3, <2>1, <2>2, <2>8 DEF IInv, Typed, links
<1> QED
  BY <1>4, <1>5, <1>6

LEMMA StepInv ==
    ASSUME IInv, [Next]_vars PROVE IInv'
<1> USE DEF InCharge
<1>1. ASSUME NEW c \in Calls, Connect(c) PROVE IInv'
  <2>1. PICK p \in {"init", "apply"} : pc' = [pc EXCEPT ![c] = p]
    BY <1>1 DEF Connect
  <2>2. pc[c] = "connect" /\ UNCHANGED <<lock, links, via, tx>>
    BY <1>1 DEF Connect
  <2>3. LockInv' /\ pc' \in [Calls -> InCharge \cup {"idle", "locked", "resolved", "rejected"}]
    BY <2>1, <2>2, MoveKeeps
  <2>4. TxInv'
    BY <2>1, <2>2 DEF IInv, TxInv, Typed, IsQuery, Late
  <2> QED
    BY <2>2, <2>3, <2>4 DEF IInv, Typed, links, lock
<1>2. ASSUME NEW c \in Calls, InitDone(c) PROVE IInv'
  <2>1. pc[c] = "init" /\ UNCHANGED <<via, tx>>
    BY <1>2 DEF InitDone
  <2>2. CASE NewConnection(ClientOf[c]) /\ pc' = [pc EXCEPT ![c] = "apply"] /\ UNCHANGED lock
    <3>1. LockInv' /\ pc' \in [Calls -> InCharge \cup {"idle", "locked", "resolved", "rejected"}]
      BY <2>1, <2>2, MoveKeeps
    <3>2. TxInv'
      BY <2>1, <2>2 DEF IInv, TxInv, Typed, IsQuery, Late
    <3>3. /\ next' \in Nat \ {0} /\ next' = next + 1
          /\ api' \in [Clients -> 0..(next' - 1)] /\ open' \subseteq 1..(next' - 1)
          /\ via' \in [Calls -> 0..(next' - 1)]
      <4>1. next' = next + 1 /\ next \in Nat \ {0} /\ next' - 1 = next
        BY <2>2 DEF NewConnection, IInv, Typed
      <4>2. 0..(next - 1) \subseteq 0..next /\ 1..(next - 1) \subseteq 1..next
        BY <4>1
      <4>3. api \in [Clients -> 0..next] /\ via \in [Calls -> 0..next]
        BY <4>2 DEF IInv, Typed
      <4>4. next \in 0..next /\ next \in 1..next
        BY <4>1
      <4>5. api' = [api EXCEPT ![ClientOf[c]] = next] /\ open' = open \cup {next}
        BY <2>2 DEF NewConnection
      <4>6. api' \in [Clients -> 0..next]
        BY <4>3, <4>4, <4>5
      <4>7. open' \subseteq 1..next
        BY <4>2, <4>4, <4>5 DEF IInv, Typed
      <4> QED
        BY <2>1, <4>1, <4>3, <4>6, <4>7
    <3> QED
      BY <2>1, <2>2, <3>1, <3>2, <3>3 DEF IInv, Typed, lock
  <2>3. CASE Answer(c, "rejected") /\ UNCHANGED links
    <3>1. TxInv'
      BY <2>1, <2>3, AnswerTx DEF IInv, TxInv
    <3> QED
      BY <2>1, <2>3, <3>1, AnswerKeeps DEF IInv, Typed, links
  <2> QED
    BY <1>2, <2>2, <2>3 DEF InitDone
<1>3. ASSUME NEW c \in Calls, ApplyQuery(c) PROVE IInv'
  <2>1. pc[c] = "apply" /\ UNCHANGED <<links, via, tx>>
    BY <1>3 DEF ApplyQuery
  <2>2. PICK o \in {"resolved", "rejected"} : Answer(c, o)
    BY <1>3 DEF ApplyQuery
  <2>3. TxInv'
    BY <2>1, <2>2, AnswerTx DEF IInv, TxInv
  <2> QED
    BY <2>1, <2>2, <2>3, AnswerKeeps DEF IInv, Typed, links
<1>4. ASSUME NEW c \in Calls, Submit(c) PROVE IInv'
  <2>1. pc[c] = "apply" /\ ~IsQuery(c) /\ UNCHANGED links
    BY <1>4 DEF Submit
  <2>2. CASE Answer(c, "rejected") /\ UNCHANGED <<tx, via>>
    <3>1. TxInv'
      BY <2>1, <2>2, AnswerTx DEF IInv, TxInv
    <3> QED
      BY <2>1, <2>2, <3>1, AnswerKeeps DEF IInv, Typed, links
  <2>3. CASE tx' = [tx EXCEPT ![c] = "pool"] /\ via' = [via EXCEPT ![c] = api[ClientOf[c]]]
    <3>1. tx' \in [Calls -> {"none", "pool", "ok", "failed", "failedOther", "dropped"}]
          /\ via' \in [Calls -> 0..(next - 1)]
      BY <2>3, ClientAssumption DEF IInv, Typed
    <3>2. \A d \in Calls : tx'[d] = IF d = c THEN "pool" ELSE tx[d]
      BY <2>3 DEF IInv, Typed
    <3>3. CASE pc' = [pc EXCEPT ![c] = "watch"] /\ UNCHANGED lock
      <4>1. LockInv' /\ pc' \in [Calls -> InCharge \cup {"idle", "locked", "resolved", "rejected"}]
        BY <2>1, <3>3, MoveKeeps
      <4>2. TxInv'
        BY <2>1, <3>2, <3>3 DEF IInv, TxInv, Typed, IsQuery, Late
      <4> QED
        BY <2>1, <3>1, <3>3, <4>1, <4>2 DEF IInv, Typed, links, lock
    <3>4. CASE "unanswered" \in Faults /\ Answer(c, "rejected")
      <4>1. /\ pc'[c] = "rejected"
            /\ \A d \in Calls \ {c} :
                 pc'[d] = pc[d] \/ (pc[d] = "locked" /\ pc'[d] = "connect")
        BY <2>1, <3>4, AnswerKeeps
      <4>2. TxInv'
        BY <2>1, <3>2, <3>4, <4>1 DEF IInv, TxInv, IsQuery, Late
      <4> QED
        BY <2>1, <3>1, <3>4, <4>2, AnswerKeeps DEF IInv, Typed, links
    <3> QED
      BY <1>4, <2>1, <2>3, <3>3, <3>4, <2>2 DEF Submit
  <2> QED
    BY <1>4, <2>2, <2>3 DEF Submit
<1>5. ASSUME NEW c \in Calls, Finalized(c) PROVE IInv'
  <2>1. pc[c] = "watch" /\ UNCHANGED <<links, via, tx>> /\ tx[c] # "pool"
    BY <1>5 DEF Finalized, CanResolve, CanReject
  <2>2. PICK o \in {"resolved", "rejected"} : Answer(c, o)
    BY <1>5 DEF Finalized
  <2>3. TxInv'
    BY <2>1, <2>2, AnswerTx
  <2> QED
    BY <2>1, <2>2, <2>3, AnswerKeeps DEF IInv, Typed, links
<1>6. ASSUME NEW c \in Calls, WatchError(c) PROVE IInv'
  <2>1. pc[c] = "watch" /\ UNCHANGED <<links, via, tx>> /\ Answer(c, "rejected") /\ Late
    BY <1>6 DEF WatchError, Late
  <2>2. TxInv'
    BY <2>1, AnswerTx
  <2> QED
    BY <2>1, <2>2, AnswerKeeps DEF IInv, Typed, links
<1>7. ASSUME NEW c \in Calls, Execute(c) PROVE IInv'
  <2>1. PICK s \in {"ok", "failed", "failedOther", "dropped"} : tx' = [tx EXCEPT ![c] = s]
    BY <1>7 DEF Execute
  <2>2. tx[c] = "pool" /\ UNCHANGED <<pc, lock, links, via>>
    BY <1>7 DEF Execute
  <2>3. TxInv'
    BY <2>1, <2>2 DEF IInv, TxInv, Typed, IsQuery, Late
  <2>4. LockInv'
    BY <2>2 DEF IInv, LockInv, lock, Working, IsQuery
  <2> QED
    BY <2>1, <2>2, <2>3, <2>4 DEF IInv, Typed, lock, links
<1>8. ASSUME NEW u \in Clients, Disconnect(u) PROVE IInv'
  <2>1. UNCHANGED <<pc, lock, api, next, via, tx>> /\ open' \subseteq open
    BY <1>8 DEF Disconnect
  <2>2. Typed'
    BY <2>1 DEF IInv, Typed, lock
  <2>3. LockInv' /\ TxInv'
    BY <2>1 DEF IInv, LockInv, TxInv, Working, IsQuery, lock, Late
  <2> QED
    BY <2>2, <2>3 DEF IInv
<1>9. ASSUME UNCHANGED vars PROVE IInv'
  BY <1>9 DEF vars, lock, links, IInv, Typed, LockInv, TxInv, Working, IsQuery, Late
<1>10. ASSUME NEW c \in Calls, Call(c) \/ Step(c) \/ WatchError(c) \/ Execute(c)
      PROVE IInv'
  BY <1>1, <1>2, <1>3, <1>4, <1>5, <1>6, <1>7, <1>10, CallInv DEF Step
<1> QED
  BY <1>8, <1>9, <1>10 DEF Next

LEMMA Invariance == Spec => []IInv
BY InitInv, StepInv, PTL DEF Spec

\* The calls, the lock, the connections of the clients and the extrinsics on
\* the chain keep their types, and whoever holds the lock is at work.
THEOREM TypeCorrect == Spec => []TypeOK
<1>1. IInv => TypeOK
  BY DEF IInv, LockInv, TypeOK
<1> QED
  BY <1>1, Invariance, PTL

\* TFClient.lock admits one extrinsic at a time, from connecting to its
\* answer, however many clients there are and whatever goes wrong.
THEOREM MutualExclusion == Spec => []OneAtATime
<1>1. IInv => OneAtATime
  BY DEF IInv, LockInv, OneAtATime
<1> QED
  BY <1>1, Invariance, PTL

\* When no answer is lost, the chain has at most one extrinsic in its pool.
THEOREM PoolExclusion ==
    ASSUME ~Late PROVE Spec => []OneInPool
<1>1. IInv => OneInPool
  BY ~Late DEF IInv, LockInv, TxInv, Working, InCharge, OneInPool
<1> QED
  BY <1>1, Invariance, PTL
-----------------------------------------------------------------------------
(***************************************************************************)
(* The connections that nothing closes.                                    *)
(***************************************************************************)
\* The queries that are done with connecting.
Past == {c \in Calls : IsQuery(c) /\ pc[c] \in {"apply", "resolved", "rejected"}}

\* The extrinsic at work opens a connection although its client has one again:
\* since it looked, a query has opened that.
Overtaken == holder # NoCall /\ pc[holder] = "init" /\ IsConnected(ClientOf[holder])

\* Each query accounts for one orphan at most, also for the one that the
\* extrinsic at work is about to leave behind because of it.
LinkInv == Cardinality(Orphans) + (IF Overtaken THEN 1 ELSE 0) <= Cardinality(Past)

LEMMA Finite ==
    ASSUME IsFiniteSet(Calls)
    PROVE  IInv => /\ IsFiniteSet(Orphans) /\ Cardinality(Orphans) \in Nat
                   /\ IsFiniteSet(Past) /\ Cardinality(Past) \in Nat
<1> SUFFICES ASSUME IInv
             PROVE  /\ IsFiniteSet(Orphans) /\ Cardinality(Orphans) \in Nat
                    /\ IsFiniteSet(Past) /\ Cardinality(Past) \in Nat
  OBVIOUS
<1>1. IsFiniteSet(1..(next - 1))
  BY FS_Interval DEF IInv, Typed
<1>2. Orphans \in SUBSET (1..(next - 1)) /\ Past \in SUBSET Calls
  BY DEF Orphans, Past, IInv, Typed
<1> QED
  BY <1>1, <1>2, FS_Subset, FS_CardinalityType

LEMMA FiniteNext ==
    ASSUME IsFiniteSet(Calls), IInv'
    PROVE  /\ IsFiniteSet(Orphans') /\ Cardinality(Orphans') \in Nat
           /\ IsFiniteSet(Past') /\ Cardinality(Past') \in Nat
<1>1. (IInv => /\ IsFiniteSet(Orphans) /\ Cardinality(Orphans) \in Nat
              /\ IsFiniteSet(Past) /\ Cardinality(Past) \in Nat)'
  BY Finite, PTL
<1> QED
  BY <1>1

\* A step that opens no connection keeps the orphans; a query stays past.
LEMMA NoNewLink ==
    ASSUME IInv, IInv', IsFiniteSet(Calls), LinkInv, Past \subseteq Past',
           Orphans' \subseteq Orphans, Overtaken' => Overtaken
    PROVE  LinkInv'
<1>1. Cardinality(Orphans') <= Cardinality(Orphans)
  BY Finite, FS_Subset
<1>2. Cardinality(Past) <= Cardinality(Past')
  <2>1. IsFiniteSet(Past') /\ Past \in SUBSET Past'
    BY FiniteNext
  <2> QED
    BY <2>1, FS_Subset
<1>3. /\ Cardinality(Orphans) \in Nat /\ Cardinality(Past) \in Nat
      /\ Cardinality(Orphans') \in Nat /\ Cardinality(Past') \in Nat
  BY Finite, FiniteNext
<1> QED
  BY <1>1, <1>2, <1>3 DEF LinkInv

\* Answering a call connects nobody.
LEMMA AnswerLinks ==
    ASSUME IInv, NEW c \in Calls, pc[c] \in InCharge, UNCHANGED links,
           NEW o \in {"resolved", "rejected"}, Answer(c, o)
    PROVE  Past \subseteq Past' /\ Orphans' = Orphans /\ (Overtaken' => Overtaken)
<1>1. /\ pc' \in [Calls -> InCharge \cup {"idle", "locked", "resolved", "rejected"}]
      /\ pc'[c] = o
      /\ \A d \in Calls \ {c} :
            pc'[d] = pc[d] \/ (pc[d] = "locked" /\ pc'[d] = "connect")
  BY AnswerKeeps
<1>2. Past \subseteq Past'
  BY <1>1 DEF Past, IsQuery
<1>3. Orphans' = Orphans
  BY DEF Orphans, links
<1>4. \/ holder' = holder /\ pc' = [pc EXCEPT ![c] = o]
      \/ holder' = NoCall
      \/ queue # <<>> /\ holder' = Head(queue)
  BY DEF Answer, SettleAndRelease, Settle, lock
<1>5. ASSUME queue # <<>>, holder' = Head(queue) PROVE pc'[holder'] # "init"
  BY <1>1, <1>5, FirstWaiting
<1>6. ASSUME holder' = holder, pc' = [pc EXCEPT ![c] = o], Overtaken' PROVE Overtaken
  <2>1. holder \in Calls /\ pc'[holder] = "init"
    BY <1>6 DEF Overtaken, IInv, Typed
  <2>2. holder # c
    BY <1>1, <2>1
  <2>3. pc[holder] = "init"
    BY <1>6, <2>1, <2>2 DEF IInv, Typed
  <2> QED
    BY <1>6, <2>3 DEF Overtaken, IsConnected, links
<1> QED
  BY <1>2, <1>3, <1>4, <1>5, <1>6 DEF Overtaken

\* A call opens a connection of its client u.  What u had before is an orphan
\* if it was open.
LEMMA NewLink ==
    ASSUME IInv, NEW u \in Clients, NewConnection(u)
    PROVE  /\ Orphans' \subseteq Orphans \cup {api[u]}
           /\ ~IsConnected(u) => Orphans' \subseteq Orphans
           /\ \A v \in Clients \ {u} : IsConnected(v)' <=> IsConnected(v)
<1>1. /\ api \in [Clients -> 0..(next - 1)] /\ open \subseteq 1..(next - 1) /\ next \in Nat \ {0}
      /\ api' = [api EXCEPT ![u] = next] /\ open' = open \cup {next}
  BY DEF IInv, Typed, NewConnection
<1>2. api'[u] = next /\ \A v \in Clients \ {u} : api'[v] = api[v]
  BY <1>1
<1>3. \A k \in Orphans' : k \in open /\ (\A v \in Clients \ {u} : api[v] # k)
  BY <1>1, <1>2 DEF Orphans
<1>4. Orphans' \subseteq Orphans \cup {api[u]}
  BY <1>3 DEF Orphans
<1>5. ASSUME ~IsConnected(u) PROVE Orphans' \subseteq Orphans
  <2>1. api[u] \notin open
    BY <1>1, <1>5 DEF IsConnected
  <2> QED
    BY <1>3, <1>4, <2>1
<1>6. \A v \in Clients \ {u} : api[v] # next
  BY <1>1
<1>7. \A v \in Clients \ {u} : IsConnected(v)' <=> IsConnected(v)
  BY <1>1, <1>2, <1>6 DEF IsConnected
<1> QED
  BY <1>4, <1>5, <1>7

\* A query that connects accounts for the orphan it makes, or for the one it
\* will make the extrinsic at work make; the extrinsic makes that one.
LEMMA InitDoneLinks ==
    ASSUME IInv, IInv', IsFiniteSet(Calls), LinkInv, NEW c \in Calls, InitDone(c)
    PROVE  LinkInv'
<1> DEFINE u == ClientOf[c]
<1>0. pc[c] = "init" /\ u \in Clients
  BY ClientAssumption DEF InitDone
<1>1. CASE Answer(c, "rejected") /\ UNCHANGED links
  BY <1>0, <1>1, AnswerLinks, NoNewLink DEF InCharge
<1>2. CASE NewConnection(u) /\ pc' = [pc EXCEPT ![c] = "apply"] /\ UNCHANGED lock
  <2> DEFINE n == Cardinality(Orphans)
             m == Cardinality(Past)
  <2>1. /\ IsFiniteSet(Orphans) /\ n \in Nat /\ IsFiniteSet(Past) /\ m \in Nat
        /\ Cardinality(Orphans') \in Nat /\ IsFiniteSet(Past') /\ Cardinality(Past') \in Nat
    BY Finite, FiniteNext
  <2>2. Cardinality(Orphans') <= n + 1
    <3> DEFINE more == Orphans \cup {api[u]}
    <3>1. IsFiniteSet(more) /\ Cardinality(more) = IF api[u] \in Orphans THEN n ELSE n + 1
      BY <2>1, FS_AddElement
    <3>2. Orphans' \in SUBSET more
      BY <1>0, <1>2, NewLink
    <3> HIDE DEF more, n
    <3>3. Cardinality(Orphans') <= Cardinality(more)
      BY <3>1, <3>2, FS_Subset
    <3> QED
      BY <2>1, <3>1, <3>3
  <2>3. ~IsConnected(u) => Cardinality(Orphans') <= n
    <3>1. ~IsConnected(u) => Orphans' \in SUBSET Orphans
      BY <1>0, <1>2, NewLink
    <3> QED
      BY <2>1, <3>1, FS_Subset
  <2>4. \A d \in Calls : pc'[d] = IF d = c THEN "apply" ELSE pc[d]
    BY <1>2 DEF IInv, Typed
  <2>5. holder' = holder /\ (holder # NoCall => holder \in Calls)
    BY <1>2 DEF lock, IInv, Typed
  <2>6. n + (IF Overtaken THEN 1 ELSE 0) <= m
    BY DEF LinkInv
  <2>7. CASE IsQuery(c)
    <3>1. c \notin Past /\ Past' = Past \cup {c}
      BY <1>0, <2>4, <2>7 DEF Past, IsQuery
    <3>2. Cardinality(Past') = m + 1
      BY <2>1, <3>1, FS_AddElement
    <3>3. holder # c
      BY <2>7, ClientAssumption DEF IInv, LockInv, Working
    <3>4. IsConnected(u) => (Overtaken' => Overtaken)
      <4>1. SUFFICES ASSUME IsConnected(u), Overtaken' PROVE Overtaken
        OBVIOUS
      <4>2. holder # NoCall /\ pc[holder] = "init"
        BY <2>4, <2>5, <3>3, <4>1 DEF Overtaken
      <4>3. PICK v \in Clients : v = ClientOf[holder]
        BY <2>5, <4>2, ClientAssumption
      <4>4. IsConnected(v)'
        BY <2>5, <4>1, <4>3 DEF Overtaken
      <4>5. IsConnected(v)
        <5>1. v # u => (IsConnected(v)' <=> IsConnected(v))
          BY <1>0, <1>2, NewLink
        <5> QED
          BY <4>1, <4>4, <5>1
      <4> QED
        BY <4>2, <4>3, <4>5 DEF Overtaken
    <3> HIDE DEF n, m, u
    <3>5. Cardinality(Orphans') + (IF Overtaken' THEN 1 ELSE 0) <= m + 1
      <4>1. CASE IsConnected(u)
        BY <2>1, <2>2, <2>6, <3>4, <4>1
      <4>2. CASE ~IsConnected(u)
        BY <2>1, <2>3, <2>6, <4>2
      <4> QED
        BY <4>1, <4>2
    <3> QED
      BY <3>2, <3>5 DEF LinkInv
  <2>8. CASE ~IsQuery(c)
    <3>1. holder = c /\ c # NoCall
      BY <1>0, <2>8, ClientAssumption DEF IInv, LockInv, Working, InCharge
    <3>2. ~Overtaken'
      BY <2>4, <2>5, <3>1 DEF Overtaken
    <3>3. Overtaken <=> IsConnected(u)
      BY <1>0, <3>1 DEF Overtaken
    <3>4. Past' = Past
      BY <1>0, <2>4, <2>8 DEF Past, IsQuery
    <3> HIDE DEF n, m, u
    <3>5. Cardinality(Orphans') <= m
      <4>1. CASE IsConnected(u)
        BY <2>1, <2>2, <2>6, <3>3, <4>1
      <4>2. CASE ~IsConnected(u)
        BY <2>1, <2>3, <2>6, <3>3, <4>2
      <4> QED
        BY <4>1, <4>2
    <3> QED
      BY <2>1, <3>2, <3>4, <3>5 DEF LinkInv, m
  <2> QED
    BY <2>7, <2>8
<1> QED
  BY <1>1, <1>2 DEF InitDone

\* A step of call c that leaves the connections and the lock as they are.
LEMMA StayLinks ==
    ASSUME IInv, UNCHANGED <<links, lock>>, NEW c \in Calls, NEW p,
           pc' = [pc EXCEPT ![c] = p], c \notin Past \/ p \in {"apply", "resolved", "rejected"},
           p # "init" \/ ~IsConnected(ClientOf[c])
    PROVE  Past \subseteq Past' /\ Orphans' = Orphans /\ (Overtaken' => Overtaken)
<1>1. \A d \in Calls : pc'[d] = IF d = c THEN p ELSE pc[d]
  BY DEF IInv, Typed
<1>2. /\ api' = api /\ open' = open /\ holder' = holder
      /\ holder # NoCall => holder \in Calls
  BY DEF links, lock, IInv, Typed
<1> QED
  BY <1>1, <1>2 DEF Past, IsQuery, Orphans, Overtaken, IsConnected

LEMMA LinksInv ==
    ASSUME IInv, IInv', [Next]_vars, IsFiniteSet(Calls), LinkInv PROVE LinkInv'
<1> USE DEF InCharge
<1>1. ASSUME NEW c \in Calls, Call(c) PROVE LinkInv'
  <2>1. /\ pc[c] = "idle" /\ UNCHANGED links
        /\ pc' = [pc EXCEPT ![c] = "connect"] \/ pc' = [pc EXCEPT ![c] = "locked"]
        /\ holder' = holder \/ (holder' = c /\ pc'= [pc EXCEPT ![c] = "connect"])
    BY <1>1 DEF Call, lock
  <2>2. /\ \A d \in Calls \ {c} : pc'[d] = pc[d]
        /\ pc'[c] # "init" /\ (holder # NoCall => holder \in Calls)
        /\ api' = api /\ open' = open
    BY <2>1 DEF IInv, Typed, links
  <2>3. Past \subseteq Past' /\ Orphans' = Orphans /\ (Overtaken' => Overtaken)
    BY <2>1, <2>2 DEF Past, IsQuery, Orphans, Overtaken, IsConnected
  <2> QED
    BY <2>3, NoNewLink
<1>2. ASSUME NEW c \in Calls, Connect(c) PROVE LinkInv'
  <2>1. pc[c] = "connect" /\ UNCHANGED <<links, lock>> /\ c \notin Past
    BY <1>2 DEF Connect, Past
  <2>2. \/ pc' = [pc EXCEPT ![c] = "init"] /\ ~IsConnected(ClientOf[c])
        \/ pc' = [pc EXCEPT ![c] = "apply"]
    BY <1>2 DEF Connect, MustInit
  <2> QED
    BY <2>1, <2>2, StayLinks, NoNewLink
<1>3. ASSUME NEW c \in Calls, ApplyQuery(c) PROVE LinkInv'
  BY <1>3, AnswerLinks, NoNewLink DEF ApplyQuery
<1>4. ASSUME NEW c \in Calls, Submit(c) PROVE LinkInv'
  <2>1. pc[c] = "apply" /\ UNCHANGED links /\ c \notin Past
    BY <1>4 DEF Submit, Past
  <2>2. CASE Answer(c, "rejected")
    BY <2>1, <2>2, AnswerLinks, NoNewLink
  <2>3. CASE pc' = [pc EXCEPT ![c] = "watch"] /\ UNCHANGED lock
    BY <2>1, <2>3, StayLinks, NoNewLink
  <2> QED
    BY <1>4, <2>2, <2>3 DEF Submit
<1>5. ASSUME NEW c \in Calls, Finalized(c) \/ WatchError(c) PROVE LinkInv'
  BY <1>5, AnswerLinks, NoNewLink DEF Finalized, WatchError
<1>6. ASSUME UNCHANGED <<pc, lock, links>> PROVE LinkInv'
  BY <1>6 DEF LinkInv, Past, IsQuery, Orphans, Overtaken, IsConnected, lock, links
<1>7. ASSUME NEW u \in Clients, Disconnect(u) PROVE LinkInv'
  <2>1. UNCHANGED <<pc, lock, api>> /\ open' = open \ {api[u]}
    BY <1>7 DEF Disconnect
  <2>2. Past' = Past /\ Orphans' \subseteq Orphans /\ (Overtaken' => Overtaken)
    BY <2>1 DEF Past, IsQuery, Orphans, Overtaken, IsConnected, lock
  <2> QED
    BY <2>2, NoNewLink
<1>8. ASSUME NEW c \in Calls, Call(c) \/ Step(c) \/ WatchError(c) \/ Execute(c)
      PROVE  LinkInv'
  BY <1>1, <1>2, <1>3, <1>4, <1>5, <1>6, <1>8, InitDoneLinks DEF Step, Execute
<1> QED
  BY <1>6, <1>7, <1>8 DEF Next, vars

\* A connection that its client has lost track of, so that disconnect() leaves
\* it open, is made beside a query: of a finite number of calls there are no
\* more such connections than queries, whatever fails.
THEOREM FewOrphans ==
    ASSUME IsFiniteSet(Calls) PROVE Spec => []OneConnection
<1>1. Init => LinkInv
  <2> SUFFICES ASSUME Init PROVE LinkInv
    OBVIOUS
  <2>1. Orphans = {} /\ ~Overtaken
    BY DEF Init, Orphans, Overtaken
  <2>2. Cardinality(Orphans) = 0 /\ Cardinality(Past) \in Nat
    BY <2>1, InitInv, Finite, FS_EmptySet
  <2> QED
    BY <2>1, <2>2 DEF LinkInv
<1>2. IInv /\ IInv' /\ LinkInv /\ [Next]_vars => LinkInv'
  BY LinksInv
<1>3. IInv /\ LinkInv => OneConnection
  <2> SUFFICES ASSUME IInv, LinkInv PROVE OneConnection
    OBVIOUS
  <2> DEFINE Queries == {c \in Calls : IsQuery(c)}
  <2>1. Past \in SUBSET Queries /\ Queries \in SUBSET Calls
    BY DEF Past
  <2>2. IsFiniteSet(Queries)
    BY <2>1, FS_Subset
  <2>3. Cardinality(Past) <= Cardinality(Queries) /\ Cardinality(Queries) \in Nat
    BY <2>1, <2>2, FS_Subset, FS_CardinalityType
  <2>4. Cardinality(Orphans) \in Nat /\ Cardinality(Past) \in Nat
    BY Finite
  <2> HIDE DEF Queries
  <2>5. Cardinality(Orphans) <= Cardinality(Queries)
    BY <2>3, <2>4 DEF LinkInv
  <2> QED
    BY <2>5 DEF OneConnection, Queries
<1> QED
  BY <1>1, <1>2, <1>3, Invariance, PTL DEF Spec
-----------------------------------------------------------------------------
(***************************************************************************)
(* Refinement of SerialExtrinsics.                                         *)
(***************************************************************************)
\* A sequence with an element put in front of it.
LEMMA Cons ==
    ASSUME NEW S, NEW e \in S, NEW s \in Seq(S)
    PROVE  /\ <<e>> \o s \in Seq(S) /\ <<e>> \o s # <<>>
           /\ Len(<<e>> \o s) = Len(s) + 1
           /\ Head(<<e>> \o s) = e
           /\ Tail(<<e>> \o s) = s
           /\ \A i \in 1..Len(<<e>> \o s) :
                 (<<e>> \o s)[i] = IF i = 1 THEN e ELSE s[i - 1]
<1> DEFINE t == <<e>> \o s
<1>1. <<e>> \in Seq(S) /\ Len(<<e>>) = 1 /\ <<e>>[1] = e /\ Len(s) \in Nat
  BY LenProperties
<1>2. /\ t \in Seq(S) /\ Len(t) = Len(s) + 1
      /\ \A i \in 1..Len(t) : t[i] = IF i = 1 THEN e ELSE s[i - 1]
  <2>1. /\ t \in Seq(S) /\ Len(t) = 1 + Len(s)
        /\ \A i \in 1..(1 + Len(s)) : t[i] = IF i <= 1 THEN <<e>>[i] ELSE s[i - 1]
    BY <1>1, ConcatProperties
  <2> QED
    BY <1>1, <2>1
<1> HIDE DEF t
<1>3. t # <<>> /\ Head(t) = e
  BY <1>1, <1>2, EmptySeq
<1>4. /\ Tail(t) \in Seq(S) /\ Len(Tail(t)) = Len(s)
      /\ \A i \in 1..Len(s) : Tail(t)[i] = t[i + 1]
  BY <1>1, <1>2, <1>3, HeadTailProperties
<1>5. \A i \in 1..Len(s) : Tail(t)[i] = s[i]
  BY <1>1, <1>2, <1>4
<1>6. Tail(t) = s
  BY <1>4, <1>5, SeqEqual
<1> QED
  BY <1>2, <1>3, <1>6 DEF t

\* Appending commutes with putting an element in front.
LEMMA AppendCons ==
    ASSUME NEW S, NEW e \in S, NEW d \in S, NEW s \in Seq(S)
    PROVE  Append(<<e>> \o s, d) = <<e>> \o Append(s, d)
<1>1. <<e>> \in Seq(S) /\ <<d>> \in Seq(S) /\ <<e>> \o s \in Seq(S)
  BY Cons
<1> QED
  BY <1>1, AppendIsConcat, ConcatAssociative

\* A sequence is its head in front of its tail.
LEMMA HeadTail ==
    ASSUME NEW S, NEW s \in Seq(S), s # <<>>
    PROVE  <<Head(s)>> \o Tail(s) = s
<1> DEFINE t == <<Head(s)>> \o Tail(s)
<1>1. /\ Head(s) \in S /\ Tail(s) \in Seq(S) /\ Len(Tail(s)) = Len(s) - 1
      /\ \A i \in 1..Len(Tail(s)) : Tail(s)[i] = s[i + 1]
  BY HeadTailProperties
<1>2. Len(s) \in Nat \ {0} /\ Head(s) = s[1]
  BY EmptySeq
<1>3. /\ t \in Seq(S) /\ Len(t) = Len(s)
      /\ \A i \in 1..Len(t) : t[i] = IF i = 1 THEN Head(s) ELSE Tail(s)[i - 1]
  BY <1>1, <1>2, Cons
<1>4. \A i \in 1..Len(t) : t[i] = s[i]
  BY <1>1, <1>2, <1>3
<1> QED
  BY <1>3, <1>4, SeqEqual

\* The call at work is the first of the line.
LEMMA LineFacts ==
    ASSUME IInv, holder # NoCall
    PROVE  /\ holder \in Calls /\ ~IsQuery(holder) /\ holder \in Extrinsic
           /\ Line # <<>> /\ Head(Line) = holder /\ Tail(Line) = queue
<1>1. holder \in Calls /\ queue \in Seq(Calls) /\ ~IsQuery(holder)
  BY DEF IInv, Typed, LockInv, Working
<1> QED
  BY <1>1, Cons DEF Line, Extrinsic

LEMMA Unmoved ==
    ASSUME IInv, UNCHANGED <<lock, tx>>,
           \A c \in Extrinsic : (~Answered(c) /\ ~Answered(c)') \/ pc'[c] = pc[c]
    PROVE  UNCHANGED Serial!serialVars
<1>1. Line' = Line /\ Executed' = Executed
  BY DEF Line, lock, Executed, Extrinsic, IsQuery
<1>2. \A c \in Extrinsic : AnswerOf'[c] = AnswerOf[c]
  BY DEF AnswerOf, Answered, Extrinsic, IsQuery
<1>3. AnswerOf' = AnswerOf
  BY <1>2 DEF AnswerOf, Extrinsic, IsQuery
<1> QED
  BY <1>1, <1>3 DEF Serial!serialVars

\* An extrinsic that answers takes itself off the line.
LEMMA AnswerLine ==
    ASSUME IInv, NEW c \in Calls, ~IsQuery(c), pc[c] \in InCharge,
           NEW o \in {"resolved", "rejected"}, Answer(c, o)
    PROVE  /\ c \in Extrinsic /\ Serial!First(c)
           /\ Line' = Tail(Line)
           /\ AnswerOf' = [AnswerOf EXCEPT ![c] = o]
<1>1. c = holder /\ holder # NoCall /\ SettleAndRelease(c, o)
  BY ClientAssumption DEF IInv, LockInv, Working, Answer
<1>2. /\ c \in Extrinsic /\ Line # <<>> /\ Head(Line) = c /\ Tail(Line) = queue
  BY <1>1, LineFacts
<1>3. /\ pc'[c] = o
      /\ \A d \in Calls \ {c} :
           pc'[d] = pc[d] \/ (pc[d] = "locked" /\ pc'[d] = "connect")
  BY AnswerKeeps
<1>4. \A d \in Extrinsic : AnswerOf'[d] = IF d = c THEN o ELSE AnswerOf[d]
  BY <1>3 DEF AnswerOf, Answered, Extrinsic, IsQuery
<1>5. AnswerOf' = [AnswerOf EXCEPT ![c] = o]
  BY <1>2, <1>4 DEF AnswerOf, Extrinsic, IsQuery
<1>6. Line' = queue
  <2>1. CASE queue = <<>>
    BY <1>1, <2>1 DEF SettleAndRelease, Line
  <2>2. CASE queue # <<>>
    <3>1. holder' = Head(queue) /\ queue' = Tail(queue)
      BY <1>1, <2>2 DEF SettleAndRelease
    <3>2. Head(queue) # NoCall
      BY <2>2, FirstWaiting, ClientAssumption
    <3>3. <<Head(queue)>> \o Tail(queue) = queue
      BY <2>2, HeadTail DEF IInv, Typed
    <3> QED
      BY <3>1, <3>2, <3>3 DEF Line
  <2> QED
    BY <2>1, <2>2
<1> QED
  BY <1>2, <1>5, <1>6 DEF Serial!First

\* A query that answers, and any call that moves on, is not seen.
LEMMA QueryAnswer ==
    ASSUME IInv, NEW c \in Calls, IsQuery(c), pc[c] \in InCharge, UNCHANGED tx,
           NEW o \in {"resolved", "rejected"}, Answer(c, o)
    PROVE  UNCHANGED Serial!serialVars
<1>1. c # holder
  BY ClientAssumption DEF IInv, Typed, LockInv, Working
<1>2. pc' = [pc EXCEPT ![c] = o] /\ UNCHANGED lock
  BY <1>1 DEF Answer, Settle
<1>3. \A d \in Extrinsic : pc'[d] = pc[d]
  BY <1>2 DEF Extrinsic, IInv, Typed
<1> QED
  BY <1>2, <1>3, Unmoved

LEMMA Moved ==
    ASSUME IInv, NEW c \in Calls, pc[c] \in InCharge, UNCHANGED <<lock, tx>>,
           NEW p \in InCharge, pc' = [pc EXCEPT ![c] = p]
    PROVE  UNCHANGED Serial!serialVars
<1>1. \A d \in Extrinsic : (~Answered(d) /\ ~Answered(d)') \/ pc'[d] = pc[d]
  BY DEF IInv, Typed, Answered, InCharge, Extrinsic
<1> QED
  BY <1>1, Unmoved

\* An extrinsic the chain has not executed, or whose answer is lost, rejects.
LEMMA Rejected ==
    ASSUME IInv, NEW c \in Calls, ~IsQuery(c), pc[c] \in InCharge,
           Answer(c, "rejected"), Executed' = Executed,
           Late \/ tx[c] # "ok"
    PROVE  Serial!Next
<1>1. /\ c \in Extrinsic /\ Serial!First(c) /\ Line' = Tail(Line)
      /\ AnswerOf' = [AnswerOf EXCEPT ![c] = "rejected"]
  BY AnswerLine
<1>2. Serial!Reject(c)
  BY <1>1 DEF Serial!Reject, Late, Executed
<1> QED
  BY <1>1, <1>2 DEF Serial!Next

LEMMA InitRefines == Init => Serial!Init
<1> SUFFICES ASSUME Init PROVE Serial!Init
  OBVIOUS
<1>1. Line = <<>> /\ Executed = {}
  BY DEF Init, Line, Executed, Extrinsic
<1>2. AnswerOf = [c \in Extrinsic |-> "none"]
  BY DEF Init, AnswerOf, Extrinsic, Answered
<1> QED
  BY <1>1, <1>2 DEF Serial!Init

LEMMA CallRefines ==
    ASSUME IInv, NEW c \in Calls, Call(c)
    PROVE  [Serial!Next]_Serial!serialVars
<1>1. pc[c] = "idle" /\ UNCHANGED tx
  BY DEF Call
<1>2. PICK p \in {"connect", "locked"} : pc' = [pc EXCEPT ![c] = p]
  BY DEF Call
<1>3. \A d \in Calls : (~Answered(d) /\ ~Answered(d)') \/ pc'[d] = pc[d]
  BY <1>1, <1>2 DEF IInv, Typed, Answered
<1>4. CASE IsQuery(c)
  <2>1. UNCHANGED lock
    BY <1>4 DEF Call
  <2> QED
    BY <1>1, <1>3, <2>1, Unmoved DEF Extrinsic
<1>5. CASE ~IsQuery(c)
  <2>1. c \in Extrinsic /\ AnswerOf[c] = "none" /\ UNCHANGED <<AnswerOf, Executed>>
    <3>1. \A d \in Extrinsic : AnswerOf'[d] = AnswerOf[d]
      BY <1>3 DEF AnswerOf, Answered, Extrinsic, IsQuery
    <3> QED
      BY <1>1, <1>5, <3>1 DEF AnswerOf, Answered, Extrinsic, IsQuery, Executed
  <2>2. queue \in Seq(Calls) /\ \A i \in 1..Len(queue) : queue[i] # c
    BY <1>1, NotWaiting DEF IInv, Typed
  <2>3. CASE holder = NoCall
    <3>1. holder' = c /\ queue' = queue /\ queue = <<>> /\ c # NoCall
      BY <1>5, <2>3, ClientAssumption DEF Call, IInv, LockInv
    <3>2. Line = <<>> /\ Line' = Append(Line, c)
      BY <2>3, <3>1 DEF Line
    <3>3. Serial!Accept(c)
      BY <2>1, <3>2 DEF Serial!Accept
    <3> QED
      BY <2>1, <3>3 DEF Serial!Next
  <2>4. CASE holder # NoCall
    <3>1. holder' = holder /\ queue' = Append(queue, c) /\ holder \in Calls /\ holder # c
      BY <1>1, <1>5, <2>4 DEF Call, IInv, Typed, LockInv, Working, InCharge
    <3>2. Line' = Append(Line, c)
      BY <2>2, <2>4, <3>1, AppendCons DEF Line
    <3>3. \A i \in 1..Len(Line) : Line[i] # c
      <4>1. /\ Len(Line) = Len(queue) + 1 /\ Len(queue) \in Nat
            /\ \A i \in 1..Len(Line) : Line[i] = IF i = 1 THEN holder ELSE queue[i - 1]
        BY <2>2, <2>4, <3>1, Cons, LenProperties DEF Line
      <4> QED
        BY <2>2, <3>1, <4>1
    <3>4. Serial!Accept(c)
      BY <2>1, <3>2, <3>3 DEF Serial!Accept
    <3> QED
      BY <2>1, <3>4 DEF Serial!Next
  <2> QED
    BY <2>3, <2>4
<1> QED
  BY <1>4, <1>5

LEMMA StepRefines ==
    ASSUME IInv, [Next]_vars
    PROVE  [Serial!Next]_Serial!serialVars
<1> USE DEF InCharge
<1>1. ASSUME NEW c \in Calls, Connect(c) PROVE UNCHANGED Serial!serialVars
  <2>1. PICK p \in {"init", "apply"} : pc' = [pc EXCEPT ![c] = p]
    BY <1>1 DEF Connect
  <2> QED
    BY <1>1, <2>1, Moved DEF Connect
<1>2. ASSUME NEW c \in Calls, InitDone(c) PROVE [Serial!Next]_Serial!serialVars
  <2>1. pc[c] = "init" /\ UNCHANGED <<via, tx>> /\ tx[c] = "none"
    BY <1>2 DEF InitDone, IInv, TxInv
  <2>2. CASE NewConnection(ClientOf[c]) /\ pc' = [pc EXCEPT ![c] = "apply"] /\ UNCHANGED lock
    BY <2>1, <2>2, Moved
  <2>3. CASE Answer(c, "rejected")
    <3>1. Executed' = Executed
      BY <2>1 DEF Executed, Extrinsic, IsQuery
    <3>2. CASE IsQuery(c)
      BY <2>1, <2>3, <3>2, QueryAnswer
    <3>3. CASE ~IsQuery(c)
      BY <2>1, <2>3, <3>1, <3>3, Rejected
    <3> QED
      BY <3>2, <3>3
  <2> QED
    BY <1>2, <2>2, <2>3 DEF InitDone
<1>3. ASSUME NEW c \in Calls, ApplyQuery(c) PROVE UNCHANGED Serial!serialVars
  <2>1. PICK o \in {"resolved", "rejected"} : Answer(c, o)
    BY <1>3 DEF ApplyQuery
  <2> QED
    BY <1>3, <2>1, QueryAnswer DEF ApplyQuery
<1>4. ASSUME NEW c \in Calls, Submit(c) PROVE [Serial!Next]_Serial!serialVars
  <2>1. pc[c] = "apply" /\ ~IsQuery(c) /\ tx[c] = "none"
    BY <1>4 DEF Submit, IInv, TxInv
  <2>2. tx' = tx \/ tx' = [tx EXCEPT ![c] = "pool"]
    BY <1>4 DEF Submit
  <2>3. Executed' = Executed
    BY <2>1, <2>2 DEF Executed, Extrinsic, IsQuery, IInv, Typed
  <2>4. CASE Answer(c, "rejected")
    BY <2>1, <2>3, <2>4, Rejected
  <2>5. CASE pc' = [pc EXCEPT ![c] = "watch"] /\ UNCHANGED lock
    <3>1. Line' = Line
      BY <2>5 DEF Line, lock
    <3>2. \A d \in Extrinsic : AnswerOf'[d] = AnswerOf[d]
      BY <2>1, <2>5 DEF AnswerOf, Answered, Extrinsic, IsQuery, IInv, Typed
    <3>3. AnswerOf' = AnswerOf
      BY <3>2 DEF AnswerOf, Extrinsic, IsQuery
    <3> QED
      BY <2>3, <3>1, <3>3 DEF Serial!serialVars
  <2> QED
    BY <1>4, <2>4, <2>5 DEF Submit
<1>5. ASSUME NEW c \in Calls, Finalized(c) PROVE [Serial!Next]_Serial!serialVars
  <2>1. pc[c] = "watch" /\ UNCHANGED <<links, via, tx>>
    BY <1>5 DEF Finalized
  <2>2. tx[c] \in {"ok", "failed"}
    BY <1>5 DEF Finalized, CanResolve, CanReject
  <2>3. ~IsQuery(c) /\ Executed' = Executed
    BY <2>1, <2>2 DEF IInv, TxInv, Executed, Extrinsic, IsQuery
  <2>4. CASE CanResolve(c) /\ Answer(c, "resolved")
    <3>1. /\ c \in Extrinsic /\ Serial!First(c) /\ Line' = Tail(Line)
          /\ AnswerOf' = [AnswerOf EXCEPT ![c] = "resolved"]
      BY <2>1, <2>3, <2>4, AnswerLine
    <3>2. Serial!Resolve(c)
      BY <2>3, <2>4, <3>1 DEF Serial!Resolve, Executed, CanResolve
    <3> QED
      BY <3>1, <3>2 DEF Serial!Next
  <2>5. CASE CanReject(c) /\ Answer(c, "rejected")
    BY <2>1, <2>3, <2>5, Rejected DEF CanReject
  <2> QED
    BY <1>5, <2>4, <2>5 DEF Finalized
<1>6. ASSUME NEW c \in Calls, WatchError(c) PROVE [Serial!Next]_Serial!serialVars
  <2>1. pc[c] = "watch" /\ UNCHANGED <<links, via, tx>> /\ Answer(c, "rejected") /\ Late
    BY <1>6 DEF WatchError, Late
  <2>2. Executed' = Executed
    BY <2>1 DEF Executed, Extrinsic, IsQuery
  <2>3. CASE IsQuery(c)
    BY <2>1, <2>3, QueryAnswer
  <2>4. CASE ~IsQuery(c)
    BY <2>1, <2>2, <2>4, Rejected
  <2> QED
    BY <2>3, <2>4
<1>7. ASSUME NEW c \in Calls, Execute(c) PROVE [Serial!Next]_Serial!serialVars
  <2>1. PICK s \in {"ok", "failed", "failedOther", "dropped"} : tx' = [tx EXCEPT ![c] = s]
    BY <1>7 DEF Execute
  <2>2. tx[c] = "pool" /\ UNCHANGED <<pc, lock, links, via>>
    BY <1>7 DEF Execute
  <2>3. Line' = Line /\ AnswerOf' = AnswerOf
    BY <2>2 DEF Line, lock, AnswerOf, Answered, Extrinsic, IsQuery
  <2>4. c \in Extrinsic /\ c \notin Executed
    BY <2>2 DEF IInv, TxInv, Extrinsic, Executed
  <2>5. CASE s # "ok"
    <3>1. Executed' = Executed
      BY <2>1, <2>2, <2>5 DEF Executed, Extrinsic, IsQuery, IInv, Typed
    <3> QED
      BY <2>3, <3>1 DEF Serial!serialVars
  <2>6. CASE s = "ok"
    <3>1. Executed' = Executed \cup {c}
      BY <2>1, <2>4, <2>6 DEF Executed, Extrinsic, IsQuery, IInv, Typed
    <3>2. Serial!First(c) \/ (Late /\ AnswerOf[c] = "rejected")
      <4>1. CASE pc[c] = "watch"
        <5>1. holder = c /\ holder # NoCall
          BY <2>4, <4>1, ClientAssumption DEF IInv, LockInv, Working, Extrinsic
        <5> QED
          BY <5>1, LineFacts DEF Serial!First
      <4>2. CASE Late /\ pc[c] = "rejected"
        BY <2>4, <4>2 DEF AnswerOf, Answered
      <4> QED
        BY <2>2, <4>1, <4>2 DEF IInv, TxInv
    <3>3. Serial!Execute(c)
      BY <2>3, <2>4, <3>1, <3>2 DEF Serial!Execute, Late
    <3> QED
      BY <2>4, <3>3 DEF Serial!Next
  <2> QED
    BY <2>5, <2>6
<1>8. ASSUME NEW u \in Clients, Disconnect(u) PROVE UNCHANGED Serial!serialVars
  <2>1. UNCHANGED <<pc, lock, tx>>
    BY <1>8 DEF Disconnect
  <2> QED
    BY <2>1, Unmoved
<1>9. ASSUME UNCHANGED vars PROVE UNCHANGED Serial!serialVars
  <2>1. UNCHANGED <<pc, lock, tx>>
    BY <1>9 DEF vars
  <2> QED
    BY <2>1, Unmoved
<1>10. ASSUME NEW c \in Calls, Call(c) \/ Step(c) \/ WatchError(c) \/ Execute(c)
      PROVE [Serial!Next]_Serial!serialVars
  BY <1>1, <1>2, <1>3, <1>4, <1>5, <1>6, <1>7, <1>10, CallRefines DEF Step
<1> QED
  BY <1>8, <1>9, <1>10 DEF Next

\* applyExtrinsic executes and answers the extrinsics of all clients one after
\* the other in the order of the calls; a call that resolves was executed, and
\* one that rejects was not unless its answer can be lost.
THEOREM Implements == Spec => ImplementsSerial
BY InitRefines, StepRefines, Invariance, PTL
   DEF Spec, ImplementsSerial, Serial!SerialSpec
=============================================================================
