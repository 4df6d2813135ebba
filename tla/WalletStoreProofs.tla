------------------------- MODULE WalletStoreProofs -------------------------
(***************************************************************************)
(* Proofs about WalletStore, for any number of calls and wallets, any size *)
(* of a chunk and any faults: when the file of the wallets reads back, that*)
(* a wallet is kept, and what an update leaves behind.                     *)
(***************************************************************************)
EXTENDS WalletStore, FiniteSetTheorems, SequenceTheorems, TLAPS

\* What the program writes: one wallet of a name.
Datas == {d \in Seq(Wallet) : \A i, j \in DOMAIN d : d[i].name = d[j].name => i = j}
-----------------------------------------------------------------------------
(***************************************************************************)
(* The object of the wallets.                                              *)
(***************************************************************************)
\* A property of some number has a least number.
LEMMA LeastNumber ==
    ASSUME NEW T \in SUBSET Nat, T # {}
    PROVE  \E k \in T : \A j \in T : k <= j
  <1> DEFINE Less == {p \in Nat \X Nat : p[1] < p[2]}
  <1>1. IsWellFoundedOn(Less, Nat)
    BY NatLessThanWellFounded DEF OpToRel
  <1> HIDE DEF Less
  <1>2. PICK k \in T : \A j \in T : ~ (<<j, k>> \in Less)
    BY <1>1, WFMin
  <1>3. ASSUME NEW j \in T  PROVE k <= j
    <2>1. j \in Nat /\ k \in Nat
      OBVIOUS
    <2>2. <<j, k>> \in Nat \X Nat /\ <<j, k>>[1] = j /\ <<j, k>>[2] = k
      BY <2>1
    <2>3. j < k => <<j, k>> \in Less
      BY <2>2 DEF Less
    <2> QED BY <1>2, <2>1, <2>3
  <1> QED BY <1>3

LEMMA DataShape ==
    ASSUME NEW d \in Seq(Wallet)
    PROVE  /\ Len(d) \in Nat /\ DOMAIN d = 1..Len(d)
           /\ \A i \in DOMAIN d : d[i] \in Wallet /\ d[i].name \in Names /\ d[i].secret \in Secrets
           /\ Range(d) \subseteq Wallet
           /\ \A i \in DOMAIN d : d[i] \in Range(d)
           /\ \A w \in Range(d) : \E i \in DOMAIN d : d[i] = w
  <1>1. Len(d) \in Nat /\ DOMAIN d = 1..Len(d) /\ (\A i \in DOMAIN d : d[i] \in Wallet)
    OBVIOUS
  <1>2. \A w \in Wallet : w.name \in Names /\ w.secret \in Secrets
    BY DEF Wallet
  <1> QED BY <1>1, <1>2 DEF Range

\* A wallet of an object is found below its name.
LEMMA Finding ==
    ASSUME NEW d \in Datas, NEW n, Has(d, n)
    PROVE  /\ PlaceOf(d, n) \in DOMAIN d /\ d[PlaceOf(d, n)].name = n
           /\ n \in Names /\ SecretOf(d, n) \in Secrets
  <1>1. d \in Seq(Wallet)
    BY DEF Datas
  <1>2. PlaceOf(d, n) \in DOMAIN d /\ d[PlaceOf(d, n)].name = n
    BY DEF Has, PlaceOf
  <1> QED BY <1>1, <1>2, DataShape DEF SecretOf

LEMMA Kept ==
    ASSUME NEW d \in Datas, NEW w \in Range(d)
    PROVE  Has(d, w.name) /\ SecretOf(d, w.name) = w.secret
  <1>1. d \in Seq(Wallet)
    BY DEF Datas
  <1>2. PICK i \in DOMAIN d : d[i] = w
    BY <1>1, DataShape
  <1>3. Has(d, w.name)
    BY <1>2 DEF Has
  <1>4. PlaceOf(d, w.name) = i
    BY <1>2, <1>3, Finding DEF Datas
  <1> QED BY <1>2, <1>3, <1>4 DEF SecretOf

\* data[name] = secret.
LEMMA PutNew ==
    ASSUME NEW d \in Datas, NEW w \in Wallet, ~Has(d, w.name)
    PROVE  /\ Put(d, w) = Append(d, w) /\ Put(d, w) \in Datas
           /\ w \in Range(Put(d, w)) /\ Range(d) \subseteq Range(Put(d, w))
  <1> DEFINE e == Append(d, w)
  <1>1. Put(d, w) = e
    BY DEF Put
  <1>2. d \in Seq(Wallet)
    BY DEF Datas
  <1>3. /\ e \in Seq(Wallet) /\ DOMAIN e = 1..(Len(d) + 1) /\ e[Len(d) + 1] = w
        /\ DOMAIN d = 1..Len(d) /\ Len(d) \in Nat
        /\ \A i \in DOMAIN d : i \in DOMAIN e /\ e[i] = d[i]
    BY <1>2
  <1>4. \A i \in DOMAIN d : d[i].name # w.name
    BY DEF Has
  <1> HIDE DEF e
  <1>5. ASSUME NEW i \in DOMAIN e, NEW j \in DOMAIN e, e[i].name = e[j].name
        PROVE  i = j
    <2>1. CASE i \in DOMAIN d /\ j \in DOMAIN d
      BY <1>3, <1>5, <2>1 DEF Datas
    <2>2. CASE i \notin DOMAIN d \/ j \notin DOMAIN d
      BY <1>3, <1>4, <1>5, <2>2
    <2> QED BY <2>1, <2>2
  <1>6. e \in Datas
    BY <1>3, <1>5 DEF Datas
  <1>7. w \in Range(e) /\ Range(d) \subseteq Range(e)
    BY <1>3 DEF Range
  <1> QED BY <1>1, <1>6, <1>7 DEF e

LEMMA Putting ==
    ASSUME NEW d \in Datas, NEW w \in Wallet
    PROVE  Put(d, w) \in Datas /\ w \in Range(Put(d, w))
  <1>1. CASE ~Has(d, w.name)
    BY <1>1, PutNew
  <1>2. CASE Has(d, w.name)
    <2> DEFINE e == [i \in DOMAIN d |-> IF d[i].name = w.name THEN w ELSE d[i]]
    <2>1. Put(d, w) = e
      BY <1>2 DEF Put
    <2>2. d \in Seq(Wallet) /\ DOMAIN d = 1..Len(d) /\ Len(d) \in Nat
          /\ (\A i \in DOMAIN d : d[i] \in Wallet)
      BY DataShape DEF Datas
    <2>3. DOMAIN e = DOMAIN d /\ (\A i \in DOMAIN d : e[i] \in Wallet)
      BY <2>2
    <2>4. e \in [1..Len(d) -> Wallet]
      BY <2>2, <2>3
    <2>5. e \in Seq(Wallet)
      BY <2>2, <2>4
    <2>6. \A i \in DOMAIN d : e[i].name = d[i].name
      OBVIOUS
    <2>7. e \in Datas
      BY <2>3, <2>5, <2>6 DEF Datas
    <2>8. PICK i \in DOMAIN d : d[i].name = w.name
      BY <1>2 DEF Has
    <2>9. i \in DOMAIN e /\ e[i] = w
      BY <2>8
    <2>10. w \in Range(e)
      BY <2>9 DEF Range
    <2> QED BY <2>1, <2>7, <2>10
  <1> QED BY <1>1, <1>2

\* delete data[name].
LEMMA Taking ==
    ASSUME NEW d \in Datas, NEW n
    PROVE  /\ Without(d, n) \in Datas /\ ~Has(Without(d, n), n)
           /\ \A w \in Range(d) : w.name # n => w \in Range(Without(d, n))
  <1>1. CASE ~Has(d, n)
    BY <1>1 DEF Without
  <1>2. CASE Has(d, n)
    <2> DEFINE p == PlaceOf(d, n)
               e == SubSeq(d, 1, p - 1) \o SubSeq(d, p + 1, Len(d))
    <2>1. Without(d, n) = e
      BY <1>2 DEF Without, RemoveAt
    <2>2. d \in Seq(Wallet) /\ DOMAIN d = 1..Len(d) /\ Len(d) \in Nat
      BY DataShape DEF Datas
    <2>3. p \in 1..Len(d) /\ d[p].name = n
      BY <1>2, <2>2, Finding
    <2> HIDE DEF p
    <2>4. /\ SubSeq(d, 1, p - 1) \in Seq(Wallet) /\ Len(SubSeq(d, 1, p - 1)) = p - 1
          /\ \A i \in 1..(p - 1) : SubSeq(d, 1, p - 1)[i] = d[i]
      <3>1. \A i \in 1..(p - 1) : d[i] \in Wallet
        BY <2>2, <2>3
      <3> QED BY <2>3, <3>1, SubSeqProperties
    <2>5. /\ SubSeq(d, p + 1, Len(d)) \in Seq(Wallet)
          /\ Len(SubSeq(d, p + 1, Len(d))) = Len(d) - p
          /\ \A i \in 1..(Len(d) - p) : SubSeq(d, p + 1, Len(d))[i] = d[p + i]
      <3> DEFINE m == p + 1
                 g == SubSeq(d, m, Len(d))
      <3>1. \A i \in m..Len(d) : d[i] \in Wallet
        BY <2>2, <2>3
      <3>2. m \in Int /\ Len(d) \in Int
        BY <2>2, <2>3
      <3> HIDE DEF m
      <3>3. /\ g \in Seq(Wallet) /\ Len(g) = IF m <= Len(d) THEN Len(d) - m + 1 ELSE 0
            /\ \A i \in 1..(Len(d) - m + 1) : g[i] = d[m + i - 1]
        BY <3>1, <3>2, SubSeqProperties
      <3> HIDE DEF g
      <3>4. Len(g) = Len(d) - p
        <4>1. p \in Int /\ p <= Len(d) /\ Len(d) \in Int
          BY <2>2, <2>3
        <4>2. CASE p = Len(d)
          <5>1. ~(m <= Len(d)) /\ Len(d) - p = 0
            BY <4>1, <4>2 DEF m
          <5> QED BY <3>3, <5>1
        <4>3. CASE p # Len(d)
          <5>1. m <= Len(d) /\ Len(d) - m + 1 = Len(d) - p
            BY <4>1, <4>3 DEF m
          <5> QED BY <3>3, <5>1
        <4> QED BY <4>2, <4>3
      <3>5. \A i \in 1..(Len(d) - p) : i \in 1..(Len(d) - m + 1) /\ m + i - 1 = p + i
        BY <2>2, <2>3 DEF m
      <3>6. \A i \in 1..(Len(d) - p) : g[i] = d[p + i]
        BY <3>3, <3>5
      <3> QED BY <3>3, <3>4, <3>6 DEF m, g
    <2>6. /\ e \in Seq(Wallet) /\ DOMAIN e = 1..(Len(d) - 1)
          /\ \A i \in DOMAIN e : e[i] = d[IF i < p THEN i ELSE i + 1]
      <3> DEFINE f == SubSeq(d, 1, p - 1)
                 g == SubSeq(d, p + 1, Len(d))
                 h == f \o g
      <3>1. /\ f \in Seq(Wallet) /\ Len(f) = p - 1 /\ \A i \in 1..(p - 1) : f[i] = d[i]
            /\ g \in Seq(Wallet) /\ Len(g) = Len(d) - p /\ \A i \in 1..(Len(d) - p) : g[i] = d[p + i]
        BY <2>4, <2>5
      <3> HIDE DEF f, g
      <3>2. /\ h \in Seq(Wallet) /\ Len(h) = Len(f) + Len(g)
            /\ \A i \in 1..(Len(f) + Len(g)) : h[i] = IF i <= Len(f) THEN f[i] ELSE g[i - Len(f)]
        BY <3>1, ConcatProperties
      <3> HIDE DEF h
      <3>3. Len(f) + Len(g) = Len(d) - 1 /\ DOMAIN h = 1..(Len(d) - 1)
        BY <2>2, <2>3, <3>1, <3>2
      <3>4. ASSUME NEW i \in 1..(Len(d) - 1)
            PROVE  h[i] = d[IF i < p THEN i ELSE i + 1]
        <4>1. CASE i < p
          <5>1. i <= Len(f) /\ i \in 1..(p - 1)
            BY <2>2, <2>3, <3>1, <4>1
          <5> QED BY <3>1, <3>2, <3>3, <4>1, <5>1
        <4>2. CASE ~(i < p)
          <5>1. ~(i <= Len(f)) /\ i - Len(f) \in 1..(Len(d) - p) /\ p + (i - Len(f)) = i + 1
            BY <2>2, <2>3, <3>1, <4>2
          <5>2. h[i] = g[i - Len(f)]
            BY <3>2, <3>3, <5>1
          <5> QED BY <3>1, <4>2, <5>1, <5>2
        <4> QED BY <4>1, <4>2
      <3> QED BY <3>2, <3>3, <3>4 DEF f, g, h
    <2> HIDE DEF e
    <2>7. ASSUME NEW i \in DOMAIN e, NEW j \in DOMAIN e, e[i].name = e[j].name
          PROVE  i = j
      <3>1. (IF i < p THEN i ELSE i + 1) \in DOMAIN d /\ (IF j < p THEN j ELSE j + 1) \in DOMAIN d
        BY <2>2, <2>3, <2>6
      <3>2. (IF i < p THEN i ELSE i + 1) = (IF j < p THEN j ELSE j + 1)
        BY <2>6, <2>7, <3>1 DEF Datas
      <3> QED BY <2>3, <2>6, <3>2
    <2>8. e \in Datas
      BY <2>6, <2>7 DEF Datas
    <2>9. ASSUME NEW i \in DOMAIN e, e[i].name = n
          PROVE  FALSE
      <3>1. (IF i < p THEN i ELSE i + 1) \in DOMAIN d
        BY <2>2, <2>3, <2>6
      <3>2. (IF i < p THEN i ELSE i + 1) = p
        BY <2>2, <2>3, <2>6, <2>9, <3>1 DEF Datas
      <3> QED BY <2>3, <2>6, <3>2
    <2>10. ASSUME NEW w \in Range(d), w.name # n
           PROVE  w \in Range(e)
      <3>1. PICK i \in DOMAIN d : d[i] = w
        BY <2>2, DataShape
      <3>2. i # p
        BY <2>3, <2>10, <3>1
      <3>3. CASE i < p
        <4>1. i \in DOMAIN e /\ e[i] = w
          BY <2>2, <2>3, <2>6, <3>1, <3>3
        <4> QED BY <4>1 DEF Range
      <3>4. CASE i > p
        <4>1. i - 1 \in DOMAIN e /\ e[i - 1] = w
          BY <2>2, <2>3, <2>6, <3>1, <3>4
        <4> QED BY <4>1 DEF Range
      <3> QED BY <2>2, <2>3, <3>2, <3>3, <3>4
    <2> QED BY <2>1, <2>8, <2>9, <2>10 DEF Has
  <1> QED BY <1>1, <1>2
-----------------------------------------------------------------------------
(***************************************************************************)
(* The text of an object, and what is parsed from a text.                  *)
(***************************************************************************)
LEMMA TextShape ==
    ASSUME NEW d \in Seq(Wallet)
    PROVE  /\ Text(d) \in Seq(Token) /\ Len(Text(d)) = Len(d) + 1 /\ Text(d) # <<>>
           /\ DOMAIN Text(d) = 1..(Len(d) + 1)
           /\ \A i \in 1..Len(d) : Text(d)[i] = d[i]
           /\ WellFormed(Text(d))
  <1> DEFINE t == Text(d)
  <1>1. d \in Seq(Token) /\ End \in Token /\ Len(d) \in Nat
    BY SeqMonotonic DEF Token
  <1>2. /\ t \in Seq(Token) /\ Len(t) = Len(d) + 1 /\ DOMAIN t = 1..(Len(d) + 1)
        /\ t[Len(d) + 1] = End /\ \A i \in 1..Len(d) : t[i] = d[i]
    BY <1>1 DEF Text
  <1> HIDE DEF t
  <1>3. t # <<>>
    BY <1>1, <1>2, EmptySeq
  <1>4. \A i \in 1..Len(d) : t[i] # End
    BY <1>2, WalletAssumption
  <1>5. \A i \in DOMAIN t : t[i] = End <=> i = Len(t)
    BY <1>1, <1>2, <1>4
  <1> QED BY <1>2, <1>3, <1>5 DEF WellFormed, t

\* The recursive function of Parsed exists.
FoldsTo(n, f, t) == f = [i \in 0..n |-> IF i = 0 THEN <<>> ELSE Put(f[i - 1], t[i])]
LEMMA FoldExists ==
    ASSUME NEW t, NEW m \in Nat
    PROVE  \E f : FoldsTo(m, f, t)
  <1> DEFINE Bad == {n \in Nat : ~\E f : FoldsTo(n, f, t)}
  <1>1. SUFFICES ASSUME Bad # {} PROVE FALSE
    OBVIOUS
  <1>2. PICK n \in Bad : \A j \in Bad : n <= j
    BY <1>1, LeastNumber
  <1>3. n \in Nat /\ ~\E f : FoldsTo(n, f, t)
    OBVIOUS
  <1>4. CASE n = 0
    <2> DEFINE f == [i \in 0..0 |-> <<>>]
    <2>1. f = [i \in 0..0 |-> IF i = 0 THEN <<>> ELSE Put(f[i - 1], t[i])]
      OBVIOUS
    <2>2. FoldsTo(0, f, t)
      BY <2>1 DEF FoldsTo
    <2> QED BY <1>3, <1>4, <2>2
  <1>5. CASE n # 0
    <2>1. n - 1 \in Nat /\ n - 1 \notin Bad
      BY <1>2, <1>3, <1>5
    <2>2. PICK g : FoldsTo(n - 1, g, t)
      BY <2>1
    <2> DEFINE f == [i \in 0..n |-> IF i = 0 THEN <<>> ELSE Put(g[i - 1], t[i])]
    <2>3. \A i \in 0..(n - 1) : g[i] = IF i = 0 THEN <<>> ELSE Put(g[i - 1], t[i])
      BY <2>2 DEF FoldsTo
    <2>4. \A i \in 0..(n - 1) : f[i] = g[i]
      BY <2>1, <2>3
    <2>5. \A i \in 0..n : i = 0 \/ i - 1 \in 0..(n - 1)
      BY <1>3
    <2>6. ASSUME NEW i \in 0..n
          PROVE  (IF i = 0 THEN <<>> ELSE Put(g[i - 1], t[i]))
                  = (IF i = 0 THEN <<>> ELSE Put(f[i - 1], t[i]))
      BY <2>4, <2>5
    <2>7. f = [i \in 0..n |-> IF i = 0 THEN <<>> ELSE Put(f[i - 1], t[i])]
      BY <2>6
    <2>8. FoldsTo(n, f, t)
      BY <2>7 DEF FoldsTo
    <2> QED BY <1>3, <2>8
  <1> QED BY <1>4, <1>5

LEMMA ParsedFolds ==
    ASSUME NEW t \in Seq(Token), t # <<>>
    PROVE  /\ Len(t) \in Nat \ {0}
           /\ \E f : /\ Parsed(t) = f[Len(t) - 1] /\ f[0] = <<>>
                     /\ \A i \in 1..(Len(t) - 1) : f[i] = Put(f[i - 1], t[i])
  <1>1. Len(t) \in Nat \ {0} /\ Len(t) - 1 \in Nat
    BY EmptySeq
  <1> DEFINE n == Len(t) - 1
             f == CHOOSE g : g = [i \in 0..(Len(t) - 1) |->
                                    IF i = 0 THEN <<>> ELSE Put(g[i - 1], t[i])]
  <1>2. \E g : g = [i \in 0..(Len(t) - 1) |-> IF i = 0 THEN <<>> ELSE Put(g[i - 1], t[i])]
    BY <1>1, FoldExists DEF FoldsTo
  <1>3. f = [i \in 0..(Len(t) - 1) |-> IF i = 0 THEN <<>> ELSE Put(f[i - 1], t[i])]
    BY <1>2
  <1>4. Parsed(t) = f[Len(t) - 1]
    BY DEF Parsed
  <1> HIDE DEF f
  <1>5. 0 \in 0..(Len(t) - 1) /\ (\A i \in 1..(Len(t) - 1) : i \in 0..(Len(t) - 1) /\ i # 0)
    BY <1>1
  <1>6. f[0] = <<>> /\ (\A i \in 1..(Len(t) - 1) : f[i] = Put(f[i - 1], t[i]))
    BY <1>3, <1>5
  <1> QED BY <1>1, <1>4, <1>6

\* JSON.parse of a text makes an object.
LEMMA ParsedObject ==
    ASSUME NEW t \in Seq(Token), WellFormed(t)
    PROVE  Parsed(t) \in Datas
  <1>1. <<>> \in Datas
    BY EmptySeq DEF Datas
  <1>2. CASE t = <<>>
    BY <1>1, <1>2 DEF Parsed
  <1>3. CASE t # <<>>
    <2>1. /\ Len(t) \in Nat \ {0}
          /\ \E f : /\ Parsed(t) = f[Len(t) - 1] /\ f[0] = <<>>
                    /\ \A i \in 1..(Len(t) - 1) : f[i] = Put(f[i - 1], t[i])
      BY <1>3, ParsedFolds
    <2>2. PICK f : /\ Parsed(t) = f[Len(t) - 1] /\ f[0] = <<>>
                   /\ \A i \in 1..(Len(t) - 1) : f[i] = Put(f[i - 1], t[i])
      BY <2>1
    <2>3. ASSUME NEW i \in 1..(Len(t) - 1)
          PROVE  t[i] \in Wallet
      <3>1. i \in DOMAIN t /\ i # Len(t)
        BY <2>1
      <3>2. t[i] \in Token /\ t[i] # End
        BY <1>3, <3>1 DEF WellFormed
      <3> QED BY <3>2 DEF Token
    <2> DEFINE Bad == {i \in 0..(Len(t) - 1) : f[i] \notin Datas}
    <2>4. SUFFICES Bad = {}
      <3>1. Len(t) - 1 \in 0..(Len(t) - 1)
        BY <2>1
      <3> QED BY <2>2, <3>1
    <2>5. SUFFICES ASSUME Bad # {} PROVE FALSE
      OBVIOUS
    <2>6. PICK i \in Bad : \A j \in Bad : i <= j
      <3>1. Bad \subseteq Nat
        BY <2>1
      <3> QED BY <2>5, <3>1, LeastNumber
    <2>7. i # 0
      BY <1>1, <2>2
    <2>8. i \in 1..(Len(t) - 1) /\ i - 1 \in 0..(Len(t) - 1) /\ ~(i <= i - 1)
      BY <2>1, <2>7
    <2>9. f[i - 1] \in Datas
      BY <2>6, <2>8
    <2>10. f[i] \in Datas
      BY <2>2, <2>3, <2>8, <2>9, Putting
    <2> QED BY <2>10
  <1> QED BY <1>2, <1>3

\* The beginning of an object.
LEMMA Beginning ==
    ASSUME NEW d \in Datas, NEW i \in 1..Len(d)
    PROVE  /\ SubSeq(d, 1, i - 1) \in Datas /\ d[i] \in Wallet
           /\ Put(SubSeq(d, 1, i - 1), d[i]) = SubSeq(d, 1, i)
  <1> DEFINE e == SubSeq(d, 1, i - 1)
  <1>1. d \in Seq(Wallet) /\ DOMAIN d = 1..Len(d) /\ Len(d) \in Nat
        /\ (\A j \in DOMAIN d : d[j] \in Wallet)
    BY DataShape DEF Datas
  <1>2. i - 1 \in Int /\ i <= Len(d) /\ i \in Nat /\ 1 <= i
    BY <1>1
  <1>3. \A j \in 1..(i - 1) : j \in DOMAIN d /\ d[j] \in Wallet /\ j # i
    BY <1>1, <1>2
  <1>4. /\ e \in Seq(Wallet) /\ Len(e) = IF 1 <= i - 1 THEN (i - 1) - 1 + 1 ELSE 0
        /\ \A j \in 1..((i - 1) - 1 + 1) : e[j] = d[1 + j - 1]
    BY <1>2, <1>3, SubSeqProperties
  <1> HIDE DEF e
  <1>5. Len(e) = i - 1 /\ DOMAIN e = 1..(i - 1)
    BY <1>2, <1>4
  <1>6. \A j \in 1..(i - 1) : e[j] = d[j]
    <2>1. \A j \in 1..(i - 1) : j \in 1..((i - 1) - 1 + 1) /\ 1 + j - 1 = j
      BY <1>2
    <2> QED BY <1>4, <2>1
  <1>7. e \in Datas
    BY <1>3, <1>4, <1>5, <1>6 DEF Datas
  <1>8. ~Has(e, d[i].name)
    <2>1. ASSUME NEW j \in DOMAIN e, e[j].name = d[i].name  PROVE FALSE
      BY <1>1, <1>3, <1>5, <1>6, <2>1 DEF Datas
    <2> QED BY <2>1 DEF Has
  <1>9. Put(e, d[i]) = Append(e, d[i])
    BY <1>1, <1>7, <1>8, PutNew
  <1>10. SubSeq(d, 1, i) = e \o << d[i] >>
    BY <1>1, <1>2, SubSeqRecursiveSecond DEF e
  <1>11. Append(e, d[i]) = e \o << d[i] >>
    BY <1>1, <1>4, AppendIsConcat
  <1> QED BY <1>1, <1>7, <1>9, <1>10, <1>11 DEF e

\* What JSON.stringify writes, JSON.parse reads.
LEMMA ParsedText ==
    ASSUME NEW d \in Datas
    PROVE  Parsed(Text(d)) = d
  <1> DEFINE t == Text(d)
  <1>1. d \in Seq(Wallet) /\ Len(d) \in Nat
    BY DEF Datas
  <1>2. /\ t \in Seq(Token) /\ Len(t) = Len(d) + 1 /\ t # <<>>
        /\ \A i \in 1..Len(d) : t[i] = d[i]
    BY <1>1, TextShape
  <1> HIDE DEF t
  <1>3. PICK f : /\ Parsed(t) = f[Len(t) - 1] /\ f[0] = <<>>
                 /\ \A i \in 1..(Len(t) - 1) : f[i] = Put(f[i - 1], t[i])
    BY <1>2, ParsedFolds
  <1>4. Len(t) - 1 = Len(d)
    BY <1>1, <1>2
  <1> DEFINE Bad == {i \in 0..Len(d) : f[i] # SubSeq(d, 1, i)}
  <1>5. Bad = {}
    <2>1. SUFFICES ASSUME Bad # {} PROVE FALSE
      OBVIOUS
    <2>2. PICK i \in Bad : \A j \in Bad : i <= j
      <3>1. Bad \subseteq Nat
        BY <1>1
      <3> QED BY <2>1, <3>1, LeastNumber
    <2>3. CASE i = 0
      <3>1. SubSeq(d, 1, 0) = <<>>
        BY SubSeqEmpty
      <3> QED BY <1>3, <2>3, <3>1
    <2>4. CASE i # 0
      <3>1. i \in 1..Len(d) /\ i - 1 \in 0..Len(d) /\ ~(i <= i - 1)
        BY <1>1, <2>4
      <3>2. f[i - 1] = SubSeq(d, 1, i - 1)
        BY <2>2, <3>1
      <3>3. f[i] = Put(SubSeq(d, 1, i - 1), d[i])
        BY <1>2, <1>3, <1>4, <3>1, <3>2
      <3>4. f[i] = SubSeq(d, 1, i)
        BY <3>1, <3>3, Beginning
      <3> QED BY <3>4
    <2> QED BY <2>3, <2>4
  <1>6. f[Len(d)] = SubSeq(d, 1, Len(d))
    BY <1>1, <1>5
  <1>7. SubSeq(d, 1, Len(d)) = d
    BY <1>1, SubSeqFull
  <1> QED BY <1>3, <1>4, <1>6, <1>7 DEF t

\* No object has more wallets than there are names.
LEMMA ObjectSize ==
    ASSUME NEW d \in Datas
    PROVE  Len(d) <= Cardinality(Names)
  <1> DEFINE f == [i \in 1..Len(d) |-> d[i].name]
  <1>1. Len(d) \in Nat /\ DOMAIN d = 1..Len(d) /\ (\A i \in DOMAIN d : d[i].name \in Names)
    BY DataShape DEF Datas
  <1>2. f \in [1..Len(d) -> Names] /\ (\A i, j \in 1..Len(d) : f[i] = f[j] => i = j)
    BY <1>1 DEF Datas
  <1>3. f \in Injection(1..Len(d), Names)
    BY <1>2 DEF Injection, IsInjective
  <1>4. Cardinality(1..Len(d)) <= Cardinality(Names)
    BY <1>3, FS_Injection, WalletAssumption
  <1>5. Cardinality(1..Len(d)) = Len(d)
    <2>1. Cardinality(1..Len(d)) = IF 1 > Len(d) THEN 0 ELSE Len(d) - 1 + 1
      BY <1>1, FS_Interval
    <2> QED BY <1>1, <2>1
  <1> QED BY <1>4, <1>5
-----------------------------------------------------------------------------
(***************************************************************************)
(* The chunks of a text and their keys.                                    *)
(***************************************************************************)
LEMMA Division ==
    ASSUME NEW l \in Nat \ {0}, NEW s \in Nat \ {0}, NEW n, n = (l + s - 1) \div s
    PROVE  n \in Nat \ {0} /\ (n - 1) * s < l /\ l <= n * s
  <1>1. n \in Int /\ n * s <= l + s - 1 /\ l + s - 1 < n * s + s
    OBVIOUS
  <1>2. (n - 1) * s = n * s - s
    BY <1>1
  <1>3. n * s \in Int
    BY <1>1
  <1>4. (n - 1) * s < l /\ l <= n * s
    BY <1>1, <1>2, <1>3
  <1>5. n >= 1
    <2>1. CASE n <= 0
      <3>1. n * s <= 0
        BY <1>1, <2>1
      <3> QED BY <1>4, <3>1, <1>3
    <2> QED BY <1>1, <2>1
  <1> QED BY <1>1, <1>4, <1>5

\* The ends of a chunk, which is never empty.
LEMMA ChunkEnds ==
    ASSUME NEW l \in Nat \ {0}, NEW s \in Nat \ {0}, NEW n \in Nat \ {0},
           (n - 1) * s < l, NEW i \in 1..n
    PROVE  LET j == IF i = n THEN l ELSE i * s
           IN /\ (i - 1) * s + 1 \in 1..l /\ j \in 1..l /\ (i - 1) * s + 1 <= j
              /\ i # n => (i + 1 - 1) * s = j
  <1>1. /\ i \in Int /\ s \in Int /\ n \in Int /\ l \in Int /\ 1 <= i /\ i <= n /\ 1 <= s
        /\ i * s \in Int /\ (i - 1) * s \in Int /\ (n - 1) * s \in Int
    OBVIOUS
  <1>2. (i - 1) * s >= 0 /\ (i - 1) * s <= (n - 1) * s
    BY <1>1
  <1>3. i * s = (i - 1) * s + s
    BY <1>1
  <1>4. i # n => i * s <= (n - 1) * s
    BY <1>1
  <1>5. i + 1 - 1 = i
    BY <1>1
  <1> QED BY <1>1, <1>2, <1>3, <1>4, <1>5

LEMMA Cutting ==
    ASSUME NEW t \in Seq(Token), t # <<>>
    PROVE  /\ Cut(t) \in Seq(Seq(Token)) /\ Len(Cut(t)) \in Nat \ {0}
           /\ \A i \in 1..Len(Cut(t)) : Cut(t)[i] \in Seq(Token) /\ Cut(t)[i] # <<>>
           /\ Len(Cut(t)) = 1 => Cut(t)[1] = t
           /\ Len(Cut(t)) = 2 => Cut(t)[1] \o Cut(t)[2] = t
           /\ (Len(Cut(t)) - 1) * ChunkSize < Len(t)
  <1> DEFINE n == (Len(t) + ChunkSize - 1) \div ChunkSize
             lo(i) == (i - 1) * ChunkSize + 1
             hi(i) == IF i = n THEN Len(t) ELSE i * ChunkSize
             p == [i \in 1..n |-> SubSeq(t, lo(i), hi(i))]
  <1>1. Len(t) \in Nat \ {0} /\ ChunkSize \in Nat \ {0} /\ DOMAIN t = 1..Len(t)
        /\ (\A i \in 1..Len(t) : t[i] \in Token)
    BY EmptySeq, WalletAssumption
  <1>2. n \in Nat \ {0} /\ (n - 1) * ChunkSize < Len(t)
    BY <1>1, Division
  <1>3. Cut(t) = p
    BY DEF Cut
  <1> HIDE DEF n
  <1>4. ASSUME NEW i \in 1..n
        PROVE  lo(i) \in 1..Len(t) /\ hi(i) \in 1..Len(t) /\ lo(i) <= hi(i)
    BY <1>1, <1>2, ChunkEnds
  <1>5. ASSUME NEW i \in 1..n
        PROVE  p[i] \in Seq(Token) /\ p[i] # <<>>
    <2>1. lo(i) \in 1..Len(t) /\ hi(i) \in 1..Len(t) /\ lo(i) <= hi(i)
      BY <1>4
    <2>2. p[i] = SubSeq(t, lo(i), hi(i))
      OBVIOUS
    <2> HIDE DEF lo, hi, p
    <2>3. lo(i) \in Int /\ hi(i) \in Int /\ (\A j \in lo(i)..hi(i) : t[j] \in Token)
      BY <1>1, <2>1
    <2>4. /\ p[i] \in Seq(Token)
          /\ Len(p[i]) = IF lo(i) <= hi(i) THEN hi(i) - lo(i) + 1 ELSE 0
      BY <2>2, <2>3, SubSeqProperties
    <2>5. Len(p[i]) # 0
      BY <2>1, <2>3, <2>4
    <2> QED BY <2>4, <2>5, EmptySeq
  <1>6. p \in Seq(Seq(Token)) /\ Len(p) = n
    <2>1. p \in [1..n -> Seq(Token)]
      BY <1>5
    <2> HIDE DEF p
    <2> QED BY <1>2, <2>1
  <1>7. n = 1 => p[1] = t
    <2>1. SUFFICES ASSUME n = 1 PROVE p[1] = t
      OBVIOUS
    <2>2. p[1] = SubSeq(t, 1, Len(t))
      <3>1. (1 - 1) * ChunkSize + 1 = 1 /\ 1 \in 1..n
        BY <1>1, <2>1
      <3> QED BY <2>1, <3>1
    <2> QED BY <2>2, SubSeqFull
  <1>8. n = 2 => p[1] \o p[2] = t
    <2>1. SUFFICES ASSUME n = 2 PROVE p[1] \o p[2] = t
      OBVIOUS
    <2>2. /\ lo(1) = 1 /\ hi(1) = ChunkSize /\ lo(2) = ChunkSize + 1 /\ hi(2) = Len(t)
          /\ 1 \in 1..n /\ 2 \in 1..n
      BY <1>1, <2>1
    <2>3. p[1] = SubSeq(t, lo(1), hi(1)) /\ p[2] = SubSeq(t, lo(2), hi(2))
      BY <2>2
    <2>4. ChunkSize \in 1..Len(t)
      BY <1>4, <2>2
    <2> HIDE DEF lo, hi, p
    <2>5. p[1] \o p[2] = SubSeq(t, 1, ChunkSize) \o SubSeq(t, ChunkSize + 1, Len(t))
      BY <2>2, <2>3
    <2>6. SubSeq(t, 1, ChunkSize) \o SubSeq(t, ChunkSize + 1, Len(t)) = SubSeq(t, 1, Len(t))
      <3>1. 1 \in 1..(Len(t) + 1) /\ ChunkSize \in (1 - 1)..Len(t) /\ Len(t) \in ChunkSize..Len(t)
        BY <1>1, <2>4
      <3> QED BY <3>1, ConcatAdjacentSubSeq
    <2> QED BY <2>5, <2>6, SubSeqFull
  <1> HIDE DEF p
  <1> QED BY <1>2, <1>3, <1>5, <1>6, <1>7, <1>8

LEMMA PieceFacts ==
    ASSUME NEW t \in Seq(Token), t # <<>>
    PROVE  /\ Pieces(t) \in Seq(Seq(Token)) /\ Len(Pieces(t)) \in Nat \ {0}
           /\ \A i \in 1..Len(Pieces(t)) : Pieces(t)[i] \in Seq(Token) /\ Pieces(t)[i] # <<>>
           /\ Len(Pieces(t)) = 1 => Pieces(t)[1] = t
           /\ Len(Pieces(t)) = 2 => Pieces(t)[1] \o Pieces(t)[2] = t
           /\ backend = "fs" => Len(Pieces(t)) = 1
  <1>1. CASE backend = "fs"
    <2>1. Pieces(t) = << t >>
      BY <1>1 DEF Pieces
    <2>2. << t >> \in Seq(Seq(Token)) /\ Len(<< t >>) = 1 /\ << t >>[1] = t
      OBVIOUS
    <2>3. \A i \in 1..1 : i = 1
      OBVIOUS
    <2> QED BY <2>1, <2>2, <2>3
  <1>2. CASE backend # "fs"
    BY <1>2, Cutting DEF Pieces
  <1> QED BY <1>1, <1>2

\* The keys are enough for a text of the program.
LEMMA PieceCount ==
    ASSUME NEW d \in Datas
    PROVE  Len(Pieces(Text(d))) \in 1..(MaxChunks + 1)
  <1> DEFINE t == Text(d)
  <1>1. d \in Seq(Wallet) /\ Len(d) \in Nat
    BY DEF Datas
  <1>2. t \in Seq(Token) /\ t # <<>> /\ Len(t) = Len(d) + 1
    BY <1>1, TextShape
  <1> HIDE DEF t
  <1>3. /\ ChunkSize \in Nat \ {0} /\ MaxChunks \in Nat \ {0}
        /\ Cardinality(Names) \in Nat /\ Cardinality(Names) < ChunkSize * (MaxChunks + 1)
    BY WalletAssumption, FS_CardinalityType
  <1>4. Len(t) <= ChunkSize * (MaxChunks + 1) /\ Len(t) \in Int
    <2>1. Len(d) <= Cardinality(Names) /\ ChunkSize * (MaxChunks + 1) \in Int
      BY <1>3, ObjectSize
    <2> QED BY <1>1, <1>2, <1>3, <2>1
  <1>5. CASE backend = "fs"
    <2>1. Len(Pieces(t)) = 1
      BY <1>2, <1>5, PieceFacts
    <2> QED BY <1>3, <2>1 DEF t
  <1>6. CASE backend # "fs"
    <2> DEFINE n == Len(Cut(t))
    <2>1. n \in Nat \ {0} /\ (n - 1) * ChunkSize < Len(t)
      BY <1>2, Cutting
    <2> HIDE DEF n
    <2>2. n <= MaxChunks + 1
      <3>1. SUFFICES ASSUME n - 1 >= MaxChunks + 1 PROVE FALSE
        BY <1>3, <2>1
      <3>2. (n - 1) * ChunkSize >= (MaxChunks + 1) * ChunkSize
        BY <1>3, <2>1, <3>1
      <3>3. (MaxChunks + 1) * ChunkSize = ChunkSize * (MaxChunks + 1)
            /\ (n - 1) * ChunkSize \in Int /\ ChunkSize * (MaxChunks + 1) \in Int
        BY <1>3, <2>1
      <3> QED BY <1>4, <2>1, <3>2, <3>3
    <2> QED BY <1>3, <1>6, <2>1, <2>2 DEF Pieces, n, t
  <1> QED BY <1>5, <1>6

LEMMA KeyFacts ==
    /\ WrittenKey(0) = <<>> /\ WrittenKey(1) = << 1 >>
    /\ ReadKey(0) = <<>> /\ ReadKey(1) = << 1 >>
    /\ <<>> \in Keys /\ << 1 >> \in Keys /\ <<>> # << 1 >>
    /\ \A i \in 0..MaxChunks : WrittenKey(i) \in Keys /\ ReadKey(i) \in Keys
    /\ \A i \in Nat : i >= 2 => WrittenKey(i) # <<>> /\ WrittenKey(i) # << 1 >>
    /\ \A i, j \in Nat : i >= 2 => ReadKey(i) # WrittenKey(j)
    /\ \A i \in Nat : ReadKey(i) \in Keys => i <= MaxChunks
    /\ \A i, j \in Nat : WrittenKey(i) = WrittenKey(j) => i = j
  <1>1. MaxChunks \in Nat \ {0}
    BY WalletAssumption
  <1>2. \A i \in Nat : Len(ReadKey(i)) = i
    BY DEF ReadKey
  <1>3. \A i \in Nat : Len(WrittenKey(i)) = IF i = 0 THEN 0 ELSE 1
    BY DEF WrittenKey
  <1>4. WrittenKey(0) = <<>> /\ WrittenKey(1) = << 1 >>
    BY DEF WrittenKey
  <1>5. ReadKey(0) = <<>>
    BY DEF ReadKey
  <1>6. ReadKey(1) = << 1 >>
    BY DEF ReadKey
  <1>7. \A i \in 0..MaxChunks : WrittenKey(i) \in Keys /\ ReadKey(i) \in Keys
    BY DEF Keys
  <1>8. <<>> # << 1 >>
    OBVIOUS
  <1>9. <<>> \in Keys /\ << 1 >> \in Keys
    BY <1>1, <1>4, <1>7
  <1>10. \A i \in Nat : i >= 2 => WrittenKey(i) # <<>> /\ WrittenKey(i) # << 1 >>
    BY DEF WrittenKey
  <1>11. \A i, j \in Nat : i >= 2 => ReadKey(i) # WrittenKey(j)
    BY <1>2, <1>3
  <1>12. ASSUME NEW i \in Nat, ReadKey(i) \in Keys  PROVE i <= MaxChunks
    <2>1. CASE \E j \in 0..MaxChunks : ReadKey(i) = WrittenKey(j)
      BY <1>1, <1>11, <2>1
    <2>2. CASE \E j \in 0..MaxChunks : ReadKey(i) = ReadKey(j)
      BY <1>1, <1>2, <2>2
    <2> QED BY <1>12, <2>1, <2>2 DEF Keys
  <1>13. \A i, j \in Nat : WrittenKey(i) = WrittenKey(j) => i = j
    <2>1. \A i \in Nat : i # 0 => WrittenKey(i)[1] = i
      BY DEF WrittenKey
    <2> QED BY <1>3, <2>1
  <1> QED BY <1>4, <1>5, <1>6, <1>7, <1>8, <1>9, <1>10, <1>11, <1>12, <1>13
-----------------------------------------------------------------------------
(***************************************************************************)
(* Types.  A call that dumps has a rest of the chunks of an object left to *)
(* write; it has failed once at most if it imports the old secret, and not *)
(* at all before that; and it has read and written nothing when a stage    *)
(* begins.  What it saves is a secret.  The keys that only get() asks for  *)
(* are empty.                                                              *)
(***************************************************************************)
Rest(p, k) == SubSeq(p, k + 1, Len(p))
Writes(c, d) ==
    /\ chunks[c] < Len(Pieces(Text(d)))
    /\ writes[c] = Rest(Pieces(Text(d)), chunks[c])

Failed(c) == stage[c] \notin {"returned", "threw", "crashed"} =>
               failures[c] <= IF c \in restoring THEN 1 ELSE 0
Dumping(c) == stage[c] \in Dumps => \E d \in Datas : Writes(c, d)
Fresh(c) == /\ stage[c] \notin Loads \cup Dumps => chunks[c] = 0
            /\ stage[c] \notin Loads => text[c] = <<>>
Known(c) == stage[c] \in {"saveCheck", "saveLoad", "saveDump"} => Secret(c) # NoSecret
Unwritten == \A i \in 2..MaxChunks : entry[ReadKey(i)] = <<>>

Types ==
    /\ TypeOK
    /\ \A c \in Calls : Failed(c) /\ Dumping(c) /\ Fresh(c) /\ Known(c)
    /\ Unwritten

LEMMA RestFacts ==
    ASSUME NEW p \in Seq(Seq(Token)), NEW k \in Nat, k < Len(p)
    PROVE  /\ Rest(p, k) \in Seq(Seq(Token)) /\ Rest(p, k) # <<>> /\ Len(Rest(p, k)) = Len(p) - k
           /\ Head(Rest(p, k)) = p[k + 1] /\ Tail(Rest(p, k)) = Rest(p, k + 1)
           /\ Rest(p, 0) = p
  <1>1. Len(p) \in Nat /\ k + 1 \in 1..Len(p) /\ Len(p) \in (k + 1)..Len(p)
        /\ (\A i \in 1..Len(p) : p[i] \in Seq(Token))
    OBVIOUS
  <1>2. /\ SubSeq(p, k + 1, Len(p)) \in Seq(Seq(Token))
        /\ Len(SubSeq(p, k + 1, Len(p))) = IF k + 1 <= Len(p) THEN Len(p) - (k + 1) + 1 ELSE 0
    <2>1. \A i \in (k + 1)..Len(p) : p[i] \in Seq(Token)
      BY <1>1
    <2> QED BY <1>1, <2>1, SubSeqProperties
  <1>3. Len(Rest(p, k)) = Len(p) - k /\ Rest(p, k) \in Seq(Seq(Token))
    <2>1. k + 1 <= Len(p) /\ Len(p) - (k + 1) + 1 = Len(p) - k
      BY <1>1
    <2> QED BY <1>2, <2>1 DEF Rest
  <1>4. Head(Rest(p, k)) = p[k + 1] /\ Tail(Rest(p, k)) = Rest(p, k + 1)
    <2>1. Head(SubSeq(p, k + 1, Len(p))) = p[k + 1]
          /\ Tail(SubSeq(p, k + 1, Len(p))) = SubSeq(p, k + 1 + 1, Len(p))
      BY <1>1, HeadTailOfSubSeq
    <2> QED BY <2>1 DEF Rest
  <1>5. Rest(p, k) # <<>>
    BY <1>1, <1>3, EmptySeq
  <1>6. Rest(p, 0) = p
    <2>1. 0 + 1 = 1
      OBVIOUS
    <2> QED BY <2>1, SubSeqFull DEF Rest
  <1> QED BY <1>3, <1>4, <1>5, <1>6

\* What is left to write, and what is written next.
LEMMA WritesFacts ==
    ASSUME NEW c \in Calls, NEW d \in Datas, chunks[c] \in Nat, Writes(c, d)
    PROVE  LET p == Pieces(Text(d))
           IN /\ p \in Seq(Seq(Token)) /\ Len(p) \in 1..(MaxChunks + 1)
              /\ writes[c] \in Seq(Seq(Token)) /\ writes[c] # <<>>
              /\ Len(writes[c]) = Len(p) - chunks[c]
              /\ Head(writes[c]) = p[chunks[c] + 1]
              /\ Tail(writes[c]) = Rest(p, chunks[c] + 1)
              /\ Head(writes[c]) \in Seq(Token) /\ Head(writes[c]) # <<>>
              /\ Tail(writes[c]) \in Seq(Seq(Token))
              /\ chunks[c] + 1 <= Len(p) /\ chunks[c] \in 0..MaxChunks
  <1> DEFINE p == Pieces(Text(d))
  <1>1. Text(d) \in Seq(Token) /\ Text(d) # <<>>
    BY TextShape DEF Datas
  <1>2. /\ p \in Seq(Seq(Token)) /\ Len(p) \in Nat \ {0}
        /\ \A i \in 1..Len(p) : p[i] \in Seq(Token) /\ p[i] # <<>>
    BY <1>1, PieceFacts
  <1>3. Len(p) \in 1..(MaxChunks + 1)
    BY PieceCount
  <1>4. chunks[c] < Len(p) /\ writes[c] = Rest(p, chunks[c])
    BY DEF Writes
  <1> HIDE DEF p
  <1>5. /\ writes[c] \in Seq(Seq(Token)) /\ writes[c] # <<>>
        /\ Len(writes[c]) = Len(p) - chunks[c]
        /\ Head(writes[c]) = p[chunks[c] + 1] /\ Tail(writes[c]) = Rest(p, chunks[c] + 1)
    <2>1. PICK k \in Nat : k = chunks[c]
      OBVIOUS
    <2>2. /\ Rest(p, k) \in Seq(Seq(Token)) /\ Rest(p, k) # <<>> /\ Len(Rest(p, k)) = Len(p) - k
          /\ Head(Rest(p, k)) = p[k + 1] /\ Tail(Rest(p, k)) = Rest(p, k + 1)
      BY <1>2, <1>4, <2>1, RestFacts
    <2> QED BY <1>4, <2>1, <2>2
  <1>6. chunks[c] + 1 \in 1..Len(p) /\ chunks[c] \in 0..MaxChunks
    BY <1>2, <1>3, <1>4, WalletAssumption
  <1>7. Tail(writes[c]) \in Seq(Seq(Token))
    BY <1>5, HeadTailProperties
  <1> QED BY <1>2, <1>3, <1>5, <1>6, <1>7, SMTT(30) DEF p

\* A dump begins.
LEMMA DumpStarts ==
    ASSUME NEW d \in Datas
    PROVE  /\ Pieces(Text(d)) \in Seq(Seq(Token)) /\ Pieces(Text(d)) # <<>>
           /\ 0 < Len(Pieces(Text(d))) /\ Pieces(Text(d)) = Rest(Pieces(Text(d)), 0)
  <1>1. Text(d) \in Seq(Token) /\ Text(d) # <<>>
    BY TextShape DEF Datas
  <1>2. Pieces(Text(d)) \in Seq(Seq(Token)) /\ Len(Pieces(Text(d))) \in Nat \ {0}
    BY <1>1, PieceFacts
  <1> QED BY <1>2, RestFacts, EmptySeq

\* The object that a stage works on.
LEMMA ObjectTypes ==
    ASSUME Types, NEW c \in Calls, NEW d \in Datas, NEW n
    PROVE  /\ Name(c) \in Names /\ call[c].secret \in Secrets
           /\ Secret(c) \in Secrets \cup {NoSecret}
           /\ Without(d, n) \in Datas
           /\ Secret(c) # NoSecret => [name |-> Name(c), secret |-> Secret(c)] \in Wallet
           /\ Secret(c) # NoSecret => Put(d, [name |-> Name(c), secret |-> Secret(c)]) \in Datas
           /\ Has(d, n) => SecretOf(d, n) \in Secrets
  <1>1. call[c] \in Request
    BY DEF Types, TypeOK
  <1>2. Name(c) \in Names /\ call[c].secret \in Secrets
    BY <1>1 DEF Request, Name
  <1>3. Secret(c) \in Secrets \cup {NoSecret}
    BY <1>2 DEF Secret, Types, TypeOK
  <1>4. Secret(c) # NoSecret => [name |-> Name(c), secret |-> Secret(c)] \in Wallet
    BY <1>2, <1>3 DEF Wallet
  <1> QED BY <1>2, <1>3, <1>4, Taking, Putting, Finding

\* A step of a call leaves the others alone.
Same(b) ==
    /\ stage'[b] = stage[b] /\ call'[b] = call[b] /\ old'[b] = old[b]
    /\ text'[b] = text[b] /\ chunks'[b] = chunks[b] /\ writes'[b] = writes[b]
    /\ failures'[b] = failures[b]
Others(c) ==
    /\ backend' = backend
    /\ \A b \in Calls \ {c} : Same(b) /\ (b \in restoring' <=> b \in restoring)

LEMMA WritesSame ==
    ASSUME backend' = backend, NEW b, NEW d,
           chunks'[b] = chunks[b], writes'[b] = writes[b]
    PROVE  Writes(b, d)' <=> Writes(b, d)
  BY DEF Writes, Pieces

LEMMA SameTyped ==
    ASSUME NEW b, backend' = backend, Same(b), b \in restoring' <=> b \in restoring,
           Failed(b), Dumping(b), Fresh(b), Known(b)
    PROVE  Failed(b)' /\ Dumping(b)' /\ Fresh(b)' /\ Known(b)'
  <1>1. Failed(b)' /\ Fresh(b)'
    BY DEF Failed, Fresh, Same, Loads, Dumps
  <1>2. Known(b)'
    BY DEF Known, Secret, Same
  <1>3. Dumping(b)'
    <2>1. \A d : Writes(b, d)' <=> Writes(b, d)
      BY WritesSame DEF Same
    <2> QED BY <2>1 DEF Dumping, Same, Dumps
  <1> QED BY <1>1, <1>2, <1>3

LEMMA StepTyped ==
    ASSUME Types, NEW c \in Calls, Others(c), TypeOK', Unwritten',
           Failed(c)', Dumping(c)', Fresh(c)', Known(c)'
    PROVE  Types'
  <1>1. ASSUME NEW b \in Calls
        PROVE  Failed(b)' /\ Dumping(b)' /\ Fresh(b)' /\ Known(b)'
    <2>1. CASE b = c
      BY <2>1
    <2>2. CASE b # c
      BY <2>2, SameTyped DEF Others, Types
    <2> QED BY <2>1, <2>2
  <1> QED BY <1>1 DEF Types

Stages == Settled \cup Loads \cup Dumps \cup {"account"}

LEMMA BeginTyped ==
    ASSUME Types, NEW c \in Calls, Begin(c), clash' \in BOOLEAN
    PROVE  Types' /\ Others(c)
  <1>1. PICK r \in Requests :
          /\ call' = [call EXCEPT ![c] = r]
          /\ stage' = [stage EXCEPT ![c] =
                IF r.op = "import" THEN "account"
                ELSE IF r.op = "update" THEN "exist" ELSE "deleteCheck"]
    BY DEF Begin
  <1>2. /\ stage[c] = "idle" /\ alone' \subseteq Calls
        /\ UNCHANGED <<backend, entry, restoring, old, text, chunks, writes, failures,
                       promised, torn>>
    BY DEF Begin, Types, TypeOK
  <1>3. /\ r \in Request /\ stage'[c] \in {"account", "exist", "deleteCheck"}
        /\ call' \in [Calls -> Request]
    BY <1>1, WalletAssumption DEF Types, TypeOK
  <1>4. /\ \A b \in Calls \ {c} : stage'[b] = stage[b] /\ call'[b] = call[b]
        /\ stage' \in [Calls -> Stages]
    BY <1>1, <1>3 DEF Types, TypeOK, Stages, Settled, Loads, Dumps
  <1>5. \A b \in Calls : stage'[b] \in Dumps <=> stage[b] \in Dumps
    BY <1>2, <1>3, <1>4 DEF Dumps
  <1>6. TypeOK'
    BY <1>2, <1>3, <1>4, <1>5 DEF Types, TypeOK, Stages, Settled, Loads, Dumps
  <1>7. Others(c)
    BY <1>2, <1>4 DEF Others, Same
  <1>8. chunks[c] = 0 /\ text[c] = <<>> /\ failures[c] <= IF c \in restoring THEN 1 ELSE 0
    BY <1>2 DEF Types, Fresh, Failed, Loads, Dumps
  <1>9. Failed(c)' /\ Dumping(c)' /\ Fresh(c)' /\ Known(c)' /\ Unwritten'
    BY <1>2, <1>3, <1>8 DEF Failed, Dumping, Fresh, Known, Dumps, Types, Unwritten
  <1> QED BY <1>6, <1>7, <1>9, StepTyped

LEMMA FailTyped ==
    ASSUME Types, NEW c \in Calls, Fail(c), stage[c] \notin Settled,
           failures' = failures \/ failures' = [failures EXCEPT ![c] = @ + 1],
           UNCHANGED <<promised, alone>>, torn' \in BOOLEAN, clash' \in BOOLEAN
    PROVE  Types' /\ Others(c)
  <1>1. /\ text' = [text EXCEPT ![c] = <<>>] /\ chunks' = [chunks EXCEPT ![c] = 0]
        /\ writes' = [writes EXCEPT ![c] = <<>>] /\ UNCHANGED <<backend, entry, call, old>>
    BY DEF Fail
  <1>2. \/ /\ c \notin restoring /\ restoring' = restoring \cup {c}
           /\ stage' = [stage EXCEPT ![c] = "account"]
        \/ restoring' = restoring /\ stage' = [stage EXCEPT ![c] = "threw"]
    BY DEF Fail, Restores
  <1>3. failures[c] \in 0..2 /\ failures[c] <= IF c \in restoring THEN 1 ELSE 0
    BY DEF Types, TypeOK, Failed, Settled
  <1>4. /\ failures' \in [Calls -> 0..2]
        /\ failures'[c] = failures[c] \/ failures'[c] = failures[c] + 1
        /\ \A b \in Calls \ {c} : failures'[b] = failures[b]
    <2>1. failures \in [Calls -> 0..2] /\ failures[c] + 1 \in 0..2
      BY <1>3 DEF Types, TypeOK
    <2>2. CASE failures' = failures
      BY <2>1, <2>2
    <2>3. CASE failures' = [failures EXCEPT ![c] = @ + 1]
      BY <2>1, <2>3
    <2> QED BY <2>2, <2>3
  <1>5. /\ stage' \in [Calls -> Stages] /\ stage'[c] \in {"account", "threw"}
        /\ \A b \in Calls \ {c} : stage'[b] = stage[b] /\ (b \in restoring' <=> b \in restoring)
        /\ restoring' \subseteq Calls
    BY <1>2 DEF Types, TypeOK, Stages, Settled, Loads, Dumps
  <1>6. /\ text' \in [Calls -> Seq(Token)] /\ writes' \in [Calls -> Seq(Seq(Token))]
        /\ chunks' \in [Calls -> 0..(MaxChunks + 1)]
        /\ text'[c] = <<>> /\ writes'[c] = <<>> /\ chunks'[c] = 0
        /\ \A b \in Calls \ {c} : text'[b] = text[b] /\ chunks'[b] = chunks[b] /\ writes'[b] = writes[b]
    BY <1>1, WalletAssumption, EmptySeq DEF Types, TypeOK
  <1>7. \A b \in Calls : stage'[b] \in Dumps <=> writes'[b] # <<>>
    BY <1>5, <1>6 DEF Types, TypeOK, Dumps
  <1>8. TypeOK'
    BY <1>1, <1>4, <1>5, <1>6, <1>7 DEF Types, TypeOK, Stages, Settled, Loads, Dumps
  <1>9. Others(c)
    BY <1>1, <1>4, <1>5, <1>6 DEF Others, Same
  <1>10. Failed(c)'
    BY <1>2, <1>3, <1>4, <1>5 DEF Failed
  <1>11. Dumping(c)' /\ Fresh(c)' /\ Known(c)' /\ Unwritten'
    BY <1>1, <1>5, <1>6 DEF Dumping, Fresh, Known, Dumps, Types, Unwritten
  <1> QED BY <1>8, <1>9, <1>10, <1>11, StepTyped

LEMMA AccountTyped ==
    ASSUME Types, NEW c \in Calls, Account(c), clash' \in BOOLEAN
    PROVE  Types' /\ Others(c)
  <1>1. stage[c] = "account"
    BY DEF Account
  <1>2. CASE /\ Secret(c) # NoSecret
             /\ stage' = [stage EXCEPT ![c] = "saveCheck"]
             /\ UNCHANGED <<backend, entry, call, restoring, old, text, chunks, writes, ghosts>>
    <2>1. /\ stage' \in [Calls -> Stages] /\ stage'[c] = "saveCheck"
          /\ \A b \in Calls \ {c} : stage'[b] = stage[b]
      BY <1>2 DEF Types, TypeOK, Stages, Settled, Loads, Dumps
    <2>2. \A b \in Calls : stage'[b] \in Dumps <=> stage[b] \in Dumps
      BY <1>1, <2>1 DEF Dumps
    <2>3. TypeOK'
      BY <1>2, <2>1, <2>2 DEF Types, TypeOK, ghosts, Stages, Settled, Loads, Dumps
    <2>4. Others(c)
      BY <1>2, <2>1 DEF Others, Same, ghosts
    <2>5. chunks[c] = 0 /\ text[c] = <<>> /\ failures[c] <= IF c \in restoring THEN 1 ELSE 0
      BY <1>1 DEF Types, Fresh, Failed, Loads, Dumps
    <2>6. Failed(c)' /\ Dumping(c)' /\ Fresh(c)' /\ Known(c)' /\ Unwritten'
      BY <1>2, <2>1, <2>5
      DEF Failed, Dumping, Fresh, Known, Secret, Dumps, Types, Unwritten, ghosts
    <2> QED BY <2>3, <2>4, <2>6, StepTyped
  <1>3. CASE /\ Fail(c) /\ failures' = [failures EXCEPT ![c] = @ + 1]
             /\ UNCHANGED <<promised, alone, torn>>
    BY <1>1, <1>3, FailTyped DEF Types, TypeOK, Settled
  <1> QED BY <1>2, <1>3 DEF Account

\* What the load of a call may lead to.
LEMMA LoadedTyped ==
    ASSUME Types, NEW c \in Calls, NEW d \in Datas, stage[c] \in Loads, Loaded(c, d),
           UNCHANGED ghosts, clash' \in BOOLEAN
    PROVE  Types' /\ Others(c)
  <1> DEFINE n == Name(c)
             To(s) == /\ stage' = [stage EXCEPT ![c] = s]
                      /\ text' = [text EXCEPT ![c] = <<>>]
                      /\ chunks' = [chunks EXCEPT ![c] = 0]
                      /\ UNCHANGED <<backend, entry, call, restoring>>
  <1>1. failures[c] <= (IF c \in restoring THEN 1 ELSE 0) /\ failures[c] \in 0..2
    BY DEF Types, TypeOK, Failed, Loads
  <1>2. ASSUME Fail(c)  PROVE Types' /\ Others(c)
    BY <1>2, FailTyped DEF ghosts, Types, TypeOK, Loads, Settled
  \* What the stages that go on have in common.
  <1>3. ASSUME NEW s \in Stages \ Settled, To(s), writes' \in [Calls -> Seq(Seq(Token))],
               old' \in [Calls -> Secrets \cup {NoSecret}],
               \A b \in Calls \ {c} : writes'[b] = writes[b] /\ old'[b] = old[b],
               s \in Dumps <=> writes'[c] # <<>>, Dumping(c)', Known(c)'
        PROVE  Types' /\ Others(c)
    <2>1. /\ stage' \in [Calls -> Stages] /\ stage'[c] = s
          /\ text' \in [Calls -> Seq(Token)] /\ text'[c] = <<>>
          /\ chunks' \in [Calls -> 0..(MaxChunks + 1)] /\ chunks'[c] = 0
          /\ \A b \in Calls \ {c} : /\ stage'[b] = stage[b] /\ text'[b] = text[b]
                                    /\ chunks'[b] = chunks[b]
      BY <1>3, WalletAssumption, EmptySeq DEF Types, TypeOK, Stages, Settled, Loads, Dumps
    <2>2. \A b \in Calls : stage'[b] \in Dumps <=> writes'[b] # <<>>
      BY <1>3, <2>1 DEF Types, TypeOK
    <2>3. TypeOK'
      BY <1>3, <2>1, <2>2 DEF Types, TypeOK, ghosts, Stages, Settled, Loads, Dumps
    <2>4. Others(c)
      BY <1>3, <2>1 DEF Others, Same, ghosts
    <2>5. Failed(c)' /\ Fresh(c)' /\ Unwritten'
      BY <1>1, <1>3, <2>1 DEF Failed, Fresh, Types, Unwritten, ghosts
    <2> QED BY <1>3, <2>3, <2>4, <2>5, StepTyped
  <1>4. Loads \cup Dumps \subseteq Stages \ Settled
    BY DEF Stages, Settled, Loads, Dumps
  <1>5. writes[c] = <<>> /\ writes \in [Calls -> Seq(Seq(Token))]
        /\ old \in [Calls -> Secrets \cup {NoSecret}]
    BY DEF Types, TypeOK, Loads, Dumps
  <1>6. stage \in [Calls -> Stages] /\ DOMAIN stage = Calls
    BY DEF Types, TypeOK, Stages
  <1> HIDE DEF To
  \* Another load comes next.
  <1>7. ASSUME NEW s \in Loads, To(s), writes' = writes,
               old' \in [Calls -> Secrets \cup {NoSecret}],
               \A b \in Calls \ {c} : old'[b] = old[b], Known(c)'
        PROVE  Types' /\ Others(c)
    <2>1. stage'[c] = s /\ s \notin Dumps
      BY <1>6, <1>7 DEF To, Loads, Dumps
    <2>2. Dumping(c)'
      BY <2>1 DEF Dumping
    <2> QED BY <1>3, <1>4, <1>5, <1>7, <2>1, <2>2
  \* A dump comes next.
  <1>8. ASSUME NEW s \in Dumps, NEW e \in Datas, To(s), old' = old,
               writes' = [writes EXCEPT ![c] = Pieces(Text(e))], Known(c)'
        PROVE  Types' /\ Others(c)
    <2> DEFINE p == Pieces(Text(e))
    <2>1. /\ p \in Seq(Seq(Token)) /\ p # <<>> /\ 0 < Len(p) /\ p = Rest(p, 0)
      BY DumpStarts
    <2>2. p' = p
      BY <1>8 DEF To, Pieces
    <2>3. chunks'[c] = 0
      BY <1>8 DEF To, Types, TypeOK
    <2>4. writes'[c] = p
      BY <1>5, <1>8
    <2>5. Writes(c, e)'
      BY <2>1, <2>2, <2>3, <2>4 DEF Writes
    <2>6. Dumping(c)'
      BY <2>5 DEF Dumping
    <2> HIDE DEF p
    <2>7. /\ writes' \in [Calls -> Seq(Seq(Token))] /\ writes'[c] # <<>>
          /\ \A b \in Calls \ {c} : writes'[b] = writes[b]
      BY <1>5, <1>8, <2>1 DEF p
    <2> QED BY <1>3, <1>4, <1>5, <1>8, <2>6, <2>7
  <1>9. CASE stage[c] = "exist" /\ Has(d, n) /\ To("secret") /\ UNCHANGED <<old, writes>>
    <2>1. Known(c)'
      BY <1>6, <1>9 DEF To, Known
    <2> QED BY <1>5, <1>7, <1>9, <2>1 DEF Loads
  <1>10. CASE /\ stage[c] = "secret" /\ To("deleteCheck")
              /\ old' = [old EXCEPT ![c] = IF Has(d, n) THEN SecretOf(d, n) ELSE NoSecret]
              /\ UNCHANGED writes
    <2>1. Known(c)'
      BY <1>6, <1>10 DEF To, Known
    <2>2. old' \in [Calls -> Secrets \cup {NoSecret}]
          /\ (\A b \in Calls \ {c} : old'[b] = old[b])
      BY <1>5, <1>10, ObjectTypes
    <2> QED BY <1>7, <1>10, <2>1, <2>2 DEF Loads
  <1>11. CASE stage[c] = "deleteCheck" /\ Has(d, n) /\ To("deleteLoad") /\ UNCHANGED <<old, writes>>
    <2>1. Known(c)'
      BY <1>6, <1>11 DEF To, Known
    <2> QED BY <1>5, <1>7, <1>11, <2>1 DEF Loads
  <1>12. CASE /\ stage[c] = "deleteLoad" /\ To("deleteDump") /\ UNCHANGED old
              /\ writes' = [writes EXCEPT ![c] = Pieces(Text(Without(d, n)))]
    <2>1. Known(c)'
      BY <1>6, <1>12 DEF To, Known
    <2> QED BY <1>8, <1>12, <2>1, ObjectTypes DEF Dumps
  <1>13. CASE stage[c] = "saveCheck" /\ ~Taken(c, d) /\ To("saveLoad") /\ UNCHANGED <<old, writes>>
    <2>1. Known(c)'
      BY <1>6, <1>13 DEF To, Known, Secret, Types
    <2> QED BY <1>5, <1>7, <1>13, <2>1 DEF Loads
  <1>14. CASE /\ stage[c] = "saveLoad" /\ To("saveDump") /\ UNCHANGED old
              /\ writes' = [writes EXCEPT ![c] =
                              Pieces(Text(Put(d, [name |-> n, secret |-> Secret(c)])))]
    <2>1. Secret(c) # NoSecret
      BY <1>14 DEF Types, Known
    <2>2. Known(c)'
      BY <1>6, <1>14, <2>1 DEF To, Known, Secret
    <2> QED BY <1>8, <1>14, <2>1, <2>2, ObjectTypes DEF Dumps
  <1> QED BY <1>2, <1>9, <1>10, <1>11, <1>12, <1>13, <1>14 DEF Loaded, To

\* What get() finds below a key.
LEMMA ReadFacts ==
    ASSUME Types, NEW c \in Calls
    PROVE  /\ At(ReadKey(chunks[c])) \in Seq(Token)
           /\ text[c] \o At(ReadKey(chunks[c])) \in Seq(Token)
           /\ At(ReadKey(chunks[c])) # <<>> => chunks[c] \in 0..MaxChunks
  <1>1. chunks[c] \in Nat /\ text[c] \in Seq(Token) /\ entry \in [Keys -> Seq(Token)]
    BY WalletAssumption DEF Types, TypeOK
  <1>2. At(ReadKey(chunks[c])) \in Seq(Token)
    BY <1>1, EmptySeq DEF At
  <1>3. At(ReadKey(chunks[c])) # <<>> => ReadKey(chunks[c]) \in Keys
    BY DEF At
  <1>4. At(ReadKey(chunks[c])) # <<>> => chunks[c] <= MaxChunks
    BY <1>1, <1>3, KeyFacts
  <1> QED BY <1>1, <1>2, <1>4, ConcatProperties, WalletAssumption

LEMMA ReadTyped ==
    ASSUME Types, NEW c \in Calls, ReadChunk(c), clash' \in BOOLEAN
    PROVE  Types' /\ Others(c)
  <1> DEFINE v == At(ReadKey(chunks[c]))
             whole == text[c] \o v
  <1>1. stage[c] \in Loads /\ UNCHANGED ghosts
    BY DEF ReadChunk
  <1>2. CASE /\ backend = "tfkvstore" /\ v # <<>>
             /\ text' = [text EXCEPT ![c] = whole]
             /\ chunks' = [chunks EXCEPT ![c] = @ + 1]
             /\ UNCHANGED <<backend, entry, call, stage, restoring, old, writes>>
    <2>1. whole \in Seq(Token) /\ chunks[c] + 1 \in 0..(MaxChunks + 1)
      BY <1>2, ReadFacts, WalletAssumption
    <2> HIDE DEF whole
    <2>2. /\ text' \in [Calls -> Seq(Token)] /\ chunks' \in [Calls -> 0..(MaxChunks + 1)]
          /\ \A b \in Calls \ {c} : text'[b] = text[b] /\ chunks'[b] = chunks[b]
      BY <1>2, <2>1 DEF Types, TypeOK
    <2>3. TypeOK'
      BY <1>1, <1>2, <2>2 DEF Types, TypeOK, ghosts, Stages, Settled, Loads, Dumps
    <2>4. Others(c)
      BY <1>1, <1>2, <2>2 DEF Others, Same, ghosts
    <2>5. Failed(c)' /\ Dumping(c)' /\ Fresh(c)' /\ Known(c)' /\ Unwritten'
      BY <1>1, <1>2
      DEF Failed, Dumping, Fresh, Known, Secret, Loads, Dumps, Types, Unwritten, ghosts
    <2> QED BY <2>3, <2>4, <2>5, StepTyped
  <1>3. CASE WellFormed(whole) /\ Loaded(c, Parsed(whole))
    <2>1. Parsed(whole) \in Datas
      BY <1>3, ReadFacts, ParsedObject
    <2> QED BY <1>1, <1>3, <2>1, LoadedTyped
  <1>4. CASE Fail(c)
    BY <1>1, <1>4, FailTyped DEF ghosts, Types, TypeOK, Loads, Settled
  <1> QED BY <1>2, <1>3, <1>4 DEF ReadChunk

\* The chunk that is written, and below which key.
LEMMA WriteFacts ==
    ASSUME Types, NEW c \in Calls, WriteChunk(c)
    PROVE  \E d \in Datas :
             /\ Writes(c, d) /\ Len(Pieces(Text(d))) \in 1..(MaxChunks + 1)
             /\ chunks[c] \in 0..MaxChunks
             /\ Len(writes[c]) = Len(Pieces(Text(d))) - chunks[c]
             /\ Head(writes[c]) = Pieces(Text(d))[chunks[c] + 1]
             /\ Head(writes[c]) \in Seq(Token) /\ Head(writes[c]) # <<>>
             /\ writes'[c] = Rest(Pieces(Text(d)), chunks[c] + 1)
             /\ writes' \in [Calls -> Seq(Seq(Token))]
             /\ WrittenKey(chunks[c]) \in Keys
             /\ entry' \in [Keys -> Seq(Token)]
             /\ entry'[WrittenKey(chunks[c])] = Head(writes[c])
             /\ \A k \in Keys : k # WrittenKey(chunks[c]) => entry'[k] = entry[k]
  <1>1. /\ stage[c] \in Dumps
        /\ entry' = [entry EXCEPT ![WrittenKey(chunks[c])] = Head(writes[c])]
        /\ writes' = [writes EXCEPT ![c] = Tail(@)]
    BY DEF WriteChunk
  <1>2. PICK d \in Datas : Writes(c, d)
    BY <1>1 DEF Types, Dumping
  <1>3. /\ chunks[c] \in Nat /\ entry \in [Keys -> Seq(Token)]
        /\ writes \in [Calls -> Seq(Seq(Token))]
    BY WalletAssumption DEF Types, TypeOK
  <1>4. /\ Len(Pieces(Text(d))) \in 1..(MaxChunks + 1)
        /\ Len(writes[c]) = Len(Pieces(Text(d))) - chunks[c]
        /\ Head(writes[c]) = Pieces(Text(d))[chunks[c] + 1]
        /\ Tail(writes[c]) = Rest(Pieces(Text(d)), chunks[c] + 1)
        /\ Head(writes[c]) \in Seq(Token) /\ Head(writes[c]) # <<>>
        /\ Tail(writes[c]) \in Seq(Seq(Token)) /\ chunks[c] \in 0..MaxChunks
    BY <1>2, <1>3, WritesFacts
  <1>5. WrittenKey(chunks[c]) \in Keys
    BY <1>4, KeyFacts
  <1>6. writes' \in [Calls -> Seq(Seq(Token))] /\ writes'[c] = Tail(writes[c])
    BY <1>1, <1>3, <1>4
  <1>7. /\ entry' \in [Keys -> Seq(Token)] /\ entry'[WrittenKey(chunks[c])] = Head(writes[c])
        /\ \A k \in Keys : k # WrittenKey(chunks[c]) => entry'[k] = entry[k]
    BY <1>1, <1>3, <1>4, <1>5
  <1> QED BY <1>2, <1>4, <1>5, <1>6, <1>7

LEMMA WriteTyped ==
    ASSUME Types, NEW c \in Calls, WriteChunk(c), clash' \in BOOLEAN
    PROVE  Types' /\ Others(c)
  <1>1. /\ stage[c] \in Dumps
        /\ writes' = [writes EXCEPT ![c] = Tail(@)]
        /\ UNCHANGED <<backend, call, restoring, old, text, failures, alone>>
    BY DEF WriteChunk
  <1>2. PICK d \in Datas :
          /\ Writes(c, d) /\ Len(Pieces(Text(d))) \in 1..(MaxChunks + 1)
          /\ chunks[c] \in 0..MaxChunks
          /\ Len(writes[c]) = Len(Pieces(Text(d))) - chunks[c]
          /\ writes'[c] = Rest(Pieces(Text(d)), chunks[c] + 1)
          /\ writes' \in [Calls -> Seq(Seq(Token))]
          /\ WrittenKey(chunks[c]) \in Keys
          /\ entry' \in [Keys -> Seq(Token)]
          /\ \A k \in Keys : k # WrittenKey(chunks[c]) => entry'[k] = entry[k]
    BY WriteFacts
  <1> DEFINE p == Pieces(Text(d))
             k == chunks[c]
  <1>3. p \in Seq(Seq(Token)) /\ (\A t : Pieces(t)' = Pieces(t))
    BY <1>1, DumpStarts DEF Pieces
  <1>4. Unwritten'
    <2>1. ASSUME NEW i \in 2..MaxChunks  PROVE entry'[ReadKey(i)] = <<>>
      <3>1. ReadKey(i) \in Keys /\ ReadKey(i) # WrittenKey(k)
        BY <1>2, KeyFacts
      <3> QED BY <1>2, <3>1 DEF Types, Unwritten
    <2> QED BY <2>1 DEF Unwritten
  <1>5. /\ failures[c] <= (IF c \in restoring THEN 1 ELSE 0) /\ failures[c] \in 0..2
        /\ text[c] = <<>>
        /\ stage[c] = "saveDump" => Secret(c) # NoSecret
    BY <1>1 DEF Types, TypeOK, Failed, Fresh, Known, Loads, Dumps, Settled
  <1>6. \A b \in Calls \ {c} : writes'[b] = writes[b]
    BY <1>1 DEF Types, TypeOK
  <1>7. CASE /\ Len(writes[c]) > 1 /\ chunks' = [chunks EXCEPT ![c] = @ + 1]
             /\ UNCHANGED <<stage, torn, promised>>
    <2>1. k + 1 < Len(p) /\ k + 1 \in 0..(MaxChunks + 1) /\ k + 1 \in Nat
      BY <1>2, <1>7, WalletAssumption
    <2>2. /\ chunks' \in [Calls -> 0..(MaxChunks + 1)] /\ chunks'[c] = k + 1
          /\ \A b \in Calls \ {c} : chunks'[b] = chunks[b]
      BY <1>7, <2>1 DEF Types, TypeOK
    <2>3. Rest(p, k + 1) # <<>>
      BY <1>3, <2>1, RestFacts
    <2>4. \A b \in Calls : stage'[b] \in Dumps <=> writes'[b] # <<>>
      BY <1>1, <1>2, <1>6, <1>7, <2>3 DEF Types, TypeOK
    <2>5. Writes(c, d)'
      BY <1>2, <1>3, <2>1, <2>2 DEF Writes
    <2> HIDE DEF p, k
    <2>6. TypeOK'
      BY <1>1, <1>2, <1>7, <2>2, <2>4 DEF Types, TypeOK, Stages, Settled, Loads, Dumps
    <2>7. Others(c)
      BY <1>1, <1>6, <1>7, <2>2 DEF Others, Same
    <2>8. Dumping(c)'
      BY <2>5 DEF Dumping
    <2>9. Failed(c)' /\ Fresh(c)' /\ Known(c)'
      BY <1>1, <1>5, <1>7 DEF Failed, Fresh, Known, Secret, Dumps
    <2> QED BY <1>4, <2>6, <2>7, <2>8, <2>9, StepTyped
  <1>8. CASE /\ Len(writes[c]) = 1 /\ chunks' = [chunks EXCEPT ![c] = 0]
             /\ stage' = [stage EXCEPT ![c] = AfterDump(c)]
             /\ torn' = (torn \/ Tears(c))
             /\ promised' = IF stage[c] = "saveDump"
                            THEN promised \cup {[name |-> Name(c), secret |-> Secret(c)]}
                            ELSE {w \in promised : w.name # Name(c)}
    <2>1. k + 1 = Len(p)
      <3>1. Len(p) \in Nat /\ k \in Nat
        BY <1>2, WalletAssumption
      <3>2. Len(p) - k = 1
        BY <1>2, <1>8
      <3> HIDE DEF p, k
      <3> QED BY <3>1, <3>2
    <2>2. writes'[c] = <<>>
      BY <1>2, <2>1, SubSeqEmpty DEF Rest
    <2>3. /\ stage' \in [Calls -> Stages]
          /\ stage'[c] = AfterDump(c) /\ AfterDump(c) \in {"account", "threw", "returned"}
          /\ \A b \in Calls \ {c} : stage'[b] = stage[b]
      BY <1>8 DEF AfterDump, Types, TypeOK, Stages, Settled
    <2>4. /\ chunks' \in [Calls -> 0..(MaxChunks + 1)] /\ chunks'[c] = 0
          /\ \A b \in Calls \ {c} : chunks'[b] = chunks[b]
      BY <1>8, WalletAssumption DEF Types, TypeOK
    <2>5. \A b \in Calls : stage'[b] \in Dumps <=> writes'[b] # <<>>
      BY <1>6, <2>2, <2>3 DEF Types, TypeOK, Dumps
    <2>6. promised' \subseteq Wallet /\ torn' \in BOOLEAN
      <3>1. torn' \in BOOLEAN
        BY <1>8 DEF Tears, Types, TypeOK
      <3>2. CASE stage[c] = "saveDump"
        <4>1. [name |-> Name(c), secret |-> Secret(c)] \in Wallet
          BY <1>5, <3>2, ObjectTypes, <1>2
        <4> QED BY <1>8, <3>1, <3>2, <4>1 DEF Types, TypeOK
      <3>3. CASE stage[c] # "saveDump"
        BY <1>8, <3>1, <3>3 DEF Types, TypeOK
      <3> QED BY <3>2, <3>3
    <2> HIDE DEF p, k
    <2>7. TypeOK'
      BY <1>1, <1>2, <2>3, <2>4, <2>5, <2>6 DEF Types, TypeOK, Stages, Settled, Loads, Dumps
    <2>8. Others(c)
      BY <1>1, <1>6, <2>3, <2>4 DEF Others, Same
    <2>9. Failed(c)' /\ Fresh(c)' /\ Known(c)' /\ Dumping(c)'
      BY <1>1, <1>5, <2>3, <2>4 DEF Failed, Fresh, Known, Dumping, Dumps
    <2> QED BY <1>4, <2>7, <2>8, <2>9, StepTyped
  <1> QED BY <1>7, <1>8 DEF WriteChunk

LEMMA CrashTyped ==
    ASSUME Types, NEW c \in Calls, Crash(c), clash' \in BOOLEAN
    PROVE  Types' /\ Others(c)
  <1>1. /\ stage' = [stage EXCEPT ![c] = "crashed"] /\ text' = [text EXCEPT ![c] = <<>>]
        /\ chunks' = [chunks EXCEPT ![c] = 0] /\ writes' = [writes EXCEPT ![c] = <<>>]
        /\ torn' \in BOOLEAN
        /\ UNCHANGED <<backend, entry, call, restoring, old, failures, promised, alone>>
    BY DEF Crash, Types, TypeOK
  <1>2. /\ stage' \in [Calls -> Stages] /\ stage'[c] = "crashed"
        /\ text' \in [Calls -> Seq(Token)] /\ writes' \in [Calls -> Seq(Seq(Token))]
        /\ chunks' \in [Calls -> 0..(MaxChunks + 1)]
        /\ text'[c] = <<>> /\ writes'[c] = <<>> /\ chunks'[c] = 0
        /\ \A b \in Calls \ {c} : /\ stage'[b] = stage[b] /\ text'[b] = text[b]
                                  /\ chunks'[b] = chunks[b] /\ writes'[b] = writes[b]
    BY <1>1, WalletAssumption, EmptySeq DEF Types, TypeOK, Stages, Settled
  <1>3. \A b \in Calls : stage'[b] \in Dumps <=> writes'[b] # <<>>
    BY <1>2 DEF Types, TypeOK, Dumps
  <1>4. TypeOK'
    BY <1>1, <1>2, <1>3 DEF Types, TypeOK, Stages, Settled, Loads, Dumps
  <1>5. Others(c)
    BY <1>1, <1>2 DEF Others, Same
  <1>6. Failed(c)' /\ Fresh(c)' /\ Known(c)' /\ Dumping(c)' /\ Unwritten'
    BY <1>1, <1>2 DEF Failed, Fresh, Known, Dumping, Dumps, Types, Unwritten
  <1> QED BY <1>4, <1>5, <1>6, StepTyped

LEMMA StepTypes ==
    ASSUME Types, NEW c \in Calls, Step(c), clash' \in BOOLEAN
    PROVE  Types' /\ Others(c)
  <1>1. CASE WriteFails(c)
    <2>1. stage[c] \notin Settled /\ torn' \in BOOLEAN
      BY <1>1 DEF WriteFails, Types, TypeOK, Settled, Dumps
    <2> QED BY <1>1, <2>1, FailTyped DEF WriteFails
  <1> QED BY <1>1, BeginTyped, AccountTyped, ReadTyped, WriteTyped, CrashTyped DEF Step

\* The file at first.
LEMMA FirstFile ==
    ASSUME Init
    PROVE  \E d \in Datas :
             /\ torn = (Len(Pieces(Text(d))) > 2)
             /\ entry \in [Keys -> Seq(Token)]
             /\ d = <<>> => \A k \in Keys : entry[k] = <<>>
             /\ d # <<>> => /\ \A i \in 1..Len(Pieces(Text(d))) :
                                 entry[WrittenKey(i - 1)] = Pieces(Text(d))[i]
                            /\ \A k \in Keys : (\A i \in 1..Len(Pieces(Text(d))) :
                                 WrittenKey(i - 1) # k) => entry[k] = <<>>
  <1>1. PICK d \in FirstWallets :
          /\ torn = (Len(Pieces(Text(d))) > 2)
          /\ entry = [k \in Keys |->
                       IF d = <<>> THEN <<>>
                       ELSE LET q == Pieces(Text(d))
                            IN IF \E i \in DOMAIN q : WrittenKey(i - 1) = k
                               THEN q[CHOOSE i \in DOMAIN q : WrittenKey(i - 1) = k] ELSE <<>>]
    BY DEF Init
  <1>2. d \in Datas
    BY WalletAssumption DEF Datas
  <1> DEFINE p == Pieces(Text(d))
  <1>3. p \in Seq(Seq(Token)) /\ DOMAIN p = 1..Len(p) /\ (\A i \in DOMAIN p : p[i] \in Seq(Token))
        /\ Len(p) \in 1..(MaxChunks + 1)
    BY <1>2, DumpStarts, PieceCount
  <1>4. CASE d = <<>>
    <2>1. entry = [k \in Keys |-> <<>>]
      BY <1>1, <1>4
    <2> QED BY <1>1, <1>2, <1>4, <2>1, EmptySeq
  <1>5. CASE d # <<>>
    <2>1. entry = [k \in Keys |-> IF \E i \in DOMAIN p : WrittenKey(i - 1) = k
                                  THEN p[CHOOSE i \in DOMAIN p : WrittenKey(i - 1) = k] ELSE <<>>]
      BY <1>1, <1>5
    <2> HIDE DEF p
    <2>2. ASSUME NEW i \in DOMAIN p
          PROVE  WrittenKey(i - 1) \in Keys /\ entry[WrittenKey(i - 1)] = p[i]
      <3>1. i - 1 \in 0..MaxChunks
        BY <1>3, WalletAssumption
      <3>2. WrittenKey(i - 1) \in Keys
        BY <3>1, KeyFacts
      <3>3. \A j \in DOMAIN p : WrittenKey(j - 1) = WrittenKey(i - 1) => j = i
        <4>1. ASSUME NEW j \in DOMAIN p, WrittenKey(j - 1) = WrittenKey(i - 1)  PROVE j = i
          <5>1. j - 1 \in Nat /\ i - 1 \in Nat
            BY <1>3
          <5>2. j - 1 = i - 1
            BY <4>1, <5>1, KeyFacts
          <5> QED BY <1>3, <5>2
        <4> QED BY <4>1
      <3>4. (CHOOSE j \in DOMAIN p : WrittenKey(j - 1) = WrittenKey(i - 1)) = i
        BY <3>3
      <3> QED BY <2>1, <3>2, <3>4
    <2>3. ASSUME NEW k \in Keys, \A i \in 1..Len(p) : WrittenKey(i - 1) # k
          PROVE  entry[k] = <<>>
      BY <1>3, <2>1, <2>3
    <2>4. entry \in [Keys -> Seq(Token)]
      <3>1. ASSUME NEW k \in Keys  PROVE entry[k] \in Seq(Token)
        <4>1. CASE \E i \in DOMAIN p : WrittenKey(i - 1) = k
          BY <1>3, <2>2, <4>1
        <4>2. CASE ~\E i \in DOMAIN p : WrittenKey(i - 1) = k
          BY <2>1, <4>2, EmptySeq
        <4> QED BY <4>1, <4>2
      <3>2. DOMAIN entry = Keys /\ entry = [k \in Keys |-> entry[k]]
        BY <2>1
      <3> QED BY <3>1, <3>2
    <2>5. \A i \in 1..Len(p) : entry[WrittenKey(i - 1)] = p[i]
      BY <1>3, <2>2
    <2> QED BY <1>1, <1>2, <1>5, <2>3, <2>4, <2>5 DEF p
  <1> QED BY <1>4, <1>5

LEMMA InitTyped ==
    ASSUME Init
    PROVE  Types
  <1>1. PICK d \in Datas :
             /\ torn = (Len(Pieces(Text(d))) > 2)
             /\ entry \in [Keys -> Seq(Token)]
             /\ d = <<>> => \A k \in Keys : entry[k] = <<>>
             /\ d # <<>> => \A k \in Keys : (\A i \in 1..Len(Pieces(Text(d))) :
                                 WrittenKey(i - 1) # k) => entry[k] = <<>>
    BY FirstFile
  <1>2. (CHOOSE r \in Requests : TRUE) \in Request
    BY WalletAssumption
  <1>3. TypeOK
    <2>1. call \in [Calls -> Request]
      BY <1>2 DEF Init
    <2>2. /\ stage \in [Calls -> Settled \cup Loads \cup Dumps \cup {"account"}]
          /\ \A c \in Calls : stage[c] \notin Dumps /\ writes[c] = <<>>
      BY DEF Init, Settled, Dumps
    <2>3. /\ text \in [Calls -> Seq(Token)] /\ writes \in [Calls -> Seq(Seq(Token))]
          /\ old \in [Calls -> Secrets \cup {NoSecret}]
      BY EmptySeq DEF Init
    <2>4. chunks \in [Calls -> 0..(MaxChunks + 1)] /\ failures \in [Calls -> 0..2]
      BY WalletAssumption DEF Init
    <2>5. torn \in BOOLEAN
      BY <1>1
    <2> QED BY <1>1, <2>1, <2>2, <2>3, <2>4, <2>5 DEF Init, TypeOK
  <1>4. ASSUME NEW c \in Calls
        PROVE  Failed(c) /\ Dumping(c) /\ Fresh(c) /\ Known(c)
    BY DEF Init, Failed, Dumping, Fresh, Known, Dumps
  <1>5. Unwritten
    <2>1. ASSUME NEW i \in 2..MaxChunks  PROVE entry[ReadKey(i)] = <<>>
      <3>1. ReadKey(i) \in Keys /\ (\A j \in Nat : ReadKey(i) # WrittenKey(j))
        BY KeyFacts
      <3>2. Len(Pieces(Text(d))) \in Nat
        BY PieceCount, WalletAssumption
      <3>3. \A j \in 1..Len(Pieces(Text(d))) : j - 1 \in Nat
        BY <3>2
      <3>4. \A j \in 1..Len(Pieces(Text(d))) : WrittenKey(j - 1) # ReadKey(i)
        BY <3>1, <3>3
      <3> QED BY <1>1, <3>1, <3>4
    <2> QED BY <2>1 DEF Unwritten
  <1> QED BY <1>3, <1>4, <1>5 DEF Types

LEMMA StutterTyped ==
    ASSUME Types, UNCHANGED vars
    PROVE  Types'
  <1>1. TypeOK'
    BY DEF Types, TypeOK, vars
  <1>2. Unwritten'
    BY DEF Types, Unwritten, vars
  <1>3. ASSUME NEW b \in Calls
        PROVE  Failed(b)' /\ Dumping(b)' /\ Fresh(b)' /\ Known(b)'
    BY SameTyped DEF Types, Same, vars
  <1> QED BY <1>1, <1>2, <1>3 DEF Types

LEMMA ClashTyped ==
    ASSUME Types, Next
    PROVE  clash' \in BOOLEAN /\ (~clash' => ~clash)
  BY DEF Next, Types, TypeOK

LEMMA TypesKept == Spec => []Types
  <1>1. Types /\ [Next]_vars => Types'
    BY StepTypes, StutterTyped, ClashTyped DEF Next
  <1> QED BY <1>1, InitTyped, PTL DEF Spec

\* A call has a stage, a rest of a text and a number of chunks that belong
\* together, an update fails twice at most, and no chunk is below a key that
\* the program does not ask for.
THEOREM WalletTypes == Spec => []TypeOK
  <1>1. Types => TypeOK
    BY DEF Types
  <1> QED BY <1>1, TypesKept, PTL
-----------------------------------------------------------------------------
(***************************************************************************)
(* Who is at work.  Without a clash one call changes the file at most.  A  *)
(* call that has the file to itself is the only one that is under way.     *)
(***************************************************************************)
One == ~clash => \A b, c \in Calls : b # c => ~(Changing(b) /\ Changing(c))
Lone(c) == c \in alone => /\ stage[c] # "idle"
                          /\ stage[c] \notin Settled => \A b \in Calls \ {c} : stage[b] \in Settled
Places == Types /\ One /\ \A c \in Calls : Lone(c)

LEMMA ActiveSteps ==
    ASSUME NEW c \in Calls, Step(c), ~Begin(c)
    PROVE  stage[c] \notin Settled /\ alone' = alone
  BY DEF Step, Account, ReadChunk, WriteChunk, WriteFails, Crash, Fail, Loads, Dumps, Settled, ghosts

LEMMA NeverIdle ==
    ASSUME Types, NEW c \in Calls, Step(c), ~Begin(c)
    PROVE  stage'[c] # "idle"
  <1>1. c \in DOMAIN stage
    BY DEF Types, TypeOK
  <1>2. ASSUME Fail(c)  PROVE stage'[c] # "idle"
    BY <1>1, <1>2 DEF Fail
  <1>3. ASSUME NEW d, Loaded(c, d)  PROVE stage'[c] # "idle"
    BY <1>1, <1>2, <1>3 DEF Loaded
  <1>4. CASE Account(c)
    BY <1>1, <1>2, <1>4 DEF Account
  <1>5. CASE ReadChunk(c)
    BY <1>1, <1>2, <1>3, <1>5 DEF ReadChunk, Loads
  <1>6. CASE WriteChunk(c)
    BY <1>1, <1>6 DEF WriteChunk, AfterDump, Dumps
  <1>7. CASE WriteFails(c)
    BY <1>2, <1>7 DEF WriteFails
  <1>8. CASE Crash(c)
    BY <1>1, <1>8 DEF Crash
  <1> QED BY <1>4, <1>5, <1>6, <1>7, <1>8 DEF Step

LEMMA BeginAlone ==
    ASSUME NEW c \in Calls, Begin(c)
    PROVE  /\ alone' \subseteq alone \cup {c}
           /\ \A b \in Calls \ {c} : b \in alone' => stage[b] \in Settled
           /\ c \in alone' => c \in alone \/ \A b \in Calls \ {c} : stage[b] \in Settled
  BY DEF Begin

LEMMA StepLone ==
    ASSUME Places, NEW c \in Calls, Step(c), Others(c), Types', NEW b \in Calls
    PROVE  Lone(b)'
  <1>1. CASE Begin(c)
    <2>1. stage[c] = "idle" /\ stage'[c] \notin Settled
      BY <1>1 DEF Begin, Types, TypeOK, Places, Settled
    <2>2. c \notin alone
      BY <2>1 DEF Places, Lone
    <2>3. CASE b = c
      <3>1. c \in alone' => \A e \in Calls \ {c} : stage[e] \in Settled
        BY <1>1, <2>2, BeginAlone
      <3> QED BY <2>1, <2>3, <3>1 DEF Lone, Others, Same, Settled
    <2>4. CASE b # c
      <3>1. b \in alone' => b \in alone /\ stage[b] \in Settled
        BY <1>1, <2>4, BeginAlone
      <3>2. stage'[b] = stage[b]
        BY <2>4 DEF Others, Same
      <3> QED BY <3>1, <3>2 DEF Lone, Places
    <2> QED BY <2>3, <2>4
  <1>2. CASE ~Begin(c)
    <2>1. stage[c] \notin Settled /\ alone' = alone
      BY <1>2, ActiveSteps
    <2>2. \A e \in Calls \ {c} : stage'[e] = stage[e]
      BY DEF Others, Same
    <2>3. CASE b = c
      <3>1. stage'[c] # "idle"
        BY <1>2, NeverIdle DEF Places
      <3> QED BY <2>1, <2>2, <2>3, <3>1 DEF Lone, Places
    <2>4. CASE b # c
      BY <2>1, <2>2, <2>4 DEF Lone, Places
    <2> QED BY <2>3, <2>4
  <1> QED BY <1>1, <1>2

LEMMA NextPlaces ==
    ASSUME Places, Next
    PROVE  Places'
  <1>1. Types' /\ One'
    BY StepTypes, ClashTyped DEF Next, One, Places
  <1>2. PICK c \in Calls : Step(c)
    BY DEF Next
  <1>3. Others(c)
    BY <1>2, StepTypes, ClashTyped DEF Places
  <1> QED BY <1>1, <1>2, <1>3, StepLone DEF Places

LEMMA PlacesKept == Spec => []Places
  <1>1. Init => Places
    <2>1. Init => One
      BY DEF Init, One, Changing, Dumps
    <2>2. Init => \A c \in Calls : Lone(c)
      BY DEF Init, Lone
    <2> QED BY <2>1, <2>2, InitTyped DEF Places
  <1>2. Places /\ UNCHANGED vars => Places'
    <2>1. Places /\ UNCHANGED vars => One' /\ \A c \in Calls : Lone(c)'
      BY DEF Places, One, Lone, Changing, vars
    <2> QED BY <2>1, StutterTyped DEF Places
  <1>3. Places /\ [Next]_vars => Places'
    BY <1>2, NextPlaces
  <1> QED BY <1>1, <1>3, PTL DEF Spec
-----------------------------------------------------------------------------
(***************************************************************************)
(* The file.  While nothing is torn and no two calls clash, the two chunks *)
(* together are the text of an object that has the promised wallets, unless*)
(* a call is amid a dump.  A call that changes the file, or has it to      *)
(* itself, has read a beginning of that text; what it dumps keeps what is  *)
(* promised.                                                               *)
(***************************************************************************)
Whole == entry[<<>>] \o entry[<< 1 >>]
Data == Parsed(Whole)
Clean == ~torn /\ ~clash
Calm == \A c \in Calls : stage[c] \in Dumps => chunks[c] = 0
Shape == /\ entry[<<>>] = <<>> => entry[<< 1 >>] = <<>>
         /\ backend = "fs" => entry[<< 1 >>] = <<>>
Sound == Whole = <<>> \/ \E d \in Datas : Whole = Text(d)
Reader(c) == stage[c] \in Loads /\ (Changing(c) \/ c \in alone)
HasRead(c) ==
    \/ chunks[c] = 0 /\ text[c] = <<>>
    \/ backend # "fs" /\ chunks[c] = 1 /\ text[c] = entry[<<>>] /\ entry[<<>>] # <<>>
    \/ backend # "fs" /\ chunks[c] = 2 /\ text[c] = Whole /\ entry[<< 1 >>] # <<>>
New(c) == [name |-> Name(c), secret |-> Secret(c)]
Keeps(c, d) ==
    /\ stage[c] = "saveDump" => promised \subseteq Range(d) /\ New(c) \in Range(d)
    /\ stage[c] = "deleteDump" => /\ ~Has(d, Name(c))
                                  /\ \A w \in promised : w.name # Name(c) => w \in Range(d)
Fits(c, d) == /\ Writes(c, d) /\ Keeps(c, d)
              /\ chunks[c] = 1 => entry[<<>>] = Pieces(Text(d))[1]
Works(c) == /\ Reader(c) => HasRead(c)
            /\ stage[c] \in Dumps => \E d \in Datas : Fits(c, d)
            /\ stage[c] = "saveLoad" => ~Has(Data, Name(c))
Contents == Calm => Sound /\ promised \subseteq Range(Data)
File == Clean => Shape /\ Contents /\ \A c \in Calls : Works(c)
Filed == Places /\ File

LEMMA WholeFacts ==
    ASSUME Types
    PROVE  /\ entry[<<>>] \in Seq(Token) /\ entry[<< 1 >>] \in Seq(Token) /\ Whole \in Seq(Token)
           /\ entry[<< 1 >>] = <<>> => Whole = entry[<<>>]
           /\ Sound => WellFormed(Whole) /\ Data \in Datas
           /\ \A d \in Datas : Whole = Text(d) => Data = d
  <1>1. entry[<<>>] \in Seq(Token) /\ entry[<< 1 >>] \in Seq(Token)
    BY KeyFacts DEF Types, TypeOK
  <1>2. Whole \in Seq(Token) /\ (entry[<< 1 >>] = <<>> => Whole = entry[<<>>])
    BY <1>1, ConcatProperties, ConcatEmptySeq DEF Whole
  <1>3. \A d \in Datas : WellFormed(Text(d)) /\ Parsed(Text(d)) = d
    BY TextShape, ParsedText DEF Datas
  <1>4. Sound => WellFormed(Whole)
    BY <1>3 DEF Sound, WellFormed
  <1>5. WellFormed(Whole) => Data \in Datas
    BY <1>2, ParsedObject DEF Data
  <1> QED BY <1>1, <1>2, <1>3, <1>4, <1>5 DEF Data

LEMMA SecondKey ==
    ASSUME Types
    PROVE  At(ReadKey(2)) = <<>>
  <1>1. CASE MaxChunks >= 2
    <2>1. 2 \in 2..MaxChunks /\ 2 \in 0..MaxChunks
      BY <1>1, WalletAssumption
    <2> QED BY <2>1, KeyFacts DEF Types, Unwritten, At
  <1>2. CASE ~(MaxChunks >= 2)
    <2>1. ReadKey(2) \notin Keys
      BY <1>2, KeyFacts, WalletAssumption
    <2> QED BY <2>1 DEF At
  <1> QED BY <1>1, <1>2

\* get() reads the two chunks.
LEMMA ReadableWhole ==
    ASSUME Types, Shape
    PROVE  Readable = Whole
  <1>1. CASE backend = "fs"
    BY <1>1, WholeFacts DEF Readable, Shape
  <1>2. CASE backend # "fs"
    <2> DEFINE good(i) == At(ReadKey(i)) = <<>> /\ \A j \in 0..(i - 1) : At(ReadKey(j)) # <<>>
               n == CHOOSE i \in 0..(MaxChunks + 1) : good(i)
    <2>1. At(ReadKey(0)) = entry[<<>>] /\ At(ReadKey(1)) = entry[<< 1 >>]
      BY KeyFacts DEF At
    <2>2. At(ReadKey(2)) = <<>>
      BY SecondKey
    <2>3. Readable = FlattenSeq([i \in 1..n |-> At(ReadKey(i - 1))])
      BY <1>2 DEF Readable
    <2>4. ASSUME NEW m \in {0, 1, 2}, good(m)  PROVE n = m
      <3>1. m \in 0..(MaxChunks + 1)
        BY WalletAssumption
      <3>2. ASSUME NEW i \in 0..(MaxChunks + 1), good(i)  PROVE i = m
        <4>1. CASE i < m
          BY <2>4, <3>2, <4>1
        <4>2. CASE m < i
          BY <2>4, <3>2, <4>2
        <4> QED BY <4>1, <4>2
      <3> HIDE DEF good
      <3> QED BY <2>4, <3>1, <3>2
    <2>5. CASE entry[<<>>] = <<>>
      <3>1. good(0)
        BY <2>1, <2>5
      <3>2. n = 0
        BY <2>4, <3>1
      <3> HIDE DEF n
      <3>3. [i \in 1..n |-> At(ReadKey(i - 1))] = <<>>
        BY <3>2
      <3>4. FlattenSeq(<<>>) = <<>>
        BY DEF FlattenSeq
      <3> QED BY <2>3, <2>5, <3>3, <3>4, WholeFacts DEF Shape
    <2>6. CASE entry[<<>>] # <<>> /\ entry[<< 1 >>] = <<>>
      <3>1. good(1)
        BY <2>1, <2>6
      <3>2. n = 1
        BY <2>4, <3>1
      <3> HIDE DEF n
      <3>3. [i \in 1..n |-> At(ReadKey(i - 1))] = << entry[<<>>] >>
        BY <2>1, <3>2
      <3>4. \A s : FlattenSeq(<< s >>) = s
        <4> TAKE s
        <4> DEFINE eq(f) == f = [i \in 1..Len(<< s >>) |->
                              IF i = 1 THEN << s >>[i] ELSE f[i - 1] \o << s >>[i]]
                   g == CHOOSE f : eq(f)
        <4>1. eq([i \in 1..1 |-> s])
          OBVIOUS
        <4>2. eq(g)
          BY <4>1
        <4>3. g[1] = s
          BY <4>2
        <4>4. FlattenSeq(<< s >>) = g[1]
          BY DEF FlattenSeq
        <4> QED BY <4>3, <4>4
      <3> QED BY <2>3, <2>6, <3>3, <3>4, WholeFacts
    <2>7. CASE entry[<<>>] # <<>> /\ entry[<< 1 >>] # <<>>
      <3>1. good(2)
        BY <2>1, <2>2, <2>7
      <3>2. n = 2
        BY <2>4, <3>1
      <3> HIDE DEF n
      <3>3. [i \in 1..n |-> At(ReadKey(i - 1))] = << entry[<<>>], entry[<< 1 >>] >>
        BY <2>1, <3>2
      <3>4. \A s, t : FlattenSeq(<< s, t >>) = s \o t
        <4> TAKE s, t
        <4> DEFINE eq(f) == f = [i \in 1..Len(<< s, t >>) |->
                              IF i = 1 THEN << s, t >>[i] ELSE f[i - 1] \o << s, t >>[i]]
                   g == CHOOSE f : eq(f)
                   h == [i \in 1..2 |-> IF i = 1 THEN s ELSE s \o t]
        <4>1. eq(h)
          <5>1. h[1] = s /\ h[2] = s \o t
            OBVIOUS
          <5>2. \A i \in 1..2 : h[i] = IF i = 1 THEN << s, t >>[i] ELSE h[i - 1] \o << s, t >>[i]
            BY <5>1
          <5>3. h = [i \in 1..2 |-> h[i]]
            OBVIOUS
          <5> HIDE DEF h
          <5> QED BY <5>2, <5>3
        <4>2. eq(g)
          BY <4>1
        <4> HIDE DEF g
        <4>3. g[1] = s /\ g[2] = g[1] \o t
          <5>1. Len(<< s, t >>) = 2
            OBVIOUS
          <5>2. g = [i \in 1..2 |-> IF i = 1 THEN << s, t >>[i] ELSE g[i - 1] \o << s, t >>[i]]
            BY <4>2, <5>1
          <5>3. PICK q : q = [i \in 1..2 |->
                                IF i = 1 THEN << s, t >>[i] ELSE g[i - 1] \o << s, t >>[i]]
            OBVIOUS
          <5>4. g = q
            BY <5>2, <5>3, Zenon
          <5>5. q[1] = s
            BY <5>3
          <5>6. q[2] = g[1] \o t
            BY <5>3
          <5> QED BY <5>4, <5>5, <5>6
        <4>4. FlattenSeq(<< s, t >>) = g[2]
          BY DEF FlattenSeq, g
        <4> QED BY <4>3, <4>4
      <3> QED BY <2>3, <3>3, <3>4 DEF Whole
    <2> QED BY <2>5, <2>6, <2>7
  <1> QED BY <1>1, <1>2

\* Nobody is amid a dump while such a call reads.
LEMMA ReaderCalm ==
    ASSUME Places, Clean, NEW c \in Calls, Reader(c)
    PROVE  Calm
  <1>1. ASSUME NEW b \in Calls, stage[b] \in Dumps  PROVE FALSE
    <2>1. b # c /\ Changing(b) /\ stage[c] \notin Settled
      BY <1>1 DEF Reader, Loads, Dumps, Changing, Settled
    <2>2. stage[b] \notin Settled
      BY <1>1 DEF Dumps, Settled
    <2> QED BY <2>1, <2>2 DEF Places, One, Lone, Clean, Reader
  <1> QED BY <1>1 DEF Calm

\* It has read the whole text when it finds no more of it, or goes on.
LEMMA ReaderWhole ==
    ASSUME Filed, Clean, NEW c \in Calls, Reader(c),
           backend = "fs" \/ At(ReadKey(chunks[c])) = <<>>
    PROVE  /\ text[c] \o At(ReadKey(chunks[c])) = Whole
           /\ WellFormed(Whole) /\ Data \in Datas /\ promised \subseteq Range(Data)
  <1>1. Calm
    BY ReaderCalm DEF Filed
  <1>2. Types /\ Shape /\ HasRead(c) /\ Sound /\ promised \subseteq Range(Data)
    BY <1>1 DEF Filed, File, Works, Places, Contents
  <1>3. WellFormed(Whole) /\ Data \in Datas
    BY <1>2, WholeFacts
  <1>4. At(ReadKey(0)) = entry[<<>>] /\ At(ReadKey(1)) = entry[<< 1 >>]
    BY KeyFacts DEF At
  <1>5. entry[<<>>] \in Seq(Token) /\ entry[<< 1 >>] \in Seq(Token) /\ Whole \in Seq(Token)
        /\ (entry[<< 1 >>] = <<>> => Whole = entry[<<>>])
    BY <1>2, WholeFacts
  <1>6. CASE chunks[c] = 0 /\ text[c] = <<>>
    <2>1. text[c] \o At(ReadKey(chunks[c])) = entry[<<>>]
      BY <1>4, <1>5, <1>6, ConcatEmptySeq
    <2>2. entry[<< 1 >>] = <<>>
      BY <1>2, <1>4, <1>6 DEF Shape
    <2> QED BY <1>2, <1>3, <1>5, <2>1, <2>2
  <1>7. CASE backend # "fs" /\ chunks[c] = 1 /\ text[c] = entry[<<>>] /\ entry[<<>>] # <<>>
    <2>1. entry[<< 1 >>] = <<>> /\ At(ReadKey(chunks[c])) = <<>>
      BY <1>4, <1>7
    <2> QED BY <1>2, <1>3, <1>5, <1>7, <2>1, ConcatEmptySeq
  <1>8. CASE backend # "fs" /\ chunks[c] = 2 /\ text[c] = Whole /\ entry[<< 1 >>] # <<>>
    <2>1. At(ReadKey(chunks[c])) = <<>>
      BY <1>8
    <2> QED BY <1>2, <1>3, <1>5, <1>8, <2>1, ConcatEmptySeq
  <1> QED BY <1>2, <1>6, <1>7, <1>8 DEF HasRead

LEMMA ReaderGoesOn ==
    ASSUME Filed, Clean, NEW c \in Calls, Reader(c),
           backend = "tfkvstore", At(ReadKey(chunks[c])) # <<>>,
           text' = [text EXCEPT ![c] = text[c] \o At(ReadKey(chunks[c]))],
           chunks' = [chunks EXCEPT ![c] = @ + 1], UNCHANGED <<backend, entry>>
    PROVE  HasRead(c)'
  <1>1. Types /\ HasRead(c)
    BY DEF Filed, File, Works, Places
  <1>2. At(ReadKey(0)) = entry[<<>>] /\ At(ReadKey(1)) = entry[<< 1 >>] /\ At(ReadKey(2)) = <<>>
    BY <1>1, KeyFacts, SecondKey DEF At
  <1>3. entry[<<>>] \in Seq(Token) /\ entry[<< 1 >>] \in Seq(Token)
    BY <1>1, WholeFacts
  <1>4. text'[c] = text[c] \o At(ReadKey(chunks[c])) /\ chunks'[c] = chunks[c] + 1
    BY <1>1 DEF Types, TypeOK
  <1>5. CASE chunks[c] = 0 /\ text[c] = <<>>
    <2>1. text'[c] = entry[<<>>] /\ chunks'[c] = 1 /\ entry[<<>>] # <<>>
      BY <1>2, <1>3, <1>4, <1>5, ConcatEmptySeq
    <2> QED BY <2>1 DEF HasRead
  <1>6. CASE backend # "fs" /\ chunks[c] = 1 /\ text[c] = entry[<<>>] /\ entry[<<>>] # <<>>
    <2>1. text'[c] = Whole /\ chunks'[c] = 2 /\ entry[<< 1 >>] # <<>>
      <3>1. At(ReadKey(chunks[c])) = entry[<< 1 >>] /\ chunks'[c] = 2
        BY <1>2, <1>4, <1>6
      <3>2. text'[c] = entry[<<>>] \o entry[<< 1 >>]
        BY <1>4, <1>6, <3>1, Zenon
      <3>3. entry[<< 1 >>] # <<>>
        BY <3>1, Zenon
      <3> QED BY <3>1, <3>2, <3>3 DEF Whole
    <2> QED BY <2>1 DEF HasRead, Whole
  <1>7. CASE chunks[c] = 2
    BY <1>2, <1>7
  <1> QED BY <1>1, <1>5, <1>6, <1>7 DEF HasRead

\* What does not change the file, does nothing to the other calls.
LEMMA WorksSame ==
    ASSUME NEW b, backend' = backend, entry' = entry, promised' = promised, Same(b),
           b \in restoring' <=> b \in restoring, b \in alone' => b \in alone, Works(b)
    PROVE  Works(b)'
  <1>1. Whole' = Whole /\ Data' = Data
    BY DEF Whole, Data
  <1>2. Reader(b)' => HasRead(b)'
    BY <1>1 DEF Works, Reader, Changing, HasRead, Same, Loads, Dumps
  <1>3. \A d : Keeps(b, d)' <=> Keeps(b, d)
    BY DEF Keeps, Same, New, Name, Secret
  <1>4. \A d : Fits(b, d)' <=> Fits(b, d)
    <2>1. ASSUME NEW d  PROVE Fits(b, d)' <=> Fits(b, d)
      <3>1. Writes(b, d)' <=> Writes(b, d)
        BY WritesSame DEF Same
      <3> QED BY <1>3, <3>1 DEF Fits, Same, Pieces
    <2> QED BY <2>1
  <1>5. stage'[b] \in Dumps => \E d \in Datas : Fits(b, d)'
    BY <1>4 DEF Works, Same
  <1>6. stage'[b] = "saveLoad" => ~Has(Data', Name(b)')
    BY <1>1 DEF Works, Same, Name
  <1> QED BY <1>2, <1>5, <1>6 DEF Works

LEMMA QuietFile ==
    ASSUME Filed, NEW c \in Calls, Others(c), entry' = entry, promised' = promised,
           Clean' => Clean, alone' \subseteq alone \cup {c},
           Clean' => (Calm' => Calm) /\ Works(c)'
    PROVE  File'
  <1>1. SUFFICES ASSUME Clean' PROVE File'
    BY DEF File
  <1>2. Shape /\ Contents /\ (\A b \in Calls : Works(b)) /\ Clean /\ backend' = backend
    BY <1>1 DEF Filed, File, Others
  <1>3. Whole' = Whole /\ Data' = Data /\ Shape' /\ Sound' = Sound
    BY <1>2 DEF Whole, Data, Shape, Sound
  <1>4. Contents'
    BY <1>1, <1>2, <1>3 DEF Contents
  <1>5. ASSUME NEW b \in Calls  PROVE Works(b)'
    <2>1. CASE b = c
      BY <1>1, <2>1
    <2>2. CASE b # c
      BY <1>2, <2>2, WorksSame DEF Others
    <2> QED BY <2>1, <2>2
  <1> QED BY <1>1, <1>3, <1>4, <1>5 DEF File

\* Calls that are amid a dump stay there.
LEMMA CalmBefore ==
    ASSUME NEW c \in Calls, Others(c), Calm', stage[c] \in Dumps => chunks[c] = 0
    PROVE  Calm
  BY DEF Calm, Others, Same

\* The call starts a stage that is neither a dump nor the last load.
LEMMA StartsWorks ==
    ASSUME NEW c \in Calls, stage'[c] \notin Dumps \cup {"saveLoad"},
           chunks'[c] = 0, text'[c] = <<>>
    PROVE  Works(c)'
  BY DEF Works, HasRead, Dumps

LEMMA BeginFile ==
    ASSUME Filed, NEW c \in Calls, Begin(c), Others(c), ~clash' => ~clash
    PROVE  File'
  <1>1. /\ stage[c] = "idle" /\ entry' = entry /\ promised' = promised /\ torn' = torn
        /\ chunks' = chunks /\ text' = text /\ alone' \subseteq alone \cup {c}
    BY DEF Begin
  <1>2. chunks[c] = 0 /\ text[c] = <<>>
    BY <1>1 DEF Filed, Places, Types, Fresh, Loads, Dumps
  <1>3. stage'[c] \in {"account", "exist", "deleteCheck"}
    BY DEF Begin, Filed, Places, Types, TypeOK
  <1>4. Works(c)'
    BY <1>1, <1>2, <1>3, StartsWorks DEF Dumps
  <1>5. Calm' => Calm
    BY <1>1, CalmBefore DEF Dumps
  <1> QED BY <1>1, <1>4, <1>5, QuietFile DEF Clean

LEMMA FailWorks ==
    ASSUME Types, NEW c \in Calls, Fail(c)
    PROVE  Works(c)' /\ entry' = entry
  <1>1. /\ stage'[c] \in {"account", "threw"} /\ chunks'[c] = 0 /\ text'[c] = <<>>
        /\ entry' = entry
    BY DEF Fail, Types, TypeOK
  <1> QED BY <1>1, StartsWorks DEF Dumps

LEMMA AccountFile ==
    ASSUME Filed, NEW c \in Calls, Account(c), Others(c), ~clash' => ~clash
    PROVE  File'
  <1>1. stage[c] = "account" /\ promised' = promised /\ torn' = torn /\ alone' = alone
    BY DEF Account, ghosts
  <1>2. Works(c)' /\ entry' = entry
    <2>1. CASE Fail(c)
      BY <2>1, FailWorks DEF Filed, Places
    <2>2. CASE /\ stage' = [stage EXCEPT ![c] = "saveCheck"]
               /\ UNCHANGED <<backend, entry, call, restoring, old, text, chunks, writes, ghosts>>
      <3>1. stage'[c] = "saveCheck" /\ chunks'[c] = 0 /\ text'[c] = <<>>
        BY <1>1, <2>2 DEF Filed, Places, Types, TypeOK, Fresh, Loads, Dumps
      <3> QED BY <2>2, <3>1, StartsWorks DEF Dumps
    <2> QED BY <2>1, <2>2 DEF Account
  <1>3. Calm' => Calm
    BY <1>1, CalmBefore DEF Dumps
  <1> QED BY <1>1, <1>2, <1>3, QuietFile DEF Clean

\* A dump starts from an object that keeps what is promised.
LEMMA DumpWorks ==
    ASSUME NEW c \in Calls, NEW d \in Datas, stage'[c] \in Dumps, chunks'[c] = 0,
           writes'[c] = Pieces(Text(d)), backend' = backend, Keeps(c, d)'
    PROVE  Works(c)'
  <1>1. /\ 0 < Len(Pieces(Text(d))) /\ Pieces(Text(d)) = Rest(Pieces(Text(d)), 0)
    BY DumpStarts
  <1>2. Pieces(Text(d))' = Pieces(Text(d))
    BY DEF Pieces
  <1>3. Writes(c, d)'
    BY <1>1, <1>2 DEF Writes
  <1>4. Fits(c, d)'
    BY <1>3 DEF Fits
  <1>5. stage'[c] \notin Loads /\ stage'[c] # "saveLoad"
    BY DEF Loads, Dumps
  <1> QED BY <1>4, <1>5 DEF Works, Reader

LEMMA LoadedWorks ==
    ASSUME Filed, Clean, NEW c \in Calls, stage[c] \in Loads, NEW d, Loaded(c, d),
           UNCHANGED ghosts,
           Reader(c) => d = Data /\ Data \in Datas /\ promised \subseteq Range(Data)
    PROVE  Works(c)' /\ entry' = entry
  <1> DEFINE n == Name(c)
             To(s) == /\ stage' = [stage EXCEPT ![c] = s]
                      /\ text' = [text EXCEPT ![c] = <<>>]
                      /\ chunks' = [chunks EXCEPT ![c] = 0]
                      /\ UNCHANGED <<backend, entry, call, restoring>>
  <1>1. Types /\ Works(c) /\ promised' = promised
    BY DEF Filed, Places, File, ghosts
  <1>2. c \in DOMAIN stage /\ c \in DOMAIN text /\ c \in DOMAIN chunks
        /\ writes \in [Calls -> Seq(Seq(Token))]
    BY <1>1 DEF Types, TypeOK
  <1>3. CASE Fail(c)
    BY <1>1, <1>3, FailWorks
  <1>4. ASSUME NEW s \in {"secret", "deleteCheck", "deleteLoad"}, To(s)
        PROVE  Works(c)' /\ entry' = entry
    BY <1>2, <1>4, StartsWorks DEF Dumps
  <1>5. CASE stage[c] = "saveCheck" /\ ~Taken(c, d) /\ To("saveLoad")
    <2>1. Reader(c)
      BY <1>5 DEF Reader, Changing, Loads
    <2>2. ~Has(Data, n)
      BY <1>5, <2>1 DEF Taken
    <2>3. ~Has(Data', Name(c)')
      BY <1>5, <2>2 DEF Data, Whole, Name
    <2>4. stage'[c] = "saveLoad" /\ chunks'[c] = 0 /\ text'[c] = <<>>
      BY <1>2, <1>5
    <2> QED BY <1>5, <2>3, <2>4 DEF Works, HasRead, Dumps
  <1>6. CASE /\ stage[c] = "deleteLoad" /\ To("deleteDump")
             /\ writes' = [writes EXCEPT ![c] = Pieces(Text(Without(d, n)))]
    <2>1. Reader(c)
      BY <1>6 DEF Reader, Changing, Loads
    <2>2. PICK e : e = Without(Data, n)
      OBVIOUS
    <2>3. /\ e \in Datas /\ ~Has(e, n)
          /\ \A w \in Range(Data) : w.name # n => w \in Range(e)
      BY <2>1, <2>2, Taking
    <2>4. stage'[c] = "deleteDump" /\ chunks'[c] = 0 /\ writes'[c] = Pieces(Text(e))
          /\ Name(c)' = n
      BY <1>2, <1>6, <2>1, <2>2 DEF Name
    <2>5. Keeps(c, e)'
      BY <1>1, <2>1, <2>3, <2>4 DEF Keeps
    <2> QED BY <1>6, <2>3, <2>4, <2>5, DumpWorks DEF Dumps
  <1>7. CASE /\ stage[c] = "saveLoad" /\ To("saveDump")
             /\ writes' = [writes EXCEPT ![c] =
                            Pieces(Text(Put(d, [name |-> n, secret |-> Secret(c)])))]
             /\ old' = old
    <2>1. Reader(c) /\ ~Has(Data, n)
      BY <1>1, <1>7 DEF Reader, Changing, Loads, Works
    <2>2. PICK e : e = Put(Data, New(c))
      OBVIOUS
    <2>3. New(c) \in Wallet /\ New(c).name = n
      BY <1>1, <1>7, <2>1, ObjectTypes DEF Types, Known, New
    <2>4. e \in Datas /\ New(c) \in Range(e) /\ Range(Data) \subseteq Range(e)
      BY <2>1, <2>3, <2>2, PutNew
    <2>5. stage'[c] = "saveDump" /\ chunks'[c] = 0 /\ writes'[c] = Pieces(Text(e))
          /\ New(c)' = New(c)
      BY <1>2, <1>7, <2>1, <2>2 DEF New, Name, Secret
    <2>6. Keeps(c, e)'
      BY <1>1, <2>1, <2>4, <2>5 DEF Keeps
    <2> QED BY <1>7, <2>4, <2>5, <2>6, DumpWorks DEF Dumps
  <1> HIDE DEF To
  <1> QED BY <1>3, <1>4, <1>5, <1>6, <1>7 DEF Loaded, To

LEMMA ReadFile ==
    ASSUME Filed, NEW c \in Calls, ReadChunk(c), Others(c), ~clash' => ~clash
    PROVE  File'
  <1> DEFINE v == At(ReadKey(chunks[c]))
             whole == text[c] \o v
  <1>1. /\ stage[c] \in Loads /\ UNCHANGED ghosts
        /\ promised' = promised /\ torn' = torn /\ alone' = alone
    BY DEF ReadChunk, ghosts
  <1>2. Types
    BY DEF Filed, Places
  <1>3. Calm' => Calm
    BY <1>1, CalmBefore DEF Loads, Dumps
  <1>4. ASSUME Clean  PROVE Works(c)' /\ entry' = entry
    <2>1. CASE /\ backend = "tfkvstore" /\ v # <<>>
               /\ text' = [text EXCEPT ![c] = whole]
               /\ chunks' = [chunks EXCEPT ![c] = @ + 1]
               /\ UNCHANGED <<backend, entry, call, stage, restoring, old, writes>>
      <3>1. Reader(c)' <=> Reader(c)
        BY <1>1, <2>1 DEF Reader, Changing
      <3>2. Reader(c) => HasRead(c)'
        BY <1>4, <2>1, ReaderGoesOn
      <3>3. stage'[c] \notin Dumps
        BY <1>1, <2>1 DEF Loads, Dumps
      <3>4. stage'[c] = "saveLoad" => ~Has(Data', Name(c)')
        BY <1>4, <2>1 DEF Filed, File, Works, Data, Whole, Name
      <3> QED BY <2>1, <3>1, <3>2, <3>3, <3>4 DEF Works
    <2>2. CASE (backend = "fs" \/ v = <<>>) /\ WellFormed(whole) /\ Loaded(c, Parsed(whole))
      <3>1. Reader(c) => /\ Parsed(whole) = Data /\ Data \in Datas
                         /\ promised \subseteq Range(Data)
        BY <1>4, <2>2, ReaderWhole DEF Data
      <3> QED BY <1>1, <1>4, <2>2, <3>1, LoadedWorks
    <2>3. CASE Fail(c)
      BY <1>2, <2>3, FailWorks
    <2> QED BY <2>1, <2>2, <2>3 DEF ReadChunk
  <1>5. entry' = entry
    BY DEF ReadChunk, Loaded, Fail
  <1> QED BY <1>1, <1>3, <1>4, <1>5, QuietFile DEF Clean

\* Where a chunk is written.
LEMMA WrittenWhere ==
    ASSUME Types, NEW c \in Calls, WriteChunk(c), Shape
    PROVE  /\ chunks[c] = 0 => /\ entry'[<<>>] = Head(writes[c])
                               /\ entry'[<< 1 >>] = entry[<< 1 >>]
           /\ chunks[c] = 1 => /\ entry'[<< 1 >>] = Head(writes[c])
                               /\ entry'[<<>>] = entry[<<>>]
           /\ chunks[c] \notin {0, 1} => /\ entry'[<<>>] = entry[<<>>]
                                         /\ entry'[<< 1 >>] = entry[<< 1 >>]
  <1>1. /\ chunks[c] \in 0..MaxChunks
        /\ entry'[WrittenKey(chunks[c])] = Head(writes[c])
        /\ \A k \in Keys : k # WrittenKey(chunks[c]) => entry'[k] = entry[k]
    BY WriteFacts
  <1>2. /\ WrittenKey(0) = <<>> /\ WrittenKey(1) = << 1 >>
        /\ <<>> \in Keys /\ << 1 >> \in Keys /\ <<>> # << 1 >>
    BY KeyFacts
  <1>3. CASE chunks[c] = 0
    BY <1>1, <1>2, <1>3
  <1>4. CASE chunks[c] = 1
    BY <1>1, <1>2, <1>4
  <1>5. CASE chunks[c] \notin {0, 1}
    <2>1. chunks[c] \in Nat /\ chunks[c] >= 2
      BY <1>1, <1>5, WalletAssumption
    <2>2. WrittenKey(chunks[c]) # <<>> /\ WrittenKey(chunks[c]) # << 1 >>
      BY <2>1, KeyFacts
    <2> QED BY <1>1, <1>2, <1>5, <2>2
  <1> QED BY <1>3, <1>4, <1>5

\* A chunk of the object that the call dumps.
LEMMA WriteSound ==
    ASSUME Types, NEW c \in Calls, WriteChunk(c), Shape, NEW d \in Datas, Fits(c, d)
    PROVE  /\ Shape'
           /\ chunks[c] = 0 => entry'[<<>>] = Pieces(Text(d))[1]
           /\ stage[c] \in Dumps /\ Len(writes[c]) = Len(Pieces(Text(d))) - chunks[c]
           /\ Len(writes[c]) = 1 /\ ~torn' => Whole' = Text(d)
           /\ writes'[c] = Rest(Pieces(Text(d)), chunks[c] + 1)
  <1> DEFINE p == Pieces(Text(d))
  <1>1. /\ stage[c] \in Dumps /\ backend' = backend
        /\ writes' = [writes EXCEPT ![c] = Tail(@)]
        /\ Len(writes[c]) = 1 => torn' = (torn \/ Tears(c))
    <2>1. Len(writes[c]) = 1 => ~(Len(writes[c]) > 1)
      OBVIOUS
    <2> QED BY <2>1 DEF WriteChunk
  <1>2. /\ Writes(c, d) /\ (chunks[c] = 1 => entry[<<>>] = p[1])
    BY DEF Fits
  <1>3. chunks[c] \in Nat /\ writes \in [Calls -> Seq(Seq(Token))]
    BY WalletAssumption DEF Types, TypeOK
  <1>4. /\ Len(p) \in 1..(MaxChunks + 1) /\ Len(writes[c]) = Len(p) - chunks[c]
        /\ Head(writes[c]) = p[chunks[c] + 1] /\ Head(writes[c]) # <<>>
        /\ Tail(writes[c]) = Rest(p, chunks[c] + 1) /\ chunks[c] + 1 <= Len(p)
    BY <1>2, <1>3, WritesFacts
  <1>5. /\ (Len(p) = 1 => p[1] = Text(d)) /\ (Len(p) = 2 => p[1] \o p[2] = Text(d))
        /\ (backend = "fs" => Len(p) = 1)
    <2>1. Text(d) \in Seq(Token) /\ Text(d) # <<>>
      BY TextShape DEF Datas
    <2> QED BY <2>1, PieceFacts
  <1>6. /\ chunks[c] = 0 => entry'[<<>>] = Head(writes[c]) /\ entry'[<< 1 >>] = entry[<< 1 >>]
        /\ chunks[c] = 1 => entry'[<< 1 >>] = Head(writes[c]) /\ entry'[<<>>] = entry[<<>>]
        /\ chunks[c] \notin {0, 1} => entry'[<<>>] = entry[<<>>] /\ entry'[<< 1 >>] = entry[<< 1 >>]
    BY WrittenWhere
  <1>7. writes'[c] = Rest(p, chunks[c] + 1)
    BY <1>1, <1>3, <1>4
  <1>8. p[1] # <<>>
    <2>1. Text(d) \in Seq(Token) /\ Text(d) # <<>>
      BY TextShape DEF Datas
    <2>2. Len(p) \in Nat \ {0} /\ (\A i \in 1..Len(p) : p[i] # <<>>)
      BY <2>1, PieceFacts
    <2> HIDE DEF p
    <2>3. 1 \in 1..Len(p)
      BY <2>2
    <2> QED BY <2>2, <2>3
  <1> HIDE DEF p
  <1>9. Shape'
    <2>1. CASE chunks[c] = 0
      <3>1. entry'[<<>>] # <<>> /\ entry'[<< 1 >>] = entry[<< 1 >>]
        BY <1>4, <1>6, <2>1
      <3> QED BY <1>1, <3>1 DEF Shape
    <2>2. CASE chunks[c] = 1
      <3>1. backend # "fs"
        BY <1>4, <1>5, <2>2
      <3>2. entry'[<<>>] # <<>>
        BY <1>2, <1>6, <1>8, <2>2
      <3> QED BY <1>1, <3>1, <3>2 DEF Shape
    <2>3. CASE chunks[c] \notin {0, 1}
      BY <1>1, <1>6, <2>3 DEF Shape
    <2> QED BY <2>1, <2>2, <2>3
  <1>10. ASSUME Len(writes[c]) = 1, ~torn'  PROVE Whole' = Text(d)
    <2>1. Len(p) = chunks[c] + 1
      <3>1. Len(p) \in Nat
        BY <1>4, WalletAssumption
      <3>2. Len(p) - chunks[c] = 1
        BY <1>4, <1>10
      <3> QED BY <1>3, <3>1, <3>2
    <2>2. ~Tears(c)
      BY <1>1, <1>10
    <2>3. entry[<< 1 >>] \in Seq(Token) /\ Text(d) \in Seq(Token)
      BY KeyFacts, TextShape DEF Types, TypeOK, Datas
    <2>4. CASE chunks[c] = 0
      <3>1. entry'[<<>>] = Text(d) /\ entry'[<< 1 >>] = entry[<< 1 >>]
        BY <1>4, <1>5, <1>6, <2>1, <2>4
      <3>2. entry[<< 1 >>] = <<>>
        <4>1. CASE backend = "fs"
          BY <4>1 DEF Shape
        <4>2. CASE backend # "fs"
          <5>1. backend = "tfkvstore"
            BY <4>2, WalletAssumption DEF Types, TypeOK
          <5>2. At(WrittenKey(1)) = <<>>
            BY <2>2, <2>4, <5>1 DEF Tears
          <5> QED BY <5>2, KeyFacts DEF At
        <4> QED BY <4>1, <4>2
      <3>3. Whole' = Text(d) \o <<>>
        BY <3>1, <3>2 DEF Whole
      <3> QED BY <2>3, <3>3, ConcatEmptySeq
    <2>5. CASE chunks[c] = 1
      <3>1. entry'[<<>>] = p[1] /\ entry'[<< 1 >>] = p[2] /\ Len(p) = 2
        BY <1>2, <1>4, <1>6, <2>1, <2>5
      <3> QED BY <1>5, <3>1 DEF Whole
    <2>6. CASE chunks[c] \notin {0, 1}
      <3>1. chunks[c] > 1 /\ Len(p) # 1
        BY <1>3, <2>1, <2>6
      <3>2. backend = "tfkvstore"
        BY <1>5, <3>1, WalletAssumption DEF Types, TypeOK
      <3> QED BY <2>2, <3>1, <3>2 DEF Tears
    <2> QED BY <2>4, <2>5, <2>6
  <1> QED BY <1>1, <1>4, <1>6, <1>7, <1>9, <1>10 DEF p

\* The calls that do not write, while one does.
LEMMA BystanderWorks ==
    ASSUME Places, Clean, NEW c \in Calls, stage[c] \in Dumps, Others(c), alone' = alone,
           NEW b \in Calls \ {c}
    PROVE  Works(b)' /\ stage'[b] \notin Dumps
  <1>1. Changing(c) /\ stage[c] \notin Settled
    BY DEF Changing, Dumps, Settled
  <1>2. ~Changing(b)
    BY <1>1 DEF Places, One, Clean
  <1>3. stage'[b] = stage[b]
    BY DEF Others, Same
  <1>4. stage[b] \notin Dumps /\ stage[b] # "saveLoad"
    BY <1>2 DEF Changing
  <1>5. ~Reader(b)'
    <2>1. b \in alone => stage[b] \in Settled
      BY <1>1 DEF Places, Lone
    <2>2. ~Changing(b)'
      BY <1>2, <1>3 DEF Changing
    <2> QED BY <1>3, <2>1, <2>2 DEF Reader, Loads, Settled
  <1> QED BY <1>3, <1>4, <1>5 DEF Works

LEMMA WriteFile ==
    ASSUME Filed, NEW c \in Calls, WriteChunk(c), Others(c), ~clash' => ~clash
    PROVE  File'
  <1>1. SUFFICES ASSUME Clean' PROVE File'
    BY DEF File
  <1>2. stage[c] \in Dumps /\ alone' = alone /\ UNCHANGED <<backend, call, restoring, old>>
    BY DEF WriteChunk
  <1>3. Clean
    <2>1. ~torn' => ~torn
      BY DEF WriteChunk
    <2> QED BY <1>1, <2>1 DEF Clean
  <1>4. Types /\ Shape /\ Works(c)
    BY <1>3 DEF Filed, Places, File
  <1>5. PICK d \in Datas : Fits(c, d)
    BY <1>2, <1>4 DEF Works
  <1>6. /\ Shape'
        /\ chunks[c] = 0 => entry'[<<>>] = Pieces(Text(d))[1]
        /\ Len(writes[c]) = Len(Pieces(Text(d))) - chunks[c]
        /\ Len(writes[c]) = 1 /\ ~torn' => Whole' = Text(d)
        /\ writes'[c] = Rest(Pieces(Text(d)), chunks[c] + 1)
    BY <1>4, <1>5, WriteSound
  <1>7. \A b \in Calls \ {c} : Works(b)' /\ stage'[b] \notin Dumps
    BY <1>2, <1>3, BystanderWorks DEF Filed
  <1>8. CASE /\ Len(writes[c]) > 1 /\ chunks' = [chunks EXCEPT ![c] = @ + 1]
             /\ UNCHANGED <<stage, torn, promised>>
    <2>1. chunks[c] \in Nat /\ chunks'[c] = chunks[c] + 1 /\ chunks'[c] # 0
      BY <1>4, <1>8, WalletAssumption DEF Types, TypeOK
    <2>2. ~Calm'
      BY <1>2, <1>8, <2>1 DEF Calm
    <2>3. (\A t : Pieces(t)' = Pieces(t))
      BY <1>2 DEF Pieces
    <2>4. chunks[c] + 1 < Len(Pieces(Text(d)))
      <3>1. Len(Pieces(Text(d))) \in Nat
        BY PieceCount, WalletAssumption
      <3>2. Len(Pieces(Text(d))) - chunks[c] > 1
        BY <1>6, <1>8
      <3> QED BY <2>1, <3>1, <3>2
    <2>5. Writes(c, d)'
      BY <1>6, <2>1, <2>3, <2>4 DEF Writes
    <2>6. Keeps(c, d)'
      BY <1>2, <1>5, <1>8 DEF Fits, Keeps, New, Name, Secret
    <2>7. chunks'[c] = 1 => entry'[<<>>] = Pieces(Text(d))'[1]
      <3>1. chunks'[c] = 1 => chunks[c] = 0
        BY <2>1
      <3> QED BY <1>6, <2>3, <3>1
    <2>8. Fits(c, d)'
      BY <2>5, <2>6, <2>7 DEF Fits
    <2>9. Works(c)'
      BY <1>2, <1>8, <2>8 DEF Works, Reader, Loads, Dumps
    <2> QED BY <1>6, <1>7, <2>2, <2>9 DEF File, Contents
  <1>9. CASE /\ Len(writes[c]) = 1 /\ chunks' = [chunks EXCEPT ![c] = 0]
             /\ stage' = [stage EXCEPT ![c] = AfterDump(c)]
             /\ promised' = IF stage[c] = "saveDump"
                            THEN promised \cup {[name |-> Name(c), secret |-> Secret(c)]}
                            ELSE {w \in promised : w.name # Name(c)}
    <2>1. Whole' = Text(d) /\ Parsed(Text(d)) = d
      BY <1>1, <1>6, <1>9, ParsedText DEF Clean
    <2>2. Sound' /\ Data' = d
      BY <2>1 DEF Sound, Data
    <2>3. promised' \subseteq Range(d)
      BY <1>2, <1>5, <1>9 DEF Fits, Keeps, New, Dumps
    <2>4. Contents'
      BY <2>2, <2>3 DEF Contents
    <2>5. stage'[c] \in {"account", "threw", "returned"} /\ chunks'[c] = 0
      BY <1>4, <1>9 DEF AfterDump, Types, TypeOK
    <2>6. Works(c)'
      BY <2>5 DEF Works, Reader, Loads, Dumps
    <2> QED BY <1>6, <1>7, <2>4, <2>6 DEF File
  <1> QED BY <1>8, <1>9 DEF WriteChunk

LEMMA StopFile ==
    ASSUME Filed, NEW c \in Calls, WriteFails(c) \/ Crash(c), Others(c), ~clash' => ~clash
    PROVE  File'
  <1>1. /\ promised' = promised /\ alone' = alone /\ entry' = entry
        /\ ~torn' => ~torn /\ (stage[c] \in Dumps => ~(chunks[c] > 0))
    BY DEF WriteFails, Crash, Fail
  <1>2. Works(c)'
    <2>1. CASE WriteFails(c)
      BY <2>1, FailWorks DEF WriteFails, Filed, Places
    <2>2. CASE Crash(c)
      <3>1. stage'[c] = "crashed" /\ chunks'[c] = 0 /\ text'[c] = <<>>
        BY <2>2 DEF Crash, Filed, Places, Types, TypeOK
      <3> QED BY <3>1, StartsWorks DEF Dumps
    <2> QED BY <2>1, <2>2
  <1>3. ASSUME Clean'  PROVE Calm' => Calm
    <2>1. chunks[c] \in Nat
      BY WalletAssumption DEF Filed, Places, Types, TypeOK
    <2>2. stage[c] \in Dumps => chunks[c] = 0
      BY <1>1, <1>3, <2>1 DEF Clean
    <2> QED BY <2>2, CalmBefore
  <1> QED BY <1>1, <1>2, <1>3, QuietFile DEF Clean

LEMMA InitFile ==
    ASSUME Init
    PROVE  File
  <1>1. SUFFICES ASSUME Clean PROVE File
    BY DEF File
  <1>2. Types
    BY InitTyped
  <1>3. \A c \in Calls : stage[c] = "idle"
    BY DEF Init
  <1>4. \A c \in Calls : Works(c)
    BY <1>3 DEF Works, Reader, Loads, Dumps
  <1>5. PICK d \in Datas :
          /\ torn = (Len(Pieces(Text(d))) > 2)
          /\ entry \in [Keys -> Seq(Token)]
          /\ d = <<>> => \A k \in Keys : entry[k] = <<>>
          /\ d # <<>> => /\ \A i \in 1..Len(Pieces(Text(d))) :
                              entry[WrittenKey(i - 1)] = Pieces(Text(d))[i]
                         /\ \A k \in Keys : (\A i \in 1..Len(Pieces(Text(d))) :
                              WrittenKey(i - 1) # k) => entry[k] = <<>>
    BY FirstFile
  <1> DEFINE p == Pieces(Text(d))
  <1>6. /\ Len(p) \in 1..(MaxChunks + 1) /\ ~(Len(p) > 2)
        /\ (Len(p) = 1 => p[1] = Text(d)) /\ (Len(p) = 2 => p[1] \o p[2] = Text(d))
        /\ (backend = "fs" => Len(p) = 1)
        /\ (\A i \in 1..Len(p) : p[i] \in Seq(Token) /\ p[i] # <<>>)
    <2>1. Text(d) \in Seq(Token) /\ Text(d) # <<>>
      BY TextShape DEF Datas
    <2> QED BY <1>1, <1>5, <2>1, PieceCount, PieceFacts DEF Clean
  <1>7. entry[<<>>] \in Seq(Token) /\ entry[<< 1 >>] \in Seq(Token)
    BY <1>2, WholeFacts
  <1>8. CASE d = <<>>
    <2>1. entry[<<>>] = <<>> /\ entry[<< 1 >>] = <<>>
      BY <1>5, <1>8, KeyFacts
    <2>2. Whole = <<>> /\ Shape
      BY <1>2, <2>1, WholeFacts DEF Shape
    <2> QED BY <1>4, <2>2 DEF File, Contents, Sound, Init
  <1>9. CASE d # <<>>
    <2> HIDE DEF p
    <2>1. Len(p) = 1 \/ Len(p) = 2
      <3>1. PICK m \in Nat : m = Len(p) /\ m >= 1
        BY <1>6, WalletAssumption
      <3>2. m <= 2
        BY <1>6, <3>1
      <3>3. m = 1 \/ m = 2
        BY <3>1, <3>2
      <3> QED BY <3>1, <3>3, Zenon
    <2>2. entry[<<>>] = p[1]
      <3>1. 1 \in 1..Len(p) /\ 1 - 1 = 0
        BY <2>1
      <3> QED BY <1>5, <1>9, <3>1, KeyFacts DEF p
    <2>3. Len(p) = 1 => entry[<< 1 >>] = <<>>
      <3>1. ASSUME Len(p) = 1  PROVE \A i \in 1..Len(p) : WrittenKey(i - 1) # << 1 >>
        <4>1. \A i \in 1..Len(p) : i - 1 = 0
          BY <3>1
        <4> QED BY <4>1, KeyFacts
      <3> QED BY <1>5, <1>9, <3>1, KeyFacts DEF p
    <2>4. Len(p) = 2 => entry[<< 1 >>] = p[2]
      <3>1. Len(p) = 2 => 2 \in 1..Len(p) /\ 2 - 1 = 1
        OBVIOUS
      <3> QED BY <1>5, <1>9, <3>1, KeyFacts DEF p
    <2>5. Whole = Text(d)
      <3>1. CASE Len(p) = 1
        BY <1>2, <1>6, <2>2, <2>3, <3>1, WholeFacts
      <3>2. CASE Len(p) = 2
        BY <1>6, <2>2, <2>4, <3>2 DEF Whole
      <3> QED BY <2>1, <3>1, <3>2
    <2>6. Shape
      <3>1. entry[<<>>] # <<>>
        BY <1>6, <2>1, <2>2
      <3> QED BY <1>6, <2>3, <3>1 DEF Shape
    <2> QED BY <1>4, <2>5, <2>6 DEF File, Contents, Sound, Init
  <1> QED BY <1>8, <1>9

LEMMA NextFile ==
    ASSUME Filed, Next
    PROVE  File'
  <1>1. PICK c \in Calls : Step(c)
    BY DEF Next
  <1>2. Others(c) /\ (~clash' => ~clash)
    BY <1>1, StepTypes, ClashTyped DEF Filed, Places
  <1> QED BY <1>1, <1>2, BeginFile, AccountFile, ReadFile, WriteFile, StopFile DEF Step

LEMMA StutterFile ==
    ASSUME Filed, UNCHANGED vars
    PROVE  File'
  <1>1. /\ Shape' = Shape /\ Contents' = Contents /\ Clean' = Clean
    BY DEF Shape, Contents, Clean, Calm, Sound, Data, Whole, vars
  <1>2. ASSUME Clean, NEW b \in Calls  PROVE Works(b)'
    BY <1>2, WorksSame DEF Filed, File, Same, vars
  <1> QED BY <1>1, <1>2 DEF Filed, File

LEMMA FiledKept == Spec => []Filed
  <1>1. File /\ Places /\ [Next]_vars => File'
    BY NextFile, StutterFile DEF Filed
  <1>2. Places /\ File => Filed
    BY DEF Filed
  <1> QED BY <1>1, <1>2, PlacesKept, InitFile, PTL DEF Spec

LEMMA Reads ==
    ASSUME Filed, Clean, Calm
    PROVE  WellFormed(Readable) /\ promised \subseteq Range(Parsed(Readable))
  <1>1. Types /\ Shape /\ Sound /\ promised \subseteq Range(Data)
    BY DEF Filed, Places, File, Contents
  <1>2. Readable = Whole
    BY <1>1, ReadableWhole
  <1> QED BY <1>1, <1>2, WholeFacts DEF Data

\* The file reads back whenever no call is amid a dump, unless a text took
\* more than two chunks, or fewer than the one before it, or two calls changed
\* the file at once, or a write stopped midway.
THEOREM FileReads == Spec => []ReadsBack
  <1>1. Filed => ReadsBack
    BY Reads DEF ReadsBack, Clean, Calm
  <1> QED BY <1>1, FiledKept, PTL

\* Under the same conditions a wallet whose import returned is in the file
\* with its secret until a call deletes or updates it.
THEOREM WalletsStay == Spec => []WalletsKept
  <1>1. Filed => WalletsKept
    BY Reads DEF WalletsKept, Clean, Calm
  <1> QED BY <1>1, FiledKept, PTL
-----------------------------------------------------------------------------
(***************************************************************************)
(* An update that has the file to itself.  It finds the wallet, has it     *)
(* with the secret that it keeps until the delete is written, and does not *)
(* have it from there to the end of an import; it imports the old secret   *)
(* only when something has failed.                                         *)
(***************************************************************************)
Holds(c) == Has(Data, Name(c)) /\ SecretOf(Data, Name(c)) = old[c]
Lacks(c) == ~Has(Data, Name(c))
Early(c) == /\ stage[c] \in {"idle", "exist", "secret"} => old[c] = NoSecret
            /\ c \in restoring => stage[c] \in Importing \cup {"returned", "threw", "crashed"}
Phase(c) ==
    Clean /\ c \in alone /\ Op(c) = "update" =>
      /\ stage[c] = "secret" => Has(Data, Name(c))
      /\ stage[c] \in {"deleteCheck", "deleteLoad"} => Holds(c)
      /\ stage[c] = "deleteDump" /\ chunks[c] = 0 => Holds(c)
      /\ stage[c] \in {"account", "saveCheck", "saveLoad"} => Lacks(c)
      /\ stage[c] = "saveDump" /\ chunks[c] = 0 => Lacks(c)
      /\ c \in restoring => failures[c] >= 1
Phased == Filed /\ \A c \in Calls : Early(c) /\ Phase(c)

\* The old secret is found once, and imported at the end.
LEMMA StepEarly ==
    ASSUME Types, NEW c \in Calls, Step(c), Early(c)
    PROVE  Early(c)'
  <1>1. c \in DOMAIN stage /\ c \in DOMAIN old
    BY DEF Types, TypeOK
  <1>2. ASSUME Fail(c), stage[c] \notin Settled  PROVE Early(c)'
    BY <1>1, <1>2 DEF Fail, Restores, Early, Importing, Settled
  <1>3. CASE Begin(c)
    BY <1>1, <1>3 DEF Begin, Early, Importing
  <1>4. CASE Account(c)
    <2>1. stage[c] = "account"
      BY <1>4 DEF Account
    <2>2. CASE /\ stage' = [stage EXCEPT ![c] = "saveCheck"]
               /\ UNCHANGED <<backend, entry, call, restoring, old, text, chunks, writes, ghosts>>
      BY <1>1, <2>2 DEF Early, Importing
    <2> QED BY <1>2, <1>4, <2>1, <2>2 DEF Account, Settled
  <1>5. CASE ReadChunk(c)
    <2>1. stage[c] \in Loads
      BY <1>5 DEF ReadChunk
    <2>2. ASSUME NEW d, Loaded(c, d)  PROVE Early(c)'
      <3>1. CASE Fail(c)
        BY <1>2, <2>1, <3>1 DEF Loads, Settled
      <3> QED BY <1>1, <2>2, <3>1 DEF Loaded, Early, Importing
    <2>3. CASE UNCHANGED <<backend, entry, call, stage, restoring, old, writes>>
      BY <2>3 DEF Early
    <2> QED BY <1>2, <1>5, <2>1, <2>2, <2>3 DEF ReadChunk, Loads, Settled
  <1>6. CASE WriteChunk(c)
    <2>1. UNCHANGED <<restoring, old>> /\ stage[c] \in Dumps
      BY <1>6 DEF WriteChunk
    <2>2. stage' = stage \/ stage'[c] \in {"account", "threw", "returned"}
      BY <1>1, <1>6 DEF WriteChunk, AfterDump
    <2> QED BY <2>1, <2>2 DEF Early, Importing, Dumps
  <1>7. CASE WriteFails(c)
    BY <1>2, <1>7 DEF WriteFails, Dumps, Settled
  <1>8. CASE Crash(c)
    BY <1>1, <1>8 DEF Crash, Early, Importing
  <1> QED BY <1>3, <1>4, <1>5, <1>6, <1>7, <1>8 DEF Step

\* While another call moves, one that has had the file to itself is at rest.
LEMMA OtherPhase ==
    ASSUME Phased, NEW c \in Calls, Step(c), Others(c), Clean' => Clean, NEW b \in Calls \ {c}
    PROVE  Early(b)' /\ Phase(b)' /\ Restored(b)
  <1>1. Same(b) /\ (b \in restoring' <=> b \in restoring) /\ Early(b) /\ Phase(b)
    BY DEF Others, Phased
  <1>2. Early(b)' /\ Op(b)' = Op(b)
    BY <1>1 DEF Early, Same, Op
  <1>3. b \in alone' => b \in alone /\ stage[b] \in Settled
    <2>1. CASE Begin(c)
      BY <2>1, BeginAlone
    <2>2. CASE ~Begin(c)
      BY <2>2, ActiveSteps DEF Phased, Filed, Places, Lone
    <2> QED BY <2>1, <2>2
  <1>4. Phase(b)'
    <2>1. ASSUME Clean', b \in alone', Op(b)' = "update"
          PROVE  stage'[b] \in Settled /\ (b \in restoring' => failures'[b] >= 1)
      BY <1>1, <1>2, <1>3, <2>1 DEF Phase, Same
    <2> QED BY <2>1 DEF Phase, Settled
  <1>5. Restored(b)
    BY <1>3 DEF Restored
  <1> QED BY <1>2, <1>4, <1>5

\* What was left on the chain does not go away.
LEMMA TornStays ==
    ASSUME NEW c \in Calls, Step(c)
    PROVE  ~torn' => ~torn
  BY DEF Step, Begin, Account, ReadChunk, WriteChunk, WriteFails, Crash, ghosts

LEMMA ReadableAfter == (Types /\ Shape => Readable = Whole)'
  <1>1. Types /\ Shape => Readable = Whole
    BY ReadableWhole
  <1> QED BY <1>1, PTL

\* Only an update that has the file to itself is spoken of.
LEMMA NotSpoken ==
    ASSUME NEW c \in Calls, ~(Clean' /\ c \in alone' /\ Op(c)' = "update"), call' = call
    PROVE  Phase(c)' /\ Restored(c)
  <1>1. Op(c)' = Op(c)
    BY DEF Op
  <1>2. Phase(c)'
    BY DEF Phase
  <1>3. Restored(c)
    BY <1>1 DEF Restored, Clean
  <1> QED BY <1>2, <1>3

\* An import that fails has lost the wallet, and has failed before if it throws.
LEMMA FailPhase ==
    ASSUME Phased, NEW c \in Calls, Fail(c), Clean, c \in alone, Op(c) = "update",
           failures' = [failures EXCEPT ![c] = @ + 1], stage[c] \in Importing, Lacks(c)
    PROVE  Phase(c)' /\ Restored(c)
  <1>1. Types /\ Phase(c)
    BY DEF Phased, Filed, Places
  <1>2. failures \in [Calls -> 0..2] /\ c \in DOMAIN stage
    BY <1>1 DEF Types, TypeOK
  <1>3. failures[c] \in 0..2 /\ failures'[c] = failures[c] + 1
    BY <1>2
  <1>4. Data' = Data /\ Name(c)' = Name(c)
    BY DEF Fail, Data, Whole, Name
  <1>5. Lacks(c)' /\ stage'[c] \in {"account", "threw"}
    BY <1>2, <1>4 DEF Fail, Lacks
  <1>6. Phase(c)'
    BY <1>3, <1>5 DEF Phase
  <1>7. stage'[c] = "threw" => c \in restoring
    BY <1>2 DEF Fail, Restores
  <1>8. stage'[c] = "threw" => ~(failures'[c] <= 1)
    <2>1. c \in restoring => failures[c] >= 1
      BY <1>1 DEF Phase
    <2> QED BY <1>3, <1>7, <2>1
  <1>9. Restored(c)
    BY <1>5, <1>8 DEF Restored
  <1> QED BY <1>6, <1>9

LEMMA BeginPhase ==
    ASSUME Phased, NEW c \in Calls, Begin(c)
    PROVE  Phase(c)' /\ Restored(c)
  <1>1. Types /\ Early(c)
    BY DEF Phased, Filed, Places
  <1>2. stage[c] = "idle" /\ restoring' = restoring
    BY DEF Begin
  <1>3. c \notin restoring'
    BY <1>1, <1>2 DEF Early, Importing
  <1>4. Op(c)' = "update" => stage'[c] = "exist"
    BY <1>1 DEF Begin, Op, Types, TypeOK
  <1>5. Phase(c)'
    BY <1>3, <1>4 DEF Phase
  <1>6. Restored(c)
    BY <1>2 DEF Restored, Settled
  <1> QED BY <1>5, <1>6

LEMMA AccountPhase ==
    ASSUME Phased, NEW c \in Calls, Account(c), Clean' => Clean
    PROVE  Phase(c)' /\ Restored(c)
  <1>1. Types /\ Phase(c) /\ stage[c] = "account" /\ alone' = alone /\ call' = call
    BY DEF Phased, Filed, Places, Account, Fail, ghosts
  <1>2. CASE ~(Clean' /\ c \in alone' /\ Op(c)' = "update")
    BY <1>1, <1>2, NotSpoken
  <1>3. CASE Clean' /\ c \in alone' /\ Op(c)' = "update"
    <2>1. Clean /\ c \in alone /\ Op(c) = "update" /\ Lacks(c)
      <3>1. Clean /\ c \in alone /\ Op(c) = "update"
        BY <1>1, <1>3 DEF Op
      <3> QED BY <1>1, <3>1 DEF Phase
    <2>2. CASE Fail(c) /\ failures' = [failures EXCEPT ![c] = @ + 1]
      BY <1>1, <2>1, <2>2, FailPhase DEF Importing
    <2>3. CASE /\ stage' = [stage EXCEPT ![c] = "saveCheck"]
               /\ UNCHANGED <<backend, entry, call, restoring, old, text, chunks, writes, ghosts>>
      <3>1. stage'[c] = "saveCheck"
        BY <1>1, <2>3 DEF Types, TypeOK
      <3>2. Lacks(c)' /\ failures' = failures /\ restoring' = restoring
        BY <2>1, <2>3 DEF Lacks, Data, Whole, Name, ghosts
      <3>3. Phase(c)'
        BY <1>1, <2>1, <3>1, <3>2 DEF Phase
      <3> QED BY <3>1, <3>3 DEF Restored
    <2> QED BY <2>2, <2>3 DEF Account
  <1> QED BY <1>2, <1>3

\* What an update finds: the wallet, then its secret, and later no wallet.
LEMMA LoadedPhase ==
    ASSUME Phased, NEW c \in Calls, Clean, c \in alone, Op(c) = "update", stage[c] \in Loads,
           Data \in Datas, Loaded(c, Data), UNCHANGED ghosts
    PROVE  Phase(c)' /\ Restored(c)
  <1>1. Types /\ Phase(c) /\ Early(c)
    BY DEF Phased, Filed, Places
  <1>2. c \in DOMAIN stage /\ c \in DOMAIN old /\ c \in DOMAIN chunks
    BY <1>1 DEF Types, TypeOK
  <1>3. /\ Data' = Data /\ Name(c)' = Name(c) /\ failures' = failures
        /\ (stage[c] \in {"exist", "secret"} => c \notin restoring /\ old[c] = NoSecret)
    <2>1. entry' = entry /\ call' = call
      BY DEF Loaded, Fail
    <2>2. "exist" \notin Importing /\ "secret" \notin Importing
      BY DEF Importing
    <2> QED BY <1>1, <2>1, <2>2 DEF Data, Whole, Name, Early, ghosts
  <1>4. c \in restoring => failures[c] >= 1
    BY <1>1 DEF Phase
  <1>5. ASSUME NEW s \in {"secret", "deleteCheck", "deleteLoad", "deleteDump", "saveLoad", "saveDump"},
               stage' = [stage EXCEPT ![c] = s], restoring' = restoring,
               s = "secret" => Has(Data, Name(c)),
               s \in {"deleteCheck", "deleteLoad", "deleteDump"} => Holds(c)',
               s \in {"saveLoad", "saveDump"} => Lacks(c)
        PROVE  Phase(c)' /\ Restored(c)
    <2>1. stage'[c] = s
      BY <1>2, <1>5
    <2>2. Lacks(c)' = Lacks(c)
      BY <1>3 DEF Lacks
    <2>3. Phase(c)'
      BY <1>3, <1>4, <1>5, <2>1, <2>2 DEF Phase
    <2> QED BY <1>5, <2>1, <2>3 DEF Restored
  <1>6. Holds(c)' <=> Has(Data, Name(c)) /\ SecretOf(Data, Name(c)) = old'[c]
    BY <1>3 DEF Holds
  <1>7. CASE /\ stage[c] = "exist" /\ Has(Data, Name(c)) /\ restoring' = restoring
             /\ stage' = [stage EXCEPT ![c] = "secret"]
    BY <1>5, <1>7
  <1>8. CASE /\ stage[c] = "secret" /\ restoring' = restoring
             /\ stage' = [stage EXCEPT ![c] = "deleteCheck"]
             /\ old' = [old EXCEPT ![c] = IF Has(Data, Name(c)) THEN SecretOf(Data, Name(c))
                                          ELSE NoSecret]
    <2>1. Has(Data, Name(c))
      BY <1>1, <1>8 DEF Phase
    <2>2. Holds(c)'
      BY <1>2, <1>6, <1>8, <2>1
    <2> QED BY <1>5, <1>8, <2>2
  <1>9. CASE /\ stage[c] \in {"deleteCheck", "deleteLoad"} /\ restoring' = restoring /\ old' = old
             /\ \/ stage' = [stage EXCEPT ![c] = "deleteLoad"]
                \/ stage' = [stage EXCEPT ![c] = "deleteDump"]
    <2>1. Holds(c)
      BY <1>1, <1>9 DEF Phase
    <2>2. Holds(c)'
      BY <1>6, <1>9, <2>1 DEF Holds
    <2> QED BY <1>5, <1>9, <2>2
  <1>10. CASE /\ stage[c] \in {"saveCheck", "saveLoad"} /\ restoring' = restoring
              /\ \/ stage' = [stage EXCEPT ![c] = "saveLoad"]
                 \/ stage' = [stage EXCEPT ![c] = "saveDump"]
    <2>1. Lacks(c)
      BY <1>1, <1>10 DEF Phase
    <2> QED BY <1>5, <1>10, <2>1
  <1>11. CASE stage[c] = "exist" /\ Fail(c)
    <2>1. stage'[c] = "threw" /\ restoring' = restoring /\ old' = old
      BY <1>2, <1>11 DEF Fail, Restores, Importing
    <2>2. Phase(c)'
      BY <1>3, <1>11, <2>1 DEF Phase
    <2>3. Restored(c)
      BY <1>3, <1>11 DEF Restored
    <2> QED BY <2>2, <2>3
  <1>12. ~(stage[c] = "deleteCheck" /\ ~Has(Data, Name(c)))
    BY <1>1 DEF Phase, Holds
  <1>13. ~(stage[c] = "saveCheck" /\ Has(Data, Name(c)))
    BY <1>1 DEF Phase, Lacks
  <1> QED BY <1>7, <1>8, <1>9, <1>10, <1>11, <1>12, <1>13 DEF Loaded, Taken

LEMMA ReadPhase ==
    ASSUME Phased, NEW c \in Calls, ReadChunk(c), Clean' => Clean
    PROVE  Phase(c)' /\ Restored(c)
  <1>1. Types /\ Filed /\ Phase(c) /\ stage[c] \in Loads /\ UNCHANGED ghosts /\ call' = call
    BY DEF Phased, Filed, Places, ReadChunk, Loaded, Fail
  <1>2. CASE ~(Clean' /\ c \in alone' /\ Op(c)' = "update")
    BY <1>1, <1>2, NotSpoken
  <1>3. CASE Clean' /\ c \in alone' /\ Op(c)' = "update"
    <2>1. Clean /\ c \in alone /\ Op(c) = "update"
      BY <1>1, <1>3 DEF Op, ghosts
    <2>2. Reader(c)
      BY <1>1, <2>1 DEF Reader
    <2>3. CASE UNCHANGED <<backend, entry, call, stage, restoring, old, writes>>
      <3>1. Data' = Data /\ Name(c)' = Name(c) /\ failures' = failures
        BY <1>1, <2>3 DEF Data, Whole, Name, ghosts
      <3>2. Phase(c)'
        BY <1>1, <2>1, <2>3, <3>1 DEF Phase, Holds, Lacks, Loads
      <3> QED BY <1>1, <2>3, <3>2 DEF Restored, Loads
    <2>4. CASE ~UNCHANGED <<backend, entry, call, stage, restoring, old, writes>>
      <3>1. backend = "fs" \/ At(ReadKey(chunks[c])) = <<>>
        BY <2>4 DEF ReadChunk
      <3>2. /\ text[c] \o At(ReadKey(chunks[c])) = Whole
            /\ WellFormed(Whole) /\ Data \in Datas
        BY <1>1, <2>1, <2>2, <3>1, ReaderWhole
      <3>3. Loaded(c, Data)
        BY <2>4, <3>2 DEF ReadChunk, Data
      <3> QED BY <1>1, <2>1, <3>2, <3>3, LoadedPhase
    <2> QED BY <2>3, <2>4
  <1> QED BY <1>2, <1>3

\* A dump of an update that is done: the wallet is gone, or there again.
LEMMA WritePhase ==
    ASSUME Phased, NEW c \in Calls, WriteChunk(c), Clean' => Clean, Types', File'
    PROVE  Phase(c)' /\ Restored(c)
  <1>1. /\ Types /\ Filed /\ Phase(c) /\ Early(c) /\ stage[c] \in Dumps
        /\ UNCHANGED <<call, restoring, old, failures, alone>>
    BY DEF Phased, Filed, Places, WriteChunk
  <1>2. CASE ~(Clean' /\ c \in alone' /\ Op(c)' = "update")
    BY <1>1, <1>2, NotSpoken
  <1>3. CASE Clean' /\ c \in alone' /\ Op(c)' = "update"
    <2>1. /\ Clean /\ c \in alone /\ Op(c) = "update"
          /\ Name(c)' = Name(c) /\ Secret(c)' = Secret(c)
      BY <1>1, <1>3 DEF Op, Name, Secret
    <2>2. /\ c \in DOMAIN stage /\ c \in DOMAIN chunks /\ chunks[c] \in 0..(MaxChunks + 1)
          /\ (c \in restoring => failures[c] >= 1)
      <3>1. c \in restoring => failures[c] >= 1
        BY <1>1, <2>1 DEF Phase
      <3> QED BY <1>1, <3>1 DEF Types, TypeOK
    <2>3. Shape /\ (\E d \in Datas : Fits(c, d)) /\ Shape'
      BY <1>1, <1>3, <2>1 DEF Filed, File, Works
    <2>4. CASE Len(writes[c]) > 1
      <3>1. stage' = stage /\ chunks'[c] = chunks[c] + 1
        <4>1. Len(writes[c]) = 1 => ~(Len(writes[c]) > 1)
          OBVIOUS
        <4> QED BY <2>2, <2>4, <4>1 DEF WriteChunk
      <3>2. chunks'[c] # 0
        BY <2>2, <3>1, WalletAssumption
      <3>3. Phase(c)'
        BY <1>1, <2>2, <3>1, <3>2 DEF Phase, Dumps
      <3> QED BY <1>1, <3>1, <3>3 DEF Restored, Dumps, Settled
    <2>5. CASE ~(Len(writes[c]) > 1)
      <3>1. Len(writes[c]) = 1 /\ stage' = [stage EXCEPT ![c] = AfterDump(c)]
        BY <2>5 DEF WriteChunk
      <3>2. PICK d \in Datas : Fits(c, d)
        BY <2>3
      <3>3. Whole' = Text(d)
        BY <1>1, <1>3, <2>3, <3>1, <3>2, WriteSound DEF Clean
      <3>4. Data' = d
        BY <3>2, <3>3, ParsedText DEF Data
      <3>5. Parsed(Readable)' = d
        BY <2>3, <3>4, ReadableAfter DEF Data
      <3>6. CASE stage[c] = "deleteDump"
        <4>1. stage'[c] = "account"
          BY <2>1, <2>2, <3>1, <3>6 DEF AfterDump
        <4>2. Lacks(c)'
          BY <2>1, <3>2, <3>4, <3>6 DEF Lacks, Fits, Keeps
        <4>3. Phase(c)'
          BY <1>1, <2>2, <4>1, <4>2 DEF Phase
        <4> QED BY <4>1, <4>3 DEF Restored
      <3>7. CASE stage[c] = "saveDump"
        <4>1. stage'[c] = IF c \in restoring THEN "threw" ELSE "returned"
          BY <2>2, <3>1, <3>7 DEF AfterDump
        <4>2. New(c) \in Range(d)
          BY <3>2, <3>7 DEF Fits, Keeps
        <4>3. New(c).name = Name(c) /\ New(c).secret = Secret(c)
          BY DEF New
        <4>4. Has(d, Name(c)) /\ SecretOf(d, Name(c)) = Secret(c)
          BY <4>2, <4>3, Kept
        <4>5. Phase(c)'
          BY <1>1, <2>2, <4>1 DEF Phase
        <4>6. Secret(c) = IF stage'[c] = "returned" THEN call[c].secret ELSE old[c]
          BY <4>1 DEF Secret
        <4>7. Restored(c)
          BY <3>5, <4>4, <4>6, <2>1 DEF Restored
        <4> QED BY <4>5, <4>7
      <3> QED BY <1>1, <3>6, <3>7 DEF Dumps
    <2> QED BY <2>4, <2>5
  <1> QED BY <1>2, <1>3

LEMMA StopPhase ==
    ASSUME Phased, NEW c \in Calls, WriteFails(c) \/ Crash(c), Clean' => Clean, Types', File'
    PROVE  Phase(c)' /\ Restored(c)
  <1>1. /\ Types /\ Filed /\ Phase(c) /\ Early(c)
        /\ UNCHANGED <<call, old, alone, entry>>
    BY DEF Phased, Filed, Places, WriteFails, Crash, Fail
  <1>2. CASE ~(Clean' /\ c \in alone' /\ Op(c)' = "update")
    BY <1>1, <1>2, NotSpoken
  <1>3. CASE Clean' /\ c \in alone' /\ Op(c)' = "update"
    <2>1. /\ Clean /\ c \in alone /\ Op(c) = "update" /\ Shape'
          /\ Data' = Data /\ Name(c)' = Name(c)
      BY <1>1, <1>3 DEF Op, Name, Data, Whole, File
    <2>2. c \in DOMAIN stage /\ chunks[c] \in 0..(MaxChunks + 1) /\ failures \in [Calls -> 0..2]
      BY <1>1 DEF Types, TypeOK
    <2>3. CASE Crash(c)
      <3>1. stage'[c] = "crashed" /\ UNCHANGED <<restoring, failures>>
        BY <2>2, <2>3 DEF Crash
      <3>2. Phase(c)'
        BY <1>1, <2>1, <3>1 DEF Phase
      <3> QED BY <3>1, <3>2 DEF Restored
    <2>4. CASE WriteFails(c)
      <3>1. /\ stage[c] \in Dumps /\ Fail(c)
            /\ failures' = [failures EXCEPT ![c] = @ + 1] /\ ~(chunks[c] > 0)
        BY <1>3, <2>4 DEF WriteFails, Clean
      <3>2. chunks[c] = 0
        BY <2>2, <3>1, WalletAssumption
      <3>3. CASE stage[c] = "saveDump"
        <4>1. Lacks(c)
          BY <1>1, <2>1, <3>2, <3>3 DEF Phase
        <4> QED BY <2>1, <3>1, <3>3, <4>1, FailPhase DEF Importing
      <3>4. CASE stage[c] = "deleteDump"
        <4>1. Holds(c)
          BY <1>1, <2>1, <3>2, <3>4 DEF Phase
        <4>2. stage'[c] = "threw" /\ restoring' = restoring
          BY <2>2, <3>1, <3>4 DEF Fail, Restores, Importing
        <4>3. c \notin restoring
          BY <1>1, <3>4 DEF Early, Importing
        <4>4. Phase(c)'
          BY <4>2, <4>3 DEF Phase
        <4>5. Parsed(Readable)' = Data
          BY <2>1, ReadableAfter DEF Data
        <4>6. Restored(c)
          BY <2>1, <4>1, <4>2, <4>5 DEF Restored, Holds
        <4> QED BY <4>4, <4>6
      <3> QED BY <3>1, <3>3, <3>4 DEF Dumps
    <2> QED BY <2>3, <2>4
  <1> QED BY <1>2, <1>3

LEMMA InitPhase ==
    ASSUME Init
    PROVE  \A c \in Calls : Early(c) /\ Phase(c)
  BY DEF Init, Early, Phase

LEMMA NextPhase ==
    ASSUME Phased, Next, Filed'
    PROVE  \A b \in Calls : Early(b)' /\ Phase(b)' /\ Restored(b)
  <1>1. PICK c \in Calls : Step(c)
    BY DEF Next
  <1>2. Others(c) /\ (Clean' => Clean)
    BY <1>1, StepTypes, ClashTyped, TornStays DEF Phased, Filed, Places, Clean
  <1>3. Types' /\ File'
    BY DEF Filed, Places
  <1>4. Early(c)'
    BY <1>1, StepEarly DEF Phased, Filed, Places
  <1>5. Phase(c)' /\ Restored(c)
    BY <1>1, <1>2, <1>3, BeginPhase, AccountPhase, ReadPhase, WritePhase, StopPhase DEF Step
  <1> QED BY <1>1, <1>2, <1>4, <1>5, OtherPhase

LEMMA StutterPhase ==
    ASSUME Phased, UNCHANGED vars
    PROVE  \A c \in Calls : Early(c)' /\ Phase(c)'
  BY DEF Phased, Early, Phase, Clean, Op, Holds, Lacks, Data, Whole, Name, Importing, vars

\* An update that has the file to itself leaves the wallet with the new secret
\* if it returns, and with the old one if it throws after at most one failure.
THEOREM UpdatesRestore == Spec => UpdateRestores
  <1> DEFINE P == \A c \in Calls : Early(c) /\ Phase(c)
             R == \A c \in Calls : Restored(c)
  <1>1. Init => P
    BY InitPhase
  <1>2. Filed /\ Filed' /\ P /\ [Next]_vars => P'
    BY NextPhase, StutterPhase DEF Phased
  <1>3. Filed /\ Filed' /\ P /\ [Next]_vars => [R]_vars
    BY NextPhase DEF Phased
  <1>4. UpdateRestores <=> [][R]_vars
    BY DEF UpdateRestores
  <1> HIDE DEF P, R
  <1> QED BY <1>1, <1>2, <1>3, <1>4, FiledKept, PTL DEF Spec
=============================================================================
