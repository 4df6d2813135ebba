----------------------- MODULE DeploymentMergeProofs -----------------------
(***************************************************************************)
(* That merging loses nothing, doubles nothing and tells the nodes by the  *)
(* versions what has changed, proved of DeploymentMerge for any nodes,     *)
(* workloads and length of a batch.                                        *)
(*                                                                         *)
(* First the operators: Only and Ascending by the one increasing function  *)
(* onto a finite set of numbers, FlattenSeq by the sequence of its partial *)
(* results, both found with a least counterexample.  Then UpdateDeployment,*)
(* _updateToLatest, deployMerge and merge, each by what it returns for a   *)
(* batch of valid requests (Asked).  The invariant is that deployments are *)
(* sound and batches are asked for; the properties follow from it.         *)
(***************************************************************************)
EXTENDS DeploymentMerge, FiniteSetTheorems, SequenceTheorems, WellFoundedInduction, TLAPS

\* A set of numbers that is not empty has a least one.
LEMMA LeastNumber ==
    ASSUME NEW T \in SUBSET Nat, T # {}
    PROVE  \E k \in T : \A j \in T : k <= j
<1> DEFINE Less == {p \in Nat \X Nat : p[1] < p[2]}
<1>1. IsWellFoundedOn(Less, Nat)
    BY NatLessThanWellFounded DEF OpToRel
<1> HIDE DEF Less
<1>2. PICK k \in T : \A j \in T : ~ (<<j, k>> \in Less)
    BY <1>1, WFMin
<1>3. ASSUME NEW j \in T  PROVE k <= j
  <2>1. j \in Nat /\ k \in Nat
      OBVIOUS
  <2>2. <<j, k>> \in Nat \X Nat /\ <<j, k>>[1] = j /\ <<j, k>>[2] = k
      BY <2>1
  <2>3. j < k => <<j, k>> \in Less
      BY <2>2 DEF Less
  <2> QED BY <1>2, <2>1, <2>3
<1> QED BY <1>3

\* From 0 to n by steps of one.
LEMMA Upwards ==
    ASSUME NEW n \in Nat, NEW P, 0 \in P, \A i \in 1..n : i - 1 \in P => i \in P
    PROVE  \A i \in 0..n : i \in P
<1> DEFINE Bad == {i \in 0..n : i \notin P}
<1>1. ASSUME Bad # {}  PROVE FALSE
  <2>1. Bad \in SUBSET Nat
      OBVIOUS
  <2>2. PICK i \in Bad : \A j \in Bad : i <= j
      BY <1>1, <2>1, LeastNumber
  <2>3. i \in 1..n /\ i - 1 \in 0..n /\ i - 1 \notin Bad
      BY <2>2
  <2> QED BY <2>2, <2>3
<1> QED BY <1>1
-----------------------------------------------------------------------------
(***************************************************************************)
(* Ascending and Only: the elements of a sequence at some positions, in    *)
(* their order.                                                            *)
(***************************************************************************)
\* f counts S through in order, in n steps.
Counts(f, n, S) ==
    /\ f \in [1..n -> S]
    /\ \A i, j \in 1..n : i < j => f[i] < f[j]
    /\ \A x \in S : \E k \in 1..n : f[k] = x

\* In order means different.
LEMMA OrderedInjective ==
    ASSUME NEW n \in Nat, NEW S \in SUBSET Nat, NEW f \in [1..n -> S],
           \A i, j \in 1..n : i < j => f[i] < f[j]
    PROVE  f \in Injection(1..n, S)
<1>1. ASSUME NEW i \in 1..n, NEW j \in 1..n, f[i] = f[j]  PROVE i = j
  <2>1. f[i] \in Nat /\ f[j] \in Nat
      OBVIOUS
  <2>2. ~(i < j) /\ ~(j < i)
      BY <1>1, <2>1
  <2> QED BY <2>2
<1> QED BY <1>1 DEF Injection, IsInjective

\* Any finite set of numbers can be counted through.
LEMMA CountExists ==
    ASSUME NEW S \in SUBSET Nat, IsFiniteSet(S)
    PROVE  \E f \in [1..Cardinality(S) -> S] :
             \A i, j \in 1..Cardinality(S) : i < j => f[i] < f[j]
<1> DEFINE Ordered(T) == \E f \in [1..Cardinality(T) -> T] :
                            \A i, j \in 1..Cardinality(T) : i < j => f[i] < f[j]
           Bad == {n \in Nat : \E T \in SUBSET Nat :
                      IsFiniteSet(T) /\ Cardinality(T) = n /\ ~Ordered(T)}
<1>1. Cardinality(S) \in Nat
    BY FS_CardinalityType
<1>2. SUFFICES ASSUME Bad # {} PROVE FALSE
    BY <1>1
<1>3. PICK n \in Bad : \A j \in Bad : n <= j
    BY <1>2, LeastNumber
<1>4. PICK T \in SUBSET Nat : IsFiniteSet(T) /\ Cardinality(T) = n /\ ~Ordered(T)
    OBVIOUS
<1>5. T # {}
  <2>1. ASSUME T = {}  PROVE FALSE
    <3>1. Cardinality(T) = 0
        BY <2>1, FS_EmptySet
    <3>2. [k \in 1..0 |-> 0] \in [1..0 -> T]
        OBVIOUS
    <3>3. Ordered(T)
        BY <2>1, <3>1, <3>2
    <3> QED BY <1>4, <3>3
  <2> QED BY <2>1
<1>6. PICK m \in T : \A x \in T : m <= x
    BY <1>5, LeastNumber
<1> DEFINE R == T \ {m}
<1>7. IsFiniteSet(R) /\ Cardinality(R) = n - 1
    BY <1>4, FS_RemoveElement
<1>8. n \in Nat /\ Cardinality(R) \in Nat
    BY <1>7, FS_CardinalityType
<1>9. n - 1 \in Nat /\ n - 1 \notin Bad /\ R \in SUBSET Nat
    BY <1>3, <1>7, <1>8
<1>10. Ordered(R)
    BY <1>7, <1>9
<1>11. PICK g \in [1..(n - 1) -> R] : \A i, j \in 1..(n - 1) : i < j => g[i] < g[j]
    BY <1>7, <1>10
<1> DEFINE f == [k \in 1..n |-> IF k = 1 THEN m ELSE g[k - 1]]
<1>12. f \in [1..n -> T]
    BY <1>8, <1>9, <1>11
<1>13. ASSUME NEW i \in 1..n, NEW j \in 1..n, i < j  PROVE f[i] < f[j]
  <2>1. j - 1 \in 1..(n - 1) /\ f[j] = g[j - 1] /\ g[j - 1] \in R
      BY <1>8, <1>9, <1>11, <1>13
  <2>2. m \in Nat /\ g[j - 1] \in Nat /\ m <= g[j - 1] /\ m # g[j - 1]
      BY <1>6, <2>1
  <2>3. CASE i = 1
      BY <2>1, <2>2, <2>3
  <2>4. CASE i # 1
    <3>1. i - 1 \in 1..(n - 1) /\ f[i] = g[i - 1] /\ i - 1 < j - 1
        BY <1>8, <1>13, <2>4
    <3> QED BY <1>11, <2>1, <3>1
  <2> QED BY <2>3, <2>4
<1>14. Ordered(T)
    BY <1>4, <1>12, <1>13
<1> QED BY <1>4, <1>14

\* Ascending lists the numbers of a finite set in order.
LEMMA AscendingCounts ==
    ASSUME NEW S \in SUBSET Nat, IsFiniteSet(S)
    PROVE  Cardinality(S) \in Nat /\ Counts(Ascending(S), Cardinality(S), S)
<1> DEFINE n == Cardinality(S)
           f == Ascending(S)
<1>1. n \in Nat
    BY FS_CardinalityType
<1>2. \E h \in [1..n -> S] : \A i, j \in DOMAIN h : i < j => h[i] < h[j]
    BY CountExists
<1>3. f \in [1..n -> S] /\ \A i, j \in DOMAIN f : i < j => f[i] < f[j]
    BY <1>2 DEF Ascending
<1> HIDE DEF f
<1>4. f \in Injection(1..n, S)
    BY <1>1, <1>3, OrderedInjective
<1>5. Cardinality(1..n) = n
    BY <1>1, FS_Interval
<1>6. f \in Surjection(1..n, S)
    BY <1>4, <1>5, FS_Injection
<1>7. Counts(f, n, S)
    BY <1>3, <1>6 DEF Counts, Surjection
<1> QED BY <1>1, <1>7 DEF f

\* There is one way to do it.
LEMMA CountUnique ==
    ASSUME NEW n \in Nat, NEW S \in SUBSET Nat, NEW g, Counts(g, n, S)
    PROVE  IsFiniteSet(S) /\ Cardinality(S) = n /\ Ascending(S) = g
<1>1. g \in [1..n -> S] /\ g \in Injection(1..n, S) /\ g \in Surjection(1..n, S)
    BY OrderedInjective DEF Counts, Surjection
<1>2. IsFiniteSet(1..n) /\ Cardinality(1..n) = n
    BY FS_Interval
<1>3. IsFiniteSet(S) /\ Cardinality(S) = n
    BY <1>1, <1>2, FS_Bijection DEF Bijection, ExistsBijection
<1> DEFINE f == Ascending(S)
<1>4. Counts(f, n, S)
  <2>1. Counts(Ascending(S), Cardinality(S), S)
      BY <1>3, AscendingCounts
  <2> QED BY <1>3, <2>1
<1> HIDE DEF f
<1>5. /\ \A i \in 1..n : f[i] \in S /\ f[i] \in Nat /\ g[i] \in S /\ g[i] \in Nat
      /\ \A i, j \in 1..n : i < j => f[i] < f[j] /\ g[i] < g[j]
      /\ \A x \in S : (\E j \in 1..n : f[j] = x) /\ (\E j \in 1..n : g[j] = x)
    BY <1>4 DEF Counts
<1> DEFINE Bad == {k \in 1..n : f[k] # g[k]}
<1>6. ASSUME Bad # {}  PROVE FALSE
  <2>1. Bad \in SUBSET Nat
      OBVIOUS
  <2>2. PICK k \in Bad : \A j \in Bad : k <= j
      BY <1>6, <2>1, LeastNumber
  <2>3. k \in 1..n /\ f[k] # g[k]
      OBVIOUS
  <2>4. \A j \in 1..n : j < k => f[j] = g[j]
      BY <2>2
  <2>5. ASSUME f[k] < g[k]  PROVE FALSE
    <3>1. PICK j \in 1..n : g[j] = f[k]
        BY <1>5, <2>3
    <3>2. j # k
        BY <2>3, <3>1
    <3>3. CASE j < k
        BY <1>5, <2>3, <2>4, <3>1, <3>3
    <3>4. CASE k < j
        BY <1>5, <2>3, <2>5, <3>1, <3>4
    <3> QED BY <2>3, <3>2, <3>3, <3>4
  <2>6. ASSUME g[k] < f[k]  PROVE FALSE
    <3>1. PICK j \in 1..n : f[j] = g[k]
        BY <1>5, <2>3
    <3>2. j # k
        BY <2>3, <3>1
    <3>3. CASE j < k
        BY <1>5, <2>3, <2>4, <3>1, <3>3
    <3>4. CASE k < j
        BY <1>5, <2>3, <2>6, <3>1, <3>4
    <3> QED BY <2>3, <3>2, <3>3, <3>4
  <2> QED BY <1>5, <2>3, <2>5, <2>6
<1>7. f = g
    BY <1>1, <1>4, <1>6 DEF Counts
<1> QED BY <1>3, <1>7 DEF f

\* Only(s, I) goes through the positions I in order.
Picks(T, s, I, n, g) ==
    /\ Counts(g, n, I) /\ IsFiniteSet(I) /\ n = Cardinality(I)
    /\ Only(s, I) \in Seq(T) /\ Len(Only(s, I)) = n /\ DOMAIN Only(s, I) = 1..n
    /\ \A k \in 1..n : g[k] \in I /\ g[k] \in Nat /\ Only(s, I)[k] = s[g[k]]

\* Only keeps the elements at the positions I, in their order.
LEMMA OnlyFacts ==
    ASSUME NEW T, NEW s \in Seq(T), NEW I \in SUBSET DOMAIN s
    PROVE  \E n \in Nat : \E g : Picks(T, s, I, n, g)
<1>1. Len(s) \in Nat /\ DOMAIN s = 1..Len(s) /\ \A i \in DOMAIN s : s[i] \in T
    OBVIOUS
<1>2. IsFiniteSet(DOMAIN s)
    BY <1>1, FS_Interval
<1>3. IsFiniteSet(I) /\ I \in SUBSET Nat
    BY <1>1, <1>2, FS_Subset
<1> DEFINE n == Cardinality(I)
           g == Ascending(I)
<1>4. n \in Nat /\ Counts(g, n, I)
    BY <1>3, AscendingCounts
<1>5. Only(s, I) = [k \in 1..n |-> s[g[k]]]
    BY DEF Only
<1> HIDE DEF n, g
<1>6. \A k \in 1..n : g[k] \in I /\ g[k] \in Nat /\ s[g[k]] \in T
    BY <1>1, <1>3, <1>4 DEF Counts
<1>7. [k \in 1..n |-> s[g[k]]] \in Seq(T) /\ Len([k \in 1..n |-> s[g[k]]]) = n
  <2> DEFINE o == [k \in 1..n |-> s[g[k]]]
  <2>1. o \in [1..n -> T] /\ DOMAIN o = 1..n /\ n \in Nat
      BY <1>4, <1>6
  <2> HIDE DEF o
  <2>2. o \in Seq(T) /\ Len(o) = n
      BY <2>1
  <2> QED BY <2>2 DEF o
<1>8. n = Cardinality(I)
    BY DEF n
<1>9. \A k \in 1..n : Only(s, I)[k] = s[g[k]]
    BY <1>5
<1>10. Only(s, I) \in Seq(T) /\ Len(Only(s, I)) = n
    BY <1>5, <1>7
<1>11. DOMAIN Only(s, I) = 1..n
    BY <1>5
<1>12. Picks(T, s, I, n, g)
    BY <1>3, <1>4, <1>6, <1>8, <1>9, <1>10, <1>11 DEF Picks
<1> QED BY <1>4, <1>12

\* What goes through them in order is it.
LEMMA OnlyIs ==
    ASSUME NEW T, NEW s \in Seq(T), NEW I \in SUBSET DOMAIN s,
           NEW n \in Nat, NEW g, Counts(g, n, I)
    PROVE  Only(s, I) = [k \in 1..n |-> s[g[k]]]
<1>1. I \in SUBSET Nat
    OBVIOUS
<1>2. Cardinality(I) = n /\ Ascending(I) = g
    BY <1>1, CountUnique
<1> QED BY <1>2 DEF Only

\* A sequence is the function of its positions.
LEMMA SameSequence ==
    ASSUME NEW T, NEW s \in Seq(T)
    PROVE  s = [k \in 1..Len(s) |-> s[k]]
    OBVIOUS

\* All positions, and none.
LEMMA OnlyAll ==
    ASSUME NEW T, NEW s \in Seq(T)
    PROVE  Only(s, DOMAIN s) = s /\ Only(s, {}) = <<>>
<1>1. Len(s) \in Nat /\ DOMAIN s = 1..Len(s)
    OBVIOUS
<1> DEFINE g == [k \in 1..Len(s) |-> k]
<1>2. Counts(g, Len(s), DOMAIN s)
    BY <1>1 DEF Counts
<1>3. Only(s, DOMAIN s) = [k \in 1..Len(s) |-> s[g[k]]]
    BY <1>1, <1>2, OnlyIs
<1>4. [k \in 1..Len(s) |-> s[g[k]]] = [k \in 1..Len(s) |-> s[k]]
    OBVIOUS
<1>5. Only(s, {}) = <<>>
  <2>1. Cardinality({}) = 0
      BY FS_EmptySet
  <2>2. Only(s, {}) = [k \in 1..0 |-> s[Ascending({})[k]]]
      BY <2>1 DEF Only
  <2>3. [k \in 1..0 |-> s[Ascending({})[k]]] = <<>>
      OBVIOUS
  <2> QED BY <2>2, <2>3
<1> QED BY <1>3, <1>4, <1>5, SameSequence
-----------------------------------------------------------------------------
(***************************************************************************)
(* FlattenSeq: one sequence after the other.                               *)
(***************************************************************************)
\* F has the sequences of ss that are flattened first.
Flattens(F, n, ss) ==
    F = [i \in 1..n |-> IF i = 1 THEN ss[i] ELSE F[i - 1] \o ss[i]]

\* The recursive function by which FlattenSeq is defined exists.
LEMMA FlattensExists ==
    ASSUME NEW ss, NEW m \in Nat
    PROVE  \E F : Flattens(F, m, ss)
<1> DEFINE Bad == {n \in Nat : ~\E F : Flattens(F, n, ss)}
<1>1. SUFFICES ASSUME Bad # {} PROVE FALSE
    OBVIOUS
<1>2. PICK n \in Bad : \A j \in Bad : n <= j
    BY <1>1, LeastNumber
<1>3. n \in Nat /\ ~\E F : Flattens(F, n, ss)
    OBVIOUS
<1>4. CASE n = 0
  <2> DEFINE F == [i \in 1..0 |-> <<>>]
  <2>1. F = [i \in 1..0 |-> IF i = 1 THEN ss[i] ELSE F[i - 1] \o ss[i]]
      OBVIOUS
  <2>2. Flattens(F, 0, ss)
      BY <2>1 DEF Flattens
  <2> QED BY <1>3, <1>4, <2>2
<1>5. CASE n # 0
  <2>1. n - 1 \in Nat /\ n - 1 \notin Bad
      BY <1>2, <1>3, <1>5
  <2>2. PICK G : Flattens(G, n - 1, ss)
      BY <2>1
  <2> DEFINE F == [i \in 1..n |-> IF i = 1 THEN ss[i] ELSE G[i - 1] \o ss[i]]
  <2>3. \A i \in 1..(n - 1) : G[i] = IF i = 1 THEN ss[i] ELSE G[i - 1] \o ss[i]
      BY <2>2 DEF Flattens
  <2>4. \A i \in 1..(n - 1) : F[i] = G[i]
      BY <2>1, <2>3
  <2>5. \A i \in 1..n : i = 1 \/ i - 1 \in 1..(n - 1)
      BY <1>3
  <2>6. F = [i \in 1..n |-> IF i = 1 THEN ss[i] ELSE F[i - 1] \o ss[i]]
      BY <2>4, <2>5
  <2>7. Flattens(F, n, ss)
      BY <2>6 DEF Flattens
  <2> QED BY <1>3, <2>7
<1> QED BY <1>4, <1>5

\* The first i of the sequences, flattened.
Folded(F, ss) ==
    /\ F[0] = <<>>
    /\ \A i \in 1..Len(ss) : F[i] = F[i - 1] \o ss[i]
    /\ F[Len(ss)] = FlattenSeq(ss)

\* FlattenSeq by its value: one element more, one sequence more.
LEMMA FlattenFolds ==
    ASSUME NEW T, NEW ss \in Seq(Seq(T))
    PROVE  \E F \in [0..Len(ss) -> Seq(T)] : Folded(F, ss)
<1> DEFINE n == Len(ss)
<1>1. n \in Nat /\ DOMAIN ss = 1..n /\ \A i \in 1..n : ss[i] \in Seq(T)
    OBVIOUS
<1> DEFINE G == CHOOSE F : Flattens(F, n, ss)
<1>2. Flattens(G, n, ss)
    BY <1>1, FlattensExists
<1>3. n # 0 => FlattenSeq(ss) = G[n]
  <2>1. n # 0 => FlattenSeq(ss) =
          (CHOOSE F : F = [i \in 1..n |-> IF i = 1 THEN ss[i] ELSE F[i - 1] \o ss[i]])[n]
      BY DEF FlattenSeq
  <2> QED BY <2>1 DEF Flattens
<1> HIDE DEF G
<1>4. \A i \in 1..n : G[i] = IF i = 1 THEN ss[i] ELSE G[i - 1] \o ss[i]
    BY <1>2 DEF Flattens
<1>5. \A i \in 1..n : G[i] \in Seq(T)
  <2> DEFINE Bad == {i \in 1..n : G[i] \notin Seq(T)}
  <2>1. ASSUME Bad # {}  PROVE FALSE
    <3>1. Bad \in SUBSET Nat
        BY <1>1
    <3>2. PICK i \in Bad : \A j \in Bad : i <= j
        BY <2>1, <3>1, LeastNumber
    <3>3. i \in 1..n /\ G[i] \notin Seq(T) /\ i # 1
        BY <1>1, <1>4, <3>2
    <3>4. i - 1 \in 1..n /\ G[i - 1] \in Seq(T)
        BY <1>1, <3>2, <3>3
    <3>5. G[i] = G[i - 1] \o ss[i]
        BY <1>4, <3>3
    <3>6. ss[i] \in Seq(T)
        BY <1>1, <3>3
    <3>7. G[i - 1] \o ss[i] \in Seq(T)
        BY <3>4, <3>6, ConcatProperties
    <3> QED BY <3>3, <3>5, <3>7
  <2> QED BY <2>1
<1> DEFINE F == [i \in 0..n |-> IF i = 0 THEN <<>> ELSE G[i]]
<1>6. F \in [0..n -> Seq(T)]
    BY <1>1, <1>5
<1>7. F[0] = <<>> /\ \A i \in 1..n : F[i] = G[i]
    BY <1>1
<1> HIDE DEF F
<1>8. ASSUME NEW i \in 1..n  PROVE F[i] = F[i - 1] \o ss[i]
  <2>1. F[i] = G[i] /\ ss[i] \in Seq(T)
      BY <1>1, <1>7
  <2>2. CASE i = 1
    <3>1. F[i - 1] = <<>> /\ G[i] = ss[i]
        BY <1>1, <1>4, <1>7, <2>2
    <3> QED BY <2>1, <3>1, ConcatEmptySeq
  <2>3. CASE i # 1
    <3>1. i - 1 \in 1..n
        BY <1>1, <2>3
    <3>2. F[i - 1] = G[i - 1] /\ G[i] = G[i - 1] \o ss[i]
        BY <1>4, <1>7, <2>3, <3>1
    <3> QED BY <2>1, <3>2
  <2> QED BY <2>2, <2>3
<1>9. F[n] = FlattenSeq(ss)
  <2>1. CASE n = 0
    <3>1. FlattenSeq(ss) = ss
        BY <2>1 DEF FlattenSeq
    <3>2. ss = <<>>
        BY <2>1, EmptySeq, SeqEqual
    <3> QED BY <1>7, <2>1, <3>1, <3>2
  <2>2. CASE n # 0
      BY <1>1, <1>3, <1>7, <2>2
  <2> QED BY <2>1, <2>2
<1>10. Folded(F, ss)
    BY <1>7, <1>8, <1>9 DEF Folded
<1> QED BY <1>6, <1>10

\* What two sequences hold together.
LEMMA SetOfConcat ==
    ASSUME NEW T, NEW s \in Seq(T), NEW t \in Seq(T)
    PROVE  ToSet(s \o t) = ToSet(s) \cup ToSet(t)
<1> DEFINE m == Len(s)
           n == Len(t)
           u == s \o t
<1>1. /\ m \in Nat /\ n \in Nat /\ DOMAIN s = 1..m /\ DOMAIN t = 1..n
      /\ u \in Seq(T) /\ Len(u) = m + n
      /\ \A i \in 1..(m + n) : u[i] = IF i <= m THEN s[i] ELSE t[i - m]
    BY ConcatProperties
<1>2. DOMAIN u = 1..(m + n)
    BY <1>1
<1> HIDE DEF m, n, u
<1>3. ASSUME NEW i \in DOMAIN u  PROVE u[i] \in ToSet(s) \cup ToSet(t)
  <2>1. CASE i <= m
    <3>1. i \in DOMAIN s /\ u[i] = s[i]
        BY <1>1, <1>2, <2>1
    <3> QED BY <3>1 DEF ToSet
  <2>2. CASE ~(i <= m)
    <3>1. i - m \in DOMAIN t /\ u[i] = t[i - m]
        BY <1>1, <1>2, <2>2
    <3> QED BY <3>1 DEF ToSet
  <2> QED BY <2>1, <2>2
<1>4. ASSUME NEW i \in DOMAIN s  PROVE s[i] \in ToSet(u)
  <2>1. i \in DOMAIN u /\ u[i] = s[i]
      BY <1>1, <1>2
  <2> QED BY <2>1 DEF ToSet
<1>5. ASSUME NEW i \in DOMAIN t  PROVE t[i] \in ToSet(u)
  <2>1. i + m \in DOMAIN u /\ ~(i + m <= m) /\ (i + m) - m = i
      BY <1>1, <1>2
  <2>2. u[i + m] = t[i]
      BY <1>1, <1>2, <2>1
  <2> QED BY <2>1, <2>2 DEF ToSet
<1>6. ToSet(u) = ToSet(s) \cup ToSet(t)
    BY <1>3, <1>4, <1>5 DEF ToSet
<1> QED BY <1>6 DEF u

\* What a flattened sequence holds.
LEMMA SetOfFlatten ==
    ASSUME NEW T, NEW ss \in Seq(Seq(T))
    PROVE  /\ FlattenSeq(ss) \in Seq(T)
           /\ ToSet(FlattenSeq(ss)) = UNION {ToSet(ss[i]) : i \in DOMAIN ss}
<1> DEFINE n == Len(ss)
           U(k) == UNION {ToSet(ss[i]) : i \in 1..k}
<1>1. n \in Nat /\ DOMAIN ss = 1..n /\ \A i \in 1..n : ss[i] \in Seq(T)
    OBVIOUS
<1>2. PICK F \in [0..n -> Seq(T)] : Folded(F, ss)
    BY FlattenFolds
<1> DEFINE P == {k \in 0..n : ToSet(F[k]) = U(k)}
<1>3. 0 \in P
  <2>1. ToSet(F[0]) = {}
      BY <1>2 DEF Folded, ToSet
  <2>2. U(0) = {} /\ 0 \in 0..n
      BY <1>1
  <2> QED BY <2>1, <2>2
<1>4. ASSUME NEW k \in 1..n, k - 1 \in P  PROVE k \in P
  <2>1. ToSet(F[k - 1]) = U(k - 1) /\ k - 1 \in 0..n
      BY <1>4
  <2>2. F[k - 1] \in Seq(T) /\ ss[k] \in Seq(T) /\ k \in 0..n
      BY <1>1, <1>2, <2>1
  <2>3. F[k] = F[k - 1] \o ss[k]
      BY <1>2 DEF Folded
  <2>4. ToSet(F[k]) = ToSet(F[k - 1]) \cup ToSet(ss[k])
      BY <2>2, <2>3, SetOfConcat
  <2>5. 1..k = (1..(k - 1)) \cup {k}
      BY <1>1
  <2>6. U(k) = U(k - 1) \cup ToSet(ss[k])
      BY <2>5
  <2> QED BY <2>1, <2>2, <2>4, <2>6
<1> HIDE DEF P
<1>5. n \in P /\ n \in 0..n
  <2>1. \A i \in 0..n : i \in P
      BY <1>1, <1>3, <1>4, Upwards
  <2> QED BY <1>1, <2>1
<1>6. ToSet(F[n]) = U(n) /\ F[n] \in Seq(T)
    BY <1>2, <1>5 DEF P
<1>7. U(n) = UNION {ToSet(ss[i]) : i \in DOMAIN ss}
    BY <1>1
<1> QED BY <1>2, <1>6, <1>7 DEF Folded

\* Of the numbers that g goes through, the first k are up to i.
Passed(g, m, i, k) == \A j \in 1..m : g[j] <= i <=> j <= k

\* One position further: it is one of J, or none more is passed.
LEMMA PassedNext ==
    ASSUME NEW n \in Nat, NEW J \in SUBSET (1..n), NEW m \in Nat, NEW g, Counts(g, m, J),
           NEW i \in 1..n, NEW k \in 0..m, Passed(g, m, i - 1, k)
    PROVE  /\ i \in J => k + 1 \in 1..m /\ g[k + 1] = i /\ Passed(g, m, i, k + 1)
           /\ i \notin J => Passed(g, m, i, k)
<1>1. /\ \A x, y \in 1..m : x < y => g[x] < g[y]
      /\ \A x \in J : \E y \in 1..m : g[y] = x
      /\ \A x \in 1..m : g[x] \in J /\ g[x] \in 1..n
    BY DEF Counts
<1>2. \A j \in 1..m : g[j] <= i - 1 <=> j <= k
    BY DEF Passed
<1>3. ASSUME i \in J
      PROVE  k + 1 \in 1..m /\ g[k + 1] = i /\ Passed(g, m, i, k + 1)
  <2>1. PICK j \in 1..m : g[j] = i
      BY <1>1, <1>3
  <2>2. ~(j <= k)
      BY <1>2, <2>1
  <2>3. k + 1 \in 1..m
      BY <2>1, <2>2
  <2>4. ~(g[k + 1] <= i - 1) /\ g[k + 1] \in 1..n
      BY <1>1, <1>2, <2>3
  <2>5. ~(k + 1 < j)
    <3>1. ASSUME k + 1 < j  PROVE FALSE
      <4>1. g[k + 1] < g[j]
          BY <1>1, <2>1, <2>3, <3>1
      <4> QED BY <2>1, <2>4, <4>1
    <3> QED BY <3>1
  <2>6. j = k + 1
      BY <2>1, <2>2, <2>5
  <2>7. g[k + 1] = i
      BY <2>1, <2>6
  <2>8. ASSUME NEW x \in 1..m  PROVE g[x] <= i <=> x <= k + 1
    <3>1. CASE x <= k
      <4>1. g[x] <= i - 1 /\ g[x] \in 1..n
          BY <1>1, <1>2, <3>1
      <4> QED BY <3>1, <4>1
    <3>2. CASE x = k + 1
        BY <2>7, <3>2
    <3>3. CASE k + 1 < x
      <4>1. g[k + 1] < g[x] /\ g[x] \in 1..n
          BY <1>1, <2>3, <3>3
      <4> QED BY <2>7, <3>3, <4>1
    <3> QED BY <3>1, <3>2, <3>3
  <2> QED BY <2>3, <2>7, <2>8 DEF Passed
<1>4. ASSUME i \notin J  PROVE Passed(g, m, i, k)
  <2>1. ASSUME NEW x \in 1..m  PROVE g[x] <= i <=> x <= k
    <3>1. g[x] # i /\ g[x] \in 1..n
        BY <1>1, <1>4
    <3>2. g[x] <= i <=> g[x] <= i - 1
        BY <3>1
    <3> QED BY <1>2, <3>2
  <2> QED BY <2>1 DEF Passed
<1> QED BY <1>3, <1>4

\* Flattening some of the sequences is flattening all, the others empty.
LEMMA FlattenOnly ==
    ASSUME NEW T, NEW ss \in Seq(Seq(T)), NEW J \in SUBSET DOMAIN ss,
           NEW tt \in Seq(Seq(T)), Len(tt) = Len(ss),
           \A i \in DOMAIN ss : tt[i] = IF i \in J THEN ss[i] ELSE <<>>
    PROVE  FlattenSeq(tt) = FlattenSeq(Only(ss, J))
<1> DEFINE oo == Only(ss, J)
<1>1. PICK n \in Nat : n = Len(ss) /\ DOMAIN ss = 1..n /\ \A i \in 1..n : ss[i] \in Seq(T)
    OBVIOUS
<1>2a. PICK m \in Nat : \E g : Picks(Seq(T), ss, J, m, g)
    BY OnlyFacts
<1>2. PICK g : Picks(Seq(T), ss, J, m, g)
    BY <1>2a
<1>3. /\ Counts(g, m, J)
      /\ oo \in Seq(Seq(T)) /\ Len(oo) = m /\ DOMAIN oo = 1..m
      /\ \A k \in 1..m : g[k] \in J /\ g[k] \in Nat /\ oo[k] = ss[g[k]]
    BY <1>2 DEF Picks
<1> HIDE DEF oo
<1>4. PICK F \in [0..n -> Seq(T)] : Folded(F, tt)
    BY <1>1, FlattenFolds
<1>5. PICK G \in [0..m -> Seq(T)] : Folded(G, oo)
    BY <1>3, FlattenFolds
<1>6. /\ F[0] = <<>> /\ F[n] = FlattenSeq(tt) /\ \A i \in 1..n : F[i] = F[i - 1] \o tt[i]
      /\ G[0] = <<>> /\ G[m] = FlattenSeq(oo) /\ \A i \in 1..m : G[i] = G[i - 1] \o oo[i]
    BY <1>1, <1>3, <1>4, <1>5 DEF Folded
<1>7. J \in SUBSET (1..n) /\ \A k \in 1..m : g[k] \in 1..n
    BY <1>1, <1>3
<1> DEFINE P == {i \in 0..n : \E k \in 0..m : F[i] = G[k] /\ Passed(g, m, i, k)}
<1>8. 0 \in P
  <2>1. Passed(g, m, 0, 0)
      BY <1>7 DEF Passed
  <2> QED BY <1>1, <1>6, <2>1
<1>9. ASSUME NEW i \in 1..n, i - 1 \in P  PROVE i \in P
  <2>1. PICK k \in 0..m : F[i - 1] = G[k] /\ Passed(g, m, i - 1, k)
      BY <1>9
  <2>2. G[k] \in Seq(T) /\ i \in 0..n
      BY <1>1, <1>5
  <2>3. F[i] = G[k] \o tt[i]
      BY <1>6, <2>1
  <2>4. CASE i \in J
    <3>1. k + 1 \in 1..m /\ g[k + 1] = i /\ Passed(g, m, i, k + 1)
      <4>1. J \in SUBSET (1..n) /\ Counts(g, m, J) /\ Passed(g, m, i - 1, k)
          BY <1>3, <1>7, <2>1
      <4> QED BY <2>4, <4>1, PassedNext
    <3>2. tt[i] = ss[i] /\ oo[k + 1] = ss[i]
        BY <1>1, <1>3, <2>4, <3>1
    <3>3. (k + 1) - 1 = k /\ k + 1 \in 0..m
        BY <3>1
    <3>4. G[k + 1] = G[k] \o oo[k + 1]
        BY <1>6, <3>1, <3>3
    <3>5. F[i] = G[k + 1]
        BY <2>3, <3>2, <3>4
    <3> QED BY <2>2, <3>1, <3>3, <3>5
  <2>5. CASE i \notin J
    <3>1. tt[i] = <<>>
        BY <1>1, <2>5
    <3>2. F[i] = G[k]
        BY <2>2, <2>3, <3>1, ConcatEmptySeq
    <3>3. Passed(g, m, i, k)
        BY <1>1, <1>3, <1>7, <2>1, <2>5, PassedNext
    <3> QED BY <2>2, <3>2, <3>3
  <2> QED BY <2>4, <2>5
<1> HIDE DEF P
<1>10. n \in P
  <2>1. n \in 0..n
      BY <1>1
  <2> QED BY <1>1, <1>8, <1>9, <2>1, Upwards
<1>11. PICK k \in 0..m : F[n] = G[k] /\ Passed(g, m, n, k)
    BY <1>10 DEF P
<1>12. k = m
  <2>1. ASSUME k # m  PROVE FALSE
    <3>1. m \in 1..m /\ ~(m <= k)
        BY <2>1
    <3>2. g[m] <= n
        BY <1>1, <1>7, <3>1
    <3> QED BY <1>11, <3>1, <3>2 DEF Passed
  <2> QED BY <2>1
<1> QED BY <1>6, <1>11, <1>12 DEF oo

\* The arithmetic of the next lemma.
LEMMA OneMore ==
    ASSUME NEW a \in Nat, NEW b \in Nat, NEW k \in Nat, 1 <= k, b <= 1, a <= k - 1
    PROVE  a + b <= k /\ (a + b < k <=> (a < k - 1 \/ b = 0))
    OBVIOUS

\* Of sequences with one element at most: how many there are.
LEMMA FlattenShort ==
    ASSUME NEW T, NEW ss \in Seq(Seq(T)), \A i \in DOMAIN ss : Len(ss[i]) <= 1
    PROVE  /\ Len(FlattenSeq(ss)) <= Len(ss)
           /\ Len(FlattenSeq(ss)) < Len(ss) <=> \E i \in DOMAIN ss : ss[i] = <<>>
<1>1. PICK n \in Nat : n = Len(ss) /\ DOMAIN ss = 1..n /\ \A i \in 1..n : ss[i] \in Seq(T)
    OBVIOUS
<1>2. PICK F \in [0..n -> Seq(T)] : Folded(F, ss)
    BY <1>1, FlattenFolds
<1> DEFINE P == {k \in 0..n : /\ Len(F[k]) <= k
                              /\ Len(F[k]) < k <=> \E i \in 1..k : ss[i] = <<>>}
<1>3. 0 \in P
  <2>1. F[0] = <<>> /\ Len(F[0]) = 0
      BY <1>2 DEF Folded
  <2> QED BY <1>1, <2>1
<1>4. ASSUME NEW k \in 1..n, k - 1 \in P  PROVE k \in P
  <2>1. Len(F[k - 1]) <= k - 1
      BY <1>4
  <2>9. Len(F[k - 1]) < k - 1 <=> \E i \in 1..(k - 1) : ss[i] = <<>>
      BY <1>4
  <2>10. k - 1 \in 0..n /\ k \in 0..n
      BY <1>1
  <2>2. F[k - 1] \in Seq(T) /\ ss[k] \in Seq(T) /\ k \in 0..n
      BY <1>1, <2>10
  <2>3. Len(F[k]) = Len(F[k - 1]) + Len(ss[k])
    <3>1. F[k] = F[k - 1] \o ss[k]
        BY <1>1, <1>2 DEF Folded
    <3> QED BY <2>2, <3>1, ConcatProperties
  <2>4. Len(F[k - 1]) \in Nat /\ Len(ss[k]) \in Nat /\ Len(ss[k]) <= 1
    <3>1. Len(F[k - 1]) \in Nat /\ Len(ss[k]) \in Nat
        BY <2>2, LenProperties
    <3> QED BY <1>1, <3>1
  <2>5. ss[k] = <<>> <=> Len(ss[k]) = 0
      BY <2>2, <2>4, EmptySeq
  <2>6. (\E i \in 1..k : ss[i] = <<>>) <=>
          (\E i \in 1..(k - 1) : ss[i] = <<>>) \/ ss[k] = <<>>
    <3>1. \A i \in 1..k : i \in 1..(k - 1) \/ i = k
        BY <1>1
    <3>2. k \in 1..k /\ \A i \in 1..(k - 1) : i \in 1..k
        BY <1>1
    <3> QED BY <3>1, <3>2
  <2>11. k \in Nat /\ 1 <= k
      BY <1>1
  <2>7. /\ Len(F[k]) <= k
        /\ Len(F[k]) < k <=> (Len(F[k - 1]) < k - 1 \/ Len(ss[k]) = 0)
      BY <2>1, <2>3, <2>4, <2>11, OneMore, ZenonT(60)
  <2> QED BY <2>2, <2>5, <2>6, <2>7, <2>9
<1> HIDE DEF P
<1>5. n \in P
  <2>1. n \in 0..n
      BY <1>1
  <2> QED BY <1>3, <1>4, <2>1, Upwards
<1>6. /\ Len(F[n]) <= n
      /\ Len(F[n]) < n <=> \E i \in 1..n : ss[i] = <<>>
    BY <1>5 DEF P
<1>7. F[n] = FlattenSeq(ss)
    BY <1>1, <1>2 DEF Folded
<1> QED BY <1>1, <1>6, <1>7
-----------------------------------------------------------------------------
(***************************************************************************)
(* Workloads by name.                                                      *)
(***************************************************************************)
OnceNamed(ws) == \A i, j \in DOMAIN ws : ws[i].name = ws[j].name => i = j

\* The fields of a workload.
LEMMA WorkloadShape ==
    ASSUME NEW w \in Workload
    PROVE  w.name \in Names \cup {Net} /\ w.version \in Nat /\ w.content \in Contents
    BY DEF Workload

\* The names of workloads, by what the sequence holds.
LEMMA SetOfNames ==
    ASSUME NEW ws
    PROVE  /\ NamesOf(ws) = {w.name : w \in ToSet(ws)}
           /\ \A i \in DOMAIN ws : ws[i] \in ToSet(ws) /\ ws[i].name \in NamesOf(ws)
           /\ \A w \in ToSet(ws) : \E i \in DOMAIN ws : ws[i] = w
           /\ \A w \in ToSet(ws) : w.name \in NamesOf(ws)
    BY DEF NamesOf, ToSet

\* Of what has a name once, the name tells it.
LEMMA OnceEqual ==
    ASSUME NEW ws, OnceNamed(ws), NEW v \in ToSet(ws), NEW w \in ToSet(ws), v.name = w.name
    PROVE  v = w
    BY DEF OnceNamed, ToSet

\* What Only keeps.
LEMMA SetOfOnly ==
    ASSUME NEW T, NEW s \in Seq(T), NEW I \in SUBSET DOMAIN s
    PROVE  Only(s, I) \in Seq(T) /\ ToSet(Only(s, I)) = {s[i] : i \in I}
<1>1a. PICK n \in Nat : \E g : Picks(T, s, I, n, g)
    BY OnlyFacts
<1>1. PICK g : Picks(T, s, I, n, g)
    BY <1>1a
<1>2. /\ Only(s, I) \in Seq(T) /\ DOMAIN Only(s, I) = 1..n
      /\ \A k \in 1..n : g[k] \in I /\ Only(s, I)[k] = s[g[k]]
      /\ \A x \in I : \E k \in 1..n : g[k] = x
    BY <1>1 DEF Picks, Counts
<1>3. \A w \in ToSet(Only(s, I)) : w \in {s[i] : i \in I}
    BY <1>2 DEF ToSet
<1>4. ASSUME NEW i \in I  PROVE s[i] \in ToSet(Only(s, I))
  <2>1. PICK k \in 1..n : g[k] = i
      BY <1>2
  <2>2. k \in DOMAIN Only(s, I) /\ Only(s, I)[k] = s[i]
      BY <1>2, <2>1
  <2> QED BY <2>2 DEF ToSet
<1> QED BY <1>2, <1>3, <1>4

\* Only doubles no name.
LEMMA OnlyOnce ==
    ASSUME NEW T, NEW s \in Seq(T), NEW I \in SUBSET DOMAIN s, OnceNamed(s)
    PROVE  OnceNamed(Only(s, I))
<1>1a. PICK n \in Nat : \E g : Picks(T, s, I, n, g)
    BY OnlyFacts
<1>1. PICK g : Picks(T, s, I, n, g)
    BY <1>1a
<1>2. /\ DOMAIN Only(s, I) = 1..n
      /\ \A k \in 1..n : g[k] \in I /\ g[k] \in Nat /\ Only(s, I)[k] = s[g[k]]
      /\ \A i, j \in 1..n : i < j => g[i] < g[j]
    BY <1>1 DEF Picks, Counts
<1>3. ASSUME NEW i \in 1..n, NEW j \in 1..n, s[g[i]].name = s[g[j]].name  PROVE i = j
  <2>1. g[i] = g[j]
      BY <1>2, <1>3 DEF OnceNamed
  <2> QED BY <1>2, <2>1
<1> QED BY <1>2, <1>3 DEF OnceNamed

\* Nor do two sequences that share none.
LEMMA ConcatOnce ==
    ASSUME NEW T, NEW s \in Seq(T), NEW t \in Seq(T), OnceNamed(s), OnceNamed(t),
           NamesOf(s) \cap NamesOf(t) = {}
    PROVE  OnceNamed(s \o t)
<1> DEFINE m == Len(s)
           n == Len(t)
           u == s \o t
<1>1. /\ m \in Nat /\ n \in Nat /\ DOMAIN s = 1..m /\ DOMAIN t = 1..n
      /\ u \in Seq(T) /\ Len(u) = m + n
      /\ \A i \in 1..(m + n) : u[i] = IF i <= m THEN s[i] ELSE t[i - m]
    BY ConcatProperties
<1>2. DOMAIN u = 1..(m + n)
    BY <1>1
<1> HIDE DEF m, n, u
<1>3. \A i \in DOMAIN u : \/ i \in DOMAIN s /\ u[i] = s[i]
                          \/ i - m \in DOMAIN t /\ u[i] = t[i - m] /\ i \in Nat
    BY <1>1, <1>2
<1>4. ASSUME NEW i \in DOMAIN u, NEW j \in DOMAIN u, u[i].name = u[j].name  PROVE i = j
  <2>1. \A k \in DOMAIN s, l \in DOMAIN t : s[k].name # t[l].name
      BY DEF NamesOf
  <2>2. CASE i \in DOMAIN s /\ u[i] = s[i]
    <3>1. j \in DOMAIN s /\ u[j] = s[j]
        BY <1>3, <1>4, <2>1, <2>2
    <3> QED BY <1>4, <2>2, <3>1 DEF OnceNamed
  <2>3. CASE i - m \in DOMAIN t /\ u[i] = t[i - m] /\ i \in Nat
    <3>1. j - m \in DOMAIN t /\ u[j] = t[j - m] /\ j \in Nat
        BY <1>3, <1>4, <2>1, <2>3
    <3>2. i - m = j - m
        BY <1>4, <2>3, <3>1 DEF OnceNamed
    <3> QED BY <1>1, <2>3, <3>1, <3>2
  <2> QED BY <1>3, <2>2, <2>3
<1> QED BY <1>4 DEF OnceNamed, u

\* Sequences with no name in common.
LEMMA FlattenOnce ==
    ASSUME NEW T, NEW ss \in Seq(Seq(T)), \A i \in DOMAIN ss : OnceNamed(ss[i]),
           \A i, j \in DOMAIN ss : i # j => NamesOf(ss[i]) \cap NamesOf(ss[j]) = {}
    PROVE  OnceNamed(FlattenSeq(ss))
<1>1. PICK n \in Nat : n = Len(ss) /\ DOMAIN ss = 1..n /\ \A i \in 1..n : ss[i] \in Seq(T)
    OBVIOUS
<1>2. PICK F \in [0..n -> Seq(T)] : Folded(F, ss)
    BY <1>1, FlattenFolds
<1> DEFINE P == {k \in 0..n : /\ OnceNamed(F[k])
                              /\ \A w \in ToSet(F[k]) : \E i \in 1..k : w.name \in NamesOf(ss[i])}
<1>3. 0 \in P
  <2>1. F[0] = <<>> /\ 0 \in 0..n
      BY <1>1, <1>2 DEF Folded
  <2>2. OnceNamed(<<>>) /\ ToSet(<<>>) = {}
      BY DEF OnceNamed, ToSet
  <2> QED BY <2>1, <2>2
<1>4. ASSUME NEW k \in 1..n, k - 1 \in P  PROVE k \in P
  <2>1. /\ k - 1 \in 0..n /\ OnceNamed(F[k - 1])
        /\ \A w \in ToSet(F[k - 1]) : \E i \in 1..(k - 1) : w.name \in NamesOf(ss[i])
      BY <1>4
  <2>2. F[k - 1] \in Seq(T) /\ ss[k] \in Seq(T) /\ k \in 0..n
    <3>1. k - 1 \in 0..n /\ k \in 0..n
        BY <1>1
    <3> QED BY <1>1, <3>1
  <2>3. F[k] = F[k - 1] \o ss[k]
      BY <1>1, <1>2 DEF Folded
  <2>4. ASSUME NEW x \in NamesOf(F[k - 1]), x \in NamesOf(ss[k])  PROVE FALSE
    <3>1. PICK i \in 1..(k - 1) : x \in NamesOf(ss[i])
      <4>1. PICK w \in ToSet(F[k - 1]) : w.name = x
        <5>1. NamesOf(F[k - 1]) = {w.name : w \in ToSet(F[k - 1])}
            BY SetOfNames
        <5> QED BY <2>4, <5>1
      <4> QED BY <2>1, <4>1
    <3>2. i \in 1..n /\ i # k
        BY <1>1, <3>1
    <3> QED BY <1>1, <2>4, <3>1, <3>2
  <2>5. OnceNamed(F[k])
    <3>1. NamesOf(F[k - 1]) \cap NamesOf(ss[k]) = {}
        BY <2>4
    <3>2. OnceNamed(F[k - 1]) /\ OnceNamed(ss[k])
        BY <1>1, <2>1
    <3> QED BY <2>2, <2>3, <3>1, <3>2, ConcatOnce
  <2>6. ASSUME NEW w \in ToSet(F[k])  PROVE \E i \in 1..k : w.name \in NamesOf(ss[i])
    <3>1. w \in ToSet(F[k - 1]) \cup ToSet(ss[k])
        BY <2>2, <2>3, SetOfConcat
    <3>2. k \in 1..k /\ \A i \in 1..(k - 1) : i \in 1..k
        BY <1>1
    <3>3. CASE w \in ToSet(F[k - 1])
        BY <2>1, <3>2, <3>3
    <3>4. CASE w \in ToSet(ss[k])
        BY <3>2, <3>4, SetOfNames
    <3> QED BY <3>1, <3>3, <3>4
  <2> QED BY <2>2, <2>5, <2>6
<1> HIDE DEF P
<1>5. n \in P
  <2>1. n \in 0..n
      BY <1>1
  <2> QED BY <1>3, <1>4, <2>1, Upwards
<1>6. OnceNamed(F[n])
    BY <1>5 DEF P
<1> QED BY <1>1, <1>2, <1>6 DEF Folded

\* The workloads of one name.
LEMMA NamedFacts ==
    ASSUME NEW ws \in Seq(Workload), NEW n
    PROVE  /\ Named(ws, n) \in Seq(Workload)
           /\ ToSet(Named(ws, n)) = {w \in ToSet(ws) : w.name = n}
           /\ Named(ws, n) = <<>> <=> n \notin NamesOf(ws)
           /\ OnceNamed(ws) => Len(Named(ws, n)) <= 1
<1> DEFINE I == {i \in DOMAIN ws : ws[i].name = n}
           s == Only(ws, I)
<1>1. Named(ws, n) = s
    BY DEF Named
<1>2. I \in SUBSET DOMAIN ws
    OBVIOUS
<1>3. s \in Seq(Workload) /\ ToSet(s) = {ws[i] : i \in I}
    BY <1>2, SetOfOnly
<1>4. OnceNamed(ws) => OnceNamed(s)
    BY <1>2, OnlyOnce
<1>5. {ws[i] : i \in I} = {w \in ToSet(ws) : w.name = n}
    BY DEF ToSet
<1> HIDE DEF s
<1>6. s = <<>> <=> ToSet(s) = {}
  <2>1. Len(s) \in Nat /\ DOMAIN s = 1..Len(s)
      BY <1>3
  <2>2. s = <<>> <=> Len(s) = 0
      BY <1>3, EmptySeq
  <2>3. Len(s) = 0 <=> ToSet(s) = {}
    <3>1. Len(s) # 0 => 1 \in DOMAIN s
        BY <2>1
    <3>2. Len(s) = 0 => DOMAIN s = {}
        BY <2>1
    <3>3. DOMAIN s = {} <=> ToSet(s) = {}
        BY DEF ToSet
    <3> QED BY <3>1, <3>2, <3>3
  <2> QED BY <2>2, <2>3
<1>7. n \notin NamesOf(ws) <=> {w \in ToSet(ws) : w.name = n} = {}
  <2>1. NamesOf(ws) = {w.name : w \in ToSet(ws)}
      BY SetOfNames
  <2> QED BY <2>1
<1>8. ASSUME OnceNamed(s)  PROVE Len(s) <= 1
  <2>1. Len(s) \in Nat /\ DOMAIN s = 1..Len(s)
      BY <1>3
  <2>2. ASSUME 2 <= Len(s)  PROVE FALSE
    <3>1. 1 \in DOMAIN s /\ 2 \in DOMAIN s
        BY <2>1, <2>2
    <3>2. s[1].name = n /\ s[2].name = n
        BY <1>3, <1>5, <3>1 DEF ToSet
    <3>3. 1 = 2
        BY <1>8, <3>1, <3>2 DEF OnceNamed
    <3> QED BY <3>3
  <2> QED BY <2>1, <2>2
<1> QED BY <1>1, <1>3, <1>4, <1>5, <1>6, <1>7, <1>8

\* Newest takes one of the workloads, and none of them is newer.
LEMMA NewestFacts ==
    ASSUME NEW ws \in Seq(Workload), ws # <<>>
    PROVE  /\ Newest(ws) \in ToSet(ws)
           /\ \A w \in ToSet(ws) : w.version <= Newest(ws).version
<1>1. PICK n \in Nat : /\ n = Len(ws) /\ DOMAIN ws = 1..n /\ n # 0
                       /\ \A i \in 1..n : ws[i] \in Workload
    BY EmptySeq
<1>2. \A i \in 1..n : ws[i].version \in Nat
    BY <1>1, WorkloadShape
<1> DEFINE Top(i, k) == \A j \in 1..k : ws[j].version <= ws[i].version
           P == {k \in 0..n : k = 0 \/ \E i \in 1..k : Top(i, k)}
<1>3. 0 \in P
    BY <1>1
<1>4. ASSUME NEW k \in 1..n, k - 1 \in P  PROVE k \in P
  <2>1. k \in 0..n /\ k \in 1..k /\ \A j \in 1..k : j \in 1..(k - 1) \/ j = k
      BY <1>1
  <2>2. CASE k = 1
    <3>1. Top(k, k)
        BY <1>2, <2>2
    <3> QED BY <2>1, <3>1
  <2>3. CASE k # 1
    <3>1. PICK i \in 1..(k - 1) : Top(i, k - 1)
        BY <1>4, <2>3
    <3>2. i \in 1..k /\ i \in 1..n
        BY <3>1
    <3>3. CASE ws[k].version <= ws[i].version
      <4>1. Top(i, k)
          BY <2>1, <3>1, <3>3
      <4> QED BY <2>1, <3>2, <4>1
    <3>4. CASE ~(ws[k].version <= ws[i].version)
      <4>1. \A j \in 1..(k - 1) : j \in 1..n
          OBVIOUS
      <4>2. Top(k, k)
          BY <1>2, <2>1, <3>1, <3>2, <3>4, <4>1
      <4> QED BY <2>1, <4>2
    <3> QED BY <3>3, <3>4
  <2> QED BY <2>2, <2>3
<1> HIDE DEF P
<1>5. n \in P
  <2>1. n \in 0..n
      BY <1>1
  <2> QED BY <1>3, <1>4, <2>1, Upwards
<1>6. \E i \in 1..n : Top(i, n)
    BY <1>1, <1>5 DEF P
<1> DEFINE M == {i \in 1..n : Top(i, n)}
<1>7. M \in SUBSET Nat /\ M # {}
    BY <1>6
<1>8. PICK m \in M : \A i \in M : m <= i
    BY <1>7, LeastNumber
<1>9. m \in 1..n /\ Top(m, n)
    OBVIOUS
<1>10. ASSUME NEW j \in 1..n, ws[j].version = ws[m].version  PROVE m <= j
  <2>1. Top(j, n)
      BY <1>9, <1>10
  <2> QED BY <1>8, <2>1
<1> DEFINE Best(i) == \A j \in DOMAIN ws :
             ws[j].version <= ws[i].version /\ (ws[j].version = ws[i].version => i <= j)
<1>11. Best(m)
    BY <1>1, <1>9, <1>10
<1> DEFINE b == CHOOSE i \in DOMAIN ws : Best(i)
<1>12. b \in DOMAIN ws /\ Best(b)
    BY <1>1, <1>9, <1>11
<1>13. Newest(ws) = ws[b]
    BY DEF Newest
<1> HIDE DEF b
<1>14. \A j \in DOMAIN ws : ws[j].version <= ws[b].version
    BY <1>12
<1> QED BY <1>12, <1>13, <1>14 DEF ToSet

\* The first workload of each name.
LEMMA FirstOfEach ==
    ASSUME NEW ws \in Seq(Workload), NEW I,
           I = {i \in DOMAIN ws : \A j \in 1..(i - 1) : ws[j].name # ws[i].name}
    PROVE  /\ Only(ws, I) \in Seq(Workload) /\ OnceNamed(Only(ws, I))
           /\ NamesOf(Only(ws, I)) = NamesOf(ws)
           /\ ToSet(Only(ws, I)) \subseteq ToSet(ws)
<1>1. I \in SUBSET DOMAIN ws /\ DOMAIN ws \in SUBSET Nat /\ DOMAIN ws = 1..Len(ws) /\ Len(ws) \in Nat
    OBVIOUS
<1>2. Only(ws, I) \in Seq(Workload) /\ ToSet(Only(ws, I)) = {ws[i] : i \in I}
    BY <1>1, SetOfOnly
<1>3. ToSet(Only(ws, I)) \subseteq ToSet(ws)
    BY <1>1, <1>2 DEF ToSet
<1>4. ASSUME NEW i \in I, NEW j \in I, ws[i].name = ws[j].name  PROVE i = j
  <2>1. i \in Nat /\ j \in Nat /\ 1 <= i /\ 1 <= j
      BY <1>1
  <2>2. ~(i < j)
    <3>1. i < j => i \in 1..(j - 1)
        BY <2>1
    <3> QED BY <1>4, <3>1
  <2>3. ~(j < i)
    <3>1. j < i => j \in 1..(i - 1)
        BY <2>1
    <3> QED BY <1>4, <3>1
  <2> QED BY <2>1, <2>2, <2>3
<1>5. OnceNamed(Only(ws, I))
  <2>1a. PICK n \in Nat : \E g : Picks(Workload, ws, I, n, g)
      BY <1>1, OnlyFacts
  <2>1. PICK g : Picks(Workload, ws, I, n, g)
      BY <2>1a
  <2>2. /\ DOMAIN Only(ws, I) = 1..n
        /\ \A k \in 1..n : g[k] \in I /\ g[k] \in Nat /\ Only(ws, I)[k] = ws[g[k]]
        /\ \A i, j \in 1..n : i < j => g[i] < g[j]
      BY <2>1 DEF Picks, Counts
  <2>3. ASSUME NEW i \in 1..n, NEW j \in 1..n, ws[g[i]].name = ws[g[j]].name  PROVE i = j
    <3>1. g[i] = g[j]
        BY <1>4, <2>2, <2>3
    <3> QED BY <2>2, <3>1
  <2> QED BY <2>2, <2>3 DEF OnceNamed
<1>6. ASSUME NEW x \in DOMAIN ws  PROVE \E i \in I : ws[i].name = ws[x].name
  <2> DEFINE S == {i \in DOMAIN ws : ws[i].name = ws[x].name}
  <2>1. S \in SUBSET Nat /\ S # {}
      BY <1>1
  <2>2. PICK i \in S : \A j \in S : i <= j
      BY <2>1, LeastNumber
  <2>3. ASSUME NEW j \in 1..(i - 1)  PROVE ws[j].name # ws[i].name
    <3>1. j \in DOMAIN ws /\ ~(i <= j)
        BY <1>1
    <3> QED BY <2>2, <3>1
  <2>4. i \in I
      BY <2>3
  <2> QED BY <2>4
<1>7. NamesOf(Only(ws, I)) = {w.name : w \in {ws[i] : i \in I}}
  <2>1. NamesOf(Only(ws, I)) = {w.name : w \in ToSet(Only(ws, I))}
      BY SetOfNames
  <2> QED BY <1>2, <2>1
<1>8. NamesOf(ws) = {ws[i].name : i \in DOMAIN ws}
    BY DEF NamesOf
<1>9. {w.name : w \in {ws[i] : i \in I}} = {ws[i].name : i \in I}
    OBVIOUS
<1>10. {ws[i].name : i \in I} = {ws[i].name : i \in DOMAIN ws}
  <2>1. \A i \in I : i \in DOMAIN ws
      BY <1>1
  <2>2. ASSUME NEW x \in DOMAIN ws  PROVE ws[x].name \in {ws[i].name : i \in I}
    <3>1. PICK i \in I : ws[i].name = ws[x].name
        BY <1>6
    <3>2. ws[i].name \in {ws[j].name : j \in I}
        BY <3>1
    <3> QED BY <3>1, <3>2
  <2> QED BY <2>1, <2>2
<1> QED BY <1>2, <1>3, <1>5, <1>7, <1>8, <1>9, <1>10
-----------------------------------------------------------------------------
(***************************************************************************)
(* UpdateDeployment.                                                       *)
(***************************************************************************)
\* w, in an update of the deployment d: it is new, or as it was, or changed.
Edited(w, d) ==
    /\ w.name \notin NamesOf(d.workloads) => w.version = d.version + 1
    /\ \A v \in ToSet(d.workloads) : v.name = w.name =>
         \/ w = v
         \/ w.content # v.content /\ w.version = d.version + 1
         \/ IsNet(w) /\ w.content = v.content /\ w.version = v.version + 1

\* No workload of a name is there twice or newer than the deployment.
Sound(d) ==
    /\ OnceNamed(d.workloads)
    /\ \A w \in ToSet(d.workloads) : w.version <= d.version

\* The fields of a deployment.
LEMMA DeploymentShape ==
    ASSUME NEW d \in Deployment
    PROVE  /\ d.version \in Nat /\ d.workloads \in Seq(Workload)
           /\ \A i \in DOMAIN d.workloads : d.workloads[i] \in Workload
           /\ \A w \in ToSet(d.workloads) : w \in Workload
<1>1. d.version \in Nat /\ d.workloads \in Seq(Workload)
    BY DEF Deployment
<1>2. \A i \in DOMAIN d.workloads : d.workloads[i] \in Workload
    BY <1>1
<1> QED BY <1>1, <1>2 DEF ToSet

\* A workload after its inner loop: as it was, or with what changed it.
Compares(c, wl, new, v) ==
    /\ c \in Workload /\ c.name = wl.name
    /\ \/ c = wl
       \/ /\ c.version = v + 1 /\ ~IsNet(c) /\ c.content # wl.content
          /\ \E w \in ToSet(new) : w.name = wl.name /\ c.content = w.content
    /\ OnceNamed(new) => \A w \in ToSet(new) :
          w.name = wl.name /\ ~IsNet(w) => c.content = w.content

\* The inner loop changes a workload as Compares says.
LEMMA ChangeFacts ==
    ASSUME NEW wl \in Workload, NEW new \in Seq(Workload), NEW v \in Nat
    PROVE  Compares(Change(wl, new, v), wl, new, v)
<1> DEFINE J == Changing(wl, new)
           c == Change(wl, new, v)
           j == CHOOSE k \in J : TRUE
<1>1. \A k \in DOMAIN new : new[k] \in Workload /\ new[k] \in ToSet(new)
    BY DEF ToSet
<1>2. \A k \in J : k \in DOMAIN new /\ Differs(wl, new[k])
    BY DEF Changing, Visited
<1>3. J # {} => j \in J
    OBVIOUS
<1>4. c = IF J = {} THEN wl ELSE [wl EXCEPT !.content = new[j].content, !.version = v + 1]
    BY DEF Change
<1> HIDE DEF c, j
<1>5. ASSUME J = {}  PROVE Compares(c, wl, new, v)
  <2>1. c = wl
      BY <1>4, <1>5
  <2>2. ASSUME OnceNamed(new), NEW w \in ToSet(new), w.name = wl.name, ~IsNet(w),
               w.content # wl.content
        PROVE  FALSE
    <3>1. PICK k \in DOMAIN new : new[k] = w
        BY <2>2 DEF ToSet
    <3>2. Differs(wl, new[k])
        BY <2>2, <3>1 DEF Differs
    <3>3. \A i \in 1..(k - 1) : ~Differs(wl, new[i])
      <4>1. ASSUME NEW i \in 1..(k - 1), new[i].name = wl.name  PROVE FALSE
        <5>1. i \in DOMAIN new /\ i # k
            BY <3>1
        <5> QED BY <2>2, <3>1, <4>1, <5>1 DEF OnceNamed
      <4> QED BY <4>1 DEF Differs
    <3>4. k \in J
        BY <3>2, <3>3 DEF Changing, Visited
    <3> QED BY <1>5, <3>4
  <2> QED BY <2>1, <2>2 DEF Compares
<1>6. ASSUME J # {}  PROVE Compares(c, wl, new, v)
  <2>1. j \in DOMAIN new /\ Differs(wl, new[j]) /\ new[j] \in Workload /\ new[j] \in ToSet(new)
      BY <1>1, <1>2, <1>3, <1>6
  <2>2. c = [wl EXCEPT !.content = new[j].content, !.version = v + 1]
      BY <1>4, <1>6
  <2>3. new[j].content \in Contents /\ v + 1 \in Nat
      BY <2>1, WorkloadShape
  <2>4. c \in Workload /\ c.name = wl.name /\ c.version = v + 1 /\ c.content = new[j].content
      BY <2>2, <2>3 DEF Workload
  <2>5. new[j].name = wl.name /\ ~IsNet(new[j]) /\ c.content # wl.content
      BY <2>1, <2>4 DEF Differs
  <2>6. ~IsNet(c)
      BY <2>4, <2>5 DEF IsNet
  <2>7. ASSUME OnceNamed(new), NEW w \in ToSet(new), w.name = wl.name  PROVE w = new[j]
      BY <2>1, <2>5, <2>7, OnceEqual
  <2> QED BY <2>1, <2>4, <2>5, <2>6, <2>7 DEF Compares
<1> QED BY <1>5, <1>6 DEF c

\* What is added: once each, of a name that was not there, with a version of
\* its own.
LEMMA AddedFacts ==
    ASSUME NEW old \in Deployment, NEW new \in Seq(Workload)
    PROVE  LET a == Added(old, new)
           IN /\ a \in Seq(Workload) /\ OnceNamed(a)
              /\ \A w \in ToSet(a) :
                   /\ w.version = old.version + 1 /\ w.name \notin NamesOf(old.workloads)
                   /\ \E v \in ToSet(new) : v.name = w.name /\ v.content = w.content
              /\ ((\E i \in Compared(old, new) : Changing(old.workloads[i], new) = {}) /\ OnceNamed(new)) =>
                   \A v \in ToSet(new) : v.name \notin NamesOf(old.workloads) =>
                      \E w \in ToSet(a) : w.name = v.name /\ w.content = v.content
<1> DEFINE visited == UNION {Visited(old.workloads[i], new) : i \in Compared(old, new)}
           I == {j \in visited : /\ new[j].name \notin NamesOf(old.workloads)
                                 /\ \A k \in 1..(j - 1) : new[k].name # new[j].name}
           s == Only(new, I)
           a == Added(old, new)
<1>1. \A wl : Visited(wl, new) \subseteq DOMAIN new
    BY DEF Visited
<1>2. visited \in SUBSET DOMAIN new /\ I \in SUBSET DOMAIN new
    BY <1>1
<1>3. a = [k \in DOMAIN s |-> [s[k] EXCEPT !.version = old.version + 1]]
    BY DEF Added
<1>4. s \in Seq(Workload) /\ ToSet(s) = {new[i] : i \in I}
    BY <1>2, SetOfOnly
<1>5. \A i, j \in I : new[i].name = new[j].name => i = j
  <2>1. ASSUME NEW i \in I, NEW j \in I, new[i].name = new[j].name  PROVE i = j
    <3>1. i \in DOMAIN new /\ j \in DOMAIN new
        BY <1>2
    <3>2. i \in Nat /\ j \in Nat /\ 1 <= i /\ 1 <= j
        BY <3>1
    <3>3. (\A k \in 1..(j - 1) : new[k].name # new[j].name) /\
          (\A k \in 1..(i - 1) : new[k].name # new[i].name)
        OBVIOUS
    <3>4. ~(i < j) /\ ~(j < i)
      <4>1. i < j => i \in 1..(j - 1)
          BY <3>2
      <4>2. j < i => j \in 1..(i - 1)
          BY <3>2
      <4> QED BY <2>1, <3>3, <4>1, <4>2
    <3> QED BY <3>2, <3>4
  <2> QED BY <2>1
<1>6. OnceNamed(s)
  <2>1a. PICK n \in Nat : \E g : Picks(Workload, new, I, n, g)
      BY <1>2, OnlyFacts
  <2>1. PICK g : Picks(Workload, new, I, n, g)
      BY <2>1a
  <2>2. /\ DOMAIN s = 1..n
        /\ \A k \in 1..n : g[k] \in I /\ g[k] \in Nat /\ s[k] = new[g[k]]
        /\ \A i, j \in 1..n : i < j => g[i] < g[j]
      BY <2>1 DEF Picks, Counts
  <2> HIDE DEF I, s
  <2>3. ASSUME NEW i \in 1..n, NEW j \in 1..n, new[g[i]].name = new[g[j]].name  PROVE i = j
    <3>1. g[i] = g[j]
        BY <1>5, <2>2, <2>3
    <3> QED BY <2>2, <3>1
  <2> QED BY <2>2, <2>3 DEF OnceNamed
<1>7. \A v \in {new[i] : i \in I} : v \in ToSet(new) /\ v.name \notin NamesOf(old.workloads)
    BY <1>2 DEF ToSet
<1> HIDE DEF s, a
<1>8. old.version + 1 \in Nat /\ Len(s) \in Nat /\ DOMAIN s = 1..Len(s)
      /\ \A k \in DOMAIN s : s[k] \in Workload /\ s[k] \in ToSet(s)
  <2>1. old.version \in Nat
      BY DeploymentShape
  <2>2. Len(s) \in Nat /\ DOMAIN s = 1..Len(s) /\ \A k \in DOMAIN s : s[k] \in Workload
      BY <1>4
  <2> QED BY <2>1, <2>2 DEF ToSet
<1>9. \A k \in DOMAIN s : /\ a[k] \in Workload /\ a[k].name = s[k].name
                          /\ a[k].version = old.version + 1 /\ a[k].content = s[k].content
  <2>1. ASSUME NEW k \in DOMAIN s
        PROVE  /\ a[k] \in Workload /\ a[k].name = s[k].name
               /\ a[k].version = old.version + 1 /\ a[k].content = s[k].content
    <3>1. a[k] = [s[k] EXCEPT !.version = old.version + 1] /\ s[k] \in Workload
        BY <1>3, <1>8
    <3> QED BY <1>8, <3>1 DEF Workload
  <2> QED BY <2>1
<1>10. DOMAIN a = DOMAIN s /\ a \in Seq(Workload)
  <2>1. a \in [1..Len(s) -> Workload]
      BY <1>3, <1>8, <1>9
  <2> QED BY <1>8, <2>1
<1>11. OnceNamed(a)
    BY <1>6, <1>9, <1>10 DEF OnceNamed
<1>12. ASSUME NEW w \in ToSet(a)
       PROVE  /\ w.version = old.version + 1 /\ w.name \notin NamesOf(old.workloads)
              /\ \E v \in ToSet(new) : v.name = w.name /\ v.content = w.content
  <2>1. PICK k \in DOMAIN s : a[k] = w
      BY <1>10 DEF ToSet
  <2>2. s[k] \in ToSet(new) /\ s[k].name \notin NamesOf(old.workloads)
      BY <1>4, <1>7, <1>8
  <2> QED BY <1>9, <2>1, <2>2
<1>13. ASSUME NEW i \in Compared(old, new), Changing(old.workloads[i], new) = {}, OnceNamed(new),
              NEW v \in ToSet(new), v.name \notin NamesOf(old.workloads)
       PROVE  \E w \in ToSet(a) : w.name = v.name /\ w.content = v.content
  <2>1. PICK k \in DOMAIN new : new[k] = v
      BY DEF ToSet
  <2>2. Visited(old.workloads[i], new) = DOMAIN new
    <3> DEFINE B == {x \in DOMAIN new : Differs(old.workloads[i], new[x])}
    <3>1. ASSUME B # {}  PROVE FALSE
      <4>1. B \in SUBSET Nat
          OBVIOUS
      <4>2. PICK x \in B : \A y \in B : x <= y
          BY <3>1, <4>1, LeastNumber
      <4>3. ASSUME NEW y \in 1..(x - 1)  PROVE ~Differs(old.workloads[i], new[y])
        <5>1. y \in DOMAIN new /\ ~(x <= y)
            OBVIOUS
        <5> QED BY <4>2, <5>1
      <4>4. x \in Changing(old.workloads[i], new)
          BY <4>3 DEF Changing, Visited
      <4> QED BY <1>13, <4>4
    <3>2. ASSUME NEW x \in DOMAIN new  PROVE x \in Visited(old.workloads[i], new)
      <4>1. \A y \in 1..(x - 1) : y \in DOMAIN new
          OBVIOUS
      <4> QED BY <3>1, <4>1 DEF Visited
    <3> QED BY <3>2 DEF Visited
  <2>3. k \in visited
      BY <2>1, <2>2
  <2>4. ASSUME NEW x \in 1..(k - 1)  PROVE new[x].name # new[k].name
    <3>1. x \in DOMAIN new /\ x # k
        BY <2>1
    <3> QED BY <1>13, <2>1, <3>1 DEF OnceNamed
  <2>5. k \in I
      BY <1>13, <2>1, <2>3, <2>4
  <2>6. v \in ToSet(s)
      BY <1>4, <2>1, <2>5
  <2>7. PICK x \in DOMAIN s : s[x] = v
      BY <2>6 DEF ToSet
  <2>8. a[x] \in ToSet(a)
      BY <1>10, <2>7 DEF ToSet
  <2> QED BY <1>9, <2>7, <2>8
<1> QED BY <1>10, <1>11, <1>12, <1>13 DEF a

\* What UpdateDeployment makes of a deployment.
LEMMA UpdateFacts ==
    ASSUME NEW old \in Deployment, NEW new \in Seq(Workload), OnceNamed(old.workloads),
           NEW u, u = UpdateDeployment(old, new)
    PROVE  /\ u \in Deployment /\ u.version = old.version /\ OnceNamed(u.workloads)
           /\ \A w \in ToSet(u.workloads) : Edited(w, old)
           /\ ToSet(u.workloads) =
                {w \in {Change(v, new, old.version) : v \in ToSet(old.workloads)}
                         \cup ToSet(Added(old, new)) : Kept(w, new)}
<1> DEFINE ws == old.workloads
           V == old.version
           cs == [i \in DOMAIN ws |-> Change(ws[i], new, V)]
           a == Added(old, new)
           all == cs \o a
           I == {i \in DOMAIN all : Kept(all[i], new)}
           r == Only(all, I)
<1>1. V \in Nat /\ ws \in Seq(Workload) /\ Len(ws) \in Nat /\ DOMAIN ws = 1..Len(ws)
      /\ \A i \in DOMAIN ws : ws[i] \in Workload /\ ws[i] \in ToSet(ws)
  <2>1. V \in Nat /\ ws \in Seq(Workload)
      BY DeploymentShape
  <2>2. Len(ws) \in Nat /\ DOMAIN ws = 1..Len(ws) /\ \A i \in DOMAIN ws : ws[i] \in Workload
      BY <2>1
  <2> QED BY <2>1, <2>2 DEF ToSet
<1>2. u = [old EXCEPT !.workloads = r]
    BY DEF UpdateDeployment
<1>3. \A i \in DOMAIN ws : Compares(Change(ws[i], new, V), ws[i], new, V)
    BY <1>1, ChangeFacts
<1>4. /\ DOMAIN cs = DOMAIN ws
      /\ \A i \in DOMAIN ws : cs[i] = Change(ws[i], new, V) /\ Compares(cs[i], ws[i], new, V)
    BY <1>3
<1>5. a \in Seq(Workload) /\ OnceNamed(a)
      /\ \A w \in ToSet(a) : w.version = V + 1 /\ w.name \notin NamesOf(ws)
    BY AddedFacts
<1>6. ToSet(cs) = {Change(v, new, V) : v \in ToSet(ws)}
    BY DEF ToSet
<1> HIDE DEF cs, a
<1>7. cs \in Seq(Workload)
  <2>1. cs \in [1..Len(ws) -> Workload]
    <3>1. \A i \in 1..Len(ws) : cs[i] \in Workload
        BY <1>1, <1>4 DEF Compares
    <3>2. cs = [i \in 1..Len(ws) |-> cs[i]]
        BY <1>1 DEF cs
    <3> QED BY <3>1, <3>2
  <2> QED BY <1>1, <2>1, SMTT(30)
<1>8. OnceNamed(cs)
  <2>1. \A i \in DOMAIN ws : cs[i].name = ws[i].name
      BY <1>4 DEF Compares
  <2> QED BY <1>4, <2>1 DEF OnceNamed
<1>9. NamesOf(cs) \cap NamesOf(a) = {}
  <2>1. NamesOf(cs) = NamesOf(ws)
    <3>1. \A i \in DOMAIN ws : cs[i].name = ws[i].name
        BY <1>4 DEF Compares
    <3> QED BY <1>4, <3>1 DEF NamesOf
  <2>2. NamesOf(a) = {w.name : w \in ToSet(a)}
      BY SetOfNames
  <2> QED BY <1>5, <2>1, <2>2
<1>10. OnceNamed(all) /\ all \in Seq(Workload) /\ ToSet(all) = ToSet(cs) \cup ToSet(a)
    BY <1>5, <1>7, <1>8, <1>9, ConcatOnce, SetOfConcat, ConcatProperties
<1> HIDE DEF all
<1>11. r \in Seq(Workload) /\ OnceNamed(r) /\ ToSet(r) = {all[i] : i \in I}
    BY <1>10, SetOfOnly, OnlyOnce
<1>12. {all[i] : i \in I} = {w \in ToSet(all) : Kept(w, new)}
    BY DEF ToSet
<1> HIDE DEF r, I
<1>13. u \in Deployment /\ u.version = V /\ u.workloads = r
    BY <1>1, <1>2, <1>11 DEF Deployment
<1>14. ASSUME NEW w \in ToSet(cs)  PROVE Edited(w, old)
  <2>1. PICK i \in DOMAIN ws : cs[i] = w
      BY <1>4 DEF ToSet
  <2>2. ws[i] \in ToSet(ws) /\ Compares(w, ws[i], new, V)
      BY <1>1, <1>4, <2>1
  <2>3. /\ w.name = ws[i].name
        /\ w = ws[i] \/ (w.content # ws[i].content /\ w.version = V + 1)
      BY <2>2 DEF Compares
  <2>4. w.name \in NamesOf(ws)
      BY <2>2, <2>3, SetOfNames
  <2>5. ASSUME NEW v \in ToSet(ws), v.name = w.name  PROVE v = ws[i]
      BY <2>2, <2>3, <2>5, OnceEqual
  <2> QED BY <2>3, <2>4, <2>5 DEF Edited
<1>15. ASSUME NEW w \in ToSet(a)  PROVE Edited(w, old)
  <2>1. w.version = V + 1 /\ w.name \notin NamesOf(ws)
      BY <1>5
  <2>2. ASSUME NEW v \in ToSet(ws), v.name = w.name  PROVE FALSE
      BY <2>1, <2>2, SetOfNames
  <2> QED BY <2>1, <2>2 DEF Edited
<1>16. \A w \in ToSet(r) : Edited(w, old)
    BY <1>10, <1>11, <1>12, <1>14, <1>15
<1>17. ToSet(r) = {w \in {Change(v, new, V) : v \in ToSet(ws)} \cup ToSet(a) : Kept(w, new)}
    BY <1>6, <1>10, <1>11, <1>12
<1> QED BY <1>11, <1>13, <1>16, <1>17 DEF a

\* What Holds has.
LEMMA HoldsFacts ==
    ASSUME NEW ws, NEW x
    PROVE  x \in Holds(ws) <=>
             \E w \in ToSet(ws) : ~IsNet(w) /\ x = <<w.name, w.content>>
    BY DEF Holds

\* What is asked for is what it does.
LEMMA UpdateHolds ==
    ASSUME NEW old \in Deployment, NEW new \in Seq(Workload), OnceNamed(old.workloads),
           OnceNamed(new), Net \notin NamesOf(new),
           \/ NamesOf(new) \subseteq NamesOf(old.workloads)
           \/ Holds(old.workloads) # {} /\ Holds(old.workloads) \subseteq Holds(new)
    PROVE  Holds(UpdateDeployment(old, new).workloads) = Holds(new)
<1> DEFINE ws == old.workloads
           V == old.version
           a == Added(old, new)
<1>1. PICK u : u = UpdateDeployment(old, new)
    OBVIOUS
<1>2. ToSet(u.workloads) = {w \in {Change(v, new, V) : v \in ToSet(ws)} \cup ToSet(a) : Kept(w, new)}
    BY <1>1, UpdateFacts
<1>3. \A v \in ToSet(ws) : Compares(Change(v, new, V), v, new, V)
  <2>1. V \in Nat /\ \A v \in ToSet(ws) : v \in Workload
      BY DeploymentShape
  <2> QED BY <2>1, ChangeFacts
<1>4. \A w \in ToSet(a) : /\ w.name \notin NamesOf(ws)
                          /\ \E v \in ToSet(new) : v.name = w.name /\ v.content = w.content
    BY AddedFacts
<1>5. \A v \in ToSet(new) : v.name \in NamesOf(new) /\ ~IsNet(v)
    BY SetOfNames DEF IsNet
<1>6. \A n \in NamesOf(new) : \E v \in ToSet(new) : v.name = n
  <2>1. NamesOf(new) = {w.name : w \in ToSet(new)}
      BY SetOfNames
  <2> QED BY <2>1
<1>7. \A n \in NamesOf(ws) : \E v \in ToSet(ws) : v.name = n
  <2>1. NamesOf(ws) = {w.name : w \in ToSet(ws)}
      BY SetOfNames
  <2> QED BY <2>1
<1> HIDE DEF a
\* What is in the update is asked for.
<1>8. ASSUME NEW w \in ToSet(u.workloads), ~IsNet(w)  PROVE <<w.name, w.content>> \in Holds(new)
  <2>1. w.name \in NamesOf(new)
      BY <1>2, <1>8 DEF Kept
  <2>2. CASE w \in ToSet(a)
    <3>1. PICK v \in ToSet(new) : v.name = w.name /\ v.content = w.content
        BY <1>4, <2>2
    <3> QED BY <1>5, <3>1, HoldsFacts
  <2>3. CASE w \notin ToSet(a)
    <3>1. PICK v \in ToSet(ws) : Compares(w, v, new, V)
        BY <1>2, <1>3, <2>3
    <3>2. PICK x \in ToSet(new) : x.name = w.name
        BY <1>6, <2>1
    <3>3. x.name = v.name /\ ~IsNet(x) /\ w.content = x.content
        BY <1>5, <3>1, <3>2 DEF Compares
    <3> QED BY <3>2, <3>3, HoldsFacts
  <2> QED BY <2>2, <2>3
\* What is asked for is in the update.
<1>9. ASSUME NEW x \in ToSet(new)
      PROVE  \E w \in ToSet(u.workloads) : ~IsNet(w) /\ w.name = x.name /\ w.content = x.content
  <2>1. x.name \in NamesOf(new) /\ ~IsNet(x)
      BY <1>5
  <2>2. CASE x.name \in NamesOf(ws)
    <3>1. PICK v \in ToSet(ws) : v.name = x.name
        BY <1>7, <2>2
    <3> DEFINE w == Change(v, new, V)
    <3>2. Compares(w, v, new, V)
        BY <1>3
    <3>3. w \in {Change(y, new, V) : y \in ToSet(ws)}
        OBVIOUS
    <3> HIDE DEF w
    <3>4. w.name = x.name /\ w.content = x.content
        BY <2>1, <3>1, <3>2 DEF Compares
    <3>5. w \in ToSet(u.workloads) /\ ~IsNet(w)
        BY <1>2, <2>1, <3>3, <3>4 DEF Kept, IsNet
    <3> QED BY <3>4, <3>5
  <2>3. CASE x.name \notin NamesOf(ws)
    <3>1. Holds(ws) # {} /\ Holds(ws) \subseteq Holds(new)
        BY <2>1, <2>3
    <3>2. PICK v \in ToSet(ws) : ~IsNet(v) /\ <<v.name, v.content>> \in Holds(ws)
        BY <3>1, HoldsFacts
    <3>3. PICK y \in ToSet(new) : <<v.name, v.content>> = <<y.name, y.content>>
        BY <3>1, <3>2, HoldsFacts
    <3>4. y.name = v.name /\ y.content = v.content
        BY <3>3
    <3>5. PICK i \in DOMAIN ws : ws[i] = v
        BY SetOfNames
    <3>6. i \in Compared(old, new)
        BY <1>5, <3>2, <3>4, <3>5 DEF Compared
    <3>7. Changing(ws[i], new) = {}
      <4>1. ASSUME NEW j \in Changing(ws[i], new)  PROVE FALSE
        <5>1. j \in DOMAIN new /\ new[j].name = v.name /\ new[j].content # v.content
            BY <3>5 DEF Changing, Visited, Differs
        <5>2. new[j] \in ToSet(new)
            BY <5>1, SetOfNames
        <5>3. new[j] = y
            BY <3>4, <5>1, <5>2, OnceEqual
        <5> QED BY <3>4, <5>1, <5>3
      <4> QED BY <4>1
    <3>8. PICK w \in ToSet(a) : w.name = x.name /\ w.content = x.content
        BY <2>3, <3>6, <3>7, AddedFacts DEF a
    <3>9. w \in ToSet(u.workloads) /\ ~IsNet(w)
        BY <1>2, <2>1, <3>8 DEF Kept, IsNet
    <3> QED BY <3>8, <3>9
  <2> QED BY <2>2, <2>3
<1>10. ASSUME NEW p \in Holds(u.workloads)  PROVE p \in Holds(new)
  <2>1. PICK w \in ToSet(u.workloads) : ~IsNet(w) /\ p = <<w.name, w.content>>
      BY <1>10, HoldsFacts
  <2> QED BY <1>8, <2>1
<1>11. ASSUME NEW p \in Holds(new)  PROVE p \in Holds(u.workloads)
  <2>1. PICK x \in ToSet(new) : p = <<x.name, x.content>>
      BY <1>11, HoldsFacts
  <2>2. PICK w \in ToSet(u.workloads) : ~IsNet(w) /\ w.name = x.name /\ w.content = x.content
      BY <1>9
  <2>3. p = <<w.name, w.content>>
      BY <2>1, <2>2
  <2> QED BY <2>2, <2>3, HoldsFacts
<1> QED BY <1>1, <1>10, <1>11
-----------------------------------------------------------------------------
(***************************************************************************)
(* _updateToLatest.                                                        *)
(***************************************************************************)
Twin == [operation : {"deploy", "update", "delete"}, node : Nodes \cup {0},
         contract_id : Ids \cup {0}, deployment : Deployment]

\* The workloads of a TwinDeployment.
WorkloadsOf(t) == t.deployment.workloads

\* The fields of a TwinDeployment.
LEMMA TwinShape ==
    ASSUME NEW t \in Twin
    PROVE  /\ t.operation \in {"deploy", "update", "delete"} /\ t.node \in Nodes \cup {0}
           /\ t.contract_id \in Ids \cup {0} /\ t.deployment \in Deployment
           /\ WorkloadsOf(t) \in Seq(Workload) /\ t.deployment.version \in Nat
           /\ \A w \in ToSet(WorkloadsOf(t)) : w \in Workload
<1>1. /\ t.operation \in {"deploy", "update", "delete"} /\ t.node \in Nodes \cup {0}
      /\ t.contract_id \in Ids \cup {0} /\ t.deployment \in Deployment
    BY DEF Twin
<1> QED BY <1>1, DeploymentShape DEF WorkloadsOf

\* All workloads of some updates.
AllOf(twins) == UNION {ToSet(WorkloadsOf(twins[i])) : i \in DOMAIN twins}

\* What workloadMap has for a name.
LEMMA VersionsFacts ==
    ASSUME NEW twins \in Seq(Twin), NEW n
    PROVE  /\ Versions(twins, n) \in Seq(Workload)
           /\ ToSet(Versions(twins, n)) = {w \in AllOf(twins) : w.name = n}
           /\ (\A i \in DOMAIN twins : OnceNamed(WorkloadsOf(twins[i]))) =>
                (Len(Versions(twins, n)) < Len(twins) <=>
                   \E i \in DOMAIN twins : n \notin NamesOf(WorkloadsOf(twins[i])))
<1> DEFINE ss == [i \in DOMAIN twins |-> Named(WorkloadsOf(twins[i]), n)]
<1>1. Len(twins) \in Nat /\ DOMAIN twins = 1..Len(twins) /\ \A i \in DOMAIN twins : twins[i] \in Twin
    OBVIOUS
<1>2. \A i \in DOMAIN twins : WorkloadsOf(twins[i]) \in Seq(Workload)
    BY <1>1, TwinShape
<1>3. /\ DOMAIN ss = DOMAIN twins
      /\ \A i \in DOMAIN twins : ss[i] = Named(WorkloadsOf(twins[i]), n)
    OBVIOUS
<1>4. Versions(twins, n) = FlattenSeq(ss)
    BY DEF Versions, WorkloadsOf
<1>5. \A i \in DOMAIN twins :
         /\ ss[i] \in Seq(Workload)
         /\ ToSet(ss[i]) = {w \in ToSet(WorkloadsOf(twins[i])) : w.name = n}
         /\ ss[i] = <<>> <=> n \notin NamesOf(WorkloadsOf(twins[i]))
         /\ OnceNamed(WorkloadsOf(twins[i])) => Len(ss[i]) <= 1
    BY <1>2, <1>3, NamedFacts
<1>6. ss \in Seq(Seq(Workload)) /\ Len(ss) = Len(twins)
  <2>1. ss \in [1..Len(twins) -> Seq(Workload)]
    <3>1. ss = [i \in 1..Len(twins) |-> ss[i]]
        BY <1>1
    <3>2. \A i \in 1..Len(twins) : ss[i] \in Seq(Workload)
        BY <1>1, <1>5
    <3> HIDE DEF ss
    <3> QED BY <3>1, <3>2
  <2> HIDE DEF ss
  <2> QED BY <1>1, <2>1
<1> HIDE DEF ss
<1>7. FlattenSeq(ss) \in Seq(Workload) /\ ToSet(FlattenSeq(ss)) = UNION {ToSet(ss[i]) : i \in DOMAIN ss}
    BY <1>6, SetOfFlatten
<1>8. UNION {ToSet(ss[i]) : i \in DOMAIN ss} = {w \in AllOf(twins) : w.name = n}
    BY <1>3, <1>5 DEF AllOf
<1>9. ASSUME \A i \in DOMAIN twins : OnceNamed(WorkloadsOf(twins[i]))
      PROVE  Len(FlattenSeq(ss)) < Len(twins) <=>
                   \E i \in DOMAIN twins : n \notin NamesOf(WorkloadsOf(twins[i]))
  <2>1. \A i \in DOMAIN ss : Len(ss[i]) <= 1
      BY <1>3, <1>5, <1>9
  <2>2. Len(FlattenSeq(ss)) < Len(ss) <=> \E i \in DOMAIN ss : ss[i] = <<>>
      BY <1>6, <2>1, FlattenShort
  <2> QED BY <1>3, <1>5, <1>6, <2>2
<1> QED BY <1>4, <1>7, <1>8, <1>9

\* The names of workloadMap, each once.
LEMMA FirstsFacts ==
    ASSUME NEW twins \in Seq(Twin)
    PROVE  /\ Firsts(twins) \in Seq(Workload) /\ OnceNamed(Firsts(twins))
           /\ NamesOf(Firsts(twins)) = {w.name : w \in AllOf(twins)}
<1> DEFINE ss == [i \in DOMAIN twins |-> twins[i].deployment.workloads]
           all == FlattenSeq(ss)
           I == {i \in DOMAIN all : \A j \in 1..(i - 1) : all[j].name # all[i].name}
<1>1. Len(twins) \in Nat /\ DOMAIN twins = 1..Len(twins) /\ \A i \in DOMAIN twins : twins[i] \in Twin
    OBVIOUS
<1>2. DOMAIN ss = DOMAIN twins /\ \A i \in DOMAIN twins : ss[i] \in Seq(Workload) /\ ss[i] = WorkloadsOf(twins[i])
    BY <1>1, TwinShape DEF WorkloadsOf
<1>3. ss \in Seq(Seq(Workload))
  <2>1. ss \in [1..Len(twins) -> Seq(Workload)]
      BY <1>1, <1>2
  <2> QED BY <1>1, <2>1
<1> HIDE DEF ss
<1>4. all \in Seq(Workload) /\ ToSet(all) = UNION {ToSet(ss[i]) : i \in DOMAIN ss}
    BY <1>3, SetOfFlatten
<1>5. ToSet(all) = AllOf(twins)
    BY <1>2, <1>4 DEF AllOf
<1>6. Firsts(twins) = Only(all, I)
    BY DEF Firsts, ss
<1> HIDE DEF all
<1>7. /\ Only(all, I) \in Seq(Workload) /\ OnceNamed(Only(all, I))
      /\ NamesOf(Only(all, I)) = NamesOf(all)
    BY <1>4, FirstOfEach
<1>8. NamesOf(all) = {w.name : w \in ToSet(all)}
    BY SetOfNames
<1> QED BY <1>5, <1>6, <1>7, <1>8

\* A TwinDeployment with other workloads, and the next version.
Revised(t, r) ==
    [t EXCEPT !.deployment.workloads = r, !.deployment.version = NextVersion(@)]

\* The merged deployment has the fields of the first, but for workloads and version.
LEMMA RevisedShape ==
    ASSUME NEW t \in Twin, NEW r
    PROVE  LET m == Revised(t, r) IN
           /\ WorkloadsOf(m) = r /\ m.deployment.version = t.deployment.version + 1
           /\ m.operation = t.operation /\ m.node = t.node /\ m.contract_id = t.contract_id
           /\ r \in Seq(Workload) => m \in Twin
<1>1. PICK op \in {"deploy", "update", "delete"}, node \in Nodes \cup {0}, id \in Ids \cup {0},
           d \in Deployment :
              t = [operation |-> op, node |-> node, contract_id |-> id, deployment |-> d]
    BY DEF Twin
<1>2. PICK v \in Nat, ws \in Seq(Workload) : d = [version |-> v, workloads |-> ws]
    BY DEF Deployment
<1>3. PICK m : m = Revised(t, r)
    OBVIOUS
<1>4. m = [operation |-> op, node |-> node, contract_id |-> id,
           deployment |-> [version |-> v + 1, workloads |-> r]]
    BY <1>1, <1>2, <1>3 DEF Revised, NextVersion
<1>5. r \in Seq(Workload) => [version |-> v + 1, workloads |-> r] \in Deployment
    BY DEF Deployment
<1>6. r \in Seq(Workload) => m \in Twin
    BY <1>4, <1>5 DEF Twin
<1> QED BY <1>1, <1>2, <1>3, <1>4, <1>6 DEF WorkloadsOf

\* What is in the merged deployment of several updates: of each name the newest,
\* unless some update lacks it.
LEMMA LatestMany ==
    ASSUME NEW twins \in Seq(Twin), Len(twins) # 1, twins # <<>>,
           NEW m, m = UpdateToLatest(twins)
    PROVE  /\ WorkloadsOf(m) \in Seq(Workload) /\ OnceNamed(WorkloadsOf(m))
           /\ \A w : w \in ToSet(WorkloadsOf(m)) <=>
                \E n \in {v.name : v \in AllOf(twins)} :
                   /\ ~Dropped(Versions(twins, n), Len(twins), Head(twins).deployment.version)
                   /\ w = Newest(Versions(twins, n))
<1> DEFINE version == Head(twins).deployment.version
           firsts == Firsts(twins)
           Goes(n) == Dropped(Versions(twins, n), Len(twins), version)
           K == {k \in DOMAIN firsts : ~Goes(firsts[k].name)}
           kept == Only(firsts, K)
           r == [k \in DOMAIN kept |-> Newest(Versions(twins, kept[k].name))]
           All == {v.name : v \in AllOf(twins)}
<1>1. WorkloadsOf(m) = r
  <2>1. Head(twins) \in Twin
      BY HeadTailProperties
  <2>2. m = Revised(Head(twins), r)
      BY DEF UpdateToLatest, Revised
  <2> HIDE DEF r
  <2> QED BY <2>1, <2>2, RevisedShape
<1>2. firsts \in Seq(Workload) /\ OnceNamed(firsts) /\ NamesOf(firsts) = All
    BY FirstsFacts
<1> HIDE DEF firsts, Goes
<1>3. K \in SUBSET DOMAIN firsts
    OBVIOUS
<1>4. kept \in Seq(Workload) /\ ToSet(kept) = {firsts[k] : k \in K} /\ OnceNamed(kept)
    BY <1>2, <1>3, SetOfOnly, OnlyOnce
<1>5. \A w : w \in ToSet(kept) => w.name \in All /\ ~Goes(w.name)
    BY <1>2, <1>4 DEF NamesOf
<1>6. \A n \in All : ~Goes(n) => \E w \in ToSet(kept) : w.name = n
  <2>1. ASSUME NEW n \in All, ~Goes(n)  PROVE \E w \in ToSet(kept) : w.name = n
    <3>1. PICK k \in DOMAIN firsts : firsts[k].name = n
        BY <1>2 DEF NamesOf
    <3> QED BY <1>4, <2>1, <3>1
  <2> QED BY <2>1
<1>7. \A n \in All : Newest(Versions(twins, n)) \in Workload /\ Newest(Versions(twins, n)).name = n
  <2>1. ASSUME NEW n \in All
        PROVE  Newest(Versions(twins, n)) \in Workload /\ Newest(Versions(twins, n)).name = n
    <3> DEFINE ws == Versions(twins, n)
    <3>1. ws \in Seq(Workload) /\ ToSet(ws) = {w \in AllOf(twins) : w.name = n}
        BY VersionsFacts
    <3>2. ToSet(ws) # {}
        BY <3>1
    <3> HIDE DEF ws
    <3>3. ws # <<>>
        BY <3>2 DEF ToSet
    <3>4. Newest(ws) \in ToSet(ws)
        BY <3>1, <3>3, NewestFacts
    <3>5. \A w \in ToSet(ws) : w \in Workload
        BY <3>1 DEF ToSet
    <3> QED BY <3>1, <3>4, <3>5 DEF ws
  <2> QED BY <2>1
<1> HIDE DEF kept, All
<1>8. \A k \in DOMAIN kept : kept[k] \in ToSet(kept)
    BY DEF ToSet
<1>9. DOMAIN r = DOMAIN kept /\ \A k \in DOMAIN kept :
         /\ r[k] = Newest(Versions(twins, kept[k].name))
         /\ r[k] \in Workload /\ r[k].name = kept[k].name
    BY <1>5, <1>7, <1>8
<1>10. r \in Seq(Workload)
  <2>1. Len(kept) \in Nat /\ DOMAIN kept = 1..Len(kept)
      BY <1>4
  <2>2. r = [k \in 1..Len(kept) |-> r[k]]
      BY <2>1
  <2> HIDE DEF r
  <2>3. \A k \in 1..Len(kept) : r[k] \in Workload
      BY <1>9, <2>1
  <2>4. r \in [1..Len(kept) -> Workload]
      BY <2>2, <2>3
  <2> QED BY <2>1, <2>4
<1> HIDE DEF r
<1>11. OnceNamed(r)
    BY <1>4, <1>9 DEF OnceNamed
<1>12. ASSUME NEW w
       PROVE  w \in ToSet(r) <=> \E n \in All : ~Goes(n) /\ w = Newest(Versions(twins, n))
  <2>1. ASSUME w \in ToSet(r)  PROVE \E n \in All : ~Goes(n) /\ w = Newest(Versions(twins, n))
    <3>1. PICK k \in DOMAIN kept : w = Newest(Versions(twins, kept[k].name))
        BY <1>9, <2>1 DEF ToSet
    <3> QED BY <1>5, <1>8, <3>1
  <2>2. ASSUME NEW n \in All, ~Goes(n), w = Newest(Versions(twins, n))  PROVE w \in ToSet(r)
    <3>1. PICK v \in ToSet(kept) : v.name = n
        BY <1>6, <2>2
    <3>2. PICK k \in DOMAIN kept : kept[k] = v
        BY DEF ToSet
    <3>3. r[k] = w
        BY <1>9, <2>2, <3>1, <3>2
    <3> QED BY <1>9, <3>3 DEF ToSet
  <2> QED BY <2>1, <2>2
<1> QED BY <1>1, <1>10, <1>11, <1>12 DEF All, Goes

\* Updates of one deployment, d.
Updates(twins, d) ==
    /\ twins \in Seq(Twin) /\ twins # <<>>
    /\ \A i \in DOMAIN twins :
         /\ twins[i].deployment.version = d.version /\ OnceNamed(WorkloadsOf(twins[i]))
         /\ \A w \in ToSet(WorkloadsOf(twins[i])) : Edited(w, d)

\* An edited workload is at most one version ahead of the deployment.
LEMMA EditedBound ==
    ASSUME NEW d \in Deployment, Sound(d), NEW w \in Workload, Edited(w, d)
    PROVE  w.version <= d.version + 1
<1>1. d.version \in Nat /\ w.version \in Nat /\ \A v \in ToSet(d.workloads) : v.version \in Nat
    BY DeploymentShape, WorkloadShape
<1>2. CASE w.name \notin NamesOf(d.workloads)
    BY <1>1, <1>2 DEF Edited
<1>3. CASE w.name \in NamesOf(d.workloads)
  <2>1. NamesOf(d.workloads) = {v.name : v \in ToSet(d.workloads)}
      BY SetOfNames
  <2>2. PICK v \in ToSet(d.workloads) : v.name = w.name
      BY <1>3, <2>1
  <2>3. v.version <= d.version /\ v.version \in Nat
      BY <1>1 DEF Sound
  <2>4. w = v \/ w.version = d.version + 1 \/ w.version = v.version + 1
      BY <2>2 DEF Edited
  <2> QED BY <1>1, <2>3, <2>4
<1> QED BY <1>2, <1>3

\* What updates of a sound deployment have in them.
LEMMA AllOfFacts ==
    ASSUME NEW d \in Deployment, Sound(d), NEW twins, Updates(twins, d)
    PROVE  /\ Head(twins) \in Twin /\ Head(twins) = twins[1] /\ 1 \in DOMAIN twins
           /\ Len(twins) \in Nat /\ DOMAIN twins = 1..Len(twins)
           /\ \A i \in DOMAIN twins : twins[i] \in Twin
           /\ \A w \in AllOf(twins) :
                w \in Workload /\ Edited(w, d) /\ w.version <= d.version + 1
<1>1. twins \in Seq(Twin) /\ twins # <<>>
    BY DEF Updates
<1>2. /\ Head(twins) \in Twin /\ Head(twins) = twins[1] /\ 1 \in DOMAIN twins
      /\ Len(twins) \in Nat /\ DOMAIN twins = 1..Len(twins)
      /\ \A i \in DOMAIN twins : twins[i] \in Twin
    BY <1>1, HeadTailProperties, EmptySeq
<1>3. ASSUME NEW w \in AllOf(twins)
      PROVE  w \in Workload /\ Edited(w, d) /\ w.version <= d.version + 1
  <2>1. PICK i \in DOMAIN twins : w \in ToSet(WorkloadsOf(twins[i]))
      BY <1>3 DEF AllOf
  <2>2. w \in Workload
      BY <1>2, <2>1, TwinShape
  <2>3. Edited(w, d)
      BY <2>1 DEF Updates
  <2> QED BY <2>2, <2>3, EditedBound
<1> QED BY <1>2, <1>3

\* The merged update of a contract: the next version, each workload once, and
\* nothing that is in none of the updates.
LEMMA LatestFacts ==
    ASSUME NEW d \in Deployment, Sound(d), NEW twins, Updates(twins, d),
           NEW m, m = UpdateToLatest(twins)
    PROVE  /\ m \in Twin /\ m.operation = Head(twins).operation /\ m.node = Head(twins).node
           /\ m.contract_id = Head(twins).contract_id
           /\ m.deployment.version = d.version + 1 /\ Sound(m.deployment)
           /\ ToSet(WorkloadsOf(m)) \subseteq AllOf(twins)
<1>1. PICK h : h = Head(twins)
    OBVIOUS
<1>2. /\ h \in Twin /\ h = twins[1] /\ 1 \in DOMAIN twins
      /\ \A w \in AllOf(twins) : w \in Workload /\ Edited(w, d) /\ w.version <= d.version + 1
      /\ twins \in Seq(Twin) /\ twins # <<>> /\ Len(twins) \in Nat
    BY <1>1, AllOfFacts DEF Updates
<1>3. h.deployment.version = d.version /\ OnceNamed(WorkloadsOf(h))
    BY <1>2 DEF Updates
<1>4. \E r : m = Revised(h, r)
    BY <1>1 DEF UpdateToLatest, Revised
<1>5. PICK r : m = Revised(h, r)
    BY <1>4
<1>6. /\ WorkloadsOf(m) = r /\ m.deployment.version = d.version + 1
      /\ m.operation = h.operation /\ m.node = h.node /\ m.contract_id = h.contract_id
      /\ r \in Seq(Workload) => m \in Twin
    BY <1>2, <1>3, <1>5, RevisedShape
<1>7. r \in Seq(Workload) /\ OnceNamed(r) /\ ToSet(r) \subseteq AllOf(twins)
  <2>1. CASE Len(twins) = 1
    <3>1. m = Revised(h, WorkloadsOf(h))
        BY <1>1, <2>1 DEF UpdateToLatest, Revised, WorkloadsOf
    <3>2. r = WorkloadsOf(h)
        BY <1>2, <1>6, <3>1, RevisedShape
    <3> QED BY <1>2, <1>3, <3>2, TwinShape DEF AllOf
  <2>2. CASE Len(twins) # 1
    <3>1. /\ r \in Seq(Workload) /\ OnceNamed(r)
          /\ \A w \in ToSet(r) : \E n \in {v.name : v \in AllOf(twins)} :
                w = Newest(Versions(twins, n))
        BY <1>2, <1>6, <2>2, LatestMany
    <3>2. ASSUME NEW n \in {v.name : v \in AllOf(twins)}
          PROVE  Newest(Versions(twins, n)) \in AllOf(twins)
      <4>1. PICK ws : ws = Versions(twins, n)
          OBVIOUS
      <4>2. ws \in Seq(Workload) /\ ToSet(ws) = {w \in AllOf(twins) : w.name = n}
          BY <1>2, <4>1, VersionsFacts
      <4>3. ws # <<>>
        <5>1. ToSet(ws) # {}
            BY <4>2
        <5> QED BY <5>1 DEF ToSet
      <4>4. Newest(ws) \in ToSet(ws)
          BY <4>2, <4>3, NewestFacts
      <4> QED BY <4>1, <4>2, <4>4
    <3> QED BY <3>1, <3>2
  <2> QED BY <2>1, <2>2
<1>8. Sound(m.deployment)
  <2>1. OnceNamed(m.deployment.workloads) /\ m.deployment.workloads = r
      BY <1>6, <1>7 DEF WorkloadsOf
  <2>2. \A w \in ToSet(r) : w.version <= m.deployment.version
      BY <1>2, <1>6, <1>7
  <2> QED BY <2>1, <2>2 DEF Sound
<1> QED BY <1>1, <1>6, <1>7, <1>8

\* What workloads have for a name.
LEMMA AtFacts ==
    ASSUME NEW ws \in Seq(Workload), NEW n
    PROVE  /\ At(ws, n) = {w \in ToSet(ws) : w.name = n}
           /\ At(ws, n) = {} <=> n \notin NamesOf(ws)
           /\ OnceNamed(ws) => \A v, w \in At(ws, n) : v = w
<1>1. At(ws, n) = {w \in ToSet(ws) : w.name = n}
    BY NamedFacts DEF At
<1>2. NamesOf(ws) = {w.name : w \in ToSet(ws)}
    BY SetOfNames
<1>3. ASSUME OnceNamed(ws), NEW v \in At(ws, n), NEW w \in At(ws, n)  PROVE v = w
    BY <1>1, <1>3, OnceEqual
<1> QED BY <1>1, <1>2, <1>3

\* What the updates have of a name, and what is left of it.
Some(twins, n) == {w \in AllOf(twins) : w.name = n}
Left(twins, n, d, R) ==
    \E h, x \in Some(twins, n) :
       /\ \A w \in Some(twins, n) : w.version <= x.version
       /\ R = IF /\ \E i \in DOMAIN twins : At(WorkloadsOf(twins[i]), n) = {}
                 /\ h.version <= d.version
              THEN {} ELSE {x}

\* What _updateToLatest leaves for a name.
LEMMA LatestAt ==
    ASSUME NEW d \in Deployment, Sound(d), NEW twins, Updates(twins, d), NEW n,
           NEW R, R = At(WorkloadsOf(UpdateToLatest(twins)), n)
    PROVE  /\ Len(twins) = 1 => R = At(WorkloadsOf(twins[1]), n)
           /\ Len(twins) # 1 /\ Some(twins, n) = {} => R = {}
           /\ Len(twins) # 1 /\ Some(twins, n) # {} => Left(twins, n, d, R)
<1>1. PICK m : m = UpdateToLatest(twins)
    OBVIOUS
<1>2. m \in Twin /\ ToSet(WorkloadsOf(m)) \subseteq AllOf(twins)
    BY <1>1, LatestFacts
<1>3. WorkloadsOf(m) \in Seq(Workload)
    BY <1>2, TwinShape
<1>4. R = {w \in ToSet(WorkloadsOf(m)) : w.name = n}
    BY <1>1, <1>3, AtFacts
<1>5. /\ twins \in Seq(Twin) /\ twins # <<>> /\ Len(twins) \in Nat /\ Head(twins) = twins[1]
      /\ 1 \in DOMAIN twins
      /\ \A i \in DOMAIN twins : twins[i] \in Twin
      /\ \A i \in DOMAIN twins : OnceNamed(WorkloadsOf(twins[i]))
      /\ twins[1].deployment.version = d.version
    BY AllOfFacts DEF Updates
<1>6. ASSUME Len(twins) = 1  PROVE R = At(WorkloadsOf(twins[1]), n)
  <2>1. PICK h : h = Head(twins)
      OBVIOUS
  <2>2. m = Revised(h, WorkloadsOf(h))
      BY <1>1, <1>6, <2>1 DEF UpdateToLatest, Revised, WorkloadsOf
  <2>3. WorkloadsOf(m) = WorkloadsOf(h)
      BY <1>5, <2>1, <2>2, RevisedShape
  <2> QED BY <1>1, <1>5, <2>1, <2>3
<1>7. ASSUME Some(twins, n) = {}  PROVE R = {}
    BY <1>2, <1>4, <1>7 DEF Some
<1>8. ASSUME Len(twins) # 1, Some(twins, n) # {}  PROVE Left(twins, n, d, R)
  <2>1. PICK ws : ws = Versions(twins, n)
      OBVIOUS
  <2>2. /\ ws \in Seq(Workload) /\ ToSet(ws) = Some(twins, n)
        /\ Len(ws) < Len(twins) <=>
             \E i \in DOMAIN twins : n \notin NamesOf(WorkloadsOf(twins[i]))
      BY <1>5, <2>1, VersionsFacts DEF Some
  <2>3. ws # <<>>
      BY <1>8, <2>2 DEF ToSet
  <2>4. Newest(ws) \in ToSet(ws) /\ \A w \in ToSet(ws) : w.version <= Newest(ws).version
      BY <2>2, <2>3, NewestFacts
  <2>5. Head(ws) \in ToSet(ws)
    <3>1. Head(ws) = ws[1] /\ 1 \in DOMAIN ws
        BY <2>2, <2>3, EmptySeq
    <3> QED BY <3>1 DEF ToSet
  <2>6. Len(ws) < Len(twins) <=> \E i \in DOMAIN twins : At(WorkloadsOf(twins[i]), n) = {}
    <3>1. \A i \in DOMAIN twins : At(WorkloadsOf(twins[i]), n) = {} <=>
                                    n \notin NamesOf(WorkloadsOf(twins[i]))
        BY <1>5, TwinShape, AtFacts
    <3> QED BY <2>2, <3>1
  <2>7. \A w : w \in ToSet(WorkloadsOf(m)) <=>
                \E k \in {v.name : v \in AllOf(twins)} :
                   /\ ~Dropped(Versions(twins, k), Len(twins), d.version)
                   /\ w = Newest(Versions(twins, k))
      BY <1>1, <1>5, <1>8, LatestMany, ZenonT(60)
  <2>8. n \in {v.name : v \in AllOf(twins)}
      BY <1>8 DEF Some
  <2>9. \A k \in {v.name : v \in AllOf(twins)} : Newest(Versions(twins, k)).name = k
    <3>1. ASSUME NEW k \in {v.name : v \in AllOf(twins)}
          PROVE  Newest(Versions(twins, k)).name = k
      <4>1. PICK vs : vs = Versions(twins, k)
          OBVIOUS
      <4>2. vs \in Seq(Workload) /\ ToSet(vs) = {w \in AllOf(twins) : w.name = k}
          BY <1>5, <4>1, VersionsFacts
      <4>3. vs # <<>>
        <5>1. ToSet(vs) # {}
            BY <4>2
        <5> QED BY <5>1 DEF ToSet
      <4> QED BY <4>1, <4>2, <4>3, NewestFacts
    <3> QED BY <3>1
  <2>10. R = IF Dropped(ws, Len(twins), d.version) THEN {} ELSE {Newest(ws)}
    <3>1. ASSUME NEW w \in R  PROVE ~Dropped(ws, Len(twins), d.version) /\ w = Newest(ws)
        BY <1>4, <2>1, <2>7, <2>9
    <3>2. ASSUME ~Dropped(ws, Len(twins), d.version)  PROVE Newest(ws) \in R
        BY <1>4, <2>1, <2>7, <2>8, <2>9, <3>2
    <3> QED BY <3>1, <3>2
  <2>11. R = IF /\ \E i \in DOMAIN twins : At(WorkloadsOf(twins[i]), n) = {}
                /\ Head(ws).version <= d.version
             THEN {} ELSE {Newest(ws)}
      BY <2>6, <2>10 DEF Dropped
  <2>12. Head(ws) \in Some(twins, n) /\ Newest(ws) \in Some(twins, n)
         /\ \A w \in Some(twins, n) : w.version <= Newest(ws).version
      BY <2>2, <2>4, <2>5
  <2> QED BY <2>11, <2>12 DEF Left
<1> QED BY <1>6, <1>7, <1>8

\* The elements of a set of one at most are equal.
LEMMA AtMostOne ==
    ASSUME NEW S, IsFiniteSet(S), Cardinality(S) <= 1
    PROVE  \A x, y \in S : x = y
<1>1. ASSUME NEW x \in S, NEW y \in S, x # y  PROVE FALSE
  <2>1. IsFiniteSet({x}) /\ Cardinality({x}) = 1
      BY FS_Singleton
  <2>2. Cardinality({x} \cup {y}) = 2
      BY <1>1, <2>1, FS_AddElement, SMTT(30)
  <2>3. {x} \cup {y} \subseteq S
      OBVIOUS
  <2>4. Cardinality({x} \cup {y}) <= Cardinality(S)
      BY <2>3, FS_Subset
  <2>5. Cardinality(S) \in Nat
      BY FS_CardinalityType
  <2> QED BY <2>2, <2>4, <2>5
<1> QED BY <1>1

\* Of a name that the updates do one thing with, the merged update has what it is.
LEMMA LatestApplies ==
    ASSUME NEW d \in Deployment, Sound(d), NEW twins, Updates(twins, d), NEW n,
           NEW B, B = At(d.workloads, n),
           NEW E, E = {At(WorkloadsOf(twins[i]), n) : i \in DOMAIN twins} \ {B},
           Cardinality(E) <= 1
    PROVE  At(WorkloadsOf(UpdateToLatest(twins)), n) = IF E = {} THEN B ELSE UNION E
<1> DEFINE P(i) == At(WorkloadsOf(twins[i]), n)
<1>1. PICK R : R = At(WorkloadsOf(UpdateToLatest(twins)), n)
    OBVIOUS
<1>2. /\ Len(twins) \in Nat /\ DOMAIN twins = 1..Len(twins) /\ 1 \in DOMAIN twins
      /\ \A i \in DOMAIN twins : twins[i] \in Twin /\ OnceNamed(WorkloadsOf(twins[i]))
      /\ \A w \in AllOf(twins) : w \in Workload /\ Edited(w, d)
    BY AllOfFacts DEF Updates
<1>3. \A x, y \in E : x = y
  <2> DEFINE F == {P(i) : i \in 1..Len(twins)}
             f == [i \in 1..Len(twins) |-> P(i)]
  <2>1. IsFiniteSet(1..Len(twins))
      BY <1>2, FS_Interval
  <2>2. f \in Surjection(1..Len(twins), F)
      BY DEF Surjection
  <2>3. IsFiniteSet(F)
      BY <2>1, <2>2, FS_Surjection
  <2>4. E \subseteq F
      BY <1>2
  <2>5. IsFiniteSet(E)
      BY <2>3, <2>4, FS_Subset
  <2> QED BY <2>5, AtMostOne
<1>4. \A i \in DOMAIN twins :
         /\ P(i) = {w \in ToSet(WorkloadsOf(twins[i])) : w.name = n}
         /\ \A v, w \in P(i) : v = w
    BY <1>2, TwinShape, AtFacts
<1>5. /\ B = {w \in ToSet(d.workloads) : w.name = n} /\ \A v, w \in B : v = w
      /\ B = {} <=> n \notin NamesOf(d.workloads)
    BY DeploymentShape, AtFacts DEF Sound
<1>6. \A w : w \in Some(twins, n) <=> \E i \in DOMAIN twins : w \in P(i)
    BY <1>4 DEF Some, AllOf
<1>7. \A i \in DOMAIN twins : P(i) = B \/ P(i) \in E
    OBVIOUS
<1>8. \A e \in E : e # B /\ \E i \in DOMAIN twins : e = P(i)
    OBVIOUS
<1>9. \A w \in Some(twins, n) :
         /\ w \in Workload /\ w.version \in Nat
         /\ B = {} => w.version = d.version + 1
         /\ \A v \in B : w = v \/ w.version = d.version + 1 \/ w.version = v.version + 1
  <2>1. ASSUME NEW w \in Some(twins, n)
        PROVE  /\ w \in Workload /\ w.version \in Nat
               /\ B = {} => w.version = d.version + 1
               /\ \A v \in B : w = v \/ w.version = d.version + 1 \/ w.version = v.version + 1
    <3>1. w \in Workload /\ Edited(w, d) /\ w.name = n
        BY <1>2 DEF Some
    <3> QED BY <1>5, <3>1, WorkloadShape DEF Edited
  <2> QED BY <2>1
<1>10. d.version \in Nat /\ \A v \in B : v.version \in Nat /\ v.version <= d.version
    BY <1>5, DeploymentShape, WorkloadShape DEF Sound
<1>11. /\ Len(twins) = 1 => R = P(1)
       /\ Len(twins) # 1 /\ Some(twins, n) = {} => R = {}
       /\ Len(twins) # 1 /\ Some(twins, n) # {} => Left(twins, n, d, R)
    BY <1>1, LatestAt
<1>12. Some(twins, n) # {} /\ Len(twins) # 1 => \E h, x \in Some(twins, n) :
         /\ \A w \in Some(twins, n) : w.version <= x.version
         /\ R = IF (\E i \in DOMAIN twins : P(i) = {}) /\ h.version <= d.version
                THEN {} ELSE {x}
    BY <1>11 DEF Left
<1> HIDE DEF P
<1>13. CASE Len(twins) = 1
  <2>1. R = P(1) /\ \A i \in DOMAIN twins : i = 1
      BY <1>2, <1>11, <1>13
  <2>2. E = {} => R = B
      BY <1>2, <1>7, <2>1
  <2>3. \A e \in E : e = R
      BY <1>8, <2>1
  <2>4. E # {} => UNION E = R
      BY <2>3
  <2> QED BY <1>1, <2>2, <2>4
<1>14. CASE Len(twins) # 1 /\ E = {}
  <2>1. \A i \in DOMAIN twins : P(i) = B
      BY <1>7, <1>14
  <2>2. Some(twins, n) = B
      BY <1>2, <1>6, <2>1
  <2>3. CASE B = {}
      BY <1>1, <1>11, <1>14, <2>2, <2>3
  <2>4. CASE B # {}
    <3>1. PICK x \in B : R = {x}
        BY <1>12, <1>14, <2>1, <2>2, <2>4
    <3>2. B = {x}
        BY <1>5, <3>1
    <3> QED BY <1>1, <1>14, <3>1, <3>2
  <2> QED BY <2>3, <2>4
<1>15. CASE Len(twins) # 1 /\ E # {}
  <2>1. PICK e \in E : E = {e}
      BY <1>3, <1>15
  <2>2. UNION E = e
      BY <2>1
  <2>3. PICK k \in DOMAIN twins : e = P(k)
      BY <1>8
  <2>4. e # B /\ \A i \in DOMAIN twins : P(i) = B \/ P(i) = e
      BY <1>7, <1>8, <2>1
  <2>5. \A w : w \in Some(twins, n) => w \in B \/ w \in e
      BY <1>6, <2>4
  <2>6. R = e
    <3>1. CASE e = {}
      <4>1. \A h \in Some(twins, n) : h.version <= d.version
          BY <1>10, <2>5, <3>1
      <4> QED BY <1>11, <1>12, <1>15, <2>3, <3>1, <4>1
    <3>2. CASE e # {}
      <4>1. PICK w \in e : e = {w}
          BY <1>4, <2>3, <3>2
      <4>2. w \in Some(twins, n)
          BY <1>6, <2>3, <4>1
      <4>3. PICK h \in Some(twins, n), x \in Some(twins, n) :
               /\ \A v \in Some(twins, n) : v.version <= x.version
               /\ R = IF (\E i \in DOMAIN twins : P(i) = {}) /\ h.version <= d.version
                      THEN {} ELSE {x}
          BY <1>12, <1>15, <4>2
      <4>4. CASE B = {}
        <5>1. h = w /\ x = w
            BY <2>5, <4>1, <4>3, <4>4
        <5>2. ~(h.version <= d.version)
            BY <1>9, <1>10, <4>4
        <5> QED BY <4>1, <4>3, <5>1, <5>2
      <4>5. CASE B # {}
        <5>1. PICK b \in B : B = {b}
            BY <1>5, <4>5
        <5>2. R = {x}
            BY <2>4, <3>2, <4>3, <4>5
        <5>3. w # b
            BY <2>4, <4>1, <5>1
        <5>4. b.version \in Nat /\ b.version <= d.version /\ d.version \in Nat
            BY <1>10
        <5>5. w.version > b.version
          <6>1. w.version = d.version + 1 \/ w.version = b.version + 1
              BY <1>9, <4>2, <5>3
          <6> QED BY <5>4, <6>1
        <5>6. x # b
          <6>1. w.version <= x.version /\ w.version \in Nat
              BY <1>9, <4>2, <4>3
          <6> QED BY <5>4, <5>5, <6>1
        <5>7. x = w
            BY <2>5, <4>1, <4>3, <5>1, <5>6
        <5> QED BY <4>1, <5>2, <5>7
      <4> QED BY <4>4, <4>5
    <3> QED BY <3>1, <3>2
  <2> QED BY <1>1, <1>15, <2>2, <2>6
<1> QED BY <1>13, <1>14, <1>15
-----------------------------------------------------------------------------
(***************************************************************************)
(* What a batch may hold, when the contracts L have the deployments dep.   *)
(***************************************************************************)
Valid(t, L, dep) ==
    /\ t.operation = "deploy" =>
         /\ t.node \in Nodes /\ t.contract_id = 0
         /\ t.deployment.version = 0 /\ Sound(t.deployment)
    /\ t.operation = "update" =>
         /\ t.contract_id \in L /\ t.deployment.version = dep[t.contract_id].version
         /\ OnceNamed(WorkloadsOf(t))
         /\ \A w \in ToSet(WorkloadsOf(t)) : Edited(w, dep[t.contract_id])
    /\ t.operation = "delete" => t.contract_id \in L

\* What is deployed on one node in one call is named differently.
Apart(s) ==
    \A i, j \in DOMAIN s :
        (/\ i # j /\ s[i].operation = "deploy" /\ s[j].operation = "deploy"
         /\ s[i].node = s[j].node)
        => NamesOf(WorkloadsOf(s[i])) \cap NamesOf(WorkloadsOf(s[j])) = {}

\* A batch, all of it valid.
Asked(b, L, dep) ==
    /\ b \in Seq(Twin) /\ Apart(b)
    /\ \A i \in DOMAIN b : Valid(b[i], L, dep)

\* A part of a batch may be in a batch.
LEMMA AskedOnly ==
    ASSUME NEW L, NEW dep, NEW b, Asked(b, L, dep), NEW I \in SUBSET DOMAIN b
    PROVE  /\ Asked(Only(b, I), L, dep)
           /\ \A i \in DOMAIN Only(b, I) : \E k \in I : Only(b, I)[i] = b[k]
           /\ \A k \in I : \E i \in DOMAIN Only(b, I) : Only(b, I)[i] = b[k]
<1>1. b \in Seq(Twin)
    BY DEF Asked
<1>2a. PICK n \in Nat : \E g : Picks(Twin, b, I, n, g)
    BY <1>1, OnlyFacts
<1>2. PICK g : Picks(Twin, b, I, n, g)
    BY <1>2a
<1>3. PICK s : s = Only(b, I)
    OBVIOUS
<1>4. /\ s \in Seq(Twin) /\ DOMAIN s = 1..n
      /\ \A k \in 1..n : g[k] \in I /\ g[k] \in Nat /\ s[k] = b[g[k]]
      /\ \A i, j \in 1..n : i < j => g[i] < g[j]
      /\ \A x \in I : \E k \in 1..n : g[k] = x
    BY <1>2, <1>3 DEF Picks, Counts
<1>5. \A i, j \in 1..n : i # j => g[i] # g[j]
  <2>1. ASSUME NEW i \in 1..n, NEW j \in 1..n, i # j  PROVE g[i] # g[j]
    <3>1. i < j \/ j < i
        BY <2>1
    <3> QED BY <1>4, <3>1
  <2> QED BY <2>1
<1>6. Apart(b) /\ \A i \in DOMAIN b : Valid(b[i], L, dep)
    BY DEF Asked
<1>7. Apart(s)
  <2>1. ASSUME NEW i \in 1..n, NEW j \in 1..n, i # j,
               s[i].operation = "deploy", s[j].operation = "deploy", s[i].node = s[j].node
        PROVE  NamesOf(WorkloadsOf(s[i])) \cap NamesOf(WorkloadsOf(s[j])) = {}
    <3>1. PICK x \in DOMAIN b, y \in DOMAIN b : x = g[i] /\ y = g[j]
        BY <1>4
    <3>2. x # y /\ s[i] = b[x] /\ s[j] = b[y]
        BY <1>4, <1>5, <2>1, <3>1
    <3> QED BY <1>6, <2>1, <3>2 DEF Apart
  <2> QED BY <1>4, <2>1 DEF Apart
<1>8. \A i \in DOMAIN s : Valid(s[i], L, dep)
  <2>1. ASSUME NEW i \in 1..n  PROVE Valid(s[i], L, dep)
    <3>1. PICK x \in DOMAIN b : x = g[i] /\ s[i] = b[x]
        BY <1>4
    <3> QED BY <1>6, <3>1
  <2> QED BY <1>4, <2>1
<1>9. Asked(s, L, dep)
    BY <1>4, <1>7, <1>8 DEF Asked
<1>10. \A i \in DOMAIN s : \E k \in I : s[i] = b[k]
    BY <1>4
<1>11. \A k \in I : \E i \in DOMAIN s : s[i] = b[k]
    BY <1>4
<1> QED BY <1>3, <1>9, <1>10, <1>11

\* The requests of one kind.
LEMMA OfFacts ==
    ASSUME NEW L, NEW dep, NEW b, Asked(b, L, dep), NEW op
    PROVE  /\ Asked(Of(b, op), L, dep)
           /\ \A i \in DOMAIN Of(b, op) : Of(b, op)[i].operation = op
           /\ \A k \in DOMAIN b : b[k].operation = op =>
                \E i \in DOMAIN Of(b, op) : Of(b, op)[i] = b[k]
<1> DEFINE At0 == {i \in DOMAIN b : b[i].operation = op}
<1>0. /\ At0 \in SUBSET DOMAIN b /\ Of(b, op) = Only(b, At0)
      /\ \A i \in DOMAIN b : i \in At0 <=> b[i].operation = op
    BY DEF Of
<1> HIDE DEF At0
<1>1. PICK I \in SUBSET DOMAIN b :
         /\ \A i \in DOMAIN b : i \in I <=> b[i].operation = op
         /\ Of(b, op) = Only(b, I)
    BY <1>0
<1>2. /\ Asked(Only(b, I), L, dep)
      /\ \A i \in DOMAIN Only(b, I) : \E k \in I : Only(b, I)[i] = b[k]
      /\ \A k \in I : \E i \in DOMAIN Only(b, I) : Only(b, I)[i] = b[k]
    BY <1>1, AskedOnly
<1> QED BY <1>1, <1>2

\* The keys of a Map whose keys are numbers.
LEMMA KeysFacts ==
    ASSUME NEW n \in Nat, NEW ks \in [1..n -> Nat], NEW K, K = {ks[i] : i \in 1..n}
    PROVE  \E m \in Nat : Counts(Ascending(K), m, K)
<1>1. IsFiniteSet(1..n)
    BY FS_Interval
<1>2. ks \in Surjection(1..n, K)
    BY DEF Surjection
<1>3. IsFiniteSet(K) /\ K \in SUBSET Nat
    BY <1>1, <1>2, FS_Surjection
<1> QED BY <1>3, AscendingCounts

\* A segment of a sequence.
LEMMA OnlySegment ==
    ASSUME NEW T, NEW s \in Seq(T), NEW t \in Seq(T), NEW p \in Nat,
           p + Len(t) <= Len(s), \A k \in 1..Len(t) : s[p + k] = t[k],
           NEW I \in SUBSET DOMAIN s,
           \A i \in DOMAIN s : i \in I <=> p < i /\ i <= p + Len(t)
    PROVE  Only(s, I) = t
<1>1. PICK n \in Nat : n = Len(t) /\ DOMAIN t = 1..n
    OBVIOUS
<1>2. PICK m \in Nat : m = Len(s) /\ DOMAIN s = 1..m
    OBVIOUS
<1> DEFINE g == [k \in 1..n |-> p + k]
<1>3. p + n <= m /\ \A i : i \in I <=> i \in 1..m /\ p < i /\ i <= p + n
  <2>1. p + n <= m
      BY <1>1, <1>2
  <2>2. \A i \in 1..m : i \in I <=> p < i /\ i <= p + n
      BY <1>1, <1>2
  <2>3. I \subseteq 1..m
      BY <1>2
  <2> QED BY <2>1, <2>2, <2>3
<1>4. ASSUME NEW k \in 1..n  PROVE p + k \in I
  <2>1. p + k \in 1..m /\ p < p + k /\ p + k <= p + n
      BY <1>3
  <2> QED BY <1>3, <2>1
<1>5. ASSUME NEW x \in I  PROVE x - p \in 1..n /\ p + (x - p) = x
    BY <1>3
<1>6. Counts(g, n, I)
  <2>1. g \in [1..n -> I]
      BY <1>4
  <2>2. \A i, j \in 1..n : i < j => g[i] < g[j]
      OBVIOUS
  <2>3. \A x \in I : \E k \in 1..n : g[k] = x
      BY <1>5
  <2> QED BY <2>1, <2>2, <2>3 DEF Counts
<1>7. Only(s, I) = [k \in 1..n |-> s[g[k]]]
  <2> HIDE DEF g
  <2> QED BY <1>6, OnlyIs
<1>8. [k \in 1..n |-> s[g[k]]] = [k \in 1..n |-> t[k]]
    BY <1>1
<1>9. t = [k \in 1..n |-> t[k]]
    BY <1>1
<1> QED BY <1>7, <1>8, <1>9
-----------------------------------------------------------------------------
(***************************************************************************)
(* deployMerge.                                                            *)
(***************************************************************************)
\* A TwinDeployment with other workloads.
Holding(t, r) == [t EXCEPT !.deployment.workloads = r]

\* The joined deployment has the fields of the first, but for the workloads.
LEMMA HoldingShape ==
    ASSUME NEW t \in Twin, NEW r
    PROVE  LET m == Holding(t, r) IN
           /\ WorkloadsOf(m) = r /\ m.deployment.version = t.deployment.version
           /\ m.operation = t.operation /\ m.node = t.node /\ m.contract_id = t.contract_id
           /\ r \in Seq(Workload) => m \in Twin
<1>1. PICK op \in {"deploy", "update", "delete"}, node \in Nodes \cup {0}, id \in Ids \cup {0},
           d \in Deployment :
              t = [operation |-> op, node |-> node, contract_id |-> id, deployment |-> d]
    BY DEF Twin
<1>2. PICK v \in Nat, ws \in Seq(Workload) : d = [version |-> v, workloads |-> ws]
    BY DEF Deployment
<1>3. PICK m : m = Holding(t, r)
    OBVIOUS
<1>4. m = [operation |-> op, node |-> node, contract_id |-> id,
           deployment |-> [version |-> v, workloads |-> r]]
    BY <1>1, <1>2, <1>3 DEF Holding
<1>5. r \in Seq(Workload) => [version |-> v, workloads |-> r] \in Deployment
    BY DEF Deployment
<1>6. r \in Seq(Workload) => m \in Twin
    BY <1>4, <1>5 DEF Twin
<1> QED BY <1>1, <1>2, <1>3, <1>4, <1>6 DEF WorkloadsOf

\* All of it is deployed on one node.
AllTo(ts, node) == \A i \in DOMAIN ts : ts[i].operation = "deploy" /\ ts[i].node = node

\* One deployment with the workloads of all those for a node.
LEMMA JoinFacts ==
    ASSUME NEW L, NEW dep, NEW ts, Asked(ts, L, dep), ts # <<>>, NEW node,
           AllTo(ts, node), NEW t, t = Join(ts)
    PROVE  /\ t \in Twin /\ Valid(t, L, dep)
           /\ t.operation = "deploy" /\ t.node = node
           /\ WorkloadsOf(t) = FlattenSeq([i \in DOMAIN ts |-> WorkloadsOf(ts[i])])
<1> DEFINE ss == [i \in DOMAIN ts |-> WorkloadsOf(ts[i])]
           all == FlattenSeq(ss)
<1>1. ts \in Seq(Twin) /\ Apart(ts) /\ \A i \in DOMAIN ts : Valid(ts[i], L, dep)
    BY DEF Asked
<1>2. PICK n \in Nat : /\ n = Len(ts) /\ DOMAIN ts = 1..n /\ 1 \in DOMAIN ts /\ Head(ts) = ts[1]
                       /\ \A i \in DOMAIN ts : ts[i] \in Twin
    BY <1>1, EmptySeq
<1>3. \A i \in DOMAIN ts :
         /\ ts[i].operation = "deploy" /\ ts[i].node = node /\ ts[i].contract_id = 0
         /\ ts[i].node \in Nodes /\ ts[i].deployment.version = 0
         /\ WorkloadsOf(ts[i]) \in Seq(Workload) /\ OnceNamed(WorkloadsOf(ts[i]))
         /\ \A w \in ToSet(WorkloadsOf(ts[i])) : w.version <= 0
    BY <1>1, <1>2, TwinShape DEF AllTo, Valid, Sound, WorkloadsOf
<1>4. DOMAIN ss = 1..n /\ \A i \in 1..n : ss[i] = WorkloadsOf(ts[i]) /\ ss[i] \in Seq(Workload)
    BY <1>2, <1>3
<1>5. ss = [i \in 1..n |-> ss[i]]
    BY <1>2
<1>6. \A i, j \in 1..n : i # j => NamesOf(ss[i]) \cap NamesOf(ss[j]) = {}
  <2>1. ASSUME NEW i \in 1..n, NEW j \in 1..n, i # j
        PROVE  NamesOf(WorkloadsOf(ts[i])) \cap NamesOf(WorkloadsOf(ts[j])) = {}
    <3>1. /\ ts[i].operation = "deploy" /\ ts[j].operation = "deploy"
          /\ ts[i].node = ts[j].node /\ i \in DOMAIN ts /\ j \in DOMAIN ts
        BY <1>2, <1>3
    <3> QED BY <1>1, <2>1, <3>1 DEF Apart
  <2> HIDE DEF ss
  <2> QED BY <1>4, <2>1
<1>7. t = Holding(ts[1], all)
    BY <1>2 DEF Join, Holding, WorkloadsOf
<1> HIDE DEF ss
<1>8. ss \in Seq(Seq(Workload))
  <2>1. ss \in [1..n -> Seq(Workload)]
      BY <1>4, <1>5
  <2> QED BY <2>1
<1>9. all \in Seq(Workload) /\ ToSet(all) = UNION {ToSet(ss[i]) : i \in DOMAIN ss}
    BY <1>8, SetOfFlatten
<1>10. OnceNamed(all)
  <2>1. \A i \in DOMAIN ss : OnceNamed(ss[i])
      BY <1>2, <1>3, <1>4
  <2>2. \A i, j \in DOMAIN ss : i # j => NamesOf(ss[i]) \cap NamesOf(ss[j]) = {}
      BY <1>4, <1>6
  <2> QED BY <1>8, <2>1, <2>2, FlattenOnce
<1>11. \A w \in ToSet(all) : w.version <= 0
    BY <1>2, <1>3, <1>4, <1>9
<1> HIDE DEF all
<1>12. /\ t \in Twin /\ WorkloadsOf(t) = all /\ t.deployment.version = 0
       /\ t.operation = "deploy" /\ t.node = node /\ t.contract_id = 0 /\ t.node \in Nodes
  <2>1. PICK x \in Twin : x = ts[1]
      BY <1>2
  <2>2. /\ x.operation = "deploy" /\ x.node = node /\ x.contract_id = 0
        /\ x.node \in Nodes /\ x.deployment.version = 0
      BY <1>2, <1>3, <2>1
  <2>3. t = Holding(x, all)
      BY <1>7, <2>1
  <2> QED BY <1>9, <2>2, <2>3, HoldingShape
<1>13. Sound(t.deployment)
    BY <1>10, <1>11, <1>12 DEF Sound, WorkloadsOf
<1>14. Valid(t, L, dep)
    BY <1>12, <1>13 DEF Valid
<1>15. all = FlattenSeq([i \in DOMAIN ts |-> WorkloadsOf(ts[i])])
    BY DEF all, ss
<1> QED BY <1>12, <1>14, <1>15

\* One deployment for each node of the batch.
Grouped(ds, node) == Only(ds, {i \in DOMAIN ds : ds[i].node = node})
Merges(b, L, dep, m, keys, D) ==
    /\ Counts(keys, m, {Of(b, "deploy")[i].node : i \in DOMAIN Of(b, "deploy")})
    /\ D \in Seq(Twin) /\ Len(D) = m /\ DOMAIN D = 1..m
    /\ \A k \in 1..m :
         /\ Valid(D[k], L, dep) /\ D[k].operation = "deploy" /\ D[k].node = keys[k]
         /\ WorkloadsOf(D[k]) =
              FlattenSeq([i \in DOMAIN Grouped(Of(b, "deploy"), keys[k]) |->
                            WorkloadsOf(Grouped(Of(b, "deploy"), keys[k])[i])])
    /\ \A j, k \in 1..m : D[j].node = D[k].node => j = k

\* What deployMerge returns.
LEMMA DeployMergeFacts ==
    ASSUME NEW L, NEW dep, NEW b, Asked(b, L, dep)
    PROVE  \E m \in Nat : \E keys : Merges(b, L, dep, m, keys, DeployMerge(b))
<1>1. PICK ds : ds = Of(b, "deploy")
    OBVIOUS
<1>2. Asked(ds, L, dep) /\ \A i \in DOMAIN ds : ds[i].operation = "deploy"
    BY <1>1, OfFacts
<1>3. PICK n \in Nat : /\ n = Len(ds) /\ DOMAIN ds = 1..n /\ ds \in Seq(Twin)
                       /\ \A i \in 1..n : ds[i] \in Twin
    BY <1>2 DEF Asked
<1> DEFINE K == {ds[i].node : i \in DOMAIN ds}
           ks == [i \in 1..n |-> ds[i].node]
           keys == Ascending(K)
           D == DeployMerge(b)
<1>4. \A i \in 1..n : ds[i].node \in Nodes /\ ds[i].node \in Nat
    BY <1>2, <1>3, MergeAssumption DEF Asked, Valid
<1>5. ks \in [1..n -> Nat] /\ K = {ks[i] : i \in 1..n}
    BY <1>3, <1>4
<1> HIDE DEF ks, K
<1>6. PICK m \in Nat : Counts(keys, m, K)
    BY <1>5, KeysFacts
<1>7. /\ DOMAIN keys = 1..m /\ \A k \in 1..m : keys[k] \in K
      /\ \A k \in 1..m : keys[k] \in Nat
      /\ \A j, k \in 1..m : j < k => keys[j] < keys[k]
  <2>1. K \subseteq Nat
      BY <1>5
  <2> QED BY <1>6, <2>1 DEF Counts
<1>8. D = [k \in DOMAIN keys |-> Join(Only(ds, {i \in DOMAIN ds : ds[i].node = keys[k]}))]
    BY <1>1 DEF DeployMerge, K
<1> HIDE DEF D, keys
<1>9. DOMAIN D = 1..m /\ \A k \in 1..m : D[k] = Join(Grouped(ds, keys[k]))
    BY <1>7, <1>8 DEF Grouped
<1>10. ASSUME NEW k \in 1..m
       PROVE  /\ D[k] \in Twin
              /\ Valid(D[k], L, dep) /\ D[k].operation = "deploy" /\ D[k].node = keys[k]
              /\ WorkloadsOf(D[k]) = FlattenSeq([i \in DOMAIN Grouped(ds, keys[k]) |->
                                                   WorkloadsOf(Grouped(ds, keys[k])[i])])
  <2>1. PICK node : node = keys[k] /\ node \in K
      BY <1>7
  <2> DEFINE I == {i \in DOMAIN ds : ds[i].node = node}
             ts == Grouped(ds, node)
  <2>2. ts = Only(ds, I) /\ I \in SUBSET DOMAIN ds /\ \A i \in I : ds[i].node = node
      BY DEF Grouped
  <2>3. \E i \in I : TRUE
      BY <2>1 DEF K
  <2> HIDE DEF I, ts
  <2>4. /\ Asked(ts, L, dep)
        /\ \A i \in DOMAIN ts : \E x \in I : ts[i] = ds[x]
        /\ \A x \in I : \E i \in DOMAIN ts : ts[i] = ds[x]
      BY <1>2, <2>2, AskedOnly
  <2>5. AllTo(ts, node)
      BY <1>2, <2>2, <2>4 DEF AllTo
  <2>6. ts # <<>>
      BY <2>3, <2>4
  <2>7. D[k] = Join(ts)
      BY <1>9, <2>1 DEF ts
  <2>8. /\ D[k] \in Twin /\ Valid(D[k], L, dep)
        /\ D[k].operation = "deploy" /\ D[k].node = node
        /\ WorkloadsOf(D[k]) = FlattenSeq([i \in DOMAIN ts |-> WorkloadsOf(ts[i])])
      BY <2>4, <2>5, <2>6, <2>7, JoinFacts
  <2> QED BY <2>1, <2>8 DEF ts
<1>11. D \in Seq(Twin) /\ Len(D) = m
  <2>1. D = [k \in 1..m |-> D[k]]
      BY <1>7, <1>8, <1>9
  <2>2. D \in [1..m -> Twin]
      BY <1>10, <2>1
  <2> QED BY <2>2
<1>12. \A j, k \in 1..m : D[j].node = D[k].node => j = k
  <2>1. ASSUME NEW j \in 1..m, NEW k \in 1..m, keys[j] = keys[k]  PROVE j = k
    <3>1. ~(j < k) /\ ~(k < j)
        BY <1>7, <2>1
    <3> QED BY <3>1
  <2> QED BY <1>10, <2>1, ZenonT(60)
<1>13. Merges(b, L, dep, m, keys, D)
  <2>1. Counts(keys, m, {Of(b, "deploy")[i].node : i \in DOMAIN Of(b, "deploy")})
      BY <1>1, <1>6 DEF K
  <2> QED BY <1>1, <1>9, <1>10, <1>11, <1>12, <2>1 DEF Merges
<1> QED BY <1>13 DEF D

\* The workloads that some deployments take to a node.
On(twins, node) == FlattenSeq([i \in DOMAIN twins |->
    IF twins[i].node = node THEN WorkloadsOf(twins[i]) ELSE <<>>])

\* What goes to a node, by the deployments for that node.
LEMMA OnFacts ==
    ASSUME NEW ts \in Seq(Twin), NEW node
    PROVE  On(ts, node) = FlattenSeq([i \in DOMAIN Grouped(ts, node) |->
                                        WorkloadsOf(Grouped(ts, node)[i])])
<1> DEFINE I == {i \in DOMAIN ts : ts[i].node = node}
           ss == [i \in DOMAIN ts |-> WorkloadsOf(ts[i])]
           tt == [i \in DOMAIN ts |-> IF i \in I THEN WorkloadsOf(ts[i]) ELSE <<>>]
           gs == Grouped(ts, node)
<1>1. PICK n \in Nat : /\ n = Len(ts) /\ DOMAIN ts = 1..n
                       /\ \A i \in DOMAIN ts : ts[i] \in Twin
    OBVIOUS
<1>2. \A i \in 1..n : WorkloadsOf(ts[i]) \in Seq(Workload)
    BY <1>1, TwinShape
<1>3. I \in SUBSET (1..n) /\ gs = Only(ts, I)
    BY <1>1 DEF Grouped
<1>4. On(ts, node) = FlattenSeq(tt)
  <2>1. tt = [i \in DOMAIN ts |-> IF ts[i].node = node THEN WorkloadsOf(ts[i]) ELSE <<>>]
      OBVIOUS
  <2> QED BY <2>1 DEF On
<1> HIDE DEF I, gs
<1>5. ss \in Seq(Seq(Workload)) /\ tt \in Seq(Seq(Workload)) /\ Len(ss) = n /\ Len(tt) = n
  <2>1. ss \in [1..n -> Seq(Workload)]
      BY <1>1, <1>2
  <2>2. tt \in [1..n -> Seq(Workload)]
    <3>1. <<>> \in Seq(Workload)
        OBVIOUS
    <3> QED BY <1>1, <1>2, <3>1
  <2> HIDE DEF ss, tt
  <2> QED BY <2>1, <2>2
<1>6. DOMAIN ss = 1..n /\ \A i \in DOMAIN ss : tt[i] = IF i \in I THEN ss[i] ELSE <<>>
    BY <1>1
<1>7. ss = [i \in 1..n |-> WorkloadsOf(ts[i])]
    BY <1>1
<1> HIDE DEF ss, tt
<1>13. /\ ss \in Seq(Seq(Workload)) /\ tt \in Seq(Seq(Workload)) /\ Len(tt) = Len(ss)
       /\ I \in SUBSET DOMAIN ss
       /\ \A i \in DOMAIN ss : tt[i] = IF i \in I THEN ss[i] ELSE <<>>
    BY <1>3, <1>5, <1>6
<1>8. FlattenSeq(tt) = FlattenSeq(Only(ss, I))
    BY <1>13, FlattenOnly, ZenonT(60)
<1>9a. PICK m \in Nat : \E g : Picks(Twin, ts, I, m, g)
    BY <1>1, <1>3, OnlyFacts
<1>9. PICK g : Picks(Twin, ts, I, m, g)
    BY <1>9a
<1>10. /\ Counts(g, m, I) /\ DOMAIN gs = 1..m
       /\ \A k \in 1..m : g[k] \in I /\ gs[k] = ts[g[k]]
    BY <1>3, <1>9 DEF Picks
<1>11. Only(ss, I) = [k \in 1..m |-> ss[g[k]]]
  <2>1. Counts(g, m, I)
      BY <1>10
  <2> QED BY <1>13, <2>1, OnlyIs
<1>12. [k \in 1..m |-> ss[g[k]]] = [k \in DOMAIN gs |-> WorkloadsOf(gs[k])]
    BY <1>3, <1>7, <1>10
<1> QED BY <1>4, <1>8, <1>11, <1>12 DEF gs

\* One sequence, or none.
LEMMA FlattenSingle ==
    ASSUME NEW T, NEW s \in Seq(T)
    PROVE  FlattenSeq(<<s>>) = s /\ FlattenSeq(<<>>) = <<>>
<1>1. PICK t : t = <<s>>
    OBVIOUS
<1>2. t \in Seq(Seq(T)) /\ Len(t) = 1 /\ t[1] = s
    BY <1>1
<1>3. PICK F \in [0..1 -> Seq(T)] : Folded(F, t)
    BY <1>2, FlattenFolds
<1>4. FlattenSeq(<<s>>) = s
  <2>1. 1 \in 1..Len(t)
      BY <1>2
  <2>2. F[0] = <<>> /\ F[1] = F[1 - 1] \o t[1] /\ F[1] = FlattenSeq(t)
      BY <1>2, <1>3, <2>1 DEF Folded
  <2>5. 1 - 1 = 0
      OBVIOUS
  <2>6. F[1 - 1] = <<>>
      BY <2>2, <2>5
  <2>3. F[1] = <<>> \o s
      BY <1>2, <2>2, <2>6, Zenon
  <2>4. <<>> \o s = s
      OBVIOUS
  <2> QED BY <1>1, <2>2, <2>3, <2>4
<1>5. <<>> \in Seq(Seq(T)) /\ Len(<<>>) = 0
    OBVIOUS
<1>6. PICK G \in [0..0 -> Seq(T)] : Folded(G, <<>>)
    BY <1>5, FlattenFolds
<1>7. FlattenSeq(<<>>) = <<>>
    BY <1>5, <1>6 DEF Folded
<1> QED BY <1>4, <1>7
-----------------------------------------------------------------------------
(***************************************************************************)
(* The updates of a batch, and what merge makes of all of it.              *)
(***************************************************************************)
Sane(L, dep) == \A id \in L : id \in Ids /\ dep[id] \in Deployment /\ Sound(dep[id])

\* A merged update.
Latest(u, L, dep) ==
    /\ u \in Twin /\ u.operation = "update" /\ u.contract_id \in L
    /\ Sound(u.deployment) /\ u.deployment.version = dep[u.contract_id].version + 1
    /\ \A w \in ToSet(WorkloadsOf(u)) : Edited(w, dep[u.contract_id])

\* All of it updates one contract.
UpdatesTo(ts, id) ==
    \A i \in DOMAIN ts : ts[i].operation = "update" /\ ts[i].contract_id = id

\* Updates in a batch were made of the deployment that their contract has.
LEMMA AskedUpdates ==
    ASSUME NEW L, NEW dep, NEW ts, Asked(ts, L, dep), ts # <<>>, NEW id, UpdatesTo(ts, id)
    PROVE  Updates(ts, dep[id]) /\ id \in L
<1>1. ts \in Seq(Twin) /\ \A i \in DOMAIN ts : Valid(ts[i], L, dep)
    BY DEF Asked
<1>2. \A i \in DOMAIN ts : /\ ts[i].contract_id = id /\ id \in L
                           /\ ts[i].deployment.version = dep[id].version
                           /\ OnceNamed(WorkloadsOf(ts[i]))
                           /\ \A w \in ToSet(WorkloadsOf(ts[i])) : Edited(w, dep[id])
    BY <1>1 DEF UpdatesTo, Valid
<1>3. 1 \in DOMAIN ts
    BY <1>1, EmptySeq
<1> QED BY <1>1, <1>2, <1>3 DEF Updates

\* _updateToLatest makes one sound update of them.
LEMMA LatestOf ==
    ASSUME NEW L, NEW dep, Sane(L, dep), NEW ts, Asked(ts, L, dep), ts # <<>>,
           NEW id, UpdatesTo(ts, id), NEW u, u = UpdateToLatest(ts)
    PROVE  Latest(u, L, dep) /\ u.contract_id = id
<1>1. Updates(ts, dep[id]) /\ id \in L
    BY AskedUpdates
<1>2. PICK d \in Deployment : d = dep[id] /\ Sound(d) /\ Updates(ts, d)
    BY <1>1 DEF Sane
<1>3. Head(ts) = ts[1] /\ 1 \in DOMAIN ts /\ \A w \in AllOf(ts) : Edited(w, d)
    BY <1>2, AllOfFacts
<1>4. Head(ts).operation = "update" /\ Head(ts).contract_id = id
    BY <1>3 DEF UpdatesTo
<1>5. /\ u \in Twin /\ u.operation = "update" /\ u.contract_id = id
      /\ u.deployment.version = d.version + 1 /\ Sound(u.deployment)
      /\ ToSet(WorkloadsOf(u)) \subseteq AllOf(ts)
    BY <1>2, <1>4, LatestFacts
<1> QED BY <1>1, <1>2, <1>3, <1>5 DEF Latest

\* One update for each contract of the batch.
UpdatesOnce(us, L, dep) ==
    /\ us \in Seq(Twin) /\ \A k \in DOMAIN us : Latest(us[k], L, dep)
    /\ \A j, k \in DOMAIN us : us[j].contract_id = us[k].contract_id => j = k

\* What updateMerge returns.
LEMMA UpdateMergeFacts ==
    ASSUME NEW L, NEW dep, Sane(L, dep), NEW b, Asked(b, L, dep)
    PROVE  UpdatesOnce(UpdateMerge(b), L, dep)
<1>1. PICK us : us = Of(b, "update")
    OBVIOUS
<1>2. Asked(us, L, dep) /\ \A i \in DOMAIN us : us[i].operation = "update"
    BY <1>1, OfFacts
<1>3. PICK n \in Nat : /\ n = Len(us) /\ DOMAIN us = 1..n /\ us \in Seq(Twin)
                       /\ \A i \in 1..n : us[i] \in Twin
    BY <1>2 DEF Asked
<1> DEFINE K == {us[i].contract_id : i \in DOMAIN us}
           ks == [i \in 1..n |-> us[i].contract_id]
           keys == Ascending(K)
           U == UpdateMerge(b)
<1>4. \A i \in 1..n : us[i].contract_id \in Nat
    BY <1>3, TwinShape DEF Ids
<1>5. ks \in [1..n -> Nat] /\ K = {ks[i] : i \in 1..n}
    BY <1>3, <1>4
<1> HIDE DEF ks, K
<1>6. PICK m \in Nat : Counts(keys, m, K)
    BY <1>5, KeysFacts
<1>7. /\ DOMAIN keys = 1..m /\ \A k \in 1..m : keys[k] \in K
      /\ \A k \in 1..m : keys[k] \in Nat
      /\ \A j, k \in 1..m : j < k => keys[j] < keys[k]
  <2>1. K \subseteq Nat
      BY <1>5
  <2> QED BY <1>6, <2>1 DEF Counts
<1>8. U = [k \in DOMAIN keys |->
             UpdateToLatest(Only(us, {i \in DOMAIN us : us[i].contract_id = keys[k]}))]
    BY <1>1 DEF UpdateMerge, K
<1> HIDE DEF U, keys
<1>9. ASSUME NEW k \in 1..m
      PROVE  Latest(U[k], L, dep) /\ U[k].contract_id = keys[k]
  <2>1. PICK id : id = keys[k] /\ id \in K
      BY <1>7
  <2> DEFINE I == {i \in DOMAIN us : us[i].contract_id = id}
             ts == Only(us, I)
  <2>2. I \in SUBSET DOMAIN us /\ \A i \in I : us[i].contract_id = id
      OBVIOUS
  <2>3. \E i \in I : TRUE
      BY <2>1 DEF K
  <2>4. U[k] = UpdateToLatest(ts)
      BY <1>7, <1>8, <2>1
  <2> HIDE DEF I
  <2>5. /\ Asked(ts, L, dep)
        /\ \A i \in DOMAIN ts : \E x \in I : ts[i] = us[x]
        /\ \A x \in I : \E i \in DOMAIN ts : ts[i] = us[x]
      BY <1>2, <2>2, AskedOnly
  <2> HIDE DEF ts
  <2>6. UpdatesTo(ts, id)
      BY <1>2, <2>2, <2>5 DEF UpdatesTo
  <2>7. ts # <<>>
      BY <2>3, <2>5
  <2>8. Latest(U[k], L, dep) /\ U[k].contract_id = id
      BY <2>4, <2>5, <2>6, <2>7, LatestOf
  <2> QED BY <2>1, <2>8
<1>10. U \in Seq(Twin) /\ DOMAIN U = 1..m
  <2>1. U = [k \in 1..m |-> U[k]]
      BY <1>7, <1>8
  <2>2. \A k \in 1..m : U[k] \in Twin
      BY <1>9 DEF Latest
  <2>3. U \in [1..m -> Twin]
      BY <2>1, <2>2
  <2> QED BY <2>3
<1>11. \A j, k \in 1..m : U[j].contract_id = U[k].contract_id => j = k
  <2>1. ASSUME NEW j \in 1..m, NEW k \in 1..m, keys[j] = keys[k]  PROVE j = k
    <3>1. ~(j < k) /\ ~(k < j)
        BY <1>7, <2>1
    <3> QED BY <3>1
  <2> QED BY <1>9, <2>1
<1>12. UpdatesOnce(U, L, dep)
    BY <1>9, <1>10, <1>11 DEF UpdatesOnce
<1> QED BY <1>12 DEF U

\* Three sequences in a row.
Parts(s, a, p, b, q, c, r) ==
    /\ Len(s) = p + q + r /\ DOMAIN s = 1..(p + q + r)
    /\ Len(a) = p /\ DOMAIN a = 1..p /\ Len(b) = q /\ DOMAIN b = 1..q
    /\ Len(c) = r /\ DOMAIN c = 1..r
    /\ \A k \in 1..p : s[k] = a[k]
    /\ \A k \in 1..q : s[p + k] = b[k]
    /\ \A k \in 1..r : s[p + q + k] = c[k]

\* The sequence s is a, of length p, and then b, of length q.
Concats(s, a, p, b, q) ==
    /\ Len(s) = p + q
    /\ \A k \in 1..(p + q) : s[k] = IF k <= p THEN a[k] ELSE b[k - p]

\* So is a concatenation.
LEMMA ConcatIs ==
    ASSUME NEW T, NEW a \in Seq(T), NEW b \in Seq(T)
    PROVE  a \o b \in Seq(T) /\ Concats(a \o b, a, Len(a), b, Len(b))
    BY ConcatProperties DEF Concats

\* And one of three sequences, with a third part.
LEMMA PartsOf ==
    ASSUME NEW T, NEW a \in Seq(T), NEW b \in Seq(T), NEW c \in Seq(T)
    PROVE  /\ (a \o b) \o c \in Seq(T)
           /\ \E p, q, r \in Nat : Parts((a \o b) \o c, a, p, b, q, c, r)
<1>1. PICK p \in Nat, q \in Nat, r \in Nat :
         /\ Len(a) = p /\ DOMAIN a = 1..p /\ Len(b) = q /\ DOMAIN b = 1..q
         /\ Len(c) = r /\ DOMAIN c = 1..r
    OBVIOUS
<1>2. PICK d \in Seq(T) : /\ d = a \o b /\ Len(d) = p + q
                          /\ \A k \in 1..(p + q) : d[k] = IF k <= p THEN a[k] ELSE b[k - p]
  <2>1. PICK d : d = a \o b
      OBVIOUS
  <2>2. Len(a) = p /\ Len(b) = q
      BY <1>1
  <2>3. d \in Seq(T) /\ Concats(d, a, Len(a), b, Len(b))
      BY <2>1, ConcatIs
  <2>4. Concats(d, a, p, b, q)
      BY <2>2, <2>3
  <2> QED BY <2>1, <2>3, <2>4 DEF Concats
<1>3. PICK s \in Seq(T) : /\ s = d \o c /\ Len(s) = p + q + r
                          /\ \A k \in 1..(p + q + r) : s[k] = IF k <= p + q THEN d[k]
                                                              ELSE c[k - (p + q)]
  <2>1. PICK s : s = d \o c
      OBVIOUS
  <2>2. PICK n \in Nat : n = p + q
      OBVIOUS
  <2>3. Len(d) = n /\ Len(c) = r
      BY <1>1, <1>2, <2>2
  <2>4. s \in Seq(T) /\ Concats(s, d, Len(d), c, Len(c))
      BY <2>1, ConcatIs
  <2>5. Concats(s, d, n, c, r)
      BY <2>3, <2>4
  <2> QED BY <2>1, <2>2, <2>4, <2>5 DEF Concats
<1>4. DOMAIN s = 1..(p + q + r)
    BY <1>3
<1>5. ASSUME NEW k \in 1..p  PROVE s[k] = a[k]
  <2>1. k \in 1..(p + q) /\ k \in 1..(p + q + r) /\ k <= p /\ k <= p + q
      OBVIOUS
  <2> QED BY <1>2, <1>3, <2>1
<1>6. ASSUME NEW k \in 1..q  PROVE s[p + k] = b[k]
  <2>1. /\ p + k \in 1..(p + q) /\ p + k \in 1..(p + q + r) /\ ~(p + k <= p)
        /\ p + k <= p + q /\ p + k - p = k
      OBVIOUS
  <2> QED BY <1>2, <1>3, <2>1
<1>7. ASSUME NEW k \in 1..r  PROVE s[p + q + k] = c[k]
  <2>1. /\ p + q + k \in 1..(p + q + r) /\ ~(p + q + k <= p + q)
        /\ p + q + k - (p + q) = k
      OBVIOUS
  <2> QED BY <1>3, <2>1
<1>8. Parts(s, a, p, b, q, c, r)
    BY <1>1, <1>3, <1>4, <1>5, <1>6, <1>7 DEF Parts
<1> QED BY <1>2, <1>3, <1>8

\* A position is in one of the three parts.
LEMMA Third ==
    ASSUME NEW p \in Nat, NEW q \in Nat, NEW r \in Nat, NEW i \in 1..(p + q + r)
    PROVE  \/ i \in 1..p
           \/ \E k \in 1..q : i = p + k
           \/ \E k \in 1..r : i = p + q + k
<1>1. CASE i <= p
    BY <1>1
<1>2. CASE p < i /\ i <= p + q
  <2>1. i - p \in 1..q /\ i = p + (i - p)
      BY <1>2
  <2> QED BY <2>1
<1>3. CASE p + q < i
  <2>1. i - (p + q) \in 1..r /\ i = p + q + (i - (p + q))
      BY <1>3
  <2> QED BY <2>1
<1> QED BY <1>1, <1>2, <1>3

\* A merged batch: the deployments, the updates that are left, the deletions.
Merged(M, D, p, V, q, X, r, L, dep) ==
    /\ M \in Seq(Twin) /\ Parts(M, D, p, V, q, X, r)
    /\ \A k \in 1..p : /\ D[k].operation = "deploy" /\ D[k] \in Twin /\ Valid(D[k], L, dep)
    /\ \A j, k \in 1..p : D[j].node = D[k].node => j = k
    /\ \A k \in 1..q : /\ Latest(V[k], L, dep)
                       /\ \A j \in 1..r : V[k].contract_id # X[j].contract_id
    /\ \A j, k \in 1..q : V[j].contract_id = V[k].contract_id => j = k
    /\ \A k \in 1..r : X[k].operation = "delete" /\ X[k].contract_id \in L

\* What merge returns: deployments, then updates, then deletions.
LEMMA MergeFacts ==
    ASSUME NEW L, NEW dep, Sane(L, dep), NEW b, Asked(b, L, dep)
    PROVE  /\ DeployMerge(b) \in Seq(Twin) /\ Of(b, "delete") \in Seq(Twin)
           /\ \E V : \E p, q, r \in Nat :
                Merged(Merge(b), DeployMerge(b), p, V, q, Of(b, "delete"), r, L, dep)
<1>1. PICK D, U, X : D = DeployMerge(b) /\ U = UpdateMerge(b) /\ X = Of(b, "delete")
    OBVIOUS
<1> DEFINE deleted == {X[i].contract_id : i \in DOMAIN X}
           J == {i \in DOMAIN U : U[i].contract_id \notin deleted}
           V == Only(U, J)
<1>2. Merge(b) = (D \o V) \o X
    BY <1>1 DEF Merge
<1>3. /\ D \in Seq(Twin)
      /\ \A k \in DOMAIN D : D[k].operation = "deploy" /\ D[k] \in Twin /\ Valid(D[k], L, dep)
      /\ \A j, k \in DOMAIN D : D[j].node = D[k].node => j = k
  <2>1a. PICK m \in Nat : \E keys : Merges(b, L, dep, m, keys, D)
      BY <1>1, DeployMergeFacts
  <2>1. PICK keys : Merges(b, L, dep, m, keys, D)
      BY <2>1a
  <2>2. D \in Seq(Twin) /\ DOMAIN D = 1..m
      BY <2>1 DEF Merges
  <2>3. \A k \in 1..m : D[k].operation = "deploy" /\ Valid(D[k], L, dep)
      BY <2>1 DEF Merges
  <2>4. \A j, k \in 1..m : D[j].node = D[k].node => j = k
      BY <2>1 DEF Merges
  <2>5. \A k \in DOMAIN D : D[k] \in Twin
      BY <2>2
  <2> QED BY <2>2, <2>3, <2>4, <2>5
<1>4. UpdatesOnce(U, L, dep)
    BY <1>1, UpdateMergeFacts
<1>5. X \in Seq(Twin) /\ \A k \in DOMAIN X : X[k].operation = "delete" /\ X[k].contract_id \in L
  <2>1. Asked(X, L, dep) /\ \A k \in DOMAIN X : X[k].operation = "delete"
      BY <1>1, OfFacts
  <2> QED BY <2>1 DEF Asked, Valid
<1>6. /\ U \in Seq(Twin) /\ J \in SUBSET DOMAIN U
      /\ \A i \in J : \A j \in DOMAIN X : U[i].contract_id # X[j].contract_id
    BY <1>4 DEF UpdatesOnce
<1> HIDE DEF J
<1>7a. PICK m \in Nat : \E g : Picks(Twin, U, J, m, g)
    BY <1>6, OnlyFacts
<1>7. PICK g : Picks(Twin, U, J, m, g)
    BY <1>7a
<1>8. PICK W : W = V
    OBVIOUS
<1>9. /\ W \in Seq(Twin) /\ DOMAIN W = 1..m
      /\ \A k \in 1..m : g[k] \in J /\ g[k] \in Nat /\ W[k] = U[g[k]]
      /\ \A i, j \in 1..m : i < j => g[i] < g[j]
    BY <1>7, <1>8 DEF Picks, Counts
<1>10. \A k \in DOMAIN W : /\ Latest(W[k], L, dep)
                           /\ \A j \in DOMAIN X : W[k].contract_id # X[j].contract_id
    BY <1>4, <1>6, <1>9 DEF UpdatesOnce
<1>11. \A j, k \in DOMAIN W : W[j].contract_id = W[k].contract_id => j = k
  <2>1. ASSUME NEW j \in 1..m, NEW k \in 1..m, W[j].contract_id = W[k].contract_id  PROVE j = k
    <3>1. g[j] = g[k]
        BY <1>4, <1>6, <1>9, <2>1 DEF UpdatesOnce
    <3>2. ~(j < k) /\ ~(k < j)
        BY <1>9, <3>1
    <3> QED BY <3>2
  <2> QED BY <1>9, <2>1
<1>12. PICK M : /\ M = Merge(b) /\ M \in Seq(Twin)
                /\ \E p, q, r \in Nat : Parts(M, D, p, W, q, X, r)
  <2>1. W \in Seq(Twin) /\ Merge(b) = (D \o W) \o X
      BY <1>2, <1>8, <1>9
  <2>2. /\ (D \o W) \o X \in Seq(Twin)
        /\ \E p, q, r \in Nat : Parts((D \o W) \o X, D, p, W, q, X, r)
      BY <1>3, <1>5, <2>1, PartsOf
  <2>3. PICK M : M = Merge(b)
      OBVIOUS
  <2>4. M = (D \o W) \o X
      BY <2>1, <2>3
  <2>5. M \in Seq(Twin) /\ \E p, q, r \in Nat : Parts(M, D, p, W, q, X, r)
      BY <2>2, <2>4, Zenon
  <2> QED BY <2>3, <2>5, Zenon
<1>15. PICK p \in Nat, q \in Nat, r \in Nat : Parts(M, D, p, W, q, X, r)
    BY <1>12
<1>13. DOMAIN D = 1..p /\ DOMAIN W = 1..q /\ DOMAIN X = 1..r
    BY <1>15 DEF Parts
<1>14. Merged(M, D, p, W, q, X, r, L, dep)
    BY <1>3, <1>5, <1>10, <1>11, <1>12, <1>13, <1>15 DEF Merged
<1> QED BY <1>1, <1>3, <1>5, <1>12, <1>14

\* Where something is in a merged batch.
Place(M, D, p, V, q, X, r, i) ==
    /\ i \in 1..(p + q + r)
    /\ \/ i \in 1..p /\ M[i] = D[i] /\ M[i].operation = "deploy"
       \/ \E k \in 1..q : i = p + k /\ M[i] = V[k] /\ M[i].operation = "update"
       \/ \E k \in 1..r : i = p + q + k /\ M[i] = X[k] /\ M[i].operation = "delete"

\* Where a TwinDeployment of the merged batch comes from.
LEMMA MergedPlaces ==
    ASSUME NEW L, NEW dep, NEW M, NEW D, NEW V, NEW X, NEW p \in Nat, NEW q \in Nat, NEW r \in Nat,
           Merged(M, D, p, V, q, X, r, L, dep), NEW i \in DOMAIN M
    PROVE  Place(M, D, p, V, q, X, r, i)
<1>1. Parts(M, D, p, V, q, X, r)
    BY DEF Merged
<1>2. i \in 1..(p + q + r)
    BY <1>1 DEF Parts
<1>6. /\ \A k \in 1..p : D[k].operation = "deploy"
      /\ \A k \in 1..q : V[k].operation = "update"
      /\ \A k \in 1..r : X[k].operation = "delete"
    BY DEF Merged, Latest
<1>7. /\ \A k \in 1..p : M[k] = D[k]
      /\ \A k \in 1..q : M[p + k] = V[k]
      /\ \A k \in 1..r : M[p + q + k] = X[k]
    BY <1>1 DEF Parts
<1>3. CASE i \in 1..p
    BY <1>2, <1>3, <1>6, <1>7 DEF Place
<1>4. CASE \E k \in 1..q : i = p + k
  <2>1. PICK k \in 1..q : i = p + k
      BY <1>4
  <2>2. M[i] = V[k] /\ M[i].operation = "update"
      BY <1>6, <1>7, <2>1
  <2> QED BY <1>2, <2>1, <2>2 DEF Place
<1>5. CASE \E k \in 1..r : i = p + q + k
  <2>1. PICK k \in 1..r : i = p + q + k
      BY <1>5
  <2>2. M[i] = X[k] /\ M[i].operation = "delete"
      BY <1>6, <1>7, <2>1
  <2> QED BY <1>2, <2>1, <2>2 DEF Place
<1> QED BY <1>2, <1>3, <1>4, <1>5, Third, ZenonT(60) DEF Place

\* Its parts by what they ask for.
LEMMA MergedOf ==
    ASSUME NEW L, NEW dep, NEW M, NEW D \in Seq(Twin), NEW V, NEW X \in Seq(Twin),
           NEW p \in Nat, NEW q \in Nat, NEW r \in Nat, Merged(M, D, p, V, q, X, r, L, dep)
    PROVE  Of(M, "deploy") = D /\ Of(M, "delete") = X
<1>1. /\ M \in Seq(Twin) /\ Len(M) = p + q + r /\ DOMAIN M = 1..(p + q + r)
      /\ Len(D) = p /\ Len(X) = r
      /\ \A k \in 1..p : M[k] = D[k]
      /\ \A k \in 1..r : M[p + q + k] = X[k]
    BY DEF Merged, Parts
<1>2. \A i \in DOMAIN M : M[i].operation = "deploy" <=> 0 < i /\ i <= 0 + p
  <2>1. ASSUME NEW i \in DOMAIN M  PROVE M[i].operation = "deploy" <=> 0 < i /\ i <= 0 + p
    <3>1. \/ i \in 1..p /\ M[i].operation = "deploy"
          \/ \E k \in 1..q : i = p + k /\ M[i].operation = "update"
          \/ \E k \in 1..r : i = p + q + k /\ M[i].operation = "delete"
      <4>1. Place(M, D, p, V, q, X, r, i)
          BY MergedPlaces
      <4> QED BY <4>1 DEF Place
    <3> QED BY <3>1
  <2> QED BY <2>1
<1>3. \A i \in DOMAIN M : M[i].operation = "delete" <=> p + q < i /\ i <= p + q + r
  <2>1. ASSUME NEW i \in DOMAIN M
        PROVE  M[i].operation = "delete" <=> p + q < i /\ i <= p + q + r
    <3>1. \/ i \in 1..p /\ M[i].operation = "deploy"
          \/ \E k \in 1..q : i = p + k /\ M[i].operation = "update"
          \/ \E k \in 1..r : i = p + q + k /\ M[i].operation = "delete"
      <4>1. Place(M, D, p, V, q, X, r, i)
          BY MergedPlaces
      <4> QED BY <4>1 DEF Place
    <3> QED BY <3>1
  <2> QED BY <2>1
<1>4. Of(M, "deploy") = D
  <2> DEFINE I == {i \in DOMAIN M : M[i].operation = "deploy"}
  <2>1. /\ I \in SUBSET DOMAIN M /\ Of(M, "deploy") = Only(M, I)
        /\ \A i \in DOMAIN M : i \in I <=> 0 < i /\ i <= 0 + Len(D)
      BY <1>1, <1>2 DEF Of
  <2>2. 0 + Len(D) <= Len(M) /\ \A k \in 1..Len(D) : M[0 + k] = D[k]
      BY <1>1
  <2> HIDE DEF I
  <2>3. Only(M, I) = D
      BY <1>1, <2>1, <2>2, OnlySegment, ZenonT(60)
  <2> QED BY <2>1, <2>3
<1>5. Of(M, "delete") = X
  <2> DEFINE I == {i \in DOMAIN M : M[i].operation = "delete"}
  <2>1. /\ I \in SUBSET DOMAIN M /\ Of(M, "delete") = Only(M, I)
        /\ \A i \in DOMAIN M : i \in I <=> p + q < i /\ i <= p + q + Len(X)
      BY <1>1, <1>3 DEF Of
  <2>2. p + q + Len(X) <= Len(M) /\ \A k \in 1..Len(X) : M[p + q + k] = X[k]
      BY <1>1
  <2> HIDE DEF I
  <2>3. Only(M, I) = X
    <3>1. PICK z \in Nat : z = p + q
        OBVIOUS
    <3>2. /\ z + Len(X) <= Len(M) /\ \A k \in 1..Len(X) : M[z + k] = X[k]
          /\ \A i \in DOMAIN M : i \in I <=> z < i /\ i <= z + Len(X)
        BY <2>1, <2>2, <3>1
    <3>3. M \in Seq(Twin)
        BY <1>1
    <3>4. I \in SUBSET DOMAIN M
        BY <2>1
    <3> QED BY <3>2, <3>3, <3>4, OnlySegment
  <2> QED BY <2>1, <2>3
<1> QED BY <1>4, <1>5
-----------------------------------------------------------------------------
(***************************************************************************)
(* The inductive invariant, and what follows from it.                      *)
(***************************************************************************)
\* The contracts are those of the first ids, each with a sound deployment; a
\* batch holds valid requests, its deployments on one node named differently.
Inv ==
    /\ deployed \in [Ids -> Deployment] /\ \A id \in Ids : Sound(deployed[id])
    /\ location \in [Ids -> Nodes \cup {0}]
    /\ \E k \in 0..MaxId : Live = 1..k
    /\ Asked(batch, Live, deployed)

\* The contracts that there are have sound deployments.
LEMMA InvSane ==
    ASSUME Inv
    PROVE  Sane(Live, deployed) /\ Live \subseteq Ids
    BY DEF Inv, Sane, Live

\* The invariant implies each property of the run.
LEMMA InvTypeOK ==
    ASSUME Inv
    PROVE  TypeOK
<1>1. batch \in Seq(Twin)
    BY DEF Inv, Asked
<1>2. ASSUME NEW id \in Ids, NEW i \in DOMAIN deployed[id].workloads,
             NEW j \in DOMAIN deployed[id].workloads
      PROVE  /\ deployed[id].workloads[i].version <= deployed[id].version
             /\ deployed[id].workloads[i].name = deployed[id].workloads[j].name => i = j
  <2>1. Sound(deployed[id])
      BY DEF Inv
  <2>2. deployed[id].workloads[i] \in ToSet(deployed[id].workloads)
      BY SetOfNames
  <2> QED BY <2>1, <2>2 DEF Sound, OnceNamed
<1> QED BY <1>1, <1>2 DEF Inv, TypeOK, Twin

LEMMA InvMergedOnce ==
    ASSUME Inv
    PROVE  MergedOnce
<1>1. PICK M, D, X : M = Merge(batch) /\ D = DeployMerge(batch) /\ X = Of(batch, "delete")
    OBVIOUS
<1>2. /\ D \in Seq(Twin) /\ X \in Seq(Twin)
      /\ \E V : \E p, q, r \in Nat : Merged(M, D, p, V, q, X, r, Live, deployed)
    BY <1>1, InvSane, MergeFacts DEF Inv
<1>3. PICK V : \E p, q, r \in Nat : Merged(M, D, p, V, q, X, r, Live, deployed)
    BY <1>2
<1>4. PICK p \in Nat, q \in Nat, r \in Nat : Merged(M, D, p, V, q, X, r, Live, deployed)
    BY <1>3
<1>5. /\ \A j, k \in 1..p : D[j].node = D[k].node => j = k
      /\ \A k \in 1..q : \A j \in 1..r : V[k].contract_id # X[j].contract_id
      /\ \A j, k \in 1..q : V[j].contract_id = V[k].contract_id => j = k
    BY <1>4 DEF Merged
<1>6. \A i \in DOMAIN M : Place(M, D, p, V, q, X, r, i)
    BY <1>4, MergedPlaces
<1>7. ASSUME NEW i \in DOMAIN M, NEW j \in DOMAIN M, M[i].operation = "deploy",
             M[j].operation = "deploy", M[i].node = M[j].node
      PROVE  i = j
  <2>1. i \in 1..p /\ M[i] = D[i] /\ j \in 1..p /\ M[j] = D[j]
      BY <1>6, <1>7 DEF Place
  <2> QED BY <1>5, <1>7, <2>1
<1>8. ASSUME NEW i \in DOMAIN M, NEW j \in DOMAIN M, M[i].operation = "update",
             M[j].operation # "deploy", M[i].contract_id = M[j].contract_id
      PROVE  i = j
  <2>1. PICK k \in 1..q : i = p + k /\ M[i] = V[k]
      BY <1>6, <1>8 DEF Place
  <2>2. \/ \E l \in 1..q : j = p + l /\ M[j] = V[l]
        \/ \E l \in 1..r : M[j] = X[l]
      BY <1>6, <1>8 DEF Place
  <2>3. CASE \E l \in 1..r : M[j] = X[l]
      BY <1>5, <1>8, <2>1, <2>3
  <2>4. CASE \E l \in 1..q : j = p + l /\ M[j] = V[l]
    <3>1. PICK l \in 1..q : j = p + l /\ M[j] = V[l]
        BY <2>4
    <3>2. k = l
        BY <1>5, <1>8, <2>1, <3>1
    <3> QED BY <2>1, <3>1, <3>2
  <2> QED BY <2>2, <2>3, <2>4
<1>9. Of(M, "delete") = X
    BY <1>2, <1>4, MergedOf
<1> QED BY <1>1, <1>7, <1>8, <1>9 DEF MergedOnce

LEMMA InvDeploysJoined ==
    ASSUME Inv
    PROVE  DeploysJoined
<1>1. PICK M, D, X : M = Merge(batch) /\ D = DeployMerge(batch) /\ X = Of(batch, "delete")
    OBVIOUS
<1>2. /\ D \in Seq(Twin) /\ X \in Seq(Twin)
      /\ \E V : \E p, q, r \in Nat : Merged(M, D, p, V, q, X, r, Live, deployed)
    BY <1>1, InvSane, MergeFacts DEF Inv
<1>3. Of(M, "deploy") = D
    BY <1>2, MergedOf
<1>4. PICK ds : ds = Of(batch, "deploy")
    OBVIOUS
<1>5. ds \in Seq(Twin)
    BY <1>4, OfFacts DEF Inv, Asked
<1>6a. PICK m \in Nat : \E keys : Merges(batch, Live, deployed, m, keys, D)
    BY <1>1, DeployMergeFacts DEF Inv
<1>6. PICK keys : Merges(batch, Live, deployed, m, keys, D)
    BY <1>6a
<1>7. /\ DOMAIN D = 1..m
      /\ \A k \in 1..m : /\ D[k].node = keys[k]
                         /\ WorkloadsOf(D[k]) = FlattenSeq([i \in DOMAIN Grouped(ds, keys[k]) |->
                                                     WorkloadsOf(Grouped(ds, keys[k])[i])])
      /\ \A j, k \in 1..m : D[j].node = D[k].node => j = k
    BY <1>4, <1>6 DEF Merges
<1>8. \A i \in DOMAIN ds : \E k \in 1..m : keys[k] = ds[i].node
    BY <1>4, <1>6 DEF Merges, Counts
<1>9. ASSUME NEW node  PROVE On(D, node) = On(ds, node)
  <2>1. On(ds, node) = FlattenSeq([i \in DOMAIN Grouped(ds, node) |->
                                     WorkloadsOf(Grouped(ds, node)[i])])
      BY <1>5, OnFacts
  <2>2. On(D, node) = FlattenSeq([i \in DOMAIN Grouped(D, node) |->
                                    WorkloadsOf(Grouped(D, node)[i])])
      BY <1>2, OnFacts
  <2> DEFINE I == {i \in DOMAIN D : D[i].node = node}
             J == {i \in DOMAIN ds : ds[i].node = node}
  <2>3. Grouped(D, node) = Only(D, I) /\ Grouped(ds, node) = Only(ds, J)
      BY DEF Grouped
  <2>4. CASE \E k \in 1..m : keys[k] = node
    <3>1. PICK k \in 1..m : keys[k] = node
        BY <2>4
    <3>2. I = {k}
        BY <1>7, <3>1
    <3>3. Only(D, I) = <<D[k]>>
      <4> DEFINE g == [x \in 1..1 |-> k]
      <4>1. Counts(g, 1, {k})
          BY DEF Counts
      <4>2. {k} \in SUBSET DOMAIN D
          BY <1>7
      <4>3. Only(D, {k}) = [x \in 1..1 |-> D[g[x]]]
        <5> HIDE DEF g
        <5> QED BY <1>2, <4>1, <4>2, OnlyIs
      <4>4. [x \in 1..1 |-> D[g[x]]] = <<D[k]>>
          OBVIOUS
      <4> QED BY <3>2, <4>3, <4>4
    <3>4. On(D, node) = FlattenSeq(<<WorkloadsOf(D[k])>>)
      <4>1. PICK s : s = <<D[k]>>
          OBVIOUS
      <4>2. Grouped(D, node) = s
          BY <2>3, <3>3, <4>1
      <4>3. [i \in DOMAIN s |-> WorkloadsOf(s[i])] = <<WorkloadsOf(D[k])>>
          BY <4>1
      <4> QED BY <2>2, <4>2, <4>3
    <3>5. WorkloadsOf(D[k]) \in Seq(Workload)
      <4>1. D[k] \in Twin
          BY <1>2, <1>7
      <4> QED BY <4>1, TwinShape
    <3>6. On(D, node) = WorkloadsOf(D[k])
        BY <3>4, <3>5, FlattenSingle
    <3> QED BY <1>7, <2>1, <3>1, <3>6
  <2>5. CASE ~\E k \in 1..m : keys[k] = node
    <3>1. I = {} /\ J = {}
      <4>1. ASSUME NEW i \in DOMAIN D, D[i].node = node  PROVE FALSE
        <5>1. i \in 1..m /\ keys[i] = node
            BY <1>7, <4>1
        <5> QED BY <2>5, <5>1
      <4>2. ASSUME NEW i \in DOMAIN ds, ds[i].node = node  PROVE FALSE
        <5>1. PICK k \in 1..m : keys[k] = node
            BY <1>8, <4>2
        <5> QED BY <2>5, <5>1
      <4> QED BY <4>1, <4>2
    <3>2. Grouped(D, node) = <<>> /\ Grouped(ds, node) = <<>>
        BY <1>2, <1>5, <2>3, <3>1, OnlyAll
    <3> QED BY <2>1, <2>2, <3>2
  <2> QED BY <2>4, <2>5
<1>10. \A node \in Nodes :
          On(Of(Merge(batch), "deploy"), node) = On(Of(batch, "deploy"), node)
    BY <1>1, <1>3, <1>4, <1>9
<1> QED BY <1>10 DEF DeploysJoined, On, WorkloadsOf

\* Updates that do not contradict each other, all in one.
AllNames(ts, d) ==
    NamesOf(d.workloads) \cup UNION {NamesOf(ts[i].deployment.workloads) : i \in DOMAIN ts}
\* What the updates make of a name, but for those that leave it alone.
EditsOf(ts, d, n) ==
    {At(ts[i].deployment.workloads, n) : i \in DOMAIN ts} \ {At(d.workloads, n)}

\* Updates that do not contradict each other are all applied.
LEMMA AppliedFacts ==
    ASSUME NEW d \in Deployment, Sound(d), NEW ts, Updates(ts, d),
           \A n \in AllNames(ts, d) : Cardinality(EditsOf(ts, d, n)) <= 1,
           NEW m, m = UpdateToLatest(ts).deployment
    PROVE  /\ m.version = d.version + 1
           /\ \A n \in AllNames(ts, d) : At(m.workloads, n) =
                IF EditsOf(ts, d, n) = {} THEN At(d.workloads, n) ELSE UNION EditsOf(ts, d, n)
           /\ NamesOf(m.workloads) \subseteq AllNames(ts, d)
<1>1. PICK u : u = UpdateToLatest(ts) /\ m = u.deployment
    OBVIOUS
<1>2. u.deployment.version = d.version + 1 /\ ToSet(WorkloadsOf(u)) \subseteq AllOf(ts)
    BY <1>1, LatestFacts
<1>3. ASSUME NEW n \in AllNames(ts, d)
      PROVE  At(m.workloads, n) =
                IF EditsOf(ts, d, n) = {} THEN At(d.workloads, n) ELSE UNION EditsOf(ts, d, n)
  <2>1. PICK E, B : E = EditsOf(ts, d, n) /\ B = At(d.workloads, n)
      OBVIOUS
  <2>2. E = {At(WorkloadsOf(ts[i]), n) : i \in DOMAIN ts} \ {B} /\ Cardinality(E) <= 1
      BY <1>3, <2>1 DEF EditsOf, WorkloadsOf
  <2>3. At(WorkloadsOf(UpdateToLatest(ts)), n) = IF E = {} THEN B ELSE UNION E
      BY <2>1, <2>2, LatestApplies
  <2> QED BY <1>1, <2>1, <2>3 DEF WorkloadsOf
<1>4. NamesOf(m.workloads) \subseteq AllNames(ts, d)
  <2>1. NamesOf(m.workloads) = {w.name : w \in ToSet(WorkloadsOf(u))}
      BY <1>1, SetOfNames DEF WorkloadsOf
  <2>2. ASSUME NEW w \in AllOf(ts)  PROVE w.name \in AllNames(ts, d)
    <3>1. PICK i \in DOMAIN ts : w \in ToSet(ts[i].deployment.workloads)
        BY <2>2 DEF AllOf, WorkloadsOf
    <3>2. w.name \in NamesOf(ts[i].deployment.workloads)
        BY <3>1, SetOfNames
    <3> QED BY <3>2 DEF AllNames
  <2> QED BY <1>2, <2>1, <2>2
<1> QED BY <1>1, <1>2, <1>3, <1>4

\* The body of UpdatesApplied.
Applied(ts, d) ==
    (ts # <<>> /\ \A n \in AllNames(ts, d) : Cardinality(EditsOf(ts, d, n)) <= 1) =>
       /\ UpdateToLatest(ts).deployment.version = d.version + 1
       /\ \A n \in AllNames(ts, d) : At(UpdateToLatest(ts).deployment.workloads, n) =
            IF EditsOf(ts, d, n) = {} THEN At(d.workloads, n) ELSE UNION EditsOf(ts, d, n)
       /\ NamesOf(UpdateToLatest(ts).deployment.workloads) \subseteq AllNames(ts, d)

LEMMA InvUpdatesApplied ==
    ASSUME Inv
    PROVE  UpdatesApplied
<1> SUFFICES
      ASSUME NEW id \in Live
      PROVE  Applied(Only(batch, {i \in DOMAIN batch : /\ batch[i].operation = "update"
                                                       /\ batch[i].contract_id = id}),
                     deployed[id])
    BY DEF UpdatesApplied, Applied, AllNames, EditsOf
<1> DEFINE I == {i \in DOMAIN batch : /\ batch[i].operation = "update"
                                      /\ batch[i].contract_id = id}
<1>2. /\ I \in SUBSET DOMAIN batch
      /\ \A i \in I : batch[i].operation = "update" /\ batch[i].contract_id = id
      /\ Asked(batch, Live, deployed)
    BY DEF Inv
<1>3. PICK ts, d : ts = Only(batch, I) /\ d = deployed[id]
    OBVIOUS
<1>1. d \in Deployment /\ Sound(d)
    BY <1>3, InvSane DEF Sane
<1> HIDE DEF I
<1>4. Asked(Only(batch, I), Live, deployed)
      /\ \A i \in DOMAIN Only(batch, I) : \E k \in I : Only(batch, I)[i] = batch[k]
    BY <1>2, AskedOnly
<1>5. Asked(ts, Live, deployed) /\ UpdatesTo(ts, id)
    BY <1>2, <1>3, <1>4 DEF UpdatesTo
<1>6. ts # <<>> => Updates(ts, d)
    BY <1>3, <1>5, AskedUpdates
<1>7. Applied(ts, d)
  <2> SUFFICES ASSUME ts # <<>>, \A n \in AllNames(ts, d) : Cardinality(EditsOf(ts, d, n)) <= 1
               PROVE  /\ UpdateToLatest(ts).deployment.version = d.version + 1
                      /\ \A n \in AllNames(ts, d) :
                           At(UpdateToLatest(ts).deployment.workloads, n) =
                             IF EditsOf(ts, d, n) = {} THEN At(d.workloads, n)
                                                       ELSE UNION EditsOf(ts, d, n)
                      /\ NamesOf(UpdateToLatest(ts).deployment.workloads) \subseteq AllNames(ts, d)
      BY DEF Applied
  <2> QED BY <1>1, <1>6, AppliedFacts
<1> QED BY <1>3, <1>7 DEF I

\* The options of update() as a deployment.
LEMMA NewFacts ==
    ASSUME NEW new \in NewDeployments
    PROVE  new \in Seq(Workload) /\ OnceNamed(new) /\ Net \notin NamesOf(new)
<1>0. PICK ns \in UNION {[1..k -> Names] : k \in 1..Cardinality(Names)},
           f \in [Names -> Contents] :
         /\ new = [i \in DOMAIN ns |-> Fresh(ns[i], f[ns[i]])]
         /\ \A i, j \in DOMAIN ns : ns[i] = ns[j] => i = j
    BY DEF NewDeployments
<1>1. PICK k \in 1..Cardinality(Names) : ns \in [1..k -> Names]
    OBVIOUS
<1>2. k \in Nat
    BY FS_CardinalityType, MergeAssumption
<1>3. \A n \in Names : n # Net /\ \A c \in Contents : Fresh(n, c) \in Workload /\ Fresh(n, c).name = n
    BY MergeAssumption DEF Fresh, Workload
<1>4. /\ DOMAIN new = 1..k
      /\ \A i \in 1..k : new[i] \in Workload /\ new[i].name = ns[i] /\ ns[i] # Net
    BY <1>0, <1>1, <1>3
<1>5. new \in Seq(Workload)
  <2>1. new = [i \in 1..k |-> new[i]]
      BY <1>0, <1>1
  <2>2. new \in [1..k -> Workload]
      BY <1>4, <2>1
  <2> QED BY <1>2, <2>2
<1>6. OnceNamed(new)
    BY <1>0, <1>1, <1>4 DEF OnceNamed
<1>7. Net \notin NamesOf(new)
    BY <1>4 DEF NamesOf
<1> QED BY <1>5, <1>6, <1>7

LEMMA InvUpdateExact ==
    ASSUME Inv
    PROVE  UpdateExact
<1>1. ASSUME NEW id \in Live, NEW new \in NewDeployments,
             \/ NamesOf(new) \subseteq NamesOf(deployed[id].workloads)
             \/ /\ Holds(deployed[id].workloads) # {}
                /\ Holds(deployed[id].workloads) \subseteq Holds(new)
      PROVE  Holds(UpdateDeployment(deployed[id], new).workloads) = Holds(new)
  <2>1. PICK d \in Deployment : d = deployed[id] /\ Sound(d)
      BY InvSane DEF Sane
  <2>2. new \in Seq(Workload) /\ OnceNamed(new) /\ Net \notin NamesOf(new)
      BY NewFacts
  <2>3. OnceNamed(d.workloads)
      BY <2>1 DEF Sound
  <2> QED BY <1>1, <2>1, <2>2, <2>3, UpdateHolds
<1> QED BY <1>1 DEF UpdateExact
-----------------------------------------------------------------------------
(***************************************************************************)
(* What is asked for is valid, and the batch with it.                      *)
(***************************************************************************)
ApartFrom(t, b) ==
    t.operation = "deploy" =>
       \A i \in DOMAIN b : b[i].operation = "deploy" /\ b[i].node = t.node =>
          NamesOf(WorkloadsOf(b[i])) \cap NamesOf(WorkloadsOf(t)) = {}

\* A valid request may be added to a batch.
LEMMA AppendAsked ==
    ASSUME NEW L, NEW dep, NEW b, Asked(b, L, dep), NEW t \in Twin, Valid(t, L, dep),
           ApartFrom(t, b)
    PROVE  Asked(Append(b, t), L, dep)
<1>1. PICK c : c = Append(b, t)
    OBVIOUS
<1>2. PICK n \in Nat : b \in Seq(Twin) /\ n = Len(b) /\ DOMAIN b = 1..n
    BY DEF Asked
<1>3. /\ c \in Seq(Twin) /\ DOMAIN c = 1..(n + 1) /\ c[n + 1] = t
      /\ \A i \in 1..n : c[i] = b[i]
    BY <1>1, <1>2
<1>4. \A i \in 1..(n + 1) : i \in 1..n \/ i = n + 1
    OBVIOUS
<1>5. \A i \in DOMAIN c : Valid(c[i], L, dep)
    BY <1>2, <1>3, <1>4 DEF Asked
<1>6. Apart(b)
    BY DEF Asked
<1>7. ASSUME NEW i \in DOMAIN c, NEW j \in DOMAIN c, i # j, c[i].operation = "deploy",
             c[j].operation = "deploy", c[i].node = c[j].node
      PROVE  NamesOf(WorkloadsOf(c[i])) \cap NamesOf(WorkloadsOf(c[j])) = {}
  <2>1. CASE i \in 1..n /\ j \in 1..n
    <3>1. c[i] = b[i] /\ c[j] = b[j] /\ i \in DOMAIN b /\ j \in DOMAIN b
        BY <1>2, <1>3, <2>1
    <3> QED BY <1>6, <1>7, <3>1 DEF Apart
  <2>2. CASE i \in 1..n /\ j = n + 1
    <3>1. c[i] = b[i] /\ c[j] = t /\ i \in DOMAIN b
        BY <1>2, <1>3, <2>2
    <3> QED BY <1>7, <3>1 DEF ApartFrom
  <2>3. CASE i = n + 1 /\ j \in 1..n
    <3>1. c[i] = t /\ c[j] = b[j] /\ j \in DOMAIN b
        BY <1>2, <1>3, <2>3
    <3>2. NamesOf(WorkloadsOf(b[j])) \cap NamesOf(WorkloadsOf(t)) = {}
        BY <1>7, <3>1 DEF ApartFrom
    <3> QED BY <3>1, <3>2
  <2> QED BY <1>3, <1>4, <1>7, <2>1, <2>2, <2>3
<1>8. Apart(c)
    BY <1>7 DEF Apart
<1> QED BY <1>1, <1>3, <1>5, <1>8 DEF Asked

\* A valid request keeps the invariant.
LEMMA Requested ==
    ASSUME Inv, NEW t \in Twin, Valid(t, Live, deployed), ApartFrom(t, batch), Request(t)
    PROVE  Inv'
<1>1. deployed' = deployed /\ location' = location /\ batch' = Append(batch, t)
    BY DEF Request
<1>2. Live' = Live
    BY <1>1 DEF Live
<1>3. Asked(Append(batch, t), Live, deployed)
    BY AppendAsked DEF Inv
<1> QED BY <1>1, <1>2, <1>3 DEF Inv

\* The shape of a TwinDeployment.
LEMMA TwinIs ==
    ASSUME NEW op, NEW node, NEW id, NEW d
    PROVE  LET t == TwinDeployment(op, node, id, d) IN
           /\ t.operation = op /\ t.node = node /\ t.contract_id = id /\ t.deployment = d
           /\ (/\ op \in {"deploy", "update", "delete"} /\ node \in Nodes \cup {0}
               /\ id \in Ids \cup {0} /\ d \in Deployment) => t \in Twin
    BY DEF TwinDeployment, Twin

\* A new workload, and a deployment that has nothing else.
LEMMA FreshFacts ==
    ASSUME NEW n \in Names \cup {Net}, NEW c \in Contents
    PROVE  /\ Fresh(n, c) \in Workload /\ Fresh(n, c).name = n /\ Fresh(n, c).version = 0
           /\ <<Fresh(n, c)>> \in Seq(Workload) /\ NamesOf(<<Fresh(n, c)>>) = {n}
           /\ [version |-> 0, workloads |-> <<Fresh(n, c)>>] \in Deployment
           /\ Sound([version |-> 0, workloads |-> <<Fresh(n, c)>>])
<1>0. Fresh(n, c) \in Workload /\ Fresh(n, c).name = n /\ Fresh(n, c).version = 0
    BY DEF Fresh, Workload
<1>1. PICK w \in Workload : w = Fresh(n, c) /\ w.name = n /\ w.version = 0
    BY <1>0
<1>2. PICK ws : ws = <<w>>
    OBVIOUS
<1>3. ws \in Seq(Workload) /\ DOMAIN ws = {1} /\ ws[1] = w
    BY <1>2
<1>4. NamesOf(ws) = {n} /\ OnceNamed(ws) /\ \A x \in ToSet(ws) : x.version <= 0
    BY <1>1, <1>3 DEF NamesOf, OnceNamed, ToSet
<1>5. [version |-> 0, workloads |-> ws] \in Deployment /\ Sound([version |-> 0, workloads |-> ws])
    BY <1>3, <1>4 DEF Deployment, Sound
<1> QED BY <1>1, <1>2, <1>3, <1>4, <1>5

\* Each action that asks for something keeps the invariant.
LEMMA DeployInv ==
    ASSUME Inv, NEW node \in Nodes, NEW n \in Names, NEW c \in Contents, Deploy(node, n, c)
    PROVE  Inv'
<1>1. PICK d, t : /\ d = [version |-> 0, workloads |-> <<Fresh(n, c)>>]
                  /\ t = TwinDeployment("deploy", node, 0, d)
    OBVIOUS
<1>2. /\ d \in Deployment /\ Sound(d) /\ d.version = 0 /\ NamesOf(d.workloads) = {n}
    BY <1>1, FreshFacts
<1>3. /\ t \in Twin /\ t.operation = "deploy" /\ t.node = node /\ t.contract_id = 0
      /\ t.deployment = d
    BY <1>1, <1>2, TwinIs
<1>4. Valid(t, Live, deployed)
    BY <1>2, <1>3 DEF Valid
<1>5. ApartFrom(t, batch)
    BY <1>2, <1>3 DEF ApartFrom, Deploy, WorkloadsOf
<1>6. Request(t)
    BY <1>1 DEF Deploy
<1> QED BY <1>3, <1>4, <1>5, <1>6, Requested

\* A valid update, of the deployment u.
Revises(u, d) ==
    /\ u \in Deployment /\ u.version = d.version /\ OnceNamed(u.workloads)
    /\ \A w \in ToSet(u.workloads) : Edited(w, d)

\* So does an update that only edits what its contract has.
LEMMA UpdateRequested ==
    ASSUME Inv, NEW id \in Live, NEW u, Revises(u, deployed[id]),
           Request(TwinDeployment("update", 0, id, u))
    PROVE  Inv'
<1>1. PICK t : t = TwinDeployment("update", 0, id, u)
    OBVIOUS
<1>2. id \in Ids /\ u \in Deployment
    BY InvSane DEF Revises
<1>3. /\ t \in Twin /\ t.operation = "update" /\ t.contract_id = id /\ t.deployment = u
    BY <1>1, <1>2, TwinIs
<1>4. Valid(t, Live, deployed)
    BY <1>3 DEF Valid, Revises, WorkloadsOf
<1>5. ApartFrom(t, batch)
    BY <1>3 DEF ApartFrom
<1> QED BY <1>1, <1>3, <1>4, <1>5, Requested

\* The fields of a deployment with other workloads.
LEMMA ReviseShape ==
    ASSUME NEW d \in Deployment, NEW r \in Seq(Workload)
    PROVE  LET u == [d EXCEPT !.workloads = r] IN
           u \in Deployment /\ u.version = d.version /\ u.workloads = r
    BY DEF Deployment

\* The deployment of a contract of the user's.
LEMMA LiveDeployment ==
    ASSUME Inv, NEW id \in Live
    PROVE  \E d \in Deployment :
             /\ d = deployed[id] /\ Sound(d) /\ OnceNamed(d.workloads)
             /\ d.version \in Nat /\ d.workloads \in Seq(Workload)
             /\ Len(d.workloads) \in Nat /\ DOMAIN d.workloads = 1..Len(d.workloads)
             /\ \A i \in DOMAIN d.workloads : d.workloads[i] \in Workload
<1>1. PICK d \in Deployment : d = deployed[id] /\ Sound(d)
    BY InvSane DEF Sane
<1>2. d.version \in Nat /\ d.workloads \in Seq(Workload)
    BY DeploymentShape
<1>3. /\ Len(d.workloads) \in Nat /\ DOMAIN d.workloads = 1..Len(d.workloads)
      /\ \A i \in DOMAIN d.workloads : d.workloads[i] \in Workload
    BY <1>2
<1> QED BY <1>1, <1>2, <1>3 DEF Sound

LEMMA UpdateInv ==
    ASSUME Inv, NEW id \in Live, NEW new \in NewDeployments, Update(id, new)
    PROVE  Inv'
<1>1. PICK d \in Deployment : d = deployed[id] /\ OnceNamed(d.workloads)
    BY LiveDeployment
<1>2. PICK u : u = UpdateDeployment(d, new)
    OBVIOUS
<1>3. Revises(u, d)
    BY <1>1, <1>2, NewFacts, UpdateFacts DEF Revises
<1>4. Request(TwinDeployment("update", 0, id, u))
    BY <1>1, <1>2 DEF Update
<1> QED BY <1>1, <1>3, <1>4, UpdateRequested

LEMMA AddInv ==
    ASSUME Inv, NEW id \in Live, NEW n \in Names, NEW c \in Contents, Add(id, n, c)
    PROVE  Inv'
<1>1. PICK d \in Deployment :
         d = deployed[id] /\ OnceNamed(d.workloads) /\ d.workloads \in Seq(Workload)
    BY LiveDeployment
<1>2. PICK new : new = Append(d.workloads, Fresh(n, c))
    OBVIOUS
<1>3. new \in Seq(Workload)
  <2>1. Fresh(n, c) \in Workload
      BY FreshFacts
  <2> QED BY <1>1, <1>2, <2>1
<1>4. PICK u : u = UpdateDeployment(d, new)
    OBVIOUS
<1>5. Revises(u, d)
    BY <1>1, <1>3, <1>4, UpdateFacts DEF Revises
<1>6. Request(TwinDeployment("update", 0, id, u))
    BY <1>1, <1>2, <1>4 DEF Add
<1> QED BY <1>1, <1>5, <1>6, UpdateRequested

\* The network update changes the version of the network, and nothing else.
LEMMA RewiredFacts ==
    ASSUME NEW w \in Workload
    PROVE  /\ Rewired(w) \in Workload /\ Rewired(w).name = w.name
           /\ \/ Rewired(w) = w
              \/ /\ IsNet(Rewired(w)) /\ Rewired(w).content = w.content
                 /\ Rewired(w).version = w.version + 1
    BY DEF Rewired, Workload, IsNet

LEMMA UpdateNetworkInv ==
    ASSUME Inv, NEW id \in Live, UpdateNetwork(id)
    PROVE  Inv'
<1>1. PICK d \in Deployment :
         /\ d = deployed[id] /\ Sound(d) /\ OnceNamed(d.workloads) /\ d.version \in Nat
         /\ d.workloads \in Seq(Workload)
         /\ Len(d.workloads) \in Nat /\ DOMAIN d.workloads = 1..Len(d.workloads)
         /\ \A i \in DOMAIN d.workloads : d.workloads[i] \in Workload
    BY LiveDeployment
<1>2. PICK ws : ws = d.workloads
    OBVIOUS
<1>3. PICK r : r = [i \in DOMAIN ws |-> Rewired(ws[i])]
    OBVIOUS
<1>5. DOMAIN r = DOMAIN ws /\ \A i \in DOMAIN ws : r[i] = Rewired(ws[i])
    BY <1>3
<1>6. \A i \in DOMAIN ws : /\ r[i] \in Workload /\ r[i].name = ws[i].name
                           /\ \/ r[i] = ws[i]
                              \/ IsNet(r[i]) /\ r[i].content = ws[i].content
                                 /\ r[i].version = ws[i].version + 1
    BY <1>1, <1>2, <1>5, RewiredFacts
<1>7. r \in Seq(Workload)
  <2>1. r = [i \in 1..Len(ws) |-> r[i]]
      BY <1>1, <1>2, <1>3
  <2>2. r \in [1..Len(ws) -> Workload]
      BY <1>1, <1>2, <1>6, <2>1
  <2> QED BY <1>1, <1>2, <2>2
<1>8. OnceNamed(r)
    BY <1>1, <1>2, <1>5, <1>6 DEF OnceNamed
<1>9. ASSUME NEW w \in ToSet(r)  PROVE Edited(w, d)
  <2>1. PICK i \in DOMAIN ws : w = r[i]
      BY <1>5 DEF ToSet
  <2>2. w.name \in NamesOf(ws) /\ ws[i] \in ToSet(ws)
      BY <1>6, <2>1, SetOfNames
  <2>3. ASSUME NEW v \in ToSet(ws), v.name = w.name  PROVE v = ws[i]
      BY <1>1, <1>2, <1>6, <2>1, <2>2, <2>3, OnceEqual
  <2> QED BY <1>2, <1>6, <2>1, <2>2, <2>3 DEF Edited
<1>10. PICK u : u = [d EXCEPT !.workloads = r]
    OBVIOUS
<1>11. Revises(u, d)
    BY <1>7, <1>8, <1>9, <1>10, ReviseShape DEF Revises
<1>12. Request(TwinDeployment("update", 0, id, u))
    BY <1>1, <1>2, <1>3, <1>10 DEF UpdateNetwork
<1> QED BY <1>1, <1>11, <1>12, UpdateRequested

LEMMA DeleteInv ==
    ASSUME Inv, NEW id \in Live, NEW names, Delete(id, names)
    PROVE  Inv'
<1>1. PICK d \in Deployment :
         d = deployed[id] /\ OnceNamed(d.workloads) /\ d.workloads \in Seq(Workload)
    BY LiveDeployment
<1> DEFINE I == {i \in DOMAIN d.workloads : d.workloads[i].name \notin names}
<1>2. I \in SUBSET DOMAIN d.workloads
    OBVIOUS
<1>3. PICK left : left = Only(d.workloads, I)
    OBVIOUS
<1>4. Request(IF left = <<>> THEN TwinDeployment("delete", 0, id, d)
              ELSE TwinDeployment("update", 0, id, [d EXCEPT !.workloads = left]))
    BY <1>1, <1>3 DEF Delete
<1> HIDE DEF I
<1>5. left \in Seq(Workload) /\ ToSet(left) = {d.workloads[i] : i \in I} /\ OnceNamed(left)
    BY <1>1, <1>2, <1>3, SetOfOnly, OnlyOnce
<1>6. CASE left = <<>>
  <2>1. PICK t : t = TwinDeployment("delete", 0, id, d)
      OBVIOUS
  <2>2. id \in Ids
      BY InvSane
  <2>3. t \in Twin /\ t.operation = "delete" /\ t.contract_id = id
      BY <2>1, <2>2, TwinIs
  <2>4. Valid(t, Live, deployed) /\ ApartFrom(t, batch)
      BY <2>3 DEF Valid, ApartFrom
  <2>5. Request(t)
      BY <1>4, <1>6, <2>1
  <2> QED BY <2>3, <2>4, <2>5, Requested
<1>7. CASE left # <<>>
  <2>1. PICK u : u = [d EXCEPT !.workloads = left]
      OBVIOUS
  <2>2. ASSUME NEW w \in ToSet(left)  PROVE Edited(w, d)
    <3>1. w \in ToSet(d.workloads) /\ w.name \in NamesOf(d.workloads)
        BY <1>2, <1>5, SetOfNames
    <3> QED BY <1>1, <3>1, OnceEqual DEF Edited
  <2>3. Revises(u, d)
      BY <1>5, <2>1, <2>2, ReviseShape DEF Revises
  <2>4. Request(TwinDeployment("update", 0, id, u))
      BY <1>4, <1>7, <2>1
  <2> QED BY <1>1, <2>3, <2>4, UpdateRequested
<1> QED BY <1>6, <1>7
-----------------------------------------------------------------------------
(***************************************************************************)
(* handle().                                                               *)
(***************************************************************************)
\* The deployment d2 that a contract of the user's has when a batch is done.
Becomes(d2, id, L, dep) ==
    \/ d2 = NoDeployment
    \/ d2 = dep[id]
    \/ \E u : Latest(u, L, dep) /\ u.contract_id = id /\ d2 = u.deployment

\* A deleted deployment is sound: it has nothing.
LEMMA NoDeploymentSound ==
    NoDeployment \in Deployment /\ Sound(NoDeployment) /\ ToSet(NoDeployment.workloads) = {}
<1>1. NoDeployment.version = 0 /\ NoDeployment.workloads = <<>>
    BY DEF NoDeployment
<1>2. ToSet(<<>>) = {} /\ OnceNamed(<<>>)
    BY DEF ToSet, OnceNamed
<1>3. NoDeployment \in Deployment
    BY DEF NoDeployment, Deployment
<1> QED BY <1>1, <1>2, <1>3 DEF Sound

\* Whatever handle() makes of a contract is sound.
LEMMA BecomesSound ==
    ASSUME NEW L, NEW dep, Sane(L, dep), NEW id \in L, NEW d, Becomes(d, id, L, dep)
    PROVE  d \in Deployment /\ Sound(d)
<1>1. CASE d = NoDeployment
    BY <1>1, NoDeploymentSound
<1>2. CASE d = dep[id]
    BY <1>2 DEF Sane
<1>3. CASE \E u : Latest(u, L, dep) /\ u.contract_id = id /\ d = u.deployment
  <2>1. PICK u : Latest(u, L, dep) /\ d = u.deployment
      BY <1>3
  <2>2. u \in Twin /\ Sound(u.deployment)
      BY <2>1 DEF Latest
  <2> QED BY <2>1, <2>2, TwinShape
<1> QED BY <1>1, <1>2, <1>3 DEF Becomes

\* What handle() leaves: the first ids, and a sound deployment for each.
Handled(k, p, D) ==
    /\ k + p <= MaxId
    /\ deployed' \in [Ids -> Deployment] /\ \A id \in Ids : Sound(deployed'[id])
    /\ \A id \in Live : Becomes(deployed'[id], id, Live, deployed)
    /\ location' = [id \in Ids |-> IF id \in (k + 1)..(k + p) THEN D[id - k].node
                                                              ELSE location[id]]
    /\ \A i \in 1..p : D[i].node \in Nodes
    /\ batch' = <<>>

\* Handle, of a merged batch M with the deployments ds.
HandleOf(M, ds, first) ==
    /\ first + Len(ds) - 1 <= MaxId
    /\ deployed' = [id \in Ids |->
          IF id \in first..(first + Len(ds) - 1) THEN ds[id - first + 1].deployment
          ELSE IF {i \in DOMAIN M : M[i].contract_id = id /\ M[i].operation = "delete"} # {}
               THEN NoDeployment
          ELSE IF {i \in DOMAIN M : M[i].contract_id = id /\ M[i].operation = "update"} # {}
               THEN M[CHOOSE i \in {i \in DOMAIN M :
                         M[i].contract_id = id /\ M[i].operation = "update"} : TRUE].deployment
          ELSE deployed[id]]
    /\ location' = [id \in Ids |-> IF id \in first..(first + Len(ds) - 1)
                                   THEN ds[id - first + 1].node ELSE location[id]]
    /\ batch' = <<>>

\* handle() leaves what Handled says.
LEMMA HandleFacts ==
    ASSUME Inv, Handle
    PROVE  \E k, p \in Nat : Live = 1..k /\ \E D : Handled(k, p, D)
<1>1. PICK M, D, X : M = Merge(batch) /\ D = DeployMerge(batch) /\ X = Of(batch, "delete")
    OBVIOUS
<1>2. Sane(Live, deployed) /\ Live \subseteq Ids /\ Asked(batch, Live, deployed)
    BY InvSane DEF Inv
<1>3. /\ D \in Seq(Twin) /\ X \in Seq(Twin)
      /\ \E V : \E p, q, r \in Nat : Merged(M, D, p, V, q, X, r, Live, deployed)
    BY <1>1, <1>2, MergeFacts
<1>4. PICK V : \E p, q, r \in Nat : Merged(M, D, p, V, q, X, r, Live, deployed)
    BY <1>3
<1>5. PICK p \in Nat, q \in Nat, r \in Nat : Merged(M, D, p, V, q, X, r, Live, deployed)
    BY <1>4
<1>6. Of(M, "deploy") = D /\ Len(D) = p
  <2>1. Parts(M, D, p, V, q, X, r)
      BY <1>5 DEF Merged
  <2>2. Len(D) = p
      BY <2>1 DEF Parts
  <2>3. Of(M, "deploy") = D
      BY <1>3, <1>5, MergedOf
  <2> QED BY <2>2, <2>3
<1>7. PICK k \in 0..MaxId : Live = 1..k
    BY DEF Inv
<1>8. k \in Nat /\ MaxId \in Nat /\ Cardinality(Live) = k
    BY <1>7, MergeAssumption, FS_Interval
<1>9. /\ (k + 1) + p - 1 <= MaxId /\ batch' = <<>>
      /\ location' = [id \in Ids |-> IF id \in (k + 1)..((k + 1) + p - 1)
                                     THEN D[id - (k + 1) + 1].node ELSE location[id]]
      /\ deployed' = [id \in Ids |->
            IF id \in (k + 1)..((k + 1) + p - 1) THEN D[id - (k + 1) + 1].deployment
            ELSE IF {i \in DOMAIN M : M[i].contract_id = id /\ M[i].operation = "delete"} # {}
                 THEN NoDeployment
            ELSE IF {i \in DOMAIN M : M[i].contract_id = id /\ M[i].operation = "update"} # {}
                 THEN M[CHOOSE i \in {i \in DOMAIN M :
                           M[i].contract_id = id /\ M[i].operation = "update"} : TRUE].deployment
            ELSE deployed[id]]
  <2>1. HandleOf(Merge(batch), Of(Merge(batch), "deploy"), Cardinality(Live) + 1)
      BY DEF Handle, HandleOf
  <2>2. HandleOf(M, D, k + 1)
      BY <1>1, <1>6, <1>8, <2>1
  <2> QED BY <1>6, <2>2 DEF HandleOf
<1>10. /\ (k + 1) + p - 1 = k + p
       /\ \A id \in Ids : id - (k + 1) + 1 = id - k /\ (id \in (k + 1)..(k + p) => id - k \in 1..p)
    BY <1>8 DEF Ids
<1>11. location' = [id \in Ids |-> IF id \in (k + 1)..(k + p) THEN D[id - k].node
                                                             ELSE location[id]]
    BY <1>9, <1>10
<1>12. \A i \in 1..p : D[i].node \in Nodes /\ D[i].deployment \in Deployment /\ Sound(D[i].deployment)
  <2>1. \A i \in 1..p : D[i] \in Twin /\ D[i].operation = "deploy" /\ Valid(D[i], Live, deployed)
      BY <1>5 DEF Merged
  <2> QED BY <2>1, TwinShape DEF Valid
<1> DEFINE Ups(id) == {i \in DOMAIN M : M[i].contract_id = id /\ M[i].operation = "update"}
           Dels(id) == {i \in DOMAIN M : M[i].contract_id = id /\ M[i].operation = "delete"}
<1>13. \A id : \A i \in Ups(id) : Latest(M[i], Live, deployed) /\ M[i].contract_id = id
  <2>1. ASSUME NEW id, NEW i \in Ups(id)
        PROVE  Latest(M[i], Live, deployed) /\ M[i].contract_id = id
    <3>1. i \in DOMAIN M /\ M[i].operation = "update" /\ M[i].contract_id = id
        OBVIOUS
    <3>2. Place(M, D, p, V, q, X, r, i)
        BY <1>5, <3>1, MergedPlaces
    <3>3. PICK l \in 1..q : M[i] = V[l]
        BY <3>1, <3>2 DEF Place
    <3>4. Latest(V[l], Live, deployed)
        BY <1>5 DEF Merged
    <3> QED BY <3>1, <3>3, <3>4
  <2> QED BY <2>1
<1>14. PICK nd : nd = deployed'
    OBVIOUS
<1>15. nd = [id \in Ids |->
            IF id \in (k + 1)..(k + p) THEN D[id - k].deployment
            ELSE IF Dels(id) # {} THEN NoDeployment
            ELSE IF Ups(id) # {} THEN M[CHOOSE i \in Ups(id) : TRUE].deployment
            ELSE deployed[id]]
    BY <1>9, <1>10, <1>14
<1> HIDE DEF Ups, Dels
<1>16. ASSUME NEW id \in Ids
       PROVE  /\ id \in (k + 1)..(k + p) => nd[id] = D[id - k].deployment
              /\ id \notin (k + 1)..(k + p) =>
                   \/ nd[id] = NoDeployment
                   \/ nd[id] = deployed[id]
                   \/ \E u : /\ Latest(u, Live, deployed) /\ u.contract_id = id
                             /\ nd[id] = u.deployment
  <2>1. Ups(id) # {} => (CHOOSE i \in Ups(id) : TRUE) \in Ups(id)
      OBVIOUS
  <2> QED BY <1>13, <1>15, <2>1
<1>17. \A id \in Live : id \in Ids /\ id \notin (k + 1)..(k + p) /\ Becomes(nd[id], id, Live, deployed)
  <2>1. \A id \in Live : id \in Ids /\ id \notin (k + 1)..(k + p)
      BY <1>2, <1>7, <1>8
  <2> QED BY <1>16, <2>1 DEF Becomes
<1>18. ASSUME NEW id \in Ids  PROVE nd[id] \in Deployment /\ Sound(nd[id])
  <2>1. CASE id \in (k + 1)..(k + p)
      BY <1>10, <1>12, <1>16, <2>1
  <2>2. CASE id \notin (k + 1)..(k + p) /\ id \in Live
      BY <1>2, <1>17, <2>2, BecomesSound
  <2>3. CASE id \notin (k + 1)..(k + p) /\ id \notin Live
    <3>1. \A u : Latest(u, Live, deployed) => u.contract_id \in Live
        BY DEF Latest
    <3>2. nd[id] = NoDeployment \/ nd[id] = deployed[id]
        BY <1>16, <2>3, <3>1
    <3> QED BY <3>2, NoDeploymentSound DEF Inv
  <2> QED BY <2>1, <2>2, <2>3
<1>19. nd \in [Ids -> Deployment]
  <2>1. nd = [id \in Ids |-> nd[id]]
      BY <1>15
  <2> QED BY <1>18, <2>1
<1>20. Handled(k, p, D)
  <2>1. k + p <= MaxId
      BY <1>9, <1>10
  <2> QED BY <1>9, <1>11, <1>12, <1>14, <1>17, <1>18, <1>19, <2>1 DEF Handled
<1> QED BY <1>7, <1>8, <1>20

LEMMA HandleInv ==
    ASSUME Inv, Handle
    PROVE  Inv'
<1>1. PICK k \in Nat, p \in Nat : Live = 1..k /\ \E D : Handled(k, p, D)
    BY HandleFacts
<1>2. PICK D : Handled(k, p, D)
    BY <1>1
<1>3. /\ k + p \in 0..MaxId
      /\ \A id \in Ids : location'[id] = IF id \in (k + 1)..(k + p) THEN D[id - k].node
                                                                   ELSE location[id]
      /\ \A i \in 1..p : D[i].node \in Nodes
    BY <1>1, <1>2, MergeAssumption DEF Handled
<1>4. \A id \in Ids : id \in (k + 1)..(k + p) =>
                        location'[id] \in Nodes /\ location'[id] # 0
  <2>1. ASSUME NEW id \in Ids, id \in (k + 1)..(k + p)
        PROVE  location'[id] \in Nodes /\ location'[id] # 0
    <3>1. id - k \in 1..p
        BY <1>1, <2>1
    <3> QED BY <1>3, <2>1, <3>1, MergeAssumption
  <2> QED BY <2>1
<1>5. location' \in [Ids -> Nodes \cup {0}]
  <2>1. \A id \in Ids : location'[id] \in Nodes \cup {0}
      BY <1>3, <1>4 DEF Inv
  <2>2. location' = [id \in Ids |-> location'[id]]
      BY <1>2 DEF Handled
  <2> QED BY <2>1, <2>2
<1>6. Live' = 1..(k + p)
  <2>1. \A id \in Ids : location'[id] # 0 <=> id \in 1..(k + p)
    <3>1. \A id \in Ids : location[id] # 0 <=> id \in 1..k
        BY <1>1 DEF Live
    <3>2. \A id \in Ids : id \in 1..(k + p) <=> id \in 1..k \/ id \in (k + 1)..(k + p)
        BY <1>1 DEF Ids
    <3>3. \A id \in Ids : ~(id \in 1..k /\ id \in (k + 1)..(k + p))
        BY <1>1 DEF Ids
    <3> QED BY <1>3, <1>4, <3>1, <3>2, <3>3
  <2>2. 1..(k + p) \subseteq Ids
      BY <1>1, <1>3, MergeAssumption DEF Ids
  <2>3. Live' = {id \in Ids : location'[id] # 0}
      BY DEF Live
  <2> QED BY <2>1, <2>2, <2>3
<1>7. \A L, dep : Asked(<<>>, L, dep)
    BY DEF Asked, Apart
<1>8. /\ deployed' \in [Ids -> Deployment] /\ \A id \in Ids : Sound(deployed'[id])
      /\ batch' = <<>>
    BY <1>2 DEF Handled
<1> QED BY <1>3, <1>5, <1>6, <1>7, <1>8 DEF Inv

LEMMA InitInv ==
    ASSUME Init
    PROVE  Inv
<1>1. PICK n \in Nodes, a \in Names, c \in Contents :
         /\ deployed = [id \in Ids |->
              IF id = 1 THEN [version |-> 0, workloads |-> <<Fresh(Net, c), Fresh(a, c)>>]
                        ELSE NoDeployment]
         /\ location = [id \in Ids |-> IF id = 1 THEN n ELSE 0]
    BY DEF Init
<1>2. PICK v, w : /\ v = Fresh(Net, c) /\ v.name = Net /\ v.version = 0 /\ v \in Workload
                  /\ w = Fresh(a, c) /\ w.name = a /\ w.version = 0 /\ w \in Workload
  <2>1. \A x \in {Net, a} : /\ Fresh(x, c).name = x /\ Fresh(x, c).version = 0
                           /\ Fresh(x, c) \in Workload
      BY FreshFacts
  <2> QED BY <2>1
<1>3. PICK ws : ws = <<v, w>>
    OBVIOUS
<1>4. ws \in Seq(Workload) /\ DOMAIN ws = {1, 2} /\ ws[1] = v /\ ws[2] = w
  <2>1. v \in Workload /\ w \in Workload
      BY <1>2
  <2> QED BY <1>3, <2>1
<1>5. PICK d : d = [version |-> 0, workloads |-> ws]
    OBVIOUS
<1>6. d \in Deployment /\ Sound(d)
  <2>1. OnceNamed(ws)
      BY <1>2, <1>4, MergeAssumption DEF OnceNamed
  <2>2. \A x \in ToSet(ws) : x.version <= 0
      BY <1>2, <1>4 DEF ToSet
  <2> QED BY <1>4, <1>5, <2>1, <2>2 DEF Deployment, Sound
<1>7. deployed = [id \in Ids |-> IF id = 1 THEN d ELSE NoDeployment]
    BY <1>1, <1>2, <1>3, <1>5
<1>8. deployed \in [Ids -> Deployment] /\ \A id \in Ids : Sound(deployed[id])
    BY <1>6, <1>7, NoDeploymentSound
<1>9. location \in [Ids -> Nodes \cup {0}]
    BY <1>1
<1>10. n # 0 /\ MaxId \in Nat
    BY MergeAssumption
<1>11. \E k \in 0..MaxId : Live = 1..k
  <2>1. CASE MaxId = 0
    <3>1. Live = 1..0 /\ 0 \in 0..MaxId
        BY <2>1 DEF Live, Ids
    <3> QED BY <3>1
  <2>2. CASE MaxId # 0
    <3>1. Live = 1..1 /\ 1 \in 0..MaxId
        BY <1>1, <1>10, <2>2 DEF Live, Ids
    <3> QED BY <3>1
  <2> QED BY <2>1, <2>2
<1>12. Asked(batch, Live, deployed)
  <2>1. batch = <<>>
      BY DEF Init
  <2> QED BY <2>1 DEF Asked, Apart
<1> QED BY <1>8, <1>9, <1>11, <1>12 DEF Inv

LEMMA NextInv ==
    ASSUME Inv, [Next]_vars
    PROVE  Inv'
<1>1. CASE UNCHANGED vars
  <2>1. deployed' = deployed /\ location' = location /\ batch' = batch
      BY <1>1 DEF vars
  <2>2. Live' = Live
      BY <2>1 DEF Live
  <2> QED BY <2>1, <2>2 DEF Inv
<1>2. CASE \E node \in Nodes, n \in Names, c \in Contents : Deploy(node, n, c)
    BY <1>2, DeployInv
<1>3. ASSUME NEW id \in Live, \E new \in NewDeployments : Update(id, new)  PROVE Inv'
    BY <1>3, UpdateInv
<1>4. ASSUME NEW id \in Live, \E n \in Names, c \in Contents : Add(id, n, c)  PROVE Inv'
    BY <1>4, AddInv
<1>5. ASSUME NEW id \in Live, \E names \in SUBSET (Names \cup {Net}) : Delete(id, names)
      PROVE  Inv'
    BY <1>5, DeleteInv
<1>6. ASSUME NEW id \in Live, UpdateNetwork(id)  PROVE Inv'
    BY <1>6, UpdateNetworkInv
<1>7. CASE Handle
    BY <1>7, HandleInv
<1> QED BY <1>1, <1>2, <1>3, <1>4, <1>5, <1>6, <1>7 DEF Next

-----------------------------------------------------------------------------
(***************************************************************************)
(* The theorems.                                                           *)
(***************************************************************************)
\* The contracts are those of the first ids, their deployments sound, and all
\* that waits to be merged valid: what Deploy, Update, Add, UpdateNetwork and
\* Delete ask for, and what handle() leaves.
THEOREM Invariance == Spec => []Inv
<1>1. Init => Inv
    BY InitInv
<1>2. Inv /\ [Next]_vars => Inv'
    BY NextInv
<1> QED BY <1>1, <1>2, PTL DEF Spec

\* A node holds each workload once, none newer than its deployment.
THEOREM Typed == Spec => []TypeOK
<1>1. Inv => TypeOK
    BY InvTypeOK
<1> QED BY <1>1, Invariance, PTL

\* merge leaves one deployment for a node, one update or deletion for a
\* contract, and every deletion.
THEOREM MergesOnce == Spec => []MergedOnce
<1>1. Inv => MergedOnce
    BY InvMergedOnce
<1> QED BY <1>1, Invariance, PTL

\* deployMerge takes to a node what was to be deployed on it, in that order.
THEOREM JoinsDeploys == Spec => []DeploysJoined
<1>1. Inv => DeploysJoined
    BY InvDeploysJoined
<1> QED BY <1>1, Invariance, PTL

\* UpdateDeployment does what the new deployment says.
THEOREM UpdatesExactly == Spec => []UpdateExact
<1>1. Inv => UpdateExact
    BY InvUpdateExact
<1> QED BY <1>1, Invariance, PTL

\* _updateToLatest applies all of the updates that do not contradict each other.
THEOREM AppliesUpdates == Spec => []UpdatesApplied
<1>1. Inv => UpdatesApplied
    BY InvUpdatesApplied
<1> QED BY <1>1, Invariance, PTL

\* The workloads of d2 have the versions that a node tells changes of d by.
VersionsTell(d, d2) ==
    \A w \in ToSet(d2.workloads) :
        IF At(d.workloads, w.name) = {} THEN w.version = d2.version
        ELSE \A v \in At(d.workloads, w.name) :
               IF w.content # v.content THEN w.version = d2.version
               ELSE IF IsNet(w) THEN w.version \in {v.version, v.version + 1}
               ELSE w.version = v.version

\* Whatever handle() makes of a contract has the versions that tell.
LEMMA BecomesVersioned ==
    ASSUME NEW L, NEW dep, Sane(L, dep), NEW id \in L, NEW d2, Becomes(d2, id, L, dep)
    PROVE  VersionsTell(dep[id], d2)
<1>1. PICK d \in Deployment : d = dep[id] /\ Sound(d)
    BY DEF Sane
<1>2. d.workloads \in Seq(Workload) /\ OnceNamed(d.workloads)
    BY <1>1, DeploymentShape DEF Sound
<1>3. ASSUME NEW n
      PROVE  /\ \A v : v \in At(d.workloads, n) <=> v \in ToSet(d.workloads) /\ v.name = n
             /\ At(d.workloads, n) = {} <=> n \notin NamesOf(d.workloads)
  <2>1. At(d.workloads, n) = {w \in ToSet(d.workloads) : w.name = n}
      BY <1>2, AtFacts
  <2>2. At(d.workloads, n) = {} <=> n \notin NamesOf(d.workloads)
      BY <1>2, AtFacts
  <2> QED BY <2>1, <2>2
<1>4. CASE d2 = NoDeployment
    BY <1>4, NoDeploymentSound DEF VersionsTell
<1>5. CASE d2 = d
  <2>1. ASSUME NEW w \in ToSet(d.workloads)
        PROVE  /\ At(d.workloads, w.name) # {}
               /\ \A v \in At(d.workloads, w.name) : v = w
    <3>1. \A v \in At(d.workloads, w.name) : v \in ToSet(d.workloads) /\ v.name = w.name
        BY <1>3
    <3>2. w \in At(d.workloads, w.name)
        BY <1>3
    <3>3. \A v \in At(d.workloads, w.name) : v = w
        BY <1>2, <3>1, OnceEqual
    <3> QED BY <3>2, <3>3
  <2>2. VersionsTell(d, d)
      BY <2>1 DEF VersionsTell
  <2> QED BY <1>1, <1>5, <2>2
<1>6. CASE \E u : Latest(u, L, dep) /\ u.contract_id = id /\ d2 = u.deployment
  <2>1. PICK u : Latest(u, L, dep) /\ u.contract_id = id /\ d2 = u.deployment
      BY <1>6
  <2>2. /\ d2.version = d.version + 1
        /\ \A w \in ToSet(d2.workloads) : Edited(w, d)
      BY <1>1, <2>1 DEF Latest, WorkloadsOf
  <2>3. ASSUME NEW w \in ToSet(d2.workloads), At(d.workloads, w.name) = {}
        PROVE  w.version = d2.version
    <3>1. w.name \notin NamesOf(d.workloads)
        BY <1>3, <2>3
    <3> QED BY <2>2, <3>1 DEF Edited
  <2>4. ASSUME NEW w \in ToSet(d2.workloads), NEW v \in At(d.workloads, w.name)
        PROVE  IF w.content # v.content THEN w.version = d2.version
               ELSE IF IsNet(w) THEN w.version \in {v.version, v.version + 1}
               ELSE w.version = v.version
    <3>1. v \in ToSet(d.workloads) /\ v.name = w.name
        BY <1>3
    <3>2. \/ w = v
          \/ w.content # v.content /\ w.version = d2.version
          \/ IsNet(w) /\ w.content = v.content /\ w.version = v.version + 1
        BY <2>2, <3>1 DEF Edited
    <3> QED BY <3>2
  <2>5. VersionsTell(d, d2)
      BY <2>3, <2>4 DEF VersionsTell
  <2> QED BY <1>1, <2>5
<1> QED BY <1>1, <1>4, <1>5, <1>6 DEF Becomes

\* The body of ChangeVersioned.
Versioned == Handle => \A id \in Live : VersionsTell(deployed[id], deployed'[id])

\* handle() keeps to it.
LEMMA HandleVersioned ==
    ASSUME Inv, Handle, NEW id \in Live
    PROVE  VersionsTell(deployed[id], deployed'[id])
<1>1. PICK k \in Nat, p \in Nat : Live = 1..k /\ \E D : Handled(k, p, D)
    BY HandleFacts
<1>2. Becomes(deployed'[id], id, Live, deployed)
    BY <1>1 DEF Handled
<1> QED BY <1>2, InvSane, BecomesVersioned

\* What handle() changes on a node has the version of its deployment, and what
\* it does not change keeps exactly its own, the network at most the next one.
THEOREM VersionsChanges == Spec => ChangeVersioned
<1>1. Inv /\ [Next]_vars => [Versioned]_vars
    BY HandleVersioned DEF Versioned
<1>2. ChangeVersioned <=> [][Versioned]_vars
    BY DEF ChangeVersioned, Versioned, VersionsTell
<1> QED BY <1>1, <1>2, Invariance, PTL DEF Spec
=============================================================================
