--------------------------- MODULE CollectionProofs ---------------------------
(***************************************************************************)
(* Theorems about the operators on sequences and sets that the components  *)
(* use: the elements at some positions of a sequence, sequences joined one *)
(* after the other, sets in a sequence, recursive functions, and sums.     *)
(* The proofs about the components rest on them.                           *)
(***************************************************************************)
EXTENDS Subsequences, SequencesExt, SequenceTheorems, FunctionTheorems, FiniteSetTheorems, TLAPS

\* The smaller and the larger of two numbers.
LEMMA OfTwo ==
  ASSUME NEW a \in Int, NEW b \in Int
  PROVE  /\ Min({a, b}) = IF a <= b THEN a ELSE b
         /\ Max({a, b}) = IF a >= b THEN a ELSE b
  <1> DEFINE low == IF a <= b THEN a ELSE b
             high == IF a >= b THEN a ELSE b
  <1>1. low \in {a, b} /\ \A y \in {a, b} : low <= y
    OBVIOUS
  <1>2. \A x \in {a, b} : (\A y \in {a, b} : x <= y) => x = low
    OBVIOUS
  <1>3. high \in {a, b} /\ \A y \in {a, b} : high >= y
    OBVIOUS
  <1>4. \A x \in {a, b} : (\A y \in {a, b} : x >= y) => x = high
    OBVIOUS
  <1> HIDE DEF low, high
  <1>5. Min({a, b}) = low
    BY <1>1, <1>2 DEF Min
  <1>6. Max({a, b}) = high
    BY <1>3, <1>4 DEF Max
  <1>7. QED
    BY <1>5, <1>6 DEF low, high

\* A function on the numbers up to n is a sequence of length n.
LEMMA SequenceOfLength ==
  ASSUME NEW S, NEW n \in Nat, NEW s \in [1 .. n -> S]
  PROVE  s \in Seq(S) /\ Len(s) = n
  <1>1. s \in Seq(S)
    BY SeqDef
  <1>2. DOMAIN s = 1 .. n /\ DOMAIN s = 1 .. Len(s) /\ Len(s) \in Nat
    BY <1>1, LenProperties
  <1>3. QED
    BY <1>1, <1>2

\* The rank of an element of a set of positions: how many are not behind it.
RankIn(at, j) == Cardinality({k \in at : k <= j})

\* Ranks begin with 1, grow with the positions, and each number up to the
\* size of the set is one.
LEMMA Ranks ==
  ASSUME NEW n \in Nat, NEW at \in SUBSET (1 .. n)
  PROVE  /\ IsFiniteSet(at) /\ Cardinality(at) \in Nat
         /\ \A j \in at : RankIn(at, j) \in 1 .. Cardinality(at)
         /\ \A i, j \in at : i < j => RankIn(at, i) < RankIn(at, j)
         /\ \A r \in 1 .. Cardinality(at) : \E j \in at : RankIn(at, j) = r
  <1> DEFINE upto(j) == {k \in at : k <= j}
             c == Cardinality(at)
  <1>1. IsFiniteSet(at)
    <2>1. IsFiniteSet(1 .. n)
      BY FS_Interval
    <2>2. QED
      BY <2>1, FS_Subset
  <1>2. c \in Nat
    BY <1>1, FS_CardinalityType
  <1>3. \A j : IsFiniteSet(upto(j)) /\ Cardinality(upto(j)) \in Nat /\ Cardinality(upto(j)) <= c
    <2> SUFFICES ASSUME NEW j
                 PROVE  IsFiniteSet(upto(j)) /\ Cardinality(upto(j)) \in Nat /\ Cardinality(upto(j)) <= c
      OBVIOUS
    <2>1. upto(j) \in SUBSET at
      OBVIOUS
    <2>2. IsFiniteSet(upto(j)) /\ Cardinality(upto(j)) <= c
      BY <1>1, <2>1, FS_Subset
    <2>3. QED
      BY <2>2, FS_CardinalityType
  <1>4. ASSUME NEW j \in at
        PROVE  RankIn(at, j) \in 1 .. c
    <2>1. j \in upto(j)
      OBVIOUS
    <2>2. upto(j) # {}
      BY <2>1
    <2>3. Cardinality(upto(j)) # 0
      BY <1>3, <2>2, FS_EmptySet
    <2>4. QED
      BY <1>2, <1>3, <2>3 DEF RankIn
  <1>5. ASSUME NEW i \in at, NEW j \in at, i < j
        PROVE  RankIn(at, i) < RankIn(at, j)
    <2>1. upto(i) \in SUBSET upto(j)
      <3>1. i \in Int /\ j \in Int /\ \A k \in at : k \in Int
        OBVIOUS
      <3>2. \A k \in at : k <= i => k <= j
        BY <1>5, <3>1
      <3>3. QED
        BY <3>2
    <2>2. j \in upto(j) /\ j \notin upto(i)
      BY <1>5
    <2>3. upto(i) # upto(j)
      BY <2>2
    <2>4. /\ Cardinality(upto(i)) <= Cardinality(upto(j))
          /\ Cardinality(upto(i)) = Cardinality(upto(j)) => upto(i) = upto(j)
      BY <1>3, <2>1, FS_Subset
    <2>5. QED
      BY <1>3, <2>3, <2>4 DEF RankIn
  <1> DEFINE rank == [j \in at |-> RankIn(at, j)]
  <1>6. rank \in Injection(at, 1 .. c)
    <2>1. rank \in [at -> 1 .. c]
      BY <1>4
    <2>2. ASSUME NEW i \in at, NEW j \in at, rank[i] = rank[j] PROVE i = j
      <3>1. RankIn(at, i) = RankIn(at, j)
        BY <2>2
      <3>2. RankIn(at, i) \in Nat /\ RankIn(at, j) \in Nat
        BY <1>2, <1>4
      <3>3. ~(i < j) /\ ~(j < i)
        BY <1>5, <3>1, <3>2
      <3>4. QED
        BY <3>3
    <2> HIDE DEF rank
    <2>3. QED
      BY <2>1, <2>2, Fun_IsInj
  <1>7. IsFiniteSet(1 .. c) /\ Cardinality(1 .. c) = c
    BY <1>2, FS_Interval
  <1>8. rank \in Surjection(at, 1 .. c)
    <2> HIDE DEF rank, c
    <2>1. Cardinality(at) = Cardinality(1 .. c)
      BY <1>7 DEF c
    <2>2. QED
      BY <1>6, <1>7, <2>1, FS_Injection
  <1>9. ASSUME NEW r \in 1 .. c PROVE \E j \in at : RankIn(at, j) = r
    <2>1. \E j \in at : rank[j] = r
      <3> HIDE DEF rank, c
      <3>1. QED
        BY <1>8 DEF Surjection
    <2>2. QED
      BY <2>1
  <1>10. QED
    BY <1>1, <1>2, <1>4, <1>5, <1>9

\* The i-th position is one of the chosen, and the positions are met in their
\* order, each of them once.
LEMMA Positions ==
  ASSUME NEW n \in Nat, NEW at \in SUBSET (1 .. n)
  PROVE  /\ Cardinality(at) \in Nat
         /\ \A i \in 1 .. Cardinality(at) : Nth(at, i) \in at /\ RankIn(at, Nth(at, i)) = i
         /\ \A i, j \in 1 .. Cardinality(at) : i < j => Nth(at, i) < Nth(at, j)
         /\ \A p \in at : \E i \in 1 .. Cardinality(at) : Nth(at, i) = p
  <1>1. /\ Cardinality(at) \in Nat
        /\ \A j \in at : RankIn(at, j) \in 1 .. Cardinality(at)
        /\ \A i, j \in at : i < j => RankIn(at, i) < RankIn(at, j)
        /\ \A r \in 1 .. Cardinality(at) : \E j \in at : RankIn(at, j) = r
    BY Ranks
  <1>2. ASSUME NEW i \in 1 .. Cardinality(at)
        PROVE  Nth(at, i) \in at /\ RankIn(at, Nth(at, i)) = i
    <2>1. \E j \in at : Cardinality({k \in at : k <= j}) = i
      BY <1>1 DEF RankIn
    <2>2. QED
      BY <2>1 DEF Nth, RankIn
  <1>3. ASSUME NEW p \in at, NEW q \in at, RankIn(at, p) = RankIn(at, q)
        PROVE  p = q
    <2>1. ~(p < q) /\ ~(q < p)
      BY <1>1, <1>3
    <2>2. p \in Int /\ q \in Int
      OBVIOUS
    <2>3. QED
      BY <2>1, <2>2
  <1>4. ASSUME NEW i \in 1 .. Cardinality(at), NEW j \in 1 .. Cardinality(at), i < j
        PROVE  Nth(at, i) < Nth(at, j)
    <2> DEFINE p == Nth(at, i)
               q == Nth(at, j)
    <2>1. p \in at /\ q \in at /\ RankIn(at, p) = i /\ RankIn(at, q) = j
      BY <1>2
    <2> HIDE DEF p, q
    <2>2. p \in Int /\ q \in Int /\ p # q
      BY <1>4, <2>1
    <2>3. ~(q < p)
      BY <1>1, <1>4, <2>1
    <2>4. p < q
      BY <2>2, <2>3
    <2>5. QED
      BY <2>4 DEF p, q
  <1>5. ASSUME NEW p \in at PROVE \E i \in 1 .. Cardinality(at) : Nth(at, i) = p
    <2> DEFINE i == RankIn(at, p)
    <2>1. i \in 1 .. Cardinality(at)
      BY <1>1
    <2>2. Nth(at, i) \in at /\ RankIn(at, Nth(at, i)) = i
      BY <1>2, <2>1
    <2>3. Nth(at, i) = p
      BY <1>3, <2>2
    <2>4. QED
      BY <2>1, <2>3
  <1>6. QED
    BY <1>1, <1>2, <1>4, <1>5

\* What is picked of a sequence is a sequence of the elements at the chosen
\* positions, all of them, in their order and nothing else.
LEMMA PickedProperties ==
  ASSUME NEW S, NEW s \in Seq(S), NEW at \in SUBSET (DOMAIN s)
  PROVE  /\ Picked(s, at) \in Seq({s[p] : p \in at})
         /\ Picked(s, at) \in Seq(S)
         /\ Len(Picked(s, at)) = Cardinality(at) /\ Cardinality(at) \in Nat
         /\ DOMAIN Picked(s, at) = 1 .. Cardinality(at)
         /\ \A i \in DOMAIN Picked(s, at) :
              Nth(at, i) \in at /\ Picked(s, at)[i] = s[Nth(at, i)]
         /\ \A i, j \in DOMAIN Picked(s, at) : i < j => Nth(at, i) < Nth(at, j)
         /\ \A p \in at : \E i \in DOMAIN Picked(s, at) : Nth(at, i) = p
  <1> DEFINE n == Cardinality(at)
             T == {s[p] : p \in at}
  <1>1. Len(s) \in Nat /\ at \in SUBSET (1 .. Len(s))
    BY LenProperties
  <1>2. /\ n \in Nat
        /\ \A i \in 1 .. n : Nth(at, i) \in at
        /\ \A i, j \in 1 .. n : i < j => Nth(at, i) < Nth(at, j)
        /\ \A p \in at : \E i \in 1 .. n : Nth(at, i) = p
    BY <1>1, Positions
  <1>3. Picked(s, at) = [i \in 1 .. n |-> s[Nth(at, i)]]
    BY DEF Picked
  <1>4. \A i \in 1 .. n : s[Nth(at, i)] \in T
    BY <1>2
  <1>5. Picked(s, at) \in [1 .. n -> T]
    BY <1>3, <1>4
  <1>6. Picked(s, at) \in Seq(T)
    BY <1>2, <1>5, SeqDef
  <1>7. T \subseteq S
    BY <1>1, ElementOfSeq
  <1>8. Picked(s, at) \in Seq(S)
    BY <1>6, <1>7, SeqMonotonic
  <1>9. DOMAIN Picked(s, at) = 1 .. n
    BY <1>3
  <1>10. Len(Picked(s, at)) = n
    <2>1. Len(Picked(s, at)) \in Nat /\ DOMAIN Picked(s, at) = 1 .. Len(Picked(s, at))
      BY <1>8, LenProperties
    <2>2. QED
      BY <1>2, <1>9, <2>1
  <1> HIDE DEF n, T
  <1>11. QED
    BY <1>2, <1>3, <1>6, <1>8, <1>9, <1>10 DEF n, T

\* Every position that is picked is reached.
LEMMA PickedReaches ==
  ASSUME NEW S, NEW s \in Seq(S), NEW at \in SUBSET (DOMAIN s), NEW p \in at
  PROVE  \E i \in DOMAIN Picked(s, at) : Nth(at, i) = p /\ Picked(s, at)[i] = s[p]
  <1>1. at \in SUBSET (1 .. Len(s)) /\ Len(s) \in Nat
    BY LenProperties
  <1>2. \E i \in 1 .. Cardinality(at) : Nth(at, i) = p
    BY <1>1, Positions
  <1>3. \A i \in 1 .. Cardinality(at) : i \in DOMAIN Picked(s, at) /\ Picked(s, at)[i] = s[Nth(at, i)]
    BY DEF Picked
  <1>4. QED
    BY <1>2, <1>3
-----------------------------------------------------------------------------
(* Sequences that are joined.                                              *)

\* Every set of natural numbers that is not empty has a least one.
LEMMA LeastNumber ==
  ASSUME NEW T \in SUBSET Nat, T # {}
  PROVE  \E x \in T : \A y \in T : x <= y
  <1>1. IsWellFoundedOn(OpToRel(<, Nat), Nat)
    BY NatLessThanWellFounded
  <1>2. \E x \in T : \A y \in T : ~(<<y, x>> \in OpToRel(<, Nat))
    BY <1>1, WFMin
  <1>3. \A x, y \in Nat : <<y, x>> \in OpToRel(<, Nat) <=> y < x
    BY DEF OpToRel
  <1>4. PICK x \in T : \A y \in T : ~(y < x)
    BY <1>2, <1>3
  <1>5. QED
    BY <1>4

\* A set of numbers that holds 0, and the successor of each it holds, up to
\* a bound, holds every number up to the bound.
LEMMA CountingUp ==
  ASSUME NEW n \in Nat, NEW P, 0 \in P, \A i \in Nat : i < n /\ i \in P => i + 1 \in P
  PROVE  \A i \in 0 .. n : i \in P
  <1> DEFINE bad == {i \in 0 .. n : i \notin P}
  <1> SUFFICES ASSUME bad # {} PROVE FALSE
    OBVIOUS
  <1>1. PICK x \in bad : \A y \in bad : x <= y
    <2>1. bad \in SUBSET Nat
      OBVIOUS
    <2> HIDE DEF bad
    <2>2. QED
      BY <2>1, LeastNumber
  <1>2. x \in 0 .. n /\ x \notin P /\ x # 0
    OBVIOUS
  <1>3. x - 1 \in 0 .. n /\ x - 1 < x /\ x - 1 < n /\ x - 1 \in Nat
    BY <1>2
  <1>4. x - 1 \in P
    BY <1>1, <1>3
  <1>5. (x - 1) + 1 \in P
    BY <1>3, <1>4
  <1>6. QED
    BY <1>2, <1>5

\* What joining sequences one after the other gives, step by step.
Joins(f, seqs) ==
  f = [i \in 1 .. Len(seqs) |-> IF i = 1 THEN seqs[i] ELSE f[i - 1] \o seqs[i]]

\* The first k steps, in T.
JoinSteps(f, seqs, k, T) ==
  /\ f \in [1 .. k -> T]
  /\ \A i \in 1 .. k : f[i] = IF i = 1 THEN seqs[i] ELSE f[i - 1] \o seqs[i]

\* There is such a function.
LEMMA JoinsExists ==
  ASSUME NEW S, NEW seqs \in Seq(Seq(S))
  PROVE  \E f \in [1 .. Len(seqs) -> Seq(S)] : Joins(f, seqs)
  <1> DEFINE n == Len(seqs)
             P == {k \in Nat : \E g : JoinSteps(g, seqs, k, Seq(S))}
  <1>1. n \in Nat /\ \A i \in 1 .. n : seqs[i] \in Seq(S)
    BY LenProperties, ElementOfSeq
  <1>2. 0 \in P
    <2>1. JoinSteps([i \in 1 .. 0 |-> <<>>], seqs, 0, Seq(S))
      BY DEF JoinSteps
    <2>2. QED
      BY <2>1
  <1>3. ASSUME NEW k \in Nat, k < n, k \in P PROVE k + 1 \in P
    <2>1. PICK g : JoinSteps(g, seqs, k, Seq(S))
      BY <1>3
    <2> g \in [1 .. k -> Seq(S)]
      BY <2>1 DEF JoinSteps
    <2> DEFINE last == IF k + 1 = 1 THEN seqs[k + 1] ELSE g[k] \o seqs[k + 1]
               h == [i \in 1 .. k + 1 |-> IF i = k + 1 THEN last ELSE g[i]]
    <2>2. k + 1 \in 1 .. n /\ seqs[k + 1] \in Seq(S)
      BY <1>1, <1>3
    <2>3. last \in Seq(S)
      <3>1. CASE k = 0
        BY <2>2, <3>1
      <3>2. CASE k # 0
        <4>1. g[k] \in Seq(S)
          BY <3>2
        <4>2. g[k] \o seqs[k + 1] \in Seq(S)
          BY <2>2, <4>1, ConcatProperties
        <4>3. QED
          BY <3>2, <4>2
      <3>3. QED
        BY <3>1, <3>2
    <2> HIDE DEF last
    <2>4. h \in [1 .. k + 1 -> Seq(S)]
      BY <2>3
    <2>5. ASSUME NEW i \in 1 .. k + 1
          PROVE  h[i] = IF i = 1 THEN seqs[i] ELSE h[i - 1] \o seqs[i]
      <3>1. CASE i = k + 1
        <4>1. h[i] = last
          BY <3>1
        <4>2. i # 1 => h[i - 1] = g[k]
          BY <3>1
        <4>3. QED
          BY <3>1, <4>1, <4>2 DEF last
      <3>2. CASE i # k + 1
        <4>1. i \in 1 .. k /\ h[i] = g[i] /\ (i # 1 => h[i - 1] = g[i - 1])
          BY <3>2
        <4>2. QED
          BY <2>1, <4>1 DEF JoinSteps
      <3>3. QED
        BY <3>1, <3>2
    <2>6. JoinSteps(h, seqs, k + 1, Seq(S))
      BY <2>4, <2>5 DEF JoinSteps
    <2>7. QED
      BY <2>6
  <1>4. \A k \in 0 .. n : k \in P
    <2> HIDE DEF P, n
    <2>1. QED
      BY <1>1, <1>2, <1>3, CountingUp
  <1>5. PICK f : JoinSteps(f, seqs, n, Seq(S))
    BY <1>1, <1>4
  <1>6. Joins(f, seqs) /\ f \in [1 .. n -> Seq(S)]
    BY <1>5 DEF Joins, JoinSteps
  <1>7. QED
    BY <1>6
\* Every such function gives sequences.
LEMMA JoinsInSequences ==
  ASSUME NEW S, NEW seqs \in Seq(Seq(S)), NEW f, Joins(f, seqs)
  PROVE  f \in [1 .. Len(seqs) -> Seq(S)]
  <1> DEFINE n == Len(seqs)
             P == {k \in Nat : k = 0 \/ f[k] \in Seq(S)}
  <1>1. n \in Nat /\ \A i \in 1 .. n : seqs[i] \in Seq(S)
    BY LenProperties, ElementOfSeq
  <1>2. /\ f = [i \in 1 .. n |-> f[i]]
        /\ \A i \in 1 .. n : f[i] = IF i = 1 THEN seqs[i] ELSE f[i - 1] \o seqs[i]
    BY DEF Joins
  <1>3. 0 \in P
    OBVIOUS
  <1>4. ASSUME NEW k \in Nat, k < n, k \in P PROVE k + 1 \in P
    <2>1. k + 1 \in 1 .. n /\ seqs[k + 1] \in Seq(S)
      BY <1>1, <1>4
    <2>2. ASSUME k = 0 PROVE f[k + 1] \in Seq(S)
      <3>1. f[k + 1] = seqs[k + 1]
        <4>1. k + 1 = 1
          BY <2>2
        <4>2. f[k + 1] = IF k + 1 = 1 THEN seqs[k + 1] ELSE f[(k + 1) - 1] \o seqs[k + 1]
          BY <2>1 DEF Joins
        <4>3. QED
          BY <4>1, <4>2
      <3>2. QED
        BY <2>1, <3>1
    <2>3. ASSUME k # 0 PROVE f[k + 1] \in Seq(S)
      <3>1. f[k + 1] = f[k] \o seqs[k + 1] /\ f[k] \in Seq(S)
        <4>1. (k + 1) - 1 = k /\ k + 1 # 1
          BY <2>3
        <4>2. QED
          BY <1>2, <1>4, <2>1, <2>3, <4>1
      <3>2. f[k] \o seqs[k + 1] \in Seq(S)
        BY <2>1, <3>1, ConcatProperties
      <3>3. QED
        BY <3>1, <3>2
    <2>4. f[k + 1] \in Seq(S) /\ k + 1 \in Nat
      BY <2>2, <2>3
    <2>5. QED
      BY <2>4
  <1>5. \A k \in 0 .. n : k \in P
    <2> HIDE DEF P, n
    <2>1. QED
      BY <1>1, <1>3, <1>4, CountingUp
  <1>6. \A k \in 1 .. n : f[k] \in Seq(S)
    BY <1>1, <1>5
  <1>7. QED
    BY <1>2, <1>6

\* s consists of the elements of the first k sequences, those of earlier
\* sequences before those of later ones: of[p] is the sequence that the p-th
\* element is from.
JoinedFrom(s, seqs, k, of) ==
  /\ of \in [DOMAIN s -> 1 .. k]
  /\ \A p, q \in DOMAIN s : p < q => of[p] <= of[q]
  /\ \A p \in DOMAIN s : s[p] \in Range(seqs[of[p]])
  /\ \A i \in 1 .. k : \A x \in Range(seqs[i]) : \E p \in DOMAIN s : of[p] = i /\ s[p] = x

\* The first sequence is joined from itself.
LEMMA JoinsFirst ==
  ASSUME NEW S, NEW seqs, NEW s \in Seq(S), s = seqs[1]
  PROVE  JoinedFrom(s, seqs, 1, [p \in DOMAIN s |-> 1])
  BY DEF JoinedFrom, Range

\* One more is joined.
LEMMA JoinsNext ==
  ASSUME NEW S, NEW seqs, NEW k \in Nat, NEW s \in Seq(S), NEW of, JoinedFrom(s, seqs, k, of),
         seqs[k + 1] \in Seq(S)
  PROVE  \E more : JoinedFrom(s \o seqs[k + 1], seqs, k + 1, more)
  <1> DEFINE t == seqs[k + 1]
             both == s \o t
             more == [p \in DOMAIN both |-> IF p <= Len(s) THEN of[p] ELSE k + 1]
  <1>1. t \in Seq(S)
    OBVIOUS
  <1> HIDE DEF t
  <1>2. /\ both \in Seq(S)
        /\ Len(both) = Len(s) + Len(t)
        /\ \A i \in 1 .. Len(s) + Len(t) : both[i] = IF i <= Len(s) THEN s[i] ELSE t[i - Len(s)]
    BY <1>1, ConcatProperties
  <1>3. /\ Len(s) \in Nat /\ DOMAIN s = 1 .. Len(s)
        /\ Len(t) \in Nat /\ DOMAIN t = 1 .. Len(t)
        /\ DOMAIN both = 1 .. Len(s) + Len(t)
    BY <1>1, <1>2, LenProperties
  <1> HIDE DEF both
  <1>4. /\ \A p \in DOMAIN s : p \in DOMAIN both /\ more[p] = of[p] /\ both[p] = s[p]
        /\ \A p \in DOMAIN both : p > Len(s) =>
             more[p] = k + 1 /\ p - Len(s) \in DOMAIN t /\ both[p] = t[p - Len(s)]
        /\ \A p \in DOMAIN both : ~(p > Len(s)) => p \in DOMAIN s
        /\ \A p \in DOMAIN both : p \in Int
    BY <1>2, <1>3
  <1>5. \A p \in DOMAIN s : of[p] \in 1 .. k
    BY DEF JoinedFrom
  <1>6. more \in [DOMAIN both -> 1 .. k + 1]
    <2>1. \A p \in DOMAIN both : more[p] \in 1 .. k + 1
      BY <1>4, <1>5
    <2>2. QED
      BY <2>1
  <1>7. ASSUME NEW p \in DOMAIN both, NEW q \in DOMAIN both, p < q
        PROVE  more[p] <= more[q]
    <2>1. CASE q > Len(s)
      <3>1. more[q] = k + 1 /\ more[p] \in 1 .. k + 1
        BY <1>4, <1>6, <2>1
      <3>2. QED
        BY <3>1
    <2>2. CASE ~(q > Len(s))
      <3>1. ~(p > Len(s))
        BY <1>3, <1>4, <1>7, <2>2
      <3>2. p \in DOMAIN s /\ q \in DOMAIN s /\ more[p] = of[p] /\ more[q] = of[q]
        BY <1>4, <2>2, <3>1
      <3>3. QED
        BY <1>7, <3>2 DEF JoinedFrom
    <2>3. QED
      BY <2>1, <2>2
  <1>8. ASSUME NEW p \in DOMAIN both
        PROVE  both[p] \in Range(seqs[more[p]])
    <2>1. CASE p > Len(s)
      <3>1. more[p] = k + 1 /\ p - Len(s) \in DOMAIN t /\ both[p] = t[p - Len(s)]
        BY <1>4, <2>1
      <3>2. both[p] \in Range(t)
        BY <3>1 DEF Range
      <3>3. QED
        BY <3>1, <3>2 DEF t
    <2>2. CASE ~(p > Len(s))
      <3>1. p \in DOMAIN s /\ more[p] = of[p] /\ both[p] = s[p]
        BY <1>4, <2>2
      <3>2. QED
        BY <3>1 DEF JoinedFrom
    <2>3. QED
      BY <2>1, <2>2
  <1>9. ASSUME NEW i \in 1 .. k + 1, NEW x \in Range(seqs[i])
        PROVE  \E p \in DOMAIN both : more[p] = i /\ both[p] = x
    <2>1. CASE i = k + 1
      <3>1. PICK j \in DOMAIN t : x = t[j]
        BY <1>9, <2>1 DEF Range, t
      <3>2. j + Len(s) \in DOMAIN both /\ j + Len(s) > Len(s) /\ (j + Len(s)) - Len(s) = j
        BY <1>3
      <3>3. more[j + Len(s)] = k + 1 /\ both[j + Len(s)] = t[j]
        BY <1>4, <3>2
      <3>4. QED
        BY <2>1, <3>1, <3>2, <3>3
    <2>2. CASE i # k + 1
      <3>1. i \in 1 .. k
        BY <2>2
      <3>2. PICK p \in DOMAIN s : of[p] = i /\ s[p] = x
        BY <3>1 DEF JoinedFrom
      <3>3. QED
        BY <1>4, <3>2
    <2>3. QED
      BY <2>1, <2>2
  <1> HIDE DEF more
  <1>10. JoinedFrom(both, seqs, k + 1, more)
    BY <1>6, <1>7, <1>8, <1>9 DEF JoinedFrom
  <1>11. QED
    BY <1>10 DEF both, t

\* Each step joins one sequence more.
LEMMA JoinsStep ==
  ASSUME NEW S, NEW seqs \in Seq(Seq(S)), NEW f \in [1 .. Len(seqs) -> Seq(S)], Joins(f, seqs)
  PROVE  \A k \in 1 .. Len(seqs) : \E of : JoinedFrom(f[k], seqs, k, of)
  <1> DEFINE n == Len(seqs)
             P == {k \in Nat : k = 0 \/ \E of : JoinedFrom(f[k], seqs, k, of)}
  <1>1. n \in Nat /\ \A i \in 1 .. n : seqs[i] \in Seq(S)
    BY LenProperties, ElementOfSeq
  <1>2. 0 \in P
    OBVIOUS
  <1>3. ASSUME NEW k \in Nat, k < n, k \in P PROVE k + 1 \in P
    <2>1. k + 1 \in 1 .. n /\ seqs[k + 1] \in Seq(S)
      BY <1>1, <1>3
    <2>2. f[k + 1] = IF k + 1 = 1 THEN seqs[k + 1] ELSE f[(k + 1) - 1] \o seqs[k + 1]
      BY <2>1 DEF Joins
    <2>3. CASE k = 0
      <3>1. f[1] = seqs[1] /\ f[1] \in Seq(S)
        BY <2>1, <2>2, <2>3
      <3>2. JoinedFrom(f[1], seqs, 1, [p \in DOMAIN f[1] |-> 1])
        BY <3>1, JoinsFirst
      <3>3. QED
        BY <2>3, <3>2
    <2>4. CASE k # 0
      <3>1. k \in 1 .. n /\ (k + 1) - 1 = k /\ k + 1 # 1
        BY <1>1, <1>3, <2>4
      <3>2. f[k + 1] = f[k] \o seqs[k + 1] /\ f[k] \in Seq(S)
        BY <2>2, <3>1
      <3>3. PICK of : JoinedFrom(f[k], seqs, k, of)
        BY <1>3, <2>4
      <3>4. \E more : JoinedFrom(f[k] \o seqs[k + 1], seqs, k + 1, more)
        BY <2>1, <3>2, <3>3, JoinsNext
      <3>5. \E more : JoinedFrom(f[k + 1], seqs, k + 1, more)
        BY <3>2, <3>4
      <3>6. k + 1 \in Nat
        OBVIOUS
      <3>7. QED
        BY <3>5, <3>6
    <2>5. QED
      BY <2>3, <2>4
  <1>4. \A k \in 0 .. n : k \in P
    <2> HIDE DEF P, n
    <2>1. QED
      BY <1>1, <1>2, <1>3, CountingUp
  <1>5. QED
    BY <1>1, <1>4

\* Flattening gives a sequence of the elements of all sequences, and nothing
\* else, those of earlier sequences before those of later ones.
LEMMA FlattenProperties ==
  ASSUME NEW S, NEW seqs \in Seq(Seq(S))
  PROVE  /\ FlattenSeq(seqs) \in Seq(S)
         /\ \E of : JoinedFrom(FlattenSeq(seqs), seqs, Len(seqs), of)
  <1> DEFINE n == Len(seqs)
             f == CHOOSE g : g = [i \in 1 .. n |-> IF i = 1 THEN seqs[i] ELSE g[i - 1] \o seqs[i]]
  <1>1. n \in Nat
    BY LenProperties
  <1>2. FlattenSeq(seqs) = IF n = 0 THEN seqs ELSE f[n]
    BY DEF FlattenSeq
  <1>3. CASE n = 0
    <2>1. seqs = <<>>
      BY <1>3, EmptySeq
    <2>2. FlattenSeq(seqs) = <<>>
      BY <1>2, <1>3, <2>1
    <2>3. JoinedFrom(<<>>, seqs, 0, <<>>)
      BY DEF JoinedFrom
    <2>4. QED
      BY <1>3, <2>2, <2>3
  <1>4. CASE n # 0
    <2>1. Joins(f, seqs) /\ f \in [1 .. n -> Seq(S)]
      <3>1. PICK g \in [1 .. n -> Seq(S)] : Joins(g, seqs)
        BY JoinsExists
      <3>2. \E h : h = [i \in 1 .. n |-> IF i = 1 THEN seqs[i] ELSE h[i - 1] \o seqs[i]]
        BY <3>1 DEF Joins
      <3>3. Joins(f, seqs)
        BY <3>2 DEF Joins
      <3> HIDE DEF f
      <3>4. f \in [1 .. n -> Seq(S)]
        BY <3>3, JoinsInSequences
      <3>5. QED
        BY <3>3, <3>4
    <2> HIDE DEF f
    <2>2. n \in 1 .. n
      BY <1>1, <1>4
    <2>3. FlattenSeq(seqs) = f[n] /\ f[n] \in Seq(S)
      BY <1>2, <1>4, <2>1, <2>2
    <2>4. \E of : JoinedFrom(f[n], seqs, n, of)
      BY <2>1, <2>2, JoinsStep
    <2>5. QED
      BY <2>3, <2>4
  <1>5. QED
    BY <1>3, <1>4

\* It has the elements of all sequences.
LEMMA FlattenRange ==
  ASSUME NEW S, NEW seqs \in Seq(Seq(S))
  PROVE  /\ FlattenSeq(seqs) \in Seq(S)
         /\ \A x : x \in Range(FlattenSeq(seqs)) <=> \E i \in DOMAIN seqs : x \in Range(seqs[i])
  <1> DEFINE s == FlattenSeq(seqs)
             n == Len(seqs)
  <1>1. s \in Seq(S) /\ \E of : JoinedFrom(s, seqs, n, of)
    BY FlattenProperties
  <1>2. DOMAIN seqs = 1 .. n
    BY LenProperties
  <1> HIDE DEF s, n
  <1>3. PICK of : JoinedFrom(s, seqs, n, of)
    BY <1>1
  <1>4. ASSUME NEW x \in Range(s)
        PROVE  \E i \in DOMAIN seqs : x \in Range(seqs[i])
    <2>1. PICK p \in DOMAIN s : x = s[p]
      BY DEF Range
    <2>2. s[p] \in Range(seqs[of[p]]) /\ of[p] \in 1 .. n
      BY <1>3 DEF JoinedFrom
    <2>3. QED
      BY <1>2, <2>1, <2>2
  <1>5. ASSUME NEW i \in DOMAIN seqs, NEW x \in Range(seqs[i])
        PROVE  x \in Range(s)
    <2>1. PICK p \in DOMAIN s : s[p] = x
      BY <1>2, <1>3 DEF JoinedFrom
    <2>2. QED
      BY <2>1 DEF Range
  <1>6. QED
    BY <1>1, <1>4, <1>5 DEF s

\* The elements of a sequence and of another one behind it.
LEMMA ConcatRange ==
  ASSUME NEW S, NEW s \in Seq(S), NEW t \in Seq(S)
  PROVE  s \o t \in Seq(S) /\ \A x : x \in Range(s \o t) <=> x \in Range(s) \/ x \in Range(t)
  <1> DEFINE w == s \o t
             m == Len(s)
             n == Len(t)
  <1>1. m \in Nat /\ n \in Nat /\ DOMAIN s = 1 .. m /\ DOMAIN t = 1 .. n
    BY LenProperties
  <1>2. /\ w \in Seq(S) /\ Len(w) = m + n
        /\ \A i \in 1 .. m + n : w[i] = IF i <= m THEN s[i] ELSE t[i - m]
    BY ConcatProperties
  <1>3. DOMAIN w = 1 .. m + n
    BY <1>2, LenProperties
  <1> HIDE DEF w, m, n
  <1>4. ASSUME NEW i \in 1 .. m + n
        PROVE  w[i] \in Range(s) \/ w[i] \in Range(t)
    <2>1. CASE i <= m
      <3>1. i \in 1 .. m /\ w[i] = s[i]
        BY <1>1, <1>2, <2>1
      <3>2. QED
        BY <1>1, <3>1 DEF Range
    <2>2. CASE ~(i <= m)
      <3>1. i - m \in 1 .. n /\ w[i] = t[i - m]
        BY <1>1, <1>2, <2>2
      <3>2. QED
        BY <1>1, <3>1 DEF Range
    <2>3. QED
      BY <2>1, <2>2
  <1>5. ASSUME NEW i \in 1 .. m PROVE s[i] \in Range(w)
    <2>1. i \in 1 .. m + n /\ w[i] = s[i]
      BY <1>1, <1>2
    <2>2. QED
      BY <1>3, <2>1 DEF Range
  <1>6. ASSUME NEW i \in 1 .. n PROVE t[i] \in Range(w)
    <2>1. i + m \in 1 .. m + n /\ ~(i + m <= m) /\ (i + m) - m = i
      BY <1>1
    <2>2. i + m \in DOMAIN w /\ w[i + m] = t[i]
      BY <1>2, <1>3, <2>1
    <2>3. QED
      BY <2>2 DEF Range
  <1>7. \A x : x \in Range(w) <=> x \in Range(s) \/ x \in Range(t)
    <2>1. \A x \in Range(w) : x \in Range(s) \/ x \in Range(t)
      BY <1>3, <1>4 DEF Range
    <2>2. \A x \in Range(s) : x \in Range(w)
      BY <1>1, <1>5 DEF Range
    <2>3. \A x \in Range(t) : x \in Range(w)
      BY <1>1, <1>6 DEF Range
    <2>4. QED
      BY <2>1, <2>2, <2>3
  <1>8. QED
    BY <1>2, <1>7 DEF w

\* A finite set as a sequence.
LEMMA SetAsSequence ==
  ASSUME NEW S, IsFiniteSet(S)
  PROVE  SetToSeq(S) \in Seq(S) /\ Range(SetToSeq(S)) = S
  <1> DEFINE n == Cardinality(S)
             P == 1 .. n
             s == SetToSeq(S)
  <1>1. n \in Nat /\ ExistsBijection(P, S)
    BY FS_CardinalityType
  <1>2. IsFiniteSet(P) /\ Cardinality(P) = n
    <2> HIDE DEF n
    <2>1. QED
      BY <1>1, FS_Interval
  <1>3. PICK f : f \in Bijection(P, S)
    BY <1>1 DEF ExistsBijection
  <1> HIDE DEF P
  <1>4. f \in [P -> S] /\ IsInjective(f)
    BY <1>3 DEF Bijection, Injection, IsInjective
  <1>5. s \in [P -> S] /\ IsInjective(s)
    BY <1>4 DEF SetToSeq, P
  <1> HIDE DEF s
  <1>6. s \in Injection(P, S)
    BY <1>5 DEF Injection
  <1>7. s \in Surjection(P, S)
    BY <1>2, <1>6, FS_Injection
  <1>8. Range(s) = S
    BY <1>5, <1>7 DEF Range, Surjection
  <1>9. s \in Seq(S)
    <2> HIDE DEF n
    <2>1. QED
      BY <1>1, <1>5, SequenceOfLength DEF P
  <1>10. QED
    BY <1>8, <1>9 DEF s

-----------------------------------------------------------------------------
(* Recursion.                                                              *)

\* The first k steps of a recursion that begins with first.
Recursion(f, k, first, step) ==
  f = [i \in 0 .. k |-> IF i = 0 THEN first ELSE step[i][f[i - 1]]]

\* What is computed step by step exists.
LEMMA RecursionExists ==
  ASSUME NEW S, NEW n \in Nat, NEW first \in S, NEW step \in [1 .. n -> [S -> S]]
  PROVE  \E f \in [0 .. n -> S] : Recursion(f, n, first, step)
  <1> DEFINE Good(f, k) == f \in [0 .. k -> S] /\ Recursion(f, k, first, step)
             P == {k \in Nat : \E f : Good(f, k)}
  <1>1. 0 \in P
    <2> DEFINE f == [i \in 0 .. 0 |-> first]
    <2>1. f \in [0 .. 0 -> S] /\ f = [i \in 0 .. 0 |-> IF i = 0 THEN first ELSE step[i][f[i - 1]]]
      OBVIOUS
    <2> HIDE DEF f
    <2>2. QED
      BY <2>1 DEF Recursion
  <1>2. ASSUME NEW k \in Nat, k < n, k \in P PROVE k + 1 \in P
    <2>1. PICK f : f \in [0 .. k -> S] /\ Recursion(f, k, first, step)
      BY <1>2
    <2> DEFINE last == step[k + 1][f[k]]
               h == [i \in 0 .. k + 1 |-> IF i = k + 1 THEN last ELSE f[i]]
    <2>2. last \in S
      <3>1. f[k] \in S /\ step[k + 1] \in [S -> S]
        BY <1>2, <2>1
      <3>2. QED
        BY <3>1
    <2>3. \A i \in 0 .. k + 1 : i = k + 1 \/ i \in 0 .. k
      OBVIOUS
    <2>4. h \in [0 .. k + 1 -> S]
      <3> HIDE DEF last
      <3>1. QED
        BY <2>1, <2>2, <2>3
    <2>5. ASSUME NEW i \in 0 .. k + 1
          PROVE  h[i] = IF i = 0 THEN first ELSE step[i][h[i - 1]]
      <3>1. CASE i = k + 1
        <4>1. i - 1 = k /\ k # k + 1 /\ i # 0 /\ k \in 0 .. k + 1
          BY <3>1
        <4>2. h[i] = last /\ h[i - 1] = f[k]
          BY <3>1, <4>1
        <4>3. QED
          BY <3>1, <4>1, <4>2
      <3>2. CASE i \in 0 .. k /\ i # k + 1
        <4>1. f[i] = IF i = 0 THEN first ELSE step[i][f[i - 1]]
          BY <2>1, <3>2 DEF Recursion
        <4>2. i # 0 => i - 1 \in 0 .. k + 1 /\ i - 1 # k + 1
          BY <3>2
        <4>3. h[i] = f[i] /\ (i # 0 => h[i - 1] = f[i - 1])
          BY <3>2, <4>2
        <4> HIDE DEF h
        <4>4. QED
          BY <4>1, <4>3
      <3>3. QED
        BY <2>3, <3>1, <3>2
    <2> HIDE DEF h, last
    <2>6. h = [i \in 0 .. k + 1 |-> IF i = 0 THEN first ELSE step[i][h[i - 1]]]
      BY <2>4, <2>5
    <2>7. Good(h, k + 1)
      BY <2>4, <2>6 DEF Recursion
    <2>8. QED
      BY <2>7
  <1>3. \A k \in 0 .. n : k \in P
    <2> HIDE DEF P
    <2>1. QED
      BY <1>1, <1>2, CountingUp
  <1>4. n \in 0 .. n
    OBVIOUS
  <1>5. QED
    BY <1>3, <1>4

\* What holds of the beginning and is kept by each step holds of all that is
\* computed.
LEMMA RecursionKeeps ==
  ASSUME NEW S, NEW n \in Nat, NEW f, f[0] \in S, \A i \in 1 .. n : f[i - 1] \in S => f[i] \in S
  PROVE  \A i \in 0 .. n : f[i] \in S
  <1> DEFINE P == {i \in 0 .. n : f[i] \in S}
  <1>1. 0 \in P
    OBVIOUS
  <1>2. \A i \in Nat : i < n /\ i \in P => i + 1 \in P
    <2> TAKE i \in Nat
    <2> HAVE i < n /\ i \in P
    <2>1. i + 1 \in 1 .. n /\ i + 1 \in 0 .. n /\ (i + 1) - 1 = i /\ f[i] \in S
      OBVIOUS
    <2>2. QED
      BY <2>1
  <1>3. \A i \in 0 .. n : i \in P
    <2> HIDE DEF P
    <2>1. QED
      BY <1>1, <1>2, CountingUp
  <1>4. QED
    BY <1>3

-----------------------------------------------------------------------------
(* Sums.                                                                   *)

\* A set that holds a subset of a finite set whenever it holds all that is
\* properly contained in it, holds every subset.
LEMMA SubsetInduction ==
  ASSUME NEW S, IsFiniteSet(S), NEW P,
         \A s \in SUBSET S : (\A t \in SUBSET s : t # s => t \in P) => s \in P
  PROVE  \A s \in SUBSET S : s \in P
  <1> DEFINE bad == {s \in SUBSET S : s \notin P}
             sizes == {Cardinality(s) : s \in bad}
  <1> SUFFICES ASSUME bad # {} PROVE FALSE
    OBVIOUS
  <1>1. \A s \in SUBSET S : IsFiniteSet(s) /\ Cardinality(s) \in Nat
    BY FS_Subset, FS_CardinalityType
  <1>2. PICK c \in sizes : \A d \in sizes : c <= d
    <2>1. sizes \in SUBSET Nat /\ sizes # {}
      BY <1>1
    <2> HIDE DEF sizes
    <2>2. QED
      BY <2>1, LeastNumber
  <1>3. PICK s \in bad : c = Cardinality(s)
    OBVIOUS
  <1>4. ASSUME NEW t \in SUBSET s, t # s
        PROVE  t \in P
    <2>1. IsFiniteSet(s) /\ Cardinality(s) \in Nat /\ Cardinality(t) \in Nat
      BY <1>1
    <2>2. Cardinality(t) < Cardinality(s)
      <3>1. Cardinality(t) <= Cardinality(s) /\ (Cardinality(t) = Cardinality(s) => t = s)
        BY <2>1, FS_Subset
      <3>2. QED
        BY <1>4, <2>1, <3>1
    <2>3. t \notin bad
      BY <1>2, <1>3, <2>1, <2>2
    <2>4. QED
      BY <2>3
  <1>5. QED
    BY <1>4

\* The element a sum begins with.
TakenFrom(s) == CHOOSE x \in s : TRUE

\* What summing f over the subsets of S gives, step by step.
Sums(g, f, S) ==
  g = [s \in SUBSET S |-> IF s = {} THEN 0 ELSE f[TakenFrom(s)] + g[s \ {TakenFrom(s)}]]

\* The elements a sum begins with are there.
LEMMA TakenFromIsIn == ASSUME NEW s, s # {} PROVE TakenFrom(s) \in s
  BY DEF TakenFrom

\* What two of them say of a subset they share is the same.
LEMMA SumsAgree ==
  ASSUME NEW S, IsFiniteSet(S), NEW f, NEW h, NEW T, NEW g, NEW i, S \subseteq T,
         Sums(g, f, S), Sums(i, h, T), \A x \in S : f[x] = h[x]
  PROVE  \A s \in SUBSET S : g[s] = i[s]
  <1> DEFINE P == {s \in SUBSET S : g[s] = i[s]}
  <1>1. ASSUME NEW s \in SUBSET S, \A t \in SUBSET s : t # s => t \in P
        PROVE  s \in P
    <2> DEFINE x == TakenFrom(s)
    <2>1. s \in SUBSET T
      OBVIOUS
    <2>2. /\ g[s] = IF s = {} THEN 0 ELSE f[x] + g[s \ {x}]
          /\ i[s] = IF s = {} THEN 0 ELSE h[x] + i[s \ {x}]
      BY <2>1 DEF Sums
    <2>3. CASE s = {}
      BY <2>2, <2>3
    <2>4. CASE s # {}
      <3>1. x \in s
        BY <2>4, TakenFromIsIn
      <3> HIDE DEF x
      <3>2. s \ {x} \in P /\ f[x] = h[x]
        BY <1>1, <3>1
      <3>3. QED
        BY <2>2, <2>4, <3>2
    <2>5. QED
      BY <2>3, <2>4
  <1>2. \A s \in SUBSET S : s \in P
    <2> HIDE DEF P
    <2>1. QED
      BY <1>1, SubsetInduction
  <1>3. QED
    BY <1>2

\* They are numbers when what is summed is.
LEMMA SumsAreInt ==
  ASSUME NEW S, IsFiniteSet(S), NEW f, NEW g, Sums(g, f, S), \A x \in S : f[x] \in Int
  PROVE  \A s \in SUBSET S : g[s] \in Int
  <1> DEFINE P == {s \in SUBSET S : g[s] \in Int}
  <1>1. ASSUME NEW s \in SUBSET S, \A t \in SUBSET s : t # s => t \in P
        PROVE  s \in P
    <2> DEFINE x == TakenFrom(s)
    <2>2. g[s] = IF s = {} THEN 0 ELSE f[x] + g[s \ {x}]
      BY DEF Sums
    <2>3. CASE s = {}
      BY <2>2, <2>3
    <2>4. CASE s # {}
      <3>1. x \in s
        BY <2>4, TakenFromIsIn
      <3> HIDE DEF x
      <3>2. s \ {x} \in P /\ f[x] \in Int
        BY <1>1, <3>1
      <3>3. QED
        BY <2>2, <2>4, <3>2
    <2>5. QED
      BY <2>3, <2>4
  <1>2. \A s \in SUBSET S : s \in P
    <2> HIDE DEF P
    <2>1. QED
      BY <1>1, SubsetInduction
  <1>3. QED
    BY <1>2

\* What the sum is defined as.
LEMMA SumIsChosen ==
  ASSUME NEW f, NEW S, NEW g, Sums(g, f, S)
  PROVE  \E h : Sums(h, f, S) /\ SumFunctionOnSet(f, S) = h[S]
  <1> DEFINE h == CHOOSE h : Sums(h, f, S)
  <1>1. Sums(h, f, S)
    OBVIOUS
  <1>2. SumFunctionOnSet(f, S) = h[S]
    BY DEF SumFunctionOnSet, FoldFunctionOnSet, MapThenFoldSet, Sums, TakenFrom
  <1>3. QED
    BY <1>1, <1>2

\* There is such a function.
LEMMA SumsExist ==
  ASSUME NEW S, IsFiniteSet(S), NEW f
  PROVE  \E g : Sums(g, f, S)
  <1> DEFINE P == {s \in SUBSET S : \E g : Sums(g, f, s)}
  <1>1. ASSUME NEW s \in SUBSET S, \A t \in SUBSET s : t # s => t \in P
        PROVE  s \in P
    <2> DEFINE of(t) == CHOOSE g : Sums(g, f, t)
               x == TakenFrom(s)
               g == [t \in SUBSET s |->
                       IF t # s THEN of(t)[t]
                       ELSE IF s = {} THEN 0 ELSE f[x] + of(s \ {x})[s \ {x}]]
    <2>1. \A t \in SUBSET s : t # s => Sums(of(t), f, t)
      BY <1>1
    <2> HIDE DEF of
    <2>2. ASSUME NEW t \in SUBSET s, NEW u \in SUBSET t, t # s
          PROVE  of(t)[u] = of(u)[u]
      <3>1. IsFiniteSet(u) /\ u # s /\ u \in SUBSET s
        BY <2>2, FS_Subset
      <3>2. Sums(of(u), f, u) /\ Sums(of(t), f, t)
        BY <2>1, <2>2, <3>1
      <3>3. \A v \in SUBSET u : of(u)[v] = of(t)[v]
        BY <3>1, <3>2, SumsAgree
      <3>4. QED
        BY <3>3
    <2>3. ASSUME NEW t \in SUBSET s
          PROVE  g[t] = IF t = {} THEN 0 ELSE f[TakenFrom(t)] + g[t \ {TakenFrom(t)}]
      <3> DEFINE y == TakenFrom(t)
      <3>1. CASE t = {}
        <4>1. CASE t = s
          BY <3>1, <4>1
        <4>2. CASE t # s
          <5>1. of(t)[t] = 0
            BY <2>1, <3>1, <4>2 DEF Sums
          <5>2. QED
            BY <3>1, <4>2, <5>1
        <4>3. QED
          BY <4>1, <4>2
      <3>2. CASE t # {}
        <4>1. y \in t
          BY <3>2, TakenFromIsIn
        <4> HIDE DEF y
        <4>2. t \ {y} \in SUBSET s /\ t \ {y} # s /\ g[t \ {y}] = of(t \ {y})[t \ {y}]
          BY <4>1
        <4>3. CASE t = s
          <5>1. x = y
            BY <4>3 DEF y
          <5>2. g[t] = f[x] + of(s \ {x})[s \ {x}]
            BY <3>2, <4>3
          <5> HIDE DEF g, x
          <5>3. QED
            BY <3>2, <4>2, <4>3, <5>1, <5>2 DEF y
        <4>4. CASE t # s
          <5>1. g[t] = of(t)[t]
            BY <4>4
          <5>2. of(t)[t] = f[y] + of(t)[t \ {y}]
            BY <2>1, <3>2, <4>4 DEF Sums, y
          <5>3. of(t)[t \ {y}] = of(t \ {y})[t \ {y}]
            BY <2>2, <4>4
          <5> HIDE DEF g
          <5>4. QED
            BY <3>2, <4>2, <5>1, <5>2, <5>3 DEF y
        <4>5. QED
          BY <4>3, <4>4
      <3>3. QED
        BY <3>1, <3>2
    <2>4. g = [t \in SUBSET s |-> g[t]]
      OBVIOUS
    <2> HIDE DEF g
    <2>5. Sums(g, f, s)
      BY <2>3, <2>4 DEF Sums
    <2>6. QED
      BY <2>5
  <1>2. \A s \in SUBSET S : s \in P
    <2> HIDE DEF P
    <2>1. QED
      BY <1>1, SubsetInduction
  <1>3. QED
    BY <1>2

\* The sum over a set is what one of its elements adds to the sum over the
\* others; over no elements it is 0.
LEMMA SumFromFirst ==
  ASSUME NEW S, IsFiniteSet(S), NEW f
  PROVE  SumFunctionOnSet(f, S) =
           IF S = {} THEN 0 ELSE f[TakenFrom(S)] + SumFunctionOnSet(f, S \ {TakenFrom(S)})
  <1> DEFINE x == TakenFrom(S)
             T == S \ {x}
  <1>1. PICK g : Sums(g, f, S) /\ SumFunctionOnSet(f, S) = g[S]
    BY SumsExist, SumIsChosen
  <1>2. IsFiniteSet(T)
    BY FS_Subset
  <1> HIDE DEF T
  <1>3. PICK h : Sums(h, f, T) /\ SumFunctionOnSet(f, T) = h[T]
    BY <1>2, SumsExist, SumIsChosen
  <1>4. T \subseteq S
    BY DEF T
  <1>5. \A s \in SUBSET T : h[s] = g[s]
    BY <1>1, <1>2, <1>3, <1>4, SumsAgree
  <1>6. g[S] = IF S = {} THEN 0 ELSE f[x] + g[T]
    BY <1>1 DEF Sums, T
  <1>7. QED
    BY <1>1, <1>3, <1>5, <1>6 DEF T

\* It is a number when what is summed is.
LEMMA SumIsInt ==
  ASSUME NEW S, IsFiniteSet(S), NEW f, \A x \in S : f[x] \in Int
  PROVE  SumFunctionOnSet(f, S) \in Int
  <1>1. PICK g : Sums(g, f, S) /\ SumFunctionOnSet(f, S) = g[S]
    BY SumsExist, SumIsChosen
  <1>2. QED
    BY <1>1, SumsAreInt

\* It depends on what is summed at the elements of the set only.
LEMMA SumOfEqual ==
  ASSUME NEW S, IsFiniteSet(S), NEW f, NEW h, \A x \in S : f[x] = h[x]
  PROVE  SumFunctionOnSet(f, S) = SumFunctionOnSet(h, S)
  <1>1. PICK g : Sums(g, f, S) /\ SumFunctionOnSet(f, S) = g[S]
    BY SumsExist, SumIsChosen
  <1>2. PICK i : Sums(i, h, S) /\ SumFunctionOnSet(h, S) = i[S]
    BY SumsExist, SumIsChosen
  <1>3. \A s \in SUBSET S : g[s] = i[s]
    BY <1>1, <1>2, SumsAgree
  <1>4. QED
    BY <1>1, <1>2, <1>3

\* The elements may be summed in any order: each of them can be taken first.
LEMMA SumFromAny ==
  ASSUME NEW S, IsFiniteSet(S), NEW f, \A x \in S : f[x] \in Int
  PROVE  /\ SumFunctionOnSet(f, S) \in Int
         /\ SumFunctionOnSet(f, {}) = 0
         /\ \A x \in S : SumFunctionOnSet(f, S) = f[x] + SumFunctionOnSet(f, S \ {x})
  <1> DEFINE sum(s) == SumFunctionOnSet(f, s)
             P == {s \in SUBSET S : \A x \in s : sum(s) = f[x] + sum(s \ {x})}
  <1>1. \A s \in SUBSET S : IsFiniteSet(s) /\ sum(s) \in Int
    <2> TAKE s \in SUBSET S
    <2>1. IsFiniteSet(s) /\ \A x \in s : f[x] \in Int
      BY FS_Subset
    <2>2. QED
      BY <2>1, SumIsInt
  <1>2. \A s \in SUBSET S : sum(s) = IF s = {} THEN 0 ELSE f[TakenFrom(s)] + sum(s \ {TakenFrom(s)})
    BY <1>1, SumFromFirst
  <1> HIDE DEF sum
  <1>3. ASSUME NEW s \in SUBSET S, \A t \in SUBSET s : t # s => t \in P
        PROVE  s \in P
    <2> SUFFICES ASSUME NEW x \in s PROVE sum(s) = f[x] + sum(s \ {x})
      OBVIOUS
    <2> DEFINE y == TakenFrom(s)
    <2>1. y \in s /\ sum(s) = f[y] + sum(s \ {y})
      BY <1>2, TakenFromIsIn
    <2> HIDE DEF y
    <2>2. CASE x = y
      BY <2>1, <2>2
    <2>3. CASE x # y
      <3>1. s \ {y} \in P /\ x \in s \ {y} /\ s \ {x} \in P /\ y \in s \ {x}
        BY <1>3, <2>1, <2>3
      <3> DEFINE rest == (s \ {x}) \ {y}
                 a == f[x]
                 b == f[y]
                 r == sum(rest)
      <3>2. (s \ {y}) \ {x} = rest /\ rest \in SUBSET S
        OBVIOUS
      <3>3. sum(s \ {y}) = a + r /\ sum(s \ {x}) = b + r
        <4>1. sum(s \ {y}) = f[x] + sum((s \ {y}) \ {x}) /\ sum(s \ {x}) = f[y] + sum((s \ {x}) \ {y})
          BY <3>1
        <4> HIDE DEF rest
        <4>2. sum((s \ {y}) \ {x}) = sum(rest)
          BY <3>2
        <4>3. QED
          BY <4>1, <4>2 DEF rest
      <3>4. r \in Int /\ a \in Int /\ b \in Int
        BY <1>1, <2>1, <3>2
      <3>5. sum(s) = b + sum(s \ {y})
        BY <2>1
      <3> HIDE DEF rest, a, b, r
      <3>6. sum(s) = a + sum(s \ {x})
        <4>1. b + (a + r) = a + (b + r)
          BY <3>4
        <4>2. QED
          BY <3>3, <3>5, <4>1
      <3>7. QED
        BY <3>6 DEF a
    <2>4. QED
      BY <2>2, <2>3
  <1>4. \A s \in SUBSET S : s \in P
    <2> HIDE DEF P
    <2>1. QED
      BY <1>3, SubsetInduction
  <1>5. sum({}) = 0
    BY <1>2
  <1>6. QED
    BY <1>1, <1>4, <1>5 DEF sum

\* A sum is at most the sum over some of the elements and what the others can
\* add at most.
LEMMA SumAtMost ==
  ASSUME NEW S, IsFiniteSet(S), NEW f, NEW B \in Int, NEW T \in SUBSET S,
         \A x \in S : f[x] \in Int /\ f[x] <= B
  PROVE  /\ SumFunctionOnSet(f, S) <= SumFunctionOnSet(f, T) + B * Cardinality(S \ T)
         /\ SumFunctionOnSet(f, S) \in Int /\ SumFunctionOnSet(f, T) \in Int
         /\ Cardinality(S \ T) \in Nat
  <1> DEFINE D == S \ T
             sum(s) == SumFunctionOnSet(f, s)
             n(s) == Cardinality(s)
             P == {s \in SUBSET D : sum(T \cup s) <= sum(T) + B * n(s)}
  <1>1. \A s \in SUBSET S : /\ sum(s) \in Int /\ IsFiniteSet(s)
                            /\ \A x \in s : sum(s) = f[x] + sum(s \ {x})
    <2> TAKE s \in SUBSET S
    <2>1. IsFiniteSet(s) /\ \A x \in s : f[x] \in Int
      BY FS_Subset
    <2>2. QED
      BY <2>1, SumFromAny
  <1>2. IsFiniteSet(D) /\ T \cup D = S /\ D \subseteq S
    BY FS_Subset
  <1>3. \A s \in SUBSET D : n(s) \in Nat /\ \A x \in s : n(s) = n(s \ {x}) + 1
    <2> TAKE s \in SUBSET D
    <2>1. IsFiniteSet(s)
      BY <1>2, FS_Subset
    <2>2. n(s) \in Nat /\ \A x \in s : n(s \ {x}) \in Nat /\ n(s \ {x}) = n(s) - 1
      BY <2>1, FS_CardinalityType, FS_RemoveElement
    <2> HIDE DEF n
    <2>3. QED
      BY <2>2
  <1>4. n({}) = 0
    BY FS_EmptySet
  <1> HIDE DEF D, sum, n
  <1>5. ASSUME NEW s \in SUBSET D, \A t \in SUBSET s : t # s => t \in P
        PROVE  s \in P
    <2>1. CASE s = {}
      <3>1. T \cup s = T /\ n(s) = 0 /\ sum(T) \in Int
        BY <1>1, <1>4, <2>1
      <3>2. B * n(s) = 0
        BY <3>1
      <3>3. sum(T \cup s) = sum(T)
        BY <3>1
      <3>4. sum(T \cup s) <= sum(T) + B * n(s)
        BY <3>1, <3>2, <3>3
      <3>5. QED
        BY <3>4
    <2>2. CASE s # {}
      <3>1. PICK x \in s : TRUE
        BY <2>2
      <3> DEFINE r == s \ {x}
                 u == T \cup s
      <3>2. r \in P /\ x \in u /\ u \ {x} = T \cup r /\ u \in SUBSET S /\ r \in SUBSET D /\ T \cup r \in SUBSET S
        <4>1. x \in D /\ x \notin T
          BY <3>1 DEF D
        <4>2. r # s /\ r \in SUBSET s
          BY <3>1
        <4>3. QED
          BY <1>2, <1>5, <3>1, <4>1, <4>2
      <3>3. sum(T \cup r) <= sum(T) + B * n(r)
        BY <3>2
      <3>4. sum(u) = f[x] + sum(T \cup r) /\ n(s) = n(r) + 1
        <4>1. sum(u) = f[x] + sum(u \ {x})
          BY <1>1, <3>2
        <4>2. QED
          BY <1>3, <3>1, <3>2, <4>1
      <3>5. /\ sum(T) \in Int /\ sum(T \cup r) \in Int /\ n(r) \in Nat /\ f[x] \in Int /\ f[x] <= B
        BY <1>1, <1>2, <1>3, <3>1, <3>2
      <3> HIDE DEF r, u
      <3>6. sum(u) <= sum(T) + B * n(s)
        <4> DEFINE c == n(r)
                   y == B * c
        <4>1. B * (c + 1) = y + B /\ y \in Int
          BY <3>5
        <4>2. n(s) = c + 1
          BY <3>4
        <4> HIDE DEF c
        <4>3. B * n(s) = y + B
          BY <4>1, <4>2
        <4>4. sum(T \cup r) <= sum(T) + y
          BY <3>3 DEF c
        <4> HIDE DEF y
        <4>5. QED
          BY <3>4, <3>5, <4>1, <4>3, <4>4
      <3>7. QED
        BY <3>6 DEF u
    <2>3. QED
      BY <2>1, <2>2
  <1>6. \A s \in SUBSET D : s \in P
    <2> HIDE DEF P
    <2>1. QED
      BY <1>2, <1>5, SubsetInduction
  <1>7. D \in P
    BY <1>6
  <1>8. sum(S) <= sum(T) + B * n(D)
    BY <1>2, <1>7
  <1>9. QED
    BY <1>1, <1>3, <1>8 DEF sum, n, D

\* m takes the elements of S to those of T, each to another, where h has the
\* number that f had.
SumMoves(m, S, f, T, h) ==
  /\ \A x \in S : f[x] \in Int /\ m[x] \in T /\ h[m[x]] = f[x]
  /\ \A x, y \in S : m[x] = m[y] => x = y
  /\ \A z \in T : \E x \in S : m[x] = z

\* The sum stays the same when the elements are renamed.
LEMMA SumMoved ==
  ASSUME NEW S, IsFiniteSet(S), NEW f, NEW T, IsFiniteSet(T), NEW h, NEW m, SumMoves(m, S, f, T, h)
  PROVE  SumFunctionOnSet(f, S) = SumFunctionOnSet(h, T)
  <1> USE DEF SumMoves
  <1> DEFINE over(s) == {m[x] : x \in s}
             left(s) == SumFunctionOnSet(f, s)
             right(s) == SumFunctionOnSet(h, s)
             P == {s \in SUBSET S : left(s) = right(over(s))}
  <1>1. ASSUME NEW s \in SUBSET S
        PROVE  /\ left({}) = 0
               /\ \A x \in s : left(s) = f[x] + left(s \ {x})
    <2>1. IsFiniteSet(s) /\ \A x \in s : f[x] \in Int
      BY FS_Subset
    <2>2. QED
      BY <2>1, SumFromAny
  <1>2. ASSUME NEW t \in SUBSET T
        PROVE  /\ right({}) = 0
               /\ \A z \in t : right(t) = h[z] + right(t \ {z})
    <2>1. IsFiniteSet(t) /\ \A z \in t : h[z] \in Int
      BY FS_Subset
    <2>2. QED
      BY <2>1, SumFromAny
  <1> HIDE DEF left, right
  <1>3. ASSUME NEW s \in SUBSET S, \A t \in SUBSET s : t # s => t \in P
        PROVE  s \in P
    <2>1. CASE s = {}
      <3>1. left(s) = 0 /\ over(s) = {} /\ right({}) = 0
        BY <1>1, <1>2, <2>1
      <3>2. QED
        BY <3>1
    <2>2. CASE s # {}
      <3>1. PICK x \in s : TRUE
        BY <2>2
      <3>2. left(s \ {x}) = right(over(s \ {x}))
        BY <1>3, <3>1
      <3>3. over(s) \in SUBSET T /\ m[x] \in over(s) /\ over(s \ {x}) = over(s) \ {m[x]}
        BY <3>1
      <3> HIDE DEF over
      <3>4. right(over(s)) = h[m[x]] + right(over(s) \ {m[x]})
        BY <1>2, <3>3
      <3>5. left(s) = f[x] + left(s \ {x}) /\ h[m[x]] = f[x]
        BY <1>1, <3>1
      <3>6. QED
        BY <3>2, <3>3, <3>4, <3>5
    <2>3. QED
      BY <2>1, <2>2
  <1>4. \A s \in SUBSET S : s \in P
    <2> HIDE DEF P
    <2>1. QED
      BY <1>3, SubsetInduction
  <1>5. over(S) = T
    OBVIOUS
  <1>6. QED
    BY <1>4, <1>5 DEF left, right

-----------------------------------------------------------------------------
(* Sets in an order.                                                       *)

\* before is a strict order of all elements of S.
Orders(before, S) ==
  /\ \A x \in S : <<x, x>> \notin before
  /\ \A x, y, z \in S : <<x, y>> \in before /\ <<y, z>> \in before => <<x, z>> \in before
  /\ \A x, y \in S : x = y \/ <<x, y>> \in before \/ <<y, x>> \in before

\* The elements of a set in an order are its elements, each once, and in the
\* order.
LEMMA RankedProperties ==
  ASSUME NEW S, IsFiniteSet(S), NEW before, Orders(before, S)
  PROVE  LET r == Ranked(S, before) IN
           /\ r \in Seq(S) /\ Len(r) = Cardinality(S) /\ Cardinality(S) \in Nat
           /\ DOMAIN r = 1 .. Cardinality(S) /\ Range(r) = S
           /\ \A i, j \in DOMAIN r : i < j <=> <<r[i], r[j]>> \in before
           /\ \A i, j \in DOMAIN r : r[i] = r[j] => i = j
  <1> DEFINE n == Cardinality(S)
             ahead(x) == {y \in S : <<y, x>> \in before}
             rank(x) == Cardinality(ahead(x))
             r == Ranked(S, before)
  <1>1. n \in Nat
    BY FS_CardinalityType
  <1>2. ASSUME NEW x \in S
        PROVE  rank(x) \in 0 .. n - 1 /\ IsFiniteSet(ahead(x))
    <2>1. IsFiniteSet(S \ {x}) /\ Cardinality(S \ {x}) = n - 1
      BY <1>1, FS_RemoveElement
    <2>2. ahead(x) \in SUBSET (S \ {x})
      BY DEF Orders
    <2> HIDE DEF ahead
    <2>3. IsFiniteSet(ahead(x)) /\ Cardinality(ahead(x)) <= Cardinality(S \ {x})
      BY <2>1, <2>2, FS_Subset
    <2>4. Cardinality(ahead(x)) \in Nat
      BY <2>3, FS_CardinalityType
    <2>5. QED
      BY <1>1, <2>1, <2>3, <2>4
  <1>3. ASSUME NEW x \in S, NEW y \in S, <<x, y>> \in before
        PROVE  rank(x) < rank(y)
    <2>1. x \notin ahead(x)
      BY DEF Orders
    <2>2. ahead(x) \cup {x} \in SUBSET ahead(y)
      BY <1>3 DEF Orders
    <2>3. IsFiniteSet(ahead(x)) /\ IsFiniteSet(ahead(y)) /\ rank(x) \in Nat /\ rank(y) \in Nat
      BY <1>2
    <2> HIDE DEF ahead
    <2>4. Cardinality(ahead(x) \cup {x}) = Cardinality(ahead(x)) + 1
      BY <2>1, <2>3, FS_AddElement
    <2>5. Cardinality(ahead(x) \cup {x}) <= Cardinality(ahead(y))
      BY <2>2, <2>3, FS_Subset
    <2>6. QED
      BY <2>3, <2>4, <2>5
  <1>4. \A x, y \in S : rank(x) < rank(y) <=> <<x, y>> \in before
    <2> TAKE x, y \in S
    <2>1. rank(x) \in Nat /\ rank(y) \in Nat
      BY <1>2
    <2>2. <<x, y>> \in before => rank(x) < rank(y)
      BY <1>3
    <2>3. <<y, x>> \in before => rank(y) < rank(x)
      BY <1>3
    <2>4. x = y \/ <<x, y>> \in before \/ <<y, x>> \in before
      BY DEF Orders
    <2> HIDE DEF rank
    <2>5. QED
      BY <2>1, <2>2, <2>3, <2>4
  <1>5. \A x, y \in S : rank(x) = rank(y) => x = y
    <2> TAKE x, y \in S
    <2>1. rank(x) \in Nat /\ rank(y) \in Nat
      BY <1>2
    <2>2. x = y \/ <<x, y>> \in before \/ <<y, x>> \in before
      BY DEF Orders
    <2>3. <<x, y>> \in before => rank(x) < rank(y)
      BY <1>4
    <2>4. <<y, x>> \in before => rank(y) < rank(x)
      BY <1>4
    <2> HIDE DEF rank
    <2>5. QED
      BY <2>1, <2>2, <2>3, <2>4
  <1> DEFINE f == [x \in S |-> rank(x) + 1]
             P == 1 .. n
  <1>6. f \in [S -> P] /\ \A x \in S : f[x] = rank(x) + 1
    <2>1. \A x \in S : rank(x) + 1 \in P
      BY <1>1, <1>2
    <2> HIDE DEF rank
    <2>2. QED
      BY <2>1
  <1>7. \A x \in S : rank(x) \in Nat
    BY <1>2
  <1>8. r = [i \in P |-> CHOOSE x \in S : rank(x) = i - 1]
    BY DEF Ranked
  <1> HIDE DEF rank, f, r
  <1>9. f \in Injection(S, P)
    BY <1>5, <1>6, <1>7 DEF Injection, IsInjective
  <1>10. IsFiniteSet(P) /\ Cardinality(P) = n
    BY <1>1, FS_Interval
  <1>11. f \in Surjection(S, P)
    <2> HIDE DEF P, n
    <2>1. Cardinality(S) = Cardinality(P)
      BY <1>10 DEF n
    <2>2. QED
      BY <1>9, <1>10, <2>1, FS_Injection
  <1>12. \A i \in P : \E x \in S : f[x] = i
    BY <1>11 DEF Surjection
  <1>13. \A i \in P : r[i] \in S /\ rank(r[i]) = i - 1
    <2> TAKE i \in P
    <2>1. PICK x \in S : f[x] = i
      BY <1>12
    <2>2. rank(x) = i - 1
      BY <1>6, <1>7, <2>1
    <2>3. r[i] = CHOOSE y \in S : rank(y) = i - 1
      BY <1>8
    <2>4. QED
      BY <2>2, <2>3
  <1>14. \A x \in S : \E i \in P : r[i] = x
    <2> TAKE x \in S
    <2>1. f[x] \in P /\ rank(x) = f[x] - 1
      BY <1>6, <1>7
    <2>2. r[f[x]] \in S /\ rank(r[f[x]]) = rank(x)
      BY <1>13, <2>1
    <2>3. QED
      BY <1>5, <2>1, <2>2
  <1>15. DOMAIN r = P /\ r \in [P -> S]
    BY <1>8, <1>13
  <1>16. r \in Seq(S) /\ Len(r) = n
    BY <1>1, <1>15, SequenceOfLength
  <1>17. Range(r) = S
    BY <1>13, <1>14, <1>15 DEF Range
  <1>18. \A i, j \in P : i < j <=> <<r[i], r[j]>> \in before
    <2> TAKE i, j \in P
    <2>1. r[i] \in S /\ r[j] \in S /\ rank(r[i]) = i - 1 /\ rank(r[j]) = j - 1
      BY <1>13
    <2>2. rank(r[i]) < rank(r[j]) <=> <<r[i], r[j]>> \in before
      BY <1>4, <2>1
    <2>3. QED
      BY <1>1, <2>1, <2>2
  <1>19. \A i, j \in P : r[i] = r[j] => i = j
    <2> TAKE i, j \in P
    <2>1. rank(r[i]) = i - 1 /\ rank(r[j]) = j - 1
      BY <1>13
    <2>2. QED
      BY <1>1, <2>1
  <1>20. QED
    BY <1>1, <1>15, <1>16, <1>17, <1>18, <1>19 DEF r

\* A finite set that is not empty has a first element in such an order, and
\* only one.
LEMMA FirstInOrder ==
  ASSUME NEW S, IsFiniteSet(S), S # {}, NEW before, Orders(before, S)
  PROVE  \E x \in S : /\ \A y \in S \ {x} : <<x, y>> \in before
                      /\ \A z \in S : (\A y \in S \ {z} : <<z, y>> \in before) => z = x
  <1> DEFINE r == Ranked(S, before)
  <1>1. /\ DOMAIN r = 1 .. Cardinality(S) /\ Cardinality(S) \in Nat
        /\ Range(r) = S /\ \A i, j \in DOMAIN r : i < j <=> <<r[i], r[j]>> \in before
    BY RankedProperties
  <1>2. Cardinality(S) # 0
    BY FS_EmptySet
  <1> HIDE DEF r
  <1>3. 1 \in DOMAIN r /\ \A i \in DOMAIN r : i = 1 \/ 1 < i
    BY <1>1, <1>2
  <1>4. r[1] \in S
    BY <1>1, <1>3 DEF Range
  <1>5. \A y \in S \ {r[1]} : <<r[1], y>> \in before
    <2> TAKE y \in S \ {r[1]}
    <2>1. PICK i \in DOMAIN r : r[i] = y
      BY <1>1 DEF Range
    <2>2. QED
      BY <1>1, <1>3, <2>1
  <1>6. ASSUME NEW z \in S, \A y \in S \ {z} : <<z, y>> \in before, z # r[1] PROVE FALSE
    <2>1. <<z, r[1]>> \in before /\ <<r[1], z>> \in before
      BY <1>4, <1>5, <1>6
    <2>2. QED
      BY <1>4, <2>1 DEF Orders
  <1>7. QED
    BY <1>4, <1>5, <1>6

\* A finite set of numbers has a greatest one.
LEMMA GreatestOf ==
  ASSUME NEW S, IsFiniteSet(S), S # {}, \A x \in S : x \in Nat
  PROVE  Max(S) \in S /\ \A x \in S : x <= Max(S)
  <1> DEFINE before == {e \in S \X S : e[1] > e[2]}
  <1>1. \A x, y \in S : <<x, y>> \in before <=> x > y
    OBVIOUS
  <1>2. Orders(before, S)
    <2> HIDE DEF before
    <2>1. \A x \in S : <<x, x>> \notin before
      BY <1>1
    <2>2. \A x, y, z \in S : <<x, y>> \in before /\ <<y, z>> \in before => <<x, z>> \in before
      <3> TAKE x, y, z \in S
      <3>1. x \in Nat /\ y \in Nat /\ z \in Nat
        OBVIOUS
      <3>2. QED
        BY <1>1, <3>1
    <2>3. \A x, y \in S : x = y \/ <<x, y>> \in before \/ <<y, x>> \in before
      <3> TAKE x, y \in S
      <3>1. x \in Nat /\ y \in Nat
        OBVIOUS
      <3>2. QED
        BY <1>1, <3>1
    <2>4. QED
      BY <2>1, <2>2, <2>3 DEF Orders
  <1> HIDE DEF before
  <1>3. \E x \in S : /\ \A y \in S \ {x} : <<x, y>> \in before
                     /\ \A z \in S : (\A y \in S \ {z} : <<z, y>> \in before) => z = x
    BY <1>2, FirstInOrder
  <1>4. PICK x \in S : \A y \in S \ {x} : <<x, y>> \in before
    BY <1>3
  <1>5. \A y \in S : x >= y
    <2> TAKE y \in S
    <2>1. x \in Nat /\ y \in Nat
      OBVIOUS
    <2>2. x = y \/ x > y
      BY <1>1, <1>4
    <2>3. QED
      BY <2>1, <2>2
  <1>6. Max(S) \in S /\ \A y \in S : Max(S) >= y
    BY <1>5 DEF Max
  <1>7. QED
    BY <1>6

\* The greatest number of a finite set, or 0.
LEMMA GreatestOrNone ==
  ASSUME NEW S, IsFiniteSet(S), \A x \in S : x \in Nat
  PROVE  /\ Max({0} \cup S) \in Nat /\ \A x \in S : x <= Max({0} \cup S)
         /\ Max({0} \cup S) = 0 \/ Max({0} \cup S) \in S
  <1> DEFINE T == {0} \cup S
  <1>1. IsFiniteSet(T)
    BY FS_AddElement
  <1>2. T # {} /\ \A x \in T : x \in Nat
    OBVIOUS
  <1> HIDE DEF T
  <1>3. Max(T) \in T /\ \A x \in T : x <= Max(T)
    BY <1>1, <1>2, GreatestOf
  <1>4. QED
    BY <1>2, <1>3 DEF T

=============================================================================
