----------------------------- MODULE GraphProofs ------------------------------
(***************************************************************************)
(* Theorems about spreading activation and what builds on it: the          *)
(* boosters, traces and the comparison.                                    *)
(*                                                                         *)
(* The arithmetic of Activation comes first: what is passed on and what a  *)
(* sum is rounded to are natural numbers and never nothing, and the edges  *)
(* that are followed lead to different valid memories.  The explanations   *)
(* of Spreading are an invariant of the three places that hold one,        *)
(* together with the edges still to be followed.  What it activates is     *)
(* another: a memory within reach is activated, or the edges to it are     *)
(* still to be followed, whichever paths were kept.  The reference, a      *)
(* spread level by level, is a recursive function of typed levels, of      *)
(* whose gains one is the best; the theorems about boosters and traces     *)
(* rest on it.  What traces learn: the edges to a target that is reached   *)
(* lead to it in the list, and from the list to the candidates.            *)
(* A spread from memories that no edge leaves looks at nothing else: that  *)
(* keeps the chains of Comparison apart.                                   *)
(***************************************************************************)
EXTENDS Spreading, Boosters, Trace, Comparison, CollectionProofs, TLAPS

-----------------------------------------------------------------------------
(* Activation: what one step passes on.                                    *)

\* The smaller of two numbers.
LEMMA MinOfTwo ==
  ASSUME NEW a \in Int, NEW b \in Int
  PROVE  Min({a, b}) = IF a <= b THEN a ELSE b
  BY OfTwo

\* Division of natural numbers, rounding down and up.
LEMMA Quotient ==
  ASSUME NEW a \in Nat, NEW b \in Nat, b # 0
  PROVE  /\ a \div b \in Nat /\ (a + b - 1) \div b \in Nat
         /\ a # 0 => (a + b - 1) \div b > 0
  OBVIOUS

\* Products of natural numbers.
LEMMA Product ==
  ASSUME NEW a \in Nat, NEW b \in Nat
  PROVE  a * b \in Nat /\ (a # 0 /\ b # 0 => a * b # 0)
  OBVIOUS

\* What a step passes on is a natural number, and not nothing.
LEMMA PropagatedIsNat ==
  ASSUME NEW a \in Nat, NEW w \in Nat, NEW depth0, NEW t \in Node
  PROVE  /\ Propagated(a, w, depth0, t) \in Nat
         /\ a > 0 /\ w > 0 => Propagated(a, w, depth0, t) > 0
  <1> DEFINE decay == IF depth0 = 1 THEN 1 ELSE DecayDiv
             divisor == 20 * ScaleDiv * decay
             factor == Factor(t)
             aw == a * w
  <1>1. ScaleDiv \in Nat /\ ScaleDiv # 0 /\ decay \in Nat /\ decay # 0
    BY ActivationConstants
  <1>2. Matches[t].state \in Nat /\ Matches[t].goal \in Nat
    BY ActivationConstants
  <1>3. factor \in Nat /\ factor # 0
    <2>1. /\ 20 + 3 * Matches[t].state + 5 * Matches[t].goal \in Nat
          /\ 20 + 3 * Matches[t].state + 5 * Matches[t].goal # 0
      BY <1>2
    <2>2. QED
      BY <2>1, MinOfTwo DEF Factor
  <1>4. aw \in Nat /\ (a > 0 /\ w > 0 => aw # 0)
    BY Product
  <1> HIDE DEF decay, factor, aw
  <1>5. aw * factor \in Nat /\ (aw # 0 => aw * factor # 0)
    BY <1>3, <1>4, Product
  <1>6. 20 * ScaleDiv \in Nat /\ 20 * ScaleDiv # 0
    BY <1>1
  <1>7. divisor \in Nat /\ divisor # 0
    BY <1>1, <1>6, Product
  <1> HIDE DEF divisor
  <1>8. /\ (aw * factor + divisor - 1) \div divisor \in Nat
        /\ a > 0 /\ w > 0 => (aw * factor + divisor - 1) \div divisor > 0
    <2> DEFINE whole == aw * factor
    <2>1. whole \in Nat /\ (aw # 0 => whole # 0)
      BY <1>5
    <2> HIDE DEF whole
    <2>2. /\ (whole + divisor - 1) \div divisor \in Nat
          /\ whole # 0 => (whole + divisor - 1) \div divisor > 0
      BY <1>7, <2>1, Quotient
    <2>3. QED
      BY <1>4, <2>1, <2>2 DEF whole
  <1>9. QED
    BY <1>8 DEF Propagated, aw, factor, divisor, decay

\* A sum is rounded to a natural number, and never to nothing.
LEMMA RoundedIsNat ==
  ASSUME NEW x \in Nat
  PROVE  Rounded(x) \in Nat /\ (x > 0 => Rounded(x) > 0)
  <1> DEFINE U == {v \in {1, 2, 4, 8, 16} : x < Exact * v} \cup {32}
             u == Min(U)
  <1>1. Exact \in Nat /\ Exact >= 2
    BY ActivationConstants
  <1>2. \E y \in U : \A v \in U : y <= v
    <2> DEFINE y == IF x < Exact * 1 THEN 1 ELSE IF x < Exact * 2 THEN 2
                    ELSE IF x < Exact * 4 THEN 4 ELSE IF x < Exact * 8 THEN 8
                    ELSE IF x < Exact * 16 THEN 16 ELSE 32
    <2>1. y \in U /\ \A v \in U : y <= v
      BY <1>1
    <2>2. QED
      BY <2>1
  <1>3. u \in U /\ \A v \in U : u <= v
    <2> HIDE DEF U
    <2>1. QED
      BY <1>2 DEF Min
  <1>4. u \in {1, 2, 4, 8, 16, 32} /\ (u = 1 \/ x >= u)
    <2>1. u \in {1, 2, 4, 8, 16, 32}
      BY <1>3
    <2>2. ASSUME NEW v \in {1, 2, 4, 8, 16}, v < u PROVE x >= 2 * v
      <3>1. v \notin U
        <4> HIDE DEF U
        <4>1. QED
          BY <1>3, <2>1, <2>2
      <3>2. x >= Exact * v
        BY <1>1, <3>1
      <3>3. QED
        BY <1>1, <3>2
    <2> HIDE DEF u
    <2>3. QED
      BY <2>1, <2>2
  <1>5. Ulp(x) = u
    BY DEF Ulp
  <1> HIDE DEF u
  <1>6. u \in Nat /\ u > 0 /\ x % u \in Nat /\ x % u < u /\ x % u <= x
    BY <1>4
  <1>7. x > 0 => x - (x % u) > 0
    BY <1>4
  <1>8. QED
    BY <1>5, <1>6, <1>7 DEF Rounded

\* What is added to leaves something.
LEMMA AddToIsNat ==
  ASSUME NEW a \in Nat, NEW gain \in Nat
  PROVE  AddTo(a, gain) \in Nat /\ (gain > 0 => AddTo(a, gain) > 0)
  <1> DEFINE x == a + gain
             r == Rounded(x)
  <1>1. x \in Nat /\ (gain > 0 => x > 0)
    OBVIOUS
  <1> HIDE DEF x
  <1>2. r \in Nat /\ (x > 0 => r > 0)
    BY <1>1, RoundedIsNat
  <1> HIDE DEF r
  <1>3. Cap \in Nat /\ Cap # 0
    BY ActivationConstants
  <1>4. Min({Cap, r}) = IF Cap <= r THEN Cap ELSE r
    BY <1>2, <1>3, MinOfTwo
  <1>5. QED
    BY <1>1, <1>2, <1>3, <1>4 DEF AddTo, r, x

\* The targets of a memory.
Targets(w, l, s) == {t \in Node : s # t /\ {s, t} \subseteq l /\ w[<<s, t>>] # 0}

\* The weights of a graph.
Weights == [Node \X Node -> Nat]

LEMMA WeightIsNat ==
  ASSUME NEW w \in Weights, NEW s \in Node, NEW t \in Node
  PROVE  w[<<s, t>>] \in Nat
  BY DEF Weights

\* The edges of a memory are in an order.
LEMMA HeavierOrders ==
  ASSUME NEW w \in Weights, NEW l, NEW s \in Node
  PROVE  /\ Targets(w, l, s) \subseteq Node /\ IsFiniteSet(Targets(w, l, s))
         /\ Orders(HeavierFrom(w, s), Targets(w, l, s))
  <1> DEFINE T == Targets(w, l, s)
             before == HeavierFrom(w, s)
  <1>1. T \in SUBSET Node
    BY DEF Targets
  <1>2. IsFiniteSet(T)
    BY <1>1, FS_Subset, ActivationConstants
  <1>3. Orders(before, T)
    <2>1. \A t \in T : t \in Node /\ t \in Nat /\ w[<<s, t>>] \in Nat
      BY <1>1, WeightIsNat, ActivationConstants
    <2>2. \A t, u \in T : <<t, u>> \in before <=> \/ w[<<s, t>>] > w[<<s, u>>]
                                                  \/ w[<<s, t>>] = w[<<s, u>>] /\ t < u
      BY <2>1 DEF HeavierFrom
    <2> DEFINE v == [t \in T |-> w[<<s, t>>]]
    <2>3. \A t \in T : v[t] \in Nat /\ v[t] = w[<<s, t>>]
      BY <2>1
    <2> HIDE DEF T, before, v
    <2>4. \A t, u \in T : <<t, u>> \in before <=> v[t] > v[u] \/ (v[t] = v[u] /\ t < u)
      BY <2>2, <2>3
    <2>5. \A x \in T : <<x, x>> \notin before
      <3> TAKE x \in T
      <3>1. v[x] \in Nat /\ x \in Nat
        BY <2>1, <2>3
      <3>2. <<x, x>> \in before <=> v[x] > v[x] \/ (v[x] = v[x] /\ x < x)
        BY <2>4
      <3>3. QED
        BY <3>1, <3>2
    <2>6. \A x, y, z \in T : <<x, y>> \in before /\ <<y, z>> \in before => <<x, z>> \in before
      <3> TAKE x, y, z \in T
      <3>1. /\ v[x] \in Nat /\ v[y] \in Nat /\ v[z] \in Nat /\ x \in Nat /\ y \in Nat /\ z \in Nat
        BY <2>1, <2>3
      <3>2. QED
        BY <2>4, <3>1
    <2>7. \A x, y \in T : x = y \/ <<x, y>> \in before \/ <<y, x>> \in before
      <3> TAKE x, y \in T
      <3>1. v[x] \in Nat /\ v[y] \in Nat /\ x \in Nat /\ y \in Nat
        BY <2>1, <2>3
      <3>2. QED
        BY <2>4, <3>1
    <2>8. QED
      BY <2>5, <2>6, <2>7 DEF Orders
  <1>4. QED
    BY <1>1, <1>2, <1>3

\* The edges that are followed lead to targets, each to another one.
LEMMA OutgoingFacts ==
  ASSUME NEW w \in Weights, NEW l, NEW s \in Node
  PROVE  LET out == Outgoing(w, l, s) IN
           /\ out \in Seq(Node) /\ Len(out) \in Nat /\ DOMAIN out = 1 .. Len(out)
           /\ \A i \in DOMAIN out : out[i] \in Targets(w, l, s)
           /\ \A i, j \in DOMAIN out : out[i] = out[j] => i = j
  <1> DEFINE T == Targets(w, l, s)
             before == HeavierFrom(w, s)
             sorted == Ranked(T, before)
             k == Min({Fanout, Len(sorted)})
             out == Outgoing(w, l, s)
  <1>1. T \in SUBSET Node /\ IsFiniteSet(T)
    BY HeavierOrders
  <1>2. Orders(before, T)
    BY HeavierOrders
  <1>4. out = SubSeq(sorted, 1, k)
    BY DEF Outgoing, Targets
  <1> HIDE DEF T, before
  <1>5. /\ sorted \in Seq(T) /\ Len(sorted) \in Nat /\ DOMAIN sorted = 1 .. Len(sorted)
        /\ Range(sorted) = T
        /\ \A i, j \in DOMAIN sorted : sorted[i] = sorted[j] => i = j
    BY <1>1, <1>2, RankedProperties
  <1> HIDE DEF sorted, out
  <1>6. k \in Nat /\ k <= Len(sorted)
    <2>1. Fanout \in Nat
      BY ActivationConstants
    <2>2. k = IF Fanout <= Len(sorted) THEN Fanout ELSE Len(sorted)
      BY <1>5, <2>1, MinOfTwo
    <2>3. QED
      BY <1>5, <2>1, <2>2
  <1> HIDE DEF k
  <1>7. /\ Len(out) = k /\ DOMAIN out = 1 .. k
        /\ \A i \in 1 .. k : out[i] = sorted[i] /\ i \in DOMAIN sorted
    BY <1>4, <1>5, <1>6
  <1>8. \A i \in 1 .. k : out[i] \in T
    BY <1>5, <1>7 DEF Range
  <1>9. out = [i \in 1 .. k |-> sorted[i]]
    BY <1>4, <1>5, <1>6
  <1>10. out \in Seq(Node)
    <2>1. out \in [1 .. k -> Node]
      BY <1>1, <1>7, <1>8, <1>9
    <2>2. QED
      BY <1>6, <2>1, SequenceOfLength
  <1>11. \A i, j \in 1 .. k : out[i] = out[j] => i = j
    BY <1>5, <1>7
  <1>12. QED
    BY <1>6, <1>7, <1>8, <1>10, <1>11 DEF out, T

-----------------------------------------------------------------------------
(* Spreading: explanations.                                                *)

\* What is known of an activated memory.
Value == [act : Nat, gain : Nat, path : Seq(Node)]

\* p explains an activation of t: it leads there from a seed, over edges
\* that existed between valid memories.
Leads(p, t) ==
  /\ p \in Seq(Node) /\ Len(p) \in Nat /\ Len(p) # 0
  /\ p[1] \in Seeds /\ p[Len(p)] = t
  /\ IsInjective(p)
  /\ \A i \in 2 .. Len(p) : p[i] \notin Seeds
  /\ \A i \in 1 .. Len(p) - 1 : <<p[i], p[i + 1]>> \in hops

\* A frontier, or what is accumulated.
Explains(f) ==
  /\ DOMAIN f \subseteq Node
  /\ \A t \in DOMAIN f : f[t] \in Value /\ Leads(f[t].path, t)

PathsInv ==
  /\ live \subseteq Node /\ weight \in Weights /\ changes \in Nat
  /\ \A e \in Node \X Node : weight[e] # 0 => e \in SpreadEdges
  /\ Hops(weight, live) \subseteq hops
  /\ Explains(frontier) /\ Explains(next) /\ Explains(acc)
  /\ todo \subseteq DOMAIN frontier
  /\ source # 0 => source \in DOMAIN frontier
  /\ targets \in Seq([id : Node, weight : Nat])
  /\ source # 0 =>
       \A i \in DOMAIN targets : targets[i].weight > 0 => <<source, targets[i].id>> \in hops

\* A graph at the start.
LEMMA GraphAtTheStart ==
  ASSUME NEW edges \in SUBSET (Node \X Node), NEW weights \in SUBSET Nat, GraphInit(edges, weights)
  PROVE  weight \in Weights /\ changes = 0 /\ \A e \in Node \X Node : weight[e] # 0 => e \in edges
  <1>1. PICK w \in [edges -> weights] : weight = [e \in Node \X Node |-> IF e \in edges THEN w[e] ELSE 0]
    BY DEF GraphInit
  <1> DEFINE at(e) == IF e \in edges THEN w[e] ELSE 0
  <1>2. \A e \in Node \X Node : at(e) \in Nat /\ (at(e) # 0 => e \in edges)
    BY <1>1
  <1>3. weight = [e \in Node \X Node |-> at(e)]
    BY <1>1
  <1> HIDE DEF at
  <1>4. weight \in Weights
    BY <1>2, <1>3 DEF Weights
  <1>5. \A e \in Node \X Node : weight[e] = at(e)
    BY <1>3
  <1>6. QED
    BY <1>2, <1>4, <1>5 DEF GraphInit

\* A graph that others change remains one.
LEMMA GraphOfOthers ==
  ASSUME NEW edges \in SUBSET (Node \X Node), ByOthers(edges),
         live \subseteq Node, weight \in Weights, changes \in Nat,
         \A e \in Node \X Node : weight[e] # 0 => e \in edges
  PROVE  /\ live' \subseteq live /\ weight' \in Weights /\ changes' \in Nat /\ changes' # 0
         /\ \A e \in Node \X Node : weight'[e] # 0 => e \in edges
  <1>1. changes' \in Nat /\ changes' # 0
    BY DEF ByOthers
  <1>2. CASE \E e \in edges : /\ {e[1], e[2]} \subseteq live
                              /\ weight' = [weight EXCEPT ![e] = @ + 1]
                              /\ UNCHANGED live
    <2>1. PICK e \in edges : weight' = [weight EXCEPT ![e] = weight[e] + 1] /\ live' = live
      BY <1>2
    <2>2. e \in Node \X Node
      OBVIOUS
    <2> DEFINE more == weight[e] + 1
    <2>3. weight[e] \in Nat /\ more \in Nat
      BY <2>2 DEF Weights
    <2>4. weight' = [weight EXCEPT ![e] = more]
      BY <2>1
    <2> HIDE DEF more
    <2>5. weight' \in Weights
      BY <2>2, <2>3, <2>4 DEF Weights
    <2>6. \A d \in Node \X Node : d = e \/ weight'[d] = weight[d]
      BY <2>2, <2>4 DEF Weights
    <2>7. QED
      BY <1>1, <2>1, <2>5, <2>6
  <1>3. CASE \E m \in live : live' = live \ {m} /\ UNCHANGED weight
    BY <1>1, <1>3
  <1>4. QED
    BY <1>2, <1>3 DEF ByOthers

LEMMA PathsInvInit == SpreadInit => PathsInv
  <1> SUFFICES ASSUME SpreadInit PROVE PathsInv
    OBVIOUS
  <1>1. /\ live \subseteq Node /\ weight \in Weights /\ changes \in Nat
        /\ \A e \in Node \X Node : weight[e] # 0 => e \in SpreadEdges
    BY GraphAtTheStart, SpreadConstants DEF SpreadInit
  <1>2. /\ frontier = SeedNodes(Seeds) /\ todo = Seeds /\ source = 0 /\ targets = <<>>
        /\ next = NoNodes /\ acc = NoNodes /\ hops = Hops(weight, live)
    BY DEF SpreadInit
  <1>3. DOMAIN frontier = Seeds /\ \A s \in Seeds : frontier[s] = [act |-> One, gain |-> One, path |-> <<s>>]
    BY <1>2 DEF SeedNodes
  <1>4. Explains(frontier)
    <2> SUFFICES ASSUME NEW s \in Seeds PROVE frontier[s] \in Value /\ Leads(frontier[s].path, s)
      BY <1>3, SpreadConstants DEF Explains
    <2> DEFINE p == <<s>>
    <2>1. s \in Node
      BY SpreadConstants
    <2>2. p \in Seq(Node) /\ Len(p) = 1 /\ p[1] = s /\ DOMAIN p = {1}
      BY <2>1
    <2>3. frontier[s].path = p /\ frontier[s] = [act |-> One, gain |-> One, path |-> p]
      BY <1>3
    <2> HIDE DEF p
    <2>4. frontier[s] \in Value
      BY <2>2, <2>3, ActivationConstants DEF Value
    <2>5. IsInjective(p)
      BY <2>2 DEF IsInjective
    <2>6. Leads(p, s)
      BY <2>2, <2>5 DEF Leads
    <2>7. QED
      BY <2>3, <2>4, <2>6
  <1>5. DOMAIN NoNodes = {}
    BY DEF NoNodes
  <1>6. Explains(next) /\ Explains(acc)
    BY <1>2, <1>5 DEF Explains
  <1>7. targets \in Seq([id : Node, weight : Nat])
    BY <1>2
  <1>8. QED
    BY <1>1, <1>2, <1>3, <1>4, <1>6, <1>7 DEF PathsInv

\* A path that goes on to a new memory.
LEMMA LeadsOn ==
  ASSUME NEW p, NEW s, Leads(p, s), NEW t \in Node, t \notin Seeds, t \notin Range(p),
         <<s, t>> \in hops
  PROVE  Leads(Append(p, t), t)
  <1> DEFINE n == Len(p)
             q == Append(p, t)
  <1>1. /\ p \in Seq(Node) /\ n \in Nat /\ n # 0 /\ DOMAIN p = 1 .. n
        /\ p[1] \in Seeds /\ p[n] = s /\ IsInjective(p)
        /\ \A i \in 2 .. n : p[i] \notin Seeds
        /\ \A i \in 1 .. n - 1 : <<p[i], p[i + 1]>> \in hops
    BY LenProperties DEF Leads
  <1>2. /\ q \in Seq(Node) /\ Len(q) = n + 1 /\ DOMAIN q = 1 .. n + 1
        /\ \A i \in 1 .. n : q[i] = p[i]
        /\ q[n + 1] = t
    BY <1>1, AppendProperties
  <1> HIDE DEF q, n
  <1>3. \A i \in 1 .. n + 1 : i = n + 1 \/ i \in 1 .. n
    BY <1>1
  <1>4. \A i \in 1 .. n : q[i] # t
    BY <1>1, <1>2 DEF Range
  <1>5. IsInjective(q)
    <2> SUFFICES ASSUME NEW i \in 1 .. n + 1, NEW j \in 1 .. n + 1, q[i] = q[j] PROVE i = j
      BY <1>2 DEF IsInjective
    <2>1. CASE i \in 1 .. n /\ j \in 1 .. n
      <3>1. p[i] = p[j] /\ i \in DOMAIN p /\ j \in DOMAIN p
        BY <1>1, <1>2, <2>1
      <3>2. QED
        BY <1>1, <3>1 DEF IsInjective
    <2>2. QED
      BY <1>2, <1>3, <1>4, <2>1
  <1>6. \A i \in 2 .. n + 1 : q[i] \notin Seeds
    <2> TAKE i \in 2 .. n + 1
    <2>1. i = n + 1 \/ (i \in 2 .. n /\ i \in 1 .. n)
      BY <1>1
    <2>2. QED
      BY <1>1, <1>2, <2>1
  <1>7. \A i \in 1 .. n : <<q[i], q[i + 1]>> \in hops
    <2> TAKE i \in 1 .. n
    <2>1. CASE i = n
      BY <1>1, <1>2, <2>1
    <2>2. CASE i # n
      <3>1. i \in 1 .. n - 1 /\ i + 1 \in 1 .. n
        BY <1>1, <2>2
      <3>2. QED
        BY <1>1, <1>2, <3>1
    <2>3. QED
      BY <2>1, <2>2
  <1>8. q[1] \in Seeds /\ Len(q) # 0 /\ Len(q) - 1 = n
    BY <1>1, <1>2
  <1>9. QED
    BY <1>2, <1>5, <1>6, <1>7, <1>8 DEF Leads, q

\* An update explains what it activates.
LEMMA UpdateExplains ==
  ASSUME NEW f, Explains(f), NEW t \in Node, NEW gain \in Nat, NEW p, Leads(p, t)
  PROVE  Explains(Update(f, t, gain, p))
  <1> DEFINE new == [gain |-> gain, path |-> p]
             old == IF t \in DOMAIN f THEN f[t] ELSE [act |-> 0, gain |-> gain, path |-> p]
             best == IF BetterPath(new, old) THEN new ELSE [gain |-> old.gain, path |-> old.path]
             value == [act |-> AddTo(old.act, gain), gain |-> best.gain, path |-> best.path]
             g == Update(f, t, gain, p)
  <1>1. g = [u \in DOMAIN f \cup {t} |-> IF u = t THEN value ELSE f[u]]
    BY DEF Update
  <1>2. p \in Seq(Node)
    BY DEF Leads
  <1>3. old.act \in Nat /\ old.gain \in Nat /\ old.path \in Seq(Node) /\ Leads(old.path, t)
    <2>1. CASE t \in DOMAIN f
      BY <2>1 DEF Explains, Value
    <2>2. CASE t \notin DOMAIN f
      BY <1>2, <2>2
    <2>3. QED
      BY <2>1, <2>2
  <1> HIDE DEF old
  <1>4. best.gain \in Nat /\ best.path \in Seq(Node) /\ Leads(best.path, t)
    <2> DEFINE kept == [gain |-> old.gain, path |-> old.path]
    <2>1. best = new \/ best = kept
      OBVIOUS
    <2> HIDE DEF best
    <2>2. QED
      BY <1>2, <1>3, <2>1
  <1>5. AddTo(old.act, gain) \in Nat
    BY <1>3, AddToIsNat
  <1> HIDE DEF best
  <1>6. value \in Value /\ Leads(value.path, t)
    BY <1>4, <1>5 DEF Value
  <1> HIDE DEF value, g
  <1>7. DOMAIN g = DOMAIN f \cup {t} /\ \A u \in DOMAIN g : g[u] = IF u = t THEN value ELSE f[u]
    BY <1>1
  <1>8. QED
    BY <1>6, <1>7 DEF Explains, g

\* The actions of the loop.
LEMMA TakeSourcePaths ==
  ASSUME PathsInv, NEW s \in Node, TakeSource(s)
  PROVE  PathsInv'
  <1> DEFINE ids == Outgoing(weight, live, s)
             pair(i) == [id |-> ids[i], weight |-> weight[<<s, ids[i]>>]]
             pairs == [i \in DOMAIN ids |-> pair(i)]
             T == [id : Node, weight : Nat]
  <1>1. /\ source' = s /\ s \in todo /\ todo' = todo \ {s} /\ targets' = pairs
        /\ UNCHANGED <<graphVars, depth, frontier, next, acc, unread, found, hops>>
    BY DEF TakeSource
  <1>2. UNCHANGED <<live, weight, changes, frontier, next, acc, hops>>
    BY <1>1 DEF graphVars
  <1>3. live \subseteq Node /\ weight \in Weights /\ todo \subseteq DOMAIN frontier
    BY DEF PathsInv
  <1>4. /\ ids \in Seq(Node) /\ Len(ids) \in Nat /\ DOMAIN ids = 1 .. Len(ids)
        /\ \A i \in DOMAIN ids : ids[i] \in Targets(weight, live, s)
    BY <1>3, OutgoingFacts
  <1> HIDE DEF ids
  <1>5. \A i \in DOMAIN ids : /\ ids[i] \in Node /\ {s, ids[i]} \subseteq live
                              /\ weight[<<s, ids[i]>>] \in Nat /\ weight[<<s, ids[i]>>] # 0
    BY <1>3, <1>4, WeightIsNat DEF Targets
  <1>6. \A i \in DOMAIN ids : pair(i) \in T
    BY <1>5
  <1> HIDE DEF pair, T
  <1>7. pairs \in Seq(T) /\ DOMAIN pairs = DOMAIN ids
    <2>1. pairs \in [1 .. Len(ids) -> T]
      BY <1>4, <1>6
    <2>2. QED
      BY <1>4, <2>1, SequenceOfLength
  <1>8. \A i \in DOMAIN ids : <<s, ids[i]>> \in hops
    <2> TAKE i \in DOMAIN ids
    <2> DEFINE e == <<s, ids[i]>>
    <2>1. e \in Node \X Node /\ weight[e] \in Nat /\ weight[e] # 0 /\ e[1] = s /\ e[2] = ids[i]
      BY <1>5
    <2>2. {e[1], e[2]} \subseteq live
      BY <1>5
    <2> HIDE DEF e
    <2>3. e \in SpreadEdges /\ weight[e] > 0
      BY <2>1 DEF PathsInv
    <2>4. e \in Hops(weight, live)
      BY <2>2, <2>3 DEF Hops
    <2>5. e \in hops
      BY <2>4 DEF PathsInv
    <2>6. QED
      BY <2>5 DEF e
  <1>9. \A i \in DOMAIN targets' : <<source', targets'[i].id>> \in hops'
    <2> TAKE i \in DOMAIN targets'
    <2>1. i \in DOMAIN ids
      BY <1>1, <1>7
    <2>2. targets'[i] = pair(i)
      BY <1>1, <2>1
    <2>3. targets'[i].id = ids[i]
      BY <2>2 DEF pair
    <2>4. QED
      BY <1>1, <1>2, <1>8, <2>1, <2>3
  <1>10. Explains(frontier)' /\ Explains(next)' /\ Explains(acc)'
    BY <1>2 DEF PathsInv, Explains, Leads
  <1>11. targets' \in Seq([id : Node, weight : Nat])
    BY <1>1, <1>7 DEF T
  <1>12. QED
    BY <1>1, <1>2, <1>3, <1>9, <1>10, <1>11 DEF PathsInv

LEMMA FollowPaths ==
  ASSUME PathsInv, Follow
  PROVE  PathsInv'
  <1> DEFINE n == frontier[source]
             t == Head(targets)
             gain == Propagated(n.act, t.weight, depth, t.id)
             path == Append(n.path, t.id)
             T == [id : Node, weight : Nat]
  <1>1. /\ source # 0 /\ targets # <<>> /\ targets' = Tail(targets)
        /\ source' \in {0, source}
        /\ UNCHANGED <<graphVars, depth, frontier, todo, unread, found, hops>>
    BY DEF Follow
  <1>2. UNCHANGED <<live, weight, changes, frontier, todo, hops>>
    BY <1>1 DEF graphVars
  <1>3. targets \in Seq(T) /\ source \in DOMAIN frontier
    BY <1>1 DEF PathsInv
  <1> HIDE DEF T
  <1>4. /\ t \in T /\ Tail(targets) \in Seq(T) /\ 1 \in DOMAIN targets /\ t = targets[1]
        /\ \A i \in DOMAIN Tail(targets) : i + 1 \in DOMAIN targets /\ Tail(targets)[i] = targets[i + 1]
    BY <1>1, <1>3, HeadTailProperties, LenProperties, ElementOfSeq
  <1>5. t.id \in Node /\ t.weight \in Nat /\ (t.weight > 0 => <<source, t.id>> \in hops)
    BY <1>1, <1>4 DEF T, PathsInv
  <1>6. n \in Value /\ Leads(n.path, source) /\ Explains(acc) /\ Explains(next)
    BY <1>3 DEF PathsInv, Explains
  <1>7. gain \in Nat
    BY <1>5, <1>6, PropagatedIsNat DEF Value
  <1>8. Explains(acc)' /\ Explains(next)'
    <2>1. CASE acc' = Update(acc, t.id, gain, path) /\ next' = Update(next, t.id, gain, path)
                 /\ t.weight > 0 /\ t.id \notin Seeds /\ t.id \notin Range(n.path)
      <3>1. Leads(path, t.id)
        BY <1>5, <1>6, <2>1, LeadsOn
      <3> HIDE DEF gain, path, t, n
      <3>2. Explains(Update(acc, t.id, gain, path)) /\ Explains(Update(next, t.id, gain, path))
        BY <1>5, <1>6, <1>7, <3>1, UpdateExplains
      <3>3. QED
        BY <1>2, <2>1, <3>2 DEF Explains, Leads
    <2>2. CASE UNCHANGED <<acc, next>>
      BY <1>2, <1>6, <2>2 DEF Explains, Leads
    <2>3. QED
      BY <2>1, <2>2 DEF Follow
  <1>9. Explains(frontier)'
    BY <1>2 DEF PathsInv, Explains, Leads
  <1>10. source' # 0 => source' \in DOMAIN frontier'
    BY <1>1, <1>2, <1>3
  <1>11. \A i \in DOMAIN targets' : targets'[i].weight > 0 => <<source, targets'[i].id>> \in hops'
    BY <1>1, <1>2, <1>4 DEF PathsInv
  <1>12. targets' \in Seq([id : Node, weight : Nat])
    BY <1>1, <1>4 DEF T
  <1>13. QED
    BY <1>1, <1>2, <1>8, <1>9, <1>10, <1>11, <1>12 DEF PathsInv

LEMMA OtherPaths ==
  ASSUME PathsInv, Drop \/ NextLevel \/ OthersMeanwhile \/ (\E t \in Node : Collect(t)) \/ UNCHANGED spreadVars
  PROVE  PathsInv'
  <1>1. CASE OthersMeanwhile
    <2>1. /\ ByOthers(SpreadEdges) /\ hops' = hops \cup Hops(weight', live')
          /\ UNCHANGED <<frontier, next, acc, todo, source, targets>>
      BY <1>1 DEF OthersMeanwhile, loopVars
    <2>2. /\ live' \subseteq Node /\ weight' \in Weights /\ changes' \in Nat
          /\ \A e \in Node \X Node : weight'[e] # 0 => e \in SpreadEdges
      BY <2>1, GraphOfOthers, SpreadConstants DEF PathsInv
    <2>3. \A p, t : Leads(p, t) => Leads(p, t)'
      BY <2>1 DEF Leads
    <2>4. Explains(frontier)' /\ Explains(next)' /\ Explains(acc)'
      BY <2>1, <2>3 DEF PathsInv, Explains
    <2>5. Hops(weight', live') \subseteq hops'
      BY <2>1
    <2>6. QED
      BY <2>1, <2>2, <2>4, <2>5 DEF PathsInv, Hops
  <1>2. CASE NextLevel
    <2>1. /\ source = 0 /\ todo = {} /\ next' = NoNodes
          /\ UNCHANGED <<live, weight, changes, source, targets, acc, hops>>
          /\ (UNCHANGED <<frontier, todo>> \/ (frontier' = next /\ todo' = DOMAIN next))
      BY <1>2 DEF NextLevel, graphVars
    <2>2. DOMAIN NoNodes = {}
      BY DEF NoNodes
    <2>3. Explains(NoNodes)
      BY <2>2 DEF Explains
    <2>4. Explains(frontier') /\ Explains(next') /\ Explains(acc')
      BY <2>1, <2>3 DEF PathsInv
    <2>5. Explains(frontier)' /\ Explains(next)' /\ Explains(acc)'
      BY <2>1, <2>4 DEF Explains, Leads
    <2>6. todo' \subseteq DOMAIN frontier'
      BY <2>1 DEF PathsInv
    <2>7. QED
      BY <2>1, <2>5, <2>6 DEF PathsInv, Hops
  <1>3. CASE Drop \/ (\E t \in Node : Collect(t)) \/ UNCHANGED spreadVars
    <2>1. /\ UNCHANGED <<live, weight, changes, frontier, todo, next, acc, targets, hops>>
          /\ source' \in {0, source}
      BY <1>3 DEF Drop, Collect, spreadVars, graphVars, loopVars
    <2>2. Explains(frontier)' /\ Explains(next)' /\ Explains(acc)'
      BY <2>1 DEF PathsInv, Explains, Leads
    <2>3. QED
      BY <2>1, <2>2 DEF PathsInv, Hops
  <1>4. QED
    BY <1>1, <1>2, <1>3

LEMMA PathsInvStep == PathsInv /\ [SpreadNext]_spreadVars => PathsInv'
  <1> SUFFICES ASSUME PathsInv, [SpreadNext]_spreadVars PROVE PathsInv'
    OBVIOUS
  <1>1. CASE \E s \in Node : TakeSource(s)
    BY <1>1, TakeSourcePaths
  <1>2. CASE Follow
    BY <1>2, FollowPaths
  <1>3. CASE Drop \/ NextLevel \/ OthersMeanwhile \/ (\E t \in Node : Collect(t)) \/ UNCHANGED spreadVars
    BY <1>3, OtherPaths
  <1>4. QED
    BY <1>1, <1>2, <1>3 DEF SpreadNext

\* The explanation of an activation can be followed, on every graph: it leads
\* from a seed to the memory, without a cycle or another seed, over edges
\* that existed between valid memories at some time of the call, whatever
\* other processes change while the loop runs.
THEOREM SpreadingPathsAreExplained == SpreadSpec => []PathsAreExplained
  <1>1. SpreadSpec => []PathsInv
    BY PathsInvInit, PathsInvStep, PTL DEF SpreadSpec
  <1>2. PathsInv => PathsAreExplained
    BY DEF PathsInv, Explains, Leads, PathsAreExplained
  <1>3. QED
    BY <1>1, <1>2, PTL

-----------------------------------------------------------------------------
(* Spreading: what is activated.                                           *)

\* The memories of B and those that one followed edge leads to from there.
Wider(w, l, B) == B \cup UNION {Range(Outgoing(w, l, s)) : s \in B}

\* The memories that at most d edges lead to from a seed.
Balls(ball, w, l) ==
  ball = [d \in 0 .. Steps |-> IF d = 0 THEN Seeds ELSE Wider(w, l, ball[d - 1])]

LEMMA WiderIsOfNodes ==
  ASSUME NEW w \in Weights, NEW l, NEW B \in SUBSET Node
  PROVE  Wider(w, l, B) \in SUBSET Node
  <1> SUFFICES ASSUME NEW s \in B, NEW t \in Range(Outgoing(w, l, s)) PROVE t \in Node
    BY DEF Wider
  <1> DEFINE out == Outgoing(w, l, s)
  <1>1. \A i \in DOMAIN out : out[i] \in Targets(w, l, s)
    BY OutgoingFacts
  <1>2. PICK i \in DOMAIN out : t = out[i]
    BY DEF Range
  <1>3. QED
    BY <1>1, <1>2 DEF Targets

LEMMA BallsExist ==
  ASSUME NEW w \in Weights, NEW l
  PROVE  \E ball : Balls(ball, w, l)
  <1> DEFINE n == Steps
             S == SUBSET Node
             turn(x) == Wider(w, l, x)
             turns == [d \in 1 .. n |-> [x \in S |-> turn(x)]]
  <1>1. n \in Nat /\ Seeds \in S
    BY ActivationConstants, SpreadConstants
  <1>2. \A x \in S : turn(x) \in S
    BY WiderIsOfNodes
  <1> HIDE DEF turn
  <1>3. turns \in [1 .. n -> [S -> S]] /\ \A d \in 1 .. n : \A x \in S : turns[d][x] = turn(x)
    BY <1>2
  <1> HIDE DEF S, turns, n
  <1>4. PICK f \in [0 .. n -> S] : Recursion(f, n, Seeds, turns)
    BY <1>1, <1>3, RecursionExists
  <1>5. f = [d \in 0 .. n |-> IF d = 0 THEN Seeds ELSE turns[d][f[d - 1]]]
    BY <1>4 DEF Recursion
  <1>6. \A d \in 0 .. n : d # 0 => turns[d][f[d - 1]] = turn(f[d - 1])
    <2> TAKE d \in 0 .. n
    <2>1. d # 0 => d \in 1 .. n /\ d - 1 \in 0 .. n
      BY <1>1
    <2>2. QED
      BY <1>3, <1>4, <2>1
  <1>7. \A d \in 0 .. n : f[d] = IF d = 0 THEN Seeds ELSE turn(f[d - 1])
    BY <1>5, <1>6
  <1>8. f = [d \in 0 .. n |-> IF d = 0 THEN Seeds ELSE turn(f[d - 1])]
    BY <1>4, <1>7
  <1>9. Balls(f, w, l)
    BY <1>8 DEF Balls, turn, n
  <1>10. QED
    BY <1>9

\* What they are.
BallsAre(ball, w, l) ==
  /\ ball[0] = Seeds
  /\ \A d \in 1 .. Steps : ball[d] = Wider(w, l, ball[d - 1])
  /\ \A d \in 0 .. Steps : ball[d] \in SUBSET Node /\ Seeds \subseteq ball[d]

LEMMA BallsFacts ==
  ASSUME NEW w \in Weights, NEW l, NEW ball, Balls(ball, w, l)
  PROVE  BallsAre(ball, w, l)
  <1> DEFINE n == Steps
             turn(x) == Wider(w, l, x)
             fits(x) == x \in SUBSET Node /\ Seeds \subseteq x
             P == {d \in 0 .. n : fits(ball[d])}
  <1>1. n \in Nat
    BY ActivationConstants
  <1>2. fits(Seeds)
    BY SpreadConstants
  <1>3. \A x : fits(x) => fits(turn(x))
    <2> SUFFICES ASSUME NEW x, fits(x) PROVE fits(turn(x))
      OBVIOUS
    <2>1. turn(x) \in SUBSET Node
      BY WiderIsOfNodes
    <2>2. x \subseteq turn(x)
      BY DEF Wider
    <2>3. QED
      BY <2>1, <2>2
  <1> HIDE DEF turn, fits, n
  <1>4. ball = [d \in 0 .. n |-> IF d = 0 THEN Seeds ELSE turn(ball[d - 1])]
    BY DEF Balls, turn, n
  <1>5. ball[0] = Seeds /\ \A d \in 1 .. n : ball[d] = turn(ball[d - 1])
    <2>1. 0 \in 0 .. n /\ \A d \in 1 .. n : d \in 0 .. n /\ d # 0
      BY <1>1
    <2>2. \A d \in 0 .. n : ball[d] = IF d = 0 THEN Seeds ELSE turn(ball[d - 1])
      BY <1>4
    <2>3. QED
      BY <2>1, <2>2
  <1>6. 0 \in P
    BY <1>1, <1>2, <1>5
  <1>7. \A d \in Nat : d < n /\ d \in P => d + 1 \in P
    <2> TAKE d \in Nat
    <2> HAVE d < n /\ d \in P
    <2>1. d + 1 \in 1 .. n /\ d + 1 \in 0 .. n /\ (d + 1) - 1 = d
      BY <1>1
    <2>2. ball[d + 1] = turn(ball[d])
      BY <1>5, <2>1
    <2>3. QED
      BY <1>3, <2>1, <2>2
  <1>8. \A d \in 0 .. n : d \in P
    <2> HIDE DEF P
    <2>1. QED
      BY <1>1, <1>6, <1>7, CountingUp
  <1>9. QED
    BY <1>5, <1>8 DEF BallsAre, turn, n, fits

\* Once no edge leads out of them, they are all that is reached.
LEMMA BallsStop ==
  ASSUME NEW w, NEW l, NEW ball, BallsAre(ball, w, l), NEW depth0 \in 1 .. Steps,
         Wider(w, l, ball[depth0]) = ball[depth0]
  PROVE  ball[Steps] = ball[depth0]
  <1> DEFINE n == Steps - depth0
             P == {d \in 0 .. n : ball[depth0 + d] = ball[depth0]}
  <1>1. n \in Nat /\ depth0 \in Nat /\ Steps \in Nat /\ Steps = depth0 + n
    BY ActivationConstants
  <1> HIDE DEF n
  <1>2. 0 \in P
    BY <1>1
  <1>3. \A d \in Nat : d < n /\ d \in P => d + 1 \in P
    <2> TAKE d \in Nat
    <2> HAVE d < n /\ d \in P
    <2>1. depth0 + (d + 1) \in 1 .. Steps /\ (depth0 + (d + 1)) - 1 = depth0 + d /\ d + 1 \in 0 .. n
      BY <1>1
    <2>2. ball[depth0 + (d + 1)] = Wider(w, l, ball[depth0 + d])
      BY <2>1 DEF BallsAre
    <2>3. QED
      BY <2>1, <2>2
  <1>4. \A d \in 0 .. n : d \in P
    <2> HIDE DEF P
    <2>1. QED
      BY <1>1, <1>2, <1>3, CountingUp
  <1>5. n \in 0 .. n
    BY <1>1
  <1>6. QED
    BY <1>1, <1>4, <1>5

\* The set that Reached calls its ball.
LEMMA ReachedIsTheBall ==
  ASSUME weight \in Weights
  PROVE  \E ball : Balls(ball, weight, live) /\ Reached = ball[Steps] \ Seeds
  <1> DEFINE is(ball) == ball = [d \in 0 .. Steps |->
                           IF d = 0 THEN Seeds
                           ELSE ball[d - 1] \cup UNION {Range(Outgoing(weight, live, s)) : s \in ball[d - 1]}]
             it == CHOOSE ball : is(ball)
  <1>1. \A ball : is(ball) <=> Balls(ball, weight, live)
    BY DEF Balls, Wider
  <1>2. Reached = it[Steps] \ Seeds
    BY DEF Reached
  <1> HIDE DEF is
  <1>3. is(it)
    BY <1>1, BallsExist
  <1>4. QED
    BY <1>1, <1>2, <1>3

\* Every memory of f is activated, and explained within B.
Spans(f, B) == \A t \in DOMAIN f : f[t].act > 0 /\ Range(f[t].path) \subseteq B

\* The targets of s that are still to be followed.
ToFollow(s) == IF s = source THEN {targets[i].id : i \in DOMAIN targets} ELSE {}

\* A level that leads from the memories of A to those of B: what it has not
\* activated yet is still to be taken or to be followed.
LevelReaches(A, B) ==
  /\ Spans(frontier, A) /\ Spans(next, B)
  /\ DOMAIN next \subseteq DOMAIN acc
  /\ A \ Seeds \subseteq DOMAIN acc /\ DOMAIN acc \subseteq B \ Seeds
  /\ \A s \in A \ DOMAIN frontier : Range(Outgoing(weight, live, s)) \subseteq A
  /\ \A s \in DOMAIN frontier \ todo :
       Range(Outgoing(weight, live, s)) \subseteq A \cup DOMAIN next \cup ToFollow(s)
  /\ source # 0 => \A i \in DOMAIN targets :
       /\ targets[i].id \in Range(Outgoing(weight, live, source))
       /\ targets[i].weight = weight[<<source, targets[i].id>>]

\* A frontier lies within what it spans.
LEMMA SpannedLiesWithin ==
  ASSUME NEW f, Explains(f), NEW B, Spans(f, B)
  PROVE  DOMAIN f \subseteq B
  <1> SUFFICES ASSUME NEW t \in DOMAIN f PROVE t \in B
    OBVIOUS
  <1> DEFINE p == f[t].path
  <1>1. p \in Seq(Node) /\ Len(p) \in Nat /\ Len(p) # 0 /\ p[Len(p)] = t /\ Range(p) \subseteq B
    BY DEF Explains, Leads, Spans
  <1> HIDE DEF p
  <1>2. Len(p) \in DOMAIN p
    BY <1>1
  <1>3. QED
    BY <1>1, <1>2 DEF Range

\* An update activates.
LEMMA UpdateSpans ==
  ASSUME NEW f, Explains(f), NEW B, Spans(f, B), NEW t, NEW gain \in Nat, gain > 0,
         NEW p, Range(p) \subseteq B
  PROVE  Spans(Update(f, t, gain, p), B)
  <1> DEFINE new == [gain |-> gain, path |-> p]
             old == IF t \in DOMAIN f THEN f[t] ELSE [act |-> 0, gain |-> gain, path |-> p]
             kept == [gain |-> old.gain, path |-> old.path]
             best == IF BetterPath(new, old) THEN new ELSE kept
             value == [act |-> AddTo(old.act, gain), gain |-> best.gain, path |-> best.path]
             g == Update(f, t, gain, p)
  <1>1. g = [u \in DOMAIN f \cup {t} |-> IF u = t THEN value ELSE f[u]]
    BY DEF Update
  <1>2. old.act \in Nat /\ Range(old.path) \subseteq B
    BY DEF Explains, Value, Spans
  <1> HIDE DEF old
  <1>3. AddTo(old.act, gain) > 0
    BY <1>2, AddToIsNat
  <1>4. Range(best.path) \subseteq B
    <2>1. best = new \/ best = kept
      OBVIOUS
    <2> HIDE DEF best
    <2>2. QED
      BY <1>2, <2>1
  <1> HIDE DEF best
  <1>5. value.act > 0 /\ Range(value.path) \subseteq B
    BY <1>3, <1>4
  <1> HIDE DEF value, g
  <1>6. DOMAIN g = DOMAIN f \cup {t} /\ \A u \in DOMAIN g : g[u] = IF u = t THEN value ELSE f[u]
    BY <1>1
  <1>7. QED
    BY <1>5, <1>6 DEF Spans, g

\* Where the loop is on its way: what the levels so far reach is activated.
ReachAlong(ball) ==
  \/ depth \in 1 .. Steps /\ LevelReaches(ball[depth - 1], ball[depth])
  \/ depth = 0 /\ source = 0 /\ DOMAIN acc = ball[Steps] \ Seeds

ReachInv ==
  changes = 0 => \A ball : Balls(ball, weight, live) => ReachAlong(ball)

LEMMA ReachInvInit == SpreadInit => ReachInv
  <1> SUFFICES ASSUME SpreadInit, NEW ball, Balls(ball, weight, live) PROVE ReachAlong(ball)
    BY DEF ReachInv
  <1>1. /\ depth = 1 /\ frontier = SeedNodes(Seeds) /\ todo = Seeds /\ source = 0
        /\ next = NoNodes /\ acc = NoNodes
    BY DEF SpreadInit
  <1>2. PathsInv
    BY PathsInvInit
  <1>3. BallsAre(ball, weight, live)
    BY <1>2, BallsFacts DEF PathsInv
  <1>4. 1 \in 1 .. Steps /\ 1 \in 0 .. Steps /\ 1 - 1 = 0
    BY ActivationConstants
  <1>5. ball[0] = Seeds /\ Seeds \subseteq ball[1]
    BY <1>3, <1>4 DEF BallsAre
  <1>6. DOMAIN frontier = Seeds /\ \A s \in Seeds : frontier[s] = [act |-> One, gain |-> One, path |-> <<s>>]
    BY <1>1 DEF SeedNodes
  <1>7. Spans(frontier, Seeds)
    <2> SUFFICES ASSUME NEW s \in Seeds PROVE frontier[s].act > 0 /\ Range(frontier[s].path) \subseteq Seeds
      BY <1>6 DEF Spans
    <2> DEFINE p == <<s>>
    <2>1. frontier[s].act = One /\ frontier[s].path = p /\ One > 0
      BY <1>6, ActivationConstants
    <2>2. Range(p) = {s}
      BY DEF Range
    <2> HIDE DEF p
    <2>3. QED
      BY <2>1, <2>2
  <1>8. DOMAIN NoNodes = {}
    BY DEF NoNodes
  <1>9. Spans(next, ball[1])
    BY <1>1, <1>8 DEF Spans
  <1>10. LevelReaches(ball[0], ball[1])
    BY <1>1, <1>5, <1>6, <1>7, <1>8, <1>9 DEF LevelReaches
  <1>11. QED
    BY <1>1, <1>4, <1>10 DEF ReachAlong

LEMMA TakeSourceReaches ==
  ASSUME PathsInv, NEW A, NEW B, LevelReaches(A, B), NEW s \in Node, TakeSource(s)
  PROVE  LevelReaches(A, B)'
  <1> DEFINE ids == Outgoing(weight, live, s)
             pair(i) == [id |-> ids[i], weight |-> weight[<<s, ids[i]>>]]
  <1>1. /\ source = 0 /\ source' = s /\ todo' = todo \ {s} /\ targets' = [i \in DOMAIN ids |-> pair(i)]
        /\ UNCHANGED <<live, weight, frontier, next, acc>>
    BY DEF TakeSource, graphVars
  <1>2. DOMAIN targets' = DOMAIN ids /\ \A i \in DOMAIN ids : targets'[i] = pair(i)
    BY <1>1
  <1>3. \A i \in DOMAIN ids : pair(i).id = ids[i] /\ pair(i).weight = weight[<<s, ids[i]>>]
    OBVIOUS
  <1> HIDE DEF pair
  <1>4. {targets'[i].id : i \in DOMAIN targets'} = Range(ids)
    BY <1>2, <1>3 DEF Range
  <1>5. ToFollow(s)' = Range(ids)
    BY <1>1, <1>4 DEF ToFollow
  <1>6. \A i \in DOMAIN targets' : /\ targets'[i].id \in Range(ids)
                                   /\ targets'[i].weight = weight[<<s, targets'[i].id>>]
    BY <1>2, <1>3 DEF Range
  <1>7. DOMAIN frontier \subseteq Node /\ 0 \notin Node
    BY SpreadConstants DEF PathsInv, Explains
  <1>8. \A r \in DOMAIN frontier : ToFollow(r) = {}
    BY <1>1, <1>7 DEF ToFollow
  <1>9. \A r \in DOMAIN frontier \ todo' :
          Range(Outgoing(weight, live, r)) \subseteq A \cup DOMAIN next \cup ToFollow(r)'
    <2> TAKE r \in DOMAIN frontier \ todo'
    <2>1. CASE r = s
      BY <1>5, <2>1
    <2>2. CASE r # s
      <3>1. r \in DOMAIN frontier \ todo
        BY <1>1, <2>2
      <3>2. QED
        BY <1>8, <3>1 DEF LevelReaches
    <2>3. QED
      BY <2>1, <2>2
  <1> HIDE DEF ids
  <1>10. \A i \in DOMAIN targets' : /\ targets'[i].id \in Range(Outgoing(weight, live, s))
                                    /\ targets'[i].weight = weight[<<s, targets'[i].id>>]
    BY <1>6 DEF ids
  <1>11. QED
    BY <1>1, <1>9, <1>10 DEF LevelReaches, Spans

LEMMA DropReaches ==
  ASSUME PathsInv, NEW A, NEW B, LevelReaches(A, B), Drop
  PROVE  LevelReaches(A, B)'
  <1>1. /\ source' = 0 /\ targets = <<>>
        /\ UNCHANGED <<live, weight, frontier, next, acc, todo, targets>>
    BY DEF Drop, graphVars
  <1>2. \A r : ToFollow(r) = {}
    BY <1>1 DEF ToFollow
  <1>3. QED
    BY <1>1, <1>2 DEF LevelReaches, Spans

LEMMA FollowReaches ==
  ASSUME PathsInv, NEW A, NEW B, Seeds \subseteq A, A \in SUBSET Node, B = Wider(weight, live, A),
         LevelReaches(A, B), Follow
  PROVE  LevelReaches(A, B)'
  <1> DEFINE n == frontier[source]
             t == Head(targets)
             gain == Propagated(n.act, t.weight, depth, t.id)
             path == Append(n.path, t.id)
             T == [id : Node, weight : Nat]
             out == Range(Outgoing(weight, live, source))
  <1>1. /\ source # 0 /\ targets # <<>> /\ targets' = Tail(targets)
        /\ source' = (IF Len(targets) = 1 THEN 0 ELSE source)
        /\ UNCHANGED <<live, weight, frontier, todo>>
    BY DEF Follow, graphVars
  <1>2. targets \in Seq(T) /\ source \in DOMAIN frontier /\ DOMAIN frontier \subseteq Node
    BY <1>1 DEF PathsInv, Explains
  <1> HIDE DEF T
  <1>3. /\ t \in T /\ Tail(targets) \in Seq(T) /\ 1 \in DOMAIN targets /\ t = targets[1]
        /\ \A i \in DOMAIN Tail(targets) : i + 1 \in DOMAIN targets /\ Tail(targets)[i] = targets[i + 1]
        /\ \A i \in DOMAIN targets : i = 1 \/ (i - 1 \in DOMAIN Tail(targets) /\ Tail(targets)[i - 1] = targets[i])
        /\ Len(targets) = 1 => Tail(targets) = <<>>
    <2>1. Len(targets) \in Nat /\ Len(targets) # 0 /\ DOMAIN targets = 1 .. Len(targets)
      BY <1>1, <1>2, LenProperties
    <2>2. /\ Head(targets) \in T /\ Head(targets) = targets[1]
          /\ Tail(targets) \in Seq(T) /\ Len(Tail(targets)) = Len(targets) - 1
          /\ \A i \in 1 .. Len(Tail(targets)) : Tail(targets)[i] = targets[i + 1]
      BY <1>1, <1>2, <2>1, HeadTailProperties, ElementOfSeq
    <2>3. DOMAIN Tail(targets) = 1 .. Len(targets) - 1
      BY <2>2, LenProperties
    <2>4. Len(targets) = 1 => Tail(targets) = <<>>
      <3> DEFINE rest == Tail(targets)
      <3>1. rest \in Seq(T) /\ (Len(targets) = 1 => Len(rest) = 0)
        BY <2>1, <2>2
      <3> HIDE DEF rest
      <3>2. Len(rest) = 0 => rest = <<>>
        BY <3>1, EmptySeq
      <3>3. QED
        BY <3>1, <3>2 DEF rest
    <2>5. \A i \in DOMAIN targets : i = 1 \/ (i - 1 \in DOMAIN Tail(targets) /\ (i - 1) + 1 = i)
      BY <2>1, <2>3
    <2> HIDE DEF t
    <2>6. QED
      BY <2>1, <2>2, <2>3, <2>4, <2>5 DEF t
  <1>4. t.id \in out /\ t.weight = weight[<<source, t.id>>] /\ source \in Node
    BY <1>1, <1>2, <1>3 DEF LevelReaches
  <1>5. t.id \in Targets(weight, live, source) /\ t.id \in Node
    <2> DEFINE ids == Outgoing(weight, live, source)
    <2>1. \A i \in DOMAIN ids : ids[i] \in Targets(weight, live, source)
      BY <1>4, OutgoingFacts DEF PathsInv
    <2>2. PICK i \in DOMAIN ids : t.id = ids[i]
      BY <1>4 DEF Range
    <2>3. QED
      BY <2>1, <2>2 DEF Targets
  <1>6. t.id \in live /\ t.weight \in Nat /\ t.weight > 0
    <2>1. weight[<<source, t.id>>] \in Nat
      BY <1>4, <1>5, WeightIsNat DEF PathsInv
    <2>2. QED
      BY <1>4, <1>5, <2>1 DEF Targets
  <1>7. Explains(acc) /\ Explains(next) /\ Explains(frontier)
    BY DEF PathsInv
  <1>8. n.act \in Nat /\ n.act > 0 /\ n.path \in Seq(Node) /\ Range(n.path) \subseteq A
    BY <1>2, <1>7 DEF Explains, Value, LevelReaches, Spans
  <1>9. gain \in Nat /\ gain > 0
    BY <1>5, <1>6, <1>8, PropagatedIsNat
  <1>10. source \in A
    BY <1>2, <1>7, SpannedLiesWithin DEF LevelReaches
  <1>11. t.id \in B /\ A \subseteq B
    BY <1>4, <1>10 DEF Wider
  <1>12. Range(path) \subseteq B
    <2> DEFINE p == n.path
               x == t.id
    <2>1. p \in Seq(Node) /\ x \in Node /\ Range(p) \subseteq A
      BY <1>5, <1>8
    <2>2. path = Append(p, x)
      OBVIOUS
    <2> HIDE DEF p, x, path
    <2>3. /\ Len(p) \in Nat /\ DOMAIN p = 1 .. Len(p) /\ DOMAIN path = 1 .. Len(p) + 1
          /\ \A i \in 1 .. Len(p) : path[i] = p[i]
          /\ path[Len(p) + 1] = x
      BY <2>1, <2>2, AppendProperties, LenProperties
    <2>4. \A i \in DOMAIN path : i = Len(p) + 1 \/ i \in DOMAIN p
      BY <2>3
    <2>5. \A i \in DOMAIN path : path[i] = x \/ path[i] \in Range(p)
      BY <2>3, <2>4 DEF Range
    <2>6. x \in B
      BY <1>11 DEF x
    <2>7. QED
      BY <1>11, <2>1, <2>5, <2>6 DEF Range
  <1>13. \/ /\ acc' = Update(acc, t.id, gain, path) /\ next' = Update(next, t.id, gain, path)
            /\ t.id \notin Seeds
         \/ UNCHANGED <<acc, next>> /\ t.id \in A
    <2>1. CASE t.id \notin Seeds /\ t.id \notin Range(n.path)
      BY <1>6, <1>9, <2>1 DEF Follow
    <2>2. CASE t.id \in Seeds \/ t.id \in Range(n.path)
      BY <1>8, <2>2 DEF Follow
    <2>3. QED
      BY <2>1, <2>2
  <1> HIDE DEF gain, path
  <1>14. Spans(next, B) /\ DOMAIN next \subseteq DOMAIN acc
    BY DEF LevelReaches
  <1>15. DOMAIN acc \subseteq B \ Seeds /\ A \ Seeds \subseteq DOMAIN acc
    BY DEF LevelReaches
  <1>16. /\ Spans(next', B) /\ DOMAIN next' \subseteq DOMAIN acc' /\ A \ Seeds \subseteq DOMAIN acc'
         /\ DOMAIN acc' \subseteq B \ Seeds /\ DOMAIN next \subseteq DOMAIN next'
         /\ t.id \in A \cup DOMAIN next'
    <2>1. CASE /\ acc' = Update(acc, t.id, gain, path) /\ next' = Update(next, t.id, gain, path)
               /\ t.id \notin Seeds
      <3> DEFINE x == t.id
      <3> HIDE DEF x, n, t, out
      <3>1. Spans(Update(next, x, gain, path), B)
        BY <1>7, <1>9, <1>12, <1>14, UpdateSpans
      <3>2. /\ DOMAIN Update(next, x, gain, path) = DOMAIN next \cup {x}
            /\ DOMAIN Update(acc, x, gain, path) = DOMAIN acc \cup {x}
        BY DEF Update
      <3>3. x \notin Seeds /\ x \in B
        BY <1>11, <2>1 DEF x
      <3>4. acc' = Update(acc, x, gain, path) /\ next' = Update(next, x, gain, path)
        BY <2>1 DEF x
      <3>5. QED
        BY <1>14, <1>15, <3>1, <3>2, <3>3, <3>4 DEF x
    <2>2. CASE UNCHANGED <<acc, next>> /\ t.id \in A
      BY <1>14, <1>15, <2>2
    <2>3. QED
      BY <1>13, <2>1, <2>2
  <1> PICK from : from = source
    OBVIOUS
  <1>17. \A i \in DOMAIN targets : targets[i].id = t.id \/ targets[i].id \in ToFollow(from)'
    <2> TAKE i \in DOMAIN targets
    <2>1. CASE i = 1
      BY <1>3, <2>1
    <2>2. CASE i # 1
      <3>1. i - 1 \in DOMAIN targets' /\ targets'[i - 1] = targets[i]
        BY <1>1, <1>3, <2>2
      <3>2. source' = source
        BY <1>1, <1>3, <3>1
      <3>3. QED
        BY <3>1, <3>2 DEF ToFollow
    <2>3. QED
      BY <2>1, <2>2
  <1>18. \A r \in DOMAIN frontier \ todo :
           Range(Outgoing(weight, live, r)) \subseteq A \cup DOMAIN next' \cup ToFollow(r)'
    <2> TAKE r \in DOMAIN frontier \ todo
    <2>1. Range(Outgoing(weight, live, r)) \subseteq A \cup DOMAIN next \cup ToFollow(r)
      BY DEF LevelReaches
    <2>2. ToFollow(r) \subseteq {t.id} \cup ToFollow(r)'
      <3>1. CASE r = source
        <4>1. ToFollow(r) = {targets[i].id : i \in DOMAIN targets}
          BY <3>1 DEF ToFollow
        <4>2. QED
          BY <1>17, <3>1, <4>1
      <3>2. CASE r # source
        BY <3>2 DEF ToFollow
      <3>3. QED
        BY <3>1, <3>2
    <2>3. QED
      BY <1>16, <2>1, <2>2
  <1>19. \A i \in DOMAIN targets' : /\ targets'[i].id \in out
                                    /\ targets'[i].weight = weight[<<source, targets'[i].id>>]
    <2> TAKE i \in DOMAIN targets'
    <2>1. i + 1 \in DOMAIN targets /\ targets'[i] = targets[i + 1]
      BY <1>1, <1>3
    <2>2. QED
      BY <1>1, <2>1 DEF LevelReaches
  <1>20. source' # 0 => \A i \in DOMAIN targets' :
            /\ targets'[i].id \in Range(Outgoing(weight', live', source'))
            /\ targets'[i].weight = weight'[<<source', targets'[i].id>>]
    BY <1>1, <1>19
  <1>21. \A s \in DOMAIN frontier' \ todo' :
       Range(Outgoing(weight', live', s)) \subseteq A \cup DOMAIN next' \cup ToFollow(s)'
    BY <1>1, <1>18
  <1>22. /\ Spans(frontier, A)'
         /\ \A s \in A \ DOMAIN frontier' : Range(Outgoing(weight', live', s)) \subseteq A
    BY <1>1 DEF LevelReaches, Spans
  <1>23. Spans(next, B)'
    BY <1>16 DEF Spans
  <1>24. QED
    BY <1>16, <1>20, <1>21, <1>22, <1>23 DEF LevelReaches

\* When a level is over, everything within reach of it is activated, and
\* what it has activated first is the next one.
LEMMA LevelIsOver ==
  ASSUME PathsInv, NEW A, NEW B, Seeds \subseteq A, B = Wider(weight, live, A), LevelReaches(A, B),
         source = 0, todo = {}
  PROVE  /\ DOMAIN acc = B \ Seeds
         /\ B \subseteq A \cup DOMAIN next
         /\ \A s \in B \ DOMAIN next : Range(Outgoing(weight, live, s)) \subseteq B
  <1>1. DOMAIN frontier \subseteq Node /\ 0 \notin Node
    BY SpreadConstants DEF PathsInv, Explains
  <1>2. \A s \in DOMAIN frontier : ToFollow(s) = {}
    BY <1>1 DEF ToFollow
  <1>3. \A s \in A : Range(Outgoing(weight, live, s)) \subseteq A \cup DOMAIN next
    BY <1>2 DEF LevelReaches
  <1>4. B \subseteq A \cup DOMAIN next
    BY <1>3 DEF Wider
  <1>5. DOMAIN acc = B \ Seeds
    BY <1>4 DEF LevelReaches
  <1>6. \A s \in A : Range(Outgoing(weight, live, s)) \subseteq B
    BY DEF Wider
  <1>7. QED
    BY <1>4, <1>5, <1>6

LEMMA NextLevelReaches ==
  ASSUME PathsInv, NEW ball, BallsAre(ball, weight, live), ReachAlong(ball), NextLevel
  PROVE  ReachAlong(ball)'
  <1> DEFINE A == ball[depth - 1]
             B == ball[depth]
  <1>1. /\ depth \in 1 .. Steps /\ LevelReaches(A, B) /\ source = 0 /\ todo = {} /\ next' = NoNodes
        /\ UNCHANGED <<live, weight, source, targets, acc>>
    <2>1. depth # 0 /\ source = 0 /\ todo = {} /\ next' = NoNodes
          /\ UNCHANGED <<live, weight, source, targets, acc>>
      <3>1. depth > 0 => depth # 0
        OBVIOUS
      <3>2. QED
        BY <3>1 DEF NextLevel, graphVars
    <2>2. QED
      BY <2>1 DEF ReachAlong
  <1>2. depth \in Nat /\ Steps \in Nat /\ depth \in 0 .. Steps /\ depth - 1 \in 0 .. Steps
    BY <1>1, ActivationConstants
  <1>3. Seeds \subseteq A /\ B = Wider(weight, live, A)
    BY <1>1, <1>2 DEF BallsAre
  <1> HIDE DEF A, B
  <1>4. /\ DOMAIN acc = B \ Seeds
        /\ B \subseteq A \cup DOMAIN next
        /\ \A s \in B \ DOMAIN next : Range(Outgoing(weight, live, s)) \subseteq B
    BY <1>1, <1>3, LevelIsOver
  <1>5. DOMAIN NoNodes = {}
    BY DEF NoNodes
  <1>6. CASE next = NoNodes \/ depth = Steps
    <2>1. depth' = 0
      BY <1>6 DEF NextLevel
    <2>2. ball[Steps] = B
      <3>1. CASE depth = Steps
        BY <3>1 DEF B
      <3>2. CASE next = NoNodes
        <4>1. Wider(weight, live, B) = B
          BY <1>4, <1>5, <3>2 DEF Wider
        <4>2. QED
          BY <1>1, <4>1, BallsStop DEF B
      <3>3. QED
        BY <1>6, <3>1, <3>2
    <2>3. QED
      BY <1>1, <1>4, <2>1, <2>2 DEF ReachAlong
  <1>7. CASE ~(next = NoNodes \/ depth = Steps)
    <2>1. depth' = depth + 1 /\ frontier' = next /\ todo' = DOMAIN next
      BY <1>7 DEF NextLevel
    <2>2. depth' \in 1 .. Steps /\ depth' - 1 = depth /\ depth' \in 0 .. Steps
      BY <1>2, <1>7, <2>1
    <2> PICK C : C = ball[depth']
      OBVIOUS
    <2> PICK D : D = B
      OBVIOUS
    <2>3. C = Wider(weight, live, B)
      BY <2>2 DEF BallsAre, B
    <2>4. B \subseteq C
      BY <2>3 DEF Wider
    <2>5. /\ Spans(frontier', B) /\ Spans(next', C)
          /\ DOMAIN next' \subseteq DOMAIN acc'
          /\ B \ Seeds \subseteq DOMAIN acc' /\ DOMAIN acc' \subseteq C \ Seeds
      BY <1>1, <1>4, <1>5, <2>1, <2>4 DEF LevelReaches, Spans
    <2>6. /\ \A s \in B \ DOMAIN frontier' : Range(Outgoing(weight', live', s)) \subseteq B
          /\ DOMAIN frontier' \ todo' = {} /\ source' = 0
      BY <1>1, <1>4, <2>1
    <2>7. LevelReaches(D, C)'
      BY <2>5, <2>6 DEF LevelReaches, Spans
    <2>8. ball[depth' - 1] = D
      BY <2>2 DEF B
    <2>9. QED
      BY <2>2, <2>7, <2>8 DEF ReachAlong
  <1>8. QED
    BY <1>6, <1>7

LEMMA ReachInvStep == PathsInv /\ ReachInv /\ [SpreadNext]_spreadVars => ReachInv'
  <1> SUFFICES ASSUME PathsInv, ReachInv, [SpreadNext]_spreadVars, changes' = 0,
                      NEW ball, Balls(ball, weight', live')
               PROVE  ReachAlong(ball)'
    BY DEF ReachInv
  <1>1. CASE OthersMeanwhile
    <2>1. changes \in Nat /\ changes' = changes + 1
      BY <1>1 DEF OthersMeanwhile, ByOthers, PathsInv
    <2>2. QED
      BY <2>1
  <1>2. CASE ~OthersMeanwhile
    <2>1. live' = live /\ weight' = weight /\ changes = 0
      BY <1>2 DEF SpreadNext, TakeSource, Collect, Follow, Drop, NextLevel, spreadVars, graphVars
    <2>2. ReachAlong(ball)
      BY <2>1 DEF ReachInv
    <2>3. BallsAre(ball, weight, live)
      BY <2>1, BallsFacts DEF PathsInv
    <2> PICK A : A = ball[depth - 1]
      OBVIOUS
    <2> PICK B : B = ball[depth]
      OBVIOUS
    <2>4. depth \in 1 .. Steps => Seeds \subseteq A /\ A \in SUBSET Node /\ B = Wider(weight, live, A)
      <3> SUFFICES ASSUME depth \in 1 .. Steps
                   PROVE  Seeds \subseteq A /\ A \in SUBSET Node /\ B = Wider(weight, live, A)
        OBVIOUS
      <3>1. depth - 1 \in 0 .. Steps
        BY ActivationConstants
      <3>2. QED
        BY <2>3, <3>1 DEF BallsAre
    <2>5. CASE NextLevel
      BY <2>2, <2>3, <2>5, NextLevelReaches
    <2>6. ASSUME depth' = depth, depth \in 1 .. Steps => LevelReaches(A, B)',
                 depth = 0 => UNCHANGED <<source, acc>>
          PROVE  ReachAlong(ball)'
      BY <2>2, <2>6 DEF ReachAlong
    <2>7. depth \in 1 .. Steps => LevelReaches(A, B)
      BY <2>2 DEF ReachAlong
    <2>8. CASE \E s \in Node : TakeSource(s)
      <3>1. PICK s \in Node : TakeSource(s)
        BY <2>8
      <3>2. depth' = depth /\ depth # 0
        BY <3>1 DEF TakeSource
      <3>3. QED
        BY <2>6, <2>7, <3>1, <3>2, TakeSourceReaches
    <2>9. CASE Follow
      <3>1. depth' = depth /\ source # 0
        BY <2>9 DEF Follow
      <3>2. depth # 0
        BY <2>2, <3>1 DEF ReachAlong
      <3>3. QED
        BY <2>4, <2>6, <2>7, <2>9, <3>1, <3>2, FollowReaches
    <2>10. CASE Drop
      <3>1. depth' = depth /\ source # 0
        BY <2>10 DEF Drop
      <3>2. depth # 0
        BY <2>2, <3>1 DEF ReachAlong
      <3>3. QED
        BY <2>6, <2>7, <2>10, <3>1, <3>2, DropReaches
    <2>11. CASE (\E s \in Node : Collect(s)) \/ UNCHANGED spreadVars
      <3>1. UNCHANGED <<live, weight, depth, frontier, todo, source, targets, next, acc>>
        BY <2>11 DEF Collect, spreadVars, graphVars, loopVars
      <3>2. LevelReaches(A, B) => LevelReaches(A, B)'
        BY <3>1 DEF LevelReaches, Spans, ToFollow
      <3>3. QED
        BY <2>6, <2>7, <3>1, <3>2
    <2>12. QED
      BY <1>2, <2>5, <2>8, <2>9, <2>10, <2>11 DEF SpreadNext
  <1>3. QED
    BY <1>1, <1>2

\* Which memories are activated does not depend on the order in which the
\* hash maps hand out their members, nor on what the sums are rounded to:
\* on a store nobody changes they are those within Steps followed edges of a
\* seed, for every graph and every number of levels.  It is one half of
\* OrderHardlyShows: that an edge which is not followed back never hides a
\* memory that nothing else leads to.
THEOREM SpreadingActivatesTheReached == SpreadSpec => []ReachDecides
  <1>1. SpreadInit => PathsInv /\ ReachInv
    BY PathsInvInit, ReachInvInit
  <1>2. PathsInv /\ ReachInv /\ [SpreadNext]_spreadVars => PathsInv' /\ ReachInv'
    BY PathsInvStep, ReachInvStep
  <1>3. PathsInv /\ ReachInv => ReachDecides
    <2> SUFFICES ASSUME PathsInv, ReachInv, depth = 0, changes = 0 PROVE DOMAIN acc = Reached
      BY DEF ReachDecides, SpreadDone
    <2>1. PICK ball : Balls(ball, weight, live) /\ Reached = ball[Steps] \ Seeds
      BY ReachedIsTheBall DEF PathsInv
    <2>2. ReachAlong(ball)
      BY <2>1 DEF ReachInv
    <2>3. QED
      BY <2>1, <2>2 DEF ReachAlong
  <1>4. QED
    BY <1>1, <1>2, <1>3, PTL DEF SpreadSpec

-----------------------------------------------------------------------------
(* Explanations: one of several is the best.                               *)

\* A path that comes before another of its length.
Precedes(p, q, n) == \E i \in 1 .. n : p[i] < q[i] /\ \A j \in 1 .. i - 1 : p[j] = q[j]

LEMMA PathFacts ==
  ASSUME NEW p \in Seq(Node)
  PROVE  Len(p) \in Nat /\ DOMAIN p = 1 .. Len(p) /\ \A i \in 1 .. Len(p) : p[i] \in Node /\ p[i] \in Nat
  <1>1. Len(p) \in Nat /\ DOMAIN p = 1 .. Len(p) /\ \A i \in 1 .. Len(p) : p[i] \in Node
    BY LenProperties, ElementOfSeq
  <1>2. QED
    BY <1>1, ActivationConstants

LEMMA PathLessAtLength ==
  ASSUME NEW p \in Seq(Node), NEW q \in Seq(Node), Len(p) = Len(q)
  PROVE  PathLess(p, q) <=> Precedes(p, q, Len(p))
  <1> DEFINE n == Len(p)
  <1>1. n \in Nat /\ DOMAIN p = 1 .. n /\ DOMAIN q = 1 .. n /\ Len(q) = n
    BY PathFacts
  <1> HIDE DEF n
  <1>2. DOMAIN p \cap DOMAIN q = 1 .. n /\ ~(Len(p) < Len(q))
    BY <1>1 DEF n
  <1>3. PathLess(p, q) <=> Precedes(p, q, n)
    BY <1>2 DEF PathLess, Precedes
  <1>4. QED
    BY <1>3 DEF n

\* The paths of one length are in an order.
LEMMA PrecedesIsAnOrder ==
  ASSUME NEW n \in Nat, NEW p \in Seq(Node), NEW q \in Seq(Node), NEW r \in Seq(Node),
         Len(p) = n, Len(q) = n, Len(r) = n
  PROVE  /\ ~Precedes(p, p, n)
         /\ Precedes(p, q, n) /\ Precedes(q, r, n) => Precedes(p, r, n)
         /\ p = q \/ Precedes(p, q, n) \/ Precedes(q, p, n)
  <1>1. \A i \in 1 .. n : p[i] \in Nat /\ q[i] \in Nat /\ r[i] \in Nat
    BY PathFacts
  <1>2. ~Precedes(p, p, n)
    BY <1>1 DEF Precedes
  <1>3. ASSUME Precedes(p, q, n), Precedes(q, r, n) PROVE Precedes(p, r, n)
    <2>1. PICK i \in 1 .. n : p[i] < q[i] /\ \A j \in 1 .. i - 1 : p[j] = q[j]
      BY <1>3 DEF Precedes
    <2>2. PICK k \in 1 .. n : q[k] < r[k] /\ \A j \in 1 .. k - 1 : q[j] = r[j]
      BY <1>3 DEF Precedes
    <2>3. CASE i <= k
      <3>1. \A j \in 1 .. i - 1 : j \in 1 .. k - 1
        BY <2>3
      <3>2. \A j \in 1 .. i - 1 : p[j] = r[j]
        BY <2>1, <2>2, <3>1
      <3>3. p[i] < r[i]
        <4>1. i = k \/ i \in 1 .. k - 1
          BY <2>3
        <4>2. CASE i = k
          BY <1>1, <2>1, <2>2, <4>2
        <4>3. CASE i \in 1 .. k - 1
          BY <1>1, <2>1, <2>2, <4>3
        <4>4. QED
          BY <4>1, <4>2, <4>3
      <3>4. QED
        BY <3>2, <3>3 DEF Precedes
    <2>4. CASE k < i
      <3>1. k \in 1 .. i - 1 /\ \A j \in 1 .. k - 1 : j \in 1 .. i - 1
        BY <2>4
      <3>2. p[k] < r[k] /\ \A j \in 1 .. k - 1 : p[j] = r[j]
        BY <1>1, <2>1, <2>2, <3>1
      <3>3. QED
        BY <3>2 DEF Precedes
    <2>5. QED
      BY <2>3, <2>4
  <1>4. ASSUME p # q PROVE Precedes(p, q, n) \/ Precedes(q, p, n)
    <2> DEFINE D == {i \in 1 .. n : p[i] # q[i]}
    <2>1. D # {}
      <3>1. p = [i \in 1 .. n |-> p[i]] /\ q = [i \in 1 .. n |-> q[i]]
        <4>1. DOMAIN p = 1 .. n /\ DOMAIN q = 1 .. n
          BY PathFacts
        <4>2. QED
          BY <4>1
      <3>2. QED
        BY <1>4, <3>1
    <2>2. D \in SUBSET Nat
      OBVIOUS
    <2>3. \A j \in 1 .. n : j \in D \/ p[j] = q[j]
      OBVIOUS
    <2> HIDE DEF D
    <2>4. PICK i \in D : \A j \in D : i <= j
      BY <2>1, <2>2, LeastNumber
    <2>5. i \in 1 .. n /\ p[i] # q[i]
      BY <2>4 DEF D
    <2>6. \A j \in 1 .. i - 1 : j \in 1 .. n /\ ~(i <= j)
      BY <2>5
    <2>7. \A j \in 1 .. i - 1 : p[j] = q[j]
      BY <2>3, <2>4, <2>6
    <2>8. p[i] < q[i] \/ q[i] < p[i]
      BY <1>1, <2>5
    <2>9. QED
      BY <2>5, <2>7, <2>8 DEF Precedes
  <1>5. QED
    BY <1>2, <1>3, <1>4

\* What from passes on to to, in the reference.
IsGain(g) ==
  /\ g \in [to : Node, from : Node, gain : Nat, path : Seq(Node)] /\ g.gain # 0
  /\ Len(g.path) \in Nat /\ Len(g.path) > 1
  /\ g.path[Len(g.path)] = g.to /\ g.path[Len(g.path) - 1] = g.from

GainSet(S) == IsFiniteSet(S) /\ \A g \in S : IsGain(g)

\* Two gains of the same size over the same path are one.
LEMMA SameGain ==
  ASSUME NEW g, NEW h, IsGain(g), IsGain(h), g.gain = h.gain, g.path = h.path
  PROVE  g = h
  <1>1. g.to = h.to /\ g.from = h.from
    BY DEF IsGain
  <1>2. QED
    BY <1>1 DEF IsGain

\* The better one of two.
Better(S) == {e \in S \X S : BetterPath(e[1], e[2])}

\* Without the paths: the better one of two explanations, by their gain, then
\* their length, then a third order.
BetterBy(g, h, less) ==
  \/ g.gain > h.gain
  \/ g.gain = h.gain /\ Len(g.path) < Len(h.path)
  \/ g.gain = h.gain /\ Len(g.path) = Len(h.path) /\ less

LEMMA BetterIsBy ==
  ASSUME NEW g, NEW h, IsGain(g), IsGain(h)
  PROVE  BetterPath(g, h) <=> BetterBy(g, h, Precedes(g.path, h.path, Len(g.path)))
  <1>1. g.path \in Seq(Node) /\ h.path \in Seq(Node)
    BY DEF IsGain
  <1>2. Len(g.path) = Len(h.path) => (PathLess(g.path, h.path) <=> Precedes(g.path, h.path, Len(g.path)))
    BY <1>1, PathLessAtLength
  <1>3. QED
    BY <1>2 DEF BetterPath, BetterBy

LEMMA BetterOrders ==
  ASSUME NEW S, \A g \in S : IsGain(g)
  PROVE  Orders(Better(S), S)
  <1> DEFINE less(g, h) == Precedes(g.path, h.path, Len(g.path))
  <1>1. \A g \in S : g.path \in Seq(Node) /\ g.gain \in Nat /\ Len(g.path) \in Nat
    BY DEF IsGain
  <1>2. \A g, h \in S : <<g, h>> \in Better(S) <=> BetterBy(g, h, less(g, h))
    BY BetterIsBy DEF Better
  <1>3. \A g \in S : ~less(g, g)
    BY <1>1, PrecedesIsAnOrder
  <1>4. \A f, g, h \in S : Len(f.path) = Len(g.path) /\ Len(g.path) = Len(h.path) /\ less(f, g) /\ less(g, h)
                           => less(f, h)
    BY <1>1, PrecedesIsAnOrder
  <1>5. \A g, h \in S : Len(g.path) = Len(h.path) => g.path = h.path \/ less(g, h) \/ less(h, g)
    BY <1>1, PrecedesIsAnOrder
  <1>6. \A g, h \in S : g.gain = h.gain /\ g.path = h.path => g = h
    BY SameGain
  <1> HIDE DEF less
  <1>7. \A g \in S : <<g, g>> \notin Better(S)
    BY <1>1, <1>2, <1>3 DEF BetterBy
  <1>8. \A f, g, h \in S : <<f, g>> \in Better(S) /\ <<g, h>> \in Better(S) => <<f, h>> \in Better(S)
    <2> TAKE f, g, h \in S
    <2>1. /\ f.gain \in Nat /\ g.gain \in Nat /\ h.gain \in Nat
          /\ Len(f.path) \in Nat /\ Len(g.path) \in Nat /\ Len(h.path) \in Nat
      BY <1>1
    <2>2. Len(f.path) = Len(g.path) /\ Len(g.path) = Len(h.path) /\ less(f, g) /\ less(g, h) => less(f, h)
      BY <1>4
    <2>3. BetterBy(f, g, less(f, g)) /\ BetterBy(g, h, less(g, h)) => BetterBy(f, h, less(f, h))
      BY <2>1, <2>2 DEF BetterBy
    <2>4. QED
      BY <1>2, <2>3
  <1>9. \A g, h \in S : g = h \/ <<g, h>> \in Better(S) \/ <<h, g>> \in Better(S)
    <2> TAKE g, h \in S
    <2>1. g.gain \in Nat /\ h.gain \in Nat /\ Len(g.path) \in Nat /\ Len(h.path) \in Nat
      BY <1>1
    <2>2. Len(g.path) = Len(h.path) /\ g.gain = h.gain => g = h \/ less(g, h) \/ less(h, g)
      BY <1>5, <1>6
    <2>3. g = h \/ BetterBy(g, h, less(g, h)) \/ BetterBy(h, g, less(h, g))
      BY <2>1, <2>2 DEF BetterBy
    <2>4. QED
      BY <1>2, <2>3
  <1>10. QED
    BY <1>7, <1>8, <1>9 DEF Orders

\* The best of some explanations is better than each other, and the only one
\* that is.
LEMMA BestIsFirst ==
  ASSUME NEW S, GainSet(S), S # {}
  PROVE  /\ BestOf(S) \in S
         /\ \A h \in S \ {BestOf(S)} : BetterPath(BestOf(S), h)
         /\ \A g \in S : (\A h \in S \ {g} : BetterPath(g, h)) => g = BestOf(S)
  <1> DEFINE strong == {g \in S : \A h \in S : g.gain >= h.gain}
             short  == {g \in strong : \A h \in strong : Len(g.path) <= Len(h.path)}
             first(g) == \A h \in short \ {g} : PathLess(g.path, h.path)
  <1>1. IsFiniteSet(S) /\ \A g \in S : IsGain(g)
    BY DEF GainSet
  <1>2. \A g \in S : g.gain \in Nat /\ Len(g.path) \in Nat
    BY <1>1 DEF IsGain
  <1>3. PICK b \in S : /\ \A h \in S \ {b} : <<b, h>> \in Better(S)
                       /\ \A g \in S : (\A h \in S \ {g} : <<g, h>> \in Better(S)) => g = b
    <2>1. Orders(Better(S), S)
      BY <1>1, BetterOrders
    <2> DEFINE before == Better(S)
    <2> HIDE DEF before
    <2>2. Orders(before, S)
      BY <2>1 DEF before
    <2>3. \E x \in S : /\ \A y \in S \ {x} : <<x, y>> \in before
                       /\ \A z \in S : (\A y \in S \ {z} : <<z, y>> \in before) => z = x
      BY <1>1, <2>2, FirstInOrder
    <2>4. QED
      BY <2>3 DEF before
  <1>4. \A g, h \in S : <<g, h>> \in Better(S) <=> BetterPath(g, h)
    BY DEF Better
  <1>5. \A h \in S \ {b} : BetterPath(b, h)
    BY <1>3, <1>4
  <1>6. b \in strong
    BY <1>2, <1>5 DEF BetterPath
  <1>7. \A h \in strong : h.gain = b.gain /\ h \in S
    BY <1>2, <1>6
  <1>8. b \in short
    BY <1>2, <1>5, <1>6, <1>7 DEF BetterPath
  <1>9. \A h \in short : Len(h.path) = Len(b.path) /\ h.gain = b.gain /\ h \in S
    BY <1>2, <1>7, <1>8
  <1>10. first(b)
    BY <1>2, <1>5, <1>8, <1>9 DEF BetterPath
  <1>11. ASSUME NEW g \in short, first(g) PROVE g = b
    <2> SUFFICES ASSUME g # b PROVE FALSE
      OBVIOUS
    <2>1. PathLess(g.path, b.path) /\ PathLess(b.path, g.path)
      BY <1>8, <1>10, <1>11
    <2>2. BetterPath(g, b) /\ BetterPath(b, g)
      BY <1>9, <2>1 DEF BetterPath
    <2>3. g \in S
      BY <1>9
    <2>4. Orders(Better(S), S)
      BY <1>1, BetterOrders
    <2>5. QED
      BY <1>4, <2>2, <2>3, <2>4 DEF Orders
  <1>12. BestOf(S) = CHOOSE g \in short : first(g)
    BY DEF BestOf
  <1> HIDE DEF short, first
  <1>13. BestOf(S) = b
    BY <1>8, <1>10, <1>11, <1>12
  <1>14. QED
    BY <1>3, <1>4, <1>5, <1>13

-----------------------------------------------------------------------------
(* Explained: what several gains add up to.                                *)

\* Numbers from 0 on add up to one.
LEMMA SumIsNat ==
  ASSUME NEW S, IsFiniteSet(S), NEW f, \A x \in S : f[x] \in Nat
  PROVE  /\ SumFunctionOnSet(f, S) \in Nat
         /\ \A x \in S : SumFunctionOnSet(f, S) >= f[x]
  <1> DEFINE sum(s) == SumFunctionOnSet(f, s)
             P == {s \in SUBSET S : sum(s) \in Nat}
  <1>1. ASSUME NEW s \in SUBSET S
        PROVE  /\ sum(s) \in Int /\ sum({}) = 0
               /\ \A x \in s : sum(s) = f[x] + sum(s \ {x})
    <2>1. IsFiniteSet(s) /\ \A x \in s : f[x] \in Int
      BY FS_Subset
    <2>2. QED
      BY <2>1, SumFromAny
  <1> HIDE DEF sum
  <1>2. ASSUME NEW s \in SUBSET S, \A t \in SUBSET s : t # s => t \in P
        PROVE  s \in P
    <2>1. CASE s = {}
      BY <1>1, <2>1
    <2>2. CASE s # {}
      <3>1. PICK x \in s : TRUE
        BY <2>2
      <3>2. s \ {x} \in SUBSET s /\ s \ {x} # s
        BY <3>1
      <3>3. sum(s \ {x}) \in Nat
        BY <1>2, <3>2
      <3>4. f[x] \in Nat /\ sum(s) = f[x] + sum(s \ {x})
        BY <1>1, <3>1
      <3>5. QED
        BY <3>3, <3>4
    <2>3. QED
      BY <2>1, <2>2
  <1>3. \A s \in SUBSET S : s \in P
    <2> HIDE DEF P
    <2>1. QED
      BY <1>2, SubsetInduction
  <1>4. sum(S) \in Nat
    BY <1>3
  <1>5. \A x \in S : sum(S) >= f[x]
    <2> TAKE x \in S
    <2>1. sum(S \ {x}) \in Nat /\ f[x] \in Nat
      BY <1>3
    <2>2. sum(S) = f[x] + sum(S \ {x})
      BY <1>1
    <2>3. QED
      BY <2>1, <2>2
  <1>6. QED
    BY <1>4, <1>5 DEF sum

\* The gains of one memory, and their sum.
Mine(S, t) == {g \in S : g.to = t}

GainOf(S) == [g \in S |-> g.gain]

Gained(S) == SumFunctionOnSet(GainOf(S), S)

LEMMA ExplainedIs ==
  ASSUME NEW S
  PROVE  Explained(S) =
           [t \in {g.to : g \in S} |->
              [act |-> Min({Cap, Gained(Mine(S, t))}),
               gain |-> BestOf(Mine(S, t)).gain, path |-> BestOf(Mine(S, t)).path]]
  BY DEF Explained, Mine, Gained, GainOf

LEMMA GainedFacts ==
  ASSUME NEW S, GainSet(S)
  PROVE  /\ Gained(S) \in Nat
         /\ (S # {} => Gained(S) # 0)
         /\ \A g \in S : Gained(S) = g.gain + Gained(S \ {g})
  <1> DEFINE f == GainOf(S)
  <1>1. IsFiniteSet(S) /\ \A g \in S : f[g] = g.gain /\ f[g] \in Nat /\ f[g] # 0 /\ f[g] \in Int
    BY DEF GainSet, IsGain, GainOf
  <1> HIDE DEF f
  <1>2. /\ SumFunctionOnSet(f, S) \in Nat
        /\ \A g \in S : SumFunctionOnSet(f, S) >= f[g]
    BY <1>1, SumIsNat
  <1>3. \A g \in S : SumFunctionOnSet(f, S) = f[g] + SumFunctionOnSet(f, S \ {g})
    BY <1>1, SumFromAny
  <1>4. ASSUME NEW g \in S
        PROVE  SumFunctionOnSet(f, S \ {g}) = SumFunctionOnSet(GainOf(S \ {g}), S \ {g})
    <2> DEFINE R == S \ {g}
               h == GainOf(R)
    <2>1. IsFiniteSet(R)
      BY <1>1, FS_Subset
    <2>2. \A x \in R : f[x] = h[x]
      BY DEF f, GainOf
    <2> HIDE DEF R, h
    <2>3. SumFunctionOnSet(f, R) = SumFunctionOnSet(h, R)
      BY <2>1, <2>2, SumOfEqual
    <2>4. QED
      BY <2>3 DEF R, h
  <1>5. S # {} => SumFunctionOnSet(f, S) # 0
    BY <1>1, <1>2
  <1>6. QED
    BY <1>1, <1>2, <1>3, <1>4, <1>5 DEF Gained, f

\* What an explained activation is.
LEMMA ExplainedFacts ==
  ASSUME NEW S, GainSet(S)
  PROVE  LET f == Explained(S) IN
           /\ DOMAIN f = {g.to : g \in S} /\ DOMAIN f \subseteq Node
           /\ \A t \in DOMAIN f : /\ f[t] \in Value /\ f[t].act # 0
                                  /\ f[t].act = Min({Cap, Gained(Mine(S, t))})
                                  /\ \E g \in S : g.to = t /\ f[t].gain = g.gain /\ f[t].path = g.path
  <1> DEFINE f == Explained(S)
             T == {g.to : g \in S}
             value(t) == [act |-> Min({Cap, Gained(Mine(S, t))}),
                          gain |-> BestOf(Mine(S, t)).gain, path |-> BestOf(Mine(S, t)).path]
  <1>1. DOMAIN f = T /\ \A t \in T : f[t] = value(t)
    BY ExplainedIs
  <1>2. T \subseteq Node
    BY DEF GainSet, IsGain
  <1>3. ASSUME NEW t \in T
        PROVE  /\ value(t) \in Value /\ value(t).act # 0
               /\ \E g \in S : g.to = t /\ value(t).gain = g.gain /\ value(t).path = g.path
    <2> DEFINE M == Mine(S, t)
    <2>1. GainSet(M) /\ M # {} /\ M \in SUBSET S /\ \A g \in M : g.to = t
      BY FS_Subset DEF GainSet, Mine
    <2> HIDE DEF M
    <2>2. Gained(M) \in Nat /\ Gained(M) # 0
      BY <2>1, GainedFacts
    <2>3. Min({Cap, Gained(M)}) \in Nat /\ Min({Cap, Gained(M)}) # 0
      BY <2>2, MinOfTwo, ActivationConstants
    <2>4. BestOf(M) \in M
      BY <2>1, BestIsFirst
    <2>5. IsGain(BestOf(M)) /\ BestOf(M) \in S /\ BestOf(M).to = t
      BY <2>1, <2>4 DEF GainSet
    <2>6. BestOf(M).gain \in Nat /\ BestOf(M).path \in Seq(Node)
      BY <2>5 DEF IsGain
    <2>7. value(t) = [act |-> Min({Cap, Gained(M)}), gain |-> BestOf(M).gain, path |-> BestOf(M).path]
      BY DEF M
    <2> HIDE DEF value
    <2>8. QED
      BY <2>3, <2>5, <2>6, <2>7 DEF Value
  <1> HIDE DEF value
  <1>4. \A t \in T : value(t).act = Min({Cap, Gained(Mine(S, t))})
    BY DEF value
  <1>5. QED
    BY <1>1, <1>2, <1>3, <1>4

-----------------------------------------------------------------------------
(* A level: the gains from a frontier.                                     *)

\* A frontier: activated memories, each with a path to it.
IsFrontier(f) ==
  /\ DOMAIN f \subseteq Node
  /\ \A t \in DOMAIN f : /\ f[t] \in Value /\ Len(f[t].path) \in Nat /\ Len(f[t].path) # 0
                         /\ f[t].path[Len(f[t].path)] = t

LEMMA SeedsAreAFront == ASSUME NEW seeds \in SUBSET Node PROVE IsFrontier(SeedNodes(seeds))
  <1> DEFINE f == SeedNodes(seeds)
  <1>1. DOMAIN f = seeds /\ \A t \in seeds : f[t] = [act |-> One, gain |-> One, path |-> <<t>>]
    BY DEF SeedNodes
  <1>2. ASSUME NEW t \in seeds
        PROVE  /\ f[t] \in Value /\ Len(f[t].path) \in Nat /\ Len(f[t].path) # 0
               /\ f[t].path[Len(f[t].path)] = t
    <2> DEFINE p == <<t>>
    <2>1. p \in Seq(Node) /\ Len(p) = 1 /\ p[1] = t
      OBVIOUS
    <2>2. f[t] = [act |-> One, gain |-> One, path |-> p] /\ One \in Nat
      BY <1>1, ActivationConstants
    <2> HIDE DEF p, f
    <2>3. f[t].path = p /\ f[t] \in Value
      BY <2>1, <2>2 DEF Value
    <2>4. Len(p) \in Nat /\ Len(p) # 0 /\ p[Len(p)] = t
      <3>1. p[Len(p)] = p[1]
        BY <2>1
      <3>2. QED
        BY <2>1, <3>1
    <2>5. QED
      BY <2>3, <2>4
  <1> HIDE DEF f
  <1>3. QED
    BY <1>1, <1>2 DEF IsFrontier, f

LEMMA ExplainedIsAFront ==
  ASSUME NEW S, GainSet(S)
  PROVE  IsFrontier(Explained(S))
  <1> DEFINE f == Explained(S)
  <1>1. /\ DOMAIN f \subseteq Node
        /\ \A t \in DOMAIN f : /\ f[t] \in Value
                               /\ \E g \in S : g.to = t /\ f[t].path = g.path
    BY ExplainedFacts
  <1> HIDE DEF f
  <1>2. ASSUME NEW t \in DOMAIN f
        PROVE  Len(f[t].path) \in Nat /\ Len(f[t].path) # 0 /\ f[t].path[Len(f[t].path)] = t
    <2>1. PICK g \in S : g.to = t /\ f[t].path = g.path
      BY <1>1
    <2>2. QED
      BY <2>1 DEF GainSet, IsGain
  <1>3. QED
    BY <1>1, <1>2 DEF IsFrontier, f

\* What s of a frontier passes on to t.
GainFrom(w, f, depth0, s, t) ==
  [to |-> t, from |-> s, gain |-> Propagated(f[s].act, w[<<s, t>>], depth0, t), path |-> Append(f[s].path, t)]

\* Whether s of a frontier passes anything on to t.
PassesOn(w, l, seeds, f, depth0, s, t) ==
  /\ s \in DOMAIN f /\ t \in Range(Outgoing(w, l, s)) /\ Passes(w, seeds, f[s], t)
  /\ GainFrom(w, f, depth0, s, t).gain > 0

LEMMA GainsAre ==
  ASSUME NEW w, NEW l, NEW seeds, NEW f, NEW depth0
  PROVE  \A g : g \in Gains(w, l, seeds, f, depth0)
                  <=> \E s, t : g = GainFrom(w, f, depth0, s, t) /\ PassesOn(w, l, seeds, f, depth0, s, t)
  <1> DEFINE at(s) == {u \in Range(Outgoing(w, l, s)) : Passes(w, seeds, f[s], u)}
             of(s) == {GainFrom(w, f, depth0, s, t) : t \in at(s)}
  <1>1. Gains(w, l, seeds, f, depth0) = {g \in UNION {of(s) : s \in DOMAIN f} : g.gain > 0}
    BY DEF Gains, GainFrom
  <1>2. \A s, t : t \in at(s) <=> t \in Range(Outgoing(w, l, s)) /\ Passes(w, seeds, f[s], t)
    OBVIOUS
  <1> HIDE DEF at
  <1>3. \A s, g : g \in of(s) <=> \E t \in at(s) : g = GainFrom(w, f, depth0, s, t)
    OBVIOUS
  <1> HIDE DEF of
  <1>4. QED
    BY <1>1, <1>2, <1>3 DEF PassesOn

LEMMA GainFromIsGain ==
  ASSUME NEW w \in Weights, NEW f, IsFrontier(f), NEW depth0, NEW s \in DOMAIN f, NEW t \in Node,
         GainFrom(w, f, depth0, s, t).gain > 0
  PROVE  IsGain(GainFrom(w, f, depth0, s, t))
  <1> DEFINE g == GainFrom(w, f, depth0, s, t)
             p == f[s].path
             n == Len(p)
             q == Append(p, t)
             v == Propagated(f[s].act, w[<<s, t>>], depth0, t)
  <1>1. s \in Node /\ f[s] \in Value /\ n \in Nat /\ n # 0 /\ p[n] = s
    BY DEF IsFrontier
  <1>2. p \in Seq(Node) /\ f[s].act \in Nat
    BY <1>1 DEF Value
  <1>3. v \in Nat
    BY <1>1, <1>2, WeightIsNat, PropagatedIsNat
  <1>4. /\ q \in Seq(Node) /\ Len(q) = n + 1 /\ q[n + 1] = t /\ q[n] = p[n]
    BY <1>1, <1>2, AppendProperties
  <1>5. g = [to |-> t, from |-> s, gain |-> v, path |-> q]
    BY DEF GainFrom
  <1> HIDE DEF g, v, q, n
  <1>6. g.gain = v /\ g.path = q /\ g.to = t /\ g.from = s /\ g \in [to : Node, from : Node, gain : Nat, path : Seq(Node)]
    BY <1>1, <1>3, <1>4, <1>5
  <1>7. g.gain > 0
    BY DEF g
  <1>8. Len(q) \in Nat /\ Len(q) > 1 /\ Len(q) - 1 = n
    BY <1>1, <1>4
  <1>9. IsGain(g)
    BY <1>1, <1>4, <1>6, <1>7, <1>8 DEF IsGain
  <1>10. QED
    BY <1>9 DEF g

\* The gains of a level.
LEMMA GainsFacts ==
  ASSUME NEW w \in Weights, NEW l, NEW seeds, NEW f, IsFrontier(f), NEW depth0
  PROVE  LET S == Gains(w, l, seeds, f, depth0) IN
           /\ GainSet(S)
           /\ \A g \in S : g.to \notin seeds /\ g.to \in l
  <1> DEFINE S == Gains(w, l, seeds, f, depth0)
             from(g) == CHOOSE e \in Node \X Node :
                          g = GainFrom(w, f, depth0, e[1], e[2]) /\ PassesOn(w, l, seeds, f, depth0, e[1], e[2])
             pairs == [g \in S |-> <<g.from, g.to>>]
  <1>1. ASSUME NEW g \in S
        PROVE  \E s, t \in Node : /\ g = GainFrom(w, f, depth0, s, t) /\ g.from = s /\ g.to = t
                                  /\ IsGain(g) /\ t \notin seeds /\ t \in l
    <2>1. PICK s, t : g = GainFrom(w, f, depth0, s, t) /\ PassesOn(w, l, seeds, f, depth0, s, t)
      BY GainsAre
    <2> DEFINE out == Outgoing(w, l, s)
    <2>2. s \in DOMAIN f /\ t \in Range(out) /\ t \notin seeds /\ g.gain > 0
      BY <2>1 DEF PassesOn, Passes
    <2>3. s \in Node
      BY <2>2 DEF IsFrontier
    <2>4. \A i \in DOMAIN out : out[i] \in Targets(w, l, s)
      BY <2>3, OutgoingFacts
    <2> HIDE DEF out
    <2>5. t \in Node /\ t \in l
      BY <2>2, <2>4 DEF Range, Targets
    <2>6. IsGain(g)
      BY <2>1, <2>2, <2>5, GainFromIsGain
    <2>7. g.from = s /\ g.to = t
      BY <2>1 DEF GainFrom
    <2>8. QED
      BY <2>1, <2>2, <2>3, <2>5, <2>6, <2>7
  <1> HIDE DEF S
  <1>2. \A g \in S : IsGain(g) /\ g.to \notin seeds /\ g.to \in l
    BY <1>1
  <1>3. \A g, h \in S : g.from = h.from /\ g.to = h.to => g = h
    BY <1>1
  <1>4. IsFiniteSet(S)
    <2> DEFINE P == Node \X Node
    <2>1. IsFiniteSet(P)
      BY FS_Product, ActivationConstants
    <2>2. \A g \in S : pairs[g] \in P /\ pairs[g] = <<g.from, g.to>>
      BY <1>2 DEF IsGain
    <2>3. pairs \in [S -> P]
      BY <2>2
    <2>4. \A g, h \in S : pairs[g] = pairs[h] => g = h
      BY <1>3, <2>2
    <2> HIDE DEF P, pairs
    <2>5. pairs \in Injection(S, P)
      BY <2>3, <2>4 DEF Injection, IsInjective
    <2>6. QED
      BY <2>1, <2>5, FS_Injection
  <1>5. QED
    BY <1>2, <1>4 DEF GainSet, S

-----------------------------------------------------------------------------
(* A whole spread.                                                         *)

\* One level of the reference.
LevelFrom(w, l, seeds, x, d) ==
  [front |-> Explained(Gains(w, l, seeds, x.front, d)), all |-> x.all \cup Gains(w, l, seeds, x.front, d)]

FirstLevel(seeds) == [front |-> SeedNodes(seeds), all |-> {}]

\* What it carries from level to level.
Fronts == {f \in UNION {[D -> Value] : D \in SUBSET Node} : IsFrontier(f)}

GainSets == {S \in SUBSET [to : Node, from : Node, gain : Nat, path : Seq(Node)] : GainSet(S)}

LevelOf == [front : Fronts, all : GainSets]

LEMMA InFronts == ASSUME NEW f, IsFrontier(f), f = [t \in DOMAIN f |-> f[t]] PROVE f \in Fronts
  <1> DEFINE D == DOMAIN f
  <1>1. D \in SUBSET Node /\ \A t \in D : f[t] \in Value
    BY DEF IsFrontier
  <1> HIDE DEF D
  <1>2. f \in [D -> Value]
    BY <1>1 DEF D
  <1>3. QED
    BY <1>1, <1>2 DEF Fronts

LEMMA InGainSets == ASSUME NEW S, GainSet(S) PROVE S \in GainSets
  BY DEF GainSets, GainSet, IsGain

LEMMA LevelFromIsLevel ==
  ASSUME NEW w \in Weights, NEW l, NEW seeds, NEW x \in LevelOf, NEW d
  PROVE  /\ LevelFrom(w, l, seeds, x, d) \in LevelOf
         /\ \A g \in LevelFrom(w, l, seeds, x, d).all : g \in x.all \/ (g.to \notin seeds /\ g.to \in l)
  <1> DEFINE f == x.front
             S == Gains(w, l, seeds, f, d)
             h == Explained(S)
             A == x.all \cup S
  <1>1. IsFrontier(f) /\ GainSet(x.all)
    BY DEF LevelOf, Fronts, GainSets
  <1>2. GainSet(S) /\ \A g \in S : g.to \notin seeds /\ g.to \in l
    BY <1>1, GainsFacts
  <1> HIDE DEF S, f
  <1>3. GainSet(A)
    BY <1>1, <1>2, FS_Union DEF GainSet
  <1>4. IsFrontier(h)
    BY <1>2, ExplainedIsAFront
  <1>5. h = [t \in DOMAIN h |-> h[t]]
    <2>1. h = [t \in {g.to : g \in S} |->
                [act |-> Min({Cap, Gained(Mine(S, t))}),
                 gain |-> BestOf(Mine(S, t)).gain, path |-> BestOf(Mine(S, t)).path]]
      BY ExplainedIs
    <2> HIDE DEF h
    <2>2. QED
      BY <2>1
  <1> HIDE DEF h
  <1>6. h \in Fronts /\ A \in GainSets
    BY <1>3, <1>4, <1>5, InFronts, InGainSets
  <1>7. LevelFrom(w, l, seeds, x, d) = [front |-> h, all |-> A]
    BY DEF LevelFrom, h, S, f
  <1>8. QED
    BY <1>2, <1>6, <1>7 DEF LevelOf

LEMMA FirstIsLevel == ASSUME NEW seeds \in SUBSET Node PROVE FirstLevel(seeds) \in LevelOf
  <1> DEFINE f == SeedNodes(seeds)
  <1>1. IsFrontier(f)
    BY SeedsAreAFront
  <1>2. f = [t \in DOMAIN f |-> f[t]]
    BY DEF SeedNodes
  <1> HIDE DEF f
  <1>3. f \in Fronts
    BY <1>1, <1>2, InFronts
  <1>4. {} \in GainSets
    BY FS_EmptySet, InGainSets DEF GainSet
  <1>5. QED
    BY <1>3, <1>4 DEF FirstLevel, LevelOf, f

\* The levels of a spread.
Levels(level, w, l, seeds) ==
  level = [d \in 0 .. Steps |->
             IF d = 0 THEN FirstLevel(seeds) ELSE LevelFrom(w, l, seeds, level[d - 1], d)]

LEMMA LevelsExist ==
  ASSUME NEW w \in Weights, NEW l, NEW seeds \in SUBSET Node
  PROVE  \E level : Levels(level, w, l, seeds)
  <1> DEFINE n == Steps
             S == LevelOf
             first == FirstLevel(seeds)
             turn(d, x) == LevelFrom(w, l, seeds, x, d)
             turns == [d \in 1 .. n |-> [x \in S |-> turn(d, x)]]
  <1>1. n \in Nat
    BY ActivationConstants
  <1>2. \A d \in 1 .. n : \A x \in S : turn(d, x) \in S
    BY LevelFromIsLevel
  <1>3. first \in S
    BY FirstIsLevel
  <1> HIDE DEF turn, first
  <1>4. turns \in [1 .. n -> [S -> S]] /\ \A d \in 1 .. n : \A x \in S : turns[d][x] = turn(d, x)
    BY <1>2
  <1> HIDE DEF S, turns, n
  <1>5. PICK f \in [0 .. n -> S] : Recursion(f, n, first, turns)
    BY <1>1, <1>3, <1>4, RecursionExists
  <1>6. f = [d \in 0 .. n |-> IF d = 0 THEN first ELSE turns[d][f[d - 1]]]
    BY <1>5 DEF Recursion
  <1>7. \A d \in 0 .. n : d # 0 => turns[d][f[d - 1]] = turn(d, f[d - 1])
    <2> TAKE d \in 0 .. n
    <2>1. d # 0 => d \in 1 .. n /\ d - 1 \in 0 .. n
      BY <1>1
    <2>2. QED
      BY <1>4, <1>5, <2>1
  <1>8. \A d \in 0 .. n : f[d] = IF d = 0 THEN first ELSE turn(d, f[d - 1])
    BY <1>6, <1>7
  <1>9. f = [d \in 0 .. n |-> IF d = 0 THEN first ELSE turn(d, f[d - 1])]
    BY <1>5, <1>8
  <1>10. Levels(f, w, l, seeds)
    BY <1>9 DEF Levels, turn, first, n
  <1>11. QED
    BY <1>10

\* What the levels are.
LevelsAre(level, w, l, seeds) ==
  /\ level[0] = FirstLevel(seeds)
  /\ \A d \in 1 .. Steps : level[d] = LevelFrom(w, l, seeds, level[d - 1], d)
  /\ \A d \in 0 .. Steps : /\ level[d] \in LevelOf
                           /\ \A g \in level[d].all : g.to \notin seeds /\ g.to \in l

LEMMA LevelsFacts ==
  ASSUME NEW w \in Weights, NEW l, NEW seeds \in SUBSET Node, NEW level, Levels(level, w, l, seeds)
  PROVE  LevelsAre(level, w, l, seeds)
  <1> DEFINE n == Steps
             turn(d, x) == LevelFrom(w, l, seeds, x, d)
             first == FirstLevel(seeds)
             fits(x) == x \in LevelOf /\ \A g \in x.all : g.to \notin seeds /\ g.to \in l
             P == {d \in 0 .. n : fits(level[d])}
  <1>1. n \in Nat
    BY ActivationConstants
  <1>2. fits(first)
    BY FirstIsLevel DEF FirstLevel
  <1>3. \A d, x : fits(x) => fits(turn(d, x))
    BY LevelFromIsLevel
  <1> HIDE DEF turn, first, fits, n
  <1>4. level = [d \in 0 .. n |-> IF d = 0 THEN first ELSE turn(d, level[d - 1])]
    BY DEF Levels, turn, first, n
  <1>5. level[0] = first /\ \A d \in 1 .. n : level[d] = turn(d, level[d - 1])
    <2>1. 0 \in 0 .. n /\ \A d \in 1 .. n : d \in 0 .. n /\ d # 0
      BY <1>1
    <2>2. \A d \in 0 .. n : level[d] = IF d = 0 THEN first ELSE turn(d, level[d - 1])
      BY <1>4
    <2>3. QED
      BY <2>1, <2>2
  <1>6. 0 \in P
    BY <1>1, <1>2, <1>5
  <1>7. \A d \in Nat : d < n /\ d \in P => d + 1 \in P
    <2> TAKE d \in Nat
    <2> HAVE d < n /\ d \in P
    <2>1. d + 1 \in 1 .. n /\ d + 1 \in 0 .. n /\ (d + 1) - 1 = d
      BY <1>1
    <2>2. level[d + 1] = turn(d + 1, level[d])
      BY <1>5, <2>1
    <2>3. QED
      BY <1>3, <2>1, <2>2
  <1>8. \A d \in 0 .. n : d \in P
    <2> HIDE DEF P
    <2>1. QED
      BY <1>1, <1>6, <1>7, CountingUp
  <1>9. QED
    BY <1>5, <1>8 DEF LevelsAre, first, turn, n, fits

\* A spread explains what all its levels gained.
LEMMA SpreadIsExplained ==
  ASSUME NEW w \in Weights, NEW l, NEW seeds \in SUBSET Node
  PROVE  \E level : /\ Levels(level, w, l, seeds)
                    /\ SpreadTo(w, l, seeds) = Explained(level[Steps].all)
  <1> DEFINE is(level) == level = [d \in 0 .. Steps |->
                            IF d = 0 THEN [front |-> SeedNodes(seeds), all |-> {}]
                            ELSE LET gains == Gains(w, l, seeds, level[d - 1].front, d)
                                 IN  [front |-> Explained(gains), all |-> level[d - 1].all \cup gains]]
             spread == CHOOSE level : is(level)
  <1>1. \A level : is(level) <=> Levels(level, w, l, seeds)
    BY DEF Levels, FirstLevel, LevelFrom
  <1>2. SpreadTo(w, l, seeds) = Explained(spread[Steps].all)
    BY DEF SpreadTo
  <1> HIDE DEF is
  <1>3. is(spread)
    BY <1>1, LevelsExist
  <1>4. QED
    BY <1>1, <1>2, <1>3

\* What a spread activates: memories that are valid and no seeds.
LEMMA SpreadFacts ==
  ASSUME NEW w \in Weights, NEW l, NEW seeds \in SUBSET Node
  PROVE  LET f == SpreadTo(w, l, seeds) IN
           /\ DOMAIN f \subseteq Node /\ IsFiniteSet(DOMAIN f)
           /\ \A t \in DOMAIN f : /\ t \notin seeds /\ t \in l
                                  /\ f[t] \in Value /\ f[t].act # 0 /\ Len(f[t].path) \in Nat
  <1>1. PICK level : Levels(level, w, l, seeds) /\ SpreadTo(w, l, seeds) = Explained(level[Steps].all)
    BY SpreadIsExplained
  <1> DEFINE S == level[Steps].all
             f == Explained(S)
  <1>2. Steps \in 0 .. Steps
    BY ActivationConstants
  <1>3. GainSet(S) /\ \A g \in S : g.to \notin seeds /\ g.to \in l
    <2>1. \A d \in 0 .. Steps : /\ level[d] \in LevelOf
                                /\ \A g \in level[d].all : g.to \notin seeds /\ g.to \in l
      <3>1. LevelsAre(level, w, l, seeds)
        BY <1>1, LevelsFacts
      <3>2. QED
        BY <3>1 DEF LevelsAre
    <2>2. S \in GainSets
      BY <1>2, <2>1 DEF LevelOf
    <2>3. QED
      BY <1>2, <2>1, <2>2 DEF GainSets
  <1> HIDE DEF S
  <1>4. /\ DOMAIN f = {g.to : g \in S} /\ DOMAIN f \subseteq Node
        /\ \A t \in DOMAIN f : f[t] \in Value /\ f[t].act # 0
    BY <1>3, ExplainedFacts
  <1>5. IsFrontier(f)
    BY <1>3, ExplainedIsAFront
  <1> HIDE DEF f
  <1>6. \A t \in DOMAIN f : Len(f[t].path) \in Nat
    BY <1>5 DEF IsFrontier
  <1>7. IsFiniteSet(DOMAIN f)
    BY <1>4, FS_Subset, ActivationConstants
  <1>8. SpreadTo(w, l, seeds) = f
    BY <1>1 DEF f, S
  <1>9. QED
    BY <1>3, <1>4, <1>6, <1>7, <1>8

\* The beginning of a sequence.
LEMMA Beginning ==
  ASSUME NEW S, NEW s \in Seq(S), NEW m \in Nat, m <= Len(s)
  PROVE  LET b == SubSeq(s, 1, m) IN
           Len(b) = m /\ DOMAIN b = 1 .. m /\ \A i \in 1 .. m : b[i] = s[i] /\ i \in DOMAIN s
  <1>1. Len(s) \in Nat /\ DOMAIN s = 1 .. Len(s)
    BY LenProperties
  <1>2. \A i \in 1 .. m : i \in 1 .. Len(s)
    BY <1>1
  <1>3. SubSeq(s, 1, m) = [i \in 1 .. m |-> s[i]]
    BY <1>1
  <1>4. QED
    BY <1>1, <1>2, <1>3

\* The first k of a set in an order, and what comes before t.
FirstFew(S, before, k) ==
  LET sorted == Ranked(S, before)
  IN  SubSeq(sorted, 1, Min({k, Len(sorted)}))

Ahead(S, before, t) == {u \in S : <<u, t>> \in before}

\* What is not among the first k has k before it.
LEMMA FirstOrCrowded ==
  ASSUME NEW S, IsFiniteSet(S), NEW before, Orders(before, S), NEW k \in Nat
  PROVE  /\ Range(FirstFew(S, before, k)) \subseteq S
         /\ \A t \in S : \/ t \in Range(FirstFew(S, before, k))
                         \/ /\ Len(FirstFew(S, before, k)) = k
                            /\ Cardinality(Ahead(S, before, t)) >= k
  <1> DEFINE r == Ranked(S, before)
             m == Min({k, Len(r)})
             top == SubSeq(r, 1, m)
  <1>1. /\ r \in Seq(S) /\ Len(r) \in Nat /\ DOMAIN r = 1 .. Len(r) /\ Range(r) = S
        /\ \A i, j \in DOMAIN r : i < j <=> <<r[i], r[j]>> \in before
        /\ \A i, j \in DOMAIN r : r[i] = r[j] => i = j
    BY RankedProperties
  <1> HIDE DEF r
  <1>2. m \in Nat /\ m <= Len(r) /\ m <= k /\ (m < k => m = Len(r))
    BY <1>1, MinOfTwo
  <1> HIDE DEF m
  <1>3. Len(top) = m /\ DOMAIN top = 1 .. m /\ \A i \in 1 .. m : top[i] = r[i] /\ i \in DOMAIN r
    BY <1>1, <1>2, Beginning
  <1> HIDE DEF top
  <1>4. \A i \in DOMAIN r : r[i] \in S
    BY <1>1 DEF Range
  <1>5. Range(top) \subseteq S
    BY <1>3, <1>4 DEF Range
  <1>6. ASSUME NEW t \in S, t \notin Range(top)
        PROVE  Len(top) = k /\ Cardinality(Ahead(S, before, t)) >= k
    <2> DEFINE U == {u \in S : <<u, t>> \in before}
               head == [i \in 1 .. k |-> r[i]]
    <2>1. PICK n \in DOMAIN r : r[n] = t
      BY <1>1 DEF Range
    <2>2. \A i \in 1 .. m : i # n
      BY <1>3, <1>6, <2>1 DEF Range
    <2>3. m < n /\ m = k
      <3>1. n \in Nat /\ n >= 1 /\ n <= Len(r) /\ Len(r) \in Nat
        BY <1>1, <2>1
      <3>2. ~(n <= m)
        BY <1>2, <2>2, <3>1
      <3>3. QED
        BY <1>2, <3>1, <3>2
    <2>4. \A i \in 1 .. k : i \in DOMAIN r /\ i < n
      BY <1>1, <2>1, <2>3
    <2>5. ASSUME NEW i \in 1 .. k PROVE head[i] \in U /\ head[i] = r[i]
      <3>1. i \in DOMAIN r /\ i < n
        BY <2>4
      <3>2. QED
        BY <1>1, <1>4, <2>1, <3>1
    <2>6. \A i, j \in 1 .. k : head[i] = head[j] => i = j
      BY <1>1, <2>4, <2>5
    <2>7. head \in [1 .. k -> U]
      BY <2>5
    <2> HIDE DEF head
    <2>8. head \in Injection(1 .. k, U)
      BY <2>6, <2>7 DEF Injection, IsInjective
    <2>9. IsFiniteSet(U)
      <3>1. U \in SUBSET S
        OBVIOUS
      <3>2. QED
        BY <3>1, FS_Subset
    <2> HIDE DEF U
    <2>10. Cardinality(1 .. k) <= Cardinality(U)
      BY <2>8, <2>9, FS_Injection
    <2>11. Cardinality(1 .. k) = k
      <3>1. Cardinality(1 .. k) = IF 1 > k THEN 0 ELSE k - 1 + 1
        BY FS_Interval
      <3>2. QED
        BY <3>1
    <2>12. Cardinality(U) \in Nat
      BY <2>9, FS_CardinalityType
    <2>13. QED
      BY <1>3, <2>3, <2>10, <2>11, <2>12 DEF U, Ahead
  <1>7. QED
    BY <1>5, <1>6 DEF top, m, r, FirstFew

\* What is counted among fewer is counted among more.
LEMMA CrowdGrows ==
  ASSUME NEW S, IsFiniteSet(S), NEW T, T \subseteq S, NEW k \in Nat, Cardinality(T) >= k
  PROVE  Cardinality(S) >= k
  <1>1. Cardinality(T) <= Cardinality(S) /\ IsFiniteSet(T)
    BY FS_Subset
  <1>2. Cardinality(T) \in Nat /\ Cardinality(S) \in Nat
    BY <1>1, FS_CardinalityType
  <1>3. QED
    BY <1>1, <1>2

\* Which of two activated memories is stronger orders them.
LEMMA StrengthOrders ==
  ASSUME NEW f, DOMAIN f \subseteq Node, \A t \in DOMAIN f : f[t].act \in Nat /\ Len(f[t].path) \in Nat
  PROVE  Orders(StrongerIn(f), DOMAIN f)
  <1> DEFINE D == DOMAIN f
             before == StrongerIn(f)
             act(t) == f[t].act
             len(t) == Len(f[t].path)
  <1>1. \A t \in D : act(t) \in Nat /\ len(t) \in Nat /\ t \in Nat
    BY ActivationConstants
  <1>2. \A t, u \in D : <<t, u>> \in before <=> \/ act(t) > act(u)
                                                \/ act(t) = act(u) /\ len(t) < len(u)
                                                \/ act(t) = act(u) /\ len(t) = len(u) /\ t < u
    BY DEF StrongerIn
  <1> HIDE DEF D, before, act, len
  <1>3. \A t \in D : <<t, t>> \notin before
    <2> TAKE t \in D
    <2>1. act(t) \in Nat /\ len(t) \in Nat /\ t \in Nat
      BY <1>1
    <2>2. ~(act(t) > act(t)) /\ ~(len(t) < len(t)) /\ ~(t < t)
      BY <2>1
    <2>3. QED
      BY <1>2, <2>2
  <1>4. \A t, u, x \in D : <<t, u>> \in before /\ <<u, x>> \in before => <<t, x>> \in before
    <2> TAKE t, u, x \in D
    <2>1. /\ act(t) \in Nat /\ len(t) \in Nat /\ t \in Nat
          /\ act(u) \in Nat /\ len(u) \in Nat /\ u \in Nat
          /\ act(x) \in Nat /\ len(x) \in Nat /\ x \in Nat
      BY <1>1
    <2>2. QED
      BY <1>2, <2>1
  <1>5. \A t, u \in D : t = u \/ <<t, u>> \in before \/ <<u, t>> \in before
    <2> TAKE t, u \in D
    <2>1. /\ act(t) \in Nat /\ len(t) \in Nat /\ t \in Nat
          /\ act(u) \in Nat /\ len(u) \in Nat /\ u \in Nat
      BY <1>1
    <2>2. QED
      BY <1>2, <2>1
  <1>6. QED
    BY <1>3, <1>4, <1>5 DEF Orders, D, before

\* The strongest of them.
LEMMA StrongestFacts ==
  ASSUME NEW f, IsFiniteSet(DOMAIN f), DOMAIN f \subseteq Node, NEW k \in Nat,
         \A t \in DOMAIN f : f[t].act \in Nat /\ Len(f[t].path) \in Nat
  PROVE  /\ Range(Strongest(f, k)) \subseteq DOMAIN f
         /\ \A t \in DOMAIN f :
              \/ t \in Range(Strongest(f, k))
              \/ /\ Len(Strongest(f, k)) = k
                 /\ Cardinality({u \in DOMAIN f \ {t} : f[u].act >= f[t].act}) >= k
  <1> DEFINE D == DOMAIN f
             before == StrongerIn(f)
             act(t) == f[t].act
             len(t) == Len(f[t].path)
             top == Strongest(f, k)
  <1>1. \A t \in D : act(t) \in Nat /\ len(t) \in Nat /\ t \in Nat
    BY ActivationConstants
  <1>2. \A t, u \in D : <<t, u>> \in before <=> \/ act(t) > act(u)
                                                \/ act(t) = act(u) /\ len(t) < len(u)
                                                \/ act(t) = act(u) /\ len(t) = len(u) /\ t < u
    BY DEF StrongerIn
  <1> HIDE DEF D, before, act, len
  <1>3. Orders(before, D)
    BY StrengthOrders DEF D, before
  <1>4. IsFiniteSet(D)
    BY DEF D
  <1>5. /\ Range(top) \subseteq D
        /\ \A t \in D : \/ t \in Range(top)
                        \/ Len(top) = k /\ Cardinality(Ahead(D, before, t)) >= k
    <2>1. top = FirstFew(D, before, k)
      BY DEF Strongest, FirstFew, D, before
    <2> HIDE DEF top
    <2>2. QED
      BY <1>3, <1>4, <2>1, FirstOrCrowded
  <1> HIDE DEF top
  <1>6. ASSUME NEW t \in D, Cardinality(Ahead(D, before, t)) >= k
        PROVE  Cardinality({u \in D \ {t} : act(u) >= act(t)}) >= k
    <2> DEFINE U == {u \in D \ {t} : act(u) >= act(t)}
    <2>1. \A u \in D : <<u, t>> \in before => u # t
      BY <1>3 DEF Orders
    <2>2. \A u \in D : <<u, t>> \in before => act(u) >= act(t)
      <3> TAKE u \in D
      <3>1. act(u) \in Nat /\ act(t) \in Nat
        BY <1>1
      <3>2. QED
        BY <1>2, <3>1
    <2>3. Ahead(D, before, t) \subseteq U
      BY <2>1, <2>2 DEF Ahead
    <2>4. IsFiniteSet(U)
      <3>1. U \in SUBSET D
        OBVIOUS
      <3>2. QED
        BY <1>4, <3>1, FS_Subset
    <2> HIDE DEF U
    <2>5. QED
      BY <1>6, <2>3, <2>4, CrowdGrows DEF U
  <1>7. QED
    BY <1>5, <1>6 DEF D, act, top

-----------------------------------------------------------------------------
(* Boosters.                                                               *)

\* The cap of a booster that has one.
CapOf(name) == IF name = "graph" THEN GraphCap ELSE LinkCap

\* No booster with a cap runs behind one that may exceed it.
CapsNeverFall ==
  \A i, j \in DOMAIN Pipeline :
    i < j /\ Pipeline[j] # "latent" => Pipeline[i] # "latent" /\ CapOf(Pipeline[i]) <= CapOf(Pipeline[j])

\* A bonus was given by one of the boosters that have run, within its cap.
Given(b, n) ==
  \/ b = 0
  \/ \E i \in DOMAIN Pipeline : i <= n /\ (Pipeline[i] = "latent" \/ b <= CapOf(Pipeline[i]))

BonusTypes ==
  /\ live \subseteq Node /\ weight \in Weights /\ changes \in Nat
  /\ \A e \in Node \X Node : weight[e] # 0 => e \in BoostEdges
  /\ hits \in Seq(Node)
  /\ bonus \in [Node -> Nat] /\ stage \in Nat

BonusInv == BonusTypes /\ \A t \in Node : Given(bonus[t], stage)

LEMMA StageFacts == Len(Pipeline) \in Nat /\ DOMAIN Pipeline = 1 .. Len(Pipeline)
  BY BoosterConstants, LenProperties

\* A bonus under a cap stays under it: when the booster name is next, what it
\* gives within its cap is not less than what is there.
LEMMA CapIsAhead ==
  ASSUME CapsNeverFall, stage \in Nat, NEW name, name # "latent", Turn(name), NEW b \in Nat, Given(b, stage)
  PROVE  CapOf(name) \in Nat /\ b <= CapOf(name)
  <1> DEFINE j == stage + 1
  <1>1. j \in DOMAIN Pipeline /\ Pipeline[j] = name
    BY StageFacts DEF Turn
  <1>2. CapOf(name) \in Nat
    BY BoosterConstants DEF CapOf
  <1>3. CASE b = 0
    BY <1>2, <1>3
  <1>4. ASSUME NEW i \in DOMAIN Pipeline, i <= stage, Pipeline[i] = "latent" \/ b <= CapOf(Pipeline[i])
        PROVE  b <= CapOf(name)
    <2>1. i < j
      BY <1>4, StageFacts
    <2>2. Pipeline[i] # "latent" /\ CapOf(Pipeline[i]) <= CapOf(name)
      BY <1>1, <2>1 DEF CapsNeverFall
    <2>3. CapOf(Pipeline[i]) \in Nat
      BY BoosterConstants DEF CapOf
    <2>4. QED
      BY <1>2, <1>4, <2>2, <2>3
  <1>5. QED
    BY <1>2, <1>3, <1>4 DEF Given

LEMMA BonusTypesInit == BoostersInit => BonusTypes /\ bonus = [t \in Node |-> 0]
  <1> SUFFICES ASSUME BoostersInit PROVE BonusTypes /\ bonus = [t \in Node |-> 0]
    OBVIOUS
  <1>1. /\ weight \in Weights /\ changes \in Nat
        /\ \A e \in Node \X Node : weight[e] # 0 => e \in BoostEdges
    <2>1. BoostEdges \in SUBSET (Node \X Node) /\ BoostWeights \in SUBSET Nat
      BY BoosterConstants
    <2>2. GraphInit(BoostEdges, BoostWeights)
      BY DEF BoostersInit
    <2>3. QED
      BY <2>1, <2>2, GraphAtTheStart
  <1>2. live = Node /\ hits \in HitLists /\ bonus = [t \in Node |-> 0] /\ stage = 0
    BY DEF BoostersInit
  <1>3. QED
    BY <1>1, <1>2, BoosterConstants DEF BonusTypes

LEMMA BonusInvInit == BoostersInit => BonusInv
  BY BonusTypesInit DEF BonusInv, Given

\* Other processes change the graph only.
LEMMA OthersKeepTypes ==
  ASSUME BonusTypes, OthersBetween
  PROVE  BonusTypes' /\ changes' # 0 /\ UNCHANGED <<hits, bonus, stage, final>>
  <1>1. /\ ByOthers(BoostEdges) /\ UNCHANGED <<hits, bonus, stage, final>>
        /\ BoostEdges \in SUBSET (Node \X Node)
    BY BoosterConstants DEF OthersBetween, pipelineVars
  <1>2. /\ live \subseteq Node /\ weight \in Weights /\ changes \in Nat
        /\ \A e \in Node \X Node : weight[e] # 0 => e \in BoostEdges
    BY DEF BonusTypes
  <1>3. /\ live' \subseteq live /\ weight' \in Weights /\ changes' \in Nat /\ changes' # 0
        /\ \A e \in Node \X Node : weight'[e] # 0 => e \in BoostEdges
    BY <1>1, <1>2, GraphOfOthers
  <1>4. QED
    BY <1>1, <1>2, <1>3 DEF BonusTypes

\* What a booster adds: nothing, or so much that its cap or a larger sum is
\* reached.
Raised(new, old, name) ==
  /\ new \in Nat /\ new >= old
  /\ new = old \/ name = "latent" \/ new <= CapOf(name)

Raises(name) ==
  /\ Turn(name) /\ stage' = stage + 1 /\ UNCHANGED <<graphVars, hits>>
  /\ bonus' \in [Node -> Nat] /\ \A t \in Node : Raised(bonus'[t], bonus[t], name)

LEMMA RaisesKeeps ==
  ASSUME BonusInv, NEW name, Raises(name)
  PROVE  BonusInv' /\ \A t \in Node : bonus'[t] >= bonus[t]
  <1>1. stage + 1 \in DOMAIN Pipeline /\ Pipeline[stage + 1] = name /\ stage \in Nat
    BY StageFacts DEF Raises, Turn, BonusInv, BonusTypes
  <1>2. UNCHANGED <<live, weight, changes, hits>> /\ stage' = stage + 1 /\ bonus' \in [Node -> Nat]
    BY DEF Raises, graphVars
  <1>3. ASSUME NEW t \in Node
        PROVE  Given(bonus'[t], stage') /\ bonus'[t] >= bonus[t]
    <2>1. Raised(bonus'[t], bonus[t], name) /\ Given(bonus[t], stage)
      BY DEF Raises, BonusInv
    <2>2. bonus'[t] >= bonus[t]
      BY <2>1 DEF Raised
    <2>3. CASE bonus'[t] = bonus[t]
      <3>1. \A i : i <= stage /\ i \in DOMAIN Pipeline => i <= stage + 1
        BY <1>1, StageFacts
      <3>2. QED
        BY <1>2, <2>1, <2>2, <2>3, <3>1 DEF Given
    <2>4. CASE name = "latent" \/ bonus'[t] <= CapOf(name)
      <3>1. stage + 1 <= stage'
        BY <1>1, <1>2
      <3>2. QED
        BY <1>1, <2>2, <2>4, <3>1 DEF Given
    <2>5. QED
      BY <2>1, <2>3, <2>4 DEF Raised
  <1>4. stage' \in Nat
    BY <1>1, <1>2
  <1>5. QED
    BY <1>2, <1>3, <1>4 DEF BonusInv, BonusTypes

\* The powers of the decay are natural numbers other than 0.
LEMMA DecayPowerIsNat == \A k \in 0 .. GraphSteps : DecayPower[k] \in Nat \ {0}
  <1> DEFINE n == GraphSteps
             S == Nat \ {0}
             times == [k \in 1 .. n |-> [x \in S |-> GraphDecayDiv * x]]
             is(f) == f = [k \in 0 .. n |-> IF k = 0 THEN 1 ELSE GraphDecayDiv * f[k - 1]]
             power == CHOOSE f : is(f)
  <1>1. n \in Nat /\ GraphDecayDiv \in Nat /\ GraphDecayDiv # 0
    BY BoosterConstants
  <1>2. \A x \in S : GraphDecayDiv * x \in S
    BY <1>1, Product
  <1>3. 1 \in S
    OBVIOUS
  <1> HIDE DEF S, n
  <1>4. times \in [1 .. n -> [S -> S]] /\ \A k \in 1 .. n : \A x \in S : times[k][x] = GraphDecayDiv * x
    BY <1>2
  <1> HIDE DEF times
  <1>5. PICK f \in [0 .. n -> S] : Recursion(f, n, 1, times)
    <2> DEFINE one == 1
    <2> HIDE DEF one
    <2>1. one \in S
      BY <1>3 DEF one
    <2>2. \E f \in [0 .. n -> S] : Recursion(f, n, one, times)
      BY <1>1, <1>4, <2>1, RecursionExists
    <2>3. QED
      BY <2>2 DEF one
  <1>6. f = [k \in 0 .. n |-> IF k = 0 THEN 1 ELSE times[k][f[k - 1]]]
    BY <1>5 DEF Recursion
  <1>7. \A k \in 0 .. n : k # 0 => times[k][f[k - 1]] = GraphDecayDiv * f[k - 1]
    <2> TAKE k \in 0 .. n
    <2>1. k # 0 => k \in 1 .. n /\ k - 1 \in 0 .. n
      BY <1>1
    <2>2. QED
      BY <1>4, <1>5, <2>1
  <1>8. is(f)
    <2>1. \A k \in 0 .. n : f[k] = IF k = 0 THEN 1 ELSE GraphDecayDiv * f[k - 1]
      BY <1>6, <1>7
    <2>2. QED
      BY <1>5, <2>1
  <1>9. is(power)
    <2> HIDE DEF is
    <2>1. QED
      BY <1>8
  <1>10. DecayPower = power
    BY DEF DecayPower, n
  <1> HIDE DEF power
  <1>11. power[0] = 1 /\ \A k \in 1 .. n : power[k] = GraphDecayDiv * power[k - 1]
    <2>1. 0 \in 0 .. n /\ \A k \in 1 .. n : k \in 0 .. n /\ k # 0
      BY <1>1
    <2>2. \A k \in 0 .. n : power[k] = IF k = 0 THEN 1 ELSE GraphDecayDiv * power[k - 1]
      BY <1>9
    <2>3. QED
      BY <2>1, <2>2
  <1>12. \A k \in 0 .. n : power[k] \in S
    <2>1. power[0] \in S /\ \A k \in 1 .. n : power[k - 1] \in S => power[k] \in S
      BY <1>2, <1>3, <1>11
    <2>2. QED
      BY <1>1, <2>1, RecursionKeeps
  <1>13. QED
    BY <1>10, <1>12 DEF S, n

\* The graph booster's bonus is a natural number.
LEMMA GraphBonusIsNat ==
  ASSUME BonusTypes, NEW t \in Ids
  PROVE  GraphBonus(t) \in Nat
  <1> DEFINE n == GraphSteps
             I == Ids
             S == [I -> Nat]
             sources(u) == {s \in I : Adjacent(s, u)}
             term(d, x, s, u) == (x[s] * weight[<<s, u>>]) \div (GraphScaleDiv * DecayPower[d - 1])
             sum(d, x, u) == SumFunctionOnSet([s \in sources(u) |-> term(d, x, s, u)], sources(u))
             turn(d, x) == [u \in I |-> sum(d, x, u)]
             turns == [d \in 1 .. n |-> [x \in S |-> turn(d, x)]]
             first == InitialActivation
             is(f) == f = [k \in 0 .. n |-> IF k = 0 THEN first ELSE turn(k, f[k - 1])]
             level == CHOOSE f : is(f)
  <1>1. n \in Nat /\ n # 0 /\ GraphScaleDiv \in Nat /\ GraphScaleDiv # 0 /\ One \in Nat
    BY BoosterConstants, ActivationConstants
  <1>2. I \subseteq Node /\ IsFiniteSet(I)
    <2>1. I \subseteq Node
      BY LenProperties, ElementOfSeq DEF BonusTypes, Ids, Range
    <2>2. QED
      BY <2>1, FS_Subset, ActivationConstants
  <1>3. weight \in Weights
    BY DEF BonusTypes
  <1>4. ASSUME NEW d \in 1 .. n, NEW x \in S, NEW s \in I, NEW u \in I
        PROVE  term(d, x, s, u) \in Nat
    <2> DEFINE a == x[s]
               w == weight[<<s, u>>]
               p == DecayPower[d - 1]
    <2>1. a \in Nat /\ w \in Nat
      BY <1>2, <1>3, WeightIsNat
    <2>2. d - 1 \in 0 .. GraphSteps
      BY <1>1
    <2>3. p \in Nat /\ p # 0
      BY <2>2, DecayPowerIsNat
    <2> HIDE DEF a, w, p
    <2>4. a * w \in Nat
      BY <2>1, Product
    <2>5. GraphScaleDiv * p \in Nat /\ GraphScaleDiv * p # 0
      BY <1>1, <2>3, Product
    <2>6. (a * w) \div (GraphScaleDiv * p) \in Nat
      BY <2>4, <2>5, Quotient
    <2>7. QED
      BY <2>6 DEF a, w, p
  <1>5. \A u \in I : IsFiniteSet(sources(u)) /\ sources(u) \subseteq I
    BY <1>2, FS_Subset
  <1> HIDE DEF sources, term
  <1>6. ASSUME NEW d \in 1 .. n, NEW x \in S, NEW u \in I
        PROVE  sum(d, x, u) \in Nat
    <2> DEFINE T == sources(u)
               f == [s \in T |-> term(d, x, s, u)]
    <2>1. IsFiniteSet(T) /\ T \subseteq I
      BY <1>5
    <2>2. \A s \in T : f[s] \in Nat
      BY <1>4, <2>1
    <2> HIDE DEF T, f
    <2>3. SumFunctionOnSet(f, T) \in Nat
      BY <2>1, <2>2, SumIsNat
    <2>4. QED
      BY <2>3 DEF f, T
  <1> HIDE DEF sum
  <1>7. \A d \in 1 .. n : \A x \in S : turn(d, x) \in S
    BY <1>6
  <1>8. first \in S
    BY <1>1 DEF InitialActivation
  <1>9. GraphLevels = level
    BY DEF GraphLevels, sum, term, sources
  <1> HIDE DEF first, turn, S, n
  <1>10. turns \in [1 .. n -> [S -> S]] /\ \A d \in 1 .. n : \A x \in S : turns[d][x] = turn(d, x)
    BY <1>7
  <1> HIDE DEF turns
  <1>11. PICK f \in [0 .. n -> S] : Recursion(f, n, first, turns)
    BY <1>1, <1>8, <1>10, RecursionExists
  <1>12. f = [d \in 0 .. n |-> IF d = 0 THEN first ELSE turns[d][f[d - 1]]]
    BY <1>11 DEF Recursion
  <1>13. \A d \in 0 .. n : d # 0 => turns[d][f[d - 1]] = turn(d, f[d - 1])
    <2> TAKE d \in 0 .. n
    <2>1. d # 0 => d \in 1 .. n /\ d - 1 \in 0 .. n
      BY <1>1
    <2>2. QED
      BY <1>10, <1>11, <2>1
  <1>14. is(f)
    <2>1. \A d \in 0 .. n : f[d] = IF d = 0 THEN first ELSE turn(d, f[d - 1])
      BY <1>12, <1>13
    <2>2. QED
      BY <1>11, <2>1
  <1>15. is(level)
    <2> HIDE DEF is
    <2>1. QED
      BY <1>14
  <1> HIDE DEF level
  <1>16. level[0] = first /\ \A d \in 1 .. n : level[d] = turn(d, level[d - 1])
    <2>1. 0 \in 0 .. n /\ \A d \in 1 .. n : d \in 0 .. n /\ d # 0
      BY <1>1
    <2>2. \A d \in 0 .. n : level[d] = IF d = 0 THEN first ELSE turn(d, level[d - 1])
      BY <1>15
    <2>3. QED
      BY <2>1, <2>2
  <1>17. \A d \in 0 .. n : level[d] \in S
    <2>1. level[0] \in S /\ \A d \in 1 .. n : level[d - 1] \in S => level[d] \in S
      BY <1>7, <1>8, <1>16
    <2>2. QED
      BY <1>1, <2>1, RecursionKeeps
  <1> DEFINE K == 1 .. n
             g == [k \in K |-> level[k][t]]
  <1>18. IsFiniteSet(K)
    BY <1>1, FS_Interval
  <1>19. \A k \in K : g[k] \in Nat
    <2> TAKE k \in K
    <2>1. k \in 0 .. n
      BY <1>1
    <2>2. level[k] \in [I -> Nat]
      BY <1>17, <2>1 DEF S
    <2>3. QED
      BY <2>2
  <1> HIDE DEF K, g
  <1>20. SumFunctionOnSet(g, K) \in Nat
    BY <1>18, <1>19, SumIsNat
  <1>21. QED
    BY <1>9, <1>20 DEF GraphBonus, g, K, n

LEMMA HitsAreNodes == ASSUME BonusTypes PROVE Ids \subseteq Node /\ Len(hits) \in Nat /\ LatentSeeds \in SUBSET Node
  <1>1. hits \in Seq(Node) /\ Len(hits) \in Nat /\ DOMAIN hits = 1 .. Len(hits)
    BY LenProperties DEF BonusTypes
  <1>2. Ids \subseteq Node
    BY <1>1, ElementOfSeq DEF Ids, Range
  <1> DEFINE k == Min({BoostSeeds, Len(hits)})
  <1>3. k \in Nat /\ k <= Len(hits)
    <2>1. BoostSeeds \in Nat
      BY BoosterConstants
    <2>2. k = IF BoostSeeds <= Len(hits) THEN BoostSeeds ELSE Len(hits)
      BY <1>1, <2>1, MinOfTwo
    <2>3. QED
      BY <1>1, <2>1, <2>2
  <1> HIDE DEF k
  <1>4. \A s \in Range(SubSeq(hits, 1, k)) : s \in Node
    <2>1. DOMAIN SubSeq(hits, 1, k) = 1 .. k /\ \A i \in 1 .. k : SubSeq(hits, 1, k)[i] = hits[i] /\ i \in DOMAIN hits
      BY <1>1, <1>3, Beginning
    <2>2. \A i \in DOMAIN hits : hits[i] \in Node
      BY <1>1, ElementOfSeq
    <2>3. QED
      BY <2>1, <2>2 DEF Range
  <1>5. QED
    BY <1>1, <1>2, <1>4 DEF LatentSeeds, k

LEMMA GraphRaises == ASSUME BonusInv, CapsNeverFall, BoostByGraph PROVE Raises("graph")
  <1> DEFINE new(t) == IF t \in Ids /\ GraphBonus(t) > 0 THEN Min({GraphCap, bonus[t] + GraphBonus(t)}) ELSE bonus[t]
  <1>1. /\ Turn("graph") /\ stage' = stage + 1 /\ UNCHANGED <<graphVars, hits>>
        /\ bonus' = bonus \/ bonus' = [t \in Node |-> new(t)]
    BY DEF BoostByGraph
  <1>2. BonusTypes /\ bonus \in [Node -> Nat] /\ stage \in Nat
    BY DEF BonusInv, BonusTypes
  <1>3. ASSUME NEW t \in Node PROVE Raised(new(t), bonus[t], "graph") /\ Raised(bonus[t], bonus[t], "graph")
    <2> DEFINE b == bonus[t]
               g == GraphBonus(t)
    <2>1. b \in Nat /\ Given(b, stage)
      BY <1>2 DEF BonusInv
    <2>2. b <= GraphCap /\ GraphCap \in Nat
      <3>1. CapOf("graph") \in Nat /\ b <= CapOf("graph")
        BY <1>1, <1>2, <2>1, CapIsAhead
      <3>2. QED
        BY <3>1 DEF CapOf
    <2>3. CASE t \in Ids /\ g > 0
      <3>1. g \in Nat
        BY <1>2, <2>3, GraphBonusIsNat
      <3> HIDE DEF b, g
      <3>2. Min({GraphCap, b + g}) = IF GraphCap <= b + g THEN GraphCap ELSE b + g
        BY <2>1, <2>2, <3>1, MinOfTwo
      <3>3. Raised(Min({GraphCap, b + g}), b, "graph") /\ Raised(b, b, "graph")
        BY <2>1, <2>2, <3>1, <3>2 DEF Raised, CapOf
      <3>4. QED
        BY <2>3, <3>3 DEF b, g
    <2>4. CASE ~(t \in Ids /\ g > 0)
      BY <2>1, <2>4 DEF Raised
    <2>5. QED
      BY <2>3, <2>4
  <1> HIDE DEF new
  <1>4. \A t \in Node : new(t) \in Nat
    BY <1>3 DEF Raised
  <1>5. QED
    BY <1>1, <1>2, <1>3, <1>4 DEF Raises

LEMMA SessionRaises == ASSUME BonusInv, CapsNeverFall, BoostBySession PROVE Raises("session")
  <1> DEFINE more(t) == Min({LinkCap, LinkUnit * Links[t]})
             new(t) == IF t \in Ids /\ Links[t] > 0 THEN Min({LinkCap, bonus[t] + more(t)}) ELSE bonus[t]
  <1>1. /\ Turn("session") /\ stage' = stage + 1 /\ UNCHANGED <<graphVars, hits>>
        /\ bonus' = [t \in Node |-> new(t)]
    BY DEF BoostBySession
  <1>2. BonusTypes /\ bonus \in [Node -> Nat] /\ stage \in Nat
    BY DEF BonusInv, BonusTypes
  <1>3. ASSUME NEW t \in Node PROVE Raised(new(t), bonus[t], "session")
    <2> DEFINE b == bonus[t]
               g == more(t)
    <2>1. b \in Nat /\ Given(b, stage)
      BY <1>2 DEF BonusInv
    <2>2. b <= LinkCap /\ LinkCap \in Nat
      <3>1. CapOf("session") \in Nat /\ b <= CapOf("session")
        BY <1>1, <1>2, <2>1, CapIsAhead
      <3>2. QED
        BY <3>1 DEF CapOf
    <2>3. g \in Nat
      <3>1. LinkUnit \in Nat /\ Links[t] \in Nat /\ LinkCap \in Nat
        BY BoosterConstants
      <3>2. LinkUnit * Links[t] \in Nat
        BY <3>1, Product
      <3>3. QED
        BY <3>1, <3>2, MinOfTwo
    <2> HIDE DEF g
    <2>4. CASE t \in Ids /\ Links[t] > 0
      <3> HIDE DEF b
      <3>1. Min({LinkCap, b + g}) = IF LinkCap <= b + g THEN LinkCap ELSE b + g
        BY <2>1, <2>2, <2>3, MinOfTwo
      <3>2. Raised(Min({LinkCap, b + g}), b, "session")
        BY <2>1, <2>2, <2>3, <3>1 DEF Raised, CapOf
      <3>3. QED
        BY <2>4, <3>2 DEF b, g
    <2>5. CASE ~(t \in Ids /\ Links[t] > 0)
      BY <2>1, <2>5 DEF Raised
    <2>6. QED
      BY <2>4, <2>5
  <1> HIDE DEF new
  <1>4. \A t \in Node : new(t) \in Nat
    BY <1>3 DEF Raised
  <1>5. QED
    BY <1>1, <1>2, <1>3, <1>4 DEF Raises

LEMMA LatentRaises == ASSUME BonusTypes, BoostByLatent PROVE Raises("latent")
  <1> DEFINE nodes == SpreadTo(weight, live, LatentSeeds)
             top == Range(Strongest(nodes, Len(hits)))
             new(t) == IF t \in Ids \cap top THEN bonus[t] + nodes[t].act ELSE bonus[t]
  <1>1. /\ Turn("latent") /\ stage' = stage + 1 /\ UNCHANGED <<graphVars, hits>>
        /\ bonus' = bonus \/ bonus' = [t \in Node |-> new(t)]
    BY DEF BoostByLatent
  <1>2. BonusTypes /\ bonus \in [Node -> Nat] /\ stage \in Nat
    BY DEF BonusInv, BonusTypes
  <1>3. Len(hits) \in Nat /\ LatentSeeds \in SUBSET Node /\ weight \in Weights
    BY HitsAreNodes DEF BonusTypes
  <1>4. DOMAIN nodes \subseteq Node /\ IsFiniteSet(DOMAIN nodes)
        /\ \A t \in DOMAIN nodes : nodes[t].act \in Nat /\ Len(nodes[t].path) \in Nat
    BY <1>3, SpreadFacts DEF Value
  <1> HIDE DEF nodes
  <1>5. top \subseteq DOMAIN nodes
    BY <1>3, <1>4, StrongestFacts
  <1> HIDE DEF top
  <1>6. ASSUME NEW t \in Node PROVE Raised(new(t), bonus[t], "latent") /\ Raised(bonus[t], bonus[t], "latent")
    <2>1. bonus[t] \in Nat /\ (t \in top => nodes[t].act \in Nat)
      BY <1>2, <1>4, <1>5
    <2>2. QED
      BY <2>1 DEF Raised
  <1> HIDE DEF new
  <1>7. \A t \in Node : new(t) \in Nat
    BY <1>6 DEF Raised
  <1>8. QED
    BY <1>1, <1>2, <1>6, <1>7 DEF Raises

LEMMA BonusInvStep ==
  ASSUME BonusInv, CapsNeverFall, [BoostersNext]_boosterVars
  PROVE  BonusInv' /\ \A t \in Node : bonus'[t] >= bonus[t]
  <1>1. CASE BoostByGraph
    BY <1>1, GraphRaises, RaisesKeeps
  <1>2. CASE BoostByLatent
    BY <1>2, LatentRaises, RaisesKeeps DEF BonusInv
  <1>3. CASE BoostBySession
    BY <1>3, SessionRaises, RaisesKeeps
  <1>4. CASE Sort \/ UNCHANGED boosterVars
    BY <1>4 DEF Sort, boosterVars, pipelineVars, graphVars, BonusInv, BonusTypes
  <1>5. CASE OthersBetween
    <2>1. BonusTypes' /\ UNCHANGED <<hits, bonus, stage, final>> /\ bonus \in [Node -> Nat]
      BY <1>5, OthersKeepTypes DEF BonusInv, BonusTypes
    <2>2. QED
      BY <2>1 DEF BonusInv
  <1>6. QED
    BY <1>1, <1>2, <1>3, <1>4, <1>5 DEF BoostersNext

\* The boosters keep their contract, to add to the bonus only, on every
\* graph and for all hits, provided that no booster with a cap runs behind
\* the latent one, which has none, or behind one with a larger cap.
THEOREM BoostersKeepTheirContract ==
  ASSUME CapsNeverFall
  PROVE  BoostersSpec => BoostersOnlyAdd
  <1>1. BoostersInit => BonusInv
    BY BonusInvInit
  <1>2. BonusInv /\ [BoostersNext]_boosterVars => BonusInv'
    BY BonusInvStep
  <1>3. BonusInv /\ [BoostersNext]_boosterVars => [\A t \in Node : bonus'[t] >= bonus[t]]_boosterVars
    BY BonusInvStep
  <1>4. QED
    BY <1>1, <1>2, <1>3, PTL DEF BoostersSpec, BoostersOnlyAdd

\* Boosters that keep a bonus a bonus.
Keeps(name) ==
  /\ Turn(name) /\ stage' = stage + 1 /\ UNCHANGED <<graphVars, hits, final>>
  /\ bonus' \in [Node -> Nat] /\ \A t \in Node : bonus[t] > 0 => bonus'[t] > 0

LEMMA GraphKeeps == ASSUME BonusTypes, BoostByGraph PROVE Keeps("graph")
  <1> DEFINE new(t) == IF t \in Ids /\ GraphBonus(t) > 0 THEN Min({GraphCap, bonus[t] + GraphBonus(t)}) ELSE bonus[t]
  <1>1. /\ Turn("graph") /\ stage' = stage + 1 /\ UNCHANGED <<graphVars, hits, final>>
        /\ bonus' = bonus \/ bonus' = [t \in Node |-> new(t)]
    BY DEF BoostByGraph
  <1>2. bonus \in [Node -> Nat]
    BY DEF BonusTypes
  <1>3. GraphCap \in Nat /\ GraphCap # 0
    BY BoosterConstants
  <1>4. ASSUME NEW t \in Node PROVE new(t) \in Nat /\ (bonus[t] > 0 => new(t) > 0)
    <2> DEFINE b == bonus[t]
               g == GraphBonus(t)
    <2>1. b \in Nat
      BY <1>2
    <2>2. CASE t \in Ids /\ g > 0
      <3>1. g \in Nat
        BY <2>2, GraphBonusIsNat
      <3> HIDE DEF b, g
      <3>2. Min({GraphCap, b + g}) = IF GraphCap <= b + g THEN GraphCap ELSE b + g
        BY <1>3, <2>1, <3>1, MinOfTwo
      <3>3. Min({GraphCap, b + g}) \in Nat /\ (b > 0 => Min({GraphCap, b + g}) > 0)
        BY <1>3, <2>1, <3>1, <3>2
      <3>4. QED
        BY <2>2, <3>3 DEF b, g
    <2>3. CASE ~(t \in Ids /\ g > 0)
      BY <2>1, <2>3
    <2>4. QED
      BY <2>2, <2>3
  <1> HIDE DEF new
  <1>5. QED
    BY <1>1, <1>2, <1>4 DEF Keeps

LEMMA SessionKeeps == ASSUME BonusTypes, BoostBySession PROVE Keeps("session")
  <1> DEFINE more(t) == Min({LinkCap, LinkUnit * Links[t]})
             new(t) == IF t \in Ids /\ Links[t] > 0 THEN Min({LinkCap, bonus[t] + more(t)}) ELSE bonus[t]
  <1>1. /\ Turn("session") /\ stage' = stage + 1 /\ UNCHANGED <<graphVars, hits, final>>
        /\ bonus' = [t \in Node |-> new(t)]
    BY DEF BoostBySession
  <1>2. bonus \in [Node -> Nat]
    BY DEF BonusTypes
  <1>3. LinkCap \in Nat /\ LinkCap # 0 /\ LinkUnit \in Nat
    BY BoosterConstants
  <1>4. ASSUME NEW t \in Node PROVE new(t) \in Nat /\ (bonus[t] > 0 => new(t) > 0)
    <2> DEFINE b == bonus[t]
               g == more(t)
    <2>1. b \in Nat
      BY <1>2
    <2>2. g \in Nat
      <3>1. Links[t] \in Nat
        BY BoosterConstants
      <3>2. LinkUnit * Links[t] \in Nat
        BY <1>3, <3>1, Product
      <3>3. QED
        BY <1>3, <3>2, MinOfTwo
    <2> HIDE DEF b, g
    <2>3. Min({LinkCap, b + g}) = IF LinkCap <= b + g THEN LinkCap ELSE b + g
      BY <1>3, <2>1, <2>2, MinOfTwo
    <2>4. Min({LinkCap, b + g}) \in Nat /\ (b > 0 => Min({LinkCap, b + g}) > 0)
      BY <1>3, <2>1, <2>2, <2>3
    <2>5. QED
      BY <2>1, <2>4 DEF b, g
  <1> HIDE DEF new
  <1>5. QED
    BY <1>1, <1>2, <1>4 DEF Keeps

\* An activated memory has a bonus, or as many others as there are hits were
\* activated at least as much.
Crowded(b, nodes, ids, n) ==
  \A t \in ids \cap DOMAIN nodes :
    \/ b[t] > 0
    \/ Cardinality({u \in DOMAIN nodes \ {t} : nodes[u].act >= nodes[t].act}) >= n

HiddenInv ==
  /\ BonusTypes
  /\ final # <<>> => stage = Len(Pipeline)
  /\ changes = 0 /\ (\E i \in DOMAIN Pipeline : i <= stage /\ Pipeline[i] = "latent") =>
       Crowded(bonus, SpreadTo(weight, live, LatentSeeds), Ids, Len(hits))

LEMMA CrowdedStays ==
  ASSUME NEW b, NEW c, NEW nodes, NEW ids, NEW n, Crowded(b, nodes, ids, n), ids \subseteq Node,
         \A t \in Node : b[t] > 0 => c[t] > 0
  PROVE  Crowded(c, nodes, ids, n)
  BY DEF Crowded

\* What the spread of the next state is when neither graph nor hits change.
LEMMA SpreadStays ==
  ASSUME UNCHANGED <<graphVars, hits>>
  PROVE  /\ SpreadTo(weight, live, LatentSeeds)' = SpreadTo(weight, live, LatentSeeds)
         /\ Ids' = Ids /\ Len(hits)' = Len(hits) /\ changes' = changes
  BY DEF graphVars, LatentSeeds, Ids

\* The last stage that has run.
LEMMA LastStage ==
  ASSUME NEW name, NEW i \in DOMAIN Pipeline, Turn(name), stage \in Nat, i <= stage + 1
  PROVE  i <= stage \/ Pipeline[i] = name
  BY StageFacts DEF Turn

LEMMA StillRuns == ASSUME NEW name, Turn(name), stage \in Nat PROVE stage # Len(Pipeline)
  <1> DEFINE n == Len(Pipeline)
  <1>1. stage < n /\ n \in Nat
    BY StageFacts DEF Turn
  <1> HIDE DEF n
  <1>2. stage # n
    BY <1>1
  <1>3. QED
    BY <1>2 DEF n

LEMMA KeepsHidden ==
  ASSUME HiddenInv, NEW name, name # "latent", Keeps(name)
  PROVE  HiddenInv'
  <1>1. /\ Turn(name) /\ stage' = stage + 1 /\ UNCHANGED <<graphVars, hits, final>>
        /\ bonus' \in [Node -> Nat] /\ \A t \in Node : bonus[t] > 0 => bonus'[t] > 0
    BY DEF Keeps
  <1>2. BonusTypes /\ stage \in Nat
    BY DEF HiddenInv, BonusTypes
  <1>3. BonusTypes'
    BY <1>1, <1>2 DEF BonusTypes, graphVars
  <1>4. final' # <<>> => stage' = Len(Pipeline)
    <2>1. stage # Len(Pipeline)
      BY <1>1, <1>2, StillRuns
    <2>2. QED
      BY <1>1, <2>1 DEF HiddenInv
  <1>5. ASSUME changes' = 0, NEW i \in DOMAIN Pipeline, i <= stage', Pipeline[i] = "latent"
        PROVE  Crowded(bonus, SpreadTo(weight, live, LatentSeeds), Ids, Len(hits))'
    <2> DEFINE nodes == SpreadTo(weight, live, LatentSeeds)
    <2>1. i <= stage
      BY <1>1, <1>2, <1>5, LastStage
    <2>2. changes = 0
      BY <1>1, <1>5 DEF graphVars
    <2>3. Crowded(bonus, nodes, Ids, Len(hits))
      BY <1>5, <2>1, <2>2 DEF HiddenInv
    <2>4. Ids \subseteq Node
      BY <1>2, HitsAreNodes
    <2>5. nodes' = nodes /\ Ids' = Ids /\ Len(hits)' = Len(hits)
      BY <1>1, SpreadStays
    <2> HIDE DEF nodes
    <2>6. Crowded(bonus', nodes, Ids, Len(hits))
      BY <1>1, <2>3, <2>4, CrowdedStays
    <2>7. Crowded(bonus', nodes', Ids', Len(hits)')
      BY <2>5, <2>6
    <2>8. QED
      BY <2>7 DEF Crowded, nodes
  <1>6. QED
    BY <1>3, <1>4, <1>5 DEF HiddenInv

LEMMA LatentHidden == ASSUME HiddenInv, BoostByLatent PROVE HiddenInv'
  <1> DEFINE nodes == SpreadTo(weight, live, LatentSeeds)
             n == Len(hits)
             top == Range(Strongest(nodes, n))
             new(t) == IF t \in Ids \cap top THEN bonus[t] + nodes[t].act ELSE bonus[t]
  <1>1. /\ Turn("latent") /\ stage' = stage + 1 /\ UNCHANGED <<graphVars, hits, final>>
        /\ bonus' = IF n < 2 THEN bonus ELSE [t \in Node |-> new(t)]
    BY DEF BoostByLatent
  <1>2. BonusTypes /\ stage \in Nat /\ bonus \in [Node -> Nat] /\ weight \in Weights
        /\ hits \in Seq(Node)
    BY DEF HiddenInv, BonusTypes
  <1>3. BonusTypes'
    <2>1. Raises("latent")
      BY <1>2, LatentRaises
    <2>2. QED
      BY <1>2, <2>1 DEF Raises, BonusTypes, graphVars
  <1>4. final' # <<>> => stage' = Len(Pipeline)
    <2>1. stage # Len(Pipeline)
      BY <1>1, <1>2, StillRuns
    <2>2. QED
      BY <1>1, <2>1 DEF HiddenInv
  <1>5. n \in Nat /\ LatentSeeds \in SUBSET Node /\ Ids \subseteq Node
    BY <1>2, HitsAreNodes
  <1>6. DOMAIN nodes \subseteq Node /\ IsFiniteSet(DOMAIN nodes)
        /\ \A t \in DOMAIN nodes : /\ nodes[t].act \in Nat /\ nodes[t].act # 0 /\ Len(nodes[t].path) \in Nat
                                   /\ t \notin LatentSeeds
    BY <1>2, <1>5, SpreadFacts DEF Value
  <1>7. nodes' = nodes /\ Ids' = Ids /\ n' = n
    BY <1>1, SpreadStays
  <1> HIDE DEF nodes
  <1>8. \A t \in DOMAIN nodes : \/ t \in top
                                \/ Cardinality({u \in DOMAIN nodes \ {t} : nodes[u].act >= nodes[t].act}) >= n
    BY <1>5, <1>6, StrongestFacts
  <1> HIDE DEF top
  <1>9. CASE n < 2
    <2>1. Ids \subseteq LatentSeeds
      <3> DEFINE k == Min({BoostSeeds, n})
      <3>1. BoostSeeds \in Nat /\ BoostSeeds # 0
        BY BoosterConstants
      <3>2. k = IF BoostSeeds <= n THEN BoostSeeds ELSE n
        BY <1>5, <3>1, MinOfTwo
      <3>3. k = n
        BY <1>5, <1>9, <3>1, <3>2
      <3> HIDE DEF k
      <3>4. /\ DOMAIN SubSeq(hits, 1, k) = 1 .. k
            /\ \A i \in 1 .. k : SubSeq(hits, 1, k)[i] = hits[i] /\ i \in DOMAIN hits
        BY <1>2, <1>5, <3>3, Beginning
      <3>5. DOMAIN hits = 1 .. k
        BY <1>2, <3>3, LenProperties
      <3>6. Range(hits) \subseteq Range(SubSeq(hits, 1, k))
        BY <3>4, <3>5 DEF Range
      <3>7. QED
        BY <3>6 DEF Ids, LatentSeeds, k
    <2>2. Ids \cap DOMAIN nodes = {}
      BY <1>6, <2>1
    <2>3. Crowded(bonus', nodes, Ids, n)
      BY <2>2 DEF Crowded
    <2>4. QED
      <3>1. Crowded(bonus', nodes', Ids', n')
        BY <1>7, <2>3
      <3>2. Crowded(bonus, SpreadTo(weight, live, LatentSeeds), Ids, Len(hits))'
        BY <3>1 DEF Crowded, nodes
      <3>3. QED
        BY <1>3, <1>4, <3>2 DEF HiddenInv
  <1>10. CASE ~(n < 2)
    <2>1. \A t \in Node : bonus'[t] = new(t)
      BY <1>1, <1>10
    <2>2. ASSUME NEW t \in Ids \cap DOMAIN nodes, t \in top
          PROVE  bonus'[t] > 0
      <3>1. bonus'[t] = bonus[t] + nodes[t].act /\ bonus[t] \in Nat /\ nodes[t].act \in Nat /\ nodes[t].act # 0
        BY <1>2, <1>5, <1>6, <2>1, <2>2
      <3>2. QED
        BY <3>1
    <2> HIDE DEF new
    <2>3. Crowded(bonus', nodes, Ids, n)
      BY <1>8, <2>2 DEF Crowded
    <2>4. Crowded(bonus', nodes', Ids', n')
      BY <1>7, <2>3
    <2>5. Crowded(bonus, SpreadTo(weight, live, LatentSeeds), Ids, Len(hits))'
      BY <2>4 DEF Crowded, nodes
    <2>6. QED
      BY <1>3, <1>4, <2>5 DEF HiddenInv
  <1>11. QED
    BY <1>9, <1>10

LEMMA HiddenInvInit == BoostersInit => HiddenInv
  <1> SUFFICES ASSUME BoostersInit PROVE HiddenInv
    OBVIOUS
  <1>1. BonusTypes /\ stage = 0 /\ final = <<>>
    BY BonusTypesInit DEF BoostersInit
  <1>2. \A i \in DOMAIN Pipeline : ~(i <= 0)
    BY StageFacts
  <1>3. QED
    BY <1>1, <1>2 DEF HiddenInv

LEMMA HiddenInvStep == HiddenInv /\ [BoostersNext]_boosterVars => HiddenInv'
  <1> SUFFICES ASSUME HiddenInv, [BoostersNext]_boosterVars PROVE HiddenInv'
    OBVIOUS
  <1>1. CASE BoostByGraph
    BY <1>1, GraphKeeps, KeepsHidden DEF HiddenInv
  <1>2. CASE BoostByLatent
    BY <1>2, LatentHidden
  <1>3. CASE BoostBySession
    BY <1>3, SessionKeeps, KeepsHidden DEF HiddenInv
  <1>4. CASE Sort \/ UNCHANGED boosterVars
    <2>1. UNCHANGED <<graphVars, hits, bonus, stage>> /\ (stage = Len(Pipeline) \/ final' = final)
      BY <1>4 DEF Sort, boosterVars, pipelineVars
    <2>2. BonusTypes'
      BY <2>1 DEF HiddenInv, BonusTypes, graphVars
    <2>3. final' # <<>> => stage' = Len(Pipeline)
      BY <2>1 DEF HiddenInv
    <2> DEFINE nodes == SpreadTo(weight, live, LatentSeeds)
    <2>4. nodes' = nodes /\ Ids' = Ids /\ Len(hits)' = Len(hits) /\ changes' = changes
      BY <2>1, SpreadStays
    <2>5. changes' = 0 /\ (\E i \in DOMAIN Pipeline : i <= stage' /\ Pipeline[i] = "latent")
            => Crowded(bonus, nodes, Ids, Len(hits))
      BY <2>1, <2>4 DEF HiddenInv
    <2> HIDE DEF nodes
    <2>6. Crowded(bonus, nodes, Ids, Len(hits)) => Crowded(bonus', nodes', Ids', Len(hits)')
      BY <2>1, <2>4
    <2>7. Crowded(bonus', nodes', Ids', Len(hits)') =>
            Crowded(bonus, SpreadTo(weight, live, LatentSeeds), Ids, Len(hits))'
      BY DEF Crowded, nodes
    <2>8. QED
      BY <2>2, <2>3, <2>5, <2>6, <2>7 DEF HiddenInv
  <1>5. CASE OthersBetween
    <2>1. BonusTypes' /\ changes' # 0 /\ UNCHANGED <<stage, final>>
      BY <1>5, OthersKeepTypes DEF HiddenInv
    <2>2. QED
      BY <2>1 DEF HiddenInv
  <1>6. QED
    BY <1>1, <1>2, <1>3, <1>4, <1>5 DEF BoostersNext

\* Hidden influence reaches the answer, on every graph, for all hits and
\* wherever the latent booster stands in the pipeline: no cap and no booster
\* behind it takes the last of a bonus away.
THEOREM BoostersShowHiddenInfluence == BoostersSpec => []MissedOnlyWhenCrowded
  <1>1. BoostersSpec => []HiddenInv
    BY HiddenInvInit, HiddenInvStep, PTL DEF BoostersSpec
  <1>2. HiddenInv => MissedOnlyWhenCrowded
    <2> SUFFICES ASSUME HiddenInv, final # <<>>, changes = 0, "latent" \in Range(Pipeline)
                 PROVE  Crowded(bonus, SpreadTo(weight, live, LatentSeeds), Ids, Len(hits))
      BY DEF MissedOnlyWhenCrowded, Crowded
    <2>1. PICK i \in DOMAIN Pipeline : Pipeline[i] = "latent"
      BY DEF Range
    <2>2. i <= stage
      BY StageFacts DEF HiddenInv
    <2>3. QED
      BY <2>1, <2>2 DEF HiddenInv
  <1>3. QED
    BY <1>1, <1>2, PTL

-----------------------------------------------------------------------------
(* Traces: what is learned shows.                                          *)

\* Gains of an early level are explained in the end.
LEMMA GainsStay ==
  ASSUME NEW w \in Weights, NEW l, NEW seeds \in SUBSET Node, NEW level, Levels(level, w, l, seeds)
  PROVE  level[1].all \subseteq level[Steps].all
  <1> DEFINE n == Steps - 1
             P == {d \in 0 .. n : level[1].all \subseteq level[d + 1].all}
  <1>1. n \in Nat /\ Steps = n + 1
    BY ActivationConstants
  <1>2. \A d \in 1 .. Steps : level[d] = LevelFrom(w, l, seeds, level[d - 1], d)
    <2>1. LevelsAre(level, w, l, seeds)
      BY LevelsFacts
    <2>2. QED
      BY <2>1 DEF LevelsAre
  <1> HIDE DEF n
  <1>3. 0 \in P
    BY <1>1
  <1>4. \A d \in Nat : d < n /\ d \in P => d + 1 \in P
    <2> TAKE d \in Nat
    <2> HAVE d < n /\ d \in P
    <2>1. (d + 1) + 1 \in 1 .. Steps /\ ((d + 1) + 1) - 1 = d + 1 /\ d + 1 \in 0 .. n
      BY <1>1
    <2>2. level[(d + 1) + 1] = LevelFrom(w, l, seeds, level[d + 1], (d + 1) + 1)
      BY <1>2, <2>1
    <2>3. level[d + 1].all \subseteq level[(d + 1) + 1].all
      BY <2>2 DEF LevelFrom
    <2>4. QED
      BY <2>1, <2>3
  <1>5. \A d \in 0 .. n : d \in P
    <2> HIDE DEF P
    <2>1. QED
      BY <1>1, <1>3, <1>4, CountingUp
  <1>6. n \in 0 .. n
    BY <1>1
  <1>7. QED
    BY <1>1, <1>5, <1>6

\* A spread reaches another memory over a reinforced edge of a seed, unless as
\* many edges as are followed are at least as strong.
LEMMA NeighbourIsReached ==
  ASSUME NEW w \in Weights, NEW seeds \in SUBSET Node, NEW s \in seeds, NEW m \in Node \ seeds,
         w[<<s, m>>] >= Delta
  PROVE  \/ m \in DOMAIN SpreadTo(w, Node, seeds)
         \/ Cardinality({t \in Node \ {m} : w[<<s, t>>] >= Delta /\ w[<<s, t>>] >= w[<<s, m>>]}) >= Fanout
  <1> DEFINE T == Targets(w, Node, s)
             before == HeavierFrom(w, s)
             out == Outgoing(w, Node, s)
             U == {t \in Node \ {m} : w[<<s, t>>] >= Delta /\ w[<<s, t>>] >= w[<<s, m>>]}
             f == SeedNodes(seeds)
             g == GainFrom(w, f, 1, s, m)
  <1>1. w[<<s, m>>] \in Nat /\ w[<<s, m>>] > 0 /\ m # s
    <2>1. Delta \in Nat /\ Delta # 0
      BY TraceConstants
    <2>2. w[<<s, m>>] \in Nat
      BY WeightIsNat
    <2>3. QED
      BY <2>1, <2>2
  <1>2. g.gain > 0 /\ g.to = m
    <2>1. f[s].act = One /\ One \in Nat /\ One > 0
      BY ActivationConstants DEF SeedNodes
    <2>2. Propagated(One, w[<<s, m>>], 1, m) > 0
      BY <1>1, <2>1, PropagatedIsNat
    <2>3. QED
      BY <2>1, <2>2 DEF GainFrom
  <1>4. m \in T
    BY <1>1 DEF Targets
  <1>5. T \subseteq Node /\ IsFiniteSet(T) /\ Orders(before, T)
    BY HeavierOrders
  <1>6. out = FirstFew(T, before, Fanout)
    BY DEF Outgoing, FirstFew, Targets
  <1>7. CASE m \notin Range(out)
    <2>1. Cardinality(Ahead(T, before, m)) >= Fanout
      <3>1. Fanout \in Nat
        BY ActivationConstants
      <3> HIDE DEF T, before, out
      <3>2. QED
        BY <1>4, <1>5, <1>6, <1>7, <3>1, FirstOrCrowded
    <2>2. ASSUME NEW t \in Ahead(T, before, m) PROVE t \in U
      <3>1. t \in Node /\ <<t, m>> \in before /\ t # m
        BY <1>4, <1>5 DEF Ahead, Orders
      <3>2. w[<<s, t>>] \in Nat
        BY <3>1, WeightIsNat
      <3>3. w[<<s, t>>] >= w[<<s, m>>]
        BY <1>1, <3>1, <3>2 DEF HeavierFrom
      <3>5. Delta \in Nat
        BY TraceConstants
      <3>4. QED
        BY <1>1, <3>1, <3>2, <3>3, <3>5
    <2>3. IsFiniteSet(U)
      <3>1. U \in SUBSET Node /\ IsFiniteSet(Node)
        BY ActivationConstants
      <3>2. QED
        BY <3>1, FS_Subset
    <2>4. Fanout \in Nat
      BY ActivationConstants
    <2>5. QED
      <3> HIDE DEF U, T, before
      <3>1. Cardinality(U) >= Fanout
        BY <2>1, <2>2, <2>3, <2>4, CrowdGrows
      <3>2. QED
        BY <3>1 DEF U
  <1>8. CASE m \in Range(out)
    <2>1. Passes(w, seeds, f[s], m)
      <3> DEFINE p == <<s>>
      <3>1. f[s].path = p
        BY DEF SeedNodes
      <3>2. Range(p) = {s} /\ Len(p) = 1 /\ p[1] = s
        BY DEF Range
      <3> HIDE DEF f, p
      <3>3. QED
        BY <1>1, <3>1, <3>2 DEF Passes
    <2>2. s \in DOMAIN f
      BY DEF SeedNodes
    <2>3. g \in Gains(w, Node, seeds, f, 1)
      <3>1. PassesOn(w, Node, seeds, f, 1, s, m)
        BY <1>2, <1>8, <2>1, <2>2 DEF PassesOn
      <3> HIDE DEF f
      <3>2. QED
        BY <3>1, GainsAre
    <2>4. PICK level : /\ Levels(level, w, Node, seeds)
                       /\ SpreadTo(w, Node, seeds) = Explained(level[Steps].all)
      BY SpreadIsExplained
    <2>5. LevelsAre(level, w, Node, seeds)
      BY <2>4, LevelsFacts
    <2>6. 1 \in 1 .. Steps /\ Steps \in 0 .. Steps /\ 1 - 1 = 0
      BY ActivationConstants
    <2>7. level[1] = LevelFrom(w, Node, seeds, FirstLevel(seeds), 1)
      BY <2>5, <2>6 DEF LevelsAre
    <2>8. g \in level[1].all
      <3>1. FirstLevel(seeds).front = f
        BY DEF FirstLevel
      <3> HIDE DEF f, g
      <3>2. QED
        BY <2>3, <2>7, <3>1 DEF LevelFrom
    <2> DEFINE S == level[Steps].all
    <2>9. g \in S
      BY <2>4, <2>8, GainsStay
    <2>10. GainSet(S)
      <3>1. level[Steps] \in LevelOf
        BY <2>5, <2>6 DEF LevelsAre
      <3>2. S \in GainSets
        BY <3>1 DEF LevelOf
      <3>3. QED
        BY <3>2 DEF GainSets
    <2> HIDE DEF S, g
    <2>11. m \in DOMAIN Explained(S)
      <3>1. DOMAIN Explained(S) = {x.to : x \in S}
        BY <2>10, ExplainedFacts
      <3>2. QED
        BY <1>2, <2>9, <3>1
    <2>12. QED
      BY <2>4, <2>11 DEF S
  <1>9. QED
    BY <1>7, <1>8

\* What a spread activates.
IsNodes(f) ==
  /\ DOMAIN f \subseteq Node /\ IsFiniteSet(DOMAIN f)
  /\ \A t \in DOMAIN f : f[t].act \in Nat /\ Len(f[t].path) \in Nat

\* What recall and spread say of the candidate m: CandidateBuilder.
Shows(vis) == vis \in Seq([id : Node, score : Nat])

ScoreOf(vis, m) == IF m \in Range(IdsOf(vis)) THEN vis[CHOOSE i \in DOMAIN vis : vis[i].id = m].score ELSE 0

RankOf(vis, m) == IF m \in Range(IdsOf(vis)) THEN CHOOSE i \in DOMAIN vis : vis[i].id = m ELSE Len(vis) + 1

ActOf(nodes, latent, m) == IF m \in Range(latent) THEN nodes[m].act ELSE 0

Contenders(vis, latent) == Range(IdsOf(vis)) \cup Range(latent)

BuilderOf(vis, nodes, latent, m) ==
  [id |-> m, score |-> ScoreOf(vis, m), rank |-> RankOf(vis, m), act |-> ActOf(nodes, latent, m)]

Worth(vis, nodes, latent, maxV, maxL, m) ==
  7 * ScoreOf(vis, m) * AtLeast1(maxL) + 10 * ActOf(nodes, latent, m) * AtLeast1(maxV)

\* Of two candidates worth x and y, d comes before m.
Wins(vis, x, d, y, m) ==
  \/ x > y
  \/ x = y /\ RankOf(vis, d) < RankOf(vis, m)
  \/ x = y /\ RankOf(vis, d) = RankOf(vis, m) /\ d < m

LEMMA BuildersAre ==
  ASSUME NEW vis, NEW nodes, NEW latent
  PROVE  Builders(vis, nodes, latent) = {BuilderOf(vis, nodes, latent, m) : m \in Contenders(vis, latent)}
  BY DEF Builders, BuilderOf, Contenders, ScoreOf, RankOf, ActOf

\* Their types.
LEMMA ContenderFacts ==
  ASSUME NEW vis, Shows(vis), NEW nodes, IsNodes(nodes), NEW latent, Range(latent) \subseteq DOMAIN nodes
  PROVE  /\ Contenders(vis, latent) \subseteq Node /\ IsFiniteSet(Contenders(vis, latent))
         /\ \A m : /\ ScoreOf(vis, m) \in Nat /\ RankOf(vis, m) \in Nat
                   /\ ActOf(nodes, latent, m) \in Nat
  <1>1. /\ Len(vis) \in Nat /\ DOMAIN vis = 1 .. Len(vis)
        /\ \A i \in DOMAIN vis : vis[i].id \in Node /\ vis[i].score \in Nat
    <2> DEFINE T == [id : Node, score : Nat]
    <2>1. \A x \in T : x.id \in Node /\ x.score \in Nat
      OBVIOUS
    <2> HIDE DEF T
    <2>2. vis \in Seq(T)
      BY DEF Shows, T
    <2>3. QED
      BY <2>1, <2>2
  <1>2. \A m : m \in Range(IdsOf(vis)) <=> \E i \in DOMAIN vis : vis[i].id = m
    BY DEF Range, IdsOf
  <1>3. Range(IdsOf(vis)) \subseteq Node
    BY <1>1, <1>2
  <1>4. Contenders(vis, latent) \in SUBSET Node
    BY <1>3 DEF Contenders, IsNodes
  <1>5. IsFiniteSet(Contenders(vis, latent))
    BY <1>4, FS_Subset, ActivationConstants
  <1>6. ASSUME NEW m, m \in Range(IdsOf(vis))
        PROVE  (CHOOSE i \in DOMAIN vis : vis[i].id = m) \in DOMAIN vis
    BY <1>2, <1>6
  <1>7. \A m : ScoreOf(vis, m) \in Nat
    BY <1>1, <1>6 DEF ScoreOf
  <1>8. \A m : RankOf(vis, m) \in Nat
    BY <1>1, <1>6 DEF RankOf
  <1>9. \A m : ActOf(nodes, latent, m) \in Nat
    BY DEF ActOf, IsNodes
  <1>10. QED
    BY <1>4, <1>5, <1>7, <1>8, <1>9

LEMMA AtLeastOne == ASSUME NEW n \in Nat PROVE AtLeast1(n) = (IF n >= 1 THEN n ELSE 1) /\ AtLeast1(n) \in Nat \ {0}
  <1>1. AtLeast1(n) = IF n >= 1 THEN n ELSE 1
    BY OfTwo DEF AtLeast1
  <1>2. QED
    BY <1>1

LEMMA WorthIsNat ==
  ASSUME NEW vis, Shows(vis), NEW nodes, IsNodes(nodes), NEW latent, Range(latent) \subseteq DOMAIN nodes,
         NEW maxV \in Nat, NEW maxL \in Nat, NEW m
  PROVE  Worth(vis, nodes, latent, maxV, maxL, m) \in Nat
  <1> DEFINE a == ScoreOf(vis, m)
             b == ActOf(nodes, latent, m)
             x == AtLeast1(maxL)
             y == AtLeast1(maxV)
  <1>1. a \in Nat /\ b \in Nat /\ x \in Nat /\ y \in Nat
    BY ContenderFacts, AtLeastOne
  <1> HIDE DEF a, b, x, y
  <1>2. 7 * a \in Nat /\ 10 * b \in Nat
    BY <1>1
  <1>3. 7 * a * x \in Nat /\ 10 * b * y \in Nat
    BY <1>1, <1>2, Product
  <1>4. QED
    BY <1>3 DEF Worth, a, b, x, y

\* The values of a function on a finite set.
LEMMA ValuesAreFinite ==
  ASSUME NEW f, IsFiniteSet(DOMAIN f)
  PROVE  IsFiniteSet(Range(f))
  <1> DEFINE g == [x \in DOMAIN f |-> f[x]]
  <1>1. g \in [DOMAIN f -> Range(f)] /\ \A y \in Range(f) : \E x \in DOMAIN f : g[x] = y
    BY DEF Range
  <1> HIDE DEF g
  <1>2. g \in Surjection(DOMAIN f, Range(f))
    BY <1>1 DEF Surjection
  <1>3. QED
    BY <1>2, FS_Surjection

\* A memory that the spread found is a candidate, unless the report is full.
LEMMA FoundIsListed ==
  ASSUME NEW vis, Shows(vis), NEW nodes, IsNodes(nodes), NEW latent, Range(latent) \subseteq DOMAIN nodes,
         NEW t \in Range(latent)
  PROVE  LET r == MergeCandidates(vis, nodes, latent)
         IN  t \in Range(IdsOf(r)) \/ Len(r) = 1 + SuppressedLimit
  <1> DEFINE C == Contenders(vis, latent)
             r == MergeCandidates(vis, nodes, latent)
             b(m) == BuilderOf(vis, nodes, latent, m)
             bs == Builders(vis, nodes, latent)
             scores == {x.score : x \in bs}
             acts == {x.act : x \in bs}
             V == Max({0} \cup scores)
             M == Max({0} \cup acts)
             worth(m) == Worth(vis, nodes, latent, V, M, m)
  <1>1. /\ C \subseteq Node /\ IsFiniteSet(C)
        /\ \A m : /\ ScoreOf(vis, m) \in Nat /\ RankOf(vis, m) \in Nat
                  /\ ActOf(nodes, latent, m) \in Nat
    BY ContenderFacts
  <1>2. bs = {b(m) : m \in C}
    BY BuildersAre
  <1>3. \A m : /\ b(m).id = m /\ b(m).score = ScoreOf(vis, m) /\ b(m).rank = RankOf(vis, m)
               /\ b(m).act = ActOf(nodes, latent, m)
    BY DEF BuilderOf
  <1> HIDE DEF C, b, bs
  <1>4. IsFiniteSet(bs) /\ IsFiniteSet(scores) /\ IsFiniteSet(acts)
    <2> DEFINE f == [m \in C |-> b(m)]
               g == [m \in C |-> b(m).score]
               h == [m \in C |-> b(m).act]
    <2>1. DOMAIN f = C /\ DOMAIN g = C /\ DOMAIN h = C
      OBVIOUS
    <2>2. bs = Range(f)
      BY <1>2 DEF Range
    <2>3. scores = Range(g)
      BY <1>2 DEF Range
    <2>4. acts = Range(h)
      BY <1>2 DEF Range
    <2> HIDE DEF f, g, h
    <2>5. IsFiniteSet(Range(f)) /\ IsFiniteSet(Range(g)) /\ IsFiniteSet(Range(h))
      BY <1>1, <2>1, ValuesAreFinite
    <2>6. QED
      BY <2>2, <2>3, <2>4, <2>5
  <1>5. (\A x \in scores : x \in Nat) /\ (\A x \in acts : x \in Nat)
    BY <1>1, <1>2, <1>3
  <1> HIDE DEF scores, acts
  <1>6. V \in Nat /\ M \in Nat
    BY <1>4, <1>5, GreatestOrNone
  <1> DEFINE of(x) == Competition(x, V, M)
             before == {e \in bs \X bs :
                          \/ of(e[1]) > of(e[2])
                          \/ of(e[1]) = of(e[2]) /\ e[1].rank < e[2].rank
                          \/ of(e[1]) = of(e[2]) /\ e[1].rank = e[2].rank /\ e[1].id < e[2].id}
  <1>7. r = FirstFew(bs, before, 1 + SuppressedLimit)
    BY DEF MergeCandidates, FirstFew, Upto, bs, scores, acts
  <1> HIDE DEF r, V, M
  <1>8. \A m : of(b(m)) = worth(m)
    BY <1>3 DEF Competition, Worth
  <1> HIDE DEF of
  <1>9. \A m : worth(m) \in Nat
    BY <1>6, WorthIsNat
  <1> HIDE DEF worth
  <1>10. \A m, n \in C : <<b(m), b(n)>> \in before <=> Wins(vis, worth(m), m, worth(n), n)
    <2> TAKE m, n \in C
    <2>1. b(m) \in bs /\ b(n) \in bs
      BY <1>2
    <2>2. <<b(m), b(n)>> \in before <=>
            \/ of(b(m)) > of(b(n))
            \/ of(b(m)) = of(b(n)) /\ b(m).rank < b(n).rank
            \/ of(b(m)) = of(b(n)) /\ b(m).rank = b(n).rank /\ b(m).id < b(n).id
      BY <2>1
    <2>3. QED
      BY <1>3, <1>8, <2>2 DEF Wins
  <1> HIDE DEF before
  <1>11. \A m : RankOf(vis, m) \in Nat /\ ScoreOf(vis, m) \in Nat
    BY <1>1
  <1>12. C \subseteq Nat
    BY <1>1, ActivationConstants
  <1>13. Orders(before, bs)
    <2>1. \A m \in C : ~Wins(vis, worth(m), m, worth(m), m)
      BY <1>9, <1>11, <1>12 DEF Wins
    <2>2. \A m, n, o \in C : Wins(vis, worth(m), m, worth(n), n) /\ Wins(vis, worth(n), n, worth(o), o)
                               => Wins(vis, worth(m), m, worth(o), o)
      <3> TAKE m, n, o \in C
      <3>1. /\ worth(m) \in Nat /\ worth(n) \in Nat /\ worth(o) \in Nat
            /\ RankOf(vis, m) \in Nat /\ RankOf(vis, n) \in Nat /\ RankOf(vis, o) \in Nat
            /\ m \in Nat /\ n \in Nat /\ o \in Nat
        BY <1>9, <1>11, <1>12
      <3>2. QED
        BY <3>1 DEF Wins
    <2>3. \A m, n \in C : m = n \/ Wins(vis, worth(m), m, worth(n), n) \/ Wins(vis, worth(n), n, worth(m), m)
      <3> TAKE m, n \in C
      <3>1. /\ worth(m) \in Nat /\ worth(n) \in Nat /\ RankOf(vis, m) \in Nat /\ RankOf(vis, n) \in Nat
            /\ m \in Nat /\ n \in Nat
        BY <1>9, <1>11, <1>12
      <3>2. QED
        BY <3>1 DEF Wins
    <2>4. \A x \in bs : \E m \in C : x = b(m)
      BY <1>2
    <2>5. \A x \in bs : <<x, x>> \notin before
      BY <1>10, <2>1, <2>4
    <2>6. \A x, y, z \in bs : <<x, y>> \in before /\ <<y, z>> \in before => <<x, z>> \in before
      <3> TAKE x, y, z \in bs
      <3>1. PICK m \in C, n \in C, o \in C : x = b(m) /\ y = b(n) /\ z = b(o)
        BY <2>4
      <3>2. QED
        BY <1>10, <2>2, <3>1
    <2>7. \A x, y \in bs : x = y \/ <<x, y>> \in before \/ <<y, x>> \in before
      <3> TAKE x, y \in bs
      <3>1. PICK m \in C, n \in C : x = b(m) /\ y = b(n)
        BY <2>4
      <3>2. QED
        BY <1>10, <2>3, <3>1
    <2>8. QED
      BY <2>5, <2>6, <2>7 DEF Orders
  <1>14. t \in C
    BY DEF C, Contenders
  <1>15. b(t) \in bs /\ b(t).id = t
    BY <1>2, <1>3, <1>14
  <1>16. b(t) \in Range(r) \/ Len(r) = 1 + SuppressedLimit
    <2> DEFINE k == 1 + SuppressedLimit
    <2>1. k \in Nat
      BY CandidatesConstants
    <2> HIDE DEF k
    <2>2. r = FirstFew(bs, before, k)
      BY <1>7 DEF k
    <2>3. b(t) \in Range(r) \/ Len(r) = k
      BY <1>4, <1>13, <1>15, <2>1, <2>2, FirstOrCrowded
    <2>4. QED
      BY <2>3 DEF k
  <1>17. b(t) \in Range(r) => t \in Range(IdsOf(r))
    BY <1>15 DEF Range, IdsOf
  <1>18. QED
    BY <1>16, <1>17 DEF r

\* The beginning of a list.
LEMMA UptoFacts ==
  ASSUME NEW S, NEW s \in Seq(S), NEW n \in Nat
  PROVE  Upto(s, n) \in Seq(S) /\ Range(Upto(s, n)) \subseteq Range(s)
  <1> DEFINE m == Min({n, Len(s)})
  <1>1. Len(s) \in Nat /\ DOMAIN s = 1 .. Len(s)
    BY LenProperties
  <1>2. m \in Nat /\ m <= Len(s)
    <2> DEFINE len == Len(s)
    <2>1. m = (IF n <= len THEN n ELSE len) /\ len \in Nat
      BY <1>1, MinOfTwo
    <2> HIDE DEF m, len
    <2>2. m \in Nat /\ m <= len
      BY <2>1
    <2>3. QED
      BY <2>2 DEF len
  <1>3. Upto(s, n) = SubSeq(s, 1, m)
    BY DEF Upto
  <1> HIDE DEF m
  <1>4. SubSeq(s, 1, m) \in Seq(S)
    BY <1>1, <1>2
  <1>5. /\ DOMAIN SubSeq(s, 1, m) = 1 .. m
        /\ \A i \in 1 .. m : SubSeq(s, 1, m)[i] = s[i] /\ i \in DOMAIN s
    BY <1>2, Beginning
  <1>6. QED
    BY <1>3, <1>4, <1>5 DEF Range

LEMMA LimitsArePositive ==
  /\ AtLeast1(VisibleLimit) \in Nat \ {0} /\ AtLeast1(SeedLimit) \in Nat \ {0}
  /\ AtLeast1(LatentLimit) \in Nat \ {0}
  BY TraceConstants, AtLeastOne

\* What a recall shows are memories and their scores, in any order of ties.
LEMMA AnswersAreShown ==
  ASSUME NEW hs \in Answers, NEW s \in ByScore({h \in hs : h.id \in live}), NEW limit \in Nat
  PROVE  Shows(Upto(s, limit))
  <1> DEFINE T == [id : Node, score : Nat]
             S == {h \in hs : h.id \in live}
             n == Cardinality(S)
  <1>1. hs \in SUBSET T /\ IsFiniteSet(hs)
    BY TraceConstants
  <1>2. S \in SUBSET hs /\ S \in SUBSET T
    BY <1>1
  <1> HIDE DEF T
  <1>3. s \in [1 .. n -> S]
    BY DEF ByScore, SetToSeqs
  <1> HIDE DEF S
  <1>4. n \in Nat
    BY <1>1, <1>2, FS_Subset, FS_CardinalityType
  <1> HIDE DEF n
  <1>5. s \in [1 .. n -> T]
    BY <1>2, <1>3
  <1>6. s \in Seq(T)
    BY <1>4, <1>5, SequenceOfLength
  <1>7. QED
    BY <1>6, UptoFacts DEF Shows, T

\* The seeds are among them.
LEMMA SeedsAreNodes == ASSUME Shows(visible) PROVE TraceSeeds \in SUBSET Node
  <1> DEFINE T == [id : Node, score : Nat]
             ids == IdsOf(visible)
  <1>1. \A x \in T : x.id \in Node
    OBVIOUS
  <1> HIDE DEF T
  <1>2. visible \in Seq(T)
    BY DEF Shows, T
  <1>3. Len(visible) \in Nat /\ DOMAIN visible = 1 .. Len(visible) /\ \A i \in DOMAIN visible : visible[i] \in T
    BY <1>2
  <1>4. ids = [i \in 1 .. Len(visible) |-> visible[i].id]
    BY <1>3 DEF IdsOf
  <1>5. ids \in [1 .. Len(visible) -> Node]
    BY <1>1, <1>3, <1>4
  <1> HIDE DEF ids
  <1>6. ids \in Seq(Node)
    BY <1>3, <1>5, SequenceOfLength
  <1>7. Range(ids) \subseteq Node
    BY <1>5 DEF Range
  <1>8. Range(Upto(ids, AtLeast1(SeedLimit))) \subseteq Range(ids)
    BY <1>6, UptoFacts, LimitsArePositive
  <1>9. QED
    BY <1>7, <1>8 DEF TraceSeeds, ids

\* What a reinforcement has tied together is held by edges of at least what
\* it adds.
HeldTogether(group) == group \subseteq Node /\ \A a, b \in group : a # b => weight[<<a, b>>] >= Delta

\* The report is that of the graph as it is.
Competes ==
  LET nodes == SpreadTo(weight, Node, TraceSeeds)
  IN  report = MergeCandidates(visible, nodes, Strongest(nodes, AtLeast1(LatentLimit)))

\* The continuation of the dominant memory on the graph as it is.
Continues ==
  prediction = IF report = <<>> \/ PredictK = 0 THEN <<>>
               ELSE Strongest(SpreadTo(weight, live, {report[1].id}), PredictK)

TraceInv ==
  /\ live \subseteq Node
  /\ quiet => live = Node /\ weight \in Weights
  /\ quiet => \A group \in ties : HeldTogether(group)
  /\ pc \in {"trace", "reinforce"} => Shows(visible) /\ learned = {}
  /\ pc = "reinforce" /\ quiet => Competes
  /\ pc \in {"predict", "predicted"} /\ learned # {} =>
       report # <<>> /\ report[1].id \in learned /\ learned \in ties
  /\ pc = "predicted" /\ quiet => Continues

LEMMA TraceInvInit == TraceInit => TraceInv
  <1> SUFFICES ASSUME TraceInit PROVE TraceInv
    OBVIOUS
  <1>1. weight \in Weights
    <2>1. TraceEdges \in SUBSET (Node \X Node) /\ TraceWeights \in SUBSET Nat
      BY TraceConstants
    <2>2. QED
      BY <2>1, GraphAtTheStart DEF TraceInit
  <1>2. QED
    BY <1>1 DEF TraceInit, TraceInv

\* A reinforcement ties together what it has learned, and loosens nothing.
LEMMA ReinforceTies == ASSUME TraceInv, Reinforce PROVE TraceInv'
  <1> DEFINE ids == IdsToReinforce
             at(e) == weight[e] + IF {e[1], e[2]} \subseteq ids /\ e[1] # e[2] THEN Delta ELSE 0
  <1>1. /\ pc = "reinforce" /\ report # <<>> /\ live' = live /\ report' = report /\ quiet' = quiet
        /\ visible' = visible
    BY DEF Reinforce
  <1>2. /\ learned = {} /\ live \subseteq Node /\ (quiet => live = Node /\ weight \in Weights)
        /\ (quiet => \A group \in ties : HeldTogether(group)) /\ Shows(visible)
    BY <1>1 DEF TraceInv
  <1>3. CASE ids \subseteq live
    <2>1. /\ weight' = [e \in Node \X Node |-> at(e)] /\ learned' = ids /\ pc' = "predict"
          /\ ties' = ties \cup {ids}
      BY <1>3 DEF Reinforce, Strengthen
    <2>2. report[1].id \in ids /\ ids \subseteq Node
      BY <1>2, <1>3 DEF IdsToReinforce
    <2> HIDE DEF ids
    <2>3. Delta \in Nat
      BY TraceConstants
    <2>4. ASSUME quiet PROVE \A e \in Node \X Node :
            /\ weight[e] \in Nat /\ at(e) \in Nat /\ at(e) >= weight[e]
            /\ ({e[1], e[2]} \subseteq ids /\ e[1] # e[2] => at(e) >= Delta)
      BY <1>2, <2>3, <2>4 DEF Weights
    <2> HIDE DEF at
    <2>5. quiet => weight' \in Weights
      BY <2>1, <2>4 DEF Weights
    <2>6. quiet => \A a, b \in ids : a # b => weight'[<<a, b>>] >= Delta
      BY <2>1, <2>2, <2>4
    <2>7. ASSUME quiet, NEW group \in ties PROVE HeldTogether(group)'
      <3>1. HeldTogether(group)
        BY <1>2, <2>7
      <3>2. ASSUME NEW a \in group, NEW b \in group, a # b PROVE weight'[<<a, b>>] >= Delta
        <4> DEFINE e == <<a, b>>
        <4>1. e \in Node \X Node /\ weight[e] >= Delta
          BY <3>1, <3>2 DEF HeldTogether
        <4> HIDE DEF e
        <4>2. weight'[e] = at(e)
          BY <2>1, <4>1
        <4>3. weight[e] \in Nat /\ at(e) \in Nat /\ at(e) >= weight[e]
          BY <2>4, <2>7, <4>1
        <4>4. weight'[e] >= Delta
          BY <2>3, <4>1, <4>2, <4>3
        <4>5. QED
          BY <4>4 DEF e
      <3>3. QED
        BY <3>1, <3>2 DEF HeldTogether
    <2>8. ASSUME quiet, NEW group \in ties' PROVE HeldTogether(group)'
      <3>1. CASE group \in ties
        BY <2>7, <2>8, <3>1
      <3>2. CASE group = ids
        BY <2>2, <2>6, <2>8, <3>2 DEF HeldTogether
      <3>3. QED
        BY <2>1, <2>8, <3>1, <3>2
    <2>9. report'[1].id \in learned' /\ learned' \in ties'
      BY <1>1, <2>1, <2>2
    <2>10. QED
      BY <1>1, <1>2, <2>1, <2>5, <2>8, <2>9 DEF TraceInv
  <1>4. CASE ~(ids \subseteq live)
    <2>1. pc' = "idle" /\ weight' = weight /\ learned' = learned /\ ties' = ties
      BY <1>4 DEF Reinforce
    <2>2. \A group : HeldTogether(group) => HeldTogether(group)'
      BY <2>1 DEF HeldTogether
    <2>3. QED
      BY <1>1, <1>2, <2>1, <2>2 DEF TraceInv
  <1>5. QED
    BY <1>3, <1>4

LEMMA TraceInvStep == TraceInv /\ [TraceNext]_traceVars => TraceInv'
  <1> SUFFICES ASSUME TraceInv, [TraceNext]_traceVars PROVE TraceInv'
    OBVIOUS
  <1>1. CASE Reinforce
    BY <1>1, ReinforceTies
  <1> DEFINE Held == UNCHANGED <<live, weight, quiet, ties>>
  <1>2. Held => \A group : HeldTogether(group) => HeldTogether(group)'
    BY DEF HeldTogether
  <1>3. CASE StartTrace \/ StartProbe
    <2>1. /\ Held /\ learned' = {}
          /\ (pc' = "trace" /\ StartTrace) \/ pc' = "probe"
      BY <1>3 DEF StartTrace, StartProbe, RecallVisible
    <2>2. StartTrace => Shows(visible')
      <3> SUFFICES ASSUME StartTrace PROVE Shows(visible')
        OBVIOUS
      <3> DEFINE limit == AtLeast1(VisibleLimit)
      <3>1. PICK hs \in Answers : \E s \in ByScore({h \in hs : h.id \in live}) : visible' = Upto(s, limit)
        BY DEF StartTrace, RecallVisible
      <3>2. PICK s \in ByScore({h \in hs : h.id \in live}) : visible' = Upto(s, limit)
        BY <3>1
      <3>3. limit \in Nat
        BY LimitsArePositive
      <3> HIDE DEF limit
      <3>4. QED
        BY <3>2, <3>3, AnswersAreShown
    <2>3. Shows(visible)' <=> Shows(visible')
      BY DEF Shows
    <2>4. QED
      BY <1>2, <2>1, <2>2, <2>3 DEF TraceInv
  <1>4. CASE Compete
    <2>1. /\ Held /\ UNCHANGED <<learned, visible>>
          /\ pc = "trace" /\ pc' = "reinforce"
      BY <1>4 DEF Compete, storeVars
    <2>2. quiet => Competes'
      <3>1. live = Node => Competes'
        BY <1>4, <2>1 DEF Compete, Competes, TraceSeeds
      <3>2. QED
        BY <3>1 DEF TraceInv
    <2>3. Shows(visible) => Shows(visible)'
      BY <2>1 DEF Shows
    <2>4. QED
      BY <1>2, <2>1, <2>2, <2>3 DEF TraceInv
  <1>5. CASE SkipReinforce
    <2>1. Held /\ UNCHANGED <<learned, report>> /\ pc = "reinforce" /\ pc' = "predict"
      BY <1>5 DEF SkipReinforce, storeVars
    <2>2. QED
      BY <1>2, <2>1 DEF TraceInv
  <1>6. CASE Predict
    <2>1. Held /\ UNCHANGED <<learned, report>> /\ pc = "predict" /\ pc' = "predicted"
      BY <1>6 DEF Predict, storeVars
    <2>2. Continues'
      BY <1>6, <2>1 DEF Predict, Continues
    <2>3. QED
      BY <1>2, <2>1, <2>2 DEF TraceInv
  <1>7. CASE Finish \/ Probe
    <2>1. Held /\ pc' = "idle"
      BY <1>7 DEF Finish, Probe, storeVars
    <2>2. QED
      BY <1>2, <2>1 DEF TraceInv
  <1>8. CASE OthersInBetween
    <2>1. quiet' = FALSE /\ UNCHANGED <<learned, pc, report, visible, ties>>
      BY <1>8 DEF OthersInBetween, callVars
    <2>2. live' \subseteq Node
      BY <1>8 DEF OthersInBetween, ByOthers, TraceInv
    <2>3. Shows(visible) => Shows(visible)'
      BY <2>1 DEF Shows
    <2>4. QED
      BY <2>1, <2>2, <2>3 DEF TraceInv
  <1>9. CASE UNCHANGED traceVars
    <2>1. Held /\ UNCHANGED <<pc, visible, report, prediction, learned>>
      BY <1>9 DEF traceVars, storeVars, callVars
    <2>2. (Competes => Competes') /\ (Continues => Continues') /\ (Shows(visible) => Shows(visible)')
      BY <2>1 DEF Competes, Continues, Shows, TraceSeeds
    <2>3. QED
      BY <1>2, <2>1, <2>2 DEF TraceInv
  <1>10. QED
    BY <1>1, <1>3, <1>4, <1>5, <1>6, <1>7, <1>8, <1>9 DEF TraceNext

\* What is tied to the dominant memory is in its continuation.
LEMMA TiesArePredicted == TraceInv => LearnedIsPredicted
  <1> SUFFICES ASSUME TraceInv, pc = "predicted", learned # {}, quiet,
                      NEW m \in learned \ {report[1].id}
               PROVE  \/ m \in Range(prediction)
                      \/ Len(prediction) = PredictK
                      \/ FanoutTaken(report[1].id, m)
    BY DEF LearnedIsPredicted
  <1> DEFINE d == report[1].id
             nodes == SpreadTo(weight, Node, {d})
  <1>1. /\ live = Node /\ weight \in Weights /\ report # <<>>
        /\ d \in learned /\ HeldTogether(learned)
    BY DEF TraceInv
  <1>2. d \in Node /\ m \in Node /\ m # d /\ weight[<<d, m>>] >= Delta
    BY <1>1 DEF HeldTogether
  <1>3. PredictK \in Nat
    BY TraceConstants
  <1>4. CASE PredictK = 0
    <2>1. prediction = <<>>
      BY <1>4 DEF TraceInv, Continues
    <2>2. Len(prediction) = 0
      BY <2>1
    <2>3. QED
      BY <1>4, <2>2
  <1>5. CASE PredictK # 0
    <2>1. prediction = Strongest(nodes, PredictK)
      BY <1>1, <1>5 DEF TraceInv, Continues
    <2>2. /\ DOMAIN nodes \subseteq Node /\ IsFiniteSet(DOMAIN nodes)
          /\ \A t \in DOMAIN nodes : nodes[t].act \in Nat /\ Len(nodes[t].path) \in Nat
      BY <1>1, <1>2, SpreadFacts DEF Value
    <2>3. m \in DOMAIN nodes => m \in Range(prediction) \/ Len(prediction) = PredictK
      <3> HIDE DEF nodes
      <3>1. QED
        BY <1>3, <2>1, <2>2, StrongestFacts
    <2>4. m \in DOMAIN nodes \/ FanoutTaken(d, m)
      <3> DEFINE seeds == {d}
      <3>1. seeds \in SUBSET Node /\ d \in seeds /\ m \in Node \ seeds
        BY <1>2
      <3> HIDE DEF d, seeds
      <3>2. m \in DOMAIN SpreadTo(weight, Node, seeds) \/ FanoutTaken(d, m)
        BY <1>1, <1>2, <3>1, NeighbourIsReached DEF FanoutTaken
      <3>3. QED
        BY <3>2 DEF seeds
    <2>5. QED
      BY <2>3, <2>4
  <1>6. QED
    BY <1>4, <1>5

\* What is tied to a seed is among the candidates.
LEMMA TiesAreFoundAgain == TraceInv => LearnedIsFoundAgain
  <1> SUFFICES ASSUME TraceInv, pc = "reinforce", quiet, NEW group \in ties,
                      NEW s \in group \cap TraceSeeds, NEW m \in group \ TraceSeeds
               PROVE  \/ m \in Range(IdsOf(report))
                      \/ Len(report) = 1 + SuppressedLimit
                      \/ Cardinality(DOMAIN SpreadTo(weight, live, TraceSeeds)) > AtLeast1(LatentLimit)
                      \/ FanoutTaken(s, m)
    BY DEF LearnedIsFoundAgain
  <1> DEFINE seeds == TraceSeeds
             k == AtLeast1(LatentLimit)
             nodes == SpreadTo(weight, Node, seeds)
             latent == Strongest(nodes, k)
  <1>1. live = Node /\ weight \in Weights /\ HeldTogether(group) /\ Shows(visible)
    BY DEF TraceInv
  <1>2. report = MergeCandidates(visible, nodes, latent)
    BY DEF TraceInv, Competes
  <1>3. seeds \in SUBSET Node /\ s \in seeds /\ m \in Node \ seeds /\ weight[<<s, m>>] >= Delta
    BY <1>1, SeedsAreNodes DEF HeldTogether
  <1>4. k \in Nat
    BY LimitsArePositive
  <1> HIDE DEF seeds, k
  <1>5. /\ DOMAIN nodes \subseteq Node /\ IsFiniteSet(DOMAIN nodes)
        /\ \A t \in DOMAIN nodes : nodes[t] \in Value /\ Len(nodes[t].path) \in Nat
    BY <1>1, <1>3, SpreadFacts
  <1>6. m \in DOMAIN nodes \/ FanoutTaken(s, m)
    BY <1>1, <1>3, NeighbourIsReached DEF FanoutTaken
  <1> HIDE DEF nodes
  <1>7. \A t \in DOMAIN nodes : nodes[t].act \in Nat
    BY <1>5 DEF Value
  <1>8. /\ Range(latent) \subseteq DOMAIN nodes
        /\ \A t \in DOMAIN nodes : \/ t \in Range(latent)
                                   \/ Cardinality({u \in DOMAIN nodes \ {t} : nodes[u].act >= nodes[t].act}) >= k
    BY <1>4, <1>5, <1>7, StrongestFacts
  <1> HIDE DEF latent
  <1>9. CASE m \in DOMAIN nodes /\ m \notin Range(latent)
    <2> DEFINE D == DOMAIN nodes
               others == D \ {m}
               ahead == {u \in others : nodes[u].act >= nodes[m].act}
    <2>1. Cardinality(ahead) >= k
      BY <1>8, <1>9
    <2>2. IsFiniteSet(others) /\ Cardinality(others) = Cardinality(D) - 1
      BY <1>5, <1>9, FS_RemoveElement
    <2>3. ahead \in SUBSET others
      OBVIOUS
    <2> HIDE DEF ahead, others, D
    <2>4. Cardinality(others) >= k
      BY <1>4, <2>1, <2>2, <2>3, CrowdGrows
    <2>5. Cardinality(D) \in Nat
      BY <1>5, FS_CardinalityType DEF D
    <2>6. Cardinality(D) > k
      BY <1>4, <2>2, <2>4, <2>5
    <2>7. QED
      BY <1>1, <2>6 DEF D, nodes, seeds, k
  <1>10. CASE m \in Range(latent)
    <2>1. IsNodes(nodes)
      BY <1>5 DEF IsNodes, Value
    <2>2. m \in Range(IdsOf(report)) \/ Len(report) = 1 + SuppressedLimit
      BY <1>1, <1>2, <1>8, <1>10, <2>1, FoundIsListed
    <2>3. QED
      BY <2>2
  <1>11. QED
    BY <1>6, <1>9, <1>10

\* What a trace has just learned shows in its continuation, one half of
\* LearningShows: reinforce_trace_report and predict_continuation, for every
\* graph, whatever a recall finds and in which order it puts ties, and for
\* all limits.
THEOREM TraceLearnedIsPredicted == TraceSpec => []LearnedIsPredicted
  <1>1. TraceInit => TraceInv
    BY TraceInvInit
  <1>2. TraceInv /\ [TraceNext]_traceVars => TraceInv'
    BY TraceInvStep
  <1>3. TraceInv => LearnedIsPredicted
    BY TiesArePredicted
  <1>4. QED
    BY <1>1, <1>2, <1>3, PTL DEF TraceSpec

\* What traces have learned shows from then on: in the continuation of the
\* trace that learned, and in the competition of every later one, of
\* whatever query, that a memory of the reinforced group seeds.
THEOREM TraceLearningShows == TraceSpec => []LearningShows
  <1>1. TraceInit => TraceInv
    BY TraceInvInit
  <1>2. TraceInv /\ [TraceNext]_traceVars => TraceInv'
    BY TraceInvStep
  <1>3. TraceInv => LearningShows
    BY TiesArePredicted, TiesAreFoundAgain DEF LearningShows
  <1>4. QED
    BY <1>1, <1>2, <1>3, PTL DEF TraceSpec

-----------------------------------------------------------------------------
(* A spread stays where it starts, and looks no further.                   *)

\* The same edges are followed in the same order.
LEMMA OutgoingOfSame ==
  ASSUME NEW v, NEW w, NEW l, NEW s, \A t \in Node : v[<<s, t>>] = w[<<s, t>>]
  PROVE  Outgoing(v, l, s) = Outgoing(w, l, s)
  <1> DEFINE less(x) == HeavierFrom(x, s)
             from(x) == {t \in Node : s # t /\ {s, t} \subseteq l /\ x[<<s, t>>] # 0}
             first(T, before) == LET sorted == Ranked(T, before)
                                 IN  SubSeq(sorted, 1, Min({Fanout, Len(sorted)}))
  <1>1. less(v) = less(w)
    BY DEF HeavierFrom
  <1>2. from(v) = from(w)
    OBVIOUS
  <1>3. Outgoing(w, l, s) = first(from(w), less(w)) /\ Outgoing(v, l, s) = first(from(v), less(v))
    BY DEF Outgoing
  <1> HIDE DEF less, from, first
  <1>4. QED
    BY <1>1, <1>2, <1>3

\* From the memories of C no edge leads out of it, and v and w do not differ
\* in their edges.
SameFrom(v, w, C) ==
  /\ C \subseteq Node
  /\ \A s \in C : \A t \in Node : v[<<s, t>>] = w[<<s, t>>] /\ (t \notin C => w[<<s, t>>] = 0)

LEMMA OutgoingIsLocal ==
  ASSUME NEW v \in Weights, NEW w \in Weights, NEW C, SameFrom(v, w, C), NEW l, NEW s \in C
  PROVE  Outgoing(v, l, s) = Outgoing(w, l, s) /\ Range(Outgoing(w, l, s)) \subseteq C
  <1> DEFINE out == Outgoing(w, l, s)
  <1>1. Outgoing(v, l, s) = out
    BY OutgoingOfSame DEF SameFrom
  <1>2. s \in Node
    BY DEF SameFrom
  <1>3. \A i \in DOMAIN out : out[i] \in Targets(w, l, s)
    BY <1>2, OutgoingFacts
  <1>4. Targets(w, l, s) \subseteq C
    BY DEF Targets, SameFrom
  <1> HIDE DEF out
  <1>5. Range(out) \subseteq C
    BY <1>3, <1>4 DEF Range
  <1>6. QED
    BY <1>1, <1>5 DEF out

LEMMA GainsAreLocal ==
  ASSUME NEW v \in Weights, NEW w \in Weights, NEW C, SameFrom(v, w, C), NEW l, NEW seeds,
         NEW f, IsFrontier(f), DOMAIN f \subseteq C, NEW depth0
  PROVE  /\ Gains(v, l, seeds, f, depth0) = Gains(w, l, seeds, f, depth0)
         /\ \A g \in Gains(w, l, seeds, f, depth0) : g.to \in C
  <1>1. ASSUME NEW s \in DOMAIN f, NEW t, t \in C
        PROVE  GainFrom(v, f, depth0, s, t) = GainFrom(w, f, depth0, s, t)
    <2>1. v[<<s, t>>] = w[<<s, t>>]
      BY <1>1 DEF SameFrom
    <2>2. QED
      BY <2>1 DEF GainFrom
  <1>2. \A s \in DOMAIN f : /\ Outgoing(v, l, s) = Outgoing(w, l, s)
                            /\ Range(Outgoing(w, l, s)) \subseteq C
    BY OutgoingIsLocal
  <1>3. ASSUME NEW s \in DOMAIN f, NEW t, t \in C
        PROVE  Passes(v, seeds, f[s], t) <=> Passes(w, seeds, f[s], t)
    <2>1. f[s].path[Len(f[s].path)] = s
      BY DEF IsFrontier
    <2>2. v[<<s, t>>] = w[<<s, t>>]
      BY <1>3 DEF SameFrom
    <2>3. QED
      BY <2>1, <2>2 DEF Passes
  <1>4. \A s, t : PassesOn(w, l, seeds, f, depth0, s, t) => s \in DOMAIN f /\ t \in C
    BY <1>2 DEF PassesOn
  <1>5. \A s, t : PassesOn(v, l, seeds, f, depth0, s, t) => s \in DOMAIN f /\ t \in C
    BY <1>2 DEF PassesOn
  <1>6. \A s, t : PassesOn(v, l, seeds, f, depth0, s, t) <=> PassesOn(w, l, seeds, f, depth0, s, t)
    <2> SUFFICES ASSUME NEW s \in DOMAIN f, NEW t, t \in C
                 PROVE  PassesOn(v, l, seeds, f, depth0, s, t) <=> PassesOn(w, l, seeds, f, depth0, s, t)
      BY <1>4, <1>5
    <2>1. QED
      BY <1>1, <1>2, <1>3 DEF PassesOn
  <1>7. \A g : g \in Gains(v, l, seeds, f, depth0) <=> g \in Gains(w, l, seeds, f, depth0)
    <2> TAKE g
    <2>1. \A s, t : PassesOn(w, l, seeds, f, depth0, s, t) =>
            GainFrom(v, f, depth0, s, t) = GainFrom(w, f, depth0, s, t)
      BY <1>1, <1>4
    <2>2. QED
      BY <1>6, <2>1, GainsAre
  <1>8. \A g \in Gains(w, l, seeds, f, depth0) : g.to \in C
    <2> TAKE g \in Gains(w, l, seeds, f, depth0)
    <2>1. PICK s, t : g = GainFrom(w, f, depth0, s, t) /\ PassesOn(w, l, seeds, f, depth0, s, t)
      BY GainsAre
    <2>2. QED
      BY <1>4, <2>1 DEF GainFrom
  <1>9. QED
    BY <1>7, <1>8

\* A level stays in C.
Within(x, C) == DOMAIN x.front \subseteq C /\ \A g \in x.all : g.to \in C

LEMMA LevelIsLocal ==
  ASSUME NEW v \in Weights, NEW w \in Weights, NEW C, SameFrom(v, w, C), NEW l, NEW seeds,
         NEW x \in LevelOf, Within(x, C), NEW d
  PROVE  /\ LevelFrom(v, l, seeds, x, d) = LevelFrom(w, l, seeds, x, d)
         /\ Within(LevelFrom(w, l, seeds, x, d), C)
  <1> DEFINE f == x.front
             S == Gains(w, l, seeds, f, d)
  <1>1. IsFrontier(f) /\ DOMAIN f \subseteq C
    BY DEF LevelOf, Fronts, Within
  <1>2. Gains(v, l, seeds, f, d) = S /\ \A g \in S : g.to \in C
    BY <1>1, GainsAreLocal
  <1>3. GainSet(S)
    BY <1>1, GainsFacts
  <1> HIDE DEF S
  <1>4. DOMAIN Explained(S) = {g.to : g \in S}
    BY <1>3, ExplainedFacts
  <1>5. LevelFrom(w, l, seeds, x, d) = [front |-> Explained(S), all |-> x.all \cup S]
    BY DEF LevelFrom, S
  <1>6. LevelFrom(v, l, seeds, x, d) = [front |-> Explained(S), all |-> x.all \cup S]
    BY <1>2 DEF LevelFrom
  <1>7. \A g \in x.all \cup S : g.to \in C
    BY <1>2 DEF Within
  <1>8. QED
    BY <1>2, <1>4, <1>5, <1>6, <1>7 DEF Within

\* A spread from C activates memories of C alone, and edges from other
\* memories make no difference to it: SpreadTo.
THEOREM SpreadIsLocal ==
  ASSUME NEW v \in Weights, NEW w \in Weights, NEW C, SameFrom(v, w, C), NEW l,
         NEW seeds, seeds \subseteq C
  PROVE  SpreadTo(v, l, seeds) = SpreadTo(w, l, seeds) /\ DOMAIN SpreadTo(w, l, seeds) \subseteq C
  <1>1. seeds \in SUBSET Node
    BY DEF SameFrom
  <1>2. PICK xs : Levels(xs, v, l, seeds) /\ SpreadTo(v, l, seeds) = Explained(xs[Steps].all)
    BY <1>1, SpreadIsExplained
  <1>3. PICK ys : Levels(ys, w, l, seeds) /\ SpreadTo(w, l, seeds) = Explained(ys[Steps].all)
    BY <1>1, SpreadIsExplained
  <1>4. LevelsAre(xs, v, l, seeds) /\ LevelsAre(ys, w, l, seeds)
    BY <1>1, <1>2, <1>3, LevelsFacts
  <1> DEFINE n == Steps
             same(d) == xs[d] = ys[d] /\ Within(ys[d], C)
             P == {d \in 0 .. n : same(d)}
  <1>5. n \in Nat
    BY ActivationConstants
  <1>6. same(0)
    <2>1. xs[0] = FirstLevel(seeds) /\ ys[0] = FirstLevel(seeds)
      BY <1>4 DEF LevelsAre
    <2>2. Within(FirstLevel(seeds), C)
      BY DEF Within, FirstLevel, SeedNodes
    <2>3. QED
      BY <2>1, <2>2
  <1>7. ASSUME NEW d \in 1 .. n, d - 1 \in 0 .. n, same(d - 1) PROVE same(d)
    <2>1. xs[d] = LevelFrom(v, l, seeds, xs[d - 1], d) /\ ys[d] = LevelFrom(w, l, seeds, ys[d - 1], d)
      BY <1>4, <1>7 DEF LevelsAre
    <2>2. ys[d - 1] \in LevelOf
      BY <1>4, <1>7 DEF LevelsAre
    <2>3. QED
      BY <1>7, <2>1, <2>2, LevelIsLocal
  <1>8. 0 \in P
    BY <1>5, <1>6
  <1> HIDE DEF same
  <1>9. \A d \in Nat : d < n /\ d \in P => d + 1 \in P
    <2> TAKE d \in Nat
    <2> HAVE d < n /\ d \in P
    <2> HIDE DEF n
    <2>1. d + 1 \in 1 .. n /\ d + 1 \in 0 .. n /\ (d + 1) - 1 = d /\ d \in 0 .. n
      BY <1>5
    <2>2. same(d)
      OBVIOUS
    <2>3. same(d + 1)
      BY <1>7, <2>1, <2>2 DEF n
    <2>4. QED
      BY <2>1, <2>3
  <1>10. \A d \in 0 .. n : d \in P
    <2> HIDE DEF P
    <2>1. QED
      BY <1>5, <1>8, <1>9, CountingUp
  <1>11. n \in 0 .. n
    BY <1>5
  <1>12. same(n)
    BY <1>10, <1>11
  <1> DEFINE S == ys[n].all
  <1>13. xs[n] = ys[n] /\ \A g \in S : g.to \in C
    BY <1>12 DEF same, Within
  <1>14. GainSet(S)
    <2>1. ys[n] \in LevelOf
      BY <1>4, <1>11 DEF LevelsAre
    <2>2. S \in GainSets
      BY <2>1 DEF LevelOf
    <2>3. QED
      BY <2>2 DEF GainSets
  <1> HIDE DEF S
  <1>15. DOMAIN Explained(S) = {g.to : g \in S}
    BY <1>14, ExplainedFacts
  <1>16. SpreadTo(v, l, seeds) = Explained(S) /\ SpreadTo(w, l, seeds) = Explained(S)
    BY <1>2, <1>3, <1>13 DEF S
  <1>17. QED
    BY <1>13, <1>15, <1>16

-----------------------------------------------------------------------------
(* The comparison: chains that share a store.                              *)

\* The memories of a chain.
Block(c) == {Memory(c, role) : role \in 1 .. 6}

LEMMA BlockFacts ==
  ASSUME NEW c \in 1 .. Chains
  PROVE  /\ Block(c) \subseteq Node
         /\ {Seed(c), Hidden(c), HiddenDistractor(c), Future(c), FutureDistractor(c)} \subseteq Block(c)
         /\ \A d \in 1 .. Chains : d # c => Block(c) \cap Block(d) = {}
  <1>1. Chains \in Nat /\ 1 .. 6 * Chains \subseteq Node
    BY ComparisonConstants
  <1>2. \A role \in 1 .. 6 : Memory(c, role) \in 1 .. 6 * Chains
    BY <1>1 DEF Memory
  <1>3. Block(c) \subseteq Node
    BY <1>1, <1>2 DEF Block
  <1>4. {Seed(c), Hidden(c), HiddenDistractor(c), Future(c), FutureDistractor(c)} \subseteq Block(c)
    BY DEF Block, Seed, Hidden, HiddenDistractor, Future, FutureDistractor
  <1>5. ASSUME NEW d \in 1 .. Chains, d # c, NEW m \in Block(c), m \in Block(d) PROVE FALSE
    <2>1. PICK p \in 1 .. 6 : m = 6 * (c - 1) + p
      BY DEF Block, Memory
    <2>2. PICK q \in 1 .. 6 : m = 6 * (d - 1) + q
      BY <1>5 DEF Block, Memory
    <2>3. c < d \/ d < c
      BY <1>1, <1>5
    <2>4. QED
      BY <1>1, <2>1, <2>2, <2>3
  <1>6. QED
    BY <1>3, <1>4, <1>5

\* The store at the start has natural weights and no edge between two chains.
LEMMA SeededFacts ==
  /\ Seeded \in Weights
  /\ \A c \in 1 .. Chains : \A s \in Block(c) : \A t \in Node : t \notin Block(c) => Seeded[<<s, t>>] = 0
  <1> DEFINE strong(e) == \E c \in 1 .. Chains : e \in {<<Seed(c), Hidden(c)>>, <<Hidden(c), Future(c)>>}
             weak(e) == \E c \in 1 .. Chains : e \in {<<Seed(c), HiddenDistractor(c)>>,
                                                      <<Hidden(c), FutureDistractor(c)>>}
             at(e) == IF strong(e) THEN Strong ELSE IF weak(e) THEN Weak ELSE 0
  <1>1. \A e : strong(e) \/ weak(e) => \E d \in 1 .. Chains : e[1] \in Block(d) /\ e[2] \in Block(d)
    BY BlockFacts
  <1>2. Seeded = [e \in Node \X Node |-> at(e)]
    BY DEF Seeded
  <1> HIDE DEF strong, weak
  <1>3. \A e : at(e) \in Nat /\ (at(e) # 0 => strong(e) \/ weak(e))
    BY ComparisonConstants
  <1> HIDE DEF at
  <1>4. Seeded \in Weights /\ \A s, t \in Node : Seeded[<<s, t>>] = at(<<s, t>>)
    BY <1>2, <1>3 DEF Weights
  <1>5. ASSUME NEW c \in 1 .. Chains, NEW s \in Block(c), NEW t \in Node, t \notin Block(c)
        PROVE  Seeded[<<s, t>>] = 0
    <2>1. s \in Node
      BY BlockFacts
    <2>2. ~ \E d \in 1 .. Chains : s \in Block(d) /\ t \in Block(d)
      BY <1>5, BlockFacts
    <2>3. ~strong(<<s, t>>) /\ ~weak(<<s, t>>)
      BY <1>1, <2>2
    <2>4. QED
      BY <1>3, <1>4, <2>1, <2>3
  <1>6. QED
    BY <1>4, <1>5

\* The beginning of a sequence of at most one element.
LEMMA UptoOne == ASSUME NEW x, NEW n \in Nat \ {0} PROVE Upto(<<x>>, n) = <<x>>
  <1>1. Min({n, 1}) = 1
    BY MinOfTwo
  <1>2. Len(<<x>>) = 1 /\ <<x>> \in Seq({x})
    OBVIOUS
  <1> DEFINE s == <<x>>
  <1>3. s \in Seq({x}) /\ Len(s) = 1
    BY <1>2
  <1> HIDE DEF s
  <1>4. SubSeq(s, 1, 1) = s
    BY <1>3, SubSeqFull
  <1>5. Upto(s, n) = s
    BY <1>1, <1>3, <1>4 DEF Upto
  <1>6. QED
    BY <1>5 DEF s

LEMMA UptoNone == ASSUME NEW n \in Nat \ {0} PROVE Upto(<<>>, n) = <<>>
  <1>1. Min({n, 0}) = 0
    BY MinOfTwo
  <1>2. Len(<<>>) = 0 /\ SubSeq(<<>>, 1, 0) = <<>>
    OBVIOUS
  <1>3. QED
    BY <1>1, <1>2 DEF Upto

\* A trace of a found seed is the same over stores that agree on its chain.
\* (f, g: what the two spreads of a trace activate.)
TraceFrom(w, c, shown, f) ==
  LET latent == Strongest(f, 8)
      ranked == MergeCandidates(shown, f, latent)
  IN  [chain      |-> c,
       visible    |-> IdsOf(shown),
       ranked     |-> ranked,
       paths      |-> {f[m].path : m \in Range(latent)},
       prediction |-> IF ranked = <<>> THEN <<>> ELSE Strongest(SpreadTo(w, Node, {ranked[1].id}), 10)]

LEMMA TraceOfSeed ==
  ASSUME NEW w, NEW c
  PROVE  /\ Trace(w, c, SeedFound(c)) = TraceFrom(w, c, SeedFound(c), SpreadTo(w, Node, {Seed(c)}))
         /\ IdsOf(SeedFound(c)) = <<Seed(c)>>
  <1>1. Upto(SeedFound(c), 2) = SeedFound(c)
    BY UptoOne DEF SeedFound
  <1>2. IdsOf(SeedFound(c)) = <<Seed(c)>>
    BY DEF IdsOf, SeedFound
  <1>3. Upto(<<Seed(c)>>, 1) = <<Seed(c)>>
    BY UptoOne
  <1>4. Range(<<Seed(c)>>) = {Seed(c)}
    BY DEF Range
  <1>5. QED
    BY <1>1, <1>2, <1>3, <1>4 DEF Trace, TraceFrom

LEMMA TraceIsLocal ==
  ASSUME FreshHits, NEW c \in 1 .. Chains, NEW w \in Weights, SameFrom(w, Seeded, Block(c))
  PROVE  /\ Trace(w, c, SeedFound(c)) = Fresh[c]
         /\ Fresh[c].chain = c /\ Fresh[c].visible = <<Seed(c)>>
         /\ Fresh[c].ranked # <<>> /\ Fresh[c].ranked[1].id = Hidden(c)
         /\ Cardinality(Expected(Fresh[c])) > 0
  <1> DEFINE f == SpreadTo(Seeded, Node, {Seed(c)})
             seen == SeedFound(c)
             expected == Cardinality(Expected(Fresh[c]))
             ranked == Fresh[c].ranked
             hit(m) == Metrics(Fresh[c], expected, expected)[m]
  <1>1. Fresh[c] = TraceFrom(Seeded, c, seen, f)
    BY TraceOfSeed DEF Fresh
  <1>2. Fresh[c].chain = c /\ Fresh[c].visible = <<Seed(c)>>
    <2>1. IdsOf(seen) = <<Seed(c)>>
      BY TraceOfSeed
    <2> HIDE DEF f, seen
    <2>2. QED
      BY <1>1, <2>1 DEF TraceFrom
  <1>3. \A m \in Metric : hit(m) = "hit"
    BY DEF FreshHits
  <1>4. ranked # <<>> /\ ranked[1].id = Hidden(c)
    <2>1. hit("hidden_influence_dominant") = "hit"
      BY <1>3 DEF Metric
    <2>2. QED
      BY <1>2, <2>1 DEF Metrics, HitIf, Metric
  <1>5. expected > 0
    <2>1. hit("reinforcement_isolated") = "hit"
      BY <1>3 DEF Metric
    <2> HIDE DEF expected
    <2>2. QED
      BY <2>1 DEF Metrics, HitIf, Metric
  <1>6. Seeded \in Weights
    BY SeededFacts
  <1>7. {Seed(c)} \subseteq Block(c) /\ {Hidden(c)} \subseteq Block(c)
    BY BlockFacts
  <1>8. SpreadTo(w, Node, {Seed(c)}) = f
    BY <1>6, <1>7, SpreadIsLocal
  <1>9. SpreadTo(w, Node, {Hidden(c)}) = SpreadTo(Seeded, Node, {Hidden(c)})
    BY <1>6, <1>7, SpreadIsLocal
  <1>10. Trace(w, c, seen) = TraceFrom(w, c, seen, f)
    BY <1>8, TraceOfSeed
  <1> DEFINE r == MergeCandidates(seen, f, Strongest(f, 8))
  <1>11. ranked = r
    BY <1>1 DEF TraceFrom
  <1>12. TraceFrom(w, c, seen, f) = TraceFrom(Seeded, c, seen, f)
    <2>1. r # <<>> /\ r[1].id = Hidden(c)
      BY <1>4, <1>11
    <2> HIDE DEF r
    <2>2. QED
      BY <1>9, <2>1 DEF TraceFrom, r
  <1>13. QED
    BY <1>1, <1>2, <1>4, <1>5, <1>10, <1>12

\* A trace that finds nothing.
LEMMA TraceOfNothing ==
  ASSUME NEW c, NEW w \in Weights
  PROVE  LET own == Trace(w, c, <<>>) IN
           own.chain = c /\ own.visible = <<>> /\ own.ranked = <<>> /\ own.prediction = <<>>
  <1> DEFINE f == SpreadTo(w, Node, {})
             latent == Strongest(f, 8)
             ranked == MergeCandidates(<<>>, f, latent)
  <1>1. Upto(<<>>, 2) = <<>> /\ Upto(<<>>, 1) = <<>> /\ IdsOf(<<>>) = <<>> /\ Range(<<>>) = {}
    <2>1. Upto(<<>>, 2) = <<>> /\ Upto(<<>>, 1) = <<>>
      BY UptoNone
    <2>2. IdsOf(<<>>) = <<>>
      BY DEF IdsOf
    <2>3. Range(<<>>) = {}
      BY DEF Range
    <2>4. QED
      BY <2>1, <2>2, <2>3
  <1>2. DOMAIN f = {}
    <2>1. SameFrom(w, w, {})
      BY DEF SameFrom
    <2>2. QED
      BY <2>1, SpreadIsLocal
  <1>3. \A before : Ranked({}, before) = <<>>
    <2>1. Cardinality({}) = 0
      BY FS_EmptySet
    <2>2. QED
      BY <2>1 DEF Ranked
  <1>4. SubSeq(<<>>, 1, Min({8, Len(<<>>)})) = <<>>
    <2>1. Upto(<<>>, 8) = <<>>
      BY UptoNone
    <2>2. QED
      BY <2>1 DEF Upto
  <1>5. latent = <<>>
    <2> HIDE DEF f
    <2>1. QED
      BY <1>2, <1>3, <1>4 DEF Strongest
  <1>6. ranked = <<>>
    <2>1. Builders(<<>>, f, <<>>) = {}
      BY <1>1 DEF Builders
    <2>2. Upto(<<>>, 1 + SuppressedLimit) = <<>>
      <3>1. 1 + SuppressedLimit \in Nat \ {0}
        BY CandidatesConstants
      <3>2. QED
        BY <3>1, UptoNone
    <2> HIDE DEF f, latent
    <2>3. QED
      BY <1>3, <1>5, <2>1, <2>2 DEF MergeCandidates
  <1> HIDE DEF ranked, latent, f
  <1>7. Trace(w, c, <<>>) = [chain |-> c, visible |-> <<>>, ranked |-> ranked,
                             paths |-> {f[m].path : m \in Range(latent)},
                             prediction |-> IF ranked = <<>> THEN <<>>
                                            ELSE Strongest(SpreadTo(w, Node, {ranked[1].id}), 10)]
    BY <1>1 DEF Trace, ranked, latent, f
  <1>8. QED
    BY <1>6, <1>7

\* A report that is as it should be.
Independent(r, finds) ==
  LET own == r.report IN
  IF own.chain \in finds[own.chain]
  THEN own = Fresh[own.chain] /\ \A m \in Metric : r.metrics[m] = "hit"
  ELSE own.visible = <<>> /\ own.ranked = <<>> /\ own.prediction = <<>>

\* Chains that are still to be measured have the edges they had at the start.
ChainsInv ==
  /\ phase = "report" =>
       /\ chain \in 1 .. Chains /\ stored \in Weights
       /\ \A c \in chain .. Chains : SameFrom(stored, Seeded, Block(c))
  /\ \E S : reports \in Seq(S)
  /\ \A i \in DOMAIN reports : Independent(reports[i], matches)

LEMMA ChainsInvInit == CmpInit => ChainsInv
  <1> SUFFICES ASSUME CmpInit PROVE ChainsInv
    OBVIOUS
  <1>1. phase = "start" /\ reports = <<>>
    BY DEF CmpInit
  <1>2. reports \in Seq({})
    BY <1>1
  <1>3. DOMAIN reports = {}
    BY <1>1
  <1>4. QED
    BY <1>1, <1>2, <1>3 DEF ChainsInv

LEMMA StartKingKeeps == ASSUME ChainsInv, StartKing PROVE ChainsInv'
  <1>1. stored' = Seeded /\ chain' = 1 /\ reports' = <<>>
    BY DEF StartKing
  <1>2. chain' \in 1 .. Chains
    BY <1>1, ComparisonConstants
  <1>3. stored' \in Weights
    BY <1>1, SeededFacts
  <1>4. ASSUME NEW c \in 1 .. Chains PROVE SameFrom(Seeded, Seeded, Block(c))
    BY BlockFacts, SeededFacts DEF SameFrom
  <1>5. \A c \in chain' .. Chains : SameFrom(stored', Seeded, Block(c))
    BY <1>1, <1>4
  <1>6. reports' \in Seq({}) /\ DOMAIN reports' = {}
    BY <1>1
  <1>7. QED
    BY <1>2, <1>3, <1>5, <1>6 DEF ChainsInv

\* Reinforcing a chain changes edges between its own memories alone.
LEMMA TiedFacts ==
  ASSUME NEW c \in 1 .. Chains, NEW own, own.visible = <<Seed(c)>>,
         own.ranked[1].id = Hidden(c)
  PROVE  /\ Tied(own) \subseteq Block(c) \X Block(c)
         /\ Expected(own) \subseteq Tied(own)
  <1> DEFINE ids == Range(Upto(own.visible, 3)) \cup {own.ranked[1].id}
  <1>1. Upto(own.visible, 3) = <<Seed(c)>>
    BY UptoOne
  <1>2. Range(<<Seed(c)>>) = {Seed(c)}
    BY DEF Range
  <1>3. ids \subseteq Block(c)
    BY <1>1, <1>2, BlockFacts
  <1>4. Tied(own) = {e \in ids \X ids : e[1] # e[2]}
    BY DEF Tied
  <1>5. Expected(own) \subseteq Tied(own)
    BY <1>4 DEF Expected
  <1>6. QED
    BY <1>3, <1>4, <1>5

\* A measured chain leaves the others as they are.
LEMMA RunChainKeeps == ASSUME FreshHits, ChainsInv, RunChain PROVE ChainsInv'
  <1> DEFINE own == Trace(stored, chain, Visible(chain))
             tied == IF own.ranked = <<>> THEN {} ELSE Tied(own)
             expected == IF own.ranked = <<>> THEN {} ELSE Expected(own)
             at(e) == stored[e] + IF e \in tied THEN Increase ELSE 0
             after == [e \in Node \X Node |-> at(e)]
             grown == {e \in expected : after[e] > stored[e]}
             metrics == Metrics(own, Cardinality(expected), Cardinality(grown))
             new == [report |-> own, metrics |-> metrics]
  <1>1. /\ chain \in 1 .. Chains /\ stored \in Weights
        /\ \A c \in chain .. Chains : SameFrom(stored, Seeded, Block(c))
    BY DEF RunChain, ChainsInv
  <1>2. /\ stored' = after /\ reports' = Append(reports, new)
        /\ chain' = chain + 1 /\ matches' = matches
        /\ phase' = IF chain < Chains THEN "report" ELSE "measured"
    BY DEF RunChain
  <1>3. Chains \in Nat /\ Increase \in Nat /\ Increase # 0
    BY ComparisonConstants
  <1>4. SameFrom(stored, Seeded, Block(chain))
    BY <1>1, <1>3
  <1>5. ASSUME chain \in matches[chain]
        PROVE  /\ own = Fresh[chain] /\ own.chain = chain /\ own.ranked # <<>>
               /\ own.visible = <<Seed(chain)>> /\ own.ranked[1].id = Hidden(chain)
    BY <1>1, <1>4, <1>5, TraceIsLocal DEF Visible
  <1>6. ASSUME chain \notin matches[chain]
        PROVE  /\ own.chain = chain /\ own.visible = <<>> /\ own.ranked = <<>>
               /\ own.prediction = <<>>
    BY <1>1, <1>6, TraceOfNothing DEF Visible
  <1> HIDE DEF own
  <1>7. tied \subseteq Block(chain) \X Block(chain) /\ expected \subseteq tied
    BY <1>1, <1>5, <1>6, TiedFacts
  <1> HIDE DEF tied, expected
  <1>8. Block(chain) \subseteq Node
    BY <1>1, BlockFacts
  <1>9. \A e \in Node \X Node : stored[e] \in Nat /\ at(e) \in Nat
    BY <1>1, <1>3 DEF Weights
  <1>10. \A e \in Node \X Node : /\ after[e] = at(e)
                                 /\ (e \in tied => after[e] > stored[e])
                                 /\ (e \notin tied => after[e] = stored[e])
    BY <1>3, <1>9
  <1>11. after \in Weights
    <2> HIDE DEF at
    <2>1. QED
      BY <1>9 DEF Weights
  <1> HIDE DEF after, at
  <1>12. grown = expected
    BY <1>7, <1>8, <1>10
  <1> HIDE DEF grown
  <1>13. ASSUME phase' = "report"
         PROVE  /\ chain' \in 1 .. Chains
                /\ \A c \in chain' .. Chains : SameFrom(stored', Seeded, Block(c))
    <2>1. chain < Chains
      BY <1>2, <1>13
    <2>2. chain + 1 \in 1 .. Chains
      BY <1>1, <1>3, <2>1
    <2>3. ASSUME NEW c \in chain + 1 .. Chains PROVE SameFrom(after, Seeded, Block(c))
      <3>1. c \in chain .. Chains /\ c \in 1 .. Chains /\ c # chain
        BY <1>1, <1>3
      <3>2. SameFrom(stored, Seeded, Block(c))
        BY <1>1, <3>1
      <3>3. Block(c) \subseteq Node /\ Block(c) \cap Block(chain) = {}
        BY <1>1, <3>1, BlockFacts
      <3>4. \A s \in Block(c) : \A t \in Node : after[<<s, t>>] = stored[<<s, t>>]
        BY <1>7, <1>10, <3>3
      <3>5. QED
        BY <3>2, <3>4 DEF SameFrom
    <2>4. QED
      BY <1>2, <2>2, <2>3
  <1>14. Independent(new, matches)
    <2>1. new.report = own /\ new.metrics = metrics
      OBVIOUS
    <2>2. CASE chain \in matches[chain]
      <3> DEFINE n == Cardinality(expected)
      <3>1. own = Fresh[chain] /\ own.chain = chain /\ own.ranked # <<>>
        BY <1>5, <2>2
      <3>2. expected = Expected(Fresh[chain])
        BY <3>1 DEF expected
      <3>3. metrics = Metrics(Fresh[chain], n, n)
        BY <1>12, <3>1
      <3> HIDE DEF metrics, n
      <3>4. \A m \in Metric : metrics[m] = "hit"
        BY <1>1, <3>2, <3>3 DEF FreshHits, n
      <3>5. QED
        BY <1>2, <2>1, <2>2, <3>1, <3>4 DEF Independent
    <2>3. CASE chain \notin matches[chain]
      <3> HIDE DEF metrics
      <3>1. QED
        BY <1>2, <1>6, <2>1, <2>3 DEF Independent
    <2>4. QED
      BY <2>2, <2>3
  <1> HIDE DEF new
  <1>15. PICK S : reports \in Seq(S)
    BY DEF ChainsInv
  <1> DEFINE T == S \cup {new}
  <1>16. reports \in Seq(T) /\ new \in T
    BY <1>15
  <1> HIDE DEF T
  <1>17. /\ reports' \in Seq(T) /\ Len(reports) \in Nat
         /\ DOMAIN reports = 1 .. Len(reports) /\ DOMAIN reports' = 1 .. Len(reports) + 1
         /\ \A i \in 1 .. Len(reports) : reports'[i] = reports[i]
         /\ reports'[Len(reports) + 1] = new
    BY <1>2, <1>16, AppendProperties, LenProperties
  <1>18. \A i \in DOMAIN reports' : Independent(reports'[i], matches)
    <2> TAKE i \in DOMAIN reports'
    <2>1. i \in 1 .. Len(reports) \/ i = Len(reports) + 1
      BY <1>17
    <2>2. CASE i \in 1 .. Len(reports)
      BY <1>17, <2>2 DEF ChainsInv
    <2>3. CASE i = Len(reports) + 1
      BY <1>14, <1>17, <2>3
    <2>4. QED
      BY <2>1, <2>2, <2>3
  <1>19. QED
    BY <1>2, <1>11, <1>13, <1>17, <1>18 DEF ChainsInv

LEMMA ChainsInvStep == ASSUME FreshHits PROVE ChainsInv /\ [CmpNext]_cmpVars => ChainsInv'
  <1> SUFFICES ASSUME ChainsInv, [CmpNext]_cmpVars PROVE ChainsInv'
    OBVIOUS
  <1>1. CASE StartKing
    BY <1>1, StartKingKeeps
  <1>2. CASE RunChain
    BY <1>2, RunChainKeeps
  <1>3. CASE UNCHANGED <<matches, reports>> /\ (phase' # "report" \/ UNCHANGED <<phase, stored, chain>>)
    <2>1. phase' = "report" => UNCHANGED <<phase, stored, chain>>
      BY <1>3
    <2>2. QED
      BY <1>3, <2>1 DEF ChainsInv
  <1>4. CASE ParseSystems
    BY <1>3, <1>4 DEF ParseSystems
  <1>5. CASE EndKing
    BY <1>3, <1>5 DEF EndKing, Append1
  <1>6. CASE NotConfigured
    BY <1>3, <1>6 DEF NotConfigured, Append1
  <1>7. CASE StartAdapter
    BY <1>3, <1>7 DEF StartAdapter
  <1>8. CASE AdapterExits
    BY <1>3, <1>8 DEF AdapterExits, Append1
  <1>9. CASE AdapterBabbles
    BY <1>3, <1>9 DEF AdapterBabbles
  <1>10. CASE AdapterReports
    BY <1>3, <1>10 DEF AdapterReports, Append1
  <1>11. CASE WriteReport
    BY <1>3, <1>11 DEF WriteReport
  <1>12. CASE UNCHANGED cmpVars
    BY <1>3, <1>12 DEF cmpVars
  <1>13. QED
    BY <1>1, <1>2, <1>4, <1>5, <1>6, <1>7, <1>8, <1>9, <1>10, <1>11, <1>12 DEF CmpNext

\* Where each chain scores in a store of its own, the report of a chain is
\* the one it has there, although all chains of a run share a store and each
\* is reinforced before the next is measured: run_king_synapse_chain.
THEOREM ComparisonChainsAreIndependent ==
  ASSUME FreshHits
  PROVE  CmpSpec => []ChainsAreIndependent
  <1>1. CmpInit => ChainsInv
    BY ChainsInvInit
  <1>2. ChainsInv /\ [CmpNext]_cmpVars => ChainsInv'
    BY ChainsInvStep
  <1>3. ChainsInv => ChainsAreIndependent
    BY DEF ChainsInv, Independent, ChainsAreIndependent
  <1>4. QED
    BY <1>1, <1>2, <1>3, PTL DEF CmpSpec
===============================================================================
