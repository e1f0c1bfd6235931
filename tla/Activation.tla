----------------------------- MODULE Activation ------------------------------
(***************************************************************************)
(* The arithmetic of spreading activation (crates/core/src/recall): what   *)
(* one step passes on, which explanation of an activation is kept, and     *)
(* what a whole spread adds up to when nothing changes meanwhile.          *)
(*                                                                         *)
(* Memories are natural numbers in the order of their ids.  f32 values are *)
(* integers in units of 1 / One; a product is rounded up, since f32 keeps  *)
(* it above zero, and a sum to the nearest number of as many significant   *)
(* bits as Exact has.  The reference, a whole spread, adds without         *)
(* rounding: Spreading shows how far the loop can come out from it.  Edges *)
(* of equal weight count as updated in the same second, so their targets'  *)
(* order decides.                                                          *)
(***************************************************************************)
EXTENDS Subsequences, FiniteSetsExt, Functions, SequencesExt

CONSTANTS
  Node,     \* memories
  One,      \* the activation 1.0 of a seed
  ScaleDiv, \* 1 / scale
  DecayDiv, \* 1 / decay
  Cap,      \* cap on an activation
  Exact,    \* numbers up to this are held exactly, 2^24 in f32
  Steps,    \* number of levels
  Fanout,   \* edges followed per memory
  Matches   \* per memory, how many state and goal terms its content has

ASSUME ActivationConstants ==
  /\ Node \subseteq Nat /\ IsFiniteSet(Node)
  /\ {One, ScaleDiv, DecayDiv, Cap, Steps, Fanout} \subseteq Nat \ {0}
  /\ Exact \in Nat \ {0, 1}
  /\ Matches \in [Node -> [state : Nat, goal : Nat]]

\* modulation_for, in twentieths: 0.15 per state term, 0.25 per goal term.
Factor(t) == Min({40, 20 + 3 * Matches[t].state + 5 * Matches[t].goal})

\* What a source of activation a passes over an edge of weight w to t.
Propagated(a, w, depth, t) ==
  LET divisor == 20 * ScaleDiv * (IF depth = 1 THEN 1 ELSE DecayDiv)
  IN  (a * w * Factor(t) + divisor - 1) \div divisor

\* The lexicographic order of paths.
PathLess(p, q) ==
  \/ \E i \in DOMAIN p \cap DOMAIN q :
       p[i] < q[i] /\ \A j \in 1 .. i - 1 : p[j] = q[j]
  \/ Len(p) < Len(q) /\ \A i \in DOMAIN p : p[i] = q[i]

\* Mutant: a path of equal activation and depth replaces the kept one.
LaterPath(new, old) ==
  \/ new.gain > old.gain
  \/ new.gain = old.gain /\ Len(new.path) <= Len(old.path)

\* is_better_path: more activation, then fewer hops, then the smaller path.
BetterPath(new, old) ==
  \/ new.gain > old.gain
  \/ new.gain = old.gain /\ Len(new.path) < Len(old.path)
  \/ new.gain = old.gain /\ Len(new.path) = Len(old.path) /\ PathLess(new.path, old.path)

\* The distance between neighbouring f32 numbers about x.
Ulp(x) == Min({u \in {1, 2, 4, 8, 16} : x < Exact * u} \cup {32})

\* The f32 number next to x; of two, the one with an even significand.
Rounded(x) ==
  LET u == Ulp(x)
      over == x % u
  IN  IF 2 * over < u \/ (2 * over = u /\ (x \div u) % 2 = 0) THEN x - over ELSE x - over + u

\* Adding to an activation.  The sum is rounded, so three gains add up to
\* one thing in one order and to another in the next.
AddTo(old, gain) == Min({Cap, Rounded(old + gain)})

\* ORDER BY weight DESC of the edges of s.
HeavierFrom(weight, s) ==
  {e \in Node \X Node :
     \/ weight[<<s, e[1]>>] > weight[<<s, e[2]>>]
     \/ weight[<<s, e[1]>>] = weight[<<s, e[2]>>] /\ e[1] < e[2]}

\* Mutant: the query does not join the source's row.
OutgoingOfAny(weight, live, s) ==
  LET sorted == Ranked({t \in live \ {s} : weight[<<s, t>>] # 0}, HeavierFrom(weight, s))
  IN  SubSeq(sorted, 1, Min({Fanout, Len(sorted)}))

\* outgoing_edges: targets of s, both ends valid, by descending weight.
Outgoing(weight, live, s) ==
  LET targets == {t \in Node : s # t /\ {s, t} \subseteq live /\ weight[<<s, t>>] # 0}
      sorted == Ranked(targets, HeavierFrom(weight, s))
  IN  SubSeq(sorted, 1, Min({Fanout, Len(sorted)}))

\* Whether the loop passes activation from source node n to t: a positive
\* edge, no seed, and not back to where n was reached from.
Passes(weight, seeds, n, t) ==
  weight[<<n.path[Len(n.path)], t>>] > 0 /\ t \notin seeds /\ t \notin Range(n.path)

-----------------------------------------------------------------------------
(* The reference: a spread over an unchanging graph, level by level.  A    *)
(* node is [act, gain, path]: its activation, and the best explanation.    *)

\* Gains of one level, as a set of records.
Gains(weight, live, seeds, front, depth) ==
  {g \in UNION {{[to   |-> t, from |-> s,
                  gain |-> Propagated(front[s].act, weight[<<s, t>>], depth, t),
                  path |-> Append(front[s].path, t)] :
                   t \in {u \in Range(Outgoing(weight, live, s)) :
                            Passes(weight, seeds, front[s], u)}} : s \in DOMAIN front} :
     g.gain > 0}

\* The best of a set of explanations: the strongest, of these the shortest,
\* of these the first.
BestOf(S) ==
  LET strong == {g \in S : \A h \in S : g.gain >= h.gain}
      short  == {g \in strong : \A h \in strong : Len(g.path) <= Len(h.path)}
  IN  CHOOSE g \in short : \A h \in short \ {g} : PathLess(g.path, h.path)

Explained(S) ==
  [t \in {g.to : g \in S} |->
     LET mine == {g \in S : g.to = t}
     IN  [act  |-> Min({Cap, SumFunctionOnSet([g \in mine |-> g.gain], mine)}),
          gain |-> BestOf(mine).gain, path |-> BestOf(mine).path]]

SeedNodes(seeds) == [s \in seeds |-> [act |-> One, gain |-> One, path |-> <<s>>]]

\* Everything passed on in depth levels, and the last level's nodes.
SpreadTo(weight, live, seeds) ==
  LET level[d \in 0 .. Steps] ==
        IF d = 0 THEN [front |-> SeedNodes(seeds), all |-> {}]
        ELSE LET gains == Gains(weight, live, seeds, level[d - 1].front, d)
             IN  [front |-> Explained(gains), all |-> level[d - 1].all \cup gains]
  IN  Explained(level[Steps].all)

\* compare_latent_hits: of two activated memories, which comes first.
StrongerIn(nodes) ==
  {e \in (DOMAIN nodes) \X (DOMAIN nodes) :
     LET t == nodes[e[1]]
         u == nodes[e[2]]
     IN  \/ t.act > u.act
         \/ t.act = u.act /\ Len(t.path) < Len(u.path)
         \/ t.act = u.act /\ Len(t.path) = Len(u.path) /\ e[1] < e[2]}

\* Sorted and truncated.
Strongest(nodes, limit) ==
  LET sorted == Ranked(DOMAIN nodes, StrongerIn(nodes))
  IN  SubSeq(sorted, 1, Min({limit, Len(sorted)}))
=============================================================================
