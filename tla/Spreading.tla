----------------------------- MODULE Spreading -------------------------------
(***************************************************************************)
(* LatentActivationProbe::activate_with_context                            *)
(* (crates/core/src/recall/latent_activation.rs) while other processes     *)
(* strengthen edges and invalidate memories.                               *)
(*                                                                         *)
(* The loop reads the edges of one source in one query and then each       *)
(* target with a query of its own.  Frontiers are hash maps, so their      *)
(* members are taken in any order; the last pass reads every activated     *)
(* memory once more.                                                       *)
(***************************************************************************)
EXTENDS Graph

CONSTANTS
  SpreadEdges,   \* bound: pairs of memories that may have an edge
  SpreadWeights, \* bound: weights of the edges at the start
  Seeds,         \* seed_ids
  Limit          \* how many hits are asked for

ASSUME SpreadConstants ==
  /\ 0 \notin Node /\ Seeds \subseteq Node
  /\ SpreadEdges \subseteq Node \X Node /\ SpreadWeights \subseteq Nat

VARIABLES
  depth,       \* the level the loop is on; 0 when it has ended
  frontier,    \* nodes of this level
  todo,        \* those that are still to be taken
  source,      \* the one that was taken, 0 for none
  targets,     \* its edges still to be followed, with their weights
  next,        \* next_frontier
  acc,         \* accumulated
  unread,      \* activated memories to be read in the last pass
  found        \* those that were still valid

\* History, not part of the program: positive edges between valid memories
\* at some time.
VARIABLE hops

loopVars == <<depth, frontier, todo, source, targets, next, acc, unread, found>>
spreadVars == <<graphVars, loopVars, hops>>

NoNodes == [t \in {} |-> 0]

Hops(w, l) == {e \in SpreadEdges : w[e] > 0 /\ {e[1], e[2]} \subseteq l}

SpreadInit ==
  /\ live \in {Node} \cup {Node \ {m} : m \in {Min(Node), Max(Node)}}
  /\ GraphInit(SpreadEdges, SpreadWeights)
  /\ depth = 1
  /\ frontier = SeedNodes(Seeds)
  /\ todo = Seeds
  /\ source = 0 /\ targets = <<>>
  /\ next = NoNodes /\ acc = NoNodes
  /\ unread = {} /\ found = {}
  /\ hops = Hops(weight, live)

-----------------------------------------------------------------------------
\* outgoing_edges of a member of the frontier.
TakeSource(s) ==
  /\ depth > 0 /\ source = 0 /\ s \in todo
  /\ source' = s
  /\ todo' = todo \ {s}
  /\ LET ids == Outgoing(weight, live, s)
     IN  targets' = [i \in DOMAIN ids |-> [id |-> ids[i], weight |-> weight[<<s, ids[i]>>]]]
  /\ UNCHANGED <<graphVars, depth, frontier, next, acc, unread, found, hops>>

\* update_accumulated and update_frontier, which treat a node alike.
Update(nodes, t, gain, path) ==
  LET new == [gain |-> gain, path |-> path]
      old == IF t \in DOMAIN nodes THEN nodes[t] ELSE [act |-> 0, gain |-> gain, path |-> path]
      best == IF BetterPath(new, old) THEN new ELSE [gain |-> old.gain, path |-> old.path]
  IN  [u \in DOMAIN nodes \cup {t} |->
         IF u = t THEN [act |-> AddTo(old.act, gain), gain |-> best.gain, path |-> best.path]
         ELSE nodes[u]]

\* One edge of the source: its target is read, and activated if it is valid.
Follow ==
  /\ source # 0 /\ targets # <<>>
  /\ LET n == frontier[source]
         t == Head(targets)
         gain == Propagated(n.act, t.weight, depth, t.id)
         path == Append(n.path, t.id)
     IN  IF /\ t.weight > 0 /\ t.id \notin Seeds /\ t.id \notin Range(n.path)
            /\ t.id \in live /\ gain > 0
         THEN acc' = Update(acc, t.id, gain, path) /\ next' = Update(next, t.id, gain, path)
         ELSE UNCHANGED <<acc, next>>
  /\ targets' = Tail(targets)
  /\ source' = IF Len(targets) = 1 THEN 0 ELSE source
  /\ UNCHANGED <<graphVars, depth, frontier, todo, unread, found, hops>>

\* A source without edges.
Drop ==
  /\ source # 0 /\ targets = <<>>
  /\ source' = 0
  /\ UNCHANGED <<graphVars, depth, frontier, todo, targets, next, acc, unread, found, hops>>

\* The next level, or the end of the loop.
NextLevel ==
  /\ depth > 0 /\ source = 0 /\ todo = {}
  /\ IF next = NoNodes \/ depth = Steps
     THEN depth' = 0 /\ unread' = DOMAIN acc /\ UNCHANGED <<frontier, todo>>
     ELSE /\ depth' = depth + 1
          /\ frontier' = next /\ todo' = DOMAIN next
          /\ UNCHANGED unread
  /\ next' = NoNodes
  /\ UNCHANGED <<graphVars, source, targets, acc, found, hops>>

\* The last pass: memories that became invalid are left out.
Collect(t) ==
  /\ depth = 0 /\ t \in unread
  /\ unread' = unread \ {t}
  /\ found' = IF t \in live THEN found \cup {t} ELSE found
  /\ UNCHANGED <<graphVars, depth, frontier, todo, source, targets, next, acc, hops>>

\* Other processes change the graph behind the loop's back.
OthersMeanwhile ==
  /\ ByOthers(SpreadEdges)
  /\ hops' = hops \cup Hops(weight', live')
  /\ UNCHANGED loopVars

SpreadDone == depth = 0 /\ unread = {}

\* The answer: sorted and cut off.
Hits == Strongest([t \in found |-> acc[t]], Limit)

SpreadNext ==
  \/ \E s \in Node : TakeSource(s) \/ Collect(s)
  \/ Follow \/ Drop \/ NextLevel \/ OthersMeanwhile

SpreadSpec == SpreadInit /\ [][SpreadNext]_spreadVars

-----------------------------------------------------------------------------
(* Properties.                                                             *)

\* The explanation of an activation can be followed: it leads from a seed to
\* the memory without a cycle or another seed, over edges that existed
\* between valid memories at some time of the call, even if other processes
\* cut it behind the loop's back.
PathsAreExplained ==
  \A t \in DOMAIN acc :
    LET p == acc[t].path IN
      /\ p[1] \in Seeds /\ p[Len(p)] = t
      /\ IsInjective(p)
      /\ \A i \in 2 .. Len(p) : p[i] \notin Seeds
      /\ \A i \in 1 .. Len(p) - 1 : <<p[i], p[i + 1]>> \in hops

\* Memories that at most Steps edges lead to from a seed.
Reached ==
  LET ball[d \in 0 .. Steps] ==
        IF d = 0 THEN Seeds
        ELSE ball[d - 1] \cup UNION {Range(Outgoing(weight, live, s)) : s \in ball[d - 1]}
  IN  ball[Steps] \ Seeds

\* Which memories are activated does not depend on the order in which the
\* hash maps hand out their members, though that decides which of two paths
\* is kept and so which edges are not followed back: on a store nobody
\* changes they are those within reach of a seed.
ReachDecides == SpreadDone /\ changes = 0 => DOMAIN acc = Reached

\* What the gains S add up to if each addition is off by skew.
Skewed(S, skew) ==
  LET exact == Explained(S)
      terms(t) == Cardinality({g \in S : g.to = t})
  IN  [t \in DOMAIN exact |->
         [exact[t] EXCEPT !.act = Min({Cap, Max({1, @ + skew * terms(t)})})]]

\* A spread, level by level, in which every addition is.
SkewedTo(skew) ==
  LET level[d \in 0 .. Steps] ==
        IF d = 0 THEN [front |-> SeedNodes(Seeds), all |-> {}]
        ELSE LET gains == Gains(weight, live, Seeds, level[d - 1].front, d)
             IN  [front |-> Skewed(gains, skew), all |-> level[d - 1].all \cup gains]
  IN  Skewed(level[Steps].all, skew)

\* How much an addition below the cap can round off.
HalfUlp == Ulp(Cap) \div 2

\* The sums do depend on that order, but by no more than rounding: on a
\* quiet store and up to two levels, the default, every activation, and the
\* gain its explanation stands for, is between those of a spread that is
\* always off downwards and of one that is off upwards.  A path of one hop
\* is kept whatever the order if no path of two can beat it, and a memory
\* that the limit cuts off is at most that much ahead of one that is kept.
OrderShowsInRoundingOnly ==
  SpreadDone /\ changes = 0 /\ Steps <= 2 =>
    LET low  == SkewedTo(-HalfUlp)
        high == SkewedTo(HalfUlp)
    IN  /\ \A t \in DOMAIN acc :
             /\ low[t].act <= acc[t].act /\ acc[t].act <= high[t].act
             /\ low[t].gain <= acc[t].gain /\ acc[t].gain <= high[t].gain
             /\ Len(high[t].path) = 2 => acc[t].path = high[t].path
        /\ \A t \in Range(Hits), u \in found \ Range(Hits) : high[t].act >= low[u].act

\* Both together.
OrderHardlyShows == ReachDecides /\ OrderShowsInRoundingOnly
=============================================================================
