------------------------------ MODULE Boosters -------------------------------
(***************************************************************************)
(* The boosters a recall runs over its hits, in the order they were        *)
(* registered (crates/core/src/recall: graph_activation.rs and             *)
(* latent_booster.rs; crates/core/src/working_memory/activation.rs), and   *)
(* the final sort of the engine.                                           *)
(*                                                                         *)
(* Each booster reads the store once it is its turn, so another process    *)
(* may change edges between two of them.  The spread inside the latent     *)
(* booster is one step here; Spreading takes it apart.                     *)
(***************************************************************************)
EXTENDS Graph

CONSTANTS
  BoostEdges,   \* bound: pairs of memories that may have an edge
  BoostWeights, \* bound: weights of the edges at the start
  HitLists,    \* bound: hits the pipeline starts from
  Bases,       \* bound: scores the hits may have without a bonus
  Pipeline,    \* names of the registered boosters, in order
  GraphScaleDiv, GraphDecayDiv, GraphCap, GraphSteps, \* of the graph booster
  BoostSeeds,  \* seed_limit of the latent booster
  Links,       \* how many items of the session link each memory
  LinkUnit, LinkCap  \* BONUS_UNIT and BONUS_CAP of the session booster

ASSUME BoosterConstants ==
  /\ BoostEdges \subseteq Node \X Node /\ BoostWeights \subseteq Nat
  /\ HitLists \subseteq Seq(Node) /\ Pipeline \in Seq({"graph", "latent", "session"})
  /\ {GraphScaleDiv, GraphDecayDiv, GraphSteps, GraphCap, BoostSeeds} \subseteq Nat \ {0}
  /\ {LinkUnit, LinkCap} \subseteq Nat \ {0} /\ Links \in [Node -> Nat]

VARIABLES
  hits,         \* ids in the order of the retrieval
  base,         \* score of each memory without its bonus
  bonus,        \* activation_bonus
  stage,        \* boosters that have run
  final         \* the sorted answer, empty before

pipelineVars == <<hits, base, bonus, stage, final>>
boosterVars == <<graphVars, pipelineVars>>

Ids == Range(hits)

\* Whether the next booster is the one of this name.
Turn(name) == stage < Len(Pipeline) /\ Pipeline[stage + 1] = name

BoostersInit ==
  /\ live = Node
  /\ GraphInit(BoostEdges, BoostWeights)
  /\ hits \in HitLists
  /\ base \in [Node -> Bases]
  /\ bonus = [t \in Node |-> 0]
  /\ stage = 0 /\ final = <<>>

-----------------------------------------------------------------------------
\* adjacency_map of edge_weights_between, which does not ask for validity.
Adjacent(s, t) == {s, t} \subseteq Ids /\ s # t /\ weight[<<s, t>>] > 0

\* Every hit starts with 1.0.
InitialActivation == [t \in Ids |-> One]

\* 1 / decay.powi(k)
DecayPower ==
  LET power[k \in 0 .. GraphSteps] == IF k = 0 THEN 1 ELSE GraphDecayDiv * power[k - 1]
  IN  power

\* What reaches each hit in step k.
GraphLevels ==
  LET level[k \in 0 .. GraphSteps] ==
        IF k = 0 THEN InitialActivation
        ELSE [t \in Ids |->
                LET sources == {s \in Ids : Adjacent(s, t)}
                IN  SumFunctionOnSet(
                      [s \in sources |-> (level[k - 1][s] * weight[<<s, t>>])
                                          \div (GraphScaleDiv * DecayPower[k - 1])],
                      sources)]
  IN  level

GraphBonus(t) == LET levels == GraphLevels
                 IN  SumFunctionOnSet([k \in 1 .. GraphSteps |-> levels[k][t]], 1 .. GraphSteps)

\* Mutant: the bonus of the graph replaces the one that is there.
BoostByGraphAlone ==
  /\ Turn("graph")
  /\ bonus' = [t \in Node |-> IF t \in Ids /\ GraphBonus(t) > 0
                              THEN Min({GraphCap, GraphBonus(t)}) ELSE bonus[t]]
  /\ stage' = stage + 1
  /\ UNCHANGED <<graphVars, hits, base, final>>

\* GraphActivationBooster::apply; a hit that nothing reached is left alone.
BoostByGraph ==
  /\ Turn("graph")
  /\ bonus' = IF Len(hits) < 2 THEN bonus
              ELSE [t \in Node |-> IF t \in Ids /\ GraphBonus(t) > 0
                                   THEN Min({GraphCap, bonus[t] + GraphBonus(t)})
                                   ELSE bonus[t]]
  /\ stage' = stage + 1
  /\ UNCHANGED <<graphVars, hits, base, final>>

LatentSeeds == Range(SubSeq(hits, 1, Min({BoostSeeds, Len(hits)})))

\* Mutant: a memory outside the hits cannot pass activation on.
BoostByLatentAmongHits ==
  /\ Turn("latent")
  /\ LET nodes == SpreadTo(weight, live \cap Ids, LatentSeeds)
         top   == Range(Strongest(nodes, 1))
     IN  bonus' = [t \in Node |-> IF t \in Ids \cap top THEN bonus[t] + nodes[t].act
                                  ELSE bonus[t]]
  /\ stage' = stage + 1
  /\ UNCHANGED <<graphVars, hits, base, final>>

\* LatentActivationBooster::apply: as many activations as there are hits,
\* over the whole graph; those of other memories have no effect.
BoostByLatent ==
  /\ Turn("latent")
  /\ LET nodes == SpreadTo(weight, live, LatentSeeds)
         top   == Range(Strongest(nodes, Len(hits)))
     IN  bonus' = IF Len(hits) < 2 THEN bonus
                  ELSE [t \in Node |-> IF t \in Ids \cap top THEN bonus[t] + nodes[t].act
                                       ELSE bonus[t]]
  /\ stage' = stage + 1
  /\ UNCHANGED <<graphVars, hits, base, final>>

\* WorkingMemoryActivationBooster::apply.
BoostBySession ==
  /\ Turn("session")
  /\ bonus' = [t \in Node |-> IF t \in Ids /\ Links[t] > 0
                              THEN Min({LinkCap, bonus[t] + Min({LinkCap, LinkUnit * Links[t]})})
                              ELSE bonus[t]]
  /\ stage' = stage + 1
  /\ UNCHANGED <<graphVars, hits, base, final>>

Score(t) == base[t] + bonus[t]

\* The stable sort of the engine.
Sort ==
  /\ stage = Len(Pipeline) /\ final = <<>>
  /\ LET at(t) == CHOOSE i \in DOMAIN hits : hits[i] = t
         before == {e \in Ids \X Ids :
                      \/ Score(e[1]) > Score(e[2])
                      \/ Score(e[1]) = Score(e[2]) /\ at(e[1]) < at(e[2])}
     IN  final' = Ranked(Ids, before)
  /\ UNCHANGED <<graphVars, hits, base, bonus, stage>>

\* Other processes change the graph before the next booster reads it.
OthersBetween == ByOthers(BoostEdges) /\ UNCHANGED pipelineVars

BoostersNext == BoostByGraph \/ BoostByLatent \/ BoostBySession \/ Sort \/ OthersBetween

BoostersSpec == BoostersInit /\ [][BoostersNext]_boosterVars

-----------------------------------------------------------------------------
(* Properties.                                                             *)

\* The contract of booster.rs:3: a booster may only add to the bonus.  It
\* holds as long as no booster with a cap runs after one that may exceed it.
BoostersOnlyAdd == [][\A t \in Node : bonus'[t] >= bonus[t]]_boosterVars

\* Hidden influence reaches the answer: on a quiet store a hit that is
\* activated by the first hits, through other memories or directly, has a
\* bonus, unless as many other memories as there are hits were activated at
\* least as much.
MissedOnlyWhenCrowded ==
  final # <<>> /\ changes = 0 /\ "latent" \in Range(Pipeline) =>
    LET nodes == SpreadTo(weight, live, LatentSeeds)
    IN  \A t \in Ids \cap DOMAIN nodes :
          \/ bonus[t] > 0
          \/ Cardinality({u \in DOMAIN nodes \ {t} : nodes[u].act >= nodes[t].act}) >= Len(hits)
=============================================================================
