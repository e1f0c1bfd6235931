-------------------------------- MODULE Trace --------------------------------
(***************************************************************************)
(* Cognitive traces (crates/core/src/recall/cognitive_trace.rs and         *)
(* query_latent.rs), with the reinforcement and the prediction that the    *)
(* command line and the MCP server run after the report, over a graph that *)
(* other processes change.  Several traces follow each other, so what one  *)
(* has learned decides what the next one finds.  Each may be of another    *)
(* query; the scores of one query change with time as well.                *)
(*                                                                         *)
(* A recall, a spread and the updates of a reinforcement are one step each *)
(* (Recall, Spreading and StoreExecutor take them apart).                  *)
(***************************************************************************)
EXTENDS Graph, Candidates

CONSTANTS
  TraceEdges,      \* bound: pairs of memories that have an edge at the start
  TraceWeights,    \* bound: weights of the edges at the start
  Answers,         \* bound: what a recall finds, sets of [id, score]
  VisibleLimit, SeedLimit, LatentLimit, \* CognitiveTraceConfig, with SuppressedLimit
  ReinforceK,      \* --reinforce-k; 0 without --reinforce
  PredictK,        \* --prediction-k
  Delta,           \* what a reinforcement adds to an edge
  MaxRounds        \* bound: traces and probes

ASSUME TraceConstants ==
  /\ TraceEdges \subseteq Node \X Node /\ TraceWeights \subseteq Nat
  /\ Answers \subseteq SUBSET [id : Node, score : Nat]
  /\ \A hs \in Answers : IsFiniteSet(hs) /\ \A h, k \in hs : h.id = k.id => h = k
  /\ {VisibleLimit, SeedLimit, LatentLimit, ReinforceK, PredictK, Delta} \subseteq Nat
  /\ Delta # 0

VARIABLES
  accesses,    \* memories.access_count
  pc,          \* the next step of the call
  visible,     \* hits of the recall
  report,      \* ranked candidates of the trace, the dominant one first
  prediction   \* predicted ids

(* History, not part of the program.                                       *)
VARIABLES
  learned,     \* ids the reinforcement of this call tied together
  ties,        \* what all reinforcements so far tied together, sets of ids
  quiet,       \* whether others have left the store alone since the start
  rounds

storeVars == <<live, weight, accesses>>
callVars  == <<pc, visible, report, prediction>>
traceVars == <<storeVars, changes, callVars, learned, ties, quiet, rounds>>

TraceInit ==
  /\ live = Node
  /\ GraphInit(TraceEdges, TraceWeights)
  /\ accesses = [m \in Node |-> 0]
  /\ pc = "idle"
  /\ visible = <<>> /\ report = <<>> /\ prediction = <<>>
  /\ learned = {} /\ ties = {} /\ quiet = TRUE
  /\ rounds = 0

-----------------------------------------------------------------------------
(* Steps of a call.                                                        *)

\* rrf_fuse sorts by score alone what a hash map hands out: hits of equal
\* score come in any order, another one in each recall.
ByScore(hs) ==
  {s \in SetToSeqs(hs) : \A i, j \in DOMAIN s : i < j => s[i].score >= s[j].score}

\* The recall of a trace or a probe, which counts an access to every hit.
RecallVisible(limit, next) ==
  /\ pc = "idle" /\ rounds < MaxRounds
  /\ \E hs \in Answers : \E s \in ByScore({h \in hs : h.id \in live}) :
       /\ visible' = Upto(s, limit)
       /\ accesses' = [m \in Node |->
                         accesses[m] + IF m \in Range(IdsOf(Upto(s, limit))) THEN 1 ELSE 0]
  /\ pc' = next
  /\ report' = <<>> /\ prediction' = <<>> /\ learned' = {}
  /\ rounds' = rounds + 1
  /\ UNCHANGED <<live, weight, ties, quiet, changes>>

\* CognitiveTraceProbe::trace up to its recall.
StartTrace == RecallVisible(AtLeast1(VisibleLimit), "trace")

TraceSeeds == Range(Upto(IdsOf(visible), AtLeast1(SeedLimit)))

\* The spread from the first hits, and the report.
Compete ==
  /\ pc = "trace"
  /\ LET nodes  == SpreadTo(weight, live, TraceSeeds)
         latent == Strongest(nodes, AtLeast1(LatentLimit))
     IN  report' = MergeCandidates(visible, nodes, latent)
  /\ pc' = "reinforce"
  /\ UNCHANGED <<storeVars, visible, prediction, learned, ties, quiet, rounds, changes>>

\* reinforce_trace_report: the first visible hits and the dominant one.
IdsToReinforce == Range(Upto(IdsOf(visible), ReinforceK)) \cup {report[1].id}

\* Mutant: only the edges that leave the dominant memory are reinforced.
StrengthenOneWay(ids) ==
  [e \in Node \X Node |->
     weight[e] + IF e[1] = report[1].id /\ e[2] \in ids /\ e[1] # e[2] THEN Delta ELSE 0]

\* Reinforcement of all ordered pairs.
Strengthen(ids) ==
  [e \in Node \X Node |->
     weight[e] + IF {e[1], e[2]} \subseteq ids /\ e[1] # e[2] THEN Delta ELSE 0]

\* The reinforcement after the report, or an error that ends the call when
\* one of the memories is no longer valid.
Reinforce ==
  /\ pc = "reinforce" /\ report # <<>> /\ ReinforceK > 0
  /\ Cardinality(IdsToReinforce) > 1
  /\ IF IdsToReinforce \subseteq live
     THEN /\ weight' = Strengthen(IdsToReinforce)
          /\ learned' = IdsToReinforce /\ ties' = ties \cup {IdsToReinforce}
          /\ pc' = "predict"
     ELSE /\ pc' = "idle"
          /\ UNCHANGED <<weight, learned, ties>>
  /\ UNCHANGED <<live, accesses, visible, report, prediction, quiet, rounds, changes>>

\* Nothing to learn: no --reinforce, no dominant memory, or one id alone.
SkipReinforce ==
  /\ pc = "reinforce"
  /\ IF report = <<>> \/ ReinforceK = 0 THEN TRUE ELSE Cardinality(IdsToReinforce) < 2
  /\ pc' = "predict"
  /\ UNCHANGED <<storeVars, visible, report, prediction, learned, ties, quiet,
                 rounds, changes>>

\* predict_continuation, over the graph that has just been reinforced.
Predict ==
  /\ pc = "predict"
  /\ prediction' = IF report = <<>> \/ PredictK = 0 THEN <<>>
                   ELSE Strongest(SpreadTo(weight, live, {report[1].id}), PredictK)
  /\ pc' = "predicted"
  /\ UNCHANGED <<storeVars, visible, report, learned, ties, quiet, rounds, changes>>

\* The answer is printed.
Finish ==
  /\ pc = "predicted"
  /\ pc' = "idle"
  /\ UNCHANGED <<storeVars, visible, report, prediction, learned, ties, quiet,
                 rounds, changes>>

\* QueryLatentActivationProbe::probe, with a limit above 0: a recall of
\* seed_limit hits, all of which are seeds.
StartProbe == RecallVisible(AtLeast1(SeedLimit), "probe")

Probe ==
  /\ pc = "probe"
  /\ prediction' = Strongest(SpreadTo(weight, live, Range(IdsOf(visible))), LatentLimit)
  /\ pc' = "idle"
  /\ UNCHANGED <<storeVars, visible, report, learned, ties, quiet, rounds, changes>>

\* Other processes change the graph between two steps.
OthersInBetween ==
  /\ ByOthers(TraceEdges)
  /\ quiet' = FALSE
  /\ UNCHANGED <<accesses, callVars, learned, ties, rounds>>

TraceNext ==
  \/ StartTrace \/ Compete \/ Reinforce \/ SkipReinforce \/ Predict \/ Finish
  \/ StartProbe \/ Probe \/ OthersInBetween

TraceSpec == TraceInit /\ [][TraceNext]_traceVars

-----------------------------------------------------------------------------
(* Properties.                                                             *)

\* As many edges as are followed from s are at least as strong as its edge to
\* m, and as what learning adds.
FanoutTaken(s, m) ==
  Cardinality({t \in Node \ {m} :
                 weight[<<s, t>>] >= Delta /\ weight[<<s, t>>] >= weight[<<s, m>>]}) >= Fanout

\* What a trace has just learned shows in its continuation: the memories
\* reinforced together with the dominant one are predicted, unless the list
\* is full, the fanout is taken by edges at least as strong, or another
\* process came in between.
LearnedIsPredicted ==
  pc = "predicted" /\ learned # {} /\ quiet =>
    LET dominant == report[1].id IN
    \A m \in learned \ {dominant} :
      \/ m \in Range(prediction)
      \/ Len(prediction) = PredictK
      \/ FanoutTaken(dominant, m)

\* What earlier traces have learned shows in the competition of a later one,
\* of whatever query: once a memory of a reinforced group is a seed, the
\* others of the group are candidates, unless the report is full, as many
\* memories are activated as the limit admits, the fanout is taken by edges
\* at least as strong, or another process has changed the store.
LearnedIsFoundAgain ==
  pc = "reinforce" /\ quiet =>
    \A group \in ties : \A s \in group \cap TraceSeeds, m \in group \ TraceSeeds :
      \/ m \in Range(IdsOf(report))
      \/ Len(report) = 1 + SuppressedLimit
      \/ Cardinality(DOMAIN SpreadTo(weight, live, TraceSeeds)) > AtLeast1(LatentLimit)
      \/ FanoutTaken(s, m)

\* Learning shows: in the continuation of the trace that learned, and among
\* the candidates of the next ones.
LearningShows == LearnedIsPredicted /\ LearnedIsFoundAgain
=============================================================================
