----------------------------- MODULE Comparison ------------------------------
(***************************************************************************)
(* kr-external-eval (crates/eval/src/external.rs and                       *)
(* bin/external_eval.rs): the exported cognitive session is measured on    *)
(* King Synapse and on an external adapter, one system after the other,    *)
(* and the report is written at the end.  All chains of the session share  *)
(* one store, and each is reinforced when its report has been taken, so    *)
(* what is in question is whether the reports know nothing of each other.  *)
(*                                                                         *)
(* Contents, scores, latencies and notes are left out.  The adapter is a   *)
(* process whose outcome is open.                                          *)
(***************************************************************************)
EXTENDS Candidates

CONSTANTS
  Chains,    \* number of chains of the session
  Strong, Weak, \* weights of an edge to an influence and to its distractor
  Increase,  \* what a reinforcement adds to an edge
  Names,     \* bound: names given to --systems
  Finds      \* bound: per chain, the chains whose seeds its query finds

ASSUME ComparisonConstants ==
  /\ {Chains, Strong, Weak, Increase} \subseteq Nat \ {0}
  /\ 1 .. 6 * Chains \subseteq Node

VARIABLES
  names,      \* --systems, separated by commas
  command,    \* whether there is a --graphiti-command
  matches,    \* per chain, the chains whose seeds its query finds
  phase,         \* the next step of the program
  systems,    \* systems still to be run
  runs,       \* ExternalSystemRuns so far
  stored,     \* the edges in the store of the last run of King Synapse
  chain,      \* its next chain
  reports     \* its ExternalChainRuns so far

cmpVars == <<names, command, matches, phase, systems, runs, stored, chain, reports>>

\* The six memories of a chain, in the order they are written.
Memory(c, role) == 6 * (c - 1) + role
Seed(c)             == Memory(c, 1)
Hidden(c)           == Memory(c, 3)
HiddenDistractor(c) == Memory(c, 4)
Future(c)           == Memory(c, 5)
FutureDistractor(c) == Memory(c, 6)

\* The metrics of a chain report.
Metric == {"visible_seed_found", "hidden_influence_found", "hidden_influence_dominant",
           "suppressed_alternatives_visible", "evidence_path_available",
           "future_continuation_found", "reinforcement_isolated"}

CmpInit ==
  /\ names \in Names
  /\ command \in BOOLEAN
  /\ matches \in Finds
  /\ phase = "start"
  /\ systems = <<>> /\ runs = <<>>
  /\ stored = <<>>
  /\ chain = 1 /\ reports = <<>>

-----------------------------------------------------------------------------
(* The command line.                                                       *)

Both == <<"king", "graphiti">>

\* systems.dedup(): neighbours that are equal become one.
Dedup(s) == FoldLeft(LAMBDA done, n : IF done # <<>> /\ Last(done) = n THEN done
                                      ELSE Append(done, n), <<>>, s)

\* parse_systems: the first "all" or unknown name decides.
ParseSystems ==
  /\ phase = "start"
  /\ LET stops == {i \in DOMAIN names : names[i] \in {"all", "other"}} IN
       IF stops # {} /\ names[Min(stops)] = "other"
       THEN phase' = "failed" /\ UNCHANGED systems
       ELSE /\ phase' = "next"
            /\ systems' = IF stops # {} \/ names = <<>> THEN Both ELSE Dedup(names)
  /\ UNCHANGED <<names, command, matches, runs, stored, chain, reports>>

-----------------------------------------------------------------------------
(* King Synapse.                                                           *)

\* seed_king_synapse_store: the edges of the session in a new store.
Seeded ==
  [e \in Node \X Node |->
     IF \E c \in 1 .. Chains : e \in {<<Seed(c), Hidden(c)>>, <<Hidden(c), Future(c)>>}
     THEN Strong
     ELSE IF \E c \in 1 .. Chains : e \in {<<Seed(c), HiddenDistractor(c)>>,
                                           <<Hidden(c), FutureDistractor(c)>>}
     THEN Weak ELSE 0]

\* run_king_synapse up to its first chain.
StartKing ==
  /\ phase = "next" /\ systems # <<>> /\ Head(systems) = "king"
  /\ stored' = Seeded
  /\ chain' = 1 /\ reports' = <<>>
  /\ phase' = "report"
  /\ UNCHANGED <<names, command, matches, systems, runs>>

\* Mutant: the recall has no scope_filter.
VisibleEverywhere(c) == SetToSeq({[id |-> Seed(d), score |-> 1] : d \in matches[c]})

\* The State memories of the chain's scope that its query finds: the seed is
\* the only one it has.
SeedFound(c) == <<[id |-> Seed(c), score |-> 1]>>
Visible(c) == IF c \in matches[c] THEN SeedFound(c) ELSE <<>>

\* The trace of what was found with a visible limit of 2, one seed and 8
\* latent memories, and the 10 best continuations of its dominant memory.
Trace(w, c, seen) ==
  LET visible == Upto(seen, 2)
      nodes   == SpreadTo(w, Node, Range(Upto(IdsOf(visible), 1)))
      latent  == Strongest(nodes, 8)
      ranked  == MergeCandidates(visible, nodes, latent)
  IN  [chain      |-> c,
       visible    |-> IdsOf(visible),
       ranked     |-> ranked,
       paths      |-> {nodes[m].path : m \in Range(latent)},
       prediction |-> IF ranked = <<>> THEN <<>>
                      ELSE Strongest(SpreadTo(w, Node, {ranked[1].id}), 10)]

HitIf(yes) == IF yes THEN "hit" ELSE "miss"

\* Edges that reinforce_ids changes: all ordered pairs of the first visible
\* memories and the dominant one.
Tied(report) ==
  LET ids == Range(Upto(report.visible, 3)) \cup {report.ranked[1].id}
  IN  {e \in ids \X ids : e[1] # e[2]}

\* visible_hidden_edges: those that have the dominant memory at one end.
Expected(report) ==
  LET ids == Range(Upto(report.visible, 3)) \ {report.ranked[1].id}
  IN  (ids \X {report.ranked[1].id}) \cup ({report.ranked[1].id} \X ids)

\* The metrics of a report, once reinforced of its expected edges have grown.
Metrics(report, expected, reinforced) ==
  LET c == report.chain
      ids == IdsOf(report.ranked)
      dominant == report.ranked # <<>> /\ report.ranked[1].id = Hidden(c)
  IN  [m \in Metric |-> HitIf(CASE
         m = "visible_seed_found"              -> Seed(c) \in Range(report.visible)
      [] m = "hidden_influence_found"          -> Hidden(c) \in Range(ids)
      [] m = "hidden_influence_dominant"       ->
           dominant /\ Matches[Hidden(c)].state + Matches[Hidden(c)].goal > 0
      [] m = "suppressed_alternatives_visible" -> Len(ids) > 1
      [] m = "evidence_path_available"         ->
           dominant /\ \E p \in report.paths : p[Len(p)] = Hidden(c)
      [] m = "future_continuation_found"       -> Future(c) \in Range(report.prediction)
      [] m = "reinforcement_isolated"          -> expected > 0 /\ expected = reinforced)]

\* run_king_synapse_chain: recall, trace and prediction, then
\* reinforce_trace_after_report, and the metrics of both.
RunChain ==
  /\ phase = "report"
  /\ \E report \in {Trace(stored, chain, Visible(chain))} :
     LET tied     == IF report.ranked = <<>> THEN {} ELSE Tied(report)
         expected == IF report.ranked = <<>> THEN {} ELSE Expected(report)
         after    == [e \in Node \X Node |-> stored[e] + IF e \in tied THEN Increase ELSE 0]
         grown    == {e \in expected : after[e] > stored[e]}
     IN  /\ stored' = after
         /\ reports' = Append(reports,
              [report |-> report,
               metrics |-> Metrics(report, Cardinality(expected), Cardinality(grown))])
  /\ chain' = chain + 1
  /\ phase' = IF chain < Chains THEN "report" ELSE "measured"
  /\ UNCHANGED <<names, command, matches, systems, runs>>

\* The number of chains with each outcome of each metric.
Aggregate(metrics) ==
  [m \in Metric |-> [s \in {"hit", "miss", "not_configured", "failed"} |->
     Cardinality({i \in DOMAIN metrics : metrics[i][m] = s})]]

Append1(run) ==
  /\ runs' = Append(runs, run)
  /\ systems' = Tail(systems)
  /\ phase' = "next"

\* The run of King Synapse is complete.
EndKing ==
  /\ phase = "measured"
  /\ Append1([system |-> "king", version |-> "own", status |-> "measured",
              aggregate |-> Aggregate([i \in DOMAIN reports |-> reports[i].metrics]),
              reports |-> [i \in DOMAIN reports |-> reports[i].report]])
  /\ UNCHANGED <<names, command, matches, stored, chain, reports>>

-----------------------------------------------------------------------------
(* The adapter.                                                            *)

\* placeholder_run: every metric of every chain has the status of the run.
Placeholder(status) ==
  [system |-> "graphiti", version |-> "unknown", status |-> status,
   aggregate |-> Aggregate([c \in 1 .. Chains |-> [m \in Metric |-> status]]),
   reports |-> <<>>]

\* run_graphiti without a command.
NotConfigured ==
  /\ phase = "next" /\ systems # <<>> /\ Head(systems) = "graphiti" /\ ~command
  /\ Append1(Placeholder("not_configured"))
  /\ UNCHANGED <<names, command, matches, stored, chain, reports>>

\* The input is written and the adapter started; the program ends when one of
\* them fails.
StartAdapter ==
  /\ phase = "next" /\ systems # <<>> /\ Head(systems) = "graphiti" /\ command
  /\ phase' \in {"adapter", "failed"}
  /\ UNCHANGED <<names, command, matches, systems, runs, stored, chain, reports>>

\* The adapter ends with a code other than 0.
AdapterExits ==
  /\ phase = "adapter"
  /\ Append1(Placeholder("failed"))
  /\ UNCHANGED <<names, command, matches, stored, chain, reports>>

\* Its output is no UTF-8 or no ExternalSystemRun: the program ends.
AdapterBabbles ==
  /\ phase = "adapter"
  /\ phase' = "failed"
  /\ UNCHANGED <<names, command, matches, systems, runs, stored, chain, reports>>

\* Its run is taken over as it is, whatever its status says of its metrics.
AdapterReports ==
  /\ phase = "adapter"
  /\ \E status \in {"measured", "not_configured", "failed"} :
     \E s \in {"hit", "miss", "not_configured", "failed"} :
       Append1([system |-> "graphiti", version |-> "its own", status |-> status,
                   aggregate |-> Aggregate([c \in 1 .. Chains |-> [m \in Metric |-> s]]),
                   reports |-> <<>>])
  /\ UNCHANGED <<names, command, matches, stored, chain, reports>>

\* The summary is printed and, with --json, the report is written.
WriteReport ==
  /\ phase = "next" /\ systems = <<>>
  /\ phase' \in {"done", "failed"}
  /\ UNCHANGED <<names, command, matches, systems, runs, stored, chain, reports>>

CmpNext ==
  \/ ParseSystems \/ StartKing \/ RunChain \/ EndKing
  \/ NotConfigured \/ StartAdapter \/ AdapterExits \/ AdapterBabbles \/ AdapterReports
  \/ WriteReport

CmpSpec == CmpInit /\ [][CmpNext]_cmpVars

-----------------------------------------------------------------------------
(* Properties.                                                             *)

\* The report of each chain whose seed is found in a store of its own.
Fresh == [c \in 1 .. Chains |-> Trace(Seeded, c, SeedFound(c))]

\* Alone, each chain scores a hit in every metric.
FreshHits ==
  \A c \in 1 .. Chains :
    LET expected == Cardinality(Expected(Fresh[c]))
    IN  \A m \in Metric : Metrics(Fresh[c], expected, expected)[m] = "hit"

\* A chain's report is the one it would have in a store that no other chain
\* and no other run has touched, although all share a store that each of them
\* changes; and where the query finds its seed it scores a hit in every metric,
\* the isolation of its reinforcement included: the baseline of the comparison.
ChainsAreIndependent ==
  \A i \in DOMAIN reports :
    LET own == reports[i].report IN
    IF own.chain \in matches[own.chain]
    THEN own = Fresh[own.chain] /\ \A m \in Metric : reports[i].metrics[m] = "hit"
    ELSE own.visible = <<>> /\ own.ranked = <<>> /\ own.prediction = <<>>
=============================================================================
