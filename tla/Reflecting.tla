------------------------------ MODULE Reflecting -----------------------------
(***************************************************************************)
(* The reflection algorithms (crates/core/src/adaptive/reflection/mod.rs)  *)
(* judging one memory by the recent events that name it, and what becomes  *)
(* of a positive verdict: a reflection event, whose processing             *)
(* (crates/core/src/working_memory) asks the store for an edge from the    *)
(* event to the memory.                                                    *)
(*                                                                         *)
(* Scores are f32: a score is a number of units of 2^-27, and each sum and *)
(* product is rounded to the 24 bits of an f32, half to even.              *)
(***************************************************************************)
EXTENDS Integers, Sequences, FiniteSets

CONSTANTS
  Estimated,   \* what the importance estimator may answer: 0 or Half
  Capacity,      \* of the event stream
  RecentLimit,   \* recent_event_limit
  MaxEvents      \* bound: events recorded

Half == 67108864            \* 0.5
ProduceScore == 201326592   \* 1.5
CandidateScore == 107374184 \* 0.8f32

ASSUME ReflectingConstants ==
  /\ Estimated \subseteq {0, Half}
  /\ Capacity \in Nat /\ RecentLimit \in Nat /\ MaxEvents \in Nat

VARIABLES
  algorithm,   \* which implementation of ReflectionAlgorithm
  target,      \* the target: [kind, signals, blank]
  importance,  \* what the estimator answers for it
  active,      \* the target is valid
  events,      \* the retained events: whether each names the target
  verdict,     \* the last output of reflect
  todo,        \* promoted edges still to be executed
  edges,       \* persisted edges to the target
  recorded     \* history: number of events recorded

reflVars == <<algorithm, target, importance, active, events, verdict, todo,
              edges, recorded>>

KindWeight == [Failure |-> 60397976, Preference |-> 46976204, Playbook |-> 40265320,
               State |-> 26843546, Fact |-> 13421773]
EvidenceWeight == 46976204  \* 0.35f32
SignalWeight == 20132660    \* 0.15f32

ReflInit ==
  /\ algorithm \in {"noop", "deterministic", "rule"}
  /\ target \in [kind : DOMAIN KindWeight, signals : 0 .. 4, blank : BOOLEAN]
  /\ importance \in Estimated
  /\ active = TRUE
  /\ events = <<>> /\ recorded = 0
  /\ verdict = "none" /\ todo = 0 /\ edges = {}

-----------------------------------------------------------------------------
(* The score.                                                              *)

\* x rounded to an f32.
Ulp(x) ==
  IF x < 2^25 THEN 2 ELSE IF x < 2^26 THEN 4 ELSE IF x < 2^27 THEN 8 ELSE IF x < 2^28 THEN 16 ELSE 32
F32(x) ==
  LET u == Ulp(x)  q == x \div u  r == x % u
  IN  u * (IF 2 * r > u \/ (2 * r = u /\ q % 2 = 1) THEN q + 1 ELSE q)

\* Mutant: evidence above the cap does not count at all.
CappedOff(n) == IF n <= 3 THEN n ELSE 0

\* Mutant: two signals or events count.
CappedAtTwo(n) == IF n <= 2 THEN n ELSE 2

\* The count of events or signals that matters.
Capped(n) == IF n <= 3 THEN n ELSE 3

\* One sum after the other: importance, e events, the kind, s signals.
ScoreOf(i, e, k, s) ==
  F32(F32(F32(i + F32(e * EvidenceWeight)) + KindWeight[k]) + F32(s * SignalWeight))

\* The scores there are, as a table, which TLC computes once.
RuleScores ==
  [i \in Estimated |-> [e \in 0 .. 3 |-> [k \in DOMAIN KindWeight |-> [s \in 0 .. 3 |->
     ScoreOf(i, e, k, s)]]]]

\* reflection_rule_score.
RuleScore(evidence) == RuleScores[importance][Capped(evidence)][target.kind][Capped(target.signals)]

\* The events reflect looks at: recent(recent_event_limit).
Window ==
  LET n == IF RecentLimit <= Len(events) THEN RecentLimit ELSE Len(events)
  IN  SubSeq(events, Len(events) - n + 1, Len(events))
Evidence == Cardinality({i \in DOMAIN Window : Window[i]})

Inert == target.blank \/ ~active

\* RuleBasedReflectionAlgorithm::reflect.
RuleVerdict ==
  IF Inert THEN "skipped"
  ELSE IF RuleScore(Evidence) >= ProduceScore THEN "produced"
  ELSE IF RuleScore(Evidence) >= CandidateScore THEN "candidate"
  ELSE "skipped"

\* DeterministicReflectionAlgorithm::reflect, with the default minimum.
DeterministicVerdict ==
  IF Inert \/ importance < Half THEN "skipped" ELSE "candidate"

Reflection ==
  CASE algorithm = "noop" -> "skipped"
    [] algorithm = "deterministic" -> DeterministicVerdict
    [] algorithm = "rule" -> RuleVerdict

-----------------------------------------------------------------------------
\* An event is recorded; the stream drops its oldest one when it is full.
Record(names) ==
  /\ recorded < MaxEvents
  /\ recorded' = recorded + 1
  /\ LET all == Append(events, names)
     IN  events' = IF Len(all) > Capacity THEN Tail(all) ELSE all
  /\ UNCHANGED <<algorithm, target, importance, active, verdict, todo, edges>>

\* The target is judged; a positive verdict becomes a reflection event that
\* promotes it, and the event an edge to be made.
Reflect ==
  /\ todo = 0
  /\ verdict' = Reflection
  /\ todo' = IF Reflection = "skipped" THEN 0 ELSE 1
  /\ UNCHANGED <<algorithm, target, importance, active, events, edges, recorded>>

\* Store::update_edge: both ends of an edge must be active memories.  The
\* node of a reflection event is no memory.
AddEdge(source) == IF active /\ source # "reflection" THEN edges \cup {source} ELSE edges

\* The edge from the reflection event is executed.
ExecuteEdge ==
  /\ todo = 1
  /\ todo' = 0
  /\ edges' = AddEdge("reflection")
  /\ UNCHANGED <<algorithm, target, importance, active, events, verdict, recorded>>

\* Another process invalidates the target.
Invalidate ==
  /\ active
  /\ active' = FALSE
  /\ UNCHANGED <<algorithm, target, importance, events, verdict, todo, edges, recorded>>

\* Another process strengthens the edge between the target and a memory.
Associate ==
  /\ edges' = AddEdge("memory")
  /\ UNCHANGED <<algorithm, target, importance, active, events, verdict, todo, recorded>>

ReflNext ==
  \/ \E names \in BOOLEAN : Record(names)
  \/ Reflect \/ ExecuteEdge \/ Invalidate \/ Associate

ReflSpec == ReflInit /\ [][ReflNext]_reflVars

-----------------------------------------------------------------------------
(* Properties.                                                             *)

Strength(v) == CASE v = "skipped" -> 0 [] v = "candidate" -> 1 [] v = "produced" -> 2

\* Another event about the target never lowers its verdict, although the
\* event pushes an older one out of the window; and the verdict of an
\* unchanged target falls only when an event about it leaves the window.
NamingNeverHurts ==
  [][(active = active' /\ Strength(Reflection') < Strength(Reflection)) =>
       Window # <<>> /\ Window[1] /\ ~events'[Len(events')]]_reflVars

\* The score in hundredths, as the weights are written.
Hundredths ==
  LET least(n) == IF n <= 3 THEN n ELSE 3
      weight == [Failure |-> 45, Preference |-> 35, Playbook |-> 30, State |-> 20, Fact |-> 10]
  IN  (IF importance = Half THEN 50 ELSE 0) + 35 * least(Evidence) + weight[target.kind]
        + 15 * least(target.signals)

\* The rounding of f32 decides only at a threshold: where the score as it is
\* written does not equal 0.80 or 1.50, the verdict is the one it deserves.
RoundingOnlyAtTies ==
  algorithm = "rule" /\ ~Inert =>
    /\ Hundredths # 150 => (Reflection = "produced") = (Hundredths > 150)
    /\ Hundredths # 80 => (Reflection = "skipped") = (Hundredths < 80)
=============================================================================
