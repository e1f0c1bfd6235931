------------------------------- MODULE MCGraph -------------------------------
(* A call that spreads, a recall's pipeline of boosters, or traces, on one   *)
(* graph of five memories that other processes change.  A behaviour is one   *)
(* of the three: they meet only through the changes of others.               *)
EXTENDS Spreading, Boosters, Trace

VARIABLE call   \* the call whose steps this behaviour has

MCMatches == [n \in Node |-> CASE n = 3 -> [state |-> 2, goal |-> 1]
                               [] n = 4 -> [state |-> 1, goal |-> 0]
                               [] n = 5 -> [state |-> 2, goal |-> 0]
                               [] OTHER -> [state |-> 0, goal |-> 0]]

\* 1 and 2 are the seeds, 3 is reached from both; 5 is reached from 1, 3 and
\* 4, so its gains add up in different orders, and leads back to 3.
MCSpreadEdges == {<<1, 3>>, <<2, 3>>, <<1, 4>>, <<1, 5>>, <<3, 5>>, <<4, 5>>, <<5, 3>>}

\* 2 passes activation on from 1 to 3 and 4 whether it is a hit or not.
MCBoostEdges == {<<1, 2>>, <<2, 1>>, <<2, 3>>, <<3, 1>>, <<2, 4>>, <<3, 4>>}
MCHitLists == {<<1>>, <<1, 3>>, <<1, 4>>, <<1, 3, 4>>, <<2, 1, 4>>, <<3, 2, 4>>}
MCLinks == [n \in Node |-> IF n = 3 THEN 3 ELSE 0]
SessionFirst == <<"session", "graph", "latent">>

\* 1 and 2 are the visible memories, 3 is visible and hidden, 4 is reached
\* through the graph only.
MCTraceEdges == {<<1, 3>>, <<2, 4>>, <<3, 4>>}
VisibleHit(m, s) == [id |-> m, score |-> s]
MCAnswers == {{}, {VisibleHit(1, 3)},
              {VisibleHit(1, 3), VisibleHit(2, 2), VisibleHit(3, 1)},
              {VisibleHit(2, 3), VisibleHit(1, 3)},
              {VisibleHit(1, 5), VisibleHit(2, 4), VisibleHit(3, 4), VisibleHit(4, 1)}}

-----------------------------------------------------------------------------
NoSpread ==
  /\ depth = 1 /\ frontier = SeedNodes(Seeds) /\ todo = Seeds
  /\ source = 0 /\ targets = <<>> /\ next = NoNodes /\ acc = NoNodes
  /\ unread = {} /\ found = {} /\ hops = {}

NoBoosters ==
  /\ hits = <<>> /\ base = [t \in Node |-> 0] /\ bonus = [t \in Node |-> 0]
  /\ stage = 0 /\ final = <<>>

NoTrace ==
  /\ accesses = [m \in Node |-> 0]
  /\ pc = "idle" /\ visible = <<>> /\ report = <<>> /\ prediction = <<>>
  /\ learned = {} /\ ties = {} /\ quiet = TRUE /\ rounds = 0

noSpread   == <<loopVars, hops>>
noTrace    == <<accesses, callVars, learned, ties, quiet, rounds>>

GraphCallsInit ==
  \/ call = "spread" /\ SpreadInit   /\ NoBoosters /\ NoTrace
  \/ call = "boost"  /\ BoostersInit /\ NoSpread   /\ NoTrace
  \/ call = "trace"  /\ TraceInit    /\ NoSpread   /\ NoBoosters

GraphCallsNext ==
  /\ UNCHANGED call
  /\ \/ call = "spread" /\ SpreadNext   /\ UNCHANGED <<pipelineVars, noTrace>>
     \/ call = "boost"  /\ BoostersNext /\ UNCHANGED <<noSpread, noTrace>>
     \/ call = "trace"  /\ TraceNext    /\ UNCHANGED <<noSpread, pipelineVars>>

GraphCallsSpec ==
  GraphCallsInit /\ [][GraphCallsNext]_<<graphVars, noSpread, pipelineVars, noTrace, call>>
=============================================================================
