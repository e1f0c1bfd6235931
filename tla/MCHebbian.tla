------------------------------ MODULE MCHebbian ------------------------------
(* The Hebbian algorithm on every list of events up to a length, one       *)
(* event appended per step, for several values of max_edges.               *)
EXTENDS Hebbian

CONSTANTS
  Id,          \* memory ids, numbered in their sort order
  MinIds,      \* bound: fewest memories of an event
  EventDelta,  \* weight deltas of events
  Limits,      \* values of max_edges
  MaxTarget    \* bound: events in the target

ASSUME HebbConstants == IsFiniteSet(Id) /\ Limits \subseteq Nat

VARIABLES targetEvents, maxEdges

Sorted(S) == [i \in 1 .. Cardinality(S) |-> Nth(S, i)]

HebbInit == targetEvents = <<>> /\ maxEdges \in Limits

HebbNext ==
  /\ Len(targetEvents) < MaxTarget
  /\ \E S \in SUBSET Id, d \in EventDelta :
       /\ Cardinality(S) >= MinIds
       /\ targetEvents' = Append(targetEvents, [ids |-> Sorted(S), delta |-> d])
  /\ UNCHANGED maxEdges

HebbSpec == HebbInit /\ [][HebbNext]_<<targetEvents, maxEdges>>

Plans == EdgePlans(targetEvents, maxEdges)

\* No edge is planned twice, whatever events share: the executor would skip
\* the second one, and the store would add both deltas.  And unless max_edges
\* cuts the plans off, an edge and its reverse are planned together with one
\* delta, also when a later event has them again: what is learned of two
\* memories does not depend on their order.
OnceEachWay ==
  LET plans == Plans IN
    /\ \A i, j \in DOMAIN plans : SameEdge(plans[i], plans[j]) => i = j
    /\ Len(plans) < maxEdges =>
         \A e \in Range(plans) :
           [source |-> e.target, target |-> e.source, delta |-> e.delta] \in Range(plans)

\* "For each event with at least two unique memories, the reference emits
\* bidirectional candidate edges."
BidirectionalEdges ==
  LET plans == Plans IN
    \A e \in Range(plans) :
      \E f \in Range(plans) : f.source = e.target /\ f.target = e.source
=============================================================================
