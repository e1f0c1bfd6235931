-------------------------------- MODULE Graph ---------------------------------
(***************************************************************************)
(* The memory graph as a call sees it that reads it piece by piece: the    *)
(* valid memories and the weights of memory_edges, which other processes   *)
(* change meanwhile.  Spreading, Boosters and Trace are such calls.        *)
(***************************************************************************)
EXTENDS Activation

CONSTANT MaxChanges  \* bound: changes by other processes

ASSUME GraphConstants == MaxChanges \in Nat

VARIABLES
  live,        \* valid memories
  weight,      \* memory_edges.weight, 0 without an edge
  changes      \* history: changes by other processes so far

graphVars == <<live, weight, changes>>

\* A graph in which the edges may have any of the weights.
GraphInit(edges, weights) ==
  /\ \E w \in [edges -> weights] :
       weight = [e \in Node \X Node |-> IF e \in edges THEN w[e] ELSE 0]
  /\ changes = 0

\* update_edge and invalidate of other processes.
ByOthers(edges) ==
  /\ changes < MaxChanges
  /\ changes' = changes + 1
  /\ \/ \E e \in edges : /\ {e[1], e[2]} \subseteq live
                         /\ weight' = [weight EXCEPT ![e] = @ + 1]
                         /\ UNCHANGED live
     \/ \E m \in live : live' = live \ {m} /\ UNCHANGED weight
=============================================================================
