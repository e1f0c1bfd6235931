------------------------------- MODULE Hebbian -------------------------------
(***************************************************************************)
(* RuleBasedHebbianAlgorithm::reinforce (crates/core/src/adaptive): the    *)
(* edge updates it plans for a list of memory events.                      *)
(*                                                                         *)
(* An event is its memory ids, trimmed, deduplicated and sorted (that is   *)
(* normalized_memory_ids), and the weight delta its kind and payload give. *)
(***************************************************************************)
EXTENDS Integers, Sequences, FiniteSetsExt, SequencesExt, Subsequences

SameEdge(e, f) == e.source = f.source /\ e.target = f.target

\* The pairs that the two nested loops over the ids of an event come to,
\* apart from the equal ones, which they skip.
Candidates(event) ==
  FlattenSeq([i \in DOMAIN event.ids |->
    LET others == RemoveAt(event.ids, i) IN
      [j \in DOMAIN others |->
         [source |-> event.ids[i], target |-> others[j], delta |-> event.delta]]])

\* Mutant: no `seen`.
All(planned) == planned

\* The set `seen` is shared by all events: an edge is planned by the first
\* event that has it and skipped in later ones.
Unseen(planned) ==
  Picked(planned, {k \in DOMAIN planned : \A j \in 1 .. k - 1 : ~SameEdge(planned[j], planned[k])})

\* A plan is pushed before the number of plans is compared with max_edges,
\* which ends all loops, so one is made even if max_edges is 0.
EdgePlans(targetEvents, maxEdges) ==
  LET plans == Unseen(FlattenSeq([k \in DOMAIN targetEvents |-> Candidates(targetEvents[k])]))
  IN  IF plans = <<>> THEN plans
      ELSE SubSeq(plans, 1, Min({Len(plans), Max({1, maxEdges})}))
=============================================================================
