----------------------------- MODULE MCSessions ------------------------------
(* The parts of core that live in memory: the buffer of a session with its   *)
(* plans, or the event stream that threads share.  A behaviour is one of the *)
(* two; they share no state.                                                  *)
EXTENDS WorkingMemory, EventStream, TLC

CONSTANTS a, b, n1, n2

VARIABLE part   \* the one whose steps this behaviour has

\* Items that link none of the memories, two of them, or one.
MCKinds ==
  {[note |-> "plain", ids |-> <<>>, ttl |-> Never],
   [note |-> "pair", ids |-> <<a, b, a>>, ttl |-> 1],
   [note |-> "single", ids |-> <<b>>, ttl |-> Never]}

NewIds == Permutations({n1, n2})

-----------------------------------------------------------------------------
SessionsInit ==
  /\ part \in {"working memory", "stream"}
  /\ WMInit /\ StreamInit

\* Working memory ends when its bounds are used up and nothing is left to do.
WorkingMemoryEnds ==
  plans = MaxPlans /\ todo = <<>> /\ UNCHANGED wmVars

SessionsNext ==
  /\ UNCHANGED part
  /\ \/ part = "working memory" /\ (WMNext \/ WorkingMemoryEnds) /\ UNCHANGED streamVars
     \/ part = "stream" /\ StreamNext /\ UNCHANGED wmVars

SessionsSpec == SessionsInit /\ [][SessionsNext]_<<wmVars, streamVars, part>>
=============================================================================
