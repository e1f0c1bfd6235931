------------------------------ MODULE MCExecutor ------------------------------
(* The working memory's side of the store in three scenarios, one to a     *)
(* behaviour: two processes that reinforce and forget the same memories,   *)
(* one process that promotes and merges and may die half way, and the      *)
(* Hebbian algorithm on its own.  A content is the set of entities it      *)
(* mentions, and a merged text mentions what its parts mention.            *)
EXTENDS StoreExecutor, MCHebbian

CONSTANTS m1, m2, m3, e1, e2, p1, p2

VARIABLE scenario

MCContent  == {{}, {e1}, {e2}, {e1, e2}}
MCMentions == [c \in MCContent |-> c]
MCJoin     == [S \in (SUBSET MCContent) \ {{}} |-> UNION S]

\* The memories are not alike: plans are sorted by id.
MCSymmetry == Permutations(Proc)

hebbVars == <<targetEvents, maxEdges>>

\* The scenarios that run on the store begin without events for Hebb.
MCInit ==
  /\ scenario \in {"reinforce", "merge", "plans"}
  /\ ExecInit
  /\ targetEvents = <<>>
  /\ IF scenario = "plans" THEN maxEdges \in Limits ELSE maxEdges = MaxEdges

\* The content is of no interest here.  Three memories are written, and each
\* process archives one.
Reinforcing ==
  /\ \/ \E m \in MemoryId : ClientWrite(m, {})
     \/ \E p \in Proc :
          \/ submitted < 2 /\ \E m \in Written : Forget(p, m)
          \/ submitted < 2 /\ \E S \in SUBSET Written, d \in Delta : Reinforce(p, S, d)
          \/ Check(p) \/ Execute(p) \/ Busy(p) \/ Crash(p)
  /\ Len(events') <= 5
  /\ submitted' <= 2

\* All plans are of one process, and no memory is without an entity.
MergingAlone ==
  \/ \E m \in MemoryId, c \in Content \ {{}} : ClientWrite(m, c)
  \/ \E p \in Proc :
       /\ \A q \in Proc \ {p} : plan[q] = <<>> /\ executed[q] = <<>>
       /\ \/ \E c \in Content \ {{}} : Promote(p, c)
          \/ \E S \in SUBSET Live : Merge(p, S)
          \/ Execute(p) \/ Crash(p)

MCNext ==
  /\ UNCHANGED scenario
  /\ \/ scenario = "reinforce" /\ Reinforcing /\ UNCHANGED hebbVars
     \/ scenario = "merge" /\ MergingAlone /\ UNCHANGED hebbVars
     \/ scenario = "plans" /\ HebbNext /\ UNCHANGED allVars

MCSpec == MCInit /\ [][MCNext]_<<scenario, allVars, hebbVars>>
===============================================================================
