------------------------------ MODULE MCRecall -------------------------------
(* Recall with a filter, vectors and a reranker: with few memories that are  *)
(* rewritten, or with many whose content stays the same; and the extraction  *)
(* of the entities that queries and memories mention.  A behaviour is one of *)
(* the three.                                                                 *)
EXTENDS Recall, MCExtraction

CONSTANTS m1, m2, m3, hit, topic

VARIABLE part

\* m3 is not in the scope that the query asks for.
MCScopeOf == [m \in MemoryId |-> IF m = m3 THEN "other" ELSE "asked"]
MCEntityHits == [c \in Content |-> IF c = hit THEN 2 ELSE 1]

Parts == {"few memories", "one content", "texts"}

QueryInit == part \in Parts /\ RecallInit /\ TextInit

\* The memories and contents of the two stores.
Within ==
  \A m \in MemoryId :
    /\ part = "few memories" /\ m = m2 => status'[m] = "absent"
    /\ part = "one content" => content'[m] # topic

QueryNext ==
  /\ UNCHANGED part
  /\ \/ part # "texts" /\ RecallNext /\ Within /\ UNCHANGED <<text, pieces>>
     \/ part = "texts" /\ TextNext /\ UNCHANGED recallVars

QuerySpec == QueryInit /\ [][QueryNext]_<<recallVars, text, pieces, part>>
=============================================================================
