--------------------------- MODULE EmbeddingIndex ----------------------------
(***************************************************************************)
(* The part of the store that the embedding backfill works on: which       *)
(* memories are valid and what they say, which embeddings are pending, and *)
(* which content each stored vector was computed from.                     *)
(*                                                                         *)
(* Store implements this module; Backfill runs its workers over it.  It    *)
(* has no event log, so its state space is finite without a bound on the   *)
(* number of updates.                                                      *)
(***************************************************************************)
EXTENDS Naturals

CONSTANTS MemoryId, Content, NoContent

VARIABLES
  status,      \* memories: "absent", "live" or "invalid"
  content,     \* memories.content
  emb,         \* embedding_state.status, "none" when there is no row
  vec          \* memory_vecs: the content whose embedding is stored

indexVars == <<status, content, emb, vec>>

Init ==
  /\ status  = [m \in MemoryId |-> "absent"]
  /\ content = [m \in MemoryId |-> NoContent]
  /\ emb     = [m \in MemoryId |-> "none"]
  /\ vec     = [m \in MemoryId |-> NoContent]

\* write
Add(m, c) ==
  /\ status[m] = "absent"
  /\ status' = [status EXCEPT ![m] = "live"]
  /\ content' = [content EXCEPT ![m] = c]
  /\ emb' = [emb EXCEPT ![m] = "pending"]
  /\ UNCHANGED vec

\* Mutant of Rewrite: the vector of the old content stays.
RewriteKeepingVector(m, c) ==
  /\ status[m] = "live"
  /\ content' = [content EXCEPT ![m] = c]
  /\ emb' = [emb EXCEPT ![m] = "pending"]
  /\ UNCHANGED <<status, vec>>

\* Mutant of Rewrite: INSERT OR IGNORE INTO embedding_state, as in write.
RewriteKeepingState(m, c) ==
  /\ status[m] = "live"
  /\ content' = [content EXCEPT ![m] = c]
  /\ vec' = [vec EXCEPT ![m] = NoContent]
  /\ UNCHANGED <<status, emb>>

\* update_content
Rewrite(m, c) ==
  /\ status[m] = "live"
  /\ content' = [content EXCEPT ![m] = c]
  /\ vec' = [vec EXCEPT ![m] = NoContent]
  /\ emb' = [emb EXCEPT ![m] = "pending"]
  /\ UNCHANGED status

\* invalidate
Retire(m) ==
  /\ status[m] = "live"
  /\ status' = [status EXCEPT ![m] = "invalid"]
  /\ UNCHANGED <<content, emb, vec>>

\* put_embedding
Put(m, c) ==
  /\ status[m] # "absent"
  /\ vec' = [vec EXCEPT ![m] = c]
  /\ emb' = [emb EXCEPT ![m] = "done"]
  /\ UNCHANGED <<status, content>>

\* Mutant: pending_embeddings without `e.status = 'pending'`.
PendingOrDone == {m \in MemoryId : status[m] = "live"}

\* pending_embeddings, without its order and limit.
Pending == {m \in MemoryId : status[m] = "live" /\ emb[m] = "pending"}

Next == \E m \in MemoryId :
          \/ \E c \in Content : Add(m, c) \/ Rewrite(m, c) \/ Put(m, c)
          \/ Retire(m)

Spec == Init /\ [][Next]_indexVars
=============================================================================
