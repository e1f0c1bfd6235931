------------------------------ MODULE Backfill -------------------------------
(***************************************************************************)
(* `kr embed-backfill` (crates/cli/src/main.rs, Cmd::EmbedBackfill) running *)
(* against a store that other processes write to.                          *)
(*                                                                         *)
(* A worker is one run of the command.  It reads a batch of pending        *)
(* memories together with their contents, computes the embeddings outside  *)
(* of any transaction, and stores them one transaction at a time; the      *)
(* batch is a copy, and the memories may change while it is worked on.     *)
(*                                                                         *)
(* embedding_state.updated_at is kept only for the order it gives to the   *)
(* pending rows: `older` is the rows stamped in earlier seconds, second by *)
(* second, and `current` those stamped in the running one.  Rows of one    *)
(* second come back in any order.                                          *)
(***************************************************************************)
EXTENDS EmbeddingIndex, Sequences, FiniteSets, SequencesExt, Subsequences

CONSTANTS
  Worker,     \* runs of the command
  Batch,      \* --batch, at least 1
  MaxRun      \* --max; 0 drains the queue

ASSUME BackfillConstants == Batch \in Nat \ {0} /\ MaxRun \in Nat /\ NoContent \notin Content

VARIABLES
  older,      \* pending rows by the second they were stamped in, oldest first
  current,    \* pending rows stamped in the current second
  pc,         \* where a worker is: "off", "fetch", "embed" or "put"
  batch,      \* what a worker fetched and has not stored yet
  total       \* memories a worker embedded; read only when --max is given

(* History, not part of the program.                                       *)
VARIABLE overtaken  \* memories whose content changed while a worker held them

workerVars == <<pc, batch, total>>
vars == <<indexVars, older, current, workerVars, overtaken>>

BackfillInit ==
  /\ Init
  /\ older = <<>>
  /\ current = {}
  /\ pc = [w \in Worker |-> "off"]
  /\ batch = [w \in Worker |-> <<>>]
  /\ total = [w \in Worker |-> 0]
  /\ overtaken = {}

-----------------------------------------------------------------------------
(* The order of the pending rows.                                          *)

\* A second without pending rows is dropped.
Without(m) ==
  LET rows == [i \in DOMAIN older |-> older[i] \ {m}]
  IN  Picked(rows, {i \in DOMAIN rows : rows[i] # {}})

Stamp(m) == older' = Without(m) /\ current' = current \cup {m}

Unqueue(m) == older' = Without(m) /\ current' = current \ {m}

\* The second m was stamped in, counted from the oldest pending one.
Second(m) ==
  Cardinality({i \in DOMAIN older : \A j \in 1 .. i : m \notin older[j]}) + 1

\* Mutant: ORDER BY updated_at DESC.
NewestPending(n) ==
  {ids \in [1 .. n -> Pending] :
     /\ IsInjective(ids)
     /\ \A i, j \in 1 .. n : i < j => Second(ids[i]) >= Second(ids[j])
     /\ \A i \in 1 .. n, m \in Pending \ Range(ids) : Second(ids[i]) >= Second(m)}

\* Store::pending_embeddings(n): ORDER BY updated_at ASC LIMIT n.
OldestPending(n) ==
  {ids \in [1 .. n -> Pending] :
     /\ IsInjective(ids)
     /\ \A i, j \in 1 .. n : i < j => Second(ids[i]) <= Second(ids[j])
     /\ \A i \in 1 .. n, m \in Pending \ Range(ids) : Second(ids[i]) <= Second(m)}

-----------------------------------------------------------------------------
(* Other processes.                                                        *)

Held(w, m) == \E i \in DOMAIN batch[w] : batch[w][i].memory = m

Write(m, c) ==
  /\ Add(m, c)
  /\ Stamp(m)
  /\ UNCHANGED <<workerVars, overtaken>>

UpdateContent(m, c) ==
  /\ Rewrite(m, c)
  /\ Stamp(m)
  /\ overtaken' = IF \E w \in Worker : Held(w, m) THEN overtaken \cup {m} ELSE overtaken
  /\ UNCHANGED workerVars

\* embedding_state is left alone: the row stays pending, and is filtered out
\* by valid_to IS NULL.
Invalidate(m) ==
  /\ Retire(m)
  /\ UNCHANGED <<older, current, workerVars, overtaken>>

\* A second ends.
ClockTick ==
  /\ current # {}
  /\ older' = Append(older, current)
  /\ current' = {}
  /\ UNCHANGED <<indexVars, workerVars, overtaken>>

-----------------------------------------------------------------------------
(* A worker.                                                               *)

\* embedding_stats().1, which counts the rows of invalid memories too.
PendingRows == {m \in MemoryId : emb[m] = "pending"}

\* The run starts, unless nothing is reported pending.
Start(w) ==
  /\ pc[w] = "off"
  /\ PendingRows # {}
  /\ pc' = [pc EXCEPT ![w] = "fetch"]
  /\ total' = [total EXCEPT ![w] = 0]
  /\ UNCHANGED <<indexVars, older, current, batch, overtaken>>

\* Mutant: the last batch is not cut to what --max leaves.
LimitWhole(w) == Batch

\* What the loop asks pending_embeddings for.
LimitOf(w) == IF MaxRun = 0 THEN Batch ELSE Min({Batch, MaxRun - total[w]})

\* The head of the loop: leave it, or fetch the next batch.
Fetch(w) ==
  /\ pc[w] = "fetch"
  /\ LET n == Min({LimitOf(w), Cardinality(Pending)}) IN
       \/ /\ n = 0
          /\ pc' = [pc EXCEPT ![w] = "off"]
          /\ UNCHANGED batch
       \/ /\ n > 0
          /\ \E ids \in OldestPending(n) :
               batch' = [batch EXCEPT ![w] =
                 [i \in 1 .. n |-> [memory |-> ids[i], content |-> content[ids[i]]]]]
          /\ pc' = [pc EXCEPT ![w] = "embed"]
  /\ UNCHANGED <<indexVars, older, current, total, overtaken>>

\* embed_documents: slow, and outside of any transaction.
Embed(w) ==
  /\ pc[w] = "embed"
  /\ pc' = [pc EXCEPT ![w] = "put"]
  /\ UNCHANGED <<indexVars, older, current, batch, total, overtaken>>

\* One put_embedding of the batch; after the last, the loop goes on unless
\* --max is reached.
PutNext(w) ==
  /\ pc[w] = "put"
  /\ LET m == Head(batch[w]).memory
         c == Head(batch[w]).content IN
       /\ Put(m, c)
       /\ Unqueue(m)
       /\ overtaken' =
            IF c = content[m] /\ \A v \in Worker \ {w} : ~Held(v, m)
              THEN overtaken \ {m} ELSE overtaken
  /\ batch' = [batch EXCEPT ![w] = Tail(@)]
  /\ total' = IF MaxRun = 0 THEN total ELSE [total EXCEPT ![w] = @ + 1]
  /\ pc' = [pc EXCEPT ![w] =
              IF Len(batch[w]) > 1 THEN "put"
              ELSE IF MaxRun # 0 /\ total'[w] >= MaxRun THEN "off"
              ELSE "fetch"]

\* A call returns an error, which ends the run, or the process is killed.
Abort(w) ==
  /\ pc[w] # "off"
  /\ pc' = [pc EXCEPT ![w] = "off"]
  /\ batch' = [batch EXCEPT ![w] = <<>>]
  /\ UNCHANGED <<indexVars, older, current, total, overtaken>>

-----------------------------------------------------------------------------
ClientStep ==
  \/ \E m \in MemoryId, c \in Content : Write(m, c) \/ UpdateContent(m, c)
  \/ \E m \in MemoryId : Invalidate(m)

WorkerStep(w) == Fetch(w) \/ Embed(w) \/ PutNext(w)

BackfillNext ==
  \/ ClientStep
  \/ ClockTick
  \/ \E w \in Worker : Start(w) \/ WorkerStep(w) \/ Abort(w)

\* A run that was started goes on until it ends, and time passes.  Nobody
\* is obliged to start a run, to write, or to kill one.
Fairness ==
  /\ WF_vars(ClockTick)
  /\ \A w \in Worker : WF_vars(WorkerStep(w))

BackfillSpec == BackfillInit /\ [][BackfillNext]_vars /\ Fairness

-----------------------------------------------------------------------------
(* Properties.                                                             *)

\* --batch and --max are kept, also with other runs embedding the same
\* memories: what a run has embedded and what it holds stay within --max,
\* though the last batch may be smaller and batches need not divide it.
KeepsLimits ==
  \A w \in Worker : /\ Len(batch[w]) <= Batch
                    /\ MaxRun # 0 => total[w] + Len(batch[w]) <= MaxRun

\* A stored vector can disagree with the content only if the content was
\* changed while a worker held the old one: update_content drops the vector
\* of the old content, and nothing but a late put_embedding brings it back.
StaleOnlyIfOvertaken ==
  \A m \in MemoryId : vec[m] \notin {NoContent, content[m]} => m \in overtaken

\* Two runs may embed the same memory, and a run may be killed half way
\* through its batch: no live memory drops out of the index, for each has
\* either a vector or a place in the queue.
NoLiveMemoryForgotten ==
  \A m \in MemoryId : status[m] = "live" =>
    (vec[m] = NoContent) = (m \in Pending /\ m \in current \cup UNION Range(older))

\* put_embedding is told it stores a freshly computed vector: what vector
\* recall compares with the query is the current content of the memory.
VectorIsFresh ==
  \A m \in MemoryId : status[m] = "live" => vec[m] \in {NoContent, content[m]}

\* A run without --max ends once the other processes leave the memories
\* alone, though it loops until it finds the queue empty.
RunsEnd ==
  <>[][~ClientStep]_vars => \A w \in Worker : []<>(pc[w] = "off")

\* Oldest first means no starvation: a pending memory that is not rewritten
\* any more is embedded (or invalidated) by a run that lasts long enough,
\* however often the other memories are rewritten meanwhile.
NoStarvation ==
  \A m \in MemoryId : <>[][\A c \in Content : ~UpdateContent(m, c)]_vars =>
    \A w \in Worker :
      [](m \in Pending /\ pc[w] = "fetch" => <>(m \notin Pending \/ pc[w] = "off"))
=============================================================================
