---------------------------- MODULE DatabaseProofs ---------------------------
(***************************************************************************)
(* Theorems about processes that share the database: `kr embed-backfill`,  *)
(* for any number of runs, memories and contents, and any --batch and      *)
(* --max, and transactions on the write-ahead log, for every set of        *)
(* memories and connections and for every bound.                           *)
(***************************************************************************)
EXTENDS Backfill, Transactions, SequenceTheorems, CollectionProofs, TLAPS

-----------------------------------------------------------------------------
(* Numbers and sequences.                                                  *)

\* The entries of a batch: a memory and the content it was fetched with.
Entries == [memory : MemoryId, content : Content]

\* The rest of a batch.
LEMMA RestOfBatch ==
  ASSUME NEW b \in Seq(Entries), b # <<>>
  PROVE  /\ Tail(b) \in Seq(Entries) /\ Len(Tail(b)) = Len(b) - 1 /\ Len(b) \in Nat /\ Len(b) > 0
         /\ \A i \in DOMAIN Tail(b) : i \in DOMAIN b /\ i + 1 \in DOMAIN b /\ Tail(b)[i] = b[i + 1]
         /\ 1 \in DOMAIN b /\ Head(b) = b[1] /\ Head(b) \in Entries
  <1>1. /\ Tail(b) \in Seq(Entries) /\ Len(Tail(b)) = Len(b) - 1 /\ Len(b) \in Nat /\ Len(b) > 0
    BY HeadTailProperties, LenProperties, EmptySeq
  <1>2. DOMAIN b = 1 .. Len(b) /\ DOMAIN Tail(b) = 1 .. Len(b) - 1
    BY <1>1, LenProperties
  <1>3. \A i \in 1 .. Len(b) - 1 : Tail(b)[i] = b[i + 1]
    BY <1>1, HeadTailProperties
  <1>4. Head(b) = b[1] /\ Head(b) \in Entries
    BY HeadTailProperties
  <1>5. QED
    BY <1>1, <1>2, <1>3, <1>4

-----------------------------------------------------------------------------
(* The invariant.                                                          *)

\* Rows and runs have their types; finitely many memories have been written.
Rows ==
  /\ status \in [MemoryId -> {"absent", "live", "invalid"}]
  /\ content \in [MemoryId -> Content \cup {NoContent}]
  /\ vec \in [MemoryId -> Content \cup {NoContent}]
  /\ emb \in [MemoryId -> {"none", "pending", "done"}]
  /\ IsFiniteSet({m \in MemoryId : status[m] # "absent"})
  /\ \A m \in MemoryId : /\ status[m] # "absent" => content[m] \in Content
                         /\ status[m] = "absent" => vec[m] = NoContent

\* A run has work exactly when it is between the fetch and the last put.
Runs ==
  /\ pc \in [Worker -> {"off", "fetch", "embed", "put"}]
  /\ batch \in [Worker -> Seq(Entries)]
  /\ total \in [Worker -> Nat]
  /\ \A w \in Worker : batch[w] # <<>> <=> pc[w] \in {"embed", "put"}

\* A batch holds a memory once, and what it holds is current, or the memory
\* is known to have been overtaken.
HeldIsCurrent ==
  \A w \in Worker :
    /\ \A i \in DOMAIN batch[w] : LET e == batch[w][i] IN
         status[e.memory] # "absent" /\ (e.content # content[e.memory] => e.memory \in overtaken)
    /\ \A i, j \in DOMAIN batch[w] : i # j => batch[w][i].memory # batch[w][j].memory

BackfillInv == Rows /\ Runs /\ KeepsLimits /\ HeldIsCurrent /\ StaleOnlyIfOvertaken

\* The invariant holds at first.
LEMMA BackfillInvInit == BackfillInit => BackfillInv
  <1> SUFFICES ASSUME BackfillInit PROVE BackfillInv
    OBVIOUS
  <1>1. /\ status = [m \in MemoryId |-> "absent"] /\ content = [m \in MemoryId |-> NoContent]
        /\ emb = [m \in MemoryId |-> "none"] /\ vec = [m \in MemoryId |-> NoContent]
        /\ pc = [w \in Worker |-> "off"] /\ batch = [w \in Worker |-> <<>>]
        /\ total = [w \in Worker |-> 0]
    BY DEF BackfillInit, Init
  <1>2. {m \in MemoryId : status[m] # "absent"} = {}
    BY <1>1
  <1>3. Rows
    BY <1>1, <1>2, FS_EmptySet DEF Rows
  <1>4. <<>> \in Seq(Entries) /\ Len(<<>>) = 0 /\ DOMAIN <<>> = {}
    BY EmptySeq
  <1>5. Runs
    BY <1>1, <1>4 DEF Runs
  <1>6. KeepsLimits
    BY <1>1, <1>4, BackfillConstants DEF KeepsLimits
  <1>7. HeldIsCurrent
    BY <1>1, <1>4 DEF HeldIsCurrent
  <1>8. StaleOnlyIfOvertaken
    BY <1>1 DEF StaleOnlyIfOvertaken
  <1>9. QED
    BY <1>3, <1>5, <1>6, <1>7, <1>8 DEF BackfillInv

-----------------------------------------------------------------------------
(* The steps of other processes.                                           *)

\* A memory that is written is held by nobody.
LEMMA WriteKeeps ==
  ASSUME BackfillInv, NEW m \in MemoryId, NEW c \in Content, Write(m, c)
  PROVE  BackfillInv'
  <1>1. /\ status[m] = "absent" /\ status' = [status EXCEPT ![m] = "live"]
        /\ content' = [content EXCEPT ![m] = c] /\ emb' = [emb EXCEPT ![m] = "pending"]
        /\ UNCHANGED <<vec, pc, batch, total, overtaken>>
    BY DEF Write, Add, workerVars
  <1>2. Rows'
    <2>1. {k \in MemoryId : status'[k] # "absent"} = {k \in MemoryId : status[k] # "absent"} \cup {m}
      BY <1>1 DEF BackfillInv, Rows
    <2>2. IsFiniteSet({k \in MemoryId : status'[k] # "absent"})
      BY <2>1, FS_AddElement DEF BackfillInv, Rows
    <2>3. QED
      BY <1>1, <2>2 DEF BackfillInv, Rows
  <1>3. Runs' /\ KeepsLimits'
    BY <1>1 DEF BackfillInv, Runs, KeepsLimits
  <1>4. HeldIsCurrent'
    BY <1>1 DEF BackfillInv, Rows, Runs, HeldIsCurrent, Entries
  <1>5. StaleOnlyIfOvertaken'
    BY <1>1 DEF BackfillInv, Rows, StaleOnlyIfOvertaken
  <1>6. QED
    BY <1>2, <1>3, <1>4, <1>5 DEF BackfillInv

\* A memory whose content changes loses its vector, and is overtaken if held.
LEMMA UpdateKeeps ==
  ASSUME BackfillInv, NEW m \in MemoryId, NEW c \in Content, UpdateContent(m, c)
  PROVE  BackfillInv'
  <1>1. /\ status[m] = "live" /\ content' = [content EXCEPT ![m] = c]
        /\ vec' = [vec EXCEPT ![m] = NoContent] /\ emb' = [emb EXCEPT ![m] = "pending"]
        /\ UNCHANGED <<status, pc, batch, total>>
        /\ overtaken' = IF \E w \in Worker : Held(w, m) THEN overtaken \cup {m} ELSE overtaken
    BY DEF UpdateContent, Rewrite, workerVars
  <1>2. Rows'
    BY <1>1 DEF BackfillInv, Rows
  <1>3. Runs' /\ KeepsLimits'
    BY <1>1 DEF BackfillInv, Runs, KeepsLimits
  <1>4. HeldIsCurrent'
    BY <1>1 DEF BackfillInv, Rows, Runs, HeldIsCurrent, Entries, Held
  <1>5. StaleOnlyIfOvertaken'
    BY <1>1 DEF BackfillInv, Rows, StaleOnlyIfOvertaken
  <1>6. QED
    BY <1>2, <1>3, <1>4, <1>5 DEF BackfillInv

\* An invalid memory keeps its content and its vector.
LEMMA InvalidateKeeps ==
  ASSUME BackfillInv, NEW m \in MemoryId, Invalidate(m)
  PROVE  BackfillInv'
  <1>1. /\ status[m] = "live" /\ status' = [status EXCEPT ![m] = "invalid"]
        /\ UNCHANGED <<content, emb, vec, pc, batch, total, overtaken>>
    BY DEF Invalidate, Retire, workerVars
  <1>2. {k \in MemoryId : status'[k] # "absent"} = {k \in MemoryId : status[k] # "absent"}
    BY <1>1 DEF BackfillInv, Rows
  <1>3. Rows'
    BY <1>1, <1>2 DEF BackfillInv, Rows
  <1>4. Runs' /\ KeepsLimits'
    BY <1>1 DEF BackfillInv, Runs, KeepsLimits
  <1>5. HeldIsCurrent'
    BY <1>1 DEF BackfillInv, Rows, Runs, HeldIsCurrent, Entries
  <1>6. StaleOnlyIfOvertaken'
    BY <1>1 DEF BackfillInv, StaleOnlyIfOvertaken
  <1>7. QED
    BY <1>3, <1>4, <1>5, <1>6 DEF BackfillInv

-----------------------------------------------------------------------------
(* The steps of a run.                                                     *)

\* A step that touches neither rows nor batches.
LEMMA IdleKeeps ==
  ASSUME BackfillInv, UNCHANGED <<indexVars, batch, overtaken>>, Runs', KeepsLimits'
  PROVE  BackfillInv'
  <1>1. UNCHANGED <<status, content, emb, vec, batch, overtaken>>
    BY DEF indexVars
  <1>2. Rows' /\ HeldIsCurrent' /\ StaleOnlyIfOvertaken'
    BY <1>1 DEF BackfillInv, Rows, HeldIsCurrent, StaleOnlyIfOvertaken
  <1>3. QED
    BY <1>2 DEF BackfillInv

\* Starting.
LEMMA StartKeeps ==
  ASSUME BackfillInv, NEW w \in Worker, Start(w)
  PROVE  BackfillInv'
  <1>1. /\ pc[w] = "off" /\ pc' = [pc EXCEPT ![w] = "fetch"] /\ total' = [total EXCEPT ![w] = 0]
        /\ UNCHANGED <<indexVars, batch, overtaken>>
    BY DEF Start
  <1>2. batch[w] = <<>> /\ Len(<<>>) = 0
    BY <1>1 DEF BackfillInv, Runs
  <1>3. Runs'
    BY <1>1 DEF BackfillInv, Runs
  <1>4. KeepsLimits'
    BY <1>1, <1>2, BackfillConstants DEF BackfillInv, Runs, KeepsLimits
  <1>5. QED
    BY <1>1, <1>3, <1>4, IdleKeeps

\* Computing the vectors.
LEMMA EmbedKeeps ==
  ASSUME BackfillInv, NEW w \in Worker, Embed(w)
  PROVE  BackfillInv'
  <1>1. /\ pc[w] = "embed" /\ pc' = [pc EXCEPT ![w] = "put"]
        /\ UNCHANGED <<indexVars, batch, total, overtaken>>
    BY DEF Embed
  <1>2. Runs' /\ KeepsLimits'
    BY <1>1 DEF BackfillInv, Runs, KeepsLimits
  <1>3. QED
    BY <1>1, <1>2, IdleKeeps

\* A run that ends drops its batch.
LEMMA AbortKeeps ==
  ASSUME BackfillInv, NEW w \in Worker, Abort(w)
  PROVE  BackfillInv'
  <1>1. /\ pc' = [pc EXCEPT ![w] = "off"] /\ batch' = [batch EXCEPT ![w] = <<>>]
        /\ UNCHANGED <<status, content, emb, vec, total, overtaken>>
    BY DEF Abort, indexVars
  <1>2. <<>> \in Seq(Entries) /\ Len(<<>>) = 0 /\ DOMAIN <<>> = {}
    BY EmptySeq
  <1>3. Rows' /\ StaleOnlyIfOvertaken'
    BY <1>1 DEF BackfillInv, Rows, StaleOnlyIfOvertaken
  <1>4. Runs'
    BY <1>1, <1>2 DEF BackfillInv, Runs
  <1>5. KeepsLimits'
    <2>1. total[w] \in Nat /\ Len(batch[w]) \in Nat
      BY LenProperties DEF BackfillInv, Runs
    <2>2. MaxRun # 0 => total[w] + 0 <= MaxRun
      BY <2>1, BackfillConstants DEF BackfillInv, KeepsLimits
    <2>3. QED
      BY <1>1, <1>2, <2>1, <2>2, BackfillConstants DEF BackfillInv, Runs, KeepsLimits
  <1>6. HeldIsCurrent'
    BY <1>1, <1>2 DEF BackfillInv, Runs, HeldIsCurrent
  <1>7. QED
    BY <1>3, <1>4, <1>5, <1>6 DEF BackfillInv

\* A batch is a copy of what is current, and no larger than the limits.
LEMMA FetchKeeps ==
  ASSUME BackfillInv, NEW w \in Worker, Fetch(w)
  PROVE  BackfillInv'
  <1> DEFINE n == Min({LimitOf(w), Cardinality(Pending)})
  <1>1. /\ pc[w] = "fetch" /\ UNCHANGED <<indexVars, total, overtaken>>
        /\ UNCHANGED <<status, content, emb, vec>>
    BY DEF Fetch, indexVars
  <1>2. batch[w] = <<>> /\ Len(<<>>) = 0
    BY <1>1 DEF BackfillInv, Runs
  <1>3. CASE n = 0 /\ pc' = [pc EXCEPT ![w] = "off"] /\ UNCHANGED batch
    <2>1. Runs' /\ KeepsLimits'
      BY <1>1, <1>2, <1>3 DEF BackfillInv, Runs, KeepsLimits
    <2>2. QED
      BY <1>1, <1>3, <2>1, IdleKeeps
  <1>4. ASSUME n > 0, pc' = [pc EXCEPT ![w] = "embed"],
               NEW ids \in OldestPending(n),
               batch' = [batch EXCEPT ![w] =
                 [i \in 1 .. n |-> [memory |-> ids[i], content |-> content[ids[i]]]]]
        PROVE  BackfillInv'
    <2> DEFINE fetched == [i \in 1 .. n |-> [memory |-> ids[i], content |-> content[ids[i]]]]
    <2>1. total[w] \in Nat /\ total[w] \in Int /\ Batch \in Int /\ MaxRun \in Int
      BY BackfillConstants DEF BackfillInv, Runs
    <2>2. LimitOf(w) = IF MaxRun = 0 THEN Batch
                       ELSE IF Batch <= MaxRun - total[w] THEN Batch ELSE MaxRun - total[w]
      BY <2>1, OfTwo DEF LimitOf
    <2>3. LimitOf(w) \in Int /\ LimitOf(w) <= Batch /\ (MaxRun # 0 => LimitOf(w) <= MaxRun - total[w])
      BY <2>1, <2>2
    <2>4. IsFiniteSet(Pending)
      <3>1. Pending \subseteq {m \in MemoryId : status[m] # "absent"}
        BY DEF Pending
      <3>2. QED
        BY <3>1, FS_Subset DEF BackfillInv, Rows
    <2>5. Cardinality(Pending) \in Int
      BY <2>4, FS_CardinalityType
    <2>6. n = IF LimitOf(w) <= Cardinality(Pending) THEN LimitOf(w) ELSE Cardinality(Pending)
      BY <2>3, <2>5, OfTwo
    <2>7. n \in Nat /\ n > 0 /\ n <= Batch /\ (MaxRun # 0 => total[w] + n <= MaxRun)
      BY <1>4, <2>1, <2>3, <2>5, <2>6
    <2> HIDE DEF n
    <2>8. /\ ids \in [1 .. n -> Pending]
          /\ \A i, j \in 1 .. n : ids[i] = ids[j] => i = j
      BY <1>4 DEF OldestPending, IsInjective
    <2>9. \A i \in 1 .. n : ids[i] \in MemoryId /\ status[ids[i]] = "live" /\ content[ids[i]] \in Content
      BY <2>8 DEF Pending, BackfillInv, Rows
    <2>10. fetched \in [1 .. n -> Entries]
      BY <2>9 DEF Entries
    <2>11. fetched \in Seq(Entries) /\ Len(fetched) = n /\ DOMAIN fetched = 1 .. n /\ fetched # <<>>
      <3>1. fetched \in Seq(Entries)
        BY <2>7, <2>10, SeqDef
      <3>2. DOMAIN fetched = 1 .. n
        OBVIOUS
      <3>3. Len(fetched) = n
        BY <2>7, <3>1, <3>2, LenProperties
      <3>4. QED
        BY <2>7, <3>1, <3>2, <3>3, EmptySeq
    <2>12. \A i \in 1 .. n : fetched[i].memory = ids[i] /\ fetched[i].content = content[ids[i]]
      OBVIOUS
    <2> HIDE DEF fetched
    <2>13. batch' = [batch EXCEPT ![w] = fetched]
      BY <1>4 DEF fetched
    <2>14. Runs'
      BY <1>1, <1>4, <2>11, <2>13 DEF BackfillInv, Runs
    <2>15. KeepsLimits'
      BY <1>1, <2>7, <2>11, <2>13 DEF BackfillInv, Runs, KeepsLimits
    <2>16. HeldIsCurrent'
      <3> SUFFICES ASSUME NEW v \in Worker PROVE
            /\ \A i \in DOMAIN batch'[v] : LET e == batch'[v][i] IN
                 status'[e.memory] # "absent" /\ (e.content # content'[e.memory] => e.memory \in overtaken')
            /\ \A i, j \in DOMAIN batch'[v] : i # j => batch'[v][i].memory # batch'[v][j].memory
        BY DEF HeldIsCurrent
      <3>1. CASE v = w
        BY <1>1, <2>8, <2>9, <2>11, <2>12, <2>13, <3>1 DEF BackfillInv, Runs
      <3>2. CASE v # w
        BY <1>1, <2>13, <3>2 DEF BackfillInv, Runs, HeldIsCurrent
      <3>3. QED
        BY <3>1, <3>2
    <2>17. Rows' /\ StaleOnlyIfOvertaken'
      BY <1>1 DEF BackfillInv, Rows, StaleOnlyIfOvertaken
    <2>18. QED
      BY <2>14, <2>15, <2>16, <2>17 DEF BackfillInv
  <1>5. \/ n = 0 /\ pc' = [pc EXCEPT ![w] = "off"] /\ UNCHANGED batch
        \/ /\ n > 0 /\ pc' = [pc EXCEPT ![w] = "embed"]
           /\ \E ids \in OldestPending(n) :
                batch' = [batch EXCEPT ![w] =
                  [i \in 1 .. n |-> [memory |-> ids[i], content |-> content[ids[i]]]]]
    BY DEF Fetch
  <1>6. QED
    BY <1>3, <1>4, <1>5

\* A vector that is stored belongs to the current content, or to a memory
\* that was overtaken; and the mark of a memory is taken away only when its
\* vector is right and nobody else holds it.
LEMMA PutKeeps ==
  ASSUME BackfillInv, NEW w \in Worker, PutNext(w)
  PROVE  BackfillInv'
  <1> DEFINE m == Head(batch[w]).memory
             c == Head(batch[w]).content
             rest == Tail(batch[w])
  <1>1. /\ pc[w] = "put" /\ status[m] # "absent"
        /\ vec' = [vec EXCEPT ![m] = c] /\ emb' = [emb EXCEPT ![m] = "done"]
        /\ UNCHANGED <<status, content>>
        /\ overtaken' = IF c = content[m] /\ \A v \in Worker \ {w} : ~Held(v, m)
                          THEN overtaken \ {m} ELSE overtaken
        /\ batch' = [batch EXCEPT ![w] = rest]
        /\ total' = IF MaxRun = 0 THEN total ELSE [total EXCEPT ![w] = @ + 1]
        /\ pc' = [pc EXCEPT ![w] = IF Len(batch[w]) > 1 THEN "put"
                                   ELSE IF MaxRun # 0 /\ total'[w] >= MaxRun THEN "off" ELSE "fetch"]
    BY DEF PutNext, Put
  <1>2. batch[w] \in Seq(Entries) /\ batch[w] # <<>>
    BY <1>1 DEF BackfillInv, Runs
  <1>3. /\ rest \in Seq(Entries) /\ Len(rest) = Len(batch[w]) - 1 /\ Len(batch[w]) \in Nat /\ Len(batch[w]) > 0
        /\ \A i \in DOMAIN rest : i \in DOMAIN batch[w] /\ i + 1 \in DOMAIN batch[w] /\ rest[i] = batch[w][i + 1]
        /\ 1 \in DOMAIN batch[w] /\ Head(batch[w]) = batch[w][1] /\ Head(batch[w]) \in Entries
    BY <1>2, RestOfBatch
  <1>4. m \in MemoryId /\ c \in Content /\ m = batch[w][1].memory /\ c = batch[w][1].content
    BY <1>3 DEF Entries
  <1>5. c # content[m] => m \in overtaken
    BY <1>3, <1>4 DEF BackfillInv, HeldIsCurrent
  <1>6. DOMAIN rest \subseteq Nat /\ (rest # <<>> <=> Len(batch[w]) > 1)
    <2>1. Len(rest) \in Nat /\ DOMAIN rest = 1 .. Len(rest)
      BY <1>3, LenProperties
    <2>2. rest # <<>> <=> Len(rest) # 0
      BY <1>3, EmptySeq
    <2>3. QED
      BY <1>3, <2>1, <2>2
  <1>7. \A i \in DOMAIN rest : rest[i].memory # m
    BY <1>3, <1>4, <1>6 DEF BackfillInv, HeldIsCurrent
  <1> HIDE DEF m, c, rest
  <1>8. Rows'
    BY <1>1, <1>4 DEF BackfillInv, Rows
  <1>9. Runs'
    BY <1>1, <1>3, <1>6 DEF BackfillInv, Runs
  <1>10. KeepsLimits'
    <2>1. total[w] \in Nat /\ (MaxRun # 0 => total'[w] = total[w] + 1)
      BY <1>1 DEF BackfillInv, Runs
    <2>2. Len(batch[w]) <= Batch /\ (MaxRun # 0 => total[w] + Len(batch[w]) <= MaxRun)
      BY DEF BackfillInv, KeepsLimits
    <2>3. Len(batch'[w]) <= Batch /\ (MaxRun # 0 => total'[w] + Len(batch'[w]) <= MaxRun)
      BY <1>1, <1>3, <2>1, <2>2, BackfillConstants DEF BackfillInv, Runs
    <2>4. ASSUME NEW v \in Worker, v # w PROVE batch'[v] = batch[v] /\ total'[v] = total[v]
      BY <1>1, <2>4 DEF BackfillInv, Runs
    <2>5. QED
      BY <2>3, <2>4 DEF BackfillInv, KeepsLimits
  <1>11. HeldIsCurrent'
    <2> SUFFICES ASSUME NEW v \in Worker PROVE
          /\ \A i \in DOMAIN batch'[v] : LET e == batch'[v][i] IN
               status'[e.memory] # "absent" /\ (e.content # content'[e.memory] => e.memory \in overtaken')
          /\ \A i, j \in DOMAIN batch'[v] : i # j => batch'[v][i].memory # batch'[v][j].memory
      BY DEF HeldIsCurrent
    <2>1. CASE v = w
      <3>1. batch'[v] = rest
        BY <1>1, <2>1 DEF BackfillInv, Runs
      <3>2. \A i \in DOMAIN rest : LET e == rest[i] IN
               status[e.memory] # "absent" /\ (e.content # content[e.memory] => e.memory \in overtaken)
        BY <1>3 DEF BackfillInv, HeldIsCurrent
      <3>3. \A i, j \in DOMAIN rest : i # j => rest[i].memory # rest[j].memory
        BY <1>3, <1>6 DEF BackfillInv, HeldIsCurrent
      <3>4. \A k : k # m /\ k \in overtaken => k \in overtaken'
        BY <1>1
      <3>5. QED
        BY <1>1, <1>7, <3>1, <3>2, <3>3, <3>4
    <2>2. CASE v # w
      <3>1. batch'[v] = batch[v]
        BY <1>1, <2>2 DEF BackfillInv, Runs
      <3>2. \A i \in DOMAIN batch[v] : batch[v][i].memory \in overtaken => batch[v][i].memory \in overtaken'
        BY <1>1, <2>2 DEF Held
      <3>3. QED
        BY <1>1, <3>1, <3>2 DEF BackfillInv, HeldIsCurrent
    <2>3. QED
      BY <2>1, <2>2
  <1>12. StaleOnlyIfOvertaken'
    <2> SUFFICES ASSUME NEW k \in MemoryId, vec'[k] \notin {NoContent, content'[k]}
                 PROVE  k \in overtaken'
      BY DEF StaleOnlyIfOvertaken
    <2>1. CASE k = m
      <3>1. vec'[m] = c /\ content' = content
        BY <1>1, <1>4 DEF BackfillInv, Rows
      <3>2. QED
        BY <1>1, <1>5, <2>1, <3>1
    <2>2. CASE k # m
      <3>1. vec'[k] = vec[k] /\ content' = content
        BY <1>1, <2>2 DEF BackfillInv, Rows
      <3>2. k \in overtaken
        BY <3>1 DEF BackfillInv, StaleOnlyIfOvertaken
      <3>3. QED
        BY <1>1, <2>2, <3>2
    <2>3. QED
      BY <2>1, <2>2
  <1>13. QED
    BY <1>8, <1>9, <1>10, <1>11, <1>12 DEF BackfillInv

-----------------------------------------------------------------------------
(* The queue.                                                              *)

\* The rows that have a place in the order.
InQueue(m) == m \in current \/ \E i \in DOMAIN older : m \in older[i]

\* The pending rows are those in the queue; the others that exist have a
\* vector.
QueueInv ==
  /\ older \in Seq(SUBSET MemoryId) /\ current \subseteq MemoryId
  /\ \A m \in MemoryId :
       /\ emb[m] = "pending" <=> InQueue(m)
       /\ emb[m] = "none" <=> status[m] = "absent"
       /\ emb[m] = "done" <=> vec[m] # NoContent

\* The seconds that are picked, and those that they came from.
LEMMA PickedSeconds ==
  ASSUME NEW rows \in Seq(SUBSET MemoryId), NEW places \in SUBSET (DOMAIN rows)
  PROVE  /\ Picked(rows, places) \in Seq(SUBSET MemoryId)
         /\ \A i \in DOMAIN Picked(rows, places) : Nth(places, i) \in places /\ Picked(rows, places)[i] = rows[Nth(places, i)]
         /\ \A i \in places : \E j \in DOMAIN Picked(rows, places) : Nth(places, j) = i
  <1> DEFINE T == SUBSET MemoryId
  <1> HIDE DEF T
  <1>1. rows \in Seq(T) /\ places \in SUBSET (DOMAIN rows)
    BY DEF T
  <1>2. Picked(rows, places) \in Seq(T)
    BY <1>1, PickedProperties
  <1>3. \A i \in DOMAIN Picked(rows, places) : Nth(places, i) \in places /\ Picked(rows, places)[i] = rows[Nth(places, i)]
    BY <1>1, PickedProperties
  <1>4. \A i \in places : \E j \in DOMAIN Picked(rows, places) : Nth(places, j) = i
    <2> TAKE i \in places
    <2>1. \E j \in DOMAIN Picked(rows, places) : Nth(places, j) = i /\ Picked(rows, places)[j] = rows[i]
      BY <1>1, PickedReaches
    <2>2. QED
      BY <2>1
  <1>5. QED
    BY <1>2, <1>3, <1>4 DEF T

\* Taking a row out of its second leaves the others where they are.
LEMMA OthersStayQueued ==
  ASSUME older \in Seq(SUBSET MemoryId), NEW m
  PROVE  /\ Without(m) \in Seq(SUBSET MemoryId)
         /\ \A k : (\E i \in DOMAIN Without(m) : k \in Without(m)[i])
                     <=> k # m /\ \E i \in DOMAIN older : k \in older[i]
  <1> DEFINE rows == [i \in DOMAIN older |-> older[i] \ {m}]
             places == {i \in DOMAIN rows : rows[i] # {}}
  <1>1. DOMAIN older = 1 .. Len(older) /\ Len(older) \in Nat /\ \A i \in DOMAIN older : older[i] \in SUBSET MemoryId
    BY LenProperties, ElementOfSeq
  <1>2. rows \in [1 .. Len(older) -> SUBSET MemoryId]
    BY <1>1
  <1>3. rows \in Seq(SUBSET MemoryId)
    BY <1>1, <1>2, IsASeq
  <1>4. places \in SUBSET (DOMAIN rows)
    OBVIOUS
  <1>5. Without(m) = Picked(rows, places)
    BY DEF Without
  <1>6. DOMAIN rows = DOMAIN older /\ \A i \in DOMAIN older : rows[i] = older[i] \ {m}
    OBVIOUS
  <1>7. \A i \in DOMAIN rows : i \in places <=> rows[i] # {}
    OBVIOUS
  <1> HIDE DEF rows, places
  <1> DEFINE left == Picked(rows, places)
  <1>8. /\ left \in Seq(SUBSET MemoryId)
        /\ \A i \in DOMAIN left : Nth(places, i) \in places /\ left[i] = rows[Nth(places, i)]
        /\ \A i \in places : \E j \in DOMAIN left : Nth(places, j) = i
    BY <1>3, <1>4, PickedSeconds
  <1> HIDE DEF left
  <1>9. ASSUME NEW k, NEW i \in DOMAIN left, k \in left[i]
        PROVE  k # m /\ \E j \in DOMAIN older : k \in older[j]
    <2>1. Nth(places, i) \in DOMAIN older /\ k \in rows[Nth(places, i)]
      BY <1>4, <1>6, <1>8, <1>9
    <2>2. QED
      BY <1>6, <2>1
  <1>10. ASSUME NEW k, k # m, NEW i \in DOMAIN older, k \in older[i]
         PROVE  \E j \in DOMAIN left : k \in left[j]
    <2>1. k \in rows[i] /\ i \in DOMAIN rows
      BY <1>6, <1>10
    <2>2. i \in places
      BY <1>7, <2>1
    <2>3. PICK j \in DOMAIN left : Nth(places, j) = i
      BY <1>8, <2>2
    <2>4. k \in left[j]
      BY <1>8, <2>1, <2>3
    <2>5. QED
      BY <2>4
  <1>11. QED
    BY <1>5, <1>8, <1>9, <1>10 DEF left

\* At first there are neither rows nor a queue.
LEMMA QueueInvInit == BackfillInit => QueueInv
  <1> SUFFICES ASSUME BackfillInit PROVE QueueInv
    OBVIOUS
  <1>1. older = <<>> /\ current = {} /\ \A m \in MemoryId :
          emb[m] = "none" /\ vec[m] = NoContent /\ status[m] = "absent"
    BY DEF BackfillInit, Init
  <1>2. <<>> \in Seq(SUBSET MemoryId) /\ DOMAIN <<>> = {}
    BY EmptySeq
  <1>3. QED
    BY <1>1, <1>2 DEF QueueInv, InQueue

\* A row that is stamped is in the queue, and no other row moves.
LEMMA StampQueues ==
  ASSUME QueueInv, NEW m \in MemoryId, Stamp(m)
  PROVE  /\ older' \in Seq(SUBSET MemoryId) /\ current' \subseteq MemoryId
         /\ \A k \in MemoryId : InQueue(k)' <=> k = m \/ InQueue(k)
  <1>1. older' = Without(m) /\ current' = current \cup {m}
    BY DEF Stamp
  <1>2. /\ Without(m) \in Seq(SUBSET MemoryId)
        /\ \A k : (\E i \in DOMAIN Without(m) : k \in Without(m)[i])
                    <=> k # m /\ \E i \in DOMAIN older : k \in older[i]
    BY OthersStayQueued DEF QueueInv
  <1>3. QED
    BY <1>1, <1>2 DEF QueueInv, InQueue

\* A row that is done has left the queue, and no other row has.
LEMMA UnqueueLeaves ==
  ASSUME QueueInv, NEW m \in MemoryId, Unqueue(m)
  PROVE  /\ older' \in Seq(SUBSET MemoryId) /\ current' \subseteq MemoryId
         /\ \A k \in MemoryId : InQueue(k)' <=> k # m /\ InQueue(k)
  <1>1. older' = Without(m) /\ current' = current \ {m}
    BY DEF Unqueue
  <1>2. /\ Without(m) \in Seq(SUBSET MemoryId)
        /\ \A k : (\E i \in DOMAIN Without(m) : k \in Without(m)[i])
                    <=> k # m /\ \E i \in DOMAIN older : k \in older[i]
    BY OthersStayQueued DEF QueueInv
  <1>3. QED
    BY <1>1, <1>2 DEF QueueInv, InQueue

\* When a second ends its rows are the youngest of the older ones.
LEMMA TickQueues ==
  ASSUME QueueInv, ClockTick
  PROVE  QueueInv'
  <1>1. older' = Append(older, current) /\ current' = {} /\ UNCHANGED <<status, emb, vec>>
    BY DEF ClockTick, indexVars
  <1>2. older \in Seq(SUBSET MemoryId) /\ current \in SUBSET MemoryId
    BY DEF QueueInv
  <1>3. /\ Append(older, current) \in Seq(SUBSET MemoryId) /\ Len(Append(older, current)) = Len(older) + 1
        /\ \A i \in 1 .. Len(older) : Append(older, current)[i] = older[i]
        /\ Append(older, current)[Len(older) + 1] = current
    BY <1>2, AppendProperties
  <1>4. DOMAIN older = 1 .. Len(older) /\ Len(older) \in Nat /\ DOMAIN older' = 1 .. Len(older) + 1
    BY <1>1, <1>2, <1>3, LenProperties
  <1>5. /\ \A i \in DOMAIN older' : i \in DOMAIN older \/ i = Len(older) + 1
        /\ \A i \in DOMAIN older : i \in DOMAIN older'
        /\ Len(older) + 1 \in DOMAIN older'
    BY <1>4
  <1>6. \A m : InQueue(m)' <=> InQueue(m)
    BY <1>1, <1>3, <1>4, <1>5 DEF InQueue
  <1>7. QED
    BY <1>1, <1>3, <1>6 DEF QueueInv

\* Every step keeps the queue.
LEMMA QueueInvStep == BackfillInv /\ QueueInv /\ [BackfillNext]_vars => QueueInv'
  <1> SUFFICES ASSUME BackfillInv, QueueInv, [BackfillNext]_vars PROVE QueueInv'
    OBVIOUS
  <1>1. ASSUME UNCHANGED <<status, emb, vec, older, current>> PROVE QueueInv'
    BY <1>1 DEF QueueInv, InQueue
  <1>2. ASSUME NEW m \in MemoryId, NEW c \in Content, Write(m, c) PROVE QueueInv'
    <2>1. /\ status[m] = "absent" /\ status' = [status EXCEPT ![m] = "live"]
          /\ emb' = [emb EXCEPT ![m] = "pending"] /\ vec' = vec /\ Stamp(m)
      BY <1>2 DEF Write, Add
    <2>2. /\ older' \in Seq(SUBSET MemoryId) /\ current' \subseteq MemoryId
          /\ \A k \in MemoryId : InQueue(k)' <=> k = m \/ InQueue(k)
      BY <2>1, StampQueues
    <2>3. QED
      BY <2>1, <2>2 DEF QueueInv, BackfillInv, Rows
  <1>3. ASSUME NEW m \in MemoryId, NEW c \in Content, UpdateContent(m, c) PROVE QueueInv'
    <2>1. /\ status[m] = "live" /\ status' = status /\ vec' = [vec EXCEPT ![m] = NoContent]
          /\ emb' = [emb EXCEPT ![m] = "pending"] /\ Stamp(m)
      BY <1>3 DEF UpdateContent, Rewrite
    <2>2. /\ older' \in Seq(SUBSET MemoryId) /\ current' \subseteq MemoryId
          /\ \A k \in MemoryId : InQueue(k)' <=> k = m \/ InQueue(k)
      BY <2>1, StampQueues
    <2>3. QED
      BY <2>1, <2>2 DEF QueueInv, BackfillInv, Rows
  <1>4. ASSUME NEW m \in MemoryId, Invalidate(m) PROVE QueueInv'
    <2>1. /\ status[m] = "live" /\ status' = [status EXCEPT ![m] = "invalid"]
          /\ UNCHANGED <<emb, vec, older, current>>
      BY <1>4 DEF Invalidate, Retire
    <2>2. QED
      BY <2>1 DEF QueueInv, InQueue, BackfillInv, Rows
  <1>5. ASSUME NEW w \in Worker, PutNext(w) PROVE QueueInv'
    <2> DEFINE m == Head(batch[w]).memory
               c == Head(batch[w]).content
    <2>1. batch[w] \in Seq(Entries) /\ batch[w] # <<>>
      BY <1>5 DEF PutNext, BackfillInv, Runs
    <2>2. m \in MemoryId /\ c \in Content
      BY <2>1, RestOfBatch DEF Entries
    <2>3. Put(m, c) /\ Unqueue(m)
      BY <1>5 DEF PutNext
    <2> HIDE DEF m, c
    <2>4. /\ status[m] # "absent" /\ vec' = [vec EXCEPT ![m] = c] /\ emb' = [emb EXCEPT ![m] = "done"]
          /\ status' = status
      BY <2>3 DEF Put
    <2>5. /\ older' \in Seq(SUBSET MemoryId) /\ current' \subseteq MemoryId
          /\ \A k \in MemoryId : InQueue(k)' <=> k # m /\ InQueue(k)
      BY <2>2, <2>3, UnqueueLeaves
    <2>6. c # NoContent
      BY <2>2, BackfillConstants
    <2>7. QED
      BY <2>2, <2>4, <2>5, <2>6 DEF QueueInv, BackfillInv, Rows
  <1>6. ASSUME NEW w \in Worker, Start(w) \/ Fetch(w) \/ Embed(w) \/ Abort(w) PROVE QueueInv'
    <2>1. UNCHANGED <<status, emb, vec, older, current>>
      BY <1>6 DEF Start, Fetch, Embed, Abort, indexVars
    <2>2. QED
      BY <1>1, <2>1
  <1>7. CASE UNCHANGED vars
    BY <1>1, <1>7 DEF vars, indexVars
  <1>8. QED
    BY <1>2, <1>3, <1>4, <1>5, <1>6, <1>7, TickQueues DEF BackfillNext, ClientStep, WorkerStep

-----------------------------------------------------------------------------
(* The theorems.                                                           *)

\* Every step keeps the invariant.
LEMMA BackfillInvStep == BackfillInv /\ [BackfillNext]_vars => BackfillInv'
  <1> SUFFICES ASSUME BackfillInv, [BackfillNext]_vars PROVE BackfillInv'
    OBVIOUS
  <1>1. CASE ClientStep
    BY <1>1, WriteKeeps, UpdateKeeps, InvalidateKeeps DEF ClientStep
  <1>2. CASE ClockTick
    <2>1. UNCHANGED <<indexVars, batch, overtaken>> /\ UNCHANGED <<pc, total, batch>>
      BY <1>2 DEF ClockTick, workerVars
    <2>2. Runs' /\ KeepsLimits'
      BY <2>1 DEF BackfillInv, Runs, KeepsLimits
    <2>3. QED
      BY <2>1, <2>2, IdleKeeps
  <1>3. ASSUME NEW w \in Worker, Start(w) \/ WorkerStep(w) \/ Abort(w) PROVE BackfillInv'
    BY <1>3, StartKeeps, FetchKeeps, EmbedKeeps, PutKeeps, AbortKeeps DEF WorkerStep
  <1>4. CASE UNCHANGED vars
    <2>1. UNCHANGED <<indexVars, batch, overtaken>> /\ UNCHANGED <<pc, total, batch>>
      BY <1>4 DEF vars, workerVars
    <2>2. Runs' /\ KeepsLimits'
      BY <2>1 DEF BackfillInv, Runs, KeepsLimits
    <2>3. QED
      BY <2>1, <2>2, IdleKeeps
  <1>5. QED
    BY <1>1, <1>2, <1>3, <1>4 DEF BackfillNext

\* The invariant always holds.
LEMMA BackfillInvHolds == BackfillSpec => []BackfillInv
  BY BackfillInvInit, BackfillInvStep, PTL DEF BackfillSpec

\* A stored vector that disagrees with the content is the work of a run that
\* held the memory while its content was changed, and of nothing else.
THEOREM BackfillStaleOnlyIfOvertaken == BackfillSpec => []StaleOnlyIfOvertaken
  <1>1. BackfillInv => StaleOnlyIfOvertaken
    BY DEF BackfillInv
  <1>2. QED
    BY <1>1, BackfillInvHolds, PTL

\* No run holds more than --batch memories or embeds more than --max, even
\* with others embedding the same memories.
THEOREM BackfillKeepsLimits == BackfillSpec => []KeepsLimits
  <1>1. BackfillInv => KeepsLimits
    BY DEF BackfillInv
  <1>2. QED
    BY <1>1, BackfillInvHolds, PTL

\* However many runs embed the same memories, however they are killed, and
\* whatever is written meanwhile: no live memory drops out of the index, for
\* it has either a vector or a place in the queue.
THEOREM BackfillNoLiveMemoryForgotten == BackfillSpec => []NoLiveMemoryForgotten
  <1>1. BackfillInit => BackfillInv /\ QueueInv
    BY BackfillInvInit, QueueInvInit
  <1>2. (BackfillInv /\ QueueInv) /\ [BackfillNext]_vars => (BackfillInv /\ QueueInv)'
    BY BackfillInvStep, QueueInvStep
  <1>3. BackfillInv /\ QueueInv => NoLiveMemoryForgotten
    <2> SUFFICES ASSUME BackfillInv, QueueInv, NEW m \in MemoryId, status[m] = "live"
                 PROVE  (vec[m] = NoContent) = (m \in Pending /\ m \in current \cup UNION Range(older))
      BY DEF NoLiveMemoryForgotten
    <2>1. m \in current \cup UNION Range(older) <=> InQueue(m)
      BY DEF Range, InQueue
    <2>2. m \in Pending <=> emb[m] = "pending"
      BY DEF Pending
    <2>3. vec[m] = NoContent <=> emb[m] = "pending"
      BY DEF QueueInv, BackfillInv, Rows
    <2>4. emb[m] = "pending" <=> InQueue(m)
      BY DEF QueueInv
    <2>5. QED
      BY <2>1, <2>2, <2>3, <2>4
  <1>4. QED
    BY <1>1, <1>2, <1>3, PTL DEF BackfillSpec

-----------------------------------------------------------------------------
(* Transactions: what a connection relies on.                              *)

USE TransactionConstants

\* What a connection relies on between its statements: what it has looked up
\* is so in its snapshot, what it holds the lock for is one call on the newest
\* database, and its snapshot is no older than its call.
Relies(c) ==
  /\ at[c] = FirstOf(todo[c]) \/ at[c] \in {"target", "upsert", "none", "commit"}
  /\ at[c] \in {"target", "upsert"} =>
       /\ Head(todo[c]).kind = "edge"
       /\ wal[snap[c]].status[Head(todo[c]).source] = "live"
  /\ at[c] = "upsert" => wal[snap[c]].status[Head(todo[c]).target] = "live"
  /\ at[c] \in {"none", "commit"} => snap[c] = Len(wal)
  /\ at[c] = "commit" =>
       /\ Atomic!Allowed(Newest, Head(todo[c]))
       /\ draft = Atomic!After(Newest, Head(todo[c]))
  /\ at[c] # "idle" => began[c] <= Len(wal)
  /\ snap[c] # 0 => began[c] <= snap[c]

TxnInv == TxnTypeOK /\ \A c \in Conn : Relies(c)

-----------------------------------------------------------------------------
(* The pieces that the statements share.                                   *)

\* A connection with a plan is at its first statement or further.
LEMMA HeadIsCall ==
  ASSUME TxnTypeOK, NEW c \in Conn, at[c] # "idle"
  PROVE  /\ Head(todo[c]) \in TxnCall
         /\ Tail(todo[c]) \in Seq(TxnCall)
         /\ FirstOf(Tail(todo[c])) \in {"idle", "source", "modify"}
         /\ FirstOf(Tail(todo[c])) # "idle" => Tail(todo[c]) # <<>>
  <1>1. todo[c] \in Seq(TxnCall) /\ todo[c] # <<>>
    BY DEF TxnTypeOK
  <1>2. Head(todo[c]) \in TxnCall /\ Tail(todo[c]) \in Seq(TxnCall)
    BY <1>1, HeadTailProperties
  <1>3. QED
    BY <1>2 DEF FirstOf

\* The newest database is one.
LEMMA NewestIsDatabase ==
  ASSUME TxnTypeOK
  PROVE  /\ Newest \in Database
         /\ Len(wal) \in Nat /\ Len(wal) > 0
         /\ \A i \in 1 .. Len(wal) : wal[i] \in Database
  <1>1. wal \in Seq(Database) /\ Len(wal) \in Nat /\ Len(wal) > 0
    BY DEF TxnTypeOK
  <1>2. \A i \in 1 .. Len(wal) : wal[i] \in Database
    BY <1>1, ElementOfSeq
  <1>3. QED
    BY <1>1, <1>2 DEF Newest

\* What a connection relies on survives what the others do, as long as the
\* log is as it was and nobody but the holder of the lock writes.
LEMMA OthersRely ==
  ASSUME TxnInv, NEW d \in Conn, wal' = wal,
         at'[d] = at[d], todo'[d] = todo[d], snap'[d] = snap[d], began'[d] = began[d],
         lock = d => draft' = draft
  PROVE  Relies(d)'
  <1>1. Relies(d) /\ (at[d] = "commit" => draft' = draft)
    BY DEF TxnInv, TxnTypeOK
  <1>2. FirstOf(todo'[d]) = FirstOf(todo[d]) /\ Newest' = Newest
    BY DEF Newest
  <1>3. QED
    BY <1>1, <1>2 DEF Relies, Atomic!Allowed, Atomic!After, Atomic!Restated, Atomic!Associated

\* A call that ends without a commit leaves nothing behind.
LEMMA RollBackStep ==
  ASSUME TxnInv, NEW c \in Conn, NEW o \in Outcome, at[c] # "idle", RollBack(c, o)
  PROVE  TxnInv'
  <1>1. TxnTypeOK /\ \A d \in Conn : Relies(d)
    BY DEF TxnInv
  <1>2. /\ Head(todo[c]) \in TxnCall
        /\ Tail(todo[c]) \in Seq(TxnCall)
        /\ FirstOf(Tail(todo[c])) \in {"idle", "source", "modify"}
        /\ FirstOf(Tail(todo[c])) # "idle" => Tail(todo[c]) # <<>>
    BY <1>1, HeadIsCall
  <1>3. Newest \in Database /\ Len(wal) \in Nat /\ Len(wal) > 0
    BY <1>1, NewestIsDatabase
  <1>4. /\ wal' = wal /\ synced' = synced /\ plans' = plans /\ faults' = faults
        /\ Newest' = Newest
    BY DEF RollBack, Turn, logVars, Newest
  <1>5. /\ lock' = IF lock = c THEN Nobody ELSE lock
        /\ draft' = IF lock = c THEN Newest ELSE draft
        /\ snap' = [snap EXCEPT ![c] = 0]
        /\ todo' = [todo EXCEPT ![c] = Tail(todo[c])]
        /\ at' = [at EXCEPT ![c] = FirstOf(Tail(todo[c]))]
        /\ report' = [report EXCEPT ![c] = Append(report[c], o)]
        /\ began' = [began EXCEPT ![c] = IF Tail(todo[c]) = <<>> THEN 0 ELSE Len(wal)]
    BY <1>4 DEF RollBack, Turn
  <1>6. Append(report[c], o) \in Seq(Outcome)
    BY <1>1 DEF TxnTypeOK
  <1>7. TxnTypeOK'
    <2>1. /\ (wal \in Seq(Database))' /\ (synced \in 1 .. Len(wal))'
          /\ (lock \in Conn \cup {Nobody})'
          /\ (draft \in Database)' /\ (lock = Nobody => draft = Newest)'
          /\ (plans \in Nat)' /\ (faults \in Nat)'
      BY <1>1, <1>3, <1>4, <1>5 DEF TxnTypeOK
    <2>2. /\ (todo \in [Conn -> Seq(TxnCall)])'
          /\ (at \in [Conn -> Statement])'
          /\ (snap \in [Conn -> 0 .. Len(wal)])'
          /\ (began \in [Conn -> Nat])'
      <3>1. (todo \in [Conn -> Seq(TxnCall)])'
        BY <1>1, <1>2, <1>5 DEF TxnTypeOK
      <3>2. (at \in [Conn -> Statement])'
        BY <1>1, <1>2, <1>5 DEF TxnTypeOK, Statement
      <3>3. (snap \in [Conn -> 0 .. Len(wal)])'
        BY <1>1, <1>3, <1>4, <1>5 DEF TxnTypeOK
      <3>4. (began \in [Conn -> Nat])'
        BY <1>1, <1>3, <1>5 DEF TxnTypeOK
      <3>5. QED
        BY <3>1, <3>2, <3>3, <3>4
    <2>3. (report \in [Conn -> Seq(Outcome)])'
      BY <1>1, <1>5, <1>6 DEF TxnTypeOK
    <2>4. ASSUME NEW d \in Conn
          PROVE  /\ (lock = d <=> at[d] \in {"none", "commit"})'
                 /\ (snap[d] # 0 <=> at[d] \in {"target", "upsert", "none", "commit"})'
                 /\ (at[d] # "idle" => todo[d] # <<>>)'
      BY <1>1, <1>2, <1>5 DEF TxnTypeOK
    <2>5. QED
      BY <2>1, <2>2, <2>3, <2>4 DEF TxnTypeOK
  <1>8. ASSUME NEW d \in Conn PROVE Relies(d)'
    <2>1. CASE d = c
      <3>1. at'[c] = FirstOf(Tail(todo[c])) /\ todo'[c] = Tail(todo[c])
        BY <1>1, <1>5 DEF TxnTypeOK
      <3>2. at'[c] = FirstOf(todo'[c]) /\ at'[c] \notin {"target", "upsert", "none", "commit"}
        BY <1>2, <3>1
      <3>3. /\ at'[d] = FirstOf(todo'[d])
            /\ at'[d] \notin {"target", "upsert"} /\ at'[d] # "upsert"
            /\ at'[d] \notin {"none", "commit"} /\ at'[d] # "commit"
        BY <2>1, <3>2
      <3>4. at'[d] # "idle" => began'[d] <= Len(wal')
        <4>1. began'[c] = (IF Tail(todo[c]) = <<>> THEN 0 ELSE Len(wal)) /\ Len(wal') = Len(wal)
          BY <1>1, <1>4, <1>5 DEF TxnTypeOK
        <4>2. QED
          BY <1>3, <2>1, <4>1
      <3>5. snap'[d] = 0
        BY <1>1, <1>5, <2>1 DEF TxnTypeOK
      <3>6. QED
        BY <3>3, <3>4, <3>5 DEF Relies
    <2>2. CASE d # c
      BY <1>1, <1>4, <1>5, <2>2, OthersRely DEF TxnTypeOK
    <2>3. QED
      BY <2>1, <2>2
  <1>9. QED
    BY <1>7, <1>8 DEF TxnInv

\* A successful look-up takes the snapshot, and is true in it.
LEMMA LookUpStep ==
  ASSUME TxnInv, NEW c \in Conn, ReadSource(c) \/ ReadTarget(c)
  PROVE  TxnInv'
  <1> DEFINE m    == IF at[c] = "source" THEN Head(todo[c]).source ELSE Head(todo[c]).target
             next == IF at[c] = "source" THEN "target" ELSE "upsert"
  <1>1. TxnTypeOK /\ \A d \in Conn : Relies(d)
    BY DEF TxnInv
  <1>2. at[c] \in {"source", "target"} /\ LookUp(c, m, next)
    BY DEF ReadSource, ReadTarget
  <1>3. Newest \in Database /\ Len(wal) \in Nat /\ Len(wal) > 0
    BY <1>1, NewestIsDatabase
  <1>4. CASE wal[View(c)].status[m] # "live"
    <2>1. RollBack(c, "missing") /\ at[c] # "idle" /\ "missing" \in Outcome
      BY <1>2, <1>4 DEF LookUp, Outcome
    <2>2. QED
      BY <2>1, RollBackStep
  <1>5. CASE wal[View(c)].status[m] = "live"
    <2>1. /\ snap' = [snap EXCEPT ![c] = View(c)]
          /\ at'   = [at EXCEPT ![c] = next]
          /\ UNCHANGED <<logVars, lock, todo, draft, report, began, plans, faults>>
      BY <1>2, <1>5 DEF LookUp
    <2>2. View(c) \in 1 .. Len(wal) /\ next \in {"target", "upsert"}
      BY <1>1, <1>2, <1>3 DEF View, TxnTypeOK
    <2>3. TxnTypeOK'
      <3>1. (at \in [Conn -> Statement])' /\ (snap \in [Conn -> 0 .. Len(wal)])'
        BY <1>1, <1>3, <2>1, <2>2 DEF TxnTypeOK, Statement, logVars
      <3>2. ASSUME NEW d \in Conn
            PROVE  /\ (lock = d <=> at[d] \in {"none", "commit"})'
                   /\ (snap[d] # 0 <=> at[d] \in {"target", "upsert", "none", "commit"})'
                   /\ (at[d] # "idle" => todo[d] # <<>>)'
        BY <1>1, <1>2, <2>1, <2>2 DEF TxnTypeOK
      <3>3. QED
        BY <1>1, <2>1, <3>1, <3>2 DEF TxnTypeOK, logVars, Newest
    <2>4. ASSUME NEW d \in Conn PROVE Relies(d)'
      <3>1. CASE d = c
        <4>1. Head(todo[c]).kind = "edge" /\ began[c] <= View(c)
          BY <1>1, <1>2, <1>3 DEF Relies, FirstOf, View, TxnTypeOK
        <4>2. at[c] = "target" => wal[View(c)].status[Head(todo[c]).source] = "live"
          BY <1>1 DEF Relies, View, TxnTypeOK
        <4>3. /\ wal'[snap'[c]].status[Head(todo'[c]).source] = "live"
              /\ at'[c] = "upsert" => wal'[snap'[c]].status[Head(todo'[c]).target] = "live"
          BY <1>1, <1>2, <1>5, <2>1, <4>2 DEF TxnTypeOK, logVars
        <4>4. /\ at'[c] \in {"target", "upsert"} /\ snap'[c] = View(c)
              /\ began' = began /\ wal' = wal /\ todo' = todo
          BY <1>1, <2>1, <2>2 DEF TxnTypeOK, logVars
        <4>5. began[c] <= Len(wal)
          BY <1>1, <1>2 DEF Relies
        <4>6. QED
          BY <3>1, <4>1, <4>3, <4>4, <4>5 DEF Relies
      <3>2. CASE d # c
        BY <1>1, <2>1, <3>2, OthersRely DEF TxnTypeOK, logVars
      <3>3. QED
        BY <3>1, <3>2
    <2>5. QED
      BY <2>3, <2>4 DEF TxnInv
  <1>6. QED
    BY <1>4, <1>5

\* A connection that takes the lock holds what its call makes of the newest
\* database, or a call that found nothing.
LEMMA HoldStep ==
  ASSUME TxnInv, NEW c \in Conn, NEW db \in Database, NEW next \in {"none", "commit"},
         at[c] \in {"upsert", "modify"}, lock = Nobody, Hold(c, db, next),
         next = "commit" => /\ Atomic!Allowed(Newest, Head(todo[c]))
                            /\ db = Atomic!After(Newest, Head(todo[c]))
  PROVE  TxnInv'
  <1>1. TxnTypeOK /\ \A d \in Conn : Relies(d)
    BY DEF TxnInv
  <1>2. Newest \in Database /\ Len(wal) \in Nat /\ Len(wal) > 0
    BY <1>1, NewestIsDatabase
  <1>3. /\ lock' = c
        /\ snap' = [snap EXCEPT ![c] = Len(wal)]
        /\ draft' = db
        /\ at' = [at EXCEPT ![c] = next]
        /\ wal' = wal /\ synced' = synced /\ todo' = todo /\ report' = report
        /\ began' = began /\ plans' = plans /\ faults' = faults
    BY DEF Hold, logVars
  <1>4. TxnTypeOK'
    <2>1. (at \in [Conn -> Statement])' /\ (snap \in [Conn -> 0 .. Len(wal)])'
      BY <1>1, <1>2, <1>3 DEF TxnTypeOK, Statement
    <2>2. ASSUME NEW d \in Conn
          PROVE  /\ (lock = d <=> at[d] \in {"none", "commit"})'
                 /\ (snap[d] # 0 <=> at[d] \in {"target", "upsert", "none", "commit"})'
                 /\ (at[d] # "idle" => todo[d] # <<>>)'
      BY <1>1, <1>2, <1>3 DEF TxnTypeOK
    <2>3. QED
      BY <1>1, <1>3, <2>1, <2>2 DEF TxnTypeOK
  <1>5. ASSUME NEW d \in Conn PROVE Relies(d)'
    <2>1. CASE d = c
      <3>1. /\ at'[c] = next /\ snap'[c] = Len(wal) /\ began[c] <= Len(wal)
            /\ Newest' = Newest
        BY <1>1, <1>3 DEF TxnTypeOK, Relies, Newest
      <3>2. at'[c] = "commit" => /\ Atomic!Allowed(Newest', Head(todo'[c]))
                                 /\ draft' = Atomic!After(Newest', Head(todo'[c]))
        BY <1>3, <3>1
      <3>3. QED
        BY <1>3, <2>1, <3>1, <3>2 DEF Relies
    <2>2. CASE d # c
      BY <1>1, <1>3, <2>2, OthersRely DEF TxnTypeOK
    <2>3. QED
      BY <2>1, <2>2
  <1>6. QED
    BY <1>4, <1>5 DEF TxnInv

\* The INSERT of update_edge: its snapshot is the newest database, so both
\* ends are still valid, or it fails.
LEMMA UpsertStep ==
  ASSUME TxnInv, NEW c \in Conn, Upsert(c)
  PROVE  TxnInv'
  <1> DEFINE h  == Head(todo[c])
             w  == Newest.weight
             e  == <<h.source, h.target>>
             db == [status |-> Newest.status, weight |-> [w EXCEPT ![e] = w[e] + 1]]
  <1>1. TxnTypeOK /\ Relies(c) /\ at[c] = "upsert"
    BY DEF TxnInv, Upsert
  <1>2. Newest \in Database /\ h \in TxnCall
    BY <1>1, NewestIsDatabase, HeadIsCall
  <1>3. CASE lock = Nobody /\ View(c) = Len(wal)
    <2>1. Hold(c, db, "commit")
      BY <1>1, <1>3 DEF Upsert
    <2>2. snap[c] = Len(wal) /\ wal[snap[c]] = Newest
      BY <1>1, <1>3 DEF View, Newest, TxnTypeOK
    <2>3. h.kind = "edge" /\ Newest.status[h.source] = "live" /\ Newest.status[h.target] = "live"
      BY <1>1, <2>2 DEF Relies
    <2>4. Atomic!Allowed(Newest, h)
      BY <2>3 DEF Atomic!Allowed
    <2>5. Atomic!After(Newest, h) = Atomic!Associated(Newest, e)
      BY <2>3 DEF Atomic!After
    <2>6. w \in [Memories \X Memories -> Nat] /\ e \in Memories \X Memories
      BY <1>2 DEF Database, TxnCall
    <2>7. db \in Database /\ db = Atomic!Associated(Newest, e)
      BY <1>2, <2>6 DEF Database, Atomic!Associated
    <2>8. QED
      BY <1>1, <1>3, <2>1, <2>4, <2>5, <2>7, HoldStep
  <1>4. CASE ~(lock = Nobody /\ View(c) = Len(wal))
    BY <1>1, <1>4, RollBackStep DEF Upsert, Outcome
  <1>5. QED
    BY <1>3, <1>4

\* The statement of write or invalidate acts on the newest database.
LEMMA ModifyStep ==
  ASSUME TxnInv, NEW c \in Conn, Modify(c)
  PROVE  TxnInv'
  <1> DEFINE h == Head(todo[c])
             Db(s) == [status |-> [Newest.status EXCEPT ![h.source] = s],
                       weight |-> Newest.weight]
  <1>1. TxnTypeOK /\ Relies(c) /\ at[c] = "modify" /\ lock = Nobody
    BY DEF TxnInv, Modify
  <1>2. Newest \in Database /\ h \in TxnCall
    BY <1>1, NewestIsDatabase, HeadIsCall
  <1>3. \A s \in TxnStatus : Db(s) \in Database /\ Db(s) = Atomic!Restated(Newest, h.source, s)
    BY <1>2 DEF Database, TxnCall, Atomic!Restated
  <1>4. CASE /\ h.kind = "write" /\ Newest.status[h.source] = "absent"
             /\ Hold(c, Db("live"), "commit")
    <2>1. Atomic!Allowed(Newest, h) /\ Atomic!After(Newest, h) = Atomic!Restated(Newest, h.source, "live")
      BY <1>4 DEF Atomic!Allowed, Atomic!After
    <2>2. Db("live") \in Database /\ Db("live") = Atomic!After(Newest, h)
      BY <1>3, <2>1 DEF TxnStatus
    <2>3. QED
      BY <1>1, <1>4, <2>1, <2>2, HoldStep
  <1>5. CASE /\ h.kind = "invalidate" /\ Newest.status[h.source] = "live"
             /\ Hold(c, Db("invalid"), "commit")
    <2>1. Atomic!Allowed(Newest, h) /\ Atomic!After(Newest, h) = Atomic!Restated(Newest, h.source, "invalid")
      BY <1>5 DEF Atomic!Allowed, Atomic!After
    <2>2. Db("invalid") \in Database /\ Db("invalid") = Atomic!After(Newest, h)
      BY <1>3, <2>1 DEF TxnStatus
    <2>3. QED
      BY <1>1, <1>5, <2>1, <2>2, HoldStep
  <1>6. CASE Hold(c, Newest, "none")
    BY <1>1, <1>2, <1>6, HoldStep
  <1>7. QED
    BY <1>4, <1>5, <1>6 DEF Modify

\* A commit appends what was drafted; no other connection held the lock, and
\* the snapshots of the others are as they were.
LEMMA CommitStep ==
  ASSUME TxnInv, NEW c \in Conn, Commit(c)
  PROVE  TxnInv'
  <1>1. TxnTypeOK /\ (\A d \in Conn : Relies(d)) /\ at[c] = "commit"
    BY DEF TxnInv, Commit
  <1>2. /\ Head(todo[c]) \in TxnCall
        /\ Tail(todo[c]) \in Seq(TxnCall)
        /\ FirstOf(Tail(todo[c])) \in {"idle", "source", "modify"}
        /\ FirstOf(Tail(todo[c])) # "idle" => Tail(todo[c]) # <<>>
    BY <1>1, HeadIsCall
  <1>3. /\ Newest \in Database /\ Len(wal) \in Nat /\ Len(wal) > 0 /\ draft \in Database
        /\ wal \in Seq(Database)
    BY <1>1, NewestIsDatabase DEF TxnTypeOK
  <1>4. /\ wal' = Append(wal, draft) /\ lock' = Nobody /\ synced' = synced /\ draft' = draft
        /\ snap' = [snap EXCEPT ![c] = 0]
        /\ todo' = [todo EXCEPT ![c] = Tail(todo[c])]
        /\ at' = [at EXCEPT ![c] = FirstOf(Tail(todo[c]))]
        /\ report' = [report EXCEPT ![c] = Append(report[c], "applied")]
        /\ began' = [began EXCEPT ![c] = IF Tail(todo[c]) = <<>> THEN 0 ELSE Len(wal')]
        /\ plans' = plans /\ faults' = faults
    BY DEF Commit, Turn
  <1>5. /\ wal' \in Seq(Database) /\ Len(wal') = Len(wal) + 1
        /\ \A i \in 1 .. Len(wal) : wal'[i] = wal[i]
        /\ Newest' = draft
    BY <1>3, <1>4 DEF Newest
  <1>6. Append(report[c], "applied") \in Seq(Outcome)
    BY <1>1 DEF TxnTypeOK, Outcome
  <1>7. lock = c /\ \A d \in Conn : d # c => at[d] \notin {"none", "commit"}
    BY <1>1 DEF TxnTypeOK
  <1>8. TxnTypeOK'
    <2>1. /\ (synced \in 1 .. Len(wal))' /\ (lock \in Conn \cup {Nobody})'
          /\ (draft \in Database)' /\ (lock = Nobody => draft = Newest)'
          /\ (plans \in Nat)' /\ (faults \in Nat)'
      BY <1>1, <1>3, <1>4, <1>5 DEF TxnTypeOK
    <2>2. (todo \in [Conn -> Seq(TxnCall)])'
      BY <1>1, <1>2, <1>4 DEF TxnTypeOK
    <2>3. (at \in [Conn -> Statement])'
      BY <1>1, <1>2, <1>4 DEF TxnTypeOK, Statement
    <2>4. (snap \in [Conn -> 0 .. Len(wal)])'
      BY <1>1, <1>3, <1>4, <1>5 DEF TxnTypeOK
    <2>5. (began \in [Conn -> Nat])'
      BY <1>1, <1>3, <1>4, <1>5 DEF TxnTypeOK
    <2>6. (report \in [Conn -> Seq(Outcome)])'
      BY <1>1, <1>4, <1>6 DEF TxnTypeOK
    <2>7. ASSUME NEW d \in Conn
          PROVE  /\ (lock = d <=> at[d] \in {"none", "commit"})'
                 /\ (snap[d] # 0 <=> at[d] \in {"target", "upsert", "none", "commit"})'
                 /\ (at[d] # "idle" => todo[d] # <<>>)'
      BY <1>1, <1>2, <1>4, <1>7 DEF TxnTypeOK
    <2>8. QED
      BY <1>5, <2>1, <2>2, <2>3, <2>4, <2>5, <2>6, <2>7 DEF TxnTypeOK
  <1>9. ASSUME NEW d \in Conn PROVE Relies(d)'
    <2>1. CASE d = c
      <3>1. /\ at'[c] = FirstOf(todo'[c]) /\ at'[c] \in {"idle", "source", "modify"}
            /\ snap'[c] = 0 /\ (at'[c] # "idle" => began'[c] = Len(wal'))
        BY <1>1, <1>2, <1>4 DEF TxnTypeOK
      <3>2. Len(wal') \in Nat
        BY <1>3, <1>5
      <3>3. QED
        BY <2>1, <3>1, <3>2 DEF Relies
    <2>2. CASE d # c
      <3>1. /\ at'[d] = at[d] /\ todo'[d] = todo[d] /\ snap'[d] = snap[d]
            /\ began'[d] = began[d] /\ at[d] \notin {"none", "commit"}
            /\ FirstOf(todo'[d]) = FirstOf(todo[d])
        BY <1>1, <1>4, <1>7, <2>2 DEF TxnTypeOK
      <3>2. at[d] \in {"target", "upsert"} => snap[d] \in 1 .. Len(wal)
        BY <1>1 DEF TxnTypeOK
      <3>3. Relies(d) /\ (at[d] \in {"target", "upsert"} => wal'[snap[d]] = wal[snap[d]])
        BY <1>1, <1>5, <3>2
      <3>4. began[d] \in Nat /\ (began[d] <= Len(wal) => began[d] <= Len(wal'))
        BY <1>1, <1>3, <1>5 DEF TxnTypeOK
      <3>5. QED
        BY <3>1, <3>3, <3>4 DEF Relies
    <2>3. QED
      BY <2>1, <2>2
  <1>10. QED
    BY <1>8, <1>9 DEF TxnInv

\* A plan is a sequence of one or two calls.
LEMMA PlanType == \A p \in Plan : p \in Seq(TxnCall) /\ p # <<>>
  <1>1. ASSUME NEW s \in Memories, NEW t \in Memories
        PROVE  Edge(s, t) \in TxnCall
    BY DEF Edge, TxnCall
  <1>2. ASSUME NEW a \in TxnCall, NEW b \in TxnCall
        PROVE  <<a, b>> \in Seq(TxnCall) /\ <<a, b>> # <<>>
    OBVIOUS
  <1>3. ASSUME NEW k \in {"write", "invalidate"}, NEW m \in Memories
        PROVE  /\ <<[kind |-> k, source |-> m, target |-> m]>> \in Seq(TxnCall)
               /\ <<[kind |-> k, source |-> m, target |-> m]>> # <<>>
    BY DEF TxnCall
  <1>4. ASSUME NEW e \in Memories \X Memories
        PROVE  /\ <<Edge(e[1], e[2]), Edge(e[2], e[1])>> \in Seq(TxnCall)
               /\ <<Edge(e[1], e[2]), Edge(e[2], e[1])>> # <<>>
    <2>1. e[1] \in Memories /\ e[2] \in Memories
      OBVIOUS
    <2>2. QED
      BY <1>1, <1>2, <2>1
  <1>5. ASSUME NEW p \in Plan PROVE p \in Seq(TxnCall) /\ p # <<>>
    <2>1. CASE \E e \in Memories \X Memories : p = <<Edge(e[1], e[2]), Edge(e[2], e[1])>>
      BY <1>4, <2>1
    <2>2. CASE \E k \in {"write", "invalidate"}, m \in Memories :
                 p = <<[kind |-> k, source |-> m, target |-> m]>>
      BY <1>3, <2>2
    <2>3. QED
      BY <2>1, <2>2 DEF Plan
  <1>6. QED
    BY <1>5

\* A new plan begins with its first call.
LEMMA SubmitStep ==
  ASSUME TxnInv, NEW c \in Conn, NEW p \in Plan, Submit(c, p)
  PROVE  TxnInv'
  <1>1. TxnTypeOK /\ (\A d \in Conn : Relies(d)) /\ at[c] = "idle"
    BY DEF TxnInv, Submit
  <1>2. p \in Seq(TxnCall) /\ p # <<>> /\ FirstOf(p) \in {"source", "modify"}
    BY PlanType DEF FirstOf
  <1>3. /\ wal' = wal /\ synced' = synced /\ lock' = lock /\ draft' = draft /\ snap' = snap
        /\ todo' = [todo EXCEPT ![c] = p]
        /\ at' = [at EXCEPT ![c] = FirstOf(p)]
        /\ report' = [report EXCEPT ![c] = <<>>]
        /\ began' = [began EXCEPT ![c] = Len(wal)]
        /\ plans' = plans + 1 /\ faults' = faults
    BY DEF Submit, logVars
  <1>4. Len(wal) \in Nat /\ Newest' = Newest
    BY <1>1, <1>3, NewestIsDatabase DEF Newest
  <1>5. TxnTypeOK'
    <2>1. (todo \in [Conn -> Seq(TxnCall)])' /\ (report \in [Conn -> Seq(Outcome)])'
      BY <1>1, <1>2, <1>3, EmptySeq DEF TxnTypeOK
    <2>2. (at \in [Conn -> Statement])'
      BY <1>1, <1>2, <1>3 DEF TxnTypeOK, Statement
    <2>3. (began \in [Conn -> Nat])' /\ (plans \in Nat)'
      BY <1>1, <1>3, <1>4 DEF TxnTypeOK
    <2>4. ASSUME NEW d \in Conn
          PROVE  /\ (lock = d <=> at[d] \in {"none", "commit"})'
                 /\ (snap[d] # 0 <=> at[d] \in {"target", "upsert", "none", "commit"})'
                 /\ (at[d] # "idle" => todo[d] # <<>>)'
      BY <1>1, <1>2, <1>3 DEF TxnTypeOK
    <2>5. QED
      BY <1>1, <1>3, <1>4, <2>1, <2>2, <2>3, <2>4 DEF TxnTypeOK
  <1>6. ASSUME NEW d \in Conn PROVE Relies(d)'
    <2>1. CASE d = c
      <3>1. /\ at'[c] = FirstOf(todo'[c]) /\ at'[c] \in {"source", "modify"}
            /\ snap'[c] = 0 /\ began'[c] = Len(wal')
        BY <1>1, <1>2, <1>3 DEF TxnTypeOK
      <3>2. QED
        BY <1>3, <1>4, <2>1, <3>1 DEF Relies
    <2>2. CASE d # c
      BY <1>1, <1>3, <2>2, OthersRely DEF TxnTypeOK
    <2>3. QED
      BY <2>1, <2>2
  <1>7. QED
    BY <1>5, <1>6 DEF TxnInv

\* A process that is killed lets go of everything.
LEMMA KillStep ==
  ASSUME TxnInv, NEW c \in Conn, Kill(c)
  PROVE  TxnInv'
  <1>1. TxnTypeOK /\ \A d \in Conn : Relies(d)
    BY DEF TxnInv
  <1>2. /\ wal' = wal /\ synced' = synced
        /\ lock' = IF lock = c THEN Nobody ELSE lock
        /\ draft' = IF lock = c THEN Newest ELSE draft
        /\ snap' = [snap EXCEPT ![c] = 0]
        /\ todo' = [todo EXCEPT ![c] = <<>>]
        /\ at' = [at EXCEPT ![c] = "idle"]
        /\ report' = [report EXCEPT ![c] = <<>>]
        /\ began' = [began EXCEPT ![c] = 0]
        /\ plans' = plans /\ faults' = faults + 1
    BY DEF Kill, logVars
  <1>3. Newest \in Database /\ Len(wal) \in Nat /\ Newest' = Newest
    BY <1>1, <1>2, NewestIsDatabase DEF Newest
  <1>4. TxnTypeOK'
    <2>1. (todo \in [Conn -> Seq(TxnCall)])' /\ (report \in [Conn -> Seq(Outcome)])'
      BY <1>1, <1>2, EmptySeq DEF TxnTypeOK
    <2>2. (at \in [Conn -> Statement])'
      BY <1>1, <1>2 DEF TxnTypeOK, Statement
    <2>3. (began \in [Conn -> Nat])' /\ (snap \in [Conn -> 0 .. Len(wal)])' /\ (faults \in Nat)'
      BY <1>1, <1>2, <1>3 DEF TxnTypeOK
    <2>4. ASSUME NEW d \in Conn
          PROVE  /\ (lock = d <=> at[d] \in {"none", "commit"})'
                 /\ (snap[d] # 0 <=> at[d] \in {"target", "upsert", "none", "commit"})'
                 /\ (at[d] # "idle" => todo[d] # <<>>)'
      BY <1>1, <1>2 DEF TxnTypeOK
    <2>5. /\ (lock \in Conn \cup {Nobody})' /\ (draft \in Database)'
          /\ (lock = Nobody => draft = Newest)'
      BY <1>1, <1>2, <1>3 DEF TxnTypeOK
    <2>6. QED
      BY <1>1, <1>2, <2>1, <2>2, <2>3, <2>4, <2>5 DEF TxnTypeOK
  <1>5. ASSUME NEW d \in Conn PROVE Relies(d)'
    <2>1. CASE d = c
      BY <1>1, <1>2, <2>1 DEF Relies, FirstOf, TxnTypeOK
    <2>2. CASE d # c
      BY <1>1, <1>2, <2>2, OthersRely DEF TxnTypeOK
    <2>3. QED
      BY <2>1, <2>2
  <1>6. QED
    BY <1>4, <1>5 DEF TxnInv

\* What is left of the log after a loss of power.
LEMMA SurvivingLog ==
  ASSUME TxnTypeOK, NEW n \in synced .. Len(wal)
  PROVE  SubSeq(wal, 1, n) \in Seq(Database) /\ Len(SubSeq(wal, 1, n)) = n
  <1>1. n \in Int /\ 1 <= n /\ n <= Len(wal)
    BY DEF TxnTypeOK
  <1>2. \A i \in 1 .. n : wal[i] \in Database
    BY <1>1, NewestIsDatabase
  <1>3. QED
    BY <1>1, <1>2, SubSeqProperties

\* After a loss of power no connection is left.
LEMMA PowerLossStep ==
  ASSUME TxnInv, PowerLoss
  PROVE  TxnInv'
  <1>1. TxnTypeOK
    BY DEF TxnInv
  <1>2. PICK n \in synced .. Len(wal) : wal' = SubSeq(wal, 1, n)
    BY DEF PowerLoss
  <1>3. wal' \in Seq(Database) /\ Len(wal') = n /\ n \in Nat /\ 1 <= synced /\ synced <= n
    BY <1>1, <1>2, SurvivingLog DEF TxnTypeOK
  <1>4. Newest' \in Database
    <2>1. Newest' = wal'[n] /\ n \in 1 .. Len(wal')
      BY <1>1, <1>3 DEF Newest, TxnTypeOK
    <2>2. QED
      BY <1>3, <2>1, ElementOfSeq
  <1>5. /\ draft' = Newest' /\ lock' = Nobody /\ synced' = synced
        /\ todo' = [c \in Conn |-> <<>>] /\ at' = [c \in Conn |-> "idle"]
        /\ snap' = [c \in Conn |-> 0] /\ report' = [c \in Conn |-> <<>>]
        /\ began' = [c \in Conn |-> 0] /\ plans' = plans /\ faults' = faults + 1
    BY DEF PowerLoss
  <1>6. TxnTypeOK'
    BY <1>1, <1>3, <1>4, <1>5, EmptySeq DEF TxnTypeOK, Statement
  <1>7. ASSUME NEW d \in Conn PROVE Relies(d)'
    BY <1>5 DEF Relies, FirstOf
  <1>8. QED
    BY <1>6, <1>7 DEF TxnInv

\* A checkpoint changes nothing that anybody relies on.
LEMMA CheckpointStep ==
  ASSUME TxnInv, Checkpoint
  PROVE  TxnInv'
  <1>1. TxnTypeOK /\ Len(wal) \in Nat /\ Len(wal) > 0
    BY NewestIsDatabase DEF TxnInv
  <1>2. /\ synced' = Len(wal) /\ wal' = wal /\ lock' = lock /\ draft' = draft
        /\ todo' = todo /\ at' = at /\ snap' = snap /\ report' = report /\ began' = began
        /\ plans' = plans /\ faults' = faults
    BY DEF Checkpoint, connVars
  <1>3. TxnTypeOK'
    BY <1>1, <1>2 DEF TxnTypeOK, Newest
  <1>4. ASSUME NEW d \in Conn PROVE Relies(d)'
    BY <1>2, OthersRely
  <1>5. QED
    BY <1>3, <1>4 DEF TxnInv

-----------------------------------------------------------------------------
(* The theorems.                                                           *)

\* The invariant holds at the start.
LEMMA TxnInvInit == TxnInit => TxnInv
  <1> SUFFICES ASSUME TxnInit PROVE TxnInv
    OBVIOUS
  <1>1. PICK st \in [Memories -> TxnStatus] :
          wal = <<[status |-> st, weight |-> [e \in Memories \X Memories |-> 0]]>>
    BY DEF TxnInit
  <1> DEFINE db == [status |-> st, weight |-> [e \in Memories \X Memories |-> 0]]
  <1>2. db \in Database
    BY DEF Database
  <1>3. wal = <<db>>
    BY <1>1
  <1> HIDE DEF db
  <1>4. wal \in Seq(Database) /\ Len(wal) = 1 /\ Newest = db
    BY <1>2, <1>3 DEF Newest
  <1>5. TxnTypeOK
    BY <1>2, <1>4, EmptySeq DEF TxnInit, TxnTypeOK, Statement
  <1>6. \A d \in Conn : Relies(d)
    BY DEF TxnInit, Relies, FirstOf
  <1>7. QED
    BY <1>5, <1>6 DEF TxnInv

\* Every step keeps the invariant.
LEMMA TxnInvStep == TxnInv /\ [TxnNext]_txnVars => TxnInv'
  <1> SUFFICES ASSUME TxnInv, [TxnNext]_txnVars PROVE TxnInv'
    OBVIOUS
  <1>1. ASSUME NEW c \in Conn, Step(c) PROVE TxnInv'
    <2>1. CASE ReadSource(c) \/ ReadTarget(c)
      BY <2>1, LookUpStep
    <2>2. CASE Upsert(c)
      BY <2>2, UpsertStep
    <2>3. CASE Modify(c)
      BY <2>3, ModifyStep
    <2>4. CASE NotFound(c) \/ BusyTimeout(c)
      BY <2>4, RollBackStep DEF NotFound, BusyTimeout, Outcome
    <2>5. CASE Commit(c)
      BY <2>5, CommitStep
    <2>6. QED
      BY <1>1, <2>1, <2>2, <2>3, <2>4, <2>5 DEF Step
  <1>2. CASE UNCHANGED txnVars
    <2>1. ASSUME NEW d \in Conn PROVE Relies(d)'
      BY <1>2, OthersRely DEF txnVars, logVars, connVars
    <2>2. TxnTypeOK'
      BY <1>2 DEF TxnInv, TxnTypeOK, Newest, txnVars, logVars, connVars
    <2>3. QED
      BY <2>1, <2>2 DEF TxnInv
  <1>3. QED
    BY <1>1, <1>2, SubmitStep, KillStep, CheckpointStep, PowerLossStep DEF TxnNext

\* Exactly the connections that are about to commit or to give up hold the
\* lock, and no early return leaves a transaction behind.
THEOREM TransactionsAreTyped == TxnSpec => []TxnTypeOK
  <1>1. TxnInv => TxnTypeOK
    BY DEF TxnInv
  <1>2. QED
    BY <1>1, TxnInvInit, TxnInvStep, PTL DEF TxnSpec

\* Every step is a call on the newest database, a checkpoint, a loss of power
\* or nothing.
LEMMA AtomicStep ==
  ASSUME TxnInv, [TxnNext]_txnVars
  PROVE  [Atomic!AtomicNext]_<<wal, synced>>
  <1>1. TxnTypeOK
    BY DEF TxnInv
  <1>2. ASSUME NEW c \in Conn, Commit(c)
        PROVE  \E call \in TxnCall : Atomic!Perform(call)
    <2>1. Relies(c) /\ at[c] = "commit" /\ Head(todo[c]) \in TxnCall
      BY <1>1, <1>2, HeadIsCall DEF TxnInv, Commit
    <2>2. wal' = Append(wal, Atomic!After(Newest, Head(todo[c]))) /\ synced' = synced
      BY <1>2, <2>1 DEF Commit, Relies
    <2>3. Atomic!Perform(Head(todo[c]))
      BY <2>1, <2>2 DEF Relies, Atomic!Perform, Atomic!Now, Newest
    <2>4. QED
      BY <2>1, <2>3
  <1>3. CASE PowerLoss
    BY <1>3 DEF PowerLoss, Atomic!AtomicNext, Atomic!Lose
  <1>4. CASE Checkpoint
    <2>1. synced' = Len(wal) /\ wal' = wal /\ Len(wal) \in synced .. Len(wal)
      BY <1>1, <1>4 DEF Checkpoint, TxnTypeOK
    <2>2. QED
      BY <2>1 DEF Atomic!AtomicNext, Atomic!Sync
  <1>5. ASSUME NEW c \in Conn,
               \/ \E p \in Plan : Submit(c, p)
               \/ ReadSource(c) \/ ReadTarget(c) \/ Upsert(c) \/ Modify(c)
               \/ NotFound(c) \/ BusyTimeout(c) \/ Kill(c)
        PROVE  UNCHANGED <<wal, synced>>
    BY <1>5 DEF Submit, ReadSource, ReadTarget, LookUp, Upsert, Modify, Hold, NotFound,
                BusyTimeout, RollBack, Kill, logVars
  <1>6. CASE UNCHANGED txnVars
    BY <1>6 DEF txnVars, logVars
  <1>7. TxnCall = Atomic!Call
    BY DEF TxnCall, Atomic!Call
  <1>8. QED
    BY <1>2, <1>3, <1>4, <1>5, <1>6, <1>7 DEF TxnNext, Step, Atomic!AtomicNext

\* The deferred transactions of any number of connections, with look-ups in a
\* snapshot, kills and losses of power, implement calls that are one step each.
THEOREM TransactionsAreAtomic == TxnSpec => ImplementsAtomicStore
  <1>1. TxnInit => Atomic!AtomicInit
    <2> SUFFICES ASSUME TxnInit PROVE Atomic!AtomicInit
      OBVIOUS
    <2>1. TxnTypeOK
      BY TxnInvInit DEF TxnInv
    <2>2. wal \in Seq(Database) /\ Len(wal) = 1 /\ synced = 1
      BY <2>1 DEF TxnTypeOK, TxnInit
    <2>3. Database = Atomic!Database
      BY DEF Database, Atomic!Database, TxnStatus, Atomic!Status
    <2>4. QED
      BY <2>2, <2>3 DEF Atomic!AtomicInit
  <1>2. QED
    BY <1>1, TxnInvInit, TxnInvStep, AtomicStep, PTL
    DEF TxnSpec, ImplementsAtomicStore, Atomic!AtomicSpec

\* A step that reports a call as busy found the lock with another connection,
\* or a commit that is newer than the call.
LEMMA BusyStep ==
  ASSUME TxnInv, [TxnNext]_txnVars, NEW c \in Conn, report'[c] = Append(report[c], "busy")
  PROVE  lock \notin {c, Nobody} \/ Len(wal) > began[c]
  <1>1. TxnTypeOK /\ Relies(c) /\ report[c] \in Seq(Outcome)
    BY DEF TxnInv, TxnTypeOK
  <1>2. /\ Append(report[c], "busy") # report[c]
        /\ Append(report[c], "busy") # <<>>
        /\ \A o \in Outcome : Append(report[c], o) = Append(report[c], "busy") => o = "busy"
    <2>1. ASSUME NEW o \in Outcome
          PROVE  /\ Append(report[c], o) \in Seq(Outcome)
                 /\ Len(Append(report[c], o)) = Len(report[c]) + 1
                 /\ Append(report[c], o)[Len(report[c]) + 1] = o
      BY <1>1
    <2>2. "busy" \in Outcome /\ Len(report[c]) \in Nat
      BY <1>1 DEF Outcome
    <2>3. QED
      BY <1>1, <2>1, <2>2, EmptySeq
  <1>3. ASSUME NEW d \in Conn, NEW o \in Outcome, Turn(d, o)
        PROVE  d = c /\ o = "busy"
    BY <1>1, <1>2, <1>3 DEF Turn, TxnTypeOK
  <1>4. CASE Upsert(c)
    <2>1. at[c] = "upsert" /\ snap[c] \in 1 .. Len(wal) /\ lock # c /\ began[c] \in Nat
      <3>1. at[c] = "upsert"
        BY <1>4 DEF Upsert
      <3>2. snap[c] # 0 /\ lock # c
        BY <1>1, <3>1 DEF TxnTypeOK
      <3>3. snap[c] \in 0 .. Len(wal) /\ began[c] \in Nat
        BY <1>1 DEF TxnTypeOK
      <3>4. QED
        BY <3>1, <3>2, <3>3
    <2>2. ~(lock = Nobody /\ View(c) = Len(wal))
      BY <1>1, <1>2, <1>4 DEF Upsert, Hold
    <2>3. began[c] <= snap[c] /\ View(c) = snap[c]
      BY <1>1, <2>1 DEF Relies, View
    <2>4. QED
      BY <2>1, <2>2, <2>3
  <1>5. CASE BusyTimeout(c)
    BY <1>1, <1>5 DEF BusyTimeout, TxnTypeOK
  <1>6. ASSUME NEW d \in Conn,
               \/ ReadSource(d) \/ ReadTarget(d) \/ Modify(d) \/ NotFound(d) \/ Commit(d)
        PROVE  FALSE
    <2>1. CASE report' = report
      BY <1>2, <2>1
    <2>2. CASE Turn(d, "missing") \/ Turn(d, "applied")
      BY <1>3, <2>2 DEF Outcome
    <2>3. QED
      BY <1>6, <2>1, <2>2 DEF ReadSource, ReadTarget, LookUp, Modify, Hold, NotFound,
                              Commit, RollBack
  <1>7. ASSUME NEW d \in Conn, (\E p \in Plan : Submit(d, p)) \/ Kill(d)
        PROVE  FALSE
    <2>1. report' = [report EXCEPT ![d] = <<>>]
      BY <1>7 DEF Submit, Kill
    <2>2. QED
      BY <1>1, <1>2, <2>1 DEF TxnTypeOK
  <1>8. CASE Checkpoint \/ UNCHANGED txnVars
    BY <1>2, <1>8 DEF Checkpoint, txnVars, connVars
  <1>9. CASE PowerLoss
    BY <1>2, <1>9 DEF PowerLoss
  <1>10. ASSUME NEW d \in Conn, Upsert(d) \/ BusyTimeout(d)
         PROVE  d = c
    <2>1. CASE report' = report
      BY <1>2, <2>1
    <2>2. CASE Turn(d, "busy")
      BY <1>3, <2>2 DEF Outcome
    <2>3. QED
      BY <1>10, <2>1, <2>2 DEF Upsert, BusyTimeout, Hold, RollBack
  <1>11. QED
    BY <1>4, <1>5, <1>6, <1>7, <1>8, <1>9, <1>10 DEF TxnNext, Step

\* A process that is alone never skips a call for the database being busy.
THEOREM OnlyRivalsMakeBusy == TxnSpec => BusyNeedsRival
  <1>1. TxnInv /\ [TxnNext]_txnVars =>
          [\A c \in Conn : report'[c] = Append(report[c], "busy") =>
             lock \notin {c, Nobody} \/ Len(wal) > began[c]]_txnVars
    BY BusyStep
  <1>2. QED
    BY <1>1, TxnInvInit, TxnInvStep, PTL DEF TxnSpec, BusyNeedsRival
=============================================================================
