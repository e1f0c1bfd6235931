----------------------------- MODULE StoreProofs -----------------------------
(***************************************************************************)
(* Theorems about the store, the plans of the Hebbian algorithm, and the   *)
(* processes that execute plans on the store, for every set of memories,   *)
(* contents, entities and processes and every bound.                       *)
(***************************************************************************)
EXTENDS StoreExecutor, MCHebbian, CollectionProofs, TLAPS

USE StoreConstants

-----------------------------------------------------------------------------
(* Typing.                                                                 *)

\* Appending to the log keeps its type; the old events keep their places
\* and the new one comes last.
LEMMA LogEventFacts ==
  ASSUME NEW kind \in {"ADD", "UPDATE", "INVALIDATE"},
         NEW m \in MemoryId,
         NEW c,
         [kind |-> kind, memory |-> m, content |-> c] \in Event,
         events \in Seq(Event),
         LogEvent(kind, m, c)
  PROVE  /\ events' \in Seq(Event)
         /\ Len(events') = Len(events) + 1
         /\ Len(events') <= MaxEvents
         /\ events'[Len(events) + 1] = [kind |-> kind, memory |-> m, content |-> c]
         /\ \A i \in 1 .. Len(events) : events'[i] = events[i]
  BY DEF LogEvent

\* A vector is computed from a content that the log holds.
LEMMA HeldContentsAreContents ==
  ASSUME TypeOK, NEW m \in MemoryId
  PROVE  HeldContents(m) \subseteq Content
  <1>1. \A i \in 1 .. Len(events) : events[i] \in Event
    BY DEF TypeOK
  <1>2. QED
    BY <1>1 DEF HeldContents, Event

\* The trigger leaves the index typed when it runs on rows that exist.
LEMMA ReindexType ==
  ASSUME TypeOK, NEW S \in SUBSET MemoryId, Reindex(S),
         \A m \in S : content'[m] \in Content
  PROVE  fts' \subseteq MemoryId \X Content
  BY DEF Reindex, TypeOK

\* No step breaks the types.
LEMMA TypeOKStep ==
  ASSUME TypeOK, [Next]_vars
  PROVE  TypeOK'
  <1>1. ASSUME NEW m \in MemoryId, NEW c \in Content, Write(m, c)
        PROVE  TypeOK'
    <2>1. events' \in Seq(Event) /\ Len(events') <= MaxEvents
      BY <1>1, LogEventFacts DEF Write, TypeOK, Event
    <2>2. QED
      BY <1>1, <2>1
      DEF Write, TypeOK, LinkEntities, Status, Written, edgeVars
  <1>2. ASSUME NEW m \in MemoryId, NEW c \in Content, UpdateContent(m, c)
        PROVE  TypeOK'
    <2>1. events' \in Seq(Event) /\ Len(events') <= MaxEvents
      BY <1>2, LogEventFacts DEF UpdateContent, TypeOK, Event
    <2>2. content'[m] \in Content
      BY <1>2 DEF UpdateContent, TypeOK
    <2>3. fts' \subseteq MemoryId \X Content
      BY <1>2, <2>2, ReindexType DEF UpdateContent
    <2>4. QED
      BY <1>2, <2>1, <2>2, <2>3
      DEF UpdateContent, TypeOK, LinkEntities, Status, Written, edgeVars
  <1>3. ASSUME NEW m \in MemoryId, Invalidate(m)
        PROVE  TypeOK'
    <2>1. events' \in Seq(Event) /\ Len(events') <= MaxEvents
      BY <1>3, LogEventFacts DEF Invalidate, TypeOK, Event
    <2>2. content'[m] \in Content
      BY <1>3 DEF Invalidate, TypeOK, Written
    <2>3. fts' \subseteq MemoryId \X Content
      BY <1>3, <2>2, ReindexType DEF Invalidate
    <2>4. QED
      BY <1>3, <2>1, <2>3
      DEF Invalidate, TypeOK, Status, Written, linkVars, edgeVars, embVars
  <1>4. ASSUME NEW s \in MemoryId, NEW t \in MemoryId, NEW d \in Delta,
               UpdateEdge(s, t, d)
        PROVE  TypeOK'
    BY <1>4 DEF UpdateEdge, TypeOK, Written, memoryVars, linkVars, embVars
  <1>5. ASSUME NEW m \in MemoryId, NEW c \in HeldContents(m), PutEmbedding(m, c)
        PROVE  TypeOK'
    <2>1. c \in Content \cup {NoContent}
      BY HeldContentsAreContents
    <2>2. QED
      BY <1>5, <2>1
      DEF PutEmbedding, TypeOK, Written, memoryVars, linkVars, edgeVars
  <1>6. ASSUME NEW S \in SUBSET Written, RecordAccess(S)
        PROVE  TypeOK'
    <2>1. S \subseteq MemoryId /\ S \cap Written = S
      BY DEF Written
    <2>2. accesses' \in [MemoryId -> 0 .. MaxAccess]
      BY <1>6, <2>1 DEF RecordAccess, TypeOK
    <2>3. fts' \subseteq MemoryId \X Content
      BY <1>6, <2>1, ReindexType DEF RecordAccess, TypeOK
    <2>4. QED
      BY <1>6, <2>2, <2>3
      DEF RecordAccess, TypeOK, Written, linkVars, edgeVars, embVars
  <1>7. CASE UNCHANGED vars
    BY <1>7 DEF vars, memoryVars, linkVars, edgeVars, embVars, TypeOK, Written
  <1>8. QED
    BY <1>1, <1>2, <1>3, <1>4, <1>5, <1>6, <1>7 DEF Next

\* Type correctness of the store.
THEOREM StoreTypeOK == Spec => []TypeOK
  <1>1. Init => TypeOK
    BY DEF Init, TypeOK, Status, Event, Written
  <1>2. TypeOK /\ [Next]_vars => TypeOK'
    BY TypeOKStep
  <1>3. QED
    BY <1>1, <1>2, PTL DEF Spec

-----------------------------------------------------------------------------
(* The log and the memories.                                               *)

\* A step that appends an event: which events each memory has afterwards.
LEMMA EventsAfterLogEvent ==
  ASSUME NEW kind \in {"ADD", "UPDATE", "INVALIDATE"},
         NEW m \in MemoryId,
         NEW c,
         [kind |-> kind, memory |-> m, content |-> c] \in Event,
         events \in Seq(Event),
         LogEvent(kind, m, c)
  PROVE  /\ \A n \in MemoryId \ {m} :
              /\ EventsOf(n)' = EventsOf(n)
              /\ ClosingsOf(n)' = ClosingsOf(n)
              /\ PayloadsOf(n)' = PayloadsOf(n)
         /\ EventsOf(m)' = EventsOf(m) \cup {Len(events) + 1}
         /\ ClosingsOf(m)' = ClosingsOf(m) \cup
              (IF kind = "INVALIDATE" THEN {Len(events) + 1} ELSE {})
         /\ PayloadsOf(m)' = PayloadsOf(m) \cup
              (IF kind = "INVALIDATE" THEN {} ELSE {Len(events) + 1})
  <1> DEFINE last == Len(events) + 1
  <1>1. /\ Len(events) \in Nat
        /\ Len(events') = last
        /\ events'[last] = [kind |-> kind, memory |-> m, content |-> c]
        /\ \A i \in 1 .. Len(events) : events'[i] = events[i]
    BY LogEventFacts
  <1>2. 1 .. Len(events') = (1 .. Len(events)) \cup {last}
    BY <1>1
  <1>3. last \notin 1 .. Len(events)
    BY <1>1
  <1>4. \A n \in MemoryId :
          EventsOf(n)' = EventsOf(n) \cup (IF n = m THEN {last} ELSE {})
    BY <1>1, <1>2, <1>3 DEF EventsOf
  <1>5. \A n \in MemoryId : \A i \in EventsOf(n) :
          events'[i] = events[i] /\ i # last
    BY <1>1, <1>3 DEF EventsOf
  <1>6. ASSUME NEW n \in MemoryId \ {m}
        PROVE  /\ EventsOf(n)' = EventsOf(n)
               /\ ClosingsOf(n)' = ClosingsOf(n)
               /\ PayloadsOf(n)' = PayloadsOf(n)
    <2>1. EventsOf(n)' = EventsOf(n)
      BY <1>4
    <2>2. QED
      BY <1>5, <2>1 DEF ClosingsOf, PayloadsOf
  <1>7. EventsOf(m)' = EventsOf(m) \cup {last}
    BY <1>4
  <1>8. \A i \in EventsOf(m)' :
          events'[i].kind = IF i = last THEN kind ELSE events[i].kind
    BY <1>1, <1>5, <1>7
  <1>9. last \notin EventsOf(m)
    BY <1>3 DEF EventsOf
  <1>10. ClosingsOf(m)' = ClosingsOf(m) \cup
           (IF kind = "INVALIDATE" THEN {last} ELSE {})
    BY <1>7, <1>8, <1>9 DEF ClosingsOf
  <1>11. PayloadsOf(m)' = PayloadsOf(m) \cup
           (IF kind = "INVALIDATE" THEN {} ELSE {last})
    BY <1>7, <1>8, <1>9 DEF PayloadsOf
  <1>12. QED
    BY <1>6, <1>7, <1>10, <1>11

\* A step that leaves the log and the memories table alone keeps the replay.
LEMMA ReplayUnchanged ==
  ASSUME LogReplaysMemories, UNCHANGED <<status, content, events>>
  PROVE  LogReplaysMemories'
  BY DEF LogReplaysMemories, EventsOf, ClosingsOf, PayloadsOf

\* The log and the memories table are changed together by every step.
LEMMA ReplayStep ==
  ASSUME TypeOK, LogReplaysMemories, [Next]_vars
  PROVE  LogReplaysMemories'
  <1> DEFINE last == Len(events) + 1
             Replays(n) ==
               /\ status[n] = "absent" => EventsOf(n) = {}
               /\ status[n] # "absent" =>
                    \E i \in EventsOf(n) : events[i].kind = "ADD"
               /\ status[n] = "invalid" <=> ClosingsOf(n) # {}
               /\ \A i \in PayloadsOf(n) :
                    (\A j \in PayloadsOf(n) : j <= i) =>
                      events[i].content = content[n]
  <1>1. ASSUME NEW m \in MemoryId, NEW c \in Content, Write(m, c)
        PROVE  LogReplaysMemories'
    <2>1. /\ LogEvent("ADD", m, c)
          /\ [kind |-> "ADD", memory |-> m, content |-> c] \in Event
      BY <1>1 DEF Write, Event
    <2>2. \A n \in MemoryId \ {m} :
            status'[n] = status[n] /\ content'[n] = content[n]
      BY <1>1 DEF Write, TypeOK
    <2>3. ASSUME NEW n \in MemoryId \ {m}
          PROVE  Replays(n)'
      <3>1. /\ EventsOf(n)' = EventsOf(n)
            /\ ClosingsOf(n)' = ClosingsOf(n)
            /\ PayloadsOf(n)' = PayloadsOf(n)
        BY <2>1, EventsAfterLogEvent DEF TypeOK
      <3>2. \A i \in EventsOf(n) : events'[i] = events[i]
        BY <2>1, LogEventFacts DEF TypeOK, EventsOf
      <3>3. QED
        BY <2>2, <3>1, <3>2 DEF LogReplaysMemories, PayloadsOf
    <2>4. Replays(m)'
      <3>1. /\ EventsOf(m)' = EventsOf(m) \cup {last}
            /\ ClosingsOf(m)' = ClosingsOf(m)
            /\ PayloadsOf(m)' = PayloadsOf(m) \cup {last}
        BY <2>1, EventsAfterLogEvent DEF TypeOK
      <3>2. /\ events'[last] = [kind |-> "ADD", memory |-> m, content |-> c]
            /\ \A i \in EventsOf(m) : events'[i] = events[i] /\ i < last
        BY <2>1, LogEventFacts DEF TypeOK, EventsOf
      <3>3. status[m] = "absent" /\ status'[m] = "live" /\ content'[m] = c
        BY <1>1 DEF Write, TypeOK
      <3>4. EventsOf(m) = {}
        BY <3>3 DEF LogReplaysMemories
      <3>5. QED
        BY <3>1, <3>2, <3>3, <3>4 DEF PayloadsOf, ClosingsOf
    <2>5. QED
      BY <2>3, <2>4 DEF LogReplaysMemories
  <1>2. ASSUME NEW m \in MemoryId, NEW c \in Content, UpdateContent(m, c)
        PROVE  LogReplaysMemories'
    <2>1. /\ LogEvent("UPDATE", m, c)
          /\ [kind |-> "UPDATE", memory |-> m, content |-> c] \in Event
      BY <1>2 DEF UpdateContent, Event
    <2>2. \A n \in MemoryId \ {m} :
            status'[n] = status[n] /\ content'[n] = content[n]
      BY <1>2 DEF UpdateContent, TypeOK
    <2>3. ASSUME NEW n \in MemoryId \ {m}
          PROVE  Replays(n)'
      <3>1. /\ EventsOf(n)' = EventsOf(n)
            /\ ClosingsOf(n)' = ClosingsOf(n)
            /\ PayloadsOf(n)' = PayloadsOf(n)
        BY <2>1, EventsAfterLogEvent DEF TypeOK
      <3>2. \A i \in EventsOf(n) : events'[i] = events[i]
        BY <2>1, LogEventFacts DEF TypeOK, EventsOf
      <3>3. QED
        BY <2>2, <3>1, <3>2 DEF LogReplaysMemories, PayloadsOf
    <2>4. Replays(m)'
      <3>1. /\ EventsOf(m)' = EventsOf(m) \cup {last}
            /\ ClosingsOf(m)' = ClosingsOf(m)
            /\ PayloadsOf(m)' = PayloadsOf(m) \cup {last}
        BY <2>1, EventsAfterLogEvent DEF TypeOK
      <3>2. /\ events'[last] = [kind |-> "UPDATE", memory |-> m, content |-> c]
            /\ \A i \in EventsOf(m) : events'[i] = events[i] /\ i < last
        BY <2>1, LogEventFacts DEF TypeOK, EventsOf
      <3>3. status[m] = "live" /\ status'[m] = "live" /\ content'[m] = c
        BY <1>2 DEF UpdateContent, TypeOK
      <3>4. \A i \in PayloadsOf(m)' : (\A j \in PayloadsOf(m)' : j <= i) => i = last
        <4>1. PayloadsOf(m) \subseteq EventsOf(m) /\ EventsOf(m) \subseteq Int
          BY DEF PayloadsOf, EventsOf
        <4>2. last \in Int
          BY DEF TypeOK
        <4>3. \A i \in PayloadsOf(m) : ~ (last <= i)
          BY <3>2, <4>1, <4>2
        <4>4. QED
          BY <3>1, <4>3
      <3>5. QED
        BY <3>1, <3>2, <3>3, <3>4 DEF LogReplaysMemories
    <2>5. QED
      BY <2>3, <2>4 DEF LogReplaysMemories
  <1>3. ASSUME NEW m \in MemoryId, Invalidate(m)
        PROVE  LogReplaysMemories'
    <2>1. /\ LogEvent("INVALIDATE", m, NoContent)
          /\ [kind |-> "INVALIDATE", memory |-> m, content |-> NoContent] \in Event
      BY <1>3 DEF Invalidate, Event
    <2>2. \A n \in MemoryId \ {m} :
            status'[n] = status[n] /\ content'[n] = content[n]
      BY <1>3 DEF Invalidate, TypeOK
    <2>3. ASSUME NEW n \in MemoryId \ {m}
          PROVE  Replays(n)'
      <3>1. /\ EventsOf(n)' = EventsOf(n)
            /\ ClosingsOf(n)' = ClosingsOf(n)
            /\ PayloadsOf(n)' = PayloadsOf(n)
        BY <2>1, EventsAfterLogEvent DEF TypeOK
      <3>2. \A i \in EventsOf(n) : events'[i] = events[i]
        BY <2>1, LogEventFacts DEF TypeOK, EventsOf
      <3>3. QED
        BY <2>2, <3>1, <3>2 DEF LogReplaysMemories, PayloadsOf
    <2>4. Replays(m)'
      <3>1. /\ EventsOf(m)' = EventsOf(m) \cup {last}
            /\ ClosingsOf(m)' = ClosingsOf(m) \cup {last}
            /\ PayloadsOf(m)' = PayloadsOf(m)
        BY <2>1, EventsAfterLogEvent DEF TypeOK
      <3>2. /\ events'[last] = [kind |-> "INVALIDATE", memory |-> m, content |-> NoContent]
            /\ \A i \in EventsOf(m) : events'[i] = events[i] /\ i < last
        BY <2>1, LogEventFacts DEF TypeOK, EventsOf
      <3>3. /\ status[m] = "live"
            /\ status'[m] = "invalid"
            /\ content'[m] = content[m]
        BY <1>3 DEF Invalidate, TypeOK
      <3>4. QED
        BY <3>1, <3>2, <3>3 DEF LogReplaysMemories, PayloadsOf
    <2>5. QED
      BY <2>3, <2>4 DEF LogReplaysMemories
  <1>4. ASSUME NEW s \in MemoryId, NEW t \in MemoryId, NEW d \in Delta,
               UpdateEdge(s, t, d)
        PROVE  LogReplaysMemories'
    BY <1>4, ReplayUnchanged DEF UpdateEdge, memoryVars
  <1>5. ASSUME NEW m \in MemoryId, NEW c \in HeldContents(m), PutEmbedding(m, c)
        PROVE  LogReplaysMemories'
    BY <1>5, ReplayUnchanged DEF PutEmbedding, memoryVars
  <1>6. ASSUME NEW S \in SUBSET Written, RecordAccess(S)
        PROVE  LogReplaysMemories'
    BY <1>6, ReplayUnchanged DEF RecordAccess
  <1>7. CASE UNCHANGED vars
    BY <1>7, ReplayUnchanged DEF vars, memoryVars
  <1>8. QED
    BY <1>1, <1>2, <1>3, <1>4, <1>5, <1>6, <1>7 DEF Next

\* The log replays the memories table in every reachable state.
THEOREM StoreLogReplaysMemories == Spec => []LogReplaysMemories
  <1>1. Init => LogReplaysMemories
    BY DEF Init, LogReplaysMemories, EventsOf, ClosingsOf, PayloadsOf
  <1>2. TypeOK /\ LogReplaysMemories /\ [Next]_vars => LogReplaysMemories'
    BY ReplayStep
  <1>3. QED
    BY <1>1, <1>2, StoreTypeOK, PTL DEF Spec

-----------------------------------------------------------------------------
(* The indexes.                                                            *)

\* What a trigger run makes of an index that was in step with the contents.
LEMMA ReindexFollows ==
  ASSUME FtsFollowsContent, NEW S \in SUBSET Written, Reindex(S),
         Written' = Written,
         \A m \in Written \ S : content'[m] = content[m]
  PROVE  FtsFollowsContent'
  BY DEF FtsFollowsContent, Reindex

\* Every statement that touches a memory row carries its posting along.
LEMMA FtsStep ==
  ASSUME TypeOK, FtsFollowsContent, [Next]_vars
  PROVE  FtsFollowsContent'
  <1>1. ASSUME NEW m \in MemoryId, NEW c \in Content, Write(m, c)
        PROVE  FtsFollowsContent'
    <2>1. Written' = Written \cup {m} /\ m \notin Written
      BY <1>1 DEF Write, Written, TypeOK
    <2>2. content'[m] = c /\ \A n \in Written : content'[n] = content[n]
      BY <1>1, <2>1 DEF Write, Written, TypeOK
    <2>3. fts' = fts \cup {<<m, c>>}
      BY <1>1 DEF Write
    <2>4. QED
      BY <2>1, <2>2, <2>3 DEF FtsFollowsContent
  <1>2. ASSUME NEW m \in MemoryId, NEW c \in Content, UpdateContent(m, c)
        PROVE  FtsFollowsContent'
    <2>1. Written' = Written /\ {m} \in SUBSET Written
      BY <1>2 DEF UpdateContent, Written
    <2>2. Reindex({m}) /\ \A n \in Written \ {m} : content'[n] = content[n]
      BY <1>2 DEF UpdateContent, Written, TypeOK
    <2>3. QED
      BY <2>1, <2>2, ReindexFollows
  <1>3. ASSUME NEW m \in MemoryId, Invalidate(m)
        PROVE  FtsFollowsContent'
    <2>1. Written' = Written /\ {m} \in SUBSET Written
      BY <1>3 DEF Invalidate, Written, TypeOK
    <2>2. Reindex({m}) /\ content' = content
      BY <1>3 DEF Invalidate
    <2>3. QED
      BY <2>1, <2>2, ReindexFollows
  <1>4. ASSUME NEW S \in SUBSET Written, RecordAccess(S)
        PROVE  FtsFollowsContent'
    <2>1. Written' = Written /\ S \cap Written = S
      BY <1>4 DEF RecordAccess, Written
    <2>2. Reindex(S) /\ content' = content
      BY <1>4, <2>1 DEF RecordAccess
    <2>3. QED
      BY <2>1, <2>2, ReindexFollows
  <1>5. CASE UNCHANGED memoryVars
    BY <1>5 DEF memoryVars, FtsFollowsContent, Written
  <1>6. QED
    BY <1>1, <1>2, <1>3, <1>4, <1>5
    DEF Next, vars, UpdateEdge, PutEmbedding

\* The full-text index follows the contents in every reachable state.
THEOREM StoreFtsFollowsContent == Spec => []FtsFollowsContent
  <1>1. Init => FtsFollowsContent
    BY DEF Init, FtsFollowsContent, Written
  <1>2. TypeOK /\ FtsFollowsContent /\ [Next]_vars => FtsFollowsContent'
    BY FtsStep
  <1>3. QED
    BY <1>1, <1>2, StoreTypeOK, PTL DEF Spec

\* The entity links are rewritten by every step that changes a content.
LEMMA LinksStep ==
  ASSUME TypeOK, LinksFollowContent, [Next]_vars
  PROVE  LinksFollowContent'
  <1>1. ASSUME NEW m \in MemoryId, NEW c \in Content,
               Write(m, c) \/ UpdateContent(m, c)
        PROVE  LinksFollowContent'
    <2>1. /\ content' = [content EXCEPT ![m] = c]
          /\ links' = [links EXCEPT ![m] = Mentions[c]]
          /\ entities' = entities \cup Mentions[c]
          /\ Written' \subseteq Written \cup {m}
      BY <1>1 DEF Write, UpdateContent, LinkEntities, Written, TypeOK
    <2>2. QED
      BY <2>1 DEF LinksFollowContent, Written, TypeOK
  <1>2. CASE Written' = Written /\ UNCHANGED <<content, linkVars>>
    BY <1>2 DEF LinksFollowContent, linkVars
  <1>3. QED
    BY <1>1, <1>2
    DEF Next, vars, memoryVars, Invalidate, UpdateEdge, PutEmbedding,
        RecordAccess, Written, TypeOK

\* memory_entities follows the contents in every reachable state.
THEOREM StoreLinksFollowContent == Spec => []LinksFollowContent
  <1>1. Init => LinksFollowContent
    BY DEF Init, LinksFollowContent, Written
  <1>2. TypeOK /\ LinksFollowContent /\ [Next]_vars => LinksFollowContent'
    BY LinksStep
  <1>3. QED
    BY <1>1, <1>2, StoreTypeOK, PTL DEF Spec

\* The full-text index and the entity links follow the content, through every
\* call of update_content and after it.
THEOREM StoreIndexesFollowContent == Spec => []IndexesFollowContent
  <1>1. FtsFollowsContent /\ LinksFollowContent => IndexesFollowContent
    BY DEF IndexesFollowContent
  <1>2. QED
    BY <1>1, StoreFtsFollowsContent, StoreLinksFollowContent, PTL

\* embedding_state and memory_vecs are changed together by every step.
LEMMA EmbeddingStep ==
  ASSUME TypeOK, NoLiveMemoryForgotten, [Next]_vars
  PROVE  NoLiveMemoryForgotten'
  <1> USE DEF NoLiveMemoryForgotten, PendingEmbeddings, Live, Written
  <1>1. ASSUME NEW m \in MemoryId, NEW c \in Content, Write(m, c)
        PROVE  NoLiveMemoryForgotten'
    BY <1>1 DEF Write, TypeOK
  <1>2. ASSUME NEW m \in MemoryId, NEW c \in Content, UpdateContent(m, c)
        PROVE  NoLiveMemoryForgotten'
    BY <1>2 DEF UpdateContent, TypeOK
  <1>3. ASSUME NEW m \in MemoryId, Invalidate(m)
        PROVE  NoLiveMemoryForgotten'
    BY <1>3 DEF Invalidate, TypeOK, embVars
  <1>4. ASSUME NEW m \in MemoryId, NEW c \in HeldContents(m), PutEmbedding(m, c)
        PROVE  NoLiveMemoryForgotten'
    <2>1. c # NoContent
      BY HeldContentsAreContents
    <2>2. QED
      BY <1>4, <2>1 DEF PutEmbedding, TypeOK, memoryVars
  <1>5. CASE UNCHANGED <<status, embVars>>
    BY <1>5 DEF embVars
  <1>6. QED
    BY <1>1, <1>2, <1>3, <1>4, <1>5
    DEF Next, vars, memoryVars, UpdateEdge, RecordAccess

\* No reachable state hides a live memory from the backfill.
THEOREM StoreNoLiveMemoryForgotten == Spec => []NoLiveMemoryForgotten
  <1>1. Init => NoLiveMemoryForgotten
    BY DEF Init, NoLiveMemoryForgotten, PendingEmbeddings, Live, Written
  <1>2. TypeOK /\ NoLiveMemoryForgotten /\ [Next]_vars => NoLiveMemoryForgotten'
    BY EmbeddingStep
  <1>3. QED
    BY <1>1, <1>2, StoreTypeOK, PTL DEF Spec

-----------------------------------------------------------------------------
(* What a step may never do.                                               *)

\* No step changes what an invalid memory says, mentions or is linked to.
LEMMA FrozenStep ==
  ASSUME TypeOK, [Next]_vars, NEW m \in MemoryId, status[m] = "invalid"
  PROVE  /\ status'[m] = "invalid"
         /\ content'[m] = content[m]
         /\ links'[m] = links[m]
         /\ \A n \in MemoryId : /\ weight'[<<m, n>>] = weight[<<m, n>>]
                                /\ weight'[<<n, m>>] = weight[<<n, m>>]
  <1>1. ASSUME NEW k \in MemoryId, NEW c \in Content,
               Write(k, c) \/ UpdateContent(k, c)
        PROVE  /\ status'[m] = "invalid"
               /\ content'[m] = content[m]
               /\ links'[m] = links[m]
               /\ weight' = weight
    BY <1>1 DEF Write, UpdateContent, LinkEntities, TypeOK, edgeVars
  <1>2. ASSUME NEW k \in MemoryId, Invalidate(k)
        PROVE  /\ status'[m] = "invalid"
               /\ content'[m] = content[m]
               /\ links'[m] = links[m]
               /\ weight' = weight
    BY <1>2 DEF Invalidate, TypeOK, linkVars, edgeVars
  <1>3. ASSUME NEW s \in MemoryId, NEW t \in MemoryId, NEW d \in Delta,
               UpdateEdge(s, t, d)
        PROVE  /\ UNCHANGED <<status, content, links>>
               /\ \A n \in MemoryId : /\ weight'[<<m, n>>] = weight[<<m, n>>]
                                      /\ weight'[<<n, m>>] = weight[<<n, m>>]
    <2>1. s # m /\ t # m
      BY <1>3 DEF UpdateEdge, Live
    <2>2. weight' = [weight EXCEPT ![<<s, t>>] = @ + d]
      BY <1>3 DEF UpdateEdge
    <2>3. \A e \in MemoryId \X MemoryId : e # <<s, t>> => weight'[e] = weight[e]
      BY <2>2 DEF TypeOK
    <2>4. \A n \in MemoryId : <<m, n>> # <<s, t>> /\ <<n, m>> # <<s, t>>
      BY <2>1
    <2>5. QED
      BY <1>3, <2>3, <2>4 DEF UpdateEdge, memoryVars, linkVars
  <1>4. CASE UNCHANGED <<status, content, links, weight>>
    BY <1>4
  <1>5. QED
    BY <1>1, <1>2, <1>3, <1>4
    DEF Next, vars, memoryVars, linkVars, edgeVars, PutEmbedding, RecordAccess

\* An invalid memory is history: no behaviour of the store resurrects it,
\* rewrites it or strengthens an edge of it.
THEOREM StoreInvalidIsFrozen == Spec => InvalidIsFrozen
  <1>1. TypeOK /\ [Next]_vars =>
          [\A m \in MemoryId : status[m] = "invalid" =>
             /\ status'[m] = "invalid"
             /\ content'[m] = content[m]
             /\ links'[m] = links[m]
             /\ \A n \in MemoryId :
                  /\ weight'[<<m, n>>] = weight[<<m, n>>]
                  /\ weight'[<<n, m>>] = weight[<<n, m>>]]_vars
    BY FrozenStep
  <1>2. QED
    BY <1>1, StoreTypeOK, PTL DEF Spec, InvalidIsFrozen

-----------------------------------------------------------------------------
(* Refinement.                                                             *)

\* Each operation that logs an event does a step of the event log; the
\* others stutter.  The replay says that the guard on the memories table
\* and the guard on the log are the same.
LEMMA EventLogStep ==
  ASSUME TypeOK, LogReplaysMemories, [Next]_vars
  PROVE  [Log!Next]_events
  <1>1. \A m \in MemoryId :
          /\ Log!Has("ADD", m) <=> status[m] # "absent"
          /\ Log!Has("INVALIDATE", m) <=> status[m] = "invalid"
    BY DEF LogReplaysMemories, EventsOf, ClosingsOf, Log!Has
  <1>2. ASSUME NEW m \in MemoryId, NEW c \in Content, Write(m, c)
        PROVE  Log!Add(m, c)
    BY <1>1, <1>2 DEF Write, LogEvent, Log!Add, Log!Record
  <1>3. ASSUME NEW m \in MemoryId, NEW c \in Content, UpdateContent(m, c)
        PROVE  Log!Update(m, c)
    BY <1>1, <1>3 DEF UpdateContent, LogEvent, Log!Update, Log!Record
  <1>4. ASSUME NEW m \in MemoryId, Invalidate(m)
        PROVE  Log!Retire(m)
    BY <1>1, <1>4 DEF Invalidate, LogEvent, Log!Retire, Log!Record
  <1>5. CASE UNCHANGED events
    BY <1>5
  <1>6. QED
    BY <1>2, <1>3, <1>4, <1>5
    DEF Next, vars, UpdateEdge, PutEmbedding, RecordAccess, Log!Next

\* The store implements the append-only log of memory lives.
THEOREM StoreImplementsEventLog == Spec => ImplementsEventLog
  <1>1. Init => Log!Init
    BY DEF Init, Log!Init
  <1>2. TypeOK /\ LogReplaysMemories /\ [Next]_vars => [Log!Next]_events
    BY EventLogStep
  <1>3. QED
    BY <1>1, <1>2, StoreTypeOK, StoreLogReplaysMemories, PTL
    DEF Spec, ImplementsEventLog, Log!Spec

\* Each operation does a step of the embedding index or stutters.
LEMMA EmbeddingIndexStep ==
  ASSUME TypeOK, [Next]_vars
  PROVE  [Index!Next]_(Index!indexVars)
  <1>1. ASSUME NEW m \in MemoryId, NEW c \in Content, Write(m, c)
        PROVE  Index!Add(m, c)
    BY <1>1 DEF Write, Index!Add
  <1>2. ASSUME NEW m \in MemoryId, NEW c \in Content, UpdateContent(m, c)
        PROVE  Index!Rewrite(m, c)
    BY <1>2 DEF UpdateContent, Index!Rewrite
  <1>3. ASSUME NEW m \in MemoryId, Invalidate(m)
        PROVE  Index!Retire(m)
    BY <1>3 DEF Invalidate, Index!Retire, embVars
  <1>4. ASSUME NEW m \in MemoryId, NEW c \in HeldContents(m), PutEmbedding(m, c)
        PROVE  c \in Content /\ Index!Put(m, c)
    BY <1>4, HeldContentsAreContents DEF PutEmbedding, Index!Put, memoryVars
  <1>5. CASE UNCHANGED <<status, content, emb, vec>>
    BY <1>5 DEF Index!indexVars
  <1>6. QED
    BY <1>1, <1>2, <1>3, <1>4, <1>5
    DEF Next, vars, memoryVars, embVars, UpdateEdge, RecordAccess, Index!Next

\* The store implements the embedding index that the backfill relies on.
THEOREM StoreImplementsEmbeddingIndex == Spec => ImplementsEmbeddingIndex
  <1>1. Init => Index!Init
    BY DEF Init, Index!Init
  <1>2. TypeOK /\ [Next]_vars => [Index!Next]_(Index!indexVars)
    BY EmbeddingIndexStep
  <1>3. QED
    BY <1>1, <1>2, StoreTypeOK, PTL
    DEF Spec, ImplementsEmbeddingIndex, Index!Spec

-----------------------------------------------------------------------------
(* The plans of the Hebbian algorithm.                                     *)

HIDE StoreConstants

\* What one of the edges is, for ids from X and deltas from D.
EdgePlan(X, D) == [source : X, target : X, delta : D]

\* An event with ids from X and a delta from D.
EventOf(X, D) == [ids : Seq(X), delta : D]

\* An edge that the ids of an event give.
GivenBy(e, event) ==
  \E i, j \in DOMAIN event.ids :
    i # j /\ e = [source |-> event.ids[i], target |-> event.ids[j], delta |-> event.delta]

\* A sequence without one of its elements has the others.
LEMMA RemoveAtLeavesOthers ==
  ASSUME NEW X, NEW s \in Seq(X), NEW i \in DOMAIN s
  PROVE  /\ RemoveAt(s, i) \in Seq(X)
         /\ \A x : x \in Range(RemoveAt(s, i)) <=> \E j \in DOMAIN s : j # i /\ x = s[j]
  <1> DEFINE n == Len(s)
             front == SubSeq(s, 1, i - 1)
             back == SubSeq(s, i + 1, n)
  <1>1. n \in Nat /\ DOMAIN s = 1 .. n /\ i \in 1 .. n /\ \A j \in 1 .. n : s[j] \in X
    BY LenProperties, ElementOfSeq
  <1> HIDE DEF n
  <1>2. /\ front \in Seq(X) /\ Len(front) = i - 1
        /\ \A j \in 1 .. i - 1 : front[j] = s[j]
    <2>1. \A j \in 1 .. i - 1 : s[j] \in X
      BY <1>1
    <2>2. /\ front \in Seq(X)
          /\ Len(front) = IF 1 <= i - 1 THEN (i - 1) - 1 + 1 ELSE 0
          /\ \A j \in 1 .. (i - 1) - 1 + 1 : front[j] = s[1 + j - 1]
      BY <1>1, <2>1, SubSeqProperties
    <2> HIDE DEF front
    <2>3. QED
      BY <1>1, <2>2
  <1>3. /\ back \in Seq(X) /\ Len(back) = n - i
        /\ \A j \in 1 .. n - i : back[j] = s[i + j]
    <2>1. \A j \in i + 1 .. n : s[j] \in X
      BY <1>1
    <2>2. /\ back \in Seq(X)
          /\ Len(back) = IF i + 1 <= n THEN n - (i + 1) + 1 ELSE 0
          /\ \A j \in 1 .. n - (i + 1) + 1 : back[j] = s[(i + 1) + j - 1]
      BY <1>1, <2>1, SubSeqProperties
    <2> HIDE DEF back
    <2>3. n - (i + 1) + 1 = n - i /\ Len(back) = n - i
      BY <1>1, <2>2
    <2>4. ASSUME NEW j \in 1 .. n - i PROVE back[j] = s[i + j]
      <3>1. (i + 1) + j - 1 = i + j
        BY <1>1
      <3>2. QED
        BY <2>2, <2>3, <3>1
    <2>5. QED
      BY <2>2, <2>3, <2>4
  <1>4. RemoveAt(s, i) = front \o back
    BY DEF RemoveAt, n
  <1> HIDE DEF front, back
  <1> DEFINE r == front \o back
  <1>5. /\ r \in Seq(X) /\ Len(r) = Len(front) + Len(back)
        /\ \A j \in 1 .. Len(front) + Len(back) :
             r[j] = IF j <= Len(front) THEN front[j] ELSE back[j - Len(front)]
    BY <1>2, <1>3, ConcatProperties
  <1> HIDE DEF r
  <1>6. /\ DOMAIN r = 1 .. n - 1
        /\ \A j \in 1 .. n - 1 : r[j] = IF j < i THEN s[j] ELSE s[j + 1]
    <2>1. DOMAIN r = 1 .. Len(r)
      BY <1>5, LenProperties
    <2>2. Len(r) = n - 1 /\ Len(front) + Len(back) = n - 1
      BY <1>1, <1>2, <1>3, <1>5
    <2>3. ASSUME NEW j \in 1 .. n - 1 PROVE r[j] = IF j < i THEN s[j] ELSE s[j + 1]
      <3>1. CASE j < i
        <4>1. j \in 1 .. i - 1 /\ j <= Len(front)
          BY <1>1, <1>2, <3>1
        <4>2. r[j] = front[j]
          BY <1>5, <2>2, <2>3, <4>1
        <4>3. QED
          BY <1>2, <3>1, <4>1, <4>2
      <3>2. CASE ~(j < i)
        <4>1. j - (i - 1) \in 1 .. n - i /\ ~(j <= Len(front)) /\ i + (j - (i - 1)) = j + 1
          BY <1>1, <1>2, <3>2
        <4>2. r[j] = back[j - (i - 1)]
          BY <1>2, <1>5, <2>2, <2>3, <4>1
        <4>3. QED
          BY <1>3, <3>2, <4>1, <4>2
      <3>3. QED
        BY <3>1, <3>2
    <2>4. QED
      BY <2>1, <2>2, <2>3
  <1>7. ASSUME NEW x, x \in Range(r) PROVE \E j \in DOMAIN s : j # i /\ x = s[j]
    <2>1. PICK j \in 1 .. n - 1 : x = r[j]
      BY <1>6, <1>7 DEF Range
    <2>2. j \in DOMAIN s /\ j + 1 \in DOMAIN s
      BY <1>1
    <2>3. CASE j < i
      BY <1>1, <1>6, <2>1, <2>2, <2>3
    <2>4. CASE ~(j < i)
      <3>1. j + 1 # i /\ x = s[j + 1]
        BY <1>1, <1>6, <2>1, <2>4
      <3>2. QED
        BY <2>2, <3>1
    <2>5. QED
      BY <2>3, <2>4
  <1>8. ASSUME NEW j \in DOMAIN s, j # i PROVE s[j] \in Range(r)
    <2>1. CASE j < i
      <3>1. j \in 1 .. n - 1
        BY <1>1, <2>1
      <3>2. r[j] = s[j]
        BY <1>6, <2>1, <3>1
      <3>3. QED
        BY <1>6, <3>1, <3>2 DEF Range
    <2>2. CASE ~(j < i)
      <3>1. j - 1 \in 1 .. n - 1 /\ ~(j - 1 < i) /\ (j - 1) + 1 = j
        BY <1>1, <1>8, <2>2
      <3>2. r[j - 1] = s[j]
        BY <1>6, <3>1
      <3>3. QED
        BY <1>6, <3>1, <3>2 DEF Range
    <2>3. QED
      BY <2>1, <2>2
  <1>9. RemoveAt(s, i) = r
    BY <1>4 DEF r
  <1>10. QED
    BY <1>5, <1>7, <1>8, <1>9

\* The candidates of an event are the pairs of different places of its ids.
LEMMA CandidatesArePairs ==
  ASSUME NEW X, NEW D, NEW event \in EventOf(X, D)
  PROVE  /\ Candidates(event) \in Seq(EdgePlan(X, D))
         /\ \A e : e \in Range(Candidates(event)) <=> GivenBy(e, event)
  <1> DEFINE ids == event.ids
             E == EdgePlan(X, D)
             edge(i, x) == [source |-> ids[i], target |-> x, delta |-> event.delta]
             from(i) == [j \in DOMAIN RemoveAt(ids, i) |-> edge(i, RemoveAt(ids, i)[j])]
             seqs == [i \in DOMAIN ids |-> from(i)]
  <1>1. ids \in Seq(X) /\ event.delta \in D
    BY DEF EventOf
  <1>2. \A i \in DOMAIN ids : ids[i] \in X
    BY <1>1, LenProperties, ElementOfSeq
  <1>3. ASSUME NEW i \in DOMAIN ids
        PROVE  /\ from(i) \in Seq(E)
               /\ \A e : e \in Range(from(i)) <=> \E j \in DOMAIN ids : j # i /\ e = edge(i, ids[j])
    <2> DEFINE others == RemoveAt(ids, i)
    <2>1. /\ others \in Seq(X)
          /\ \A x : x \in Range(others) <=> \E j \in DOMAIN ids : j # i /\ x = ids[j]
      <3> HIDE DEF ids
      <3>1. QED
        BY <1>1, <1>3, RemoveAtLeavesOthers
    <2> HIDE DEF others
    <2>2. /\ Len(others) \in Nat /\ DOMAIN others = 1 .. Len(others)
          /\ \A j \in 1 .. Len(others) : others[j] \in X
      BY <2>1, LenProperties, ElementOfSeq
    <2>3. \A x \in X : edge(i, x) \in E
      BY <1>1, <1>2, <1>3 DEF EdgePlan
    <2>4. from(i) = [j \in 1 .. Len(others) |-> edge(i, others[j])]
      BY <2>2 DEF others
    <2>5. from(i) \in Seq(E)
      <3>1. \A j \in 1 .. Len(others) : edge(i, others[j]) \in E
        BY <2>2, <2>3
      <3> HIDE DEF edge, E
      <3>2. [j \in 1 .. Len(others) |-> edge(i, others[j])] \in [1 .. Len(others) -> E]
        BY <3>1
      <3> HIDE DEF from
      <3>3. QED
        BY <2>2, <2>4, <3>2, SeqDef
    <2>6. \A e : e \in Range(from(i)) <=> \E j \in 1 .. Len(others) : e = edge(i, others[j])
      <3> HIDE DEF edge, from
      <3>1. QED
        BY <2>4 DEF Range
    <2>7. \A x : x \in Range(others) <=> \E j \in 1 .. Len(others) : x = others[j]
      BY <2>2 DEF Range
    <2>8. ASSUME NEW e, e \in Range(from(i))
          PROVE  \E j \in DOMAIN ids : j # i /\ e = edge(i, ids[j])
      <3> HIDE DEF from, edge
      <3>1. PICK j \in 1 .. Len(others) : e = edge(i, others[j])
        BY <2>6, <2>8
      <3>2. PICK k \in DOMAIN ids : k # i /\ others[j] = ids[k]
        BY <2>1, <2>7
      <3>3. QED
        BY <3>1, <3>2
    <2>9. ASSUME NEW j \in DOMAIN ids, j # i
          PROVE  edge(i, ids[j]) \in Range(from(i))
      <3> HIDE DEF from, edge
      <3>1. PICK k \in 1 .. Len(others) : ids[j] = others[k]
        BY <2>1, <2>7, <2>9
      <3>2. QED
        BY <2>6, <3>1
    <2> HIDE DEF from, E, edge
    <2>10. QED
      BY <2>5, <2>8, <2>9
  <1>4. Candidates(event) = FlattenSeq(seqs)
    BY DEF Candidates
  <1>5. seqs \in Seq(Seq(E)) /\ DOMAIN seqs = DOMAIN ids /\ Len(seqs) \in Nat
        /\ DOMAIN seqs = 1 .. Len(seqs)
    <2> HIDE DEF ids
    <2>1. Len(ids) \in Nat /\ DOMAIN ids = 1 .. Len(ids)
      BY <1>1, LenProperties
    <2> HIDE DEF from, E
    <2>2. seqs \in [1 .. Len(ids) -> Seq(E)] /\ DOMAIN seqs = DOMAIN ids
      BY <1>3, <2>1
    <2> HIDE DEF seqs
    <2>3. seqs \in Seq(Seq(E))
      BY <2>1, <2>2, SeqDef
    <2>4. QED
      BY <2>2, <2>3, LenProperties
  <1>6. \A i \in DOMAIN ids : seqs[i] = from(i)
    OBVIOUS
  <1> HIDE DEF seqs, from, E
  <1>7. FlattenSeq(seqs) \in Seq(E) /\ \E of : JoinedFrom(FlattenSeq(seqs), seqs, Len(seqs), of)
    BY <1>5, FlattenProperties
  <1>8. PICK of : JoinedFrom(FlattenSeq(seqs), seqs, Len(seqs), of)
    BY <1>7
  <1>9. \A e : e \in Range(FlattenSeq(seqs)) <=> \E i \in DOMAIN seqs : e \in Range(seqs[i])
    <2>1. ASSUME NEW e, e \in Range(FlattenSeq(seqs)) PROVE \E i \in DOMAIN seqs : e \in Range(seqs[i])
      <3>1. PICK p \in DOMAIN FlattenSeq(seqs) : e = FlattenSeq(seqs)[p]
        BY <2>1 DEF Range
      <3>2. of[p] \in DOMAIN seqs /\ e \in Range(seqs[of[p]])
        BY <1>5, <1>8, <3>1 DEF JoinedFrom
      <3>3. QED
        BY <3>2
    <2>2. ASSUME NEW e, NEW i \in DOMAIN seqs, e \in Range(seqs[i]) PROVE e \in Range(FlattenSeq(seqs))
      <3>1. PICK p \in DOMAIN FlattenSeq(seqs) : FlattenSeq(seqs)[p] = e
        BY <1>5, <1>8, <2>2 DEF JoinedFrom
      <3>2. QED
        BY <3>1 DEF Range
    <2>3. QED
      BY <2>1, <2>2
  <1>10. \A e : e \in Range(Candidates(event)) <=>
           \E i \in DOMAIN ids : \E j \in DOMAIN ids : j # i /\ e = edge(i, ids[j])
    <2> HIDE DEF ids, edge
    <2>1. QED
      BY <1>3, <1>4, <1>5, <1>6, <1>9
  <1>11. QED
    BY <1>4, <1>7, <1>10 DEF E, GivenBy

\* Of each edge the first plan is kept, and no other.
LEMMA UnseenKeepsFirst ==
  ASSUME NEW E, NEW planned \in Seq(E)
  PROVE  /\ Unseen(planned) \in Seq(E)
         /\ \A i, j \in DOMAIN Unseen(planned) :
              SameEdge(Unseen(planned)[i], Unseen(planned)[j]) => i = j
         /\ \A i \in DOMAIN Unseen(planned) : \E k \in DOMAIN planned :
              /\ Unseen(planned)[i] = planned[k]
              /\ \A j \in 1 .. k - 1 : ~SameEdge(planned[j], planned[k])
         /\ \A p \in DOMAIN planned : \E i \in DOMAIN Unseen(planned), k \in 1 .. p :
              Unseen(planned)[i] = planned[k] /\ SameEdge(planned[k], planned[p])
  <1> DEFINE first == {k \in DOMAIN planned : \A j \in 1 .. k - 1 : ~SameEdge(planned[j], planned[k])}
             u == Picked(planned, first)
  <1>1. DOMAIN planned = 1 .. Len(planned) /\ Len(planned) \in Nat
    BY LenProperties
  <1>2. first \in SUBSET (DOMAIN planned)
    OBVIOUS
  <1>3. \A k \in first : k \in DOMAIN planned /\ \A j \in 1 .. k - 1 : ~SameEdge(planned[j], planned[k])
    OBVIOUS
  <1>4. \A k \in DOMAIN planned : (\A j \in 1 .. k - 1 : ~SameEdge(planned[j], planned[k])) => k \in first
    OBVIOUS
  <1>5. Unseen(planned) = u
    BY DEF Unseen
  <1> HIDE DEF first
  <1>6. /\ u \in Seq(E)
        /\ \A i \in DOMAIN u : Nth(first, i) \in first /\ u[i] = planned[Nth(first, i)]
        /\ \A i, j \in DOMAIN u : i < j => Nth(first, i) < Nth(first, j)
        /\ \A p \in first : \E i \in DOMAIN u : Nth(first, i) = p
    <2> HIDE DEF u
    <2>1. /\ Picked(planned, first) \in Seq({planned[p] : p \in first})
          /\ Picked(planned, first) \in Seq(E)
          /\ Len(Picked(planned, first)) = Cardinality(first) /\ Cardinality(first) \in Nat
          /\ DOMAIN Picked(planned, first) = 1 .. Cardinality(first)
          /\ \A i \in DOMAIN Picked(planned, first) :
               Nth(first, i) \in first /\ Picked(planned, first)[i] = planned[Nth(first, i)]
          /\ \A i, j \in DOMAIN Picked(planned, first) : i < j => Nth(first, i) < Nth(first, j)
          /\ \A p \in first : \E i \in DOMAIN Picked(planned, first) : Nth(first, i) = p
      BY <1>2, PickedProperties
    <2>2. QED
      BY <2>1 DEF u
  <1> HIDE DEF u
  <1>7. ASSUME NEW i \in DOMAIN u, NEW j \in DOMAIN u, i < j, SameEdge(u[i], u[j])
        PROVE  FALSE
    <2> DEFINE p == Nth(first, i)
               q == Nth(first, j)
    <2>1. p \in first /\ q \in first /\ p < q /\ u[i] = planned[p] /\ u[j] = planned[q]
      BY <1>6, <1>7
    <2> HIDE DEF p, q
    <2>2. p \in 1 .. q - 1
      BY <1>1, <1>3, <2>1
    <2>3. ~SameEdge(planned[p], planned[q])
      BY <1>3, <2>1, <2>2
    <2>4. QED
      BY <1>7, <2>1, <2>3
  <1>8. ASSUME NEW i \in DOMAIN u, NEW j \in DOMAIN u, SameEdge(u[i], u[j])
        PROVE  i = j
    <2>1. i \in Int /\ j \in Int
      BY <1>6, LenProperties
    <2>2. SameEdge(u[j], u[i])
      BY <1>8 DEF SameEdge
    <2>3. ~(i < j) /\ ~(j < i)
      BY <1>7, <1>8, <2>2
    <2>4. QED
      BY <2>1, <2>3
  <1>9. ASSUME NEW p \in DOMAIN planned
        PROVE  \E i \in DOMAIN u, k \in 1 .. p : u[i] = planned[k] /\ SameEdge(planned[k], planned[p])
    <2> DEFINE same == {k \in 1 .. p : SameEdge(planned[k], planned[p])}
    <2>1. p \in Nat /\ p \in 1 .. p /\ p <= Len(planned)
      BY <1>1
    <2>2. same \in SUBSET Nat /\ p \in same
      BY <2>1 DEF SameEdge
    <2>3. PICK k \in same : \A y \in same : k <= y
      <3> HIDE DEF same
      <3>1. QED
        BY <2>2, LeastNumber
    <2>4. k \in 1 .. p /\ k \in DOMAIN planned /\ SameEdge(planned[k], planned[p])
      BY <1>1, <2>1
    <2>5. ASSUME NEW j \in 1 .. k - 1, SameEdge(planned[j], planned[k]) PROVE FALSE
      <3>1. j \in 1 .. p /\ j < k
        BY <2>1, <2>4
      <3>2. SameEdge(planned[j], planned[p])
        BY <2>4, <2>5 DEF SameEdge
      <3>3. QED
        BY <2>3, <3>1, <3>2
    <2>6. k \in first
      BY <1>4, <2>4, <2>5
    <2>7. PICK i \in DOMAIN u : Nth(first, i) = k
      BY <1>6, <2>6
    <2>8. u[i] = planned[k]
      BY <1>6, <2>7
    <2>9. QED
      BY <2>4, <2>8
  <1>10. QED
    BY <1>3, <1>5, <1>6, <1>8, <1>9

\* The edge the other way.
Reversed(e) == [source |-> e.target, target |-> e.source, delta |-> e.delta]

\* All plans, before max_edges: each edge once, as an event gives it, and
\* with it its reverse.
AllPlans(found) ==
  Unseen(FlattenSeq([k \in DOMAIN found |-> Candidates(found[k])]))

\* Which these are.
LEMMA AllPlansAreMutual ==
  ASSUME NEW X, NEW D, NEW found \in Seq(EventOf(X, D))
  PROVE  /\ AllPlans(found) \in Seq(EdgePlan(X, D))
         /\ \A i, j \in DOMAIN AllPlans(found) :
              SameEdge(AllPlans(found)[i], AllPlans(found)[j]) => i = j
         /\ \A e \in Range(AllPlans(found)) :
              /\ \E k \in DOMAIN found : GivenBy(e, found[k])
              /\ Reversed(e) \in Range(AllPlans(found))
  <1> DEFINE E == EdgePlan(X, D)
             seqs == [k \in DOMAIN found |-> Candidates(found[k])]
             planned == FlattenSeq(seqs)
             u == Unseen(planned)
  <1>1. /\ Len(found) \in Nat /\ DOMAIN found = 1 .. Len(found)
        /\ \A k \in DOMAIN found : found[k] \in EventOf(X, D)
    BY LenProperties, ElementOfSeq
  <1>2. \A k \in DOMAIN found :
          /\ Candidates(found[k]) \in Seq(E)
          /\ \A e : e \in Range(Candidates(found[k])) <=> GivenBy(e, found[k])
    BY <1>1, CandidatesArePairs
  <1>3. seqs \in Seq(Seq(E)) /\ Len(seqs) = Len(found)
    <2>1. seqs \in [1 .. Len(found) -> Seq(E)]
      <3> HIDE DEF E
      <3>1. QED
        BY <1>1, <1>2
    <2> DEFINE V == Seq(E)
               n == Len(found)
    <2>2. seqs \in [1 .. n -> V] /\ n \in Nat
      BY <1>1, <2>1
    <2> HIDE DEF seqs, V, n
    <2>3. seqs \in Seq(V) /\ Len(seqs) = n
      BY <2>2, SequenceOfLength
    <2>4. QED
      BY <2>3 DEF V, n
  <1>4. \A k \in DOMAIN found : seqs[k] = Candidates(found[k])
    OBVIOUS
  <1> HIDE DEF seqs, E
  <1>5. planned \in Seq(E) /\ \E of : JoinedFrom(planned, seqs, Len(seqs), of)
    BY <1>3, FlattenProperties
  <1>6. PICK of : JoinedFrom(planned, seqs, Len(seqs), of)
    BY <1>5
  <1> HIDE DEF planned
  <1>7. Len(planned) \in Nat /\ DOMAIN planned = 1 .. Len(planned)
    BY <1>5, LenProperties
  <1>8. /\ \A p \in DOMAIN planned : of[p] \in DOMAIN found /\ of[p] \in Int
        /\ \A p, q \in DOMAIN planned : p <= q => of[p] <= of[q]
        /\ \A p \in DOMAIN planned : GivenBy(planned[p], found[of[p]])
        /\ \A k \in DOMAIN found : \A e : GivenBy(e, found[k]) =>
             \E p \in DOMAIN planned : of[p] = k /\ planned[p] = e
    <2>1. \A p \in DOMAIN planned : of[p] \in 1 .. Len(seqs)
      BY <1>6 DEF JoinedFrom
    <2>2. \A p \in DOMAIN planned : of[p] \in DOMAIN found /\ of[p] \in Int
      BY <1>1, <1>3, <2>1
    <2>3. ASSUME NEW p \in DOMAIN planned, NEW q \in DOMAIN planned, p <= q PROVE of[p] <= of[q]
      <3>1. CASE p = q
        BY <2>2, <3>1
      <3>2. CASE p # q
        <4>1. p < q
          BY <1>7, <2>3, <3>2
        <4>2. QED
          BY <1>6, <4>1 DEF JoinedFrom
      <3>3. QED
        BY <3>1, <3>2
    <2>4. ASSUME NEW p \in DOMAIN planned PROVE GivenBy(planned[p], found[of[p]])
      <3>1. planned[p] \in Range(seqs[of[p]])
        BY <1>6 DEF JoinedFrom
      <3>2. QED
        BY <1>2, <1>4, <2>2, <3>1
    <2>5. ASSUME NEW k \in DOMAIN found, NEW e, GivenBy(e, found[k])
          PROVE  \E p \in DOMAIN planned : of[p] = k /\ planned[p] = e
      <3>1. e \in Range(seqs[k]) /\ k \in 1 .. Len(seqs)
        BY <1>1, <1>2, <1>3, <1>4, <2>5
      <3>2. QED
        BY <1>6, <3>1 DEF JoinedFrom
    <2>6. QED
      BY <2>2, <2>3, <2>4, <2>5
  <1>9. /\ u \in Seq(E)
        /\ \A i, j \in DOMAIN u : SameEdge(u[i], u[j]) => i = j
        /\ \A i \in DOMAIN u : \E k \in DOMAIN planned :
             u[i] = planned[k] /\ \A j \in 1 .. k - 1 : ~SameEdge(planned[j], planned[k])
        /\ \A p \in DOMAIN planned : \E i \in DOMAIN u, k \in 1 .. p :
             u[i] = planned[k] /\ SameEdge(planned[k], planned[p])
    BY <1>5, UnseenKeepsFirst
  <1> HIDE DEF u
  <1>10. \A event : \A e : GivenBy(e, event) => GivenBy(Reversed(e), event) /\ e.delta = event.delta
    BY DEF GivenBy, Reversed
  <1>11. ASSUME NEW i \in DOMAIN u
         PROVE  /\ \E k \in DOMAIN found : GivenBy(u[i], found[k])
                /\ Reversed(u[i]) \in Range(u)
    <2> DEFINE e == u[i]
    <2>1. PICK p \in DOMAIN planned : e = planned[p] /\ \A j \in 1 .. p - 1 : ~SameEdge(planned[j], planned[p])
      BY <1>9
    <2> HIDE DEF e
    <2>2. of[p] \in DOMAIN found /\ GivenBy(e, found[of[p]])
      BY <1>8, <2>1
    <2>3. PICK p2 \in DOMAIN planned : of[p2] = of[p] /\ planned[p2] = Reversed(e)
      BY <1>8, <1>10, <2>2
    <2>4. PICK n \in DOMAIN u, q \in 1 .. p2 : u[n] = planned[q] /\ SameEdge(planned[q], planned[p2])
      BY <1>9
    <2>5. q \in DOMAIN planned /\ of[q] <= of[p]
      <3>1. q \in DOMAIN planned /\ q <= p2
        BY <1>7
      <3>2. QED
        BY <1>8, <2>3, <3>1
    <2>6. GivenBy(Reversed(planned[q]), found[of[q]]) /\ planned[q].delta = found[of[q]].delta
      BY <1>8, <1>10, <2>5
    <2>7. PICK p3 \in DOMAIN planned : of[p3] = of[q] /\ planned[p3] = Reversed(planned[q])
      <3> DEFINE k == of[q]
                 back == Reversed(planned[q])
      <3>1. k \in DOMAIN found /\ GivenBy(back, found[k])
        BY <1>8, <2>5, <2>6
      <3> HIDE DEF k, back
      <3>2. \E r \in DOMAIN planned : of[r] = k /\ planned[r] = back
        BY <1>8, <3>1
      <3>3. QED
        BY <3>2 DEF k, back
    <2>8. planned[q].source = e.target /\ planned[q].target = e.source
      BY <2>3, <2>4 DEF SameEdge, Reversed
    <2>9. SameEdge(planned[p3], planned[p])
      BY <2>1, <2>7, <2>8 DEF SameEdge, Reversed
    <2>10. p <= p3
      <3>1. p3 \notin 1 .. p - 1
        BY <2>1, <2>9
      <3>2. QED
        BY <1>7, <3>1
    <2>11. of[q] = of[p]
      <3>1. of[p] <= of[q]
        BY <1>8, <2>7, <2>10
      <3>2. QED
        BY <1>8, <2>5, <3>1
    <2>12. planned[q].delta = e.delta
      BY <1>10, <2>2, <2>6, <2>11
    <2>13. planned[q] = Reversed(e)
      <3>1. planned[q] \in E
        BY <1>5, <2>5, LenProperties, ElementOfSeq
      <3>2. QED
        BY <2>8, <2>12, <3>1 DEF E, EdgePlan, Reversed
    <2>14. u[n] = Reversed(e)
      BY <2>4, <2>13
    <2>15. QED
      BY <2>2, <2>14 DEF e, Range
  <1>12. AllPlans(found) = u
    BY DEF AllPlans, u, planned, seqs
  <1>13. \A e \in Range(u) : \E i \in DOMAIN u : e = u[i]
    BY DEF Range
  <1>14. QED
    BY <1>9, <1>11, <1>12, <1>13 DEF E

\* max_edges cuts the plans off, but for the first.
Cut(all, maxPlans) ==
  IF all = <<>> THEN all ELSE SubSeq(all, 1, Min({Len(all), Max({1, maxPlans})}))

\* What is cut off.
LEMMA CutKeepsFirst ==
  ASSUME NEW E, NEW all \in Seq(E), NEW maxPlans \in Nat
  PROVE  /\ Cut(all, maxPlans) \in Seq(E)
         /\ \A i \in DOMAIN Cut(all, maxPlans) : i \in DOMAIN all /\ Cut(all, maxPlans)[i] = all[i]
         /\ Len(Cut(all, maxPlans)) < maxPlans => Cut(all, maxPlans) = all
         /\ Len(Cut(all, maxPlans)) <= 1 \/ Len(Cut(all, maxPlans)) <= maxPlans
  <1> DEFINE len == Len(all)
             most == IF 1 >= maxPlans THEN 1 ELSE maxPlans
             n == IF len <= most THEN len ELSE most
             plans == SubSeq(all, 1, n)
  <1>1. len \in Nat /\ DOMAIN all = 1 .. len
    BY LenProperties
  <1>2. \A i \in DOMAIN all : all[i] \in E
    BY LenProperties, ElementOfSeq
  <1>3. Cut(all, maxPlans) = IF all = <<>> THEN all ELSE SubSeq(all, 1, Min({len, Max({1, maxPlans})}))
    BY DEF Cut
  <1> HIDE DEF len
  <1>4. most \in Nat /\ (most <= 1 \/ most <= maxPlans) /\ ~(most < maxPlans)
    OBVIOUS
  <1>5. Max({1, maxPlans}) = most
    <2>1. 1 \in Int /\ maxPlans \in Int
      OBVIOUS
    <2>2. QED
      BY <2>1, OfTwo
  <1> HIDE DEF most
  <1>6. Min({len, most}) = n
    <2>1. len \in Int /\ most \in Int
      BY <1>1, <1>4
    <2>2. QED
      BY <2>1, OfTwo
  <1>7. n \in Nat /\ n <= len /\ (n <= 1 \/ n <= maxPlans) /\ (n < maxPlans => n = len)
    BY <1>1, <1>4
  <1> HIDE DEF n
  <1>8. CASE all = <<>>
    <2>1. Cut(all, maxPlans) = all
      BY <1>3, <1>8
    <2>2. Len(all) = 0
      BY <1>8
    <2>3. QED
      BY <2>1, <2>2
  <1>9. CASE all # <<>>
    <2>1. Cut(all, maxPlans) = plans
      BY <1>3, <1>5, <1>6, <1>9
    <2>2. /\ plans \in Seq(E)
          /\ Len(plans) = IF 1 <= n THEN n - 1 + 1 ELSE 0
          /\ \A i \in 1 .. n - 1 + 1 : plans[i] = all[1 + i - 1]
      <3>1. \A i \in 1 .. n : i \in DOMAIN all
        BY <1>1, <1>7
      <3>2. \A i \in 1 .. n : all[i] \in E
        BY <1>2, <3>1
      <3>3. QED
        BY <1>7, <3>2, SubSeqProperties
    <2> HIDE DEF plans
    <2>3. plans \in Seq(E) /\ Len(plans) = n /\ DOMAIN plans = 1 .. n
      BY <1>7, <2>2, LenProperties
    <2>4. ASSUME NEW i \in 1 .. n PROVE i \in DOMAIN all /\ plans[i] = all[i]
      <3>1. 1 + i - 1 = i /\ n - 1 + 1 = n
        BY <1>7
      <3>2. QED
        BY <1>1, <1>7, <2>2, <3>1
    <2>5. ASSUME n = len PROVE plans = all
      <3>1. Len(plans) = Len(all) /\ \A i \in 1 .. Len(plans) : plans[i] = all[i]
        BY <2>3, <2>4, <2>5 DEF len
      <3>2. QED
        BY <2>3, <3>1, SeqEqual
    <2>6. QED
      BY <1>7, <2>1, <2>3, <2>4, <2>5
  <1>10. QED
    BY <1>8, <1>9

\* For every list of events and every max_edges: no edge is planned twice;
\* unless max_edges cuts the plans off, an edge and its reverse are planned
\* together with one delta; each plan joins two ids of one event, with its
\* delta; and there are not more plans than max_edges, except for the one
\* that is made before the number is compared.
THEOREM EdgePlansOnceEachWay ==
  ASSUME NEW X, NEW D, NEW found \in Seq(EventOf(X, D)), NEW maxPlans \in Nat
  PROVE  LET plans == EdgePlans(found, maxPlans) IN
           /\ plans \in Seq(EdgePlan(X, D))
           /\ \A i, j \in DOMAIN plans : SameEdge(plans[i], plans[j]) => i = j
           /\ \A e \in Range(plans) : \E k \in DOMAIN found : GivenBy(e, found[k])
           /\ Len(plans) < maxPlans => \A e \in Range(plans) : Reversed(e) \in Range(plans)
           /\ Len(plans) <= 1 \/ Len(plans) <= maxPlans
  <1> DEFINE all == AllPlans(found)
             plans == EdgePlans(found, maxPlans)
             E == EdgePlan(X, D)
  <1>1. /\ all \in Seq(E)
        /\ \A i, j \in DOMAIN all : SameEdge(all[i], all[j]) => i = j
        /\ \A e \in Range(all) :
             (\E k \in DOMAIN found : GivenBy(e, found[k])) /\ Reversed(e) \in Range(all)
    BY AllPlansAreMutual
  <1>2. plans = Cut(all, maxPlans)
    BY DEF EdgePlans, AllPlans, Cut
  <1> HIDE DEF all, plans, E
  <1>3. /\ plans \in Seq(E)
        /\ \A i \in DOMAIN plans : i \in DOMAIN all /\ plans[i] = all[i]
        /\ Len(plans) < maxPlans => plans = all
        /\ Len(plans) <= 1 \/ Len(plans) <= maxPlans
    BY <1>1, <1>2, CutKeepsFirst
  <1>4. \A i, j \in DOMAIN plans : SameEdge(plans[i], plans[j]) => i = j
    BY <1>1, <1>3
  <1>5. \A e \in Range(plans) : e \in Range(all)
    BY <1>3 DEF Range
  <1>6. QED
    BY <1>1, <1>3, <1>4, <1>5 DEF plans, E

\* No edge is planned twice, and unless max_edges cuts the plans off, an edge
\* and its reverse are planned together with one delta.
THEOREM HebbianOnceEachWay == HebbSpec => []OnceEachWay
  <1> DEFINE X == {Nth(S, i) : S \in SUBSET Id, i \in Nat}
             T == EventOf(X, EventDelta)
             Typed == targetEvents \in Seq(T) /\ maxEdges \in Nat
  <1>1. HebbInit => Typed
    <2>1. <<>> \in Seq(T)
      OBVIOUS
    <2>2. QED
      BY <2>1, HebbConstants DEF HebbInit
  <1>2. Typed /\ [HebbNext]_<<targetEvents, maxEdges>> => Typed'
    <2> SUFFICES ASSUME Typed, HebbNext PROVE Typed'
      OBVIOUS
    <2>1. PICK S \in SUBSET Id, d \in EventDelta :
            targetEvents' = Append(targetEvents, [ids |-> Sorted(S), delta |-> d])
      BY DEF HebbNext
    <2>2. Cardinality(S) \in Nat
      BY HebbConstants, FS_Subset, FS_CardinalityType
    <2>3. Sorted(S) \in Seq(X)
      <3> DEFINE c == Cardinality(S)
                 ids == [i \in 1 .. c |-> Nth(S, i)]
      <3>1. \A i \in 1 .. c : Nth(S, i) \in X
        BY <2>2
      <3> HIDE DEF X
      <3>2. ids \in [1 .. c -> X] /\ c \in Nat
        BY <2>2, <3>1
      <3> HIDE DEF ids, c
      <3>3. ids \in Seq(X)
        BY <3>2, SequenceOfLength
      <3>4. QED
        BY <3>3 DEF Sorted, ids, c
    <2>4. [ids |-> Sorted(S), delta |-> d] \in T
      BY <2>3 DEF EventOf
    <2> HIDE DEF T
    <2>5. targetEvents' \in Seq(T)
      BY <2>1, <2>4, AppendProperties
    <2>6. QED
      BY <2>5 DEF HebbNext
  <1>3. Typed => OnceEachWay
    <2> SUFFICES ASSUME Typed PROVE OnceEachWay
      OBVIOUS
    <2> HIDE DEF X
    <2> DEFINE plans == EdgePlans(targetEvents, maxEdges)
    <2>1. /\ \A i, j \in DOMAIN plans : SameEdge(plans[i], plans[j]) => i = j
          /\ Len(plans) < maxEdges => \A e \in Range(plans) : Reversed(e) \in Range(plans)
      BY EdgePlansOnceEachWay
    <2> HIDE DEF plans
    <2>2. QED
      BY <2>1 DEF OnceEachWay, Plans, Reversed, plans
  <1>4. QED
    BY <1>1, <1>2, <1>3, PTL DEF HebbSpec

-----------------------------------------------------------------------------
(* The processes that execute plans.                                       *)

\* The mutations a plan may hold.
Mutation ==
  [op : {"InsertMemory"}, content : Content]
    \cup [op : {"UpdateMemory"}, id : MemoryId, content : Content]
    \cup [op : {"ArchiveMemory"}, id : MemoryId]
    \cup {e \in [op : {"UpdateEdge"}, source : MemoryId, target : MemoryId, delta : Delta] :
            e.source # e.target}

\* What the processes hold is a list of such mutations, and a reinforce call
\* that is still checking holds different memories.
ExecTypes ==
  /\ plan \in [Proc -> Seq(Mutation)]
  /\ executed \in [Proc -> Seq(Mutation)]
  /\ checking \in [Proc -> Seq(MemoryId)]
  /\ target \in [Proc -> EventOf(MemoryId, Int)]
  /\ \A p \in Proc : checking[p] # <<>> =>
       target[p] \in EventOf(MemoryId, Delta) /\ IsInjective(target[p].ids)

\* Where a process reports that it archived m.
ArchivedAt(m) ==
  UNION {{p} \X {i \in DOMAIN executed[p] : executed[p][i] = ArchiveMemory(m)} : p \in Proc}

\* It is one place for a memory that is invalid, and none for others.
OnePlace ==
  \A m \in MemoryId :
    /\ status[m] # "invalid" => ArchivedAt(m) = {}
    /\ status[m] = "invalid" => \E x : ArchivedAt(m) = {x}

ExecInv == TypeOK /\ IsFiniteSet(Written) /\ ExecTypes /\ OnePlace

\* A step of the store writes one memory at most.
LEMMA WrittenGrows ==
  ASSUME TypeOK, IsFiniteSet(Written), [Next]_vars
  PROVE  IsFiniteSet(Written')
  <1>1. \E m : Written' \subseteq Written \cup {m}
    <2>1. ASSUME NEW m \in MemoryId, NEW c \in Content, Write(m, c)
          PROVE  Written' \subseteq Written \cup {m}
      BY <2>1 DEF Write, Written, TypeOK
    <2>2. ASSUME NEW m \in MemoryId, NEW c \in Content, UpdateContent(m, c)
          PROVE  Written' \subseteq Written \cup {m}
      BY <2>2 DEF UpdateContent, Written
    <2>3. ASSUME NEW m \in MemoryId, Invalidate(m)
          PROVE  Written' \subseteq Written \cup {m}
      BY <2>3 DEF Invalidate, Written, TypeOK
    <2>4. ASSUME status' = status PROVE Written' \subseteq Written \cup {0}
      BY <2>4 DEF Written
    <2>5. QED
      BY <2>1, <2>2, <2>3, <2>4 DEF Next, UpdateEdge, PutEmbedding, RecordAccess, vars, memoryVars
  <1>2. PICK m : Written' \subseteq Written \cup {m}
    BY <1>1
  <1>3. IsFiniteSet(Written \cup {m})
    BY FS_AddElement
  <1>4. QED
    BY <1>2, <1>3, FS_Subset

\* The elements of a finite set can be listed, each once.
LEMMA SetToSeqLists ==
  ASSUME NEW S, IsFiniteSet(S)
  PROVE  SetToSeq(S) \in Seq(S) /\ IsInjective(SetToSeq(S)) /\ Len(SetToSeq(S)) = Cardinality(S)
  <1> DEFINE n == Cardinality(S)
             s == SetToSeq(S)
  <1>1. n \in Nat /\ ExistsBijection(1 .. n, S)
    BY FS_CardinalityType
  <1>2. \E f \in [1 .. n -> S] : IsInjective(f)
    BY <1>1 DEF ExistsBijection, Bijection, Injection
  <1>3. s \in [1 .. n -> S] /\ IsInjective(s)
    BY <1>2 DEF SetToSeq
  <1> HIDE DEF s, n
  <1>4. s \in Seq(S) /\ Len(s) = n
    BY <1>1, <1>3, SequenceOfLength
  <1>5. QED
    BY <1>3, <1>4 DEF s, n

-----------------------------------------------------------------------------
(* Plans are lists of mutations.                                           *)

\* The plan of a merge: one update, then archives.
LEMMA MergePlanType ==
  ASSUME ExecutorConstants, TypeOK, NEW S \in SUBSET Live, IsFiniteSet(S), Cardinality(S) >= 2,
         NEW ids \in SetToSeqs(S)
  PROVE  MergePlan(ids) \in Seq(Mutation)
  <1> DEFINE n == Cardinality(S)
             text == Join[{content[ids[i]] : i \in DOMAIN ids}]
             front == <<UpdateMemory(ids[1], text)>>
             back == [i \in 1 .. Len(ids) - 1 |-> ArchiveMemory(ids[i + 1])]
  <1>1. n \in Nat /\ n >= 2
    BY FS_CardinalityType
  <1>2. ids \in [1 .. n -> S]
    BY DEF SetToSeqs
  <1> HIDE DEF n
  <1>3. Len(ids) = n /\ DOMAIN ids = 1 .. n
    BY <1>1, <1>2, SequenceOfLength
  <1>4. \A i \in 1 .. n : ids[i] \in MemoryId /\ content[ids[i]] \in Content
    BY <1>2 DEF TypeOK, Live, Written
  <1>5. text \in Content
    <2>1. {content[ids[i]] : i \in DOMAIN ids} \subseteq Content
      BY <1>3, <1>4
    <2>2. content[ids[1]] \in {content[ids[i]] : i \in DOMAIN ids}
      BY <1>1, <1>3
    <2>3. {content[ids[i]] : i \in DOMAIN ids} \in (SUBSET Content) \ {{}}
      BY <2>1, <2>2
    <2>4. QED
      BY <2>3 DEF ExecutorConstants
  <1> HIDE DEF text
  <1>6. front \in Seq(Mutation)
    <2>1. ids[1] \in MemoryId
      BY <1>1, <1>4
    <2>2. UpdateMemory(ids[1], text) \in Mutation
      BY <1>5, <2>1 DEF UpdateMemory, Mutation
    <2> HIDE DEF Mutation
    <2>3. QED
      BY <2>2
  <1>7. back \in Seq(Mutation)
    <2> DEFINE k == n - 1
    <2>1. k \in Nat /\ \A i \in 1 .. k : i + 1 \in 1 .. n
      BY <1>1
    <2>2. \A i \in 1 .. k : ArchiveMemory(ids[i + 1]) \in Mutation
      BY <1>4, <2>1 DEF ArchiveMemory, Mutation
    <2>3. back \in [1 .. k -> Mutation]
      BY <1>3, <2>2
    <2> HIDE DEF back, k
    <2>4. QED
      BY <2>1, <2>3, SequenceOfLength
  <1> HIDE DEF front, back
  <1>8. front \o back \in Seq(Mutation)
    BY <1>6, <1>7, ConcatProperties
  <1>9. QED
    BY <1>8 DEF MergePlan, front, back, text

\* The plan of a reinforce call: edges between different memories.
LEMMA ReinforcePlanType ==
  ASSUME ExecutorConstants, NEW event \in EventOf(MemoryId, Delta), IsInjective(event.ids)
  PROVE  ReinforcePlan(event) \in Seq(Mutation)
  <1> DEFINE T == EventOf(MemoryId, Delta)
             list == <<event>>
             plans == EdgePlans(list, MaxEdges)
             mutations == [k \in DOMAIN plans |->
                             EdgeMutation(plans[k].source, plans[k].target, plans[k].delta)]
  <1>1. list \in Seq(T) /\ \A k \in DOMAIN list : list[k] = event
    <2> HIDE DEF T
    <2>1. event \in T
      BY DEF T
    <2>2. QED
      BY <2>1
  <1>2. MaxEdges \in Nat
    BY DEF ExecutorConstants
  <1> HIDE DEF list
  <1>3. /\ plans \in Seq(EdgePlan(MemoryId, Delta))
        /\ \A e \in Range(plans) : \E k \in DOMAIN list : GivenBy(e, list[k])
    BY <1>1, <1>2, EdgePlansOnceEachWay
  <1> HIDE DEF plans
  <1>4. Len(plans) \in Nat /\ DOMAIN plans = 1 .. Len(plans)
        /\ \A k \in DOMAIN plans : plans[k] \in EdgePlan(MemoryId, Delta)
    BY <1>3, LenProperties, ElementOfSeq
  <1>5. \A k \in DOMAIN plans : plans[k].source # plans[k].target
    <2> TAKE k \in DOMAIN plans
    <2>1. GivenBy(plans[k], event)
      BY <1>1, <1>3 DEF Range
    <2>2. QED
      BY <2>1 DEF GivenBy, IsInjective
  <1>6. \A k \in DOMAIN plans :
          EdgeMutation(plans[k].source, plans[k].target, plans[k].delta) \in Mutation
    BY <1>4, <1>5 DEF EdgePlan, EdgeMutation, Mutation
  <1> DEFINE n == Len(plans)
  <1>7. mutations \in [1 .. n -> Mutation] /\ n \in Nat
    BY <1>4, <1>6
  <1> HIDE DEF mutations, n
  <1>8. mutations \in Seq(Mutation)
    BY <1>7, SequenceOfLength
  <1>9. QED
    BY <1>8 DEF ReinforcePlan, mutations, plans, list


-----------------------------------------------------------------------------
(* Their steps.                                                            *)

\* A mutation performs one operation of the store.
LEMMA PerformIsStoreStep ==
  ASSUME NEW mut \in Mutation, Perform(mut)
  PROVE  Next
  <1>1. CASE mut.op = "InsertMemory"
    <2>1. mut.content \in Content
      BY <1>1 DEF Mutation
    <2>2. PICK m \in MemoryId : Write(m, mut.content)
      BY <1>1 DEF Perform
    <2>3. QED
      BY <2>1, <2>2 DEF Next
  <1>2. CASE mut.op = "UpdateMemory"
    <2>1. mut.id \in MemoryId /\ mut.content \in Content
      BY <1>2 DEF Mutation
    <2>2. UpdateContent(mut.id, mut.content)
      BY <1>2 DEF Perform
    <2>3. QED
      BY <2>1, <2>2 DEF Next
  <1>3. CASE mut.op = "ArchiveMemory"
    <2>1. mut.id \in MemoryId
      BY <1>3 DEF Mutation
    <2>2. Invalidate(mut.id)
      BY <1>3 DEF Perform
    <2>3. QED
      BY <2>1, <2>2 DEF Next
  <1>4. CASE mut.op = "UpdateEdge"
    <2>1. /\ mut.source \in MemoryId /\ mut.target \in MemoryId /\ mut.delta \in Delta
          /\ mut.source # mut.target
      BY <1>4 DEF Mutation
    <2>2. UpdateEdge(mut.source, mut.target, mut.delta)
      BY <1>4 DEF Perform
    <2>3. QED
      BY <2>1, <2>2 DEF Next
  <1>5. QED
    BY <1>1, <1>2, <1>3, <1>4 DEF Perform

\* What a process executes next is a mutation.
LEMMA HeadOfPlan ==
  ASSUME ExecTypes, NEW p \in Proc, plan[p] # <<>>
  PROVE  /\ Head(plan[p]) \in Mutation
         /\ Tail(plan[p]) \in Seq(Mutation)
  <1> DEFINE M == Mutation
             s == plan[p]
  <1>1. s \in Seq(M) /\ s # <<>>
    BY DEF ExecTypes
  <1> HIDE DEF M, s
  <1>2. Head(s) \in M /\ Tail(s) \in Seq(M)
    BY <1>1, HeadTailProperties
  <1>3. QED
    BY <1>2 DEF M, s

\* A step of the processes is a step of the store or leaves it alone.
LEMMA ExecStepIsStoreStep ==
  ASSUME ExecTypes, [ExecNext]_allVars
  PROVE  [Next]_vars
  <1>1. ASSUME NEW m \in MemoryId, NEW c \in Content, ClientWrite(m, c)
        PROVE  Next
    BY <1>1 DEF ClientWrite, Next
  <1>2. ASSUME NEW p \in Proc, Execute(p)
        PROVE  Next \/ UNCHANGED vars
    <2>1. Head(plan[p]) \in Mutation
      BY <1>2, HeadOfPlan DEF Execute
    <2>2. Perform(Head(plan[p])) \/ UNCHANGED vars
      BY <1>2 DEF Execute
    <2>3. QED
      BY <2>1, <2>2, PerformIsStoreStep
  <1>3. ASSUME NEW p \in Proc, Check(p) \/ Busy(p) \/ Crash(p)
        PROVE  UNCHANGED vars
    BY <1>3 DEF Check, Busy, Crash, Fault
  <1>4. ASSUME NEW p \in Proc, NEW mutations, Submit(p, mutations)
        PROVE  UNCHANGED vars
    BY <1>4 DEF Submit
  <1>5. ASSUME NEW p \in Proc, NEW c \in Content, Promote(p, c)
        PROVE  UNCHANGED vars
    BY <1>4, <1>5 DEF Promote
  <1>6. ASSUME NEW p \in Proc, NEW S \in SUBSET Live, Merge(p, S)
        PROVE  UNCHANGED vars
    BY <1>4, <1>6 DEF Merge
  <1>7. ASSUME NEW p \in Proc, NEW m \in Written, Forget(p, m)
        PROVE  UNCHANGED vars
    BY <1>4, <1>7 DEF Forget
  <1>8. ASSUME NEW p \in Proc, NEW S \in SUBSET Written, NEW d \in Delta, Reinforce(p, S, d)
        PROVE  UNCHANGED vars
    BY <1>8 DEF Reinforce
  <1>9. CASE UNCHANGED allVars
    BY <1>9 DEF allVars
  <1>10. QED
    BY <1>1, <1>2, <1>3, <1>5, <1>6, <1>7, <1>8, <1>9 DEF ExecNext

\* A process that submits a list of mutations has one.
LEMMA SubmitType ==
  ASSUME ExecTypes, NEW p \in Proc, NEW mutations \in Seq(Mutation), Submit(p, mutations)
  PROVE  ExecTypes'
  <1> DEFINE M == Seq(Mutation)
  <1>1. plan \in [Proc -> M] /\ mutations \in M
    BY DEF ExecTypes
  <1> HIDE DEF M
  <1>2. plan' \in [Proc -> M]
    BY <1>1 DEF Submit
  <1>3. QED
    BY <1>2 DEF Submit, ExecTypes, M

\* The rest of a list of mutations is one.
LEMMA RestType ==
  ASSUME ExecTypes, NEW p \in Proc, NEW rest \in Seq(Mutation),
         plan' = [plan EXCEPT ![p] = rest], UNCHANGED <<checking, target, executed>>
  PROVE  ExecTypes'
  <1> DEFINE M == Seq(Mutation)
  <1>1. plan \in [Proc -> M] /\ rest \in M
    BY DEF ExecTypes
  <1> HIDE DEF M
  <1>2. plan' \in [Proc -> M]
    BY <1>1
  <1>3. QED
    BY <1>2 DEF ExecTypes, M

\* A reinforce call checks each of its memories once.
LEMMA ReinforceType ==
  ASSUME TypeOK, IsFiniteSet(Written), ExecTypes, NEW p \in Proc, NEW S \in SUBSET Written,
         NEW d \in Delta, Reinforce(p, S, d)
  PROVE  ExecTypes'
  <1> DEFINE ids == SetToSeq(S)
             event == [ids |-> ids, delta |-> d]
             L == Seq(MemoryId)
             T == EventOf(MemoryId, Int)
  <1>1. ids \in L /\ IsInjective(ids)
    <2>1. IsFiniteSet(S)
      BY FS_Subset
    <2>2. ids \in Seq(S) /\ IsInjective(ids)
      BY <2>1, SetToSeqLists
    <2>3. S \subseteq MemoryId
      BY DEF Written
    <2> HIDE DEF ids
    <2>4. QED
      BY <2>2, <2>3
  <1> HIDE DEF ids
  <1>2. event \in EventOf(MemoryId, Delta) /\ event.ids = ids
    BY <1>1 DEF EventOf
  <1>3. event \in T
    BY <1>1, StoreConstants DEF EventOf
  <1>4. /\ checking' = [checking EXCEPT ![p] = ids]
        /\ target' = [target EXCEPT ![p] = event]
        /\ UNCHANGED <<plan, executed>>
    BY DEF Reinforce, ids, event
  <1> HIDE DEF event
  <1>5. /\ checking \in [Proc -> L] /\ target \in [Proc -> T]
        /\ \A q \in Proc : checking[q] # <<>> =>
             target[q] \in EventOf(MemoryId, Delta) /\ IsInjective(target[q].ids)
    BY DEF ExecTypes
  <1> HIDE DEF L, T
  <1>6. /\ checking' \in [Proc -> L] /\ target' \in [Proc -> T]
        /\ target'[p] = event
        /\ \A q \in Proc : q # p => checking'[q] = checking[q] /\ target'[q] = target[q]
    BY <1>1, <1>3, <1>4, <1>5
  <1>7. \A q \in Proc : checking'[q] # <<>> =>
          target'[q] \in EventOf(MemoryId, Delta) /\ IsInjective(target'[q].ids)
    <2> TAKE q \in Proc
    <2>1. CASE q = p
      BY <1>1, <1>2, <1>6, <2>1
    <2>2. CASE q # p
      BY <1>5, <1>6, <2>2
    <2>3. QED
      BY <2>1, <2>2
  <1>8. plan' \in [Proc -> Seq(Mutation)] /\ executed' \in [Proc -> Seq(Mutation)]
    BY <1>4 DEF ExecTypes
  <1>9. QED
    BY <1>6, <1>7, <1>8 DEF ExecTypes, L, T

\* The check of a reinforce call goes on to the next memory, ends the call,
\* or makes the plan of it.
LEMMA CheckType ==
  ASSUME ExecutorConstants, ExecTypes, NEW p \in Proc, Check(p)
  PROVE  ExecTypes'
  <1> DEFINE L == Seq(MemoryId)
             M == Seq(Mutation)
             T == EventOf(MemoryId, Int)
             Fits(q) == target[q] \in EventOf(MemoryId, Delta) /\ IsInjective(target[q].ids)
  <1>1. /\ plan \in [Proc -> M] /\ executed \in [Proc -> M]
        /\ checking \in [Proc -> L] /\ target \in [Proc -> T]
        /\ \A q \in Proc : checking[q] # <<>> => Fits(q)
    BY DEF ExecTypes
  <1>2. /\ checking[p] # <<>>
        /\ \/ checking' = [checking EXCEPT ![p] = <<>>]
           \/ checking' = [checking EXCEPT ![p] = Tail(checking[p])]
        /\ plan' = plan \/ plan' = [plan EXCEPT ![p] = ReinforcePlan(target[p])]
        /\ UNCHANGED <<target, executed>>
    BY DEF Check
  <1>3. <<>> \in L /\ Tail(checking[p]) \in L
    <2>1. checking[p] \in Seq(MemoryId)
      BY <1>1
    <2>2. QED
      BY <1>2, <2>1, HeadTailProperties
  <1>4. ReinforcePlan(target[p]) \in M
    BY <1>1, <1>2, ReinforcePlanType
  <1>5. \A q \in Proc : Fits(q)' <=> Fits(q)
    BY <1>2
  <1> HIDE DEF L, M, T, Fits
  <1>6. /\ checking' \in [Proc -> L]
        /\ \A q \in Proc : checking'[q] # <<>> => checking[q] # <<>>
    BY <1>1, <1>2, <1>3
  <1>7. plan' \in [Proc -> M]
    BY <1>1, <1>2, <1>4
  <1>8. \A q \in Proc : checking'[q] # <<>> => Fits(q)'
    BY <1>1, <1>5, <1>6
  <1>9. QED
    BY <1>1, <1>2, <1>6, <1>7, <1>8 DEF ExecTypes, L, M, T, Fits

\* What a process has executed is a list of mutations.
LEMMA ExecuteType ==
  ASSUME ExecTypes, NEW p \in Proc, Execute(p)
  PROVE  ExecTypes'
  <1> DEFINE M == Seq(Mutation)
             mut == Head(plan[p])
  <1>1. plan \in [Proc -> M] /\ executed \in [Proc -> M]
    BY DEF ExecTypes
  <1>2. mut \in Mutation /\ Tail(plan[p]) \in M
    BY HeadOfPlan DEF Execute
  <1>3. /\ \/ executed' = [executed EXCEPT ![p] = Append(executed[p], mut)]
           \/ executed' = executed
        /\ plan' = [plan EXCEPT ![p] = Tail(plan[p])]
        /\ UNCHANGED <<checking, target>>
    BY DEF Execute
  <1>4. Append(executed[p], mut) \in M
    <2>1. executed[p] \in Seq(Mutation)
      BY <1>1
    <2> HIDE DEF mut
    <2>2. QED
      BY <1>2, <2>1, AppendProperties
  <1> HIDE DEF M, mut
  <1>5. plan' \in [Proc -> M] /\ executed' \in [Proc -> M]
    BY <1>1, <1>2, <1>3, <1>4
  <1>6. QED
    BY <1>3, <1>5 DEF ExecTypes, M

\* No step of the processes breaks what they hold.
LEMMA ExecTypesStep ==
  ASSUME ExecutorConstants, TypeOK, IsFiniteSet(Written), ExecTypes, [ExecNext]_allVars
  PROVE  ExecTypes'
  <1>1. ASSUME NEW m \in MemoryId, NEW c \in Content, ClientWrite(m, c)
        PROVE  ExecTypes'
    BY <1>1 DEF ClientWrite, execVars, ExecTypes
  <1>2. ASSUME NEW p \in Proc, NEW c \in Content, Promote(p, c)
        PROVE  ExecTypes'
    <2>1. InsertMemory(c) \in Mutation
      BY DEF InsertMemory, Mutation
    <2> DEFINE mut == InsertMemory(c)
               M == Mutation
    <2> HIDE DEF mut, M
    <2>2. <<mut>> \in Seq(M)
      BY <2>1 DEF mut, M
    <2>3. PromotePlan(c) \in Seq(Mutation)
      BY <2>2 DEF PromotePlan, mut, M
    <2>4. QED
      BY <1>2, <2>3, SubmitType DEF Promote
  <1>3. ASSUME NEW p \in Proc, NEW S \in SUBSET Live, Merge(p, S)
        PROVE  ExecTypes'
    <2>1. PICK ids \in SetToSeqs(S) : Submit(p, MergePlan(ids))
      BY <1>3 DEF Merge
    <2>2. Live \subseteq Written
      BY DEF Live, Written
    <2>3. IsFiniteSet(S) /\ Cardinality(S) >= 2
      BY <1>3, <2>2, FS_Subset DEF Merge
    <2>4. MergePlan(ids) \in Seq(Mutation)
      BY <2>3, MergePlanType
    <2>5. QED
      BY <2>1, <2>4, SubmitType
  <1>4. ASSUME NEW p \in Proc, NEW m \in Written, Forget(p, m)
        PROVE  ExecTypes'
    <2>1. ArchiveMemory(m) \in Mutation
      BY DEF ArchiveMemory, Mutation, Written
    <2> DEFINE mut == ArchiveMemory(m)
               M == Mutation
    <2> HIDE DEF mut, M
    <2>2. <<mut>> \in Seq(M)
      BY <2>1 DEF mut, M
    <2>3. ForgetPlan(m) \in Seq(Mutation)
      BY <2>2 DEF ForgetPlan, mut, M
    <2>4. QED
      BY <1>4, <2>3, SubmitType DEF Forget
  <1>5. ASSUME NEW p \in Proc, NEW S \in SUBSET Written, NEW d \in Delta, Reinforce(p, S, d)
        PROVE  ExecTypes'
    BY <1>5, ReinforceType
  <1>6. ASSUME NEW p \in Proc, Check(p)
        PROVE  ExecTypes'
    BY <1>6, CheckType
  <1>7. ASSUME NEW p \in Proc, Execute(p)
        PROVE  ExecTypes'
    BY <1>7, ExecuteType
  <1>8. ASSUME NEW p \in Proc, Busy(p)
        PROVE  ExecTypes'
    <2>1. Tail(plan[p]) \in Seq(Mutation)
      BY <1>8, HeadOfPlan DEF Busy
    <2>2. QED
      BY <1>8, <2>1, RestType DEF Busy, Fault
  <1>9. ASSUME NEW p \in Proc, Crash(p)
        PROVE  ExecTypes'
    <2>1. <<>> \in Seq(Mutation)
      OBVIOUS
    <2>2. QED
      BY <1>9, <2>1, RestType DEF Crash, Fault
  <1>10. CASE UNCHANGED allVars
    BY <1>10 DEF allVars, execVars, ExecTypes
  <1>11. QED
    BY <1>1, <1>2, <1>3, <1>4, <1>5, <1>6, <1>7, <1>8, <1>9, <1>10 DEF ExecNext

-----------------------------------------------------------------------------
(* Where memories are archived.                                            *)

\* A memory is found archived at the places before, and at the end if the
\* last mutation archives it.
LEMMA ArchivedAtAppend ==
  ASSUME ExecTypes, NEW p \in Proc, NEW mut,
         executed' = [executed EXCEPT ![p] = Append(executed[p], mut)],
         NEW m \in MemoryId
  PROVE  ArchivedAt(m)' =
           ArchivedAt(m) \cup
             (IF mut = ArchiveMemory(m) THEN {<<p, Len(executed[p]) + 1>>} ELSE {})
  <1> DEFINE at(q) == {i \in DOMAIN executed[q] : executed[q][i] = ArchiveMemory(m)}
             next(q) == {i \in DOMAIN executed'[q] : executed'[q][i] = ArchiveMemory(m)}
             last == Len(executed[p]) + 1
  <1>1. executed[p] \in Seq(Mutation) /\ executed \in [Proc -> Seq(Mutation)]
    BY DEF ExecTypes
  <1>2. \A q \in Proc : q # p => next(q) = at(q)
    BY <1>1
  <1>3. next(p) = at(p) \cup (IF mut = ArchiveMemory(m) THEN {last} ELSE {})
    <2> DEFINE s == executed[p]
               t == Append(s, mut)
               a == ArchiveMemory(m)
    <2>1. executed'[p] = t
      BY <1>1
    <2>2. /\ Len(s) \in Nat /\ DOMAIN s = 1 .. Len(s)
          /\ DOMAIN t = 1 .. Len(s) + 1
          /\ t[Len(s) + 1] = mut
          /\ \A i \in 1 .. Len(s) : t[i] = s[i]
      <3> HIDE DEF s
      <3>1. s \in Seq(Mutation)
        BY <1>1 DEF s
      <3>2. QED
        BY <3>1
    <2> HIDE DEF s, t, a
    <2>3. {i \in DOMAIN t : t[i] = a} =
            {i \in DOMAIN s : s[i] = a} \cup (IF mut = a THEN {Len(s) + 1} ELSE {})
      BY <2>2
    <2>4. QED
      BY <2>1, <2>3 DEF s, a
  <1>4. ArchivedAt(m) = UNION {{q} \X at(q) : q \in Proc}
        /\ ArchivedAt(m)' = UNION {{q} \X next(q) : q \in Proc}
    BY DEF ArchivedAt
  <1> HIDE DEF at, next, last
  <1>5. QED
    BY <1>2, <1>3, <1>4 DEF last

\* Steps that execute nothing and archive nothing.
LEMMA OnePlaceKept ==
  ASSUME OnePlace, UNCHANGED executed,
         \A m \in MemoryId : status'[m] = "invalid" <=> status[m] = "invalid"
  PROVE  OnePlace'
  <1>1. \A m \in MemoryId : ArchivedAt(m)' = ArchivedAt(m)
    BY DEF ArchivedAt
  <1> HIDE DEF ArchivedAt
  <1>2. QED
    BY <1>1 DEF OnePlace

\* Which memories an operation makes invalid.
LEMMA OnlyInvalidateCloses ==
  ASSUME TypeOK, NEW mut \in Mutation, Perform(mut)
  PROVE  \A m \in MemoryId :
           status'[m] = "invalid" <=> status[m] = "invalid" \/ mut = ArchiveMemory(m)
  <1>1. CASE mut.op = "ArchiveMemory"
    <2>1. mut.id \in MemoryId /\ mut = ArchiveMemory(mut.id)
      BY <1>1 DEF Mutation, ArchiveMemory
    <2>2. Invalidate(mut.id)
      BY <1>1 DEF Perform
    <2>3. \A m \in MemoryId : mut = ArchiveMemory(m) <=> m = mut.id
      BY <2>1 DEF ArchiveMemory
    <2>4. QED
      BY <2>1, <2>2, <2>3 DEF Invalidate, TypeOK
  <1>2. CASE mut.op # "ArchiveMemory"
    <2>1. \A m \in MemoryId : mut # ArchiveMemory(m)
      BY <1>2 DEF ArchiveMemory
    <2>2. \A m \in MemoryId : status'[m] = "invalid" <=> status[m] = "invalid"
      <3>1. ASSUME NEW m \in MemoryId, NEW c, Write(m, c)
            PROVE  \A n \in MemoryId : status'[n] = "invalid" <=> status[n] = "invalid"
        BY <3>1 DEF Write, TypeOK
      <3>2. ASSUME NEW m, NEW c, UpdateContent(m, c)
            PROVE  status' = status
        BY <3>2 DEF UpdateContent
      <3>3. ASSUME NEW s, NEW t, NEW d, UpdateEdge(s, t, d)
            PROVE  status' = status
        BY <3>3 DEF UpdateEdge, memoryVars
      <3>4. QED
        BY <1>2, <3>1, <3>2, <3>3 DEF Perform
    <2>3. QED
      BY <2>1, <2>2
  <1>3. QED
    BY <1>1, <1>2

\* No step breaks the places: a memory that is archived was live, so it was
\* at no place before.
LEMMA OnePlaceStep ==
  ASSUME TypeOK, ExecTypes, OnePlace, [ExecNext]_allVars
  PROVE  OnePlace'
  <1>1. ASSUME NEW p \in Proc, Execute(p)
        PROVE  OnePlace'
    <2> DEFINE mut == Head(plan[p])
               last == <<p, Len(executed[p]) + 1>>
    <2>1. mut \in Mutation
      BY <1>1, HeadOfPlan DEF Execute
    <2>2. CASE UNCHANGED <<vars, executed>>
      BY <2>2, OnePlaceKept DEF vars, memoryVars
    <2>3. CASE Perform(mut) /\ executed' = [executed EXCEPT ![p] = Append(executed[p], mut)]
      <3> HIDE DEF mut
      <3>1. \A m \in MemoryId :
              status'[m] = "invalid" <=> status[m] = "invalid" \/ mut = ArchiveMemory(m)
        BY <2>1, <2>3, OnlyInvalidateCloses
      <3>2. \A m \in MemoryId :
              ArchivedAt(m)' = ArchivedAt(m) \cup (IF mut = ArchiveMemory(m) THEN {last} ELSE {})
        BY <2>3, ArchivedAtAppend
      <3>3. \A m \in MemoryId : mut = ArchiveMemory(m) => status[m] # "invalid"
        BY <2>3 DEF Perform, ArchiveMemory, Invalidate
      <3> HIDE DEF last
      <3>4. ASSUME NEW m \in MemoryId
            PROVE  /\ status'[m] # "invalid" => ArchivedAt(m)' = {}
                   /\ status'[m] = "invalid" => \E x : ArchivedAt(m)' = {x}
        <4>1. /\ status[m] # "invalid" => ArchivedAt(m) = {}
              /\ status[m] = "invalid" => \E x : ArchivedAt(m) = {x}
          BY DEF OnePlace
        <4>2. CASE mut = ArchiveMemory(m)
          <5>1. ArchivedAt(m)' = {last} /\ status'[m] = "invalid"
            BY <3>1, <3>2, <3>3, <4>1, <4>2
          <5>2. QED
            BY <5>1
        <4>3. CASE mut # ArchiveMemory(m)
          <5>1. ArchivedAt(m)' = ArchivedAt(m) /\ (status'[m] = "invalid" <=> status[m] = "invalid")
            BY <3>1, <3>2, <4>3
          <5>2. QED
            BY <4>1, <5>1
        <4>4. QED
          BY <4>2, <4>3
      <3>5. QED
        BY <3>4 DEF OnePlace
    <2>4. QED
      BY <1>1, <2>2, <2>3 DEF Execute
  <1>2. ASSUME NEW m \in MemoryId, NEW c \in Content, ClientWrite(m, c)
        PROVE  OnePlace'
    <2>1. UNCHANGED executed /\ Write(m, c)
      BY <1>2 DEF ClientWrite, execVars
    <2>2. \A n \in MemoryId : status'[n] = "invalid" <=> status[n] = "invalid"
      BY <2>1 DEF Write, TypeOK
    <2>3. QED
      BY <2>1, <2>2, OnePlaceKept
  <1>3. ASSUME UNCHANGED <<vars, executed>>
        PROVE  OnePlace'
    BY <1>3, OnePlaceKept DEF vars, memoryVars
  <1>4. ASSUME NEW p \in Proc, Check(p) \/ Busy(p) \/ Crash(p)
        PROVE  UNCHANGED <<vars, executed>>
    BY <1>4 DEF Check, Busy, Crash, Fault
  <1>5. ASSUME NEW p \in Proc, NEW mutations, Submit(p, mutations)
        PROVE  UNCHANGED <<vars, executed>>
    BY <1>5 DEF Submit
  <1>6. ASSUME NEW p \in Proc, NEW c \in Content, Promote(p, c)
        PROVE  UNCHANGED <<vars, executed>>
    BY <1>5, <1>6 DEF Promote
  <1>7. ASSUME NEW p \in Proc, NEW S \in SUBSET Live, Merge(p, S)
        PROVE  UNCHANGED <<vars, executed>>
    BY <1>5, <1>7 DEF Merge
  <1>8. ASSUME NEW p \in Proc, NEW m \in Written, Forget(p, m)
        PROVE  UNCHANGED <<vars, executed>>
    BY <1>5, <1>8 DEF Forget
  <1>9. ASSUME NEW p \in Proc, NEW S \in SUBSET Written, NEW d \in Delta, Reinforce(p, S, d)
        PROVE  UNCHANGED <<vars, executed>>
    BY <1>9 DEF Reinforce
  <1>10. ASSUME UNCHANGED allVars
        PROVE  UNCHANGED <<vars, executed>>
    BY <1>10 DEF allVars, execVars
  <1>11. QED
    BY <1>1, <1>2, <1>3, <1>4, <1>6, <1>7, <1>8, <1>9, <1>10 DEF ExecNext

-----------------------------------------------------------------------------
(* The theorems.                                                           *)

\* The invariant of the processes is inductive.
LEMMA ExecInvStep ==
  ASSUME ExecutorConstants, ExecInv, [ExecNext]_allVars
  PROVE  ExecInv'
  <1>1. [Next]_vars
    BY ExecStepIsStoreStep DEF ExecInv
  <1>2. TypeOK'
    BY <1>1, TypeOKStep DEF ExecInv
  <1>3. IsFiniteSet(Written')
    BY <1>1, WrittenGrows DEF ExecInv
  <1>4. ExecTypes'
    BY ExecTypesStep DEF ExecInv
  <1>5. OnePlace'
    BY OnePlaceStep DEF ExecInv
  <1>6. QED
    BY <1>2, <1>3, <1>4, <1>5 DEF ExecInv, Written

\* It holds at the start: nothing is written, planned or executed.
LEMMA ExecInvInit ==
  ASSUME ExecInit
  PROVE  ExecInv
  <1>1. TypeOK
    BY StoreConstants DEF ExecInit, Init, TypeOK, Status, Event, Written
  <1>2. IsFiniteSet(Written)
    <2>1. Written = {}
      BY DEF ExecInit, Init, Written
    <2>2. QED
      BY <2>1, FS_EmptySet
  <1>3. ExecTypes
    <2>1. <<>> \in Seq(Mutation) /\ <<>> \in Seq(MemoryId)
      OBVIOUS
    <2>2. [ids |-> <<>>, delta |-> 0] \in EventOf(MemoryId, Int)
      BY <2>1 DEF EventOf
    <2>3. QED
      BY <2>1, <2>2 DEF ExecInit, ExecTypes
  <1>4. OnePlace
    <2>1. \A m \in MemoryId : status[m] # "invalid"
      BY DEF ExecInit, Init
    <2>2. \A p \in Proc : executed[p] = <<>>
      BY DEF ExecInit
    <2>3. \A m \in MemoryId : ArchivedAt(m) = {}
      BY <2>2 DEF ArchivedAt
    <2>4. QED
      BY <2>1, <2>3 DEF OnePlace
  <1>5. QED
    BY <1>1, <1>2, <1>3, <1>4 DEF ExecInv

\* The processes implement the store: whatever plans they make, execute, skip
\* or lose, and however they interleave, the database goes through states of
\* the store's specification, so every theorem about the store holds of them.
THEOREM ExecutorImplementsStore == ExecSpec => Spec
  <1>1. ExecInit => Init /\ ExecInv
    BY ExecInvInit DEF ExecInit
  <1>2. ExecInv /\ [ExecNext]_allVars => ExecInv'
    BY ExecInvStep, ExecutorConstants
  <1>3. ExecInv /\ [ExecNext]_allVars => [Next]_vars
    BY ExecStepIsStoreStep DEF ExecInv
  <1>4. QED
    BY <1>1, <1>2, <1>3, PTL DEF ExecSpec, Spec

\* Each invalid memory was archived by one executed mutation and by no other,
\* of any process, also when two processes decide to archive the same one.
THEOREM ExecutorArchivedOnce == ExecSpec => []ArchivedOnce
  <1>1. ExecInit => ExecInv
    BY ExecInvInit
  <1>2. ExecInv /\ [ExecNext]_allVars => ExecInv'
    BY ExecInvStep, ExecutorConstants
  <1>3. ExecInv => ArchivedOnce
    <2> SUFFICES ASSUME ExecInv, NEW m \in MemoryId
                 PROVE  Cardinality(ArchivedAt(m)) = IF status[m] = "invalid" THEN 1 ELSE 0
      BY DEF ArchivedOnce, ArchivedAt
    <2>1. /\ status[m] # "invalid" => ArchivedAt(m) = {}
          /\ status[m] = "invalid" => \E x : ArchivedAt(m) = {x}
      BY DEF ExecInv, OnePlace
    <2>2. CASE status[m] # "invalid"
      BY <2>1, <2>2, FS_EmptySet
    <2>3. CASE status[m] = "invalid"
      BY <2>1, <2>3, FS_Singleton
    <2>4. QED
      BY <2>2, <2>3
  <1>4. QED
    BY <1>1, <1>2, <1>3, PTL DEF ExecSpec

-----------------------------------------------------------------------------
(* What plans owe to an edge.                                              *)

\* The mutation updates the edge from s to t.
Updates(mut, s, t) == mut.op = "UpdateEdge" /\ mut.source = s /\ mut.target = t

\* What it adds to the weight of that edge.
Adds(mut, s, t) == IF Updates(mut, s, t) THEN mut.delta ELSE 0

\* The plans g are those of f but for the first mutation of p, or but for the
\* plan that p gets, which updates the edge once, at k.
Drops(f, g, p) == f[p] # <<>> /\ g = [f EXCEPT ![p] = Tail(f[p])]
Gets(f, g, p, mutations, k, s, t) ==
  /\ f[p] = <<>> /\ g = [f EXCEPT ![p] = mutations]
  /\ k \in DOMAIN mutations /\ Updates(mutations[k], s, t)
  /\ \A i \in DOMAIN mutations : Updates(mutations[i], s, t) => i = k

\* Due and Owed, of the plans that f gives the processes.
DueIn(f, s, t) == UNION {{p} \X {i \in DOMAIN f[p] : Updates(f[p][i], s, t)} : p \in Proc}
OwedIn(f, s, t) == SumFunction([x \in DueIn(f, s, t) |-> f[x[1]][x[2]].delta])

\* D are the places where f updates the edge from s to t, with a delta each.
Places(D, f, s, t) ==
  /\ IsFiniteSet(D)
  /\ \A p, i : <<p, i>> \in D <=> p \in Proc /\ i \in DOMAIN f[p] /\ Updates(f[p][i], s, t)
  /\ \A x \in D : /\ x = <<x[1], x[2]>>
                  /\ x[1] \in Proc /\ x[2] \in DOMAIN f[x[1]] /\ x[2] \in Nat
                  /\ f[x[1]][x[2]].delta \in Int

\* What is due are such places.
LEMMA DueFacts ==
  ASSUME IsFiniteSet(Proc), Delta \subseteq Int, NEW f \in [Proc -> Seq(Mutation)], NEW s, NEW t
  PROVE  Places(DueIn(f, s, t), f, s, t)
  <1> DEFINE at(p) == {i \in DOMAIN f[p] : Updates(f[p][i], s, t)}
             sets == {{p} \X at(p) : p \in Proc}
  <1>1. \A p \in Proc : f[p] \in Seq(Mutation) /\ Len(f[p]) \in Nat /\ DOMAIN f[p] = 1 .. Len(f[p])
    <2> TAKE p \in Proc
    <2>1. f[p] \in Seq(Mutation)
      OBVIOUS
    <2> DEFINE g == f[p]
    <2> HIDE DEF g
    <2>2. g \in Seq(Mutation) => Len(g) \in Nat /\ DOMAIN g = 1 .. Len(g)
      BY LenProperties
    <2>3. QED
      BY <2>1, <2>2 DEF g
  <1>2. \A p \in Proc : IsFiniteSet({p} \X at(p))
    <2> TAKE p \in Proc
    <2>1. IsFiniteSet(1 .. Len(f[p]))
      BY <1>1, FS_Interval
    <2>2. at(p) \in SUBSET (1 .. Len(f[p]))
      BY <1>1
    <2>3. IsFiniteSet(at(p))
      BY <2>1, <2>2, FS_Subset
    <2>4. IsFiniteSet({p})
      BY FS_Singleton
    <2>5. QED
      BY <2>3, <2>4, FS_Product
  <1>3. IsFiniteSet(sets)
    <2> DEFINE h == [p \in Proc |-> {p} \X at(p)]
    <2>1. /\ h \in [Proc -> sets]
          /\ \A T \in sets : \E p \in Proc : h[p] = T
      OBVIOUS
    <2> HIDE DEF h, sets
    <2>2. h \in Surjection(Proc, sets)
      BY <2>1 DEF Surjection
    <2>3. QED
      BY <2>2, FS_Surjection
  <1>4. IsFiniteSet(UNION sets)
    <2>1. \A T \in sets : IsFiniteSet(T)
      BY <1>2
    <2> HIDE DEF sets
    <2>2. QED
      BY <1>3, <2>1, FS_UNION
  <1>5. DueIn(f, s, t) = UNION sets
    BY DEF DueIn
  <1>6. \A p, i : <<p, i>> \in DueIn(f, s, t) <=> p \in Proc /\ i \in at(p)
    BY <1>5
  <1>7. \A x \in DueIn(f, s, t) : x = <<x[1], x[2]>> /\ x[1] \in Proc /\ x[2] \in at(x[1])
    BY <1>5
  <1>8. \A p \in Proc : \A i \in at(p) : f[p][i].delta \in Int /\ i \in Nat
    <2> TAKE p \in Proc
    <2> TAKE i \in at(p)
    <2>1. f[p][i] \in Mutation /\ i \in Nat
      BY <1>1
    <2>2. f[p][i].op = "UpdateEdge"
      BY DEF Updates
    <2>3. f[p][i].delta \in Delta
      BY <2>1, <2>2 DEF Mutation
    <2>4. QED
      BY <2>1, <2>3
  <1> HIDE DEF sets
  <1>9. IsFiniteSet(DueIn(f, s, t))
    BY <1>4, <1>5
  <1>10. QED
    BY <1>6, <1>7, <1>8, <1>9 DEF Places

\* What is owed is the sum of these deltas.
LEMMA OwedIsSum ==
  ASSUME IsFiniteSet(Proc), Delta \subseteq Int, NEW f \in [Proc -> Seq(Mutation)], NEW s, NEW t
  PROVE  /\ OwedIn(f, s, t) =
              SumFunctionOnSet([x \in DueIn(f, s, t) |-> f[x[1]][x[2]].delta], DueIn(f, s, t))
         /\ OwedIn(f, s, t) \in Int
         /\ DueIn(f, s, t) = {} => OwedIn(f, s, t) = 0
  <1> DEFINE D == DueIn(f, s, t)
             d == [x \in D |-> f[x[1]][x[2]].delta]
  <1>1. OwedIn(f, s, t) = SumFunctionOnSet(d, D)
    <2>1. DOMAIN d = D
      OBVIOUS
    <2>2. OwedIn(f, s, t) = SumFunction(d)
      BY DEF OwedIn
    <2> HIDE DEF d, D
    <2>3. QED
      BY <2>1, <2>2 DEF SumFunction
  <1>2. IsFiniteSet(D) /\ \A x \in D : d[x] \in Int
    BY DueFacts DEF Places
  <1> HIDE DEF d, D
  <1>3. SumFunctionOnSet(d, D) \in Int /\ SumFunctionOnSet(d, {}) = 0
    BY <1>2, SumFromAny
  <1>4. QED
    BY <1>1, <1>3 DEF d, D

\* Two sets of plans owe the same when they differ in places that do not
\* update the edge.
LEMMA OwedSame ==
  ASSUME IsFiniteSet(Proc), Delta \subseteq Int, NEW s, NEW t,
         NEW f \in [Proc -> Seq(Mutation)], NEW g \in [Proc -> Seq(Mutation)],
         \A p \in Proc : \/ f[p] = g[p]
                         \/ /\ \A i \in DOMAIN f[p] : ~Updates(f[p][i], s, t)
                            /\ \A i \in DOMAIN g[p] : ~Updates(g[p][i], s, t)
  PROVE  OwedIn(f, s, t) = OwedIn(g, s, t)
  <1> DEFINE D == DueIn(f, s, t)
             d(h) == [x \in D |-> h[x[1]][x[2]].delta]
  <1>1. DueIn(g, s, t) = D
    <2>1. \A p \in Proc : {i \in DOMAIN f[p] : Updates(f[p][i], s, t)}
                            = {i \in DOMAIN g[p] : Updates(g[p][i], s, t)}
      OBVIOUS
    <2>2. QED
      BY <2>1 DEF DueIn
  <1>2. \A x \in D : f[x[1]] = g[x[1]]
    <2> TAKE x \in D
    <2>1. x[1] \in Proc /\ x[2] \in DOMAIN f[x[1]] /\ Updates(f[x[1]][x[2]], s, t)
      <3>1. Places(D, f, s, t)
        BY DueFacts
      <3> HIDE DEF D
      <3>2. x = <<x[1], x[2]>>
        BY <3>1 DEF Places
      <3>3. QED
        BY <3>1, <3>2 DEF Places
    <2>2. QED
      BY <2>1
  <1>3. d(f) = d(g)
    BY <1>2
  <1>4. OwedIn(f, s, t) = SumFunction(d(f)) /\ OwedIn(g, s, t) = SumFunction(d(g))
    BY <1>1 DEF OwedIn
  <1>5. QED
    BY <1>3, <1>4

\* A process that drops the first mutation of its plan owes the others.
LEMMA OwedTail ==
  ASSUME IsFiniteSet(Proc), Delta \subseteq Int, NEW s, NEW t, NEW p \in Proc,
         NEW f \in [Proc -> Seq(Mutation)], NEW g, Drops(f, g, p)
  PROVE  /\ OwedIn(f, s, t) = Adds(Head(f[p]), s, t) + OwedIn(g, s, t)
         /\ Adds(Head(f[p]), s, t) \in Int
         /\ g \in [Proc -> Seq(Mutation)]
  <1> USE DEF Drops
  <1> DEFINE D == DueIn(f, s, t)
             G == DueIn(g, s, t)
             d == [x \in D |-> f[x[1]][x[2]].delta]
             e == [x \in G |-> g[x[1]][x[2]].delta]
             first == <<p, 1>>
             rest == D \ {first}
             m == [x \in rest |-> IF x[1] = p THEN <<p, x[2] - 1>> ELSE x]
  <1>1. /\ f[p] \in Seq(Mutation) /\ Len(f[p]) \in Nat /\ Len(f[p]) >= 1
        /\ DOMAIN f[p] = 1 .. Len(f[p])
        /\ Head(f[p]) = f[p][1]
        /\ g[p] \in Seq(Mutation) /\ DOMAIN g[p] = 1 .. Len(f[p]) - 1
        /\ \A i \in 1 .. Len(f[p]) - 1 : g[p][i] = f[p][i + 1]
    <2> DEFINE a == f[p]
               M == Mutation
    <2>1. a \in Seq(M) /\ a # <<>> /\ g[p] = Tail(a)
      OBVIOUS
    <2> HIDE DEF a, M
    <2>2. /\ Len(a) \in Nat /\ Len(a) >= 1 /\ DOMAIN a = 1 .. Len(a) /\ Head(a) = a[1]
          /\ Tail(a) \in Seq(M) /\ DOMAIN Tail(a) = 1 .. Len(a) - 1
          /\ \A i \in 1 .. Len(a) - 1 : Tail(a)[i] = a[i + 1]
      <3>1. Len(a) \in Nat /\ DOMAIN a = 1 .. Len(a) /\ (Len(a) = 0 => a = <<>>)
        BY <2>1, LenProperties, EmptySeq
      <3>2. Len(a) >= 1
        BY <2>1, <3>1
      <3>3. /\ Head(a) = a[1] /\ Tail(a) \in Seq(M) /\ Len(Tail(a)) = Len(a) - 1
            /\ \A i \in 1 .. Len(Tail(a)) : Tail(a)[i] = a[i + 1]
        BY <2>1, HeadTailProperties
      <3>4. DOMAIN Tail(a) = 1 .. Len(Tail(a))
        BY <3>3, LenProperties
      <3>5. QED
        BY <3>1, <3>2, <3>3, <3>4
    <2>3. QED
      BY <2>1, <2>2 DEF a, M
  <1>2. g \in [Proc -> Seq(Mutation)] /\ \A q \in Proc : q # p => g[q] = f[q]
    <2> DEFINE M == Seq(Mutation)
    <2>1. f \in [Proc -> M] /\ Tail(f[p]) \in M
      BY <1>1
    <2> HIDE DEF M
    <2>2. QED
      BY <2>1 DEF M
  <1>3. /\ IsFiniteSet(D) /\ IsFiniteSet(G)
        /\ \A q, i : <<q, i>> \in D <=> q \in Proc /\ i \in DOMAIN f[q] /\ Updates(f[q][i], s, t)
        /\ \A q, i : <<q, i>> \in G <=> q \in Proc /\ i \in DOMAIN g[q] /\ Updates(g[q][i], s, t)
        /\ \A x \in D : /\ x = <<x[1], x[2]>> /\ x[1] \in Proc /\ x[2] \in DOMAIN f[x[1]]
                        /\ x[2] \in Nat /\ f[x[1]][x[2]].delta \in Int
        /\ \A x \in G : /\ x = <<x[1], x[2]>> /\ x[1] \in Proc /\ x[2] \in DOMAIN g[x[1]]
                        /\ x[2] \in Nat
    <2>1. Places(D, f, s, t) /\ Places(G, g, s, t)
      BY <1>2, DueFacts
    <2> HIDE DEF D, G
    <2>2. QED
      BY <2>1 DEF Places
  <1>4. /\ OwedIn(f, s, t) = SumFunctionOnSet(d, D) /\ OwedIn(g, s, t) = SumFunctionOnSet(e, G)
        /\ OwedIn(f, s, t) \in Int /\ OwedIn(g, s, t) \in Int
    BY <1>2, OwedIsSum
  <1> HIDE DEF D, G
  <1>5. IsFiniteSet(rest) /\ \A x \in rest : d[x] \in Int
    BY <1>3, FS_Subset
  <1>6. ASSUME NEW x \in rest
        PROVE  m[x] \in G /\ e[m[x]] = d[x]
    <2>1. CASE x[1] = p
      <3>1. x = <<p, x[2]>> /\ x[2] \in DOMAIN f[p] /\ Updates(f[p][x[2]], s, t) /\ x[2] # 1
        BY <1>3, <2>1
      <3>2. x[2] \in Nat /\ x[2] - 1 \in 1 .. Len(f[p]) - 1 /\ (x[2] - 1) + 1 = x[2]
        BY <1>1, <3>1
      <3>3. g[p][x[2] - 1] = f[p][x[2]]
        BY <1>1, <3>2
      <3>4. <<p, x[2] - 1>> \in G
        BY <1>1, <1>3, <3>1, <3>2, <3>3
      <3>5. m[x] = <<p, x[2] - 1>>
        BY <2>1
      <3>6. e[<<p, x[2] - 1>>] = g[p][x[2] - 1].delta
        BY <3>4
      <3>7. QED
        BY <2>1, <3>3, <3>4, <3>5, <3>6
    <2>2. CASE x[1] # p
      <3>1. x = <<x[1], x[2]>> /\ x[1] \in Proc /\ g[x[1]] = f[x[1]]
        BY <1>2, <1>3, <2>2
      <3>2. x \in G
        BY <1>3, <3>1
      <3>3. QED
        BY <2>2, <3>1, <3>2
    <2>3. QED
      BY <2>1, <2>2
  <1>7. ASSUME NEW x \in rest, NEW y \in rest, m[x] = m[y]
        PROVE  x = y
    <2>1. /\ x = <<x[1], x[2]>> /\ x[2] \in Nat
          /\ y = <<y[1], y[2]>> /\ y[2] \in Nat
      BY <1>3
    <2>2. m[x][1] = x[1] /\ m[y][1] = y[1]
      BY <2>1
    <2>3. x[1] = y[1]
      BY <1>7, <2>2
    <2>4. m[x][2] = (IF x[1] = p THEN x[2] - 1 ELSE x[2])
          /\ m[y][2] = (IF y[1] = p THEN y[2] - 1 ELSE y[2])
      BY <2>1
    <2>5. m[x][2] = m[y][2]
      BY <1>7
    <2> HIDE DEF m
    <2>6. x[2] = y[2]
      BY <2>1, <2>3, <2>4, <2>5
    <2>7. QED
      BY <2>1, <2>3, <2>6
  <1>8. ASSUME NEW z \in G
        PROVE  \E x \in rest : m[x] = z
    <2>1. z = <<z[1], z[2]>> /\ z[1] \in Proc /\ z[2] \in DOMAIN g[z[1]] /\ z[2] \in Nat
          /\ Updates(g[z[1]][z[2]], s, t)
      BY <1>3
    <2>2. CASE z[1] = p
      <3>1. z[2] \in 1 .. Len(f[p]) - 1
        BY <1>1, <2>1, <2>2
      <3>2. z[2] + 1 \in DOMAIN f[p] /\ g[p][z[2]] = f[p][z[2] + 1] /\ z[2] + 1 # 1
            /\ (z[2] + 1) - 1 = z[2]
        BY <1>1, <3>1
      <3>3. <<p, z[2] + 1>> \in D
        BY <1>3, <2>1, <2>2, <3>2
      <3>4. <<p, z[2] + 1>> \in rest
        BY <3>2, <3>3
      <3>5. m[<<p, z[2] + 1>>] = <<p, z[2]>>
        BY <3>2, <3>4
      <3>6. QED
        BY <2>1, <2>2, <3>4, <3>5
    <2>3. CASE z[1] # p
      <3>1. g[z[1]] = f[z[1]]
        BY <1>2, <2>1, <2>3
      <3>2. z \in rest
        BY <1>3, <2>1, <2>3, <3>1
      <3>3. m[z] = z
        BY <2>3, <3>2
      <3>4. QED
        BY <3>2, <3>3
    <2>4. QED
      BY <2>2, <2>3
  <1> HIDE DEF d, e, m, rest
  <1>9. SumFunctionOnSet(d, rest) = SumFunctionOnSet(e, G)
    <2>1. IsFiniteSet(G) /\ IsFiniteSet(rest)
      BY <1>3, <1>5
    <2>2. \A x \in rest : d[x] \in Int /\ m[x] \in G /\ e[m[x]] = d[x]
      BY <1>5, <1>6
    <2>3. \A x, y \in rest : m[x] = m[y] => x = y
      BY <1>7
    <2>4. \A z \in G : \E x \in rest : m[x] = z
      BY <1>8
    <2>5. SumMoves(m, rest, d, G, e)
      BY <2>2, <2>3, <2>4 DEF SumMoves
    <2>6. QED
      BY <2>1, <2>5, SumMoved
  <1>10. ASSUME Updates(Head(f[p]), s, t)
         PROVE  OwedIn(f, s, t) = Adds(Head(f[p]), s, t) + OwedIn(g, s, t)
    <2>1. first \in D
      BY <1>1, <1>3, <1>10
    <2>2. \A x \in D : d[x] \in Int
      BY <1>3 DEF d
    <2>3. SumFunctionOnSet(d, D) = d[first] + SumFunctionOnSet(d, D \ {first})
      <3> HIDE DEF first
      <3>1. QED
        BY <1>3, <2>1, <2>2, SumFromAny
    <2>4. d[first] = Head(f[p]).delta
      BY <1>1, <2>1 DEF d
    <2>5. SumFunctionOnSet(d, D \ {first}) = SumFunctionOnSet(e, G)
      BY <1>9 DEF rest
    <2> HIDE DEF first
    <2>6. QED
      BY <1>4, <1>10, <2>3, <2>4, <2>5 DEF Adds
  <1>11. ASSUME ~Updates(Head(f[p]), s, t)
         PROVE  OwedIn(f, s, t) = Adds(Head(f[p]), s, t) + OwedIn(g, s, t)
    <2>1. first \notin D
      BY <1>1, <1>3, <1>11
    <2>2. rest = D
      BY <2>1 DEF rest
    <2>3. QED
      BY <1>4, <1>9, <1>11, <2>2 DEF Adds
  <1>12. Adds(Head(f[p]), s, t) \in Int
    <2>1. ASSUME Updates(Head(f[p]), s, t) PROVE Head(f[p]).delta \in Int
      <3>1. first \in D
        BY <1>1, <1>3, <2>1
      <3>2. QED
        BY <1>1, <1>3, <3>1
    <2>2. QED
      BY <2>1 DEF Adds
  <1>13. QED
    BY <1>2, <1>10, <1>11, <1>12

\* A process that had no plan and gets one owes what the plan has for the
\* edge, if it updates it once.
LEMMA OwedPlan ==
  ASSUME IsFiniteSet(Proc), Delta \subseteq Int, NEW s, NEW t, NEW p \in Proc,
         NEW f \in [Proc -> Seq(Mutation)], NEW mutations \in Seq(Mutation), NEW g,
         NEW k, Gets(f, g, p, mutations, k, s, t)
  PROVE  OwedIn(g, s, t) = mutations[k].delta + OwedIn(f, s, t)
  <1> USE DEF Gets
  <1> DEFINE D == DueIn(f, s, t)
             G == DueIn(g, s, t)
             d == [x \in D |-> f[x[1]][x[2]].delta]
             e == [x \in G |-> g[x[1]][x[2]].delta]
             new == <<p, k>>
  <1>1. g \in [Proc -> Seq(Mutation)] /\ g[p] = mutations /\ \A q \in Proc : q # p => g[q] = f[q]
    <2> DEFINE M == Seq(Mutation)
    <2>1. f \in [Proc -> M] /\ mutations \in M
      OBVIOUS
    <2> HIDE DEF M
    <2>2. QED
      BY <2>1 DEF M
  <1>2. /\ IsFiniteSet(D) /\ IsFiniteSet(G)
        /\ \A q, i : <<q, i>> \in D <=> q \in Proc /\ i \in DOMAIN f[q] /\ Updates(f[q][i], s, t)
        /\ \A q, i : <<q, i>> \in G <=> q \in Proc /\ i \in DOMAIN g[q] /\ Updates(g[q][i], s, t)
        /\ \A x \in D : x = <<x[1], x[2]>> /\ x[1] \in Proc
        /\ \A x \in G : /\ x = <<x[1], x[2]>> /\ x[1] \in Proc
                        /\ g[x[1]][x[2]].delta \in Int
    <2>1. Places(D, f, s, t) /\ Places(G, g, s, t)
      BY <1>1, DueFacts
    <2> HIDE DEF D, G
    <2>2. QED
      BY <2>1 DEF Places
  <1>3. /\ OwedIn(f, s, t) = SumFunctionOnSet(d, D) /\ OwedIn(g, s, t) = SumFunctionOnSet(e, G)
        /\ OwedIn(f, s, t) \in Int /\ OwedIn(g, s, t) \in Int
    BY <1>1, OwedIsSum
  <1> HIDE DEF D, G
  <1>4. new \in G
    BY <1>1, <1>2
  <1>5. \A x \in D : x[1] # p
    <2> TAKE x \in D
    <2> SUFFICES ASSUME x[1] = p PROVE FALSE
      OBVIOUS
    <2>1. x[2] \in DOMAIN <<>>
      BY <1>2
    <2>2. QED
      BY <2>1
  <1>6. G \ {new} = D
    <2>1. ASSUME NEW x \in D PROVE x \in G \ {new}
      <3>1. x = <<x[1], x[2]>> /\ x[1] \in Proc /\ x[1] # p /\ g[x[1]] = f[x[1]]
        BY <1>1, <1>2, <1>5
      <3>2. QED
        BY <1>2, <3>1
    <2>2. ASSUME NEW x \in G \ {new} PROVE x \in D
      <3>1. x = <<x[1], x[2]>> /\ x[1] \in Proc /\ x[2] \in DOMAIN g[x[1]]
            /\ Updates(g[x[1]][x[2]], s, t)
        BY <1>2
      <3>2. CASE x[1] = p
        <4>1. x[2] = k
          BY <1>1, <3>1, <3>2
        <4>2. QED
          BY <3>1, <3>2, <4>1
      <3>3. CASE x[1] # p
        BY <1>1, <1>2, <3>1, <3>3
      <3>4. QED
        BY <3>2, <3>3
    <2>3. QED
      BY <2>1, <2>2
  <1>7. \A x \in D : d[x] = e[x]
    BY <1>1, <1>2, <1>5, <1>6
  <1>8. e[new] = mutations[k].delta /\ \A x \in G : e[x] \in Int
    BY <1>1, <1>2, <1>4
  <1> HIDE DEF d, e, new
  <1>9. SumFunctionOnSet(e, G) = e[new] + SumFunctionOnSet(e, G \ {new})
    <2>1. IsFiniteSet(G) /\ new \in G
      BY <1>2, <1>4
    <2>2. \A x \in G : e[x] \in Int
      BY <1>8
    <2>3. QED
      BY <2>1, <2>2, SumFromAny
  <1>10. SumFunctionOnSet(d, D) = SumFunctionOnSet(e, D)
    BY <1>2, <1>7, SumOfEqual
  <1>11. QED
    BY <1>3, <1>6, <1>8, <1>9, <1>10

-----------------------------------------------------------------------------
(* Association is mutual.                                                  *)

\* max_edges cuts off no plan of a reinforce call.
CallsFit ==
  \A event \in EventOf(MemoryId, Delta) :
    IsInjective(event.ids) => Len(EdgePlans(<<event>>, MaxEdges)) < MaxEdges

\* The processes plan edges of written memories only, and a process that
\* still checks has no plan.
OverWritten ==
  /\ \A p \in Proc : \A i \in DOMAIN plan[p] :
       plan[p][i].op = "UpdateEdge" =>
         plan[p][i].source \in Written /\ plan[p][i].target \in Written
  /\ \A p \in Proc : checking[p] # <<>> =>
       plan[p] = <<>> /\ Range(target[p].ids) \subseteq Written

\* An edge of a memory that is not written has no weight.
NoWeightBefore ==
  \A s, t \in MemoryId : s \notin Written \/ t \notin Written => weight[<<s, t>>] = 0

\* The weight an edge will have, and that it is that of its reverse.
Balance(s, t) == weight[<<s, t>>] + OwedIn(plan, s, t)

Balanced == \A s, t \in Live : {s, t} \notin torn => Balance(s, t) = Balance(t, s)

MutualInv == ExecInv /\ OverWritten /\ NoWeightBefore /\ Balanced

\* A memory stays written, and one that was written and is live was live.
LEMMA WrittenStays ==
  ASSUME TypeOK, [Next]_vars
  PROVE  Written \subseteq Written' /\ Live' \cap Written \subseteq Live
  <1>1. ASSUME NEW m \in MemoryId, NEW c \in Content, Write(m, c)
        PROVE  Written \subseteq Written' /\ Live' \cap Written \subseteq Live
    BY <1>1 DEF Write, Written, Live, TypeOK
  <1>2. ASSUME NEW m \in MemoryId, Invalidate(m)
        PROVE  Written \subseteq Written' /\ Live' \cap Written \subseteq Live
    BY <1>2 DEF Invalidate, Written, Live, TypeOK
  <1>3. ASSUME status' = status
        PROVE  Written \subseteq Written' /\ Live' \cap Written \subseteq Live
    BY <1>3 DEF Written, Live
  <1>4. QED
    BY <1>1, <1>2, <1>3
    DEF Next, UpdateContent, UpdateEdge, PutEmbedding, RecordAccess, vars, memoryVars

\* No step of the store gives weight to an edge of a memory that is not written.
LEMMA NoWeightStep ==
  ASSUME TypeOK, NoWeightBefore, [Next]_vars
  PROVE  NoWeightBefore'
  <1>1. Written \subseteq Written'
    BY WrittenStays
  <1>2. ASSUME NEW s \in MemoryId, NEW t \in MemoryId, NEW d \in Delta, UpdateEdge(s, t, d)
        PROVE  NoWeightBefore'
    <2>1. \A a, b \in MemoryId : <<a, b>> # <<s, t>> => weight'[<<a, b>>] = weight[<<a, b>>]
      BY <1>2 DEF UpdateEdge, TypeOK
    <2>2. s \in Written /\ t \in Written
      BY <1>2 DEF UpdateEdge, Live, Written
    <2>3. QED
      BY <1>1, <2>1, <2>2 DEF NoWeightBefore
  <1>3. ASSUME weight' = weight
        PROVE  NoWeightBefore'
    BY <1>1, <1>3 DEF NoWeightBefore
  <1>4. QED
    BY <1>2, <1>3
    DEF Next, Write, UpdateContent, Invalidate, PutEmbedding, RecordAccess, vars, edgeVars

\* What the plan of a reinforce call updates: edges between the memories of
\* the call, each once, and with its reverse.
LEMMA ReinforcePlanEdges ==
  ASSUME ExecutorConstants, NEW event \in EventOf(MemoryId, Delta), IsInjective(event.ids)
  PROVE  LET mutations == ReinforcePlan(event) IN
           /\ \A k \in DOMAIN mutations :
                mutations[k].source \in Range(event.ids) /\ mutations[k].target \in Range(event.ids)
           /\ \A s, t : \A j, k \in DOMAIN mutations :
                Updates(mutations[j], s, t) /\ Updates(mutations[k], s, t) => j = k
           /\ CallsFit => \A s, t : \A j \in DOMAIN mutations : Updates(mutations[j], s, t) =>
                \E k \in DOMAIN mutations :
                  Updates(mutations[k], t, s) /\ mutations[k].delta = mutations[j].delta
  <1> DEFINE T == EventOf(MemoryId, Delta)
             list == <<event>>
             plans == EdgePlans(list, MaxEdges)
             mutations == ReinforcePlan(event)
  <1>1. list \in Seq(T) /\ \A k \in DOMAIN list : list[k] = event
    <2> HIDE DEF T
    <2>1. event \in T
      BY DEF T
    <2>2. QED
      BY <2>1
  <1>2. MaxEdges \in Nat
    BY DEF ExecutorConstants
  <1>3. mutations = [k \in DOMAIN plans |->
                       EdgeMutation(plans[k].source, plans[k].target, plans[k].delta)]
    BY DEF ReinforcePlan
  <1>4. CallsFit => Len(plans) < MaxEdges
    BY DEF CallsFit
  <1> HIDE DEF list, mutations
  <1>5. /\ plans \in Seq(EdgePlan(MemoryId, Delta))
        /\ \A i, j \in DOMAIN plans : SameEdge(plans[i], plans[j]) => i = j
        /\ \A e \in Range(plans) : \E k \in DOMAIN list : GivenBy(e, list[k])
        /\ Len(plans) < MaxEdges => \A e \in Range(plans) : Reversed(e) \in Range(plans)
    BY <1>1, <1>2, EdgePlansOnceEachWay
  <1> HIDE DEF plans
  <1>6. /\ DOMAIN mutations = DOMAIN plans
        /\ \A k \in DOMAIN plans :
             /\ mutations[k].source = plans[k].source /\ mutations[k].target = plans[k].target
             /\ mutations[k].delta = plans[k].delta /\ mutations[k].op = "UpdateEdge"
    BY <1>3 DEF EdgeMutation
  <1>7. \A k \in DOMAIN plans : plans[k].source \in Range(event.ids) /\ plans[k].target \in Range(event.ids)
    <2> TAKE k \in DOMAIN plans
    <2>1. GivenBy(plans[k], event)
      BY <1>1, <1>5 DEF Range
    <2>2. QED
      BY <2>1 DEF GivenBy, Range
  <1>8. \A s, t : \A k \in DOMAIN plans :
          Updates(mutations[k], s, t) <=> plans[k].source = s /\ plans[k].target = t
    BY <1>6 DEF Updates
  <1>9. \A s, t : \A j, k \in DOMAIN plans :
          Updates(mutations[j], s, t) /\ Updates(mutations[k], s, t) => j = k
    BY <1>5, <1>8 DEF SameEdge
  <1>10. ASSUME CallsFit, NEW s, NEW t, NEW j \in DOMAIN plans, Updates(mutations[j], s, t)
         PROVE  \E k \in DOMAIN plans :
                  Updates(mutations[k], t, s) /\ mutations[k].delta = mutations[j].delta
    <2>1. Reversed(plans[j]) \in Range(plans)
      BY <1>4, <1>5, <1>10 DEF Range
    <2>2. PICK k \in DOMAIN plans : plans[k] = Reversed(plans[j])
      BY <2>1 DEF Range
    <2>3. plans[k].source = t /\ plans[k].target = s /\ plans[k].delta = plans[j].delta
      BY <1>8, <1>10, <2>2 DEF Reversed
    <2>4. QED
      BY <1>6, <1>8, <2>3
  <1>11. QED
    BY <1>6, <1>7, <1>9, <1>10 DEF mutations

\* The other plans update no edge.
LEMMA OtherPlansNoEdges ==
  ASSUME NEW mutations, NEW p \in Proc,
         \/ \E c \in Content : mutations = PromotePlan(c)
         \/ \E S : \E ids \in SetToSeqs(S) : ids \in Seq(S) /\ mutations = MergePlan(ids)
         \/ \E m \in MemoryId : mutations = ForgetPlan(m)
  PROVE  \A i \in DOMAIN mutations : mutations[i].op # "UpdateEdge"
  <1>1. ASSUME NEW c \in Content, mutations = PromotePlan(c)
        PROVE  \A i \in DOMAIN mutations : mutations[i].op # "UpdateEdge"
    BY <1>1 DEF PromotePlan, InsertMemory
  <1>2. ASSUME NEW m \in MemoryId, mutations = ForgetPlan(m)
        PROVE  \A i \in DOMAIN mutations : mutations[i].op # "UpdateEdge"
    BY <1>2 DEF ForgetPlan, ArchiveMemory
  <1>3. ASSUME NEW S, NEW ids \in Seq(S), mutations = MergePlan(ids)
        PROVE  \A i \in DOMAIN mutations : mutations[i].op # "UpdateEdge"
    <2> DEFINE text == Join[{content[ids[i]] : i \in DOMAIN ids}]
               front == <<UpdateMemory(ids[1], text)>>
               back == [i \in 1 .. Len(ids) - 1 |-> ArchiveMemory(ids[i + 1])]
               Other == {x \in {UpdateMemory(ids[1], text)}
                                 \cup {ArchiveMemory(ids[i + 1]) : i \in 1 .. Len(ids) - 1} :
                           x.op # "UpdateEdge"}
    <2>1. front \in Seq(Other)
      <3>1. UpdateMemory(ids[1], text) \in Other
        BY DEF UpdateMemory
      <3> HIDE DEF Other
      <3>2. QED
        BY <3>1
    <2>2. back \in Seq(Other)
      <3> DEFINE k == Len(ids) - 1
      <3>1. k \in Nat \/ k = -1
        BY LenProperties
      <3>2. CASE k \in Nat
        <4>1. \A i \in 1 .. k : ArchiveMemory(ids[i + 1]) \in Other
          BY DEF ArchiveMemory
        <4>2. back \in [1 .. k -> Other]
          BY <4>1
        <4> HIDE DEF back, k, Other
        <4>3. QED
          BY <3>2, <4>2, SequenceOfLength
      <3>3. CASE k = -1
        <4>1. 1 .. k = 1 .. 0
          BY <3>3
        <4>2. back \in [1 .. 0 -> Other]
          BY <4>1
        <4> HIDE DEF back, Other
        <4>3. QED
          BY <4>2, SequenceOfLength
      <3>4. QED
        BY <3>1, <3>2, <3>3
    <2>3. mutations = front \o back
      BY <1>3 DEF MergePlan
    <2>4. \A x \in Other : x.op # "UpdateEdge"
      OBVIOUS
    <2> HIDE DEF front, back, Other
    <2>5. mutations \in Seq(Other)
      BY <2>1, <2>2, <2>3, ConcatProperties
    <2>6. \A i \in DOMAIN mutations : mutations[i] \in Other
      BY <2>5, ElementOfSeq, LenProperties
    <2>7. QED
      BY <2>4, <2>6
  <1>4. QED
    BY <1>1, <1>2, <1>3

\* Steps that change the plan of one process p, to one whose edges are over
\* written memories, and leave what is checked alone.
LEMMA OverWrittenPlan ==
  ASSUME ExecTypes, OverWritten, Written \subseteq Written', NEW p \in Proc, NEW new,
         plan' = [plan EXCEPT ![p] = new], UNCHANGED target,
         checking' = checking \/ checking' = [checking EXCEPT ![p] = <<>>],
         checking'[p] # <<>> => new = <<>>,
         \A i \in DOMAIN new :
           new[i].op = "UpdateEdge" => new[i].source \in Written /\ new[i].target \in Written
  PROVE  OverWritten'
  <1>1. /\ plan'[p] = new /\ \A q \in Proc : q # p => plan'[q] = plan[q]
        /\ \A q \in Proc : checking'[q] # <<>> => checking[q] # <<>>
    BY DEF ExecTypes
  <1>2. ASSUME NEW q \in Proc, NEW i \in DOMAIN plan'[q], plan'[q][i].op = "UpdateEdge"
        PROVE  plan'[q][i].source \in Written' /\ plan'[q][i].target \in Written'
    <2>1. CASE q = p
      BY <1>1, <1>2, <2>1
    <2>2. CASE q # p
      <3>1. plan'[q] = plan[q]
        BY <1>1, <2>2
      <3>2. QED
        BY <1>2, <3>1 DEF OverWritten
    <2>3. QED
      BY <2>1, <2>2
  <1>3. ASSUME NEW q \in Proc, checking'[q] # <<>>
        PROVE  plan'[q] = <<>> /\ Range(target'[q].ids) \subseteq Written'
    <2>1. plan[q] = <<>> /\ Range(target[q].ids) \subseteq Written
      BY <1>1, <1>3 DEF OverWritten
    <2>2. plan'[q] = <<>>
      BY <1>1, <1>3, <2>1
    <2>3. QED
      BY <2>1, <2>2
  <1>4. QED
    BY <1>2, <1>3 DEF OverWritten

\* A submitted plan without edges.
LEMMA OverWrittenSubmit ==
  ASSUME ExecTypes, OverWritten, NEW p \in Proc, NEW mutations, Submit(p, mutations),
         checking[p] = <<>>, \A i \in DOMAIN mutations : mutations[i].op # "UpdateEdge"
  PROVE  OverWritten'
  <1>1. Written' = Written
    BY DEF Submit, vars, memoryVars, Written
  <1>2. plan' = [plan EXCEPT ![p] = mutations] /\ UNCHANGED <<target, checking>>
    BY DEF Submit
  <1>3. QED
    BY <1>1, <1>2, OverWrittenPlan

\* No step plans an edge of a memory that is not written.
LEMMA OverWrittenStep ==
  ASSUME ExecutorConstants, ExecInv, OverWritten, [ExecNext]_allVars
  PROVE  OverWritten'
  <1>0. TypeOK /\ IsFiniteSet(Written) /\ ExecTypes
    BY DEF ExecInv
  <1>1. Written \subseteq Written'
    BY <1>0, ExecStepIsStoreStep, WrittenStays
  <1>2. ASSUME UNCHANGED <<plan, checking, target>>
        PROVE  OverWritten'
    BY <1>1, <1>2 DEF OverWritten
  <1>3. ASSUME NEW p \in Proc, NEW c \in Content, Promote(p, c)
        PROVE  OverWritten'
    BY <1>0, <1>3, OtherPlansNoEdges, OverWrittenSubmit DEF Promote, MayCall
  <1>4. ASSUME NEW p \in Proc, NEW S \in SUBSET Live, Merge(p, S)
        PROVE  OverWritten'
    <2>1. PICK ids \in SetToSeqs(S) : Submit(p, MergePlan(ids))
      BY <1>4 DEF Merge
    <2>2. ids \in Seq(S)
      <3>1. Live \subseteq Written
        BY DEF Live, Written
      <3>2. IsFiniteSet(S)
        BY <1>0, <3>1, FS_Subset
      <3>3. Cardinality(S) \in Nat /\ ids \in [1 .. Cardinality(S) -> S]
        BY <3>2, FS_CardinalityType DEF SetToSeqs
      <3> DEFINE n == Cardinality(S)
      <3> HIDE DEF n
      <3>4. n \in Nat /\ ids \in [1 .. n -> S]
        BY <3>3 DEF n
      <3>5. QED
        BY <3>4, SequenceOfLength
    <2>3. \A i \in DOMAIN MergePlan(ids) : MergePlan(ids)[i].op # "UpdateEdge"
      BY <2>2, OtherPlansNoEdges
    <2>4. checking[p] = <<>>
      BY <1>4 DEF Merge, MayCall
    <2>5. QED
      BY <1>0, <2>1, <2>3, <2>4, OverWrittenSubmit
  <1>5. ASSUME NEW p \in Proc, NEW m \in Written, Forget(p, m)
        PROVE  OverWritten'
    <2>1. m \in MemoryId
      BY DEF Written
    <2>2. QED
      BY <1>0, <1>5, <2>1, OtherPlansNoEdges, OverWrittenSubmit DEF Forget, MayCall
  <1>6. ASSUME NEW p \in Proc, NEW S \in SUBSET Written, NEW d \in Delta, Reinforce(p, S, d)
        PROVE  OverWritten'
    <2> DEFINE ids == SetToSeq(S)
               event == [ids |-> ids, delta |-> d]
    <2>1. Range(ids) \subseteq Written
      <3>1. IsFiniteSet(S)
        BY <1>0, FS_Subset
      <3>2. ids \in Seq(S)
        BY <3>1, SetToSeqLists
      <3> HIDE DEF ids
      <3>3. Range(ids) \subseteq S
        BY <3>2 DEF Range
      <3>4. QED
        BY <3>3
    <2>2. /\ plan[p] = <<>>
          /\ checking' = [checking EXCEPT ![p] = ids] /\ target' = [target EXCEPT ![p] = event]
          /\ UNCHANGED plan
      BY <1>6 DEF Reinforce, MayCall
    <2>3. event.ids = ids
      OBVIOUS
    <2> HIDE DEF ids, event
    <2>4. ASSUME NEW q \in Proc, checking'[q] # <<>>
          PROVE  plan'[q] = <<>> /\ Range(target'[q].ids) \subseteq Written
      <3>1. CASE q = p
        <4>1. target'[q] = event
          BY <1>0, <2>2, <3>1 DEF ExecTypes
        <4>2. QED
          BY <2>1, <2>2, <2>3, <3>1, <4>1
      <3>2. CASE q # p
        <4>1. target'[q] = target[q] /\ checking'[q] = checking[q]
          BY <1>0, <2>2, <3>2 DEF ExecTypes
        <4>2. QED
          BY <2>2, <2>4, <4>1 DEF OverWritten
      <3>3. QED
        BY <3>1, <3>2
    <2>5. QED
      BY <1>1, <2>2, <2>4 DEF OverWritten
  <1>7. ASSUME NEW p \in Proc, Check(p)
        PROVE  OverWritten'
    <2>1. CASE plan' = plan
      <3>1. \A q \in Proc : checking'[q] # <<>> => checking[q] # <<>>
        BY <1>0, <1>7 DEF Check, ExecTypes
      <3>2. UNCHANGED target
        BY <1>7 DEF Check
      <3>3. QED
        BY <1>1, <2>1, <3>1, <3>2 DEF OverWritten
    <2>2. CASE /\ plan' = [plan EXCEPT ![p] = ReinforcePlan(target[p])]
               /\ checking' = [checking EXCEPT ![p] = <<>>]
      <3> DEFINE event == target[p]
                 new == ReinforcePlan(event)
      <3>1. checking[p] # <<>> /\ UNCHANGED target
        BY <1>7 DEF Check
      <3>2. event \in EventOf(MemoryId, Delta) /\ IsInjective(event.ids)
        BY <1>0, <3>1 DEF ExecTypes
      <3>3. Range(event.ids) \subseteq Written
        BY <3>1 DEF OverWritten
      <3> HIDE DEF event
      <3>4. \A k \in DOMAIN new :
              new[k].source \in Range(event.ids) /\ new[k].target \in Range(event.ids)
        BY <3>2, ReinforcePlanEdges
      <3>5. plan' = [plan EXCEPT ![p] = new]
        BY <2>2 DEF event
      <3> HIDE DEF new
      <3>6. checking'[p] = <<>>
        BY <1>0, <2>2 DEF ExecTypes
      <3>7. \A i \in DOMAIN new : new[i].source \in Written /\ new[i].target \in Written
        BY <3>3, <3>4
      <3>8. QED
        BY <1>0, <1>1, <2>2, <3>1, <3>5, <3>6, <3>7, OverWrittenPlan
    <2>3. QED
      BY <1>7, <2>1, <2>2 DEF Check
  <1>8. ASSUME NEW p \in Proc, plan[p] # <<>>, plan' = [plan EXCEPT ![p] = Tail(plan[p])],
               UNCHANGED <<checking, target>>
        PROVE  OverWritten'
    <2> DEFINE s == plan[p]
               M == Mutation
    <2>1. s \in Seq(M) /\ s # <<>>
      BY <1>0, <1>8 DEF ExecTypes
    <2>2. checking'[p] = <<>>
      BY <1>8 DEF OverWritten
    <2>3. \A i \in DOMAIN s :
            s[i].op = "UpdateEdge" => s[i].source \in Written /\ s[i].target \in Written
      BY DEF OverWritten
    <2>4. plan' = [plan EXCEPT ![p] = Tail(s)]
      BY <1>8
    <2> HIDE DEF s, M
    <2>5. \A i \in DOMAIN Tail(s) : i + 1 \in DOMAIN s /\ Tail(s)[i] = s[i + 1]
      BY <2>1
    <2>6. \A i \in DOMAIN Tail(s) : Tail(s)[i].op = "UpdateEdge" =>
            Tail(s)[i].source \in Written /\ Tail(s)[i].target \in Written
      BY <2>3, <2>5
    <2>7. QED
      BY <1>0, <1>1, <1>8, <2>2, <2>4, <2>6, OverWrittenPlan
  <1>9. ASSUME NEW p \in Proc, Crash(p)
        PROVE  OverWritten'
    <2> DEFINE new == <<>>
    <2>1. plan' = [plan EXCEPT ![p] = new] /\ UNCHANGED <<checking, target>>
      BY <1>9 DEF Crash, Fault
    <2>2. \A i \in DOMAIN new : new[i].source \in Written /\ new[i].target \in Written
      OBVIOUS
    <2>3. checking'[p] # <<>> => new = <<>>
      OBVIOUS
    <2> HIDE DEF new
    <2>4. QED
      BY <1>0, <1>1, <2>1, <2>2, <2>3, OverWrittenPlan
  <1>10. ASSUME NEW p \in Proc, Execute(p) \/ Busy(p)
         PROVE  OverWritten'
    BY <1>8, <1>10 DEF Execute, Busy, Fault
  <1>11. ASSUME NEW m \in MemoryId, NEW c \in Content, ClientWrite(m, c)
         PROVE  UNCHANGED <<plan, checking, target>>
    BY <1>11 DEF ClientWrite, execVars
  <1>12. ASSUME UNCHANGED allVars
         PROVE  UNCHANGED <<plan, checking, target>>
    BY <1>12 DEF allVars, execVars
  <1>13. QED
    BY <1>2, <1>3, <1>4, <1>5, <1>6, <1>7, <1>9, <1>10, <1>11, <1>12 DEF ExecNext

\* An edge of a memory that is not written is owed nothing.
LEMMA NothingBefore ==
  ASSUME IsFiniteSet(Proc), Delta \subseteq Int, ExecTypes, OverWritten, NoWeightBefore,
         NEW s \in MemoryId, NEW t \in MemoryId, s \notin Written \/ t \notin Written
  PROVE  Balance(s, t) = 0
  <1>1. plan \in [Proc -> Seq(Mutation)]
    BY DEF ExecTypes
  <1>2. \A p \in Proc : \A i \in DOMAIN plan[p] : ~Updates(plan[p][i], s, t)
    BY DEF OverWritten, Updates
  <1>3. DueIn(plan, s, t) = {}
    BY <1>2 DEF DueIn
  <1>4. OwedIn(plan, s, t) = 0
    BY <1>1, <1>3, OwedIsSum
  <1>5. weight[<<s, t>>] = 0
    BY DEF NoWeightBefore
  <1>6. QED
    BY <1>4, <1>5 DEF Balance

\* Steps that leave the balance of each edge between live memories alone,
\* apart from torn ones.
LEMMA BalancedKept ==
  ASSUME IsFiniteSet(Proc), Delta \subseteq Int, TypeOK, ExecTypes, OverWritten, NoWeightBefore,
         Balanced, [Next]_vars, torn \subseteq torn',
         \A s, t \in Live' : {s, t} \notin torn' => Balance(s, t)' = Balance(s, t)
  PROVE  Balanced'
  <1> SUFFICES ASSUME NEW s \in Live', NEW t \in Live', {s, t} \notin torn'
               PROVE  Balance(s, t)' = Balance(t, s)'
    BY DEF Balanced
  <1>1. s \in MemoryId /\ t \in MemoryId
    BY DEF Live
  <1>2. {t, s} \notin torn' /\ {s, t} \notin torn
    <2>1. {t, s} = {s, t}
      OBVIOUS
    <2>2. QED
      BY <2>1
  <1>3. Balance(s, t)' = Balance(s, t) /\ Balance(t, s)' = Balance(t, s)
    BY <1>2
  <1>4. Balance(s, t) = Balance(t, s)
    <2>1. CASE s \in Written /\ t \in Written
      <3>1. s \in Live /\ t \in Live
        BY <2>1, WrittenStays
      <3>2. QED
        BY <1>2, <3>1 DEF Balanced
    <2>2. CASE s \notin Written \/ t \notin Written
      BY <1>1, <2>2, NothingBefore
    <2>3. QED
      BY <2>1, <2>2
  <1>5. QED
    BY <1>3, <1>4

\* What an operation adds to the weight of an edge.
LEMMA PerformWeight ==
  ASSUME TypeOK, NEW mut \in Mutation, Perform(mut), NEW s \in MemoryId, NEW t \in MemoryId
  PROVE  weight'[<<s, t>>] = weight[<<s, t>>] + Adds(mut, s, t)
  <1>1. weight[<<s, t>>] \in Int
    BY DEF TypeOK
  <1>2. CASE mut.op = "UpdateEdge"
    <2>1. /\ mut.source \in MemoryId /\ mut.target \in MemoryId
          /\ weight' = [weight EXCEPT ![<<mut.source, mut.target>>] = @ + mut.delta]
      BY <1>2 DEF Perform, UpdateEdge, Mutation
    <2>2. CASE Updates(mut, s, t)
      BY <2>1, <2>2 DEF Updates, Adds, TypeOK
    <2>3. CASE ~Updates(mut, s, t)
      <3>1. <<s, t>> # <<mut.source, mut.target>>
        BY <1>2, <2>3 DEF Updates
      <3>2. weight'[<<s, t>>] = weight[<<s, t>>]
        BY <2>1, <3>1 DEF TypeOK
      <3>3. QED
        BY <1>1, <2>3, <3>2 DEF Adds
    <2>4. QED
      BY <2>2, <2>3
  <1>3. CASE mut.op # "UpdateEdge"
    <2>1. weight' = weight
      BY <1>3 DEF Perform, Write, UpdateContent, Invalidate, edgeVars
    <2>2. ~Updates(mut, s, t)
      BY <1>3 DEF Updates
    <2>3. QED
      BY <1>1, <2>1, <2>2 DEF Adds
  <1>4. QED
    BY <1>2, <1>3

\* A submitted plan without edges.
LEMMA BalancedSubmit ==
  ASSUME IsFiniteSet(Proc), Delta \subseteq Int, TypeOK, ExecTypes, ExecTypes', OverWritten,
         NoWeightBefore, Balanced, NEW p \in Proc, NEW mutations, Submit(p, mutations),
         plan[p] = <<>>, \A i \in DOMAIN mutations : mutations[i].op # "UpdateEdge"
  PROVE  Balanced'
  <1>1. plan \in [Proc -> Seq(Mutation)] /\ plan' \in [Proc -> Seq(Mutation)]
    BY DEF ExecTypes
  <1>2. UNCHANGED <<vars, torn>> /\ plan' = [plan EXCEPT ![p] = mutations]
    BY DEF Submit
  <1>3. ASSUME NEW s, NEW t PROVE OwedIn(plan, s, t) = OwedIn(plan', s, t)
    <2>1. \A q \in Proc : \/ plan[q] = plan'[q]
                          \/ /\ \A i \in DOMAIN plan[q] : ~Updates(plan[q][i], s, t)
                             /\ \A i \in DOMAIN plan'[q] : ~Updates(plan'[q][i], s, t)
      BY <1>1, <1>2 DEF Updates
    <2>2. QED
      BY <1>1, <2>1, OwedSame
  <1>4. weight' = weight
    BY <1>2 DEF vars, edgeVars
  <1>5. \A s, t \in Live' : {s, t} \notin torn' => Balance(s, t)' = Balance(s, t)
    BY <1>3, <1>4 DEF Balance
  <1>6. QED
    BY <1>2, <1>5, BalancedKept

\* The processes execute, skip and drop mutations.
LEMMA BalancedExecute ==
  ASSUME IsFiniteSet(Proc), Delta \subseteq Int, TypeOK, ExecTypes, OverWritten, NoWeightBefore,
         Balanced, [Next]_vars, NEW p \in Proc, plan[p] # <<>>,
         plan' = [plan EXCEPT ![p] = Tail(plan[p])], UNCHANGED torn,
         \/ Perform(Head(plan[p]))
         \/ ~(Needs(Head(plan[p])) \subseteq Live) /\ UNCHANGED vars
  PROVE  Balanced'
  <1> DEFINE mut == Head(plan[p])
  <1>1. mut \in Mutation
    BY HeadOfPlan
  <1>2. ASSUME NEW s, NEW t
        PROVE  /\ OwedIn(plan, s, t) \in Int /\ OwedIn(plan', s, t) \in Int
               /\ OwedIn(plan, s, t) = Adds(mut, s, t) + OwedIn(plan', s, t)
               /\ Adds(mut, s, t) \in Int
    <2>1. plan \in [Proc -> Seq(Mutation)] /\ Drops(plan, plan', p)
      BY DEF ExecTypes, Drops
    <2>2. /\ OwedIn(plan, s, t) = Adds(Head(plan[p]), s, t) + OwedIn(plan', s, t)
          /\ Adds(Head(plan[p]), s, t) \in Int
          /\ plan' \in [Proc -> Seq(Mutation)]
      BY <2>1, OwedTail
    <2>3. OwedIn(plan, s, t) \in Int /\ OwedIn(plan', s, t) \in Int
      BY <2>1, <2>2, OwedIsSum
    <2>4. QED
      BY <2>2, <2>3
  <1>3. ASSUME NEW s, NEW t, Updates(mut, s, t)
        PROVE  Needs(mut) = {s, t} /\ mut.delta \in Int
    <2>1. mut.op = "UpdateEdge"
      BY <1>3 DEF Updates
    <2>2. mut.delta \in Int
      BY <1>1, <2>1 DEF Mutation
    <2>3. Needs(mut) = {s, t}
      BY <1>3, <2>1 DEF Needs, Updates
    <2>4. QED
      BY <2>2, <2>3
  <1> HIDE DEF mut
  <1>4. ASSUME NEW s \in Live', NEW t \in Live'
        PROVE  Balance(s, t)' = Balance(s, t)
    <2>1. s \in MemoryId /\ t \in MemoryId /\ weight[<<s, t>>] \in Int
      BY DEF Live, TypeOK
    <2>2. CASE Perform(mut)
      <3>1. weight'[<<s, t>>] = weight[<<s, t>>] + Adds(mut, s, t)
        BY <1>1, <2>1, <2>2, PerformWeight
      <3> DEFINE w == weight[<<s, t>>]
                 a == Adds(mut, s, t)
                 now == OwedIn(plan, s, t)
                 then == OwedIn(plan', s, t)
      <3>2. now \in Int /\ then \in Int /\ a \in Int /\ w \in Int /\ now = a + then
        BY <1>2, <2>1
      <3>3. Balance(s, t)' = (w + a) + then /\ Balance(s, t) = w + now
        BY <3>1 DEF Balance
      <3> HIDE DEF w, a, now, then
      <3>4. QED
        BY <3>2, <3>3
    <2>3. CASE ~(Needs(mut) \subseteq Live) /\ UNCHANGED vars
      <3>1. weight' = weight /\ Live' = Live
        BY <2>3 DEF vars, edgeVars, memoryVars, Live
      <3>2. ~Updates(mut, s, t)
        BY <1>3, <2>3, <3>1
      <3>3. Adds(mut, s, t) = 0
        BY <3>2 DEF Adds
      <3>4. OwedIn(plan', s, t) = OwedIn(plan, s, t)
        <4> DEFINE a == Adds(mut, s, t)
                   now == OwedIn(plan, s, t)
                   then == OwedIn(plan', s, t)
        <4>1. now = a + then /\ then \in Int /\ a = 0
          BY <1>2, <3>3
        <4> HIDE DEF a, now, then
        <4>2. then = now
          BY <4>1
        <4>3. QED
          BY <4>2 DEF now, then
      <3>5. QED
        BY <3>1, <3>4 DEF Balance
    <2>4. QED
      BY <2>2, <2>3 DEF mut
  <1>5. QED
    BY <1>4, BalancedKept

\* A fault tears the edges it loses updates of.
LEMMA BalancedFault ==
  ASSUME IsFiniteSet(Proc), Delta \subseteq Int, TypeOK, ExecTypes, ExecTypes', OverWritten,
         NoWeightBefore, Balanced, NEW p \in Proc, Busy(p) \/ Crash(p)
  PROVE  Balanced'
  <1>1. plan \in [Proc -> Seq(Mutation)] /\ plan' \in [Proc -> Seq(Mutation)]
    BY DEF ExecTypes
  <1>2. UNCHANGED vars /\ torn \subseteq torn'
    BY DEF Busy, Crash, Fault
  <1>3. weight' = weight
    BY <1>2 DEF vars, edgeVars
  <1>4. CASE Busy(p)
    <2> DEFINE mut == Head(plan[p])
    <2>1. /\ plan[p] # <<>> /\ plan' = [plan EXCEPT ![p] = Tail(plan[p])]
          /\ torn' = torn \cup EdgesIn(<<mut>>)
      BY <1>4 DEF Busy, Fault
    <2>2. mut \in Mutation
      BY <2>1, HeadOfPlan
    <2>3. ASSUME NEW s, NEW t, Updates(mut, s, t) PROVE {s, t} \in torn'
      <3> HIDE DEF mut
      <3>1. mut \in {x \in Range(<<mut>>) : x.op = "UpdateEdge"}
        BY <2>3 DEF Range, Updates
      <3>2. {mut.source, mut.target} \in EdgesIn(<<mut>>)
        BY <3>1 DEF EdgesIn
      <3>3. QED
        BY <2>1, <2>3, <3>2 DEF Updates
    <2>4. ASSUME NEW s, NEW t, ~Updates(mut, s, t) PROVE OwedIn(plan', s, t) = OwedIn(plan, s, t)
      <3>1. Drops(plan, plan', p)
        BY <2>1 DEF Drops
      <3>2. OwedIn(plan, s, t) = Adds(mut, s, t) + OwedIn(plan', s, t)
        BY <1>1, <3>1, OwedTail
      <3>3. OwedIn(plan', s, t) \in Int
        BY <1>1, OwedIsSum
      <3> HIDE DEF mut
      <3>4. QED
        BY <2>4, <3>2, <3>3 DEF Adds
    <2> HIDE DEF mut
    <2>5. \A s, t \in Live' : {s, t} \notin torn' => Balance(s, t)' = Balance(s, t)
      BY <1>3, <2>3, <2>4 DEF Balance
    <2>6. QED
      BY <1>2, <2>5, BalancedKept
  <1>5. CASE Crash(p)
    <2>1. plan' = [plan EXCEPT ![p] = <<>>] /\ torn' = torn \cup EdgesIn(plan[p])
      BY <1>5 DEF Crash, Fault
    <2>2. ASSUME NEW s, NEW t, NEW i \in DOMAIN plan[p], Updates(plan[p][i], s, t)
          PROVE  {s, t} \in torn'
      <3> DEFINE mut == plan[p][i]
      <3>1. mut \in {x \in Range(plan[p]) : x.op = "UpdateEdge"}
        BY <2>2 DEF Range, Updates
      <3> HIDE DEF mut
      <3>2. {mut.source, mut.target} \in EdgesIn(plan[p])
        BY <3>1 DEF EdgesIn
      <3>3. QED
        BY <2>1, <2>2, <3>2 DEF Updates, mut
    <2>3. ASSUME NEW s, NEW t, {s, t} \notin torn'
          PROVE  OwedIn(plan, s, t) = OwedIn(plan', s, t)
      <3>1. \A i \in DOMAIN plan[p] : ~Updates(plan[p][i], s, t)
        BY <2>2, <2>3
      <3>2. plan'[p] = <<>> /\ \A q \in Proc : q # p => plan'[q] = plan[q]
        BY <1>1, <2>1
      <3>3. \A q \in Proc : \/ plan[q] = plan'[q]
                            \/ /\ \A i \in DOMAIN plan[q] : ~Updates(plan[q][i], s, t)
                               /\ \A i \in DOMAIN plan'[q] : ~Updates(plan'[q][i], s, t)
        BY <3>1, <3>2
      <3>4. QED
        BY <1>1, <3>3, OwedSame
    <2>4. \A s, t \in Live' : {s, t} \notin torn' => Balance(s, t)' = Balance(s, t)
      BY <1>3, <2>3 DEF Balance
    <2>5. QED
      BY <1>2, <2>4, BalancedKept
  <1>6. QED
    BY <1>4, <1>5

\* A reinforce call owes both directions of an edge the same.
LEMMA BalancedCheck ==
  ASSUME CallsFit, IsFiniteSet(Proc), Delta \subseteq Int, TypeOK, ExecTypes,
         ExecTypes', OverWritten, Balanced, NEW p \in Proc, Check(p)
  PROVE  Balanced'
  <1>1. UNCHANGED <<vars, torn>> /\ checking[p] # <<>>
    BY DEF Check
  <1>2. weight' = weight /\ Live' = Live
    BY <1>1 DEF vars, edgeVars, memoryVars, Live
  <1>3. CASE plan' = plan
    BY <1>1, <1>2, <1>3 DEF Balanced, Balance
  <1>4. CASE plan' = [plan EXCEPT ![p] = ReinforcePlan(target[p])]
    <2> DEFINE event == target[p]
               new == ReinforcePlan(event)
    <2>1. plan \in [Proc -> Seq(Mutation)] /\ plan' \in [Proc -> Seq(Mutation)]
      BY DEF ExecTypes
    <2>2. event \in EventOf(MemoryId, Delta) /\ IsInjective(event.ids) /\ plan[p] = <<>>
      BY <1>1 DEF ExecTypes, OverWritten
    <2>3. new \in Seq(Mutation)
      BY <2>1, <1>4
    <2>4. plan' = [plan EXCEPT ![p] = new]
      BY <1>4
    <2> HIDE DEF event
    <2>5. /\ \A s, t : \A j, k \in DOMAIN new :
               Updates(new[j], s, t) /\ Updates(new[k], s, t) => j = k
          /\ \A s, t : \A j \in DOMAIN new : Updates(new[j], s, t) =>
               \E k \in DOMAIN new : Updates(new[k], t, s) /\ new[k].delta = new[j].delta
      BY <2>2, ExecutorConstants, ReinforcePlanEdges
    <2> HIDE DEF new
    <2>6. ASSUME NEW s, NEW t, NEW k \in DOMAIN new, Updates(new[k], s, t)
          PROVE  OwedIn(plan', s, t) = new[k].delta + OwedIn(plan, s, t)
      <3>1. Gets(plan, plan', p, new, k, s, t)
        BY <2>2, <2>4, <2>5, <2>6 DEF Gets
      <3>2. QED
        BY <2>1, <2>3, <3>1, OwedPlan
    <2>7. ASSUME NEW s, NEW t, \A k \in DOMAIN new : ~Updates(new[k], s, t)
          PROVE  OwedIn(plan, s, t) = OwedIn(plan', s, t)
      <3>1. \A q \in Proc : \/ plan[q] = plan'[q]
                            \/ /\ \A i \in DOMAIN plan[q] : ~Updates(plan[q][i], s, t)
                               /\ \A i \in DOMAIN plan'[q] : ~Updates(plan'[q][i], s, t)
        BY <2>1, <2>2, <2>4, <2>7
      <3>2. QED
        BY <2>1, <3>1, OwedSame
    <2>8. ASSUME NEW s \in Live, NEW t \in Live, {s, t} \notin torn
          PROVE  Balance(s, t)' = Balance(t, s)'
      <3>1. Balance(s, t) = Balance(t, s)
        BY <2>8 DEF Balanced
      <3>2. /\ weight[<<s, t>>] \in Int /\ weight[<<t, s>>] \in Int
            /\ OwedIn(plan, s, t) \in Int /\ OwedIn(plan, t, s) \in Int
        <4>1. weight[<<s, t>>] \in Int /\ weight[<<t, s>>] \in Int
          BY DEF TypeOK, Live
        <4>2. QED
          BY <2>1, <4>1, OwedIsSum
      <3>3. CASE \E j \in DOMAIN new : Updates(new[j], s, t)
        <4>1. PICK j \in DOMAIN new : Updates(new[j], s, t)
          BY <3>3
        <4>2. PICK k \in DOMAIN new : Updates(new[k], t, s) /\ new[k].delta = new[j].delta
          BY <2>5, <4>1
        <4>3. /\ OwedIn(plan', s, t) = new[j].delta + OwedIn(plan, s, t)
              /\ OwedIn(plan', t, s) = new[j].delta + OwedIn(plan, t, s)
          BY <2>6, <4>1, <4>2
        <4>4. new[j].delta \in Int
          <5>1. new[j] \in Mutation /\ new[j].op = "UpdateEdge"
            BY <2>3, <4>1 DEF Updates
          <5>2. QED
            BY <5>1 DEF Mutation
        <4>5. QED
          BY <1>2, <3>1, <3>2, <4>3, <4>4 DEF Balance
      <3>4. CASE \A j \in DOMAIN new : ~Updates(new[j], s, t)
        <4>1. \A j \in DOMAIN new : ~Updates(new[j], t, s)
          BY <2>5, <3>4
        <4>2. /\ OwedIn(plan', s, t) = OwedIn(plan, s, t)
              /\ OwedIn(plan', t, s) = OwedIn(plan, t, s)
          BY <2>7, <3>4, <4>1
        <4>3. QED
          BY <1>2, <3>1, <4>2 DEF Balance
      <3>5. QED
        BY <3>3, <3>4
    <2>9. QED
      BY <1>1, <1>2, <2>8 DEF Balanced
  <1>5. QED
    BY <1>3, <1>4 DEF Check

\* The invariant is inductive.
LEMMA MutualInvStep ==
  ASSUME ExecutorConstants, StoreConstants, CallsFit, MutualInv, [ExecNext]_allVars
  PROVE  MutualInv'
  <1>1. ExecInv' /\ [Next]_vars
    BY ExecInvStep, ExecStepIsStoreStep DEF MutualInv, ExecInv
  <1>2. /\ IsFiniteSet(Proc) /\ Delta \subseteq Int
        /\ TypeOK /\ ExecTypes /\ OverWritten /\ NoWeightBefore /\ Balanced
        /\ ExecTypes' /\ IsFiniteSet(Written)
    BY <1>1 DEF ExecutorConstants, StoreConstants, MutualInv, ExecInv
  <1>3. OverWritten'
    BY OverWrittenStep DEF MutualInv
  <1>4. NoWeightBefore'
    BY <1>1, <1>2, NoWeightStep
  <1>5. ASSUME UNCHANGED <<plan, torn>>, weight' = weight
        PROVE  Balanced'
    <2>1. \A s, t \in Live' : {s, t} \notin torn' => Balance(s, t)' = Balance(s, t)
      BY <1>5 DEF Balance
    <2>2. QED
      BY <1>1, <1>2, <1>5, <2>1, BalancedKept
  <1>6. ASSUME NEW p \in Proc, NEW c \in Content, Promote(p, c)
        PROVE  Balanced'
    <2>1. \A i \in DOMAIN PromotePlan(c) : PromotePlan(c)[i].op # "UpdateEdge"
      BY <1>6, OtherPlansNoEdges
    <2>2. Submit(p, PromotePlan(c)) /\ plan[p] = <<>>
      BY <1>6 DEF Promote, MayCall
    <2>3. QED
      BY <1>2, <2>1, <2>2, BalancedSubmit
  <1>7. ASSUME NEW p \in Proc, NEW S \in SUBSET Live, Merge(p, S)
        PROVE  Balanced'
    <2>1. PICK ids \in SetToSeqs(S) : Submit(p, MergePlan(ids))
      BY <1>7 DEF Merge
    <2>2. ids \in Seq(S)
      <3>1. Live \subseteq Written
        BY DEF Live, Written
      <3>2. IsFiniteSet(S)
        BY <1>2, <3>1, FS_Subset
      <3>3. Cardinality(S) \in Nat /\ ids \in [1 .. Cardinality(S) -> S]
        BY <3>2, FS_CardinalityType DEF SetToSeqs
      <3> DEFINE n == Cardinality(S)
      <3> HIDE DEF n
      <3>4. n \in Nat /\ ids \in [1 .. n -> S]
        BY <3>3 DEF n
      <3>5. QED
        BY <3>4, SequenceOfLength
    <2>3. \A i \in DOMAIN MergePlan(ids) : MergePlan(ids)[i].op # "UpdateEdge"
      BY <2>2, OtherPlansNoEdges
    <2>4. plan[p] = <<>>
      BY <1>7 DEF Merge, MayCall
    <2>5. QED
      BY <1>2, <2>1, <2>3, <2>4, BalancedSubmit
  <1>8. ASSUME NEW p \in Proc, NEW m \in Written, Forget(p, m)
        PROVE  Balanced'
    <2>1. m \in MemoryId
      BY DEF Written
    <2>2. \A i \in DOMAIN ForgetPlan(m) : ForgetPlan(m)[i].op # "UpdateEdge"
      BY <1>8, <2>1, OtherPlansNoEdges
    <2>3. Submit(p, ForgetPlan(m)) /\ plan[p] = <<>>
      BY <1>8 DEF Forget, MayCall
    <2>4. QED
      BY <1>2, <2>2, <2>3, BalancedSubmit
  <1>9. ASSUME NEW p \in Proc, NEW S \in SUBSET Written, NEW d \in Delta, Reinforce(p, S, d)
        PROVE  Balanced'
    BY <1>5, <1>9 DEF Reinforce, vars, edgeVars
  <1>10. ASSUME NEW m \in MemoryId, NEW c \in Content, ClientWrite(m, c)
         PROVE  Balanced'
    BY <1>5, <1>10 DEF ClientWrite, execVars, Write, edgeVars
  <1>11. ASSUME NEW p \in Proc, Check(p)
         PROVE  Balanced'
    BY <1>2, <1>11, BalancedCheck
  <1>12. ASSUME NEW p \in Proc, Execute(p)
         PROVE  Balanced'
    <2>1. /\ plan[p] # <<>> /\ plan' = [plan EXCEPT ![p] = Tail(plan[p])] /\ UNCHANGED torn
          /\ \/ Perform(Head(plan[p]))
             \/ ~(Needs(Head(plan[p])) \subseteq Live) /\ UNCHANGED vars
      BY <1>12 DEF Execute
    <2>2. QED
      BY <1>1, <1>2, <2>1, BalancedExecute
  <1>13. ASSUME NEW p \in Proc, Busy(p) \/ Crash(p)
         PROVE  Balanced'
    BY <1>2, <1>13, BalancedFault
  <1>14. ASSUME UNCHANGED allVars
         PROVE  Balanced'
    BY <1>5, <1>14 DEF allVars, execVars, vars, edgeVars
  <1>15. Balanced'
    BY <1>6, <1>7, <1>8, <1>9, <1>10, <1>11, <1>12, <1>13, <1>14 DEF ExecNext
  <1>16. QED
    BY <1>1, <1>3, <1>4, <1>15 DEF MutualInv

\* Association is mutual: however reinforce calls, forgets, merges and
\* promotions of several processes interleave, the weights of the edges both
\* ways between two valid memories, with what the plans under way owe them,
\* are the same, until a fault loses an update of that edge.  This is for
\* calls whose plans max_edges does not cut off.
THEOREM ExecutorMutualEdges ==
  ASSUME CallsFit
  PROVE  ExecSpec => []MutualEdges
  <1>1. ExecInit => MutualInv
    <2> SUFFICES ASSUME ExecInit PROVE MutualInv
      OBVIOUS
    <2>1. /\ weight = [e \in MemoryId \X MemoryId |-> 0] /\ Live = {}
          /\ plan = [p \in Proc |-> <<>>] /\ checking = [p \in Proc |-> <<>>]
      BY DEF ExecInit, Init, Live
    <2>2. OverWritten /\ NoWeightBefore /\ Balanced
      BY <2>1 DEF OverWritten, NoWeightBefore, Balanced
    <2>3. QED
      BY <2>2, ExecInvInit DEF MutualInv
  <1>2. MutualInv /\ [ExecNext]_allVars => MutualInv'
    BY MutualInvStep, ExecutorConstants, StoreConstants
  <1>3. MutualInv => MutualEdges
    <2>1. ASSUME NEW s, NEW t PROVE Owed(s, t) = OwedIn(plan, s, t)
      BY DEF Owed, OwedIn, Due, DueIn, Updates
    <2>2. QED
      BY <2>1 DEF MutualInv, Balanced, Balance, MutualEdges
  <1>4. QED
    BY <1>1, <1>2, <1>3, PTL DEF ExecSpec
-----------------------------------------------------------------------------
(* One process that merges.                                                *)

\* A merged text mentions what its parts mention.
JoinKeepsMentions ==
  \A S \in (SUBSET Content) \ {{}} : \A c \in S : Mentions[c] \subseteq Mentions[Join[S]]

\* What is still archived was merged into one live memory.
MergedInto(m, mutations) ==
  \A i \in DOMAIN mutations :
    \E n \in Written \ {m} : mutations[i] = ArchiveMemory(n) /\ links[n] \subseteq links[m]

\* A merge of live memories has not begun.
NotBegun(mutations) ==
  \E ids \in Seq(Live) :
    IsInjective(ids) /\ Len(ids) >= 2 /\ mutations = MergePlan(ids)

\* What the plan of the process is at any time.
PlanIsSafe(mutations) ==
  \/ mutations = <<>>
  \/ \E c \in Content : mutations = <<InsertMemory(c)>>
  \/ NotBegun(mutations)
  \/ \E m \in Live : MergedInto(m, mutations)

AloneInv ==
  /\ ExecInv /\ LinksFollowContent /\ MergeLosesNoEntity
  /\ \A p \in Proc : checking[p] = <<>> /\ PlanIsSafe(plan[p])

\* The first mutation of a merge and the others.
LEMMA MergePlanParts ==
  ASSUME NEW S, NEW ids \in Seq(S), Len(ids) >= 2
  PROVE  LET text == Join[{content[ids[i]] : i \in DOMAIN ids}] IN
           /\ MergePlan(ids) # <<>>
           /\ Head(MergePlan(ids)) = UpdateMemory(ids[1], text)
           /\ DOMAIN Tail(MergePlan(ids)) = 1 .. Len(ids) - 1
           /\ \A i \in 1 .. Len(ids) - 1 : Tail(MergePlan(ids))[i] = ArchiveMemory(ids[i + 1])
  <1> DEFINE text == Join[{content[ids[i]] : i \in DOMAIN ids}]
             first == UpdateMemory(ids[1], text)
             k == Len(ids) - 1
             back == [i \in 1 .. k |-> ArchiveMemory(ids[i + 1])]
             X == {first} \cup {back[i] : i \in 1 .. k}
             whole == <<first>> \o back
  <1>1. k \in Nat /\ MergePlan(ids) = whole
    BY LenProperties DEF MergePlan
  <1>2. \A i \in 1 .. k : back[i] = ArchiveMemory(ids[i + 1])
    OBVIOUS
  <1>3. back \in [1 .. k -> X] /\ first \in X
    OBVIOUS
  <1> HIDE DEF first, back, X, k
  <1>4. back \in Seq(X) /\ Len(back) = k
    BY <1>1, <1>3, SequenceOfLength
  <1>5. <<first>> \in Seq(X) /\ Len(<<first>>) = 1 /\ <<first>>[1] = first
    BY <1>3
  <1>6. /\ whole \in Seq(X) /\ Len(whole) = 1 + k
        /\ whole[1] = first /\ \A i \in 1 .. k : whole[i + 1] = back[i]
    <2> DEFINE one == <<first>>
    <2>1. one \in Seq(X) /\ Len(one) = 1 /\ one[1] = first
      BY <1>5
    <2> HIDE DEF one
    <2>2. /\ one \o back \in Seq(X) /\ Len(one \o back) = Len(one) + Len(back)
          /\ \A i \in 1 .. Len(one) + Len(back) :
               (one \o back)[i] = IF i <= Len(one) THEN one[i] ELSE back[i - Len(one)]
      BY <1>4, <2>1, ConcatProperties
    <2> DEFINE w == one \o back
    <2> HIDE DEF w
    <2>3. w \in Seq(X) /\ Len(w) = 1 + k
          /\ \A i \in 1 .. 1 + k : w[i] = IF i <= 1 THEN one[i] ELSE back[i - 1]
      BY <1>4, <2>1, <2>2 DEF w
    <2>4. w[1] = first
      BY <1>1, <2>1, <2>3
    <2>5. ASSUME NEW i \in 1 .. k PROVE w[i + 1] = back[i]
      <3>1. i + 1 \in 1 .. 1 + k /\ ~(i + 1 <= 1) /\ (i + 1) - 1 = i
        BY <1>1
      <3>2. QED
        BY <2>3, <3>1
    <2>6. QED
      BY <2>3, <2>4, <2>5 DEF w, one
  <1> HIDE DEF whole
  <1>7. /\ whole # <<>> /\ Head(whole) = first
        /\ DOMAIN Tail(whole) = 1 .. k
        /\ \A i \in 1 .. k : Tail(whole)[i] = whole[i + 1]
    BY <1>1, <1>6
  <1>8. QED
    BY <1>1, <1>2, <1>6, <1>7 DEF first, k

\* Steps that write a new memory lose nothing, and leave the plan safe.
LEMMA WriteIsSafe ==
  ASSUME TypeOK, MergeLosesNoEntity, NEW m \in MemoryId, NEW c \in Content, Write(m, c)
  PROVE  /\ MergeLosesNoEntity'
         /\ \A mutations : PlanIsSafe(mutations) => PlanIsSafe(mutations)'
  <1>1. /\ m \notin Written /\ m \notin Live /\ Live' = Live \cup {m} /\ Written \subseteq Written'
        /\ links'[m] = Mentions[c] /\ entities' = entities \cup Mentions[c]
        /\ \A n \in MemoryId \ {m} : links'[n] = links[n] /\ content'[n] = content[n]
    BY DEF Write, LinkEntities, TypeOK, Written, Live
  <1>2. \A n \in Live : n \in MemoryId \ {m}
    BY <1>1 DEF Live
  <1>3. MergeLosesNoEntity'
    <2> SUFFICES ASSUME NEW e \in entities' PROVE \E n \in Live' : e \in links'[n]
      BY DEF MergeLosesNoEntity
    <2>1. CASE e \in Mentions[c]
      BY <1>1, <2>1
    <2>2. CASE e \in entities
      <3>1. PICK n \in Live : e \in links[n]
        BY <2>2 DEF MergeLosesNoEntity
      <3>2. QED
        BY <1>1, <1>2, <3>1
    <2>3. QED
      BY <1>1, <2>1, <2>2
  <1>4. ASSUME NEW mutations, NotBegun(mutations)
        PROVE  NotBegun(mutations)'
    <2>1. PICK ids \in Seq(Live) : IsInjective(ids) /\ Len(ids) >= 2 /\ mutations = MergePlan(ids)
      BY <1>4 DEF NotBegun
    <2>2. ids \in Seq(Live')
      BY <1>1
    <2>3. \A i \in DOMAIN ids : content'[ids[i]] = content[ids[i]]
      BY <1>1, <1>2
    <2>4. {content'[ids[i]] : i \in DOMAIN ids} = {content[ids[i]] : i \in DOMAIN ids}
      BY <2>3
    <2>5. MergePlan(ids)' = MergePlan(ids)
      BY <2>4 DEF MergePlan
    <2>6. QED
      BY <2>1, <2>2, <2>5 DEF NotBegun
  <1>5. ASSUME NEW mutations, NEW n \in Live, MergedInto(n, mutations)
        PROVE  MergedInto(n, mutations)'
    <2>1. \A k \in Written : k \in MemoryId \ {m} /\ links'[k] = links[k]
      BY <1>1 DEF Written
    <2>2. links'[n] = links[n]
      BY <1>1, <1>2
    <2>3. QED
      BY <1>1, <1>5, <2>1, <2>2 DEF MergedInto
  <1>6. \A mutations : PlanIsSafe(mutations) => PlanIsSafe(mutations)'
    BY <1>1, <1>4, <1>5 DEF PlanIsSafe
  <1>7. QED
    BY <1>3, <1>6

\* The first step of a merge: the primary gets what all mention.
LEMMA MergeBegins ==
  ASSUME JoinKeepsMentions, TypeOK, LinksFollowContent, MergeLosesNoEntity,
         NEW CONSTANT ids, NEW CONSTANT rest,
         ids \in Seq(Live), IsInjective(ids), Len(ids) >= 2, rest = Tail(MergePlan(ids)),
         UpdateContent(ids[1], Join[{content[ids[i]] : i \in DOMAIN ids}])
  PROVE  /\ MergeLosesNoEntity'
         /\ ids[1] \in Live'
         /\ MergedInto(ids[1], rest)'
  <1> DEFINE contents == {content[ids[i]] : i \in DOMAIN ids}
             text == Join[contents]
             m == ids[1]
             n == Len(ids)
  <1>1. n \in Nat /\ DOMAIN ids = 1 .. n /\ \A i \in 1 .. n : ids[i] \in Live
    BY LenProperties, ElementOfSeq
  <1>2. \A i \in 1 .. n : ids[i] \in Written /\ ids[i] \in MemoryId /\ content[ids[i]] \in Content
                          /\ links[ids[i]] = Mentions[content[ids[i]]]
    BY <1>1 DEF Live, Written, TypeOK, LinksFollowContent
  <1>3. contents \in (SUBSET Content) \ {{}}
    <2>1. 1 \in DOMAIN ids
      BY <1>1
    <2>2. contents \subseteq Content /\ content[ids[1]] \in contents
      BY <1>1, <1>2, <2>1
    <2>3. QED
      BY <2>2
  <1>4. \A i \in 1 .. n : links[ids[i]] \subseteq Mentions[text]
    <2> TAKE i \in 1 .. n
    <2>1. content[ids[i]] \in contents
      BY <1>1
    <2> HIDE DEF contents
    <2>2. QED
      BY <1>2, <1>3, <2>1 DEF JoinKeepsMentions
  <1>5. m \in Live /\ m \in MemoryId /\ links[m] \subseteq Mentions[text]
    <2> HIDE DEF text
    <2>1. 1 \in 1 .. n
      BY <1>1
    <2>2. QED
      BY <1>1, <1>2, <1>4, <2>1
  <1>6. /\ Live' = Live /\ Written' = Written
        /\ links'[m] = Mentions[text] /\ entities' = entities \cup Mentions[text]
        /\ \A k \in MemoryId \ {m} : links'[k] = links[k]
    BY <1>5 DEF UpdateContent, LinkEntities, TypeOK, Live, Written
  <1>7. MergeLosesNoEntity'
    <2> HIDE DEF text, m
    <2> SUFFICES ASSUME NEW e \in entities' PROVE \E k \in Live' : e \in links'[k]
      BY DEF MergeLosesNoEntity
    <2>1. CASE e \in Mentions[text]
      BY <1>5, <1>6, <2>1
    <2>2. CASE e \notin Mentions[text]
      <3>1. PICK k \in Live : e \in links[k]
        BY <1>6, <2>2 DEF MergeLosesNoEntity
      <3>2. k # m /\ k \in MemoryId
        BY <1>5, <2>2, <3>1 DEF Live
      <3>3. QED
        BY <1>6, <3>1, <3>2
    <2>3. QED
      BY <2>1, <2>2
  <1>8. ASSUME NEW i \in 1 .. n - 1
        PROVE  /\ ids[i + 1] \in Written' \ {m}
               /\ links'[ids[i + 1]] \subseteq links'[m]
    <2>1. i + 1 \in 1 .. n /\ 1 \in 1 .. n /\ i + 1 # 1
      BY <1>1
    <2>2. ids[i + 1] # m
      BY <1>1, <2>1 DEF IsInjective
    <2>3. ids[i + 1] \in Written /\ ids[i + 1] \in MemoryId /\ links[ids[i + 1]] \subseteq Mentions[text]
      BY <1>2, <1>4, <2>1
    <2> HIDE DEF text, m
    <2>4. QED
      BY <1>6, <2>2, <2>3
  <1>9. /\ DOMAIN rest = 1 .. n - 1
        /\ \A i \in 1 .. n - 1 : rest[i] = ArchiveMemory(ids[i + 1])
    BY MergePlanParts
  <1>10. MergedInto(m, rest)'
    <2> HIDE DEF m, n, text, contents
    <2>1. ASSUME NEW i \in DOMAIN rest
          PROVE  \E k \in Written' \ {m} : rest[i] = ArchiveMemory(k) /\ links'[k] \subseteq links'[m]
      <3>1. i \in 1 .. n - 1
        BY <1>9
      <3> DEFINE k == ids[i + 1]
      <3>2. k \in Written' \ {m} /\ links'[k] \subseteq links'[m] /\ rest[i] = ArchiveMemory(k)
        BY <1>8, <1>9, <3>1
      <3> HIDE DEF k
      <3>3. QED
        BY <3>2
    <2>2. QED
      BY <2>1 DEF MergedInto
  <1>11. QED
    BY <1>5, <1>6, <1>7, <1>10

\* Archiving what was merged into a live memory loses nothing.
LEMMA ArchiveIsSafe ==
  ASSUME TypeOK, MergeLosesNoEntity,
         NEW m \in Live, NEW n \in Written \ {m}, links[n] \subseteq links[m],
         Invalidate(n)
  PROVE  /\ MergeLosesNoEntity'
         /\ m \in Live'
  <1>1. /\ Live' = Live \ {n} /\ m \in Live' /\ links' = links /\ entities' = entities
    BY DEF Invalidate, TypeOK, Live, Written, linkVars
  <1>2. ASSUME NEW e \in entities PROVE \E k \in Live \ {n} : e \in links[k]
    <2>1. PICK k \in Live : e \in links[k]
      BY DEF MergeLosesNoEntity
    <2>2. QED
      BY <1>1, <2>1
  <1>3. QED
    BY <1>1, <1>2 DEF MergeLosesNoEntity

\* The tail of a list holds elements of it.
LEMMA MergedRest ==
  ASSUME NEW S, NEW mutations \in Seq(S), mutations # <<>>, NEW m, MergedInto(m, mutations)
  PROVE  /\ \E n \in Written \ {m} : /\ Head(mutations) = ArchiveMemory(n)
                                      /\ links[n] \subseteq links[m]
         /\ MergedInto(m, Tail(mutations))
  <1>1. 1 \in DOMAIN mutations /\ Head(mutations) = mutations[1]
    BY EmptySeq, LenProperties
  <1>2. ASSUME NEW i \in DOMAIN Tail(mutations)
        PROVE  i + 1 \in DOMAIN mutations /\ Tail(mutations)[i] = mutations[i + 1]
    BY HeadTailProperties, LenProperties
  <1>3. QED
    BY <1>1, <1>2 DEF MergedInto

\* Steps of a plan: a merge begins, goes on, or meets a memory that is gone.
LEMMA AloneExecute ==
  ASSUME JoinKeepsMentions, AloneInv, NEW p \in Proc, Execute(p),
         NEW CONSTANT mutations, NEW CONSTANT rest,
         mutations = plan[p], rest = Tail(mutations)
  PROVE  MergeLosesNoEntity' /\ PlanIsSafe(rest)'
  <1>1. /\ mutations # <<>> /\ mutations \in Seq(Mutation)
        /\ PlanIsSafe(mutations)
        /\ TypeOK /\ LinksFollowContent /\ MergeLosesNoEntity
    BY DEF Execute, AloneInv, ExecInv, ExecTypes
  <1>2. \/ Needs(Head(mutations)) \subseteq Live /\ Perform(Head(mutations))
        \/ ~(Needs(Head(mutations)) \subseteq Live) /\ UNCHANGED vars
    BY DEF Execute
  <1>3. ASSUME NEW c \in Content, mutations = <<InsertMemory(c)>>
        PROVE  MergeLosesNoEntity' /\ PlanIsSafe(rest)'
    <2>1. Head(mutations) = InsertMemory(c) /\ rest = <<>>
      BY <1>3
    <2>2. UNCHANGED vars \/ \E m \in MemoryId : Write(m, c)
      BY <1>2, <2>1 DEF Perform, InsertMemory
    <2>3. MergeLosesNoEntity'
      <3>1. CASE UNCHANGED vars
        BY <1>1, <3>1 DEF vars, linkVars, memoryVars, MergeLosesNoEntity, Live
      <3>2. QED
        BY <1>1, <2>2, <3>1, WriteIsSafe
    <2>4. QED
      BY <1>1, <2>1, <2>3 DEF PlanIsSafe
  <1>4. ASSUME NEW CONSTANT ids \in Seq(Live), IsInjective(ids), Len(ids) >= 2,
               mutations = MergePlan(ids)
        PROVE  MergeLosesNoEntity' /\ PlanIsSafe(rest)'
    <2> DEFINE text == Join[{content[ids[i]] : i \in DOMAIN ids}]
    <2>1. Head(mutations) = UpdateMemory(ids[1], text)
      BY <1>4, MergePlanParts
    <2>2. ids[1] \in Live
      BY <1>4, ElementOfSeq, LenProperties
    <2>3. Needs(Head(mutations)) = {ids[1]}
      BY <2>1 DEF Needs, UpdateMemory
    <2>4. UpdateContent(ids[1], text)
      <3> HIDE DEF text
      <3>1. /\ Head(mutations).op = "UpdateMemory"
            /\ Head(mutations).id = ids[1] /\ Head(mutations).content = text
        BY <2>1 DEF UpdateMemory
      <3>2. Perform(Head(mutations))
        BY <1>2, <2>2, <2>3
      <3>3. QED
        BY <3>1, <3>2 DEF Perform
    <2>5. MergeLosesNoEntity' /\ ids[1] \in Live' /\ MergedInto(ids[1], rest)'
      BY <1>1, <1>4, <2>4, MergeBegins
    <2>6. QED
      BY <2>5 DEF PlanIsSafe
  <1>5. ASSUME NEW m \in Live, MergedInto(m, mutations)
        PROVE  MergeLosesNoEntity' /\ PlanIsSafe(rest)'
    <2>1. PICK n \in Written \ {m} : Head(mutations) = ArchiveMemory(n) /\ links[n] \subseteq links[m]
      BY <1>1, <1>5, MergedRest
    <2>2. MergedInto(m, rest)
      BY <1>1, <1>5, MergedRest
    <2>3. UNCHANGED vars \/ Invalidate(n)
      BY <1>2, <2>1 DEF Perform, ArchiveMemory
    <2>4. MergeLosesNoEntity' /\ m \in Live' /\ UNCHANGED links /\ Written \subseteq Written'
      <3>1. CASE UNCHANGED vars
        BY <1>1, <3>1 DEF vars, linkVars, memoryVars, MergeLosesNoEntity, Live, Written
      <3>2. CASE Invalidate(n)
        <4>1. UNCHANGED links /\ Written \subseteq Written'
          BY <1>1, <2>1, <3>2 DEF Invalidate, linkVars, Written, TypeOK
        <4>2. QED
          BY <1>1, <2>1, <3>2, <4>1, ArchiveIsSafe
      <3>3. QED
        BY <2>3, <3>1, <3>2
    <2>5. MergedInto(m, rest)'
      BY <2>2, <2>4 DEF MergedInto
    <2>6. QED
      BY <2>4, <2>5 DEF PlanIsSafe
  <1>6. QED
    BY <1>1, <1>3, <1>4, <1>5 DEF PlanIsSafe, NotBegun

\* A process that merges alone keeps the invariant.
LEMMA AloneInvStep ==
  ASSUME JoinKeepsMentions, ExecutorConstants, NEW CONSTANT p, Proc = {p},
         Producer \subseteq {"promote", "merge"}, Faults \subseteq {"crash"},
         AloneInv, [ExecNext]_allVars
  PROVE  AloneInv'
  <1>1. ExecInv' /\ LinksFollowContent'
    BY ExecInvStep, ExecStepIsStoreStep, LinksStep DEF AloneInv, ExecInv
  <1>2. /\ TypeOK /\ MergeLosesNoEntity /\ checking[p] = <<>> /\ PlanIsSafe(plan[p])
        /\ plan \in [Proc -> Seq(Mutation)]
    BY DEF AloneInv, ExecInv, ExecTypes
  <1>3. ASSUME MergeLosesNoEntity', checking'[p] = <<>>, PlanIsSafe(plan[p])'
        PROVE  AloneInv'
    BY <1>1, <1>3 DEF AloneInv
  <1>4. ASSUME NEW CONSTANT mutations, PlanIsSafe(mutations), UNCHANGED <<vars, checking>>,
               plan'[p] = mutations
        PROVE  AloneInv'
    <2>1. MergeLosesNoEntity' /\ checking'[p] = <<>>
      BY <1>2, <1>4 DEF vars, linkVars, memoryVars, MergeLosesNoEntity, Live
    <2>2. UNCHANGED <<Live, Written, content, links>>
      BY <1>4 DEF Live, Written, vars, memoryVars, linkVars
    <2>3. NotBegun(mutations) => NotBegun(mutations)'
      <3>1. \A ids : MergePlan(ids)' = MergePlan(ids)
        BY <2>2 DEF MergePlan
      <3>2. QED
        BY <2>2, <3>1 DEF NotBegun
    <2>4. PlanIsSafe(mutations)'
      BY <1>4, <2>2, <2>3 DEF PlanIsSafe, MergedInto
    <2>5. PlanIsSafe(plan[p])'
      BY <1>4, <2>4
    <2>6. QED
      BY <1>3, <2>1, <2>5
  <1>5. ASSUME NEW CONSTANT mutations, PlanIsSafe(mutations), Submit(p, mutations)
        PROVE  AloneInv'
    BY <1>2, <1>4, <1>5 DEF Submit
  <1>6. ASSUME NEW m \in MemoryId, NEW c \in Content, ClientWrite(m, c)
        PROVE  AloneInv'
    <2> DEFINE mutations == plan[p]
    <2>1. UNCHANGED <<plan, checking>> /\ Write(m, c)
      BY <1>6 DEF ClientWrite, execVars
    <2>2. MergeLosesNoEntity' /\ (\A list : PlanIsSafe(list) => PlanIsSafe(list)')
      BY <1>2, <2>1, WriteIsSafe
    <2>3. QED
      BY <1>2, <1>3, <2>1, <2>2
  <1>7. ASSUME NEW c \in Content, Promote(p, c)
        PROVE  AloneInv'
    <2>1. PlanIsSafe(PromotePlan(c))
      BY DEF PlanIsSafe, PromotePlan
    <2>2. QED
      BY <1>5, <1>7, <2>1 DEF Promote
  <1>8. ASSUME NEW S \in SUBSET Live, Merge(p, S)
        PROVE  AloneInv'
    <2>1. PICK ids \in SetToSeqs(S) : Submit(p, MergePlan(ids))
      BY <1>8 DEF Merge
    <2>2. ids \in Seq(Live) /\ IsInjective(ids) /\ Len(ids) >= 2
      <3> DEFINE n == Cardinality(S)
      <3>1. IsFiniteSet(S)
        <4>1. S \subseteq Written /\ IsFiniteSet(Written)
          BY DEF Live, Written, AloneInv, ExecInv
        <4>2. QED
          BY <4>1, FS_Subset
      <3>2. n \in Nat /\ n >= 2 /\ ids \in [1 .. n -> Live] /\ IsInjective(ids)
        BY <1>8, <3>1, FS_CardinalityType DEF Merge, SetToSeqs, IsInjective
      <3> HIDE DEF n
      <3>3. ids \in Seq(Live) /\ Len(ids) = n
        BY <3>2, SequenceOfLength
      <3>4. QED
        BY <3>2, <3>3
    <2>3. PlanIsSafe(MergePlan(ids))
      BY <2>2 DEF PlanIsSafe, NotBegun
    <2>4. QED
      BY <1>5, <2>1, <2>3
  <1>9. ASSUME Execute(p)
        PROVE  AloneInv'
    <2>1. plan'[p] = Tail(plan[p]) /\ UNCHANGED checking
      BY <1>2, <1>9 DEF Execute
    <2>2. QED
      BY <1>2, <1>3, <1>9, <2>1, AloneExecute
  <1>10. ASSUME Crash(p)
         PROVE  AloneInv'
    <2>1. plan'[p] = <<>> /\ UNCHANGED <<vars, checking>>
      BY <1>2, <1>10 DEF Crash, Fault
    <2>2. PlanIsSafe(<<>>)
      BY DEF PlanIsSafe
    <2>3. QED
      BY <1>4, <2>1, <2>2
  <1>11. CASE UNCHANGED allVars
    <2>1. UNCHANGED <<vars, checking, plan>>
      BY <1>11 DEF allVars, execVars
    <2>2. QED
      BY <1>2, <1>4, <2>1
  <1>12. QED
    BY <1>2, <1>6, <1>7, <1>8, <1>9, <1>10, <1>11
    DEF ExecNext, Forget, Reinforce, MayCall, Check, Busy, Fault

\* When one process merges, and dies as it likes, each entity that was ever
\* mentioned stays mentioned by a valid memory: dispatch_merge_lifecycle
\* updates the primary before it archives the others.
THEOREM ExecutorMergeLosesNoEntity ==
  ASSUME NEW CONSTANT p, Proc = {p}, Producer \subseteq {"promote", "merge"},
         Faults \subseteq {"crash"}, JoinKeepsMentions
  PROVE  ExecSpec => []MergeLosesNoEntity
  <1>1. ExecInit => AloneInv
    <2> SUFFICES ASSUME ExecInit PROVE AloneInv
      OBVIOUS
    <2>1. /\ plan = [q \in Proc |-> <<>>] /\ checking = [q \in Proc |-> <<>>]
          /\ entities = {} /\ Written = {}
      BY DEF ExecInit, Init, Written
    <2>2. QED
      BY <2>1, ExecInvInit DEF AloneInv, PlanIsSafe, MergeLosesNoEntity, LinksFollowContent
  <1>2. AloneInv /\ [ExecNext]_allVars => AloneInv'
    BY AloneInvStep, ExecutorConstants
  <1>3. AloneInv => MergeLosesNoEntity
    BY DEF AloneInv
  <1>4. QED
    BY <1>1, <1>2, <1>3, PTL DEF ExecSpec
=============================================================================
