-------------------------------- MODULE Store --------------------------------
(***************************************************************************)
(* The SQLite store of crates/core/src/store: the tables of one database   *)
(* file and the operations `impl Store` performs on them.                  *)
(*                                                                         *)
(* Every operation runs in one SQLite transaction, so it is one action: a  *)
(* call that returns an error rolls its transaction back and is a          *)
(* stuttering step.  The connections of several processes (the CLI, the    *)
(* MCP server) interleave at this granularity.                             *)
(*                                                                         *)
(* Left out: kind, scope, source, confidence, importance, actor and the    *)
(* timestamps, which no operation of the store reads back to decide what   *)
(* to write.  FTS5 and vec0 are SQLite extensions: `fts` and `vec` hold    *)
(* what the code puts into them.                                           *)
(***************************************************************************)
EXTENDS Integers, Sequences, FiniteSets

CONSTANTS
  MemoryId,    \* ULIDs that calls of write may draw
  Content,     \* memory contents
  Entity,      \* (type, normalized) pairs extract::extract can return
  Mentions,    \* extract::extract: the entities of each content
  NoContent,   \* "no row", and the payload '{}' of an INVALIDATE event
  Delta,       \* weight_delta arguments of update_edge
  MaxEvents,   \* bound: length of the event log
  MaxAccess,   \* bound: access_count
  MaxWeight    \* bound: absolute value of an edge weight

ASSUME StoreConstants ==
  /\ Mentions \in [Content -> SUBSET Entity]
  /\ NoContent \notin Content
  /\ Delta \subseteq Int
  /\ MaxEvents \in Nat
  /\ MaxAccess \in Nat
  /\ MaxWeight \in Nat

VARIABLES
  status,      \* memories: "absent", "live" (valid_to IS NULL) or "invalid"
  content,     \* memories.content
  accesses,    \* memories.access_count
  fts,         \* memories_fts: <<memory, content>> postings
  links,       \* memory_entities: the entities each memory mentions
  entities,    \* entities: the rows that exist
  edges,       \* memory_edges: the (source, target) rows that exist
  weight,      \* memory_edges.weight
  emb,         \* embedding_state.status, "none" when there is no row
  vec,         \* memory_vecs: the content whose embedding is stored
  events       \* events: the append-only log

memoryVars == <<status, content, accesses, fts>>
linkVars   == <<links, entities>>
edgeVars   == <<edges, weight>>
embVars    == <<emb, vec>>
vars       == <<memoryVars, linkVars, edgeVars, embVars, events>>

Status  == {"absent", "live", "invalid"}
Event   ==
  [kind : {"ADD", "UPDATE"}, memory : MemoryId, content : Content]
    \cup [kind : {"INVALIDATE"}, memory : MemoryId, content : {NoContent}]

Written == {m \in MemoryId : status[m] # "absent"}

\* Mutant: memory_exists without `valid_to IS NULL`.
LiveOrInvalid == {m \in MemoryId : status[m] # "absent"}

Live    == {m \in MemoryId : status[m] = "live"}

Init ==
  /\ status   = [m \in MemoryId |-> "absent"]
  /\ content  = [m \in MemoryId |-> NoContent]
  /\ accesses = [m \in MemoryId |-> 0]
  /\ fts      = {}
  /\ links    = [m \in MemoryId |-> {}]
  /\ entities = {}
  /\ edges    = {}
  /\ weight   = [e \in MemoryId \X MemoryId |-> 0]
  /\ emb      = [m \in MemoryId |-> "none"]
  /\ vec      = [m \in MemoryId |-> NoContent]
  /\ events   = <<>>

-----------------------------------------------------------------------------
(* Pieces the operations share.                                            *)

\* Mutant: the payload is taken from the row before the statement changes it.
LogEventStale(kind, m, c) ==
  /\ Len(events) < MaxEvents
  /\ events' = Append(events, [kind |-> kind, memory |-> m, content |-> content[m]])

\* INSERT INTO events, with the memory as the payload of ADD and UPDATE.
LogEvent(kind, m, c) ==
  /\ Len(events) < MaxEvents
  /\ events' = Append(events, [kind |-> kind, memory |-> m, content |-> c])

\* Mutant: the trigger lacks the delete of the old posting.
ReindexAddOnly(S) == fts' = fts \cup {<<m, content'[m]>> : m \in S}

\* The trigger memories_au, which fires on every UPDATE of the rows in S:
\* it deletes the posting of the old content and inserts the new one.
Reindex(S) ==
  fts' = (fts \ {<<m, content[m]>> : m \in S}) \cup {<<m, content'[m]>> : m \in S}

\* INSERT OR IGNORE INTO entities and memory_entities for what c mentions.
LinkEntities(m, c) ==
  /\ entities' = entities \cup Mentions[c]
  /\ links' = [links EXCEPT ![m] = Mentions[c]]

-----------------------------------------------------------------------------
(* The operations.                                                         *)

\* Store::write: a fresh ULID, a row, its entities, an ADD event, and a
\* pending embedding.
Write(m, c) ==
  /\ status[m] = "absent"
  /\ LogEvent("ADD", m, c)
  /\ status' = [status EXCEPT ![m] = "live"]
  /\ content' = [content EXCEPT ![m] = c]
  /\ fts' = fts \cup {<<m, c>>}
  /\ LinkEntities(m, c)
  /\ emb' = [emb EXCEPT ![m] = "pending"]
  /\ UNCHANGED <<accesses, edgeVars, vec>>

\* Store::update_content: rewrites the content and the links, drops the
\* vector and asks for a new one, and logs an UPDATE event.
UpdateContent(m, c) ==
  /\ status[m] = "live"
  /\ LogEvent("UPDATE", m, c)
  /\ content' = [content EXCEPT ![m] = c]
  /\ Reindex({m})
  /\ LinkEntities(m, c)
  /\ vec' = [vec EXCEPT ![m] = NoContent]
  /\ emb' = [emb EXCEPT ![m] = "pending"]
  /\ UNCHANGED <<status, accesses, edgeVars>>

\* Mutant: the UPDATE lacks `AND valid_to IS NULL`.
InvalidateAgain(m) ==
  /\ status[m] # "absent"
  /\ LogEvent("INVALIDATE", m, NoContent)
  /\ status' = [status EXCEPT ![m] = "invalid"]
  /\ UNCHANGED content
  /\ Reindex({m})
  /\ UNCHANGED <<accesses, linkVars, edgeVars, embVars>>

\* Store::invalidate: closes the validity interval and logs it.  The links,
\* the edges and the embedding stay where they are.
Invalidate(m) ==
  /\ status[m] = "live"
  /\ LogEvent("INVALIDATE", m, NoContent)
  /\ status' = [status EXCEPT ![m] = "invalid"]
  /\ UNCHANGED content
  /\ Reindex({m})
  /\ UNCHANGED <<accesses, linkVars, edgeVars, embVars>>

\* Mutant: the upsert replaces the weight.
UpdateEdgeReplacing(s, t, d) ==
  /\ {s, t} \subseteq Live
  /\ edges' = edges \cup {<<s, t>>}
  /\ weight' = [weight EXCEPT ![<<s, t>>] = d]
  /\ UNCHANGED <<memoryVars, linkVars, embVars, events>>

\* Store::update_edge: an upsert that adds the delta, once both end points
\* are found live in the same transaction.  It is not logged.
UpdateEdge(s, t, d) ==
  /\ {s, t} \subseteq Live
  /\ weight[<<s, t>>] + d \in -MaxWeight .. MaxWeight
  /\ edges' = edges \cup {<<s, t>>}
  /\ weight' = [weight EXCEPT ![<<s, t>>] = @ + d]
  /\ UNCHANGED <<memoryVars, linkVars, embVars, events>>

\* Mutant: the row is marked done, the vector is not stored.
PutEmbeddingStateOnly(m, c) ==
  /\ status[m] # "absent"
  /\ emb' = [emb EXCEPT ![m] = "done"]
  /\ UNCHANGED <<memoryVars, linkVars, edgeVars, vec, events>>

\* Store::put_embedding: stores a vector computed from c, whatever the
\* memory has become since.  The foreign key of embedding_state is the only
\* condition.
PutEmbedding(m, c) ==
  /\ status[m] # "absent"
  /\ vec' = [vec EXCEPT ![m] = c]
  /\ emb' = [emb EXCEPT ![m] = "done"]
  /\ UNCHANGED <<memoryVars, linkVars, edgeVars, events>>

\* Store::record_access: bumps the rows that exist, live or not.
RecordAccess(S) ==
  /\ S # {}
  /\ \A m \in S : accesses[m] < MaxAccess
  /\ accesses' = [m \in MemoryId |->
                    IF m \in S \cap Written THEN accesses[m] + 1 ELSE accesses[m]]
  /\ UNCHANGED content
  /\ Reindex(S \cap Written)
  /\ UNCHANGED <<status, linkVars, edgeVars, embVars, events>>

-----------------------------------------------------------------------------
(* What the callers may pass: an embedding is computed from a content that *)
(* pending_embeddings returned, so one the memory has or once had; every   *)
(* producer of edges pairs distinct memories; recall records the access of *)
(* memories it found.                                                      *)

HeldContents(m) ==
  {events[i].content : i \in {j \in 1 .. Len(events) :
                                /\ events[j].memory = m
                                /\ events[j].kind # "INVALIDATE"}}

Next ==
  \/ \E m \in MemoryId, c \in Content : Write(m, c)
  \/ \E m \in MemoryId, c \in Content : UpdateContent(m, c)
  \/ \E m \in MemoryId : Invalidate(m)
  \/ \E s, t \in MemoryId, d \in Delta : s # t /\ UpdateEdge(s, t, d)
  \/ \E m \in MemoryId : \E c \in HeldContents(m) : PutEmbedding(m, c)
  \/ \E S \in SUBSET Written : RecordAccess(S)

Spec == Init /\ [][Next]_vars

-----------------------------------------------------------------------------
(* Queries.                                                                *)

\* Store::pending_embeddings, without its order and limit.
PendingEmbeddings == {m \in Live : emb[m] = "pending"}

-----------------------------------------------------------------------------
(* Properties.                                                             *)

\* Every table holds rows of its type.
TypeOK ==
  /\ status \in [MemoryId -> Status]
  /\ content \in [MemoryId -> Content \cup {NoContent}]
  /\ \A m \in Written : content[m] \in Content
  /\ accesses \in [MemoryId -> 0 .. MaxAccess]
  /\ fts \subseteq MemoryId \X Content
  /\ links \in [MemoryId -> SUBSET Entity]
  /\ entities \subseteq Entity
  /\ edges \subseteq MemoryId \X MemoryId
  /\ weight \in [MemoryId \X MemoryId -> -MaxWeight .. MaxWeight]
  /\ emb \in [MemoryId -> {"none", "pending", "done"}]
  /\ vec \in [MemoryId -> Content \cup {NoContent}]
  /\ events \in Seq(Event)
  /\ Len(events) <= MaxEvents

\* Events of m, by their place in the log.
EventsOf(m)   == {i \in 1 .. Len(events) : events[i].memory = m}
PayloadsOf(m) == {i \in EventsOf(m) : events[i].kind # "INVALIDATE"}
ClosingsOf(m) == {i \in EventsOf(m) : events[i].kind = "INVALIDATE"}

\* The log alone tells the memories table: a memory exists iff it was added
\* and has no event before that, is invalid iff an INVALIDATE event names
\* it, and its content is the payload of its last ADD or UPDATE event.
LogReplaysMemories ==
  \A m \in MemoryId :
    /\ status[m] = "absent" => EventsOf(m) = {}
    /\ status[m] # "absent" => \E i \in EventsOf(m) : events[i].kind = "ADD"
    /\ status[m] = "invalid" <=> ClosingsOf(m) # {}
    /\ \A i \in PayloadsOf(m) :
         (\A j \in PayloadsOf(m) : j <= i) => events[i].content = content[m]

\* The full-text index holds exactly the current content of every memory,
\* whatever statement last updated its row: one stale posting would make
\* search_fts return a memory for words it no longer contains.
FtsFollowsContent ==
  fts = {<<m, content[m]>> : m \in Written}

\* memory_entities holds exactly what the current content mentions, and
\* each entity it refers to exists (the foreign key and the SELECT id after
\* the INSERT OR IGNORE need it).
LinksFollowContent ==
  \A m \in Written : links[m] = Mentions[content[m]] /\ links[m] \subseteq entities

\* Both things derived from the content follow it through every call.
IndexesFollowContent == FtsFollowsContent /\ LinksFollowContent

\* embedding_state and memory_vecs tell the same story, and a live memory
\* without a vector is offered to the backfill: no order of writes, updates
\* and late embeddings leaves one that vector recall can never find.
NoLiveMemoryForgotten ==
  /\ \A m \in MemoryId : /\ emb[m] = "none" <=> m \notin Written
                         /\ emb[m] = "done" <=> vec[m] # NoContent
  /\ \A m \in Live : vec[m] = NoContent => m \in PendingEmbeddings

\* A memory that is invalid stays so, with the content, links and edges it
\* had: no later call resurrects it, rewrites it or strengthens an edge of
\* it.  The source of truth for what was once believed is history.
InvalidIsFrozen ==
  [][\A m \in MemoryId : status[m] = "invalid" =>
       /\ status'[m] = "invalid"
       /\ content'[m] = content[m]
       /\ links'[m] = links[m]
       /\ \A n \in MemoryId : /\ weight'[<<m, n>>] = weight[<<m, n>>]
                              /\ weight'[<<n, m>>] = weight[<<n, m>>]]_vars

\* "Append-only with bi-temporal stamps - memories are never overwritten; old
\* beliefs are superseded, not deleted": no step changes the content of a
\* memory that exists.
MemoriesNeverOverwritten ==
  [][\A m \in Written : content'[m] = content[m]]_vars

\* What the store promises at a higher level: see the two modules.
Log   == INSTANCE EventLog WITH log <- events
Index == INSTANCE EmbeddingIndex

\* The log on its own is a correct event log of the memories: which
\* operation may come next is decided by the events before it.
ImplementsEventLog == Log!Spec

\* The embedding tables on their own are a correct embedding index.
ImplementsEmbeddingIndex == Index!Spec
=============================================================================
