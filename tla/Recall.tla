------------------------------- MODULE Recall --------------------------------
(***************************************************************************)
(* RecallEngine::recall (crates/core/src/recall/engine.rs) against a store *)
(* that other processes change while it works.                             *)
(*                                                                         *)
(* Every query of the engine is a transaction of its own, so each is an    *)
(* action: the three branches, one store.get for each memory that only the *)
(* vectors found, and record_access.  Between them the engine works on     *)
(* copies.  The query, its filters and the configuration are constants.    *)
(*                                                                         *)
(* Left out: what bm25, distances, reranker, decay, importance and the     *)
(* boosters make of the order.  Their outcome is any order, restricted to  *)
(* what the code guarantees of it; Boosters has the boosters themselves.   *)
(***************************************************************************)
EXTENDS EmbeddingIndex, Integers, Sequences, FiniteSets, FiniteSetsExt, SequencesExt, Subsequences

CONSTANTS
  ScopeOf,      \* scope and kind of each memory, which never change
  Filter,       \* scopes the query asks for: all of them without a filter
  TextHits,     \* contents that match the full-text expression of the query
  EntityHits,   \* how many entities of the query each content mentions
  Embedding,    \* whether the engine has an embedder
  RerankPool,   \* rerank_pool; 0 without a reranker
  K,            \* number of hits asked for
  MaxCalls      \* bound: recall calls

ASSUME RecallConstants ==
  /\ NoContent \notin Content
  /\ TextHits \subseteq Content
  /\ EntityHits \in [Content -> Nat]
  /\ Embedding \in BOOLEAN
  /\ RerankPool \in Nat
  /\ K \in Nat \ {0}
  /\ MaxCalls \in Nat

VARIABLES
  accesses,     \* memories.access_count
  pc,           \* the next step of the call, "idle" when there is none
  found,        \* ranked ids of each branch
  cache,        \* mem_cache: the content of the copies the engine holds
  unread,       \* vector ids whose memory is still to be read
  hits          \* fused and reranked ids

(* History, not part of the program.                                       *)
VARIABLES
  believed,     \* what valid memories said at some time of the call
  steady,       \* memories valid and unchanged since the call began
  answered,     \* how often each memory was in an answer
  answer,       \* the hits of the last answer
  calls         \* calls so far

callVars   == <<pc, found, cache, unread, hits>>
recallVars == <<indexVars, accesses, callVars, believed, steady, answered, answer, calls>>

Live == {m \in MemoryId : status[m] = "live"}

Branch  == {"fts", "entity", "vector"}

NoRows  == [fts |-> <<>>, entity |-> <<>>, vector |-> <<>>]
NoCache == [m \in MemoryId |-> NoContent]

RecallInit ==
  /\ Init
  /\ accesses = [m \in MemoryId |-> 0]
  /\ pc = "idle"
  /\ found = NoRows
  /\ cache = NoCache
  /\ unread = <<>>
  /\ hits = <<>>
  /\ believed = {}
  /\ steady = {}
  /\ answered = [m \in MemoryId |-> 0]
  /\ answer = {}
  /\ calls = 0

-----------------------------------------------------------------------------
(* Rankings.                                                               *)

\* Rows a branch may ask for.
Pool == IF RerankPool > 0 THEN Max({RerankPool, K}) ELSE Max({4 * K, 20})

\* The first n of S in some order.
Rankings(S, n) ==
  {ids \in [1 .. Min({n, Cardinality(S)}) -> S] : IsInjective(ids)}

\* 1 / (60 + rank), in millionths.
Contribution(rank) == 1000000 \div (60 + rank)

\* rrf_fuse: the score of an id that some branch ranked.
FusedScore(id, rows) ==
  LET in(b) == {i \in DOMAIN rows[b] : rows[b][i] = id}
      of(b) == IF in(b) = {} THEN 0 ELSE Contribution(Min(in(b)))
  IN  MapThenSumSet(of, Branch)

\* rrf_fuse: each id once, by descending score.  Equal scores come out in
\* the order of a hash map.
Fusions(rows) ==
  LET ids == Range(rows.fts) \cup Range(rows.entity) \cup Range(rows.vector)
  IN  {h \in Rankings(ids, Cardinality(ids)) :
         \A i, j \in DOMAIN h : i < j => FusedScore(h[i], rows) >= FusedScore(h[j], rows)}

-----------------------------------------------------------------------------
(* Steps of a call.                                                        *)

Start ==
  /\ pc = "idle" /\ calls < MaxCalls
  /\ pc' = "fts"
  /\ calls' = calls + 1
  /\ found' = NoRows /\ cache' = NoCache /\ hits' = <<>>
  /\ believed' = {<<m, content[m]>> : m \in Live}
  /\ steady' = Live
  /\ answer' = {}
  /\ UNCHANGED <<indexVars, accesses, unread, answered>>

history == <<believed, steady, answered, answer, calls>>

\* The rows of fts_branch: valid, in the filter, in the index.
TextMatches == {m \in Live : ScopeOf[m] \in Filter /\ content[m] \in TextHits}

SearchFts ==
  /\ pc = "fts"
  /\ \E ids \in Rankings(TextMatches, Pool) :
       /\ found' = [found EXCEPT !.fts = ids]
       /\ cache' = [m \in MemoryId |-> IF m \in Range(ids) THEN content[m] ELSE NoContent]
  /\ pc' = "entity"
  /\ UNCHANGED <<indexVars, accesses, unread, hits, history>>

\* The rows of entity_branch: valid, in the filter, with a common entity.
EntityMatches == {m \in Live : ScopeOf[m] \in Filter /\ EntityHits[content[m]] > 0}

\* By descending number of shared entities.  A memory that is already in the
\* cache keeps the older copy.
SearchEntity ==
  LET rows == EntityMatches IN
  /\ pc = "entity"
  /\ \E ids \in Rankings(rows, Pool) :
       /\ \A i \in DOMAIN ids, m \in rows :
            m \notin {ids[j] : j \in 1 .. i}
              => EntityHits[content[ids[i]]] >= EntityHits[content[m]]
       /\ found' = [found EXCEPT !.entity = ids]
       /\ cache' = [m \in MemoryId |->
                      IF m \in Range(ids) /\ cache[m] = NoContent THEN content[m] ELSE cache[m]]
  /\ pc' = "vector"
  /\ UNCHANGED <<indexVars, accesses, unread, hits, history>>

\* The rows of search_vector, which knows neither filters nor valid_to.
VectorMatches == {m \in MemoryId : vec[m] # NoContent}

SearchVector ==
  LET rows == IF Embedding THEN VectorMatches ELSE {} IN
  /\ pc = "vector"
  /\ \E ids \in Rankings(rows, Pool) :
       /\ found' = [found EXCEPT !.vector = ids]
       /\ unread' = Picked(ids, {i \in DOMAIN ids : cache[ids[i]] = NoContent})
  /\ pc' = "read"
  /\ UNCHANGED <<indexVars, accesses, cache, hits, history>>

\* Mutant: the memory is cached whether it is valid or not.
ReadUnchecked ==
  /\ pc = "read" /\ unread # <<>>
  /\ unread' = Tail(unread)
  /\ cache' = [cache EXCEPT ![Head(unread)] = content[Head(unread)]]
  /\ UNCHANGED <<indexVars, accesses, pc, found, hits, history>>

\* One store.get; an invalid memory stays out of the cache.
Read ==
  /\ pc = "read" /\ unread # <<>>
  /\ unread' = Tail(unread)
  /\ LET m == Head(unread) IN
       cache' = IF m \in Live THEN [cache EXCEPT ![m] = content[m]] ELSE cache
  /\ UNCHANGED <<indexVars, accesses, pc, found, hits, history>>

\* Mutant: only memories that the text branches found make a hit.
FuseTextOnly ==
  /\ pc = "read" /\ unread = <<>>
  /\ \E h \in Fusions([found EXCEPT !.vector = <<>>]) : hits' = h
  /\ pc' = "rerank"
  /\ UNCHANGED <<indexVars, accesses, found, cache, unread, history>>

\* The vector ids that are in the cache, in their order.
CachedVectors ==
  LET ids  == found.vector
      rank(m) == CHOOSE i \in DOMAIN ids : ids[i] = m
  IN  {kept \in Rankings({m \in Range(ids) : cache[m] # NoContent}, Len(ids)) :
         \A i, j \in DOMAIN kept : i < j => rank(kept[i]) < rank(kept[j])}

\* rrf_fuse, with the vector ids that are in the cache.
Fuse ==
  /\ pc = "read" /\ unread = <<>>
  /\ \E kept \in CachedVectors :
       \E h \in Fusions([found EXCEPT !.vector = kept]) : hits' = h
  /\ pc' = "rerank"
  /\ UNCHANGED <<indexVars, accesses, found, cache, unread, history>>

\* The reranker sees the first rerank_pool hits, the others are dropped.
Rerank ==
  /\ pc = "rerank"
  /\ hits' = IF RerankPool > 0
             THEN [i \in DOMAIN hits \cap 1 .. RerankPool |-> hits[i]] ELSE hits
  /\ pc' = "answer"
  /\ UNCHANGED <<indexVars, accesses, found, cache, unread, history>>

\* The hit of an id: the cached copy and the branches that ranked it.
BuildHit(m) ==
  [id |-> m, content |-> cache[m],
   sources |-> {b \in Branch : m \in Range(found[b])}]

\* Mutant: record_access comes before the hits are cut to k.
AnswerCountingAll ==
  /\ pc = "answer"
  /\ \E top \in kSubset(Min({K, Len(hits)}), Range(hits)) :
       /\ accesses' = [m \in MemoryId |-> accesses[m] + (IF m \in Range(hits) THEN 1 ELSE 0)]
       /\ answered' = [m \in MemoryId |-> answered[m] + (IF m \in top THEN 1 ELSE 0)]
       /\ answer' = {BuildHit(m) : m \in top}
  /\ pc' = "idle"
  /\ UNCHANGED <<indexVars, found, cache, unread, hits, believed, steady, calls>>

\* Scores, the final sort, the cut to k, record_access, and the answer.
Answer ==
  /\ pc = "answer"
  /\ \E top \in kSubset(Min({K, Len(hits)}), Range(hits)) :
       /\ accesses' = [m \in MemoryId |-> accesses[m] + (IF m \in top THEN 1 ELSE 0)]
       /\ answered' = [m \in MemoryId |-> answered[m] + (IF m \in top THEN 1 ELSE 0)]
       /\ answer' = {BuildHit(m) : m \in top}
  /\ pc' = "idle"
  /\ UNCHANGED <<indexVars, found, cache, unread, hits, believed, steady, calls>>

\* Any step may fail: the store is busy, the model does not load, the
\* reranker returns a wrong number of scores, a booster fails.  The `?` ends
\* the call with an error.
Fail ==
  /\ pc # "idle"
  /\ pc' = "idle"
  /\ unread' = <<>>
  /\ UNCHANGED <<indexVars, accesses, found, cache, hits, history>>

-----------------------------------------------------------------------------
(* Other processes.                                                        *)

Others ==
  /\ \E m \in MemoryId :
       \/ \E c \in Content : Add(m, c) \/ Rewrite(m, c)
       \/ Retire(m)
       \/ content[m] # NoContent /\ Put(m, content[m])
  /\ believed' = IF pc = "idle" THEN believed
                 ELSE believed \cup {<<m, content'[m]>> : m \in {n \in MemoryId : status'[n] = "live"}}
  /\ steady' = {m \in steady : status'[m] = "live" /\ content'[m] = content[m] /\ vec'[m] = vec[m]}
  /\ UNCHANGED <<accesses, callVars, answered, answer, calls>>

RecallNext ==
  \/ Start \/ SearchFts \/ SearchEntity \/ SearchVector \/ Read
  \/ Fuse \/ Rerank \/ Answer \/ Fail \/ Others

RecallSpec == RecallInit /\ [][RecallNext]_recallVars

-----------------------------------------------------------------------------
(* Properties.                                                             *)

\* Every hit says what a valid memory said at some time during the call,
\* although its copy may come from any of the queries, and the memory may
\* have been rewritten or invalidated before, between or after them.
AnswersWereTrue == \A hit \in answer : <<hit.id, hit.content>> \in believed

\* Only the vectors lead out of the filter: what full text and entities find
\* is in the scopes asked for.
FilterLeaksOnlyThroughVectors ==
  \A hit \in answer : ScopeOf[hit.id] \in Filter \/ "vector" \in hit.sources

\* Every hit was believed during the call, and is in the scopes asked for
\* unless the vectors found it.
AnswersAreSound == AnswersWereTrue /\ FilterLeaksOnlyThroughVectors

\* A memory counts as accessed exactly as often as it was handed out: calls
\* that failed half way and hits that were cut off count for nothing.
CountsAreAnswers == accesses = answered

\* Crowded: a branch that was full, or the reranker's cut.
Crowded(b) == Len(found[b]) = Pool \/ (RerankPool > 0 /\ Len(hits) = RerankPool)

\* A memory that was valid and unchanged during the whole call is found by
\* each branch it belongs to, whatever happens to others meanwhile, unless
\* that branch was full.  (Vectors of invalid memories fill it too.)
SteadyIsFound ==
  pc = "answer" => \A m \in steady \ Range(hits) :
    /\ ScopeOf[m] \in Filter =>
         /\ content[m] \in TextHits => Crowded("fts")
         /\ EntityHits[content[m]] > 0 => Crowded("entity")
    /\ Embedding /\ vec[m] # NoContent => Crowded("vector")
=============================================================================
