---------------------------- MODULE RecallProofs ----------------------------
(***************************************************************************)
(* Theorems about a recall against a changing store, for every set of      *)
(* memories, every filter, and every size of the branches, the reranker's  *)
(* pool and the answer; and about the extraction of the entities of texts. *)
(***************************************************************************)
EXTENDS Recall, MCExtraction, CollectionProofs, TLAPS

USE RecallConstants

\* The steps that come after a text branch.
Searched(b) ==
  {"vector", "read", "rerank", "answer"} \cup (IF b = "fts" THEN {"entity"} ELSE {})

\* What the call has in its hands.
CallTypes ==
  /\ status \in [MemoryId -> {"absent", "live", "invalid"}]
  /\ content \in [MemoryId -> Content \cup {NoContent}]
  /\ \A m \in Live : content[m] \in Content
  /\ cache \in [MemoryId -> Content \cup {NoContent}]
  /\ DOMAIN found = Branch
  /\ \A b \in Branch : Range(found[b]) \subseteq MemoryId

\* What valid memories say now was noted as said during the call.
NowIsBelieved == pc # "idle" => \A m \in Live : <<m, content[m]>> \in believed

\* A copy says what was noted.
CopiesWereTrue ==
  pc # "idle" => \A m \in MemoryId : cache[m] # NoContent => <<m, cache[m]>> \in believed

\* What full text and entities found is in the filter, and there is a copy.
TextIsCached ==
  \A b \in {"fts", "entity"} :
    pc \in Searched(b) => \A m \in Range(found[b]) :
      ScopeOf[m] \in Filter /\ cache[m] # NoContent

\* A hit has a copy, and a branch that found it.
HitsAreCached ==
  pc \in {"rerank", "answer"} =>
    \A m \in Range(hits) :
      /\ m \in MemoryId /\ cache[m] # NoContent
      /\ \E b \in Branch : m \in Range(found[b])

AnswerInv == AnswersWereTrue /\ FilterLeaksOnlyThroughVectors

RecallInv ==
  /\ CallTypes /\ NowIsBelieved /\ CopiesWereTrue /\ TextIsCached /\ HitsAreCached
  /\ AnswerInv

-----------------------------------------------------------------------------
(* Rankings.                                                               *)

\* A ranking ranks nothing else.
LEMMA RankingRange ==
  ASSUME NEW S, NEW n, NEW ids \in Rankings(S, n)
  PROVE  Range(ids) \subseteq S
  BY DEF Rankings, Range

\* The fusion of the branches consists of what they found.
LEMMA FusionRange ==
  ASSUME NEW rows, NEW h \in Fusions(rows)
  PROVE  Range(h) \subseteq Range(rows.fts) \cup Range(rows.entity) \cup Range(rows.vector)
  BY RankingRange DEF Fusions

-----------------------------------------------------------------------------
(* The steps of a call.                                                    *)

\* The full-text branch.
LEMMA SearchFtsStep ==
  ASSUME RecallInv, SearchFts
  PROVE  RecallInv'
  <1>1. PICK ids \in Rankings(TextMatches, Pool) :
          /\ found' = [found EXCEPT !.fts = ids]
          /\ cache' = [m \in MemoryId |-> IF m \in Range(ids) THEN content[m] ELSE NoContent]
    BY DEF SearchFts
  <1>2. /\ pc = "fts" /\ pc' = "entity"
        /\ status' = status /\ content' = content /\ hits' = hits
        /\ believed' = believed /\ answer' = answer
    BY DEF SearchFts, indexVars, history
  <1>3. Range(ids) \subseteq TextMatches
    BY RankingRange
  <1>4. /\ DOMAIN found' = Branch /\ found'["fts"] = ids
        /\ found'["entity"] = found["entity"] /\ found'["vector"] = found["vector"]
    BY <1>1 DEF RecallInv, CallTypes, Branch
  <1>5. \A m \in Range(ids) : m \in Live /\ ScopeOf[m] \in Filter /\ cache'[m] = content[m]
    BY <1>1, <1>3 DEF TextMatches, Live
  <1>6. Live' = Live /\ Live \subseteq MemoryId
    BY <1>2 DEF Live
  <1>7. CallTypes'
    BY <1>1, <1>2, <1>3, <1>4, <1>5, <1>6 DEF RecallInv, CallTypes, Branch
  <1>8. NowIsBelieved' /\ AnswerInv' /\ HitsAreCached'
    BY <1>2, <1>6 DEF RecallInv, NowIsBelieved, AnswerInv, AnswersWereTrue,
                      FilterLeaksOnlyThroughVectors, HitsAreCached
  <1>9. CopiesWereTrue'
    BY <1>1, <1>2, <1>5 DEF RecallInv, NowIsBelieved, CopiesWereTrue
  <1>10. TextIsCached'
    <2>1. \A m \in Range(ids) : ScopeOf[m] \in Filter /\ cache'[m] # NoContent
      BY <1>5 DEF RecallInv, CallTypes
    <2>2. QED
      BY <1>2, <1>4, <2>1 DEF TextIsCached, Searched
  <1>11. QED
    BY <1>7, <1>8, <1>9, <1>10 DEF RecallInv

\* The entity branch, which keeps the older copies.
LEMMA SearchEntityStep ==
  ASSUME RecallInv, SearchEntity
  PROVE  RecallInv'
  <1>1. PICK ids \in Rankings(EntityMatches, Pool) :
          /\ found' = [found EXCEPT !.entity = ids]
          /\ cache' = [m \in MemoryId |->
               IF m \in Range(ids) /\ cache[m] = NoContent THEN content[m] ELSE cache[m]]
    BY DEF SearchEntity
  <1>2. /\ pc = "entity" /\ pc' = "vector"
        /\ status' = status /\ content' = content /\ hits' = hits
        /\ believed' = believed /\ answer' = answer
    BY DEF SearchEntity, indexVars, history
  <1>3. Range(ids) \subseteq EntityMatches
    BY RankingRange
  <1>4. /\ DOMAIN found' = Branch /\ found'["entity"] = ids
        /\ found'["fts"] = found["fts"] /\ found'["vector"] = found["vector"]
    BY <1>1 DEF RecallInv, CallTypes, Branch
  <1>5. \A m \in Range(ids) : m \in Live /\ m \in MemoryId /\ ScopeOf[m] \in Filter
    BY <1>3 DEF EntityMatches, Live
  <1>6. Live' = Live /\ \A m \in Live : content[m] \in Content
    BY <1>2 DEF Live, RecallInv, CallTypes
  <1>7. CallTypes'
    BY <1>1, <1>2, <1>3, <1>4, <1>5, <1>6 DEF RecallInv, CallTypes, Branch
  <1>8. NowIsBelieved' /\ AnswerInv' /\ HitsAreCached'
    BY <1>2, <1>6 DEF RecallInv, NowIsBelieved, AnswerInv, AnswersWereTrue,
                      FilterLeaksOnlyThroughVectors, HitsAreCached
  <1>9. CopiesWereTrue'
    BY <1>1, <1>2, <1>5 DEF RecallInv, NowIsBelieved, CopiesWereTrue
  <1>10. TextIsCached'
    <2>1. \A m \in Range(ids) : ScopeOf[m] \in Filter /\ cache'[m] # NoContent
      BY <1>1, <1>5, <1>6
    <2>2. \A m \in Range(found["fts"]) : ScopeOf[m] \in Filter /\ m \in MemoryId /\ cache[m] # NoContent
      BY <1>2 DEF RecallInv, TextIsCached, Searched, CallTypes, Branch
    <2>3. \A m \in Range(found["fts"]) : cache'[m] = cache[m]
      BY <1>1, <2>2
    <2>4. QED
      BY <1>2, <1>4, <2>1, <2>2, <2>3 DEF TextIsCached, Searched
  <1>11. QED
    BY <1>7, <1>8, <1>9, <1>10 DEF RecallInv

\* The vector branch, which copies nothing.
LEMMA SearchVectorStep ==
  ASSUME RecallInv, SearchVector
  PROVE  RecallInv'
  <1>1. PICK ids \in Rankings(IF Embedding THEN VectorMatches ELSE {}, Pool) :
          found' = [found EXCEPT !.vector = ids]
    BY DEF SearchVector
  <1>2. /\ pc = "vector" /\ pc' = "read" /\ cache' = cache
        /\ status' = status /\ content' = content /\ hits' = hits
        /\ believed' = believed /\ answer' = answer
    BY DEF SearchVector, indexVars, history
  <1>3. Range(ids) \subseteq MemoryId
    BY RankingRange DEF VectorMatches
  <1>4. /\ DOMAIN found' = Branch /\ found'["vector"] = ids
        /\ found'["fts"] = found["fts"] /\ found'["entity"] = found["entity"]
    BY <1>1 DEF RecallInv, CallTypes, Branch
  <1>5. Live' = Live
    BY <1>2 DEF Live
  <1>6. CallTypes'
    BY <1>2, <1>3, <1>4, <1>5 DEF RecallInv, CallTypes, Branch
  <1>7. NowIsBelieved' /\ AnswerInv' /\ HitsAreCached' /\ CopiesWereTrue'
    BY <1>2, <1>5 DEF RecallInv, NowIsBelieved, AnswerInv, AnswersWereTrue,
                      FilterLeaksOnlyThroughVectors, HitsAreCached, CopiesWereTrue
  <1>8. TextIsCached'
    BY <1>2, <1>4 DEF RecallInv, TextIsCached, Searched
  <1>9. QED
    BY <1>6, <1>7, <1>8 DEF RecallInv

\* One memory is read and copied if it is valid.
LEMMA ReadStep ==
  ASSUME RecallInv, Read
  PROVE  RecallInv'
  <1> DEFINE m == Head(unread)
  <1>1. /\ pc = "read" /\ pc' = "read" /\ found' = found
        /\ status' = status /\ content' = content /\ hits' = hits
        /\ believed' = believed /\ answer' = answer
        /\ cache' = IF m \in Live THEN [cache EXCEPT ![m] = content[m]] ELSE cache
    BY DEF Read, indexVars, history
  <1> HIDE DEF m
  <1>2. Live' = Live /\ Live \subseteq MemoryId /\ \A n \in Live : content[n] \in Content
    BY <1>1 DEF Live, RecallInv, CallTypes
  <1>3. \A n \in MemoryId : cache'[n] = cache[n] \/ (n \in Live /\ cache'[n] = content[n])
    BY <1>1, <1>2 DEF RecallInv, CallTypes
  <1>4. CallTypes'
    BY <1>1, <1>2 DEF RecallInv, CallTypes
  <1>5. NowIsBelieved' /\ AnswerInv' /\ HitsAreCached'
    BY <1>1, <1>2 DEF RecallInv, NowIsBelieved, AnswerInv, AnswersWereTrue,
                      FilterLeaksOnlyThroughVectors, HitsAreCached
  <1>6. CopiesWereTrue'
    BY <1>1, <1>3 DEF RecallInv, NowIsBelieved, CopiesWereTrue
  <1>7. TextIsCached'
    <2>1. \A b \in {"fts", "entity"} : \A n \in Range(found[b]) :
            n \in MemoryId /\ ScopeOf[n] \in Filter /\ cache[n] # NoContent
      BY <1>1 DEF RecallInv, TextIsCached, Searched, CallTypes, Branch
    <2>2. \A b \in {"fts", "entity"} : \A n \in Range(found[b]) : cache'[n] # NoContent
      BY <1>2, <1>3, <2>1
    <2>3. QED
      BY <1>1, <2>1, <2>2 DEF TextIsCached
  <1>8. QED
    BY <1>4, <1>5, <1>6, <1>7 DEF RecallInv

\* Only ids that have a copy are fused.
LEMMA FuseStep ==
  ASSUME RecallInv, Fuse
  PROVE  RecallInv'
  <1>1. PICK kept \in CachedVectors : \E h \in Fusions([found EXCEPT !.vector = kept]) : hits' = h
    BY DEF Fuse
  <1>2. /\ pc = "read" /\ pc' = "rerank" /\ found' = found /\ cache' = cache
        /\ status' = status /\ content' = content
        /\ believed' = believed /\ answer' = answer
    BY DEF Fuse, indexVars, history
  <1>3. Range(kept) \subseteq {m \in Range(found["vector"]) : cache[m] # NoContent}
    BY RankingRange DEF CachedVectors
  <1> DEFINE rows == [found EXCEPT !.vector = kept]
  <1>4. rows.fts = found["fts"] /\ rows.entity = found["entity"] /\ rows.vector = kept
    BY DEF RecallInv, CallTypes, Branch
  <1> HIDE DEF rows
  <1>5. Range(hits') \subseteq Range(found["fts"]) \cup Range(found["entity"]) \cup Range(kept)
    <2>1. PICK h \in Fusions(rows) : hits' = h
      BY <1>1 DEF rows
    <2>2. QED
      BY <1>4, <2>1, FusionRange
  <1>6. \A b \in {"fts", "entity"} : \A m \in Range(found[b]) : cache[m] # NoContent
    BY <1>2 DEF RecallInv, TextIsCached, Searched
  <1>7. HitsAreCached'
    <2>1. \A b \in Branch : Range(found[b]) \subseteq MemoryId
      BY DEF RecallInv, CallTypes
    <2>2. ASSUME NEW m \in Range(hits')
          PROVE  m \in MemoryId /\ cache[m] # NoContent /\ \E b \in Branch : m \in Range(found[b])
      BY <1>3, <1>5, <1>6, <2>1 DEF Branch
    <2>3. QED
      BY <1>2, <2>2 DEF HitsAreCached
  <1>8. Live' = Live
    BY <1>2 DEF Live
  <1>9. QED
    BY <1>2, <1>7, <1>8
    DEF RecallInv, CallTypes, NowIsBelieved, CopiesWereTrue, TextIsCached, Searched,
        AnswerInv, AnswersWereTrue, FilterLeaksOnlyThroughVectors

\* The reranker's cut takes hits away.
LEMMA RerankStep ==
  ASSUME RecallInv, Rerank
  PROVE  RecallInv'
  <1>1. /\ pc = "rerank" /\ pc' = "answer" /\ found' = found /\ cache' = cache
        /\ status' = status /\ content' = content
        /\ believed' = believed /\ answer' = answer
    BY DEF Rerank, indexVars, history
  <1>2. Range(hits') \subseteq Range(hits)
    BY DEF Rerank, Range
  <1>3. Live' = Live
    BY <1>1 DEF Live
  <1>4. HitsAreCached'
    BY <1>1, <1>2 DEF RecallInv, HitsAreCached
  <1>5. QED
    BY <1>1, <1>3, <1>4
    DEF RecallInv, CallTypes, NowIsBelieved, CopiesWereTrue, TextIsCached, Searched,
        AnswerInv, AnswersWereTrue, FilterLeaksOnlyThroughVectors

\* The answer consists of hits.
LEMMA AnswerStep ==
  ASSUME RecallInv, Answer
  PROVE  RecallInv'
  <1>1. PICK top \in kSubset(Min({K, Len(hits)}), Range(hits)) :
          answer' = {BuildHit(m) : m \in top}
    BY DEF Answer
  <1>2. /\ pc = "answer" /\ pc' = "idle" /\ found' = found /\ cache' = cache
        /\ status' = status /\ content' = content /\ hits' = hits
        /\ believed' = believed
    BY DEF Answer, indexVars
  <1>3. top \subseteq Range(hits)
    BY DEF kSubset
  <1>4. ASSUME NEW hit \in answer'
        PROVE  /\ <<hit.id, hit.content>> \in believed
               /\ ScopeOf[hit.id] \in Filter \/ "vector" \in hit.sources
    <2>1. PICK m \in top : hit = BuildHit(m)
      BY <1>1
    <2>2. /\ hit.id = m /\ hit.content = cache[m]
          /\ hit.sources = {b \in Branch : m \in Range(found[b])}
      BY <2>1 DEF BuildHit
    <2>3. m \in MemoryId /\ cache[m] # NoContent /\ \E b \in Branch : m \in Range(found[b])
      BY <1>2, <1>3 DEF RecallInv, HitsAreCached
    <2>4. <<m, cache[m]>> \in believed
      BY <1>2, <2>3 DEF RecallInv, CopiesWereTrue
    <2>5. m \in Range(found["fts"]) \/ m \in Range(found["entity"]) => ScopeOf[m] \in Filter
      BY <1>2 DEF RecallInv, TextIsCached, Searched
    <2>6. QED
      BY <2>2, <2>3, <2>4, <2>5 DEF Branch
  <1>5. AnswerInv'
    BY <1>2, <1>4 DEF AnswerInv, AnswersWereTrue, FilterLeaksOnlyThroughVectors
  <1>6. Live' = Live
    BY <1>2 DEF Live
  <1>7. QED
    BY <1>2, <1>5, <1>6
    DEF RecallInv, CallTypes, NowIsBelieved, CopiesWereTrue, TextIsCached, Searched, HitsAreCached

\* A call begins with nothing but what valid memories say.
LEMMA StartStep ==
  ASSUME RecallInv, Start
  PROVE  RecallInv'
  <1>1. /\ pc' = "fts" /\ found' = NoRows /\ cache' = NoCache /\ hits' = <<>>
        /\ believed' = {<<m, content[m]>> : m \in Live} /\ answer' = {}
        /\ status' = status /\ content' = content
    BY DEF Start, indexVars
  <1>2. Live' = Live
    BY <1>1 DEF Live
  <1>3. DOMAIN NoRows = Branch /\ \A b \in Branch : NoRows[b] = <<>>
    BY DEF NoRows, Branch
  <1>4. Range(<<>>) = {}
    BY DEF Range
  <1>5. CallTypes'
    BY <1>1, <1>2, <1>3, <1>4 DEF RecallInv, CallTypes, NoCache
  <1>6. QED
    BY <1>1, <1>2, <1>5
    DEF RecallInv, NowIsBelieved, CopiesWereTrue, NoCache, TextIsCached, Searched, HitsAreCached,
        AnswerInv, AnswersWereTrue, FilterLeaksOnlyThroughVectors

\* A call that fails answers nothing new.
LEMMA FailStep ==
  ASSUME RecallInv, Fail
  PROVE  RecallInv'
  <1>1. /\ pc' = "idle" /\ found' = found /\ cache' = cache /\ hits' = hits
        /\ believed' = believed /\ answer' = answer
        /\ status' = status /\ content' = content
    BY DEF Fail, indexVars, history
  <1>2. Live' = Live
    BY <1>1 DEF Live
  <1>3. QED
    BY <1>1, <1>2
    DEF RecallInv, CallTypes, NowIsBelieved, CopiesWereTrue, TextIsCached, Searched,
        HitsAreCached, AnswerInv, AnswersWereTrue, FilterLeaksOnlyThroughVectors

\* What others write is noted; the copies stay as they were.
LEMMA OthersStep ==
  ASSUME RecallInv, Others
  PROVE  RecallInv'
  <1>1. /\ pc' = pc /\ found' = found /\ cache' = cache /\ hits' = hits /\ answer' = answer
        /\ believed \subseteq believed'
        /\ pc # "idle" => \A m \in Live' : <<m, content'[m]>> \in believed'
    BY DEF Others, callVars, Live
  <1>2. /\ status' \in [MemoryId -> {"absent", "live", "invalid"}]
        /\ content' \in [MemoryId -> Content \cup {NoContent}]
        /\ \A m \in Live' : content'[m] \in Content
    <2>1. PICK m \in MemoryId : \/ \E c \in Content : Add(m, c) \/ Rewrite(m, c)
                                \/ Retire(m)
                                \/ Put(m, content[m])
      BY DEF Others
    <2>2. CASE \E c \in Content : Add(m, c) \/ Rewrite(m, c)
      BY <2>2 DEF Add, Rewrite, RecallInv, CallTypes, Live
    <2>3. CASE Retire(m)
      BY <2>3 DEF Retire, RecallInv, CallTypes, Live
    <2>4. CASE Put(m, content[m])
      BY <2>4 DEF Put, RecallInv, CallTypes, Live
    <2>5. QED
      BY <2>1, <2>2, <2>3, <2>4
  <1>3. CallTypes'
    BY <1>1, <1>2 DEF RecallInv, CallTypes
  <1>4. QED
    BY <1>1, <1>3
    DEF RecallInv, NowIsBelieved, CopiesWereTrue, TextIsCached, Searched,
        HitsAreCached, AnswerInv, AnswersWereTrue, FilterLeaksOnlyThroughVectors

-----------------------------------------------------------------------------
(* What is steady is found, unless a branch was full.                      *)

\* The rows of the store are finitely many.
RowsAreFinite == IsFiniteSet({m \in MemoryId : status[m] # "absent"})

\* Vectors belong to rows, what is steady is valid, and the rankings that the
\* call works with are sequences.
Indexed ==
  /\ vec \in [MemoryId -> Content \cup {NoContent}]
  /\ \A m \in MemoryId : vec[m] # NoContent => status[m] # "absent"
  /\ steady \subseteq Live
  /\ unread \in Seq(MemoryId) /\ hits \in Seq(MemoryId)
  /\ \A b \in Branch : found[b] \in Seq(MemoryId)

FoundOrFull(m, b) == m \in Range(found[b]) \/ Len(found[b]) = Pool

\* A branch that was searched found what is steady, or was full.
SteadyWasFound ==
  \A m \in steady :
    /\ ScopeOf[m] \in Filter =>
         /\ pc \in Searched("fts") /\ content[m] \in TextHits => FoundOrFull(m, "fts")
         /\ pc \in Searched("entity") /\ EntityHits[content[m]] > 0 => FoundOrFull(m, "entity")
    /\ pc \in {"read", "rerank", "answer"} /\ Embedding /\ vec[m] # NoContent
         => FoundOrFull(m, "vector")

\* What the vectors found of it has a copy, or is still to be read.
SteadyIsRead ==
  pc = "read" =>
    \A m \in steady : m \in Range(found["vector"]) => cache[m] # NoContent \/ m \in Range(unread)

HitOrCut(m) == m \in Range(hits) \/ (pc = "answer" /\ RerankPool > 0 /\ Len(hits) = RerankPool)

\* What a branch found is a hit, or the reranker's pool was full.
FoundIsHit ==
  pc \in {"rerank", "answer"} =>
    \A m \in steady, b \in Branch : m \in Range(found[b]) => HitOrCut(m)

SteadyInv == RowsAreFinite /\ Indexed /\ SteadyWasFound /\ SteadyIsRead /\ FoundIsHit

\* A branch asks for a number of rows.
LEMMA PoolType == Pool \in Nat
  <1>1. RerankPool \in Int /\ K \in Int /\ 4 * K \in Int /\ 20 \in Int
    OBVIOUS
  <1>2. Max({RerankPool, K}) = (IF RerankPool >= K THEN RerankPool ELSE K)
    BY <1>1, OfTwo
  <1>3. Max({4 * K, 20}) = (IF 4 * K >= 20 THEN 4 * K ELSE 20)
    BY <1>1, OfTwo
  <1>4. QED
    BY <1>2, <1>3 DEF Pool

\* A ranking of a finite set is a sequence of its elements that has all of
\* them, unless it was to have fewer.
LEMMA RankingReaches ==
  ASSUME NEW S, IsFiniteSet(S), NEW n \in Nat, NEW ids \in Rankings(S, n)
  PROVE  /\ ids \in Seq(S)
         /\ Range(ids) = S \/ Len(ids) = n
         /\ Cardinality(S) <= n => Range(ids) = S
  <1> DEFINE k == Min({n, Cardinality(S)})
  <1>1. Cardinality(S) \in Nat
    BY FS_CardinalityType
  <1>2. k = IF n <= Cardinality(S) THEN n ELSE Cardinality(S)
    BY <1>1, OfTwo
  <1>3. ids \in [1 .. k -> S] /\ IsInjective(ids)
    BY DEF Rankings
  <1> HIDE DEF k
  <1>4. k \in Nat
    BY <1>1, <1>2
  <1>5. ids \in Seq(S) /\ Len(ids) = k
    BY <1>3, <1>4, SequenceOfLength
  <1>6. ASSUME k = Cardinality(S) PROVE Range(ids) = S
    <2>1. ids \in Injection(1 .. k, S)
      <3>1. \A a, b \in 1 .. k : ids[a] = ids[b] => a = b
        BY <1>3 DEF IsInjective
      <3>2. QED
        BY <1>3, <3>1, Fun_IsInj
    <2>2. Cardinality(1 .. k) = k
      BY <1>4, FS_Interval
    <2>3. ids \in Surjection(1 .. k, S)
      BY <1>6, <2>1, <2>2, FS_Injection
    <2>4. \A t \in S : \E s \in 1 .. k : ids[s] = t
      BY <2>3 DEF Surjection
    <2>5. QED
      BY <1>3, <2>4 DEF Range
  <1>7. QED
    BY <1>1, <1>2, <1>5, <1>6

\* What a sequence holds is finite, and not more than its length.
LEMMA RangeIsFinite ==
  ASSUME NEW S, NEW s \in Seq(S)
  PROVE  IsFiniteSet(Range(s)) /\ Cardinality(Range(s)) <= Len(s) /\ Len(s) \in Nat
  <1>1. Len(s) \in Nat /\ DOMAIN s = 1 .. Len(s) /\ s \in [1 .. Len(s) -> S]
    BY LenProperties
  <1>2. s \in Surjection(1 .. Len(s), Range(s))
    BY <1>1 DEF Surjection, Range
  <1>3. IsFiniteSet(1 .. Len(s)) /\ Cardinality(1 .. Len(s)) = Len(s)
    BY <1>1, FS_Interval
  <1>4. QED
    BY <1>1, <1>2, <1>3, FS_Surjection

\* Valid memories have rows, of which there are finitely many.
LEMMA FinitelyMany ==
  ASSUME RowsAreFinite, Indexed
  PROVE  /\ IsFiniteSet(TextMatches) /\ IsFiniteSet(EntityMatches) /\ IsFiniteSet(VectorMatches)
         /\ TextMatches \subseteq MemoryId /\ EntityMatches \subseteq MemoryId
         /\ VectorMatches \subseteq MemoryId
  <1>1. /\ TextMatches \subseteq {m \in MemoryId : status[m] # "absent"}
        /\ EntityMatches \subseteq {m \in MemoryId : status[m] # "absent"}
        /\ VectorMatches \subseteq {m \in MemoryId : status[m] # "absent"}
    BY DEF TextMatches, EntityMatches, VectorMatches, Live, Indexed
  <1>2. QED
    BY <1>1, FS_Subset DEF RowsAreFinite

\* A ranking of rows is a ranking of memories.
LEMMA RanksMemories ==
  ASSUME NEW S \in SUBSET MemoryId, NEW ids \in Seq(S)
  PROVE  ids \in Seq(MemoryId)
  BY SeqMonotonic

\* The full-text branch finds what is steady.
LEMMA SearchFtsFinds ==
  ASSUME RecallInv, SteadyInv, SearchFts
  PROVE  SteadyInv'
  <1>1. PICK ids \in Rankings(TextMatches, Pool) : found' = [found EXCEPT !.fts = ids]
    BY DEF SearchFts
  <1>2. /\ pc = "fts" /\ pc' = "entity"
        /\ status' = status /\ content' = content /\ vec' = vec /\ hits' = hits
        /\ unread' = unread /\ steady' = steady
    BY DEF SearchFts, indexVars, history
  <1>3. IsFiniteSet(TextMatches) /\ TextMatches \in SUBSET MemoryId
    BY FinitelyMany DEF SteadyInv
  <1>4. ids \in Seq(TextMatches) /\ (Range(ids) = TextMatches \/ Len(ids) = Pool)
    BY <1>3, PoolType, RankingReaches
  <1>5. ids \in Seq(MemoryId)
    BY <1>3, <1>4, RanksMemories
  <1>6. /\ found'["fts"] = ids
        /\ found'["entity"] = found["entity"] /\ found'["vector"] = found["vector"]
    BY <1>1 DEF RecallInv, CallTypes, Branch
  <1>7. Indexed' /\ RowsAreFinite'
    BY <1>2, <1>5, <1>6 DEF SteadyInv, Indexed, RowsAreFinite, Live, Branch
  <1>8. ASSUME NEW m \in steady, ScopeOf[m] \in Filter, content[m] \in TextHits
        PROVE  m \in Range(ids) \/ Len(ids) = Pool
    <2>1. m \in TextMatches
      BY <1>8 DEF SteadyInv, Indexed, TextMatches
    <2>2. QED
      BY <1>4, <2>1
  <1>9. SteadyWasFound'
    BY <1>2, <1>6, <1>8 DEF SteadyWasFound, FoundOrFull, Searched
  <1>10. QED
    BY <1>2, <1>7, <1>9 DEF SteadyInv, SteadyIsRead, FoundIsHit

\* The entity branch finds what is steady.
LEMMA SearchEntityFinds ==
  ASSUME RecallInv, SteadyInv, SearchEntity
  PROVE  SteadyInv'
  <1>1. PICK ids \in Rankings(EntityMatches, Pool) : found' = [found EXCEPT !.entity = ids]
    BY DEF SearchEntity
  <1>2. /\ pc = "entity" /\ pc' = "vector"
        /\ status' = status /\ content' = content /\ vec' = vec /\ hits' = hits
        /\ unread' = unread /\ steady' = steady
    BY DEF SearchEntity, indexVars, history
  <1>3. IsFiniteSet(EntityMatches) /\ EntityMatches \in SUBSET MemoryId
    BY FinitelyMany DEF SteadyInv
  <1>4. ids \in Seq(EntityMatches) /\ (Range(ids) = EntityMatches \/ Len(ids) = Pool)
    BY <1>3, PoolType, RankingReaches
  <1>5. ids \in Seq(MemoryId)
    BY <1>3, <1>4, RanksMemories
  <1>6. /\ found'["entity"] = ids
        /\ found'["fts"] = found["fts"] /\ found'["vector"] = found["vector"]
    BY <1>1 DEF RecallInv, CallTypes, Branch
  <1>7. Indexed' /\ RowsAreFinite'
    BY <1>2, <1>5, <1>6 DEF SteadyInv, Indexed, RowsAreFinite, Live, Branch
  <1>8. ASSUME NEW m \in steady, ScopeOf[m] \in Filter, EntityHits[content[m]] > 0
        PROVE  m \in Range(ids) \/ Len(ids) = Pool
    <2>1. m \in EntityMatches
      BY <1>8 DEF SteadyInv, Indexed, EntityMatches
    <2>2. QED
      BY <1>4, <2>1
  <1>9. SteadyWasFound'
    BY <1>2, <1>6, <1>8 DEF SteadyInv, SteadyWasFound, FoundOrFull, Searched
  <1>10. QED
    BY <1>2, <1>7, <1>9 DEF SteadyInv, SteadyIsRead, FoundIsHit

\* What stands at a chosen position is picked.
LEMMA Picks ==
  ASSUME NEW S, NEW s \in Seq(S), NEW at \in SUBSET (DOMAIN s)
  PROVE  /\ Picked(s, at) \in Seq(S)
         /\ \A p \in at : s[p] \in Range(Picked(s, at))
  <1>1. Picked(s, at) \in Seq(S)
    BY PickedProperties
  <1>2. ASSUME NEW p \in at PROVE s[p] \in Range(Picked(s, at))
    BY PickedReaches DEF Range
  <1>3. QED
    BY <1>1, <1>2

\* The vector branch finds what is steady, and what has no copy yet is to be
\* read.
LEMMA SearchVectorFinds ==
  ASSUME RecallInv, SteadyInv, SearchVector
  PROVE  SteadyInv'
  <1> DEFINE rows == IF Embedding THEN VectorMatches ELSE {}
  <1>1. PICK ids \in Rankings(rows, Pool) :
          /\ found' = [found EXCEPT !.vector = ids]
          /\ unread' = Picked(ids, {i \in DOMAIN ids : cache[ids[i]] = NoContent})
    BY DEF SearchVector
  <1>2. /\ pc = "vector" /\ pc' = "read" /\ cache' = cache
        /\ status' = status /\ content' = content /\ vec' = vec /\ hits' = hits
        /\ steady' = steady
    BY DEF SearchVector, indexVars, history
  <1>3. IsFiniteSet(rows) /\ rows \in SUBSET MemoryId
    BY FinitelyMany, FS_EmptySet DEF SteadyInv
  <1>4. Embedding => rows = VectorMatches
    OBVIOUS
  <1> HIDE DEF rows
  <1>5. ids \in Seq(rows) /\ (Range(ids) = rows \/ Len(ids) = Pool)
    BY <1>3, PoolType, RankingReaches
  <1>6. ids \in Seq(MemoryId)
    BY <1>3, <1>5, RanksMemories
  <1>7. /\ unread' \in Seq(MemoryId)
        /\ \A i \in DOMAIN ids : cache[ids[i]] = NoContent => ids[i] \in Range(unread')
    <2> DEFINE at == {i \in DOMAIN ids : cache[ids[i]] = NoContent}
    <2>1. at \in SUBSET (DOMAIN ids)
      OBVIOUS
    <2>2. /\ Picked(ids, at) \in Seq(MemoryId)
          /\ \A p \in at : ids[p] \in Range(Picked(ids, at))
      <3> HIDE DEF at
      <3>1. QED
        BY <1>6, <2>1, Picks
    <2>3. QED
      BY <1>1, <2>2
  <1>8. /\ found'["vector"] = ids
        /\ found'["fts"] = found["fts"] /\ found'["entity"] = found["entity"]
    BY <1>1 DEF RecallInv, CallTypes, Branch
  <1>9. Indexed' /\ RowsAreFinite'
    BY <1>2, <1>6, <1>7, <1>8 DEF SteadyInv, Indexed, RowsAreFinite, Live, Branch
  <1>10. ASSUME NEW m \in steady, Embedding, vec[m] # NoContent
         PROVE  m \in Range(ids) \/ Len(ids) = Pool
    <2>1. m \in rows
      BY <1>4, <1>10 DEF SteadyInv, Indexed, VectorMatches, Live
    <2>2. QED
      BY <1>5, <2>1
  <1>11. SteadyWasFound'
    BY <1>2, <1>8, <1>10 DEF SteadyInv, SteadyWasFound, FoundOrFull, Searched
  <1>12. SteadyIsRead'
    <2>1. ASSUME NEW m \in Range(ids) PROVE cache[m] # NoContent \/ m \in Range(unread')
      BY <1>7 DEF Range
    <2>2. QED
      BY <1>2, <1>8, <2>1 DEF SteadyIsRead
  <1>13. QED
    BY <1>2, <1>9, <1>11, <1>12 DEF SteadyInv, FoundIsHit

\* What is steady is valid when its turn to be read comes.
LEMMA ReadKeepsSteady ==
  ASSUME RecallInv, SteadyInv, Read
  PROVE  SteadyInv'
  <1> DEFINE h == Head(unread)
  <1>1. /\ pc = "read" /\ pc' = "read" /\ found' = found /\ unread # <<>> /\ unread' = Tail(unread)
        /\ status' = status /\ content' = content /\ vec' = vec /\ hits' = hits
        /\ steady' = steady
        /\ cache' = IF h \in Live THEN [cache EXCEPT ![h] = content[h]] ELSE cache
    BY DEF Read, indexVars, history
  <1> HIDE DEF h
  <1>2. /\ unread' \in Seq(MemoryId)
        /\ \A m \in Range(unread) : m = h \/ m \in Range(unread')
    <2>1. unread \in Seq(MemoryId)
      BY DEF SteadyInv, Indexed
    <2>2. /\ Tail(unread) \in Seq(MemoryId)
          /\ DOMAIN Tail(unread) = 1 .. Len(unread) - 1 /\ DOMAIN unread = 1 .. Len(unread)
          /\ Len(unread) \in Nat
          /\ \A i \in 1 .. Len(unread) - 1 : Tail(unread)[i] = unread[i + 1]
          /\ h = unread[1]
      BY <1>1, <2>1 DEF h
    <2>3. ASSUME NEW i \in DOMAIN unread PROVE unread[i] = h \/ unread[i] \in Range(Tail(unread))
      <3>1. CASE i = 1
        BY <2>2, <3>1
      <3>2. CASE i # 1
        <4>1. i - 1 \in 1 .. Len(unread) - 1 /\ (i - 1) + 1 = i
          BY <2>2, <3>2
        <4>2. Tail(unread)[i - 1] = unread[i] /\ i - 1 \in DOMAIN Tail(unread)
          BY <2>2, <4>1
        <4>3. QED
          BY <4>2 DEF Range
      <3>3. QED
        BY <3>1, <3>2
    <2>4. QED
      BY <1>1, <2>2, <2>3 DEF Range
  <1>3. /\ h \in Live => cache'[h] # NoContent
        /\ \A m \in MemoryId : m # h => cache'[m] = cache[m]
        /\ \A m \in MemoryId : cache[m] # NoContent => cache'[m] # NoContent
    BY <1>1 DEF RecallInv, CallTypes, Live
  <1>4. Indexed' /\ RowsAreFinite' /\ SteadyWasFound'
    BY <1>1, <1>2 DEF SteadyInv, Indexed, RowsAreFinite, Live, SteadyWasFound, FoundOrFull
  <1>5. SteadyIsRead'
    <2>1. ASSUME NEW m \in steady, m \in Range(found["vector"])
          PROVE  cache'[m] # NoContent \/ m \in Range(unread')
      <3>1. m \in Live /\ m \in MemoryId
        BY DEF SteadyInv, Indexed, Live
      <3>2. cache[m] # NoContent \/ m \in Range(unread)
        BY <1>1, <2>1 DEF SteadyInv, SteadyIsRead
      <3>3. QED
        BY <1>2, <1>3, <3>1, <3>2
    <2>2. QED
      BY <1>1, <2>1 DEF SteadyIsRead
  <1>6. QED
    BY <1>1, <1>4, <1>5 DEF SteadyInv, FoundIsHit

\* What full text and entities found is a hit, and what the vectors found if
\* it has a copy, as everything steady has when all are read.
LEMMA FuseKeepsSteady ==
  ASSUME RecallInv, SteadyInv, Fuse
  PROVE  SteadyInv'
  <1> DEFINE ids == found["vector"]
             copied == {m \in Range(ids) : cache[m] # NoContent}
  <1>1. PICK kept \in CachedVectors : \E h \in Fusions([found EXCEPT !.vector = kept]) : hits' = h
    BY DEF Fuse
  <1>2. /\ pc = "read" /\ unread = <<>> /\ pc' = "rerank" /\ found' = found /\ cache' = cache
        /\ unread' = unread /\ steady' = steady
        /\ status' = status /\ content' = content /\ vec' = vec
    BY DEF Fuse, indexVars, history
  <1>3. kept \in Rankings(copied, Len(ids))
    BY DEF CachedVectors
  <1>4. /\ found["fts"] \in Seq(MemoryId) /\ found["entity"] \in Seq(MemoryId)
        /\ ids \in Seq(MemoryId)
    BY DEF SteadyInv, Indexed, Branch
  <1>5. IsFiniteSet(copied) /\ Cardinality(copied) <= Len(ids) /\ Len(ids) \in Nat
    <2> HIDE DEF ids
    <2>1. IsFiniteSet(Range(ids)) /\ Cardinality(Range(ids)) <= Len(ids) /\ Len(ids) \in Nat
      BY <1>4, RangeIsFinite
    <2>2. copied \in SUBSET Range(ids)
      OBVIOUS
    <2>3. IsFiniteSet(copied) /\ Cardinality(copied) <= Cardinality(Range(ids))
      <3> HIDE DEF copied
      <3>1. QED
        BY <2>1, <2>2, FS_Subset
    <2>4. Cardinality(copied) \in Nat /\ Cardinality(Range(ids)) \in Nat
      BY <2>1, <2>3, FS_CardinalityType
    <2>5. QED
      BY <2>1, <2>3, <2>4
  <1>6. Range(kept) = copied
    <2> HIDE DEF copied, ids
    <2>1. QED
      BY <1>3, <1>5, RankingReaches
  <1> DEFINE rows == [found EXCEPT !.vector = kept]
             all == Range(found["fts"]) \cup Range(found["entity"]) \cup copied
  <1>7. rows.fts = found["fts"] /\ rows.entity = found["entity"] /\ rows.vector = kept
    BY DEF RecallInv, CallTypes, Branch
  <1>8. hits' \in Fusions(rows)
    BY <1>1
  <1> HIDE DEF rows
  <1>9. hits' \in Rankings(all, Cardinality(all))
    BY <1>6, <1>7, <1>8 DEF Fusions
  <1>10. IsFiniteSet(all)
    <2>1. IsFiniteSet(Range(found["fts"])) /\ IsFiniteSet(Range(found["entity"]))
      BY <1>4, RangeIsFinite
    <2> HIDE DEF copied
    <2>2. QED
      BY <1>5, <2>1, FS_Union
  <1>11. all \in SUBSET MemoryId
    BY <1>4 DEF RecallInv, CallTypes, Branch
  <1>12. hits' \in Seq(MemoryId) /\ Range(hits') = all
    <2> HIDE DEF all
    <2>1. Cardinality(all) \in Nat
      BY <1>10, FS_CardinalityType
    <2>2. hits' \in Seq(all) /\ Range(hits') = all
      BY <1>9, <1>10, <2>1, RankingReaches
    <2>3. QED
      BY <1>11, <2>2, RanksMemories
  <1>13. Indexed' /\ RowsAreFinite' /\ SteadyWasFound'
    BY <1>2, <1>12 DEF SteadyInv, Indexed, RowsAreFinite, Live, SteadyWasFound, FoundOrFull, Searched
  <1>14. Range(unread) = {}
    BY <1>2 DEF Range
  <1>15. FoundIsHit'
    <2>1. ASSUME NEW m \in steady, NEW b \in Branch, m \in Range(found[b])
          PROVE  m \in Range(hits')
      <3>1. CASE b = "fts" \/ b = "entity"
        BY <1>12, <2>1, <3>1
      <3>2. CASE b = "vector"
        BY <1>2, <1>12, <1>14, <2>1, <3>2 DEF SteadyInv, SteadyIsRead
      <3>3. QED
        BY <3>1, <3>2 DEF Branch
    <2>2. QED
      BY <1>2, <2>1 DEF FoundIsHit, HitOrCut
  <1>16. QED
    BY <1>2, <1>13, <1>15 DEF SteadyInv, SteadyIsRead

\* The first elements of a sequence, n of them at most.
First(s, n) == [i \in DOMAIN s \cap 1 .. n |-> s[i]]

\* They are all of them, or n.
LEMMA FirstOfSequence ==
  ASSUME NEW S, NEW s \in Seq(S), NEW n \in Nat
  PROVE  First(s, n) \in Seq(S) /\ (First(s, n) = s \/ Len(First(s, n)) = n)
  <1>1. Len(s) \in Nat /\ DOMAIN s = 1 .. Len(s) /\ s \in [1 .. Len(s) -> S]
    BY LenProperties
  <1>2. CASE Len(s) <= n
    <2>1. DOMAIN s \cap 1 .. n = 1 .. Len(s)
      BY <1>1, <1>2
    <2>2. First(s, n) = s
      BY <1>1, <2>1 DEF First
    <2>3. QED
      BY <2>2
  <1>3. CASE n < Len(s)
    <2>1. DOMAIN s \cap 1 .. n = 1 .. n
      BY <1>1, <1>3
    <2>2. First(s, n) \in [1 .. n -> S]
      BY <1>1, <1>3, <2>1 DEF First
    <2>3. QED
      BY <2>2, SequenceOfLength
  <1>4. QED
    BY <1>1, <1>2, <1>3

\* The reranker drops hits only when its pool is full.
LEMMA RerankKeepsSteady ==
  ASSUME RecallInv, SteadyInv, Rerank
  PROVE  SteadyInv'
  <1>1. /\ pc = "rerank" /\ pc' = "answer" /\ found' = found /\ cache' = cache
        /\ unread' = unread /\ steady' = steady
        /\ status' = status /\ content' = content /\ vec' = vec
    BY DEF Rerank, indexVars, history
  <1>2. /\ hits' \in Seq(MemoryId)
        /\ hits' = hits \/ (RerankPool > 0 /\ Len(hits') = RerankPool)
    <2>1. hits \in Seq(MemoryId)
      BY DEF SteadyInv, Indexed
    <2>2. CASE RerankPool > 0
      <3>1. hits' = First(hits, RerankPool)
        BY <2>2 DEF Rerank, First
      <3>2. hits' \in Seq(MemoryId) /\ (hits' = hits \/ Len(hits') = RerankPool)
        BY <2>1, <3>1, FirstOfSequence
      <3>3. QED
        BY <2>2, <3>2
    <2>3. CASE ~(RerankPool > 0)
      BY <2>1, <2>3 DEF Rerank
    <2>4. QED
      BY <2>2, <2>3
  <1>3. Indexed' /\ RowsAreFinite' /\ SteadyWasFound'
    BY <1>1, <1>2 DEF SteadyInv, Indexed, RowsAreFinite, Live, SteadyWasFound, FoundOrFull, Searched
  <1>4. FoundIsHit'
    BY <1>1, <1>2 DEF SteadyInv, FoundIsHit, HitOrCut
  <1>5. QED
    BY <1>1, <1>3, <1>4 DEF SteadyInv, SteadyIsRead

\* A call begins with everything that is valid.
LEMMA StartKeepsSteady ==
  ASSUME SteadyInv, Start
  PROVE  SteadyInv'
  <1>1. /\ pc' = "fts" /\ found' = NoRows /\ hits' = <<>> /\ unread' = unread /\ steady' = Live
        /\ status' = status /\ content' = content /\ vec' = vec
    BY DEF Start, indexVars
  <1>2. <<>> \in Seq(MemoryId) /\ \A b \in Branch : NoRows[b] = <<>>
    BY DEF NoRows, Branch
  <1>3. QED
    BY <1>1, <1>2 DEF SteadyInv, Indexed, RowsAreFinite, Live, SteadyWasFound, Searched,
                      SteadyIsRead, FoundIsHit

\* A call that ends leaves nothing to say about what is steady.
LEMMA EndKeepsSteady ==
  ASSUME SteadyInv, Answer \/ Fail
  PROVE  SteadyInv'
  <1>1. /\ pc' = "idle" /\ found' = found /\ hits' = hits /\ steady' = steady
        /\ unread' = unread \/ unread' = <<>>
        /\ status' = status /\ content' = content /\ vec' = vec
    BY DEF Answer, Fail, indexVars, history
  <1>2. <<>> \in Seq(MemoryId)
    OBVIOUS
  <1>3. QED
    BY <1>1, <1>2 DEF SteadyInv, Indexed, RowsAreFinite, Live, SteadyWasFound, Searched,
                      SteadyIsRead, FoundIsHit

\* Others add one row at a time, and what they touch is steady no longer.
LEMMA OthersKeepSteady ==
  ASSUME RecallInv, SteadyInv, Others
  PROVE  SteadyInv'
  <1>1. /\ pc' = pc /\ found' = found /\ cache' = cache /\ hits' = hits /\ unread' = unread
        /\ steady' = {m \in steady : status'[m] = "live" /\ content'[m] = content[m] /\ vec'[m] = vec[m]}
    BY DEF Others, callVars
  <1>2. PICK m \in MemoryId : \/ \E c \in Content : Add(m, c) \/ Rewrite(m, c)
                              \/ Retire(m)
                              \/ content[m] # NoContent /\ Put(m, content[m])
    BY DEF Others
  <1>3. /\ \A n \in MemoryId : status'[n] # "absent" => status[n] # "absent" \/ n = m
        /\ \A n \in MemoryId : status[n] # "absent" => status'[n] # "absent"
    <2>1. status \in [MemoryId -> {"absent", "live", "invalid"}]
      BY DEF RecallInv, CallTypes
    <2>2. QED
      BY <1>2, <2>1 DEF Add, Rewrite, Retire, Put
  <1>4. RowsAreFinite'
    <2> DEFINE now == {n \in MemoryId : status[n] # "absent"}
               then == {n \in MemoryId : status'[n] # "absent"}
    <2>1. IsFiniteSet(now)
      BY DEF SteadyInv, RowsAreFinite
    <2>2. then \subseteq now \cup {m}
      BY <1>3
    <2> HIDE DEF now
    <2>3. IsFiniteSet(now \cup {m})
      BY <2>1, FS_AddElement
    <2>4. IsFiniteSet(then)
      <3> HIDE DEF then
      <3>1. QED
        BY <2>2, <2>3, FS_Subset
    <2>5. QED
      BY <2>4 DEF RowsAreFinite
  <1>5. \A n \in MemoryId : vec'[n] # NoContent => status'[n] # "absent"
    <2>1. \A n \in MemoryId : vec'[n] # NoContent => vec[n] # NoContent \/ (n = m /\ status[n] # "absent")
      <3> vec \in [MemoryId -> Content \cup {NoContent}]
        BY DEF SteadyInv, Indexed
      <3>1. CASE \E c \in Content : Add(m, c) \/ Rewrite(m, c)
        BY <3>1 DEF Add, Rewrite
      <3>2. CASE Retire(m)
        BY <3>2 DEF Retire
      <3>3. CASE Put(m, content[m])
        BY <3>3 DEF Put
      <3>4. QED
        BY <1>2, <3>1, <3>2, <3>3
    <2>2. QED
      BY <1>3, <2>1 DEF SteadyInv, Indexed
  <1>6. vec' \in [MemoryId -> Content \cup {NoContent}]
    BY <1>2 DEF Add, Rewrite, Retire, Put, SteadyInv, Indexed, RecallInv, CallTypes
  <1>7. Indexed'
    BY <1>1, <1>5, <1>6 DEF SteadyInv, Indexed, Live
  <1>8. SteadyWasFound' /\ SteadyIsRead' /\ FoundIsHit'
    BY <1>1 DEF SteadyInv, SteadyWasFound, FoundOrFull, SteadyIsRead, FoundIsHit, HitOrCut
  <1>9. QED
    BY <1>4, <1>7, <1>8 DEF SteadyInv

\* The invariant holds at the start.
LEMMA SteadyInvInit == RecallInit => SteadyInv
  <1> SUFFICES ASSUME RecallInit PROVE SteadyInv
    OBVIOUS
  <1>1. {m \in MemoryId : status[m] # "absent"} = {}
    BY DEF RecallInit, Init
  <1>2. RowsAreFinite
    BY <1>1, FS_EmptySet DEF RowsAreFinite
  <1>3. <<>> \in Seq(MemoryId) /\ \A b \in Branch : NoRows[b] = <<>>
    BY DEF NoRows, Branch
  <1>4. QED
    BY <1>2, <1>3 DEF RecallInit, Init, SteadyInv, Indexed, SteadyWasFound, SteadyIsRead, FoundIsHit

\* Every step keeps it.
LEMMA SteadyInvStep == RecallInv /\ SteadyInv /\ [RecallNext]_recallVars => SteadyInv'
  <1> SUFFICES ASSUME RecallInv, SteadyInv, [RecallNext]_recallVars PROVE SteadyInv'
    OBVIOUS
  <1>1. CASE UNCHANGED recallVars
    BY <1>1 DEF recallVars, indexVars, callVars, SteadyInv, Indexed, RowsAreFinite, Live,
                SteadyWasFound, FoundOrFull, SteadyIsRead, FoundIsHit, HitOrCut
  <1>2. QED
    BY <1>1, StartKeepsSteady, SearchFtsFinds, SearchEntityFinds, SearchVectorFinds,
       ReadKeepsSteady, FuseKeepsSteady, RerankKeepsSteady, EndKeepsSteady, OthersKeepSteady
    DEF RecallNext

-----------------------------------------------------------------------------
(* The theorems.                                                           *)

\* The invariant holds at the start.
LEMMA RecallInvInit == RecallInit => RecallInv
  <1>1. Range(<<>>) = {}
    BY DEF Range
  <1>2. RecallInit => DOMAIN found = Branch /\ \A b \in Branch : found[b] = <<>>
    BY DEF RecallInit, NoRows, Branch
  <1>3. QED
    BY <1>1, <1>2
    DEF RecallInit, Init, RecallInv, CallTypes, Live, NoCache, NowIsBelieved, CopiesWereTrue,
        TextIsCached, Searched, HitsAreCached, AnswerInv, AnswersWereTrue,
        FilterLeaksOnlyThroughVectors

\* Every step keeps the invariant.
LEMMA RecallInvStep == RecallInv /\ [RecallNext]_recallVars => RecallInv'
  <1> SUFFICES ASSUME RecallInv, [RecallNext]_recallVars PROVE RecallInv'
    OBVIOUS
  <1>1. CASE UNCHANGED recallVars
    BY <1>1 DEF recallVars, indexVars, callVars, RecallInv, CallTypes, Live, NowIsBelieved,
                CopiesWereTrue, TextIsCached, Searched, HitsAreCached, AnswerInv,
                AnswersWereTrue, FilterLeaksOnlyThroughVectors
  <1>2. QED
    BY <1>1, StartStep, SearchFtsStep, SearchEntityStep, SearchVectorStep, ReadStep, FuseStep,
       RerankStep, AnswerStep, FailStep, OthersStep DEF RecallNext

\* Every hit says what a valid memory said at some time during the call.
THEOREM RecallAnswersWereTrue == RecallSpec => []AnswersWereTrue
  <1>1. RecallInv => AnswersWereTrue
    BY DEF RecallInv, AnswerInv
  <1>2. QED
    BY <1>1, RecallInvInit, RecallInvStep, PTL DEF RecallSpec

\* Only the vectors lead out of the filter.
THEOREM RecallFilters == RecallSpec => []FilterLeaksOnlyThroughVectors
  <1>1. RecallInv => FilterLeaksOnlyThroughVectors
    BY DEF RecallInv, AnswerInv
  <1>2. QED
    BY <1>1, RecallInvInit, RecallInvStep, PTL DEF RecallSpec

\* Every hit was believed during the call and lies in the scopes asked for,
\* unless the vectors found it.
THEOREM RecallAnswersAreSound == RecallSpec => []AnswersAreSound
  <1>1. AnswersWereTrue /\ FilterLeaksOnlyThroughVectors => AnswersAreSound
    BY DEF AnswersAreSound
  <1>2. QED
    BY <1>1, RecallAnswersWereTrue, RecallFilters, PTL

\* A memory counts as accessed exactly as often as it was handed out.
THEOREM RecallCounts == RecallSpec => []CountsAreAnswers
  <1>1. RecallInit => CountsAreAnswers
    BY DEF RecallInit, CountsAreAnswers
  <1>2. CountsAreAnswers /\ [RecallNext]_recallVars => CountsAreAnswers'
    <2> SUFFICES ASSUME CountsAreAnswers, [RecallNext]_recallVars PROVE CountsAreAnswers'
      OBVIOUS
    <2>1. CASE Answer
      BY <2>1 DEF Answer, CountsAreAnswers
    <2>2. CASE Start \/ SearchFts \/ SearchEntity \/ SearchVector \/ Read \/ Fuse \/ Rerank
                 \/ Fail \/ Others
      BY <2>2 DEF Start, SearchFts, SearchEntity, SearchVector, Read, Fuse, Rerank, Fail, Others,
                  history, CountsAreAnswers
    <2>3. CASE UNCHANGED recallVars
      BY <2>3 DEF recallVars, CountsAreAnswers
    <2>4. QED
      BY <2>1, <2>2, <2>3 DEF RecallNext
  <1>3. QED
    BY <1>1, <1>2, PTL DEF RecallSpec

\* A memory that was valid and unchanged during the whole call is found by
\* each branch it belongs to, whatever happens to others meanwhile, unless
\* that branch was full or the reranker's pool was.
THEOREM RecallFindsTheSteady == RecallSpec => []SteadyIsFound
  <1>1. SteadyInv => SteadyIsFound
    <2> SUFFICES ASSUME SteadyInv, pc = "answer", NEW m \in steady \ Range(hits)
                 PROVE  /\ ScopeOf[m] \in Filter =>
                             /\ content[m] \in TextHits => Crowded("fts")
                             /\ EntityHits[content[m]] > 0 => Crowded("entity")
                        /\ Embedding /\ vec[m] # NoContent => Crowded("vector")
      BY DEF SteadyIsFound
    <2>1. \A b \in Branch : FoundOrFull(m, b) => Crowded(b)
      BY DEF SteadyInv, FoundIsHit, HitOrCut, FoundOrFull, Crowded
    <2>2. QED
      BY <2>1 DEF SteadyInv, SteadyWasFound, Searched, Branch
  <1>2. QED
    BY <1>1, RecallInvInit, RecallInvStep, SteadyInvInit, SteadyInvStep, PTL DEF RecallSpec

-----------------------------------------------------------------------------
(* What recall looks for besides: the entities of the query.               *)

HIDE RecallConstants

-----------------------------------------------------------------------------
(* Pieces of a text.                                                       *)

\* A part of a sequence has its elements.
LEMMA Parts ==
  ASSUME NEW S, NEW s \in Seq(S), NEW i \in Nat, NEW j \in Nat, 1 <= i, j <= Len(s), i <= j + 1
  PROVE  /\ SubSeq(s, i, j) \in Seq(S) /\ Len(SubSeq(s, i, j)) = j - i + 1
         /\ DOMAIN SubSeq(s, i, j) = 1 .. j - i + 1
         /\ \A l \in 1 .. j - i + 1 : SubSeq(s, i, j)[l] = s[i + l - 1] /\ i + l - 1 \in i .. j
  <1>1. Len(s) \in Nat /\ DOMAIN s = 1 .. Len(s) /\ \A l \in DOMAIN s : s[l] \in S
    BY LenProperties, ElementOfSeq
  <1>2. \A l \in i .. j : s[l] \in S
    BY <1>1
  <1> DEFINE p == SubSeq(s, i, j)
  <1>3. /\ p \in Seq(S) /\ Len(p) = (IF i <= j THEN j - i + 1 ELSE 0)
        /\ \A l \in 1 .. j - i + 1 : p[l] = s[i + l - 1]
    BY <1>2, SubSeqProperties
  <1> HIDE DEF p
  <1>4. Len(p) = j - i + 1 /\ DOMAIN p = 1 .. Len(p)
    BY <1>3, LenProperties
  <1>5. QED
    BY <1>3, <1>4 DEF p

\* Two sequences with the same elements in the same places.
LEMMA SameElements ==
  ASSUME NEW S, NEW s \in Seq(S), NEW t \in Seq(S), Len(s) = Len(t), \A i \in 1 .. Len(s) : s[i] = t[i]
  PROVE  s = t
  BY SeqEqual

\* From place p on h spells n.
Spells(h, n, p) == p + Len(n) - 1 <= Len(h) /\ \A l \in 1 .. Len(n) : h[p + l - 1] = n[l]

\* Where a needle occurs its characters are in their places.
LEMMA OccursWhere ==
  ASSUME NEW S, NEW h \in Seq(S), NEW n \in Seq(S), NEW p \in Nat, 1 <= p
  PROVE  OccursAt(h, n, p) <=> Spells(h, n, p)
  <1>1. Len(h) \in Nat /\ Len(n) \in Nat
    BY LenProperties
  <1>2. ASSUME p + Len(n) - 1 <= Len(h)
        PROVE  SubSeq(h, p, p + Len(n) - 1) = n <=> \A l \in 1 .. Len(n) : h[p + l - 1] = n[l]
    <2> DEFINE j == p + Len(n) - 1
               b == SubSeq(h, p, j)
    <2>1. j \in Nat /\ j <= Len(h) /\ p <= j + 1 /\ j - p + 1 = Len(n)
      BY <1>1, <1>2
    <2>2. b \in Seq(S) /\ Len(b) = Len(n) /\ \A l \in 1 .. Len(n) : b[l] = h[p + l - 1]
      <3> HIDE DEF j
      <3>1. SubSeq(h, p, j) \in Seq(S) /\ Len(SubSeq(h, p, j)) = j - p + 1
            /\ \A l \in 1 .. j - p + 1 : SubSeq(h, p, j)[l] = h[p + l - 1]
        BY <2>1, Parts
      <3>2. QED
        BY <2>1, <3>1
    <2> HIDE DEF b, j
    <2>3. b = n <=> \A l \in 1 .. Len(n) : b[l] = n[l]
      BY <2>2, SameElements
    <2>4. b = n <=> \A l \in 1 .. Len(n) : h[p + l - 1] = n[l]
      BY <2>2, <2>3
    <2>5. QED
      BY <2>4 DEF b, j
  <1>3. QED
    BY <1>2 DEF OccursAt, Spells

-----------------------------------------------------------------------------
(* Words.                                                                  *)

\* A word somewhere in h.
WordIn(h, n) == \E p \in DOMAIN h : OccursAt(h, n, p) /\ Bounded(h, n, p)

WordFrom(h, n, start) == \E p \in start .. Len(h) : OccursAt(h, n, p) /\ Bounded(h, n, p)

\* One word does not begin inside another occurrence of it.
LEMMA NoWordInside ==
  ASSUME NEW h \in Seq(Char), NEW n \in Seq(Char), OverlapsInside(n),
         NEW p \in 1 .. Len(h), NEW q \in 1 .. Len(h), p < q, OccursAt(h, n, p), OccursAt(h, n, q), Bounded(h, n, q)
  PROVE  p + Len(n) <= q
  <1> SUFFICES ASSUME q < p + Len(n) PROVE FALSE
    <2>1. Len(h) \in Nat /\ Len(n) \in Nat
      BY LenProperties
    <2>2. QED
      BY <2>1
  <1> DEFINE i == q - p
             m == Len(n)
  <1>1. Len(h) \in Nat /\ m \in Nat /\ p \in Nat /\ q \in Nat /\ i \in Nat /\ i \in 1 .. m - 1
    BY LenProperties
  <1>2. p + m - 1 <= Len(h) /\ \A l \in 1 .. m : h[p + l - 1] = n[l]
    BY <1>1, OccursWhere DEF Spells
  <1>3. q + m - 1 <= Len(h) /\ \A l \in 1 .. m : h[q + l - 1] = n[l]
    BY <1>1, OccursWhere DEF Spells
  <1>4. SubSeq(n, i + 1, m) = SubSeq(n, 1, m - i)
    <2> DEFINE s == SubSeq(n, i + 1, m)
               t == SubSeq(n, 1, m - i)
               a == i + 1
               e == m - i
    <2> HIDE DEF i
    <2>1. a \in Nat /\ 1 <= a /\ m <= Len(n) /\ a <= m + 1 /\ m - a + 1 = e /\ e \in Nat /\ 1 <= e + 1 /\ e <= Len(n)
      BY <1>1
    <2> HIDE DEF a, e
    <2>2. SubSeq(n, a, m) \in Seq(Char) /\ Len(SubSeq(n, a, m)) = m - a + 1
          /\ \A l \in 1 .. m - a + 1 : SubSeq(n, a, m)[l] = n[a + l - 1]
      BY <1>1, <2>1, Parts
    <2>3. SubSeq(n, 1, e) \in Seq(Char) /\ Len(SubSeq(n, 1, e)) = e - 1 + 1
          /\ \A l \in 1 .. e - 1 + 1 : SubSeq(n, 1, e)[l] = n[1 + l - 1]
      BY <1>1, <2>1, Parts
    <2>4. \A l \in 1 .. e : n[a + l - 1] = n[l]
      <3> TAKE l \in 1 .. e
      <3>1. a + l - 1 \in 1 .. m /\ l \in 1 .. m /\ p + (a + l - 1) - 1 = q + l - 1
        BY <1>1, <2>1 DEF i, a, e
      <3>2. h[p + (a + l - 1) - 1] = n[a + l - 1] /\ h[q + l - 1] = n[l]
        BY <1>2, <1>3, <3>1
      <3>3. QED
        BY <3>1, <3>2
    <2>5. s \in Seq(Char) /\ t \in Seq(Char) /\ Len(s) = e /\ Len(t) = e /\ \A l \in 1 .. e : s[l] = t[l]
      <3>1. s = SubSeq(n, a, m) /\ t = SubSeq(n, 1, e) /\ e - 1 + 1 = e
        BY <2>1 DEF a, e
      <3>2. \A l \in 1 .. e : 1 + l - 1 = l
        BY <2>1
      <3> HIDE DEF s, t
      <3>3. QED
        BY <2>1, <2>2, <2>3, <2>4, <3>1, <3>2
    <2> HIDE DEF s, t
    <2>6. s = t
      BY <2>5, SameElements
    <2>7. QED
      BY <2>6 DEF s, t
  <1>5. n[i] \in WordByte
    BY <1>1, <1>4 DEF OverlapsInside
  <1>6. h[q - 1] = n[i] /\ q # 1
    <2>1. i \in 1 .. m /\ p + i - 1 = q - 1
      BY <1>1
    <2>2. QED
      BY <1>1, <1>2, <2>1
  <1>7. QED
    BY <1>5, <1>6 DEF Bounded

\* The search of contains_word: its equation.
Searches(f, h, n) ==
  f = [start \in 1 .. Len(h) + 1 |->
         LET places == {p \in start .. Len(h) : OccursAt(h, n, p)} IN
           /\ places # {}
           /\ LET p == Min(places) IN Bounded(h, n, p) \/ f[p + Len(n)]]

\* The first of some numbers.
LEMMA FirstOf ==
  ASSUME NEW T \in SUBSET Nat, T # {}
  PROVE  Min(T) \in T /\ \A x \in T : Min(T) <= x
  <1>1. \E m \in T : \A x \in T : m <= x
    BY LeastNumber
  <1>2. QED
    BY <1>1 DEF Min

\* Whether there is a word behind a place is what the search asks there.
LEMMA WordsAreSearched ==
  ASSUME NEW h \in Seq(Char), NEW n \in Seq(Char), n # <<>>, OverlapsInside(n), NEW start \in 1 .. Len(h) + 1
  PROVE  LET places == {p \in start .. Len(h) : OccursAt(h, n, p)} IN
           WordFrom(h, n, start) <=>
             /\ places # {}
             /\ Min(places) \in places /\ Min(places) + Len(n) \in 1 .. Len(h) + 1 /\ Min(places) + Len(n) > start
             /\ (Bounded(h, n, Min(places)) \/ WordFrom(h, n, Min(places) + Len(n)))
  <1> DEFINE places == {p \in start .. Len(h) : OccursAt(h, n, p)}
             first == Min(places)
  <1>1. Len(h) \in Nat /\ Len(n) \in Nat /\ Len(n) # 0
    BY LenProperties, EmptySeq
  <1>2. CASE places = {}
    <2>1. ~WordFrom(h, n, start)
      BY <1>2 DEF WordFrom
    <2>2. QED
      BY <1>2, <2>1
  <1>3. CASE places # {}
    <2>1. places \in SUBSET Nat
      BY <1>1
    <2> HIDE DEF places
    <2>2. first \in places /\ \A x \in places : first <= x
      BY <1>3, <2>1, FirstOf
    <2>3. first \in start .. Len(h) /\ OccursAt(h, n, first) /\ \A q \in start .. Len(h) : OccursAt(h, n, q) => first <= q
      BY <2>2 DEF places
    <2> HIDE DEF first
    <2>4. first \in 1 .. Len(h) /\ first + Len(n) \in 1 .. Len(h) + 1 /\ first + Len(n) > start
      <3>1. first + Len(n) - 1 <= Len(h)
        BY <2>3 DEF OccursAt
      <3>2. QED
        BY <1>1, <2>3, <3>1
    <2>5. WordFrom(h, n, start) <=> Bounded(h, n, first) \/ WordFrom(h, n, first + Len(n))
      <3>1. ASSUME Bounded(h, n, first) PROVE WordFrom(h, n, start)
        BY <2>3, <3>1 DEF WordFrom
      <3>2. ASSUME WordFrom(h, n, first + Len(n)) PROVE WordFrom(h, n, start)
        <4>1. PICK q \in first + Len(n) .. Len(h) : OccursAt(h, n, q) /\ Bounded(h, n, q)
          BY <3>2 DEF WordFrom
        <4>2. q \in start .. Len(h)
          BY <1>1, <2>3
        <4>3. QED
          BY <4>1, <4>2 DEF WordFrom
      <3>3. ASSUME WordFrom(h, n, start), ~Bounded(h, n, first) PROVE WordFrom(h, n, first + Len(n))
        <4>1. PICK q \in start .. Len(h) : OccursAt(h, n, q) /\ Bounded(h, n, q)
          BY <3>3 DEF WordFrom
        <4>2. first < q /\ q \in 1 .. Len(h)
          <5>1. first <= q /\ first # q
            BY <2>3, <3>3, <4>1
          <5>2. QED
            BY <1>1, <2>3, <5>1
        <4>3. first + Len(n) <= q
          BY <2>3, <2>4, <4>1, <4>2, NoWordInside
        <4>4. q \in first + Len(n) .. Len(h)
          BY <1>1, <2>3, <4>3
        <4>5. QED
          BY <4>1, <4>4 DEF WordFrom
      <3>4. QED
        BY <3>1, <3>2, <3>3
    <2>6. QED
      BY <1>3, <2>2, <2>4, <2>5 DEF first, places
  <1>4. QED
    BY <1>2, <1>3

\* contains_word misses no word.
LEMMA ContainsWordIs ==
  ASSUME NEW h \in Seq(Char), NEW n \in Seq(Char), n # <<>>, OverlapsInside(n)
  PROVE  ContainsWord(h, n) <=> WordIn(h, n)
  <1> DEFINE N == Len(h)
             Places(start) == {p \in start .. N : OccursAt(h, n, p)}
             Earliest(start) == Min(Places(start))
             word(start) == WordFrom(h, n, start)
             g == [start \in 1 .. N + 1 |-> word(start)]
             f == CHOOSE x : Searches(x, h, n)
             at(x, start) == Places(start) # {} /\ (Bounded(h, n, Earliest(start)) \/ x[Earliest(start) + Len(n)])
  <1>1. N \in Nat /\ 1 \in 1 .. N + 1 /\ DOMAIN h = 1 .. N
    BY LenProperties
  <1>2. ASSUME NEW start \in 1 .. N + 1
        PROVE  word(start) <=> /\ Places(start) # {}
                               /\ Earliest(start) \in Places(start)
                               /\ Earliest(start) + Len(n) \in 1 .. N + 1 /\ Earliest(start) + Len(n) > start
                               /\ (Bounded(h, n, Earliest(start)) \/ word(Earliest(start) + Len(n)))
    BY WordsAreSearched
  <1>3. \A x : Searches(x, h, n) <=> x = [start \in 1 .. N + 1 |-> at(x, start)]
    BY DEF Searches
  <1>4. \A start \in 1 .. N + 1 : word(start) \in BOOLEAN
    BY DEF WordFrom
  <1>5. \A start \in 1 .. N + 1 : Places(start) # {} => Earliest(start) + Len(n) \in 1 .. N + 1 /\ Earliest(start) + Len(n) > start
    <2> TAKE start \in 1 .. N + 1
    <2> HAVE Places(start) # {}
    <2>1. Places(start) \in SUBSET Nat
      BY <1>1
    <2>2. Len(n) \in Nat /\ Len(n) # 0
      BY LenProperties, EmptySeq
    <2> DEFINE P == Places(start)
    <2>3. \A x \in P : x \in start .. N /\ x + Len(n) - 1 <= N
      BY DEF OccursAt
    <2> HIDE DEF P
    <2>4. Min(P) \in P
      BY <2>1, FirstOf DEF P
    <2>5. Min(P) + Len(n) \in 1 .. N + 1 /\ Min(P) + Len(n) > start
      BY <1>1, <2>2, <2>3, <2>4
    <2>6. QED
      BY <2>5 DEF P
  <1> HIDE DEF N, Places, Earliest, word
  <1>6. \A start \in 1 .. N + 1 :
          word(start) <=> Places(start) # {} /\ (Bounded(h, n, Earliest(start)) \/ word(Earliest(start) + Len(n)))
    <2> TAKE start \in 1 .. N + 1
    <2>1. CASE Places(start) = {}
      BY <1>2, <2>1
    <2>2. CASE Places(start) # {} /\ (Bounded(h, n, Earliest(start)) \/ word(Earliest(start) + Len(n)))
      <3>1. Earliest(start) \in Places(start)
        <4>1. Places(start) \in SUBSET Nat
          BY <1>1 DEF Places
        <4>2. QED
          BY <2>2, <4>1, FirstOf DEF Earliest
      <3>2. QED
        BY <1>2, <1>5, <2>2, <3>1
    <2>3. CASE ~(Bounded(h, n, Earliest(start)) \/ word(Earliest(start) + Len(n)))
      BY <1>2, <2>3
    <2>4. QED
      BY <2>1, <2>2, <2>3
  <1>7. Searches(g, h, n)
    <2>1. \A start \in 1 .. N + 1 :
            g[start] = (Places(start) # {} /\ (Bounded(h, n, Earliest(start)) \/ g[Earliest(start) + Len(n)]))
      <3> TAKE start \in 1 .. N + 1
      <3>1. g[start] = word(start)
        OBVIOUS
      <3>2. Places(start) # {} => (g[Earliest(start) + Len(n)] <=> word(Earliest(start) + Len(n)))
        BY <1>5
      <3> HIDE DEF g
      <3>3. word(start) \in BOOLEAN
        BY <1>4
      <3>4. QED
        BY <1>6, <3>1, <3>2, <3>3
    <2>2. g = [start \in 1 .. N + 1 |-> g[start]]
      OBVIOUS
    <2>3. \A start \in 1 .. N + 1 : g[start] = at(g, start)
      BY <2>1
    <2> HIDE DEF g, at
    <2>4. g = [start \in 1 .. N + 1 |-> at(g, start)]
      BY <2>2, <2>3
    <2>5. QED
      BY <1>3, <2>4
  <1>8. Searches(f, h, n)
    BY <1>7
  <1> HIDE DEF f, g
  <1>9. \A start \in 1 .. N + 1 : f[start] <=> Places(start) # {} /\ (Bounded(h, n, Earliest(start)) \/ f[Earliest(start) + Len(n)])
    BY <1>3, <1>8
  <1>10. \A start \in 1 .. N + 1 : f[start] <=> word(start)
    <2> DEFINE differ == {start \in 1 .. N + 1 : ~(f[start] <=> word(start))}
               left == {N + 1 - start : start \in differ}
    <2> SUFFICES ASSUME differ # {} PROVE FALSE
      OBVIOUS
    <2>1. left \in SUBSET Nat /\ left # {}
      BY <1>1
    <2> HIDE DEF left
    <2>2. PICK m \in left : \A x \in left : m <= x
      BY <2>1, LeastNumber
    <2>3. PICK s \in differ : m = N + 1 - s
      BY <2>2 DEF left
    <2>4. \A x \in differ : N + 1 - s <= N + 1 - x
      BY <2>2, <2>3 DEF left
    <2>5. s \in 1 .. N + 1 /\ ~(f[s] <=> word(s)) /\ \A x \in 1 .. N + 1 : x > s => (f[x] <=> word(x))
      <3>1. s \in 1 .. N + 1 /\ ~(f[s] <=> word(s))
        BY <2>3
      <3>2. \A x \in 1 .. N + 1 : x \in differ => x <= s
        BY <1>1, <2>4, <3>1
      <3>3. \A x \in 1 .. N + 1 : x > s => ~(x <= s)
        BY <1>1, <3>1
      <3>4. QED
        BY <3>1, <3>2, <3>3
    <2> HIDE DEF differ
    <2>6. CASE Places(s) = {}
      BY <1>6, <1>9, <2>5, <2>6
    <2>7. CASE Places(s) # {}
      <3>1. f[Earliest(s) + Len(n)] <=> word(Earliest(s) + Len(n))
        BY <1>5, <2>5, <2>7
      <3>2. QED
        BY <1>6, <1>9, <2>5, <2>7, <3>1
    <2>8. QED
      BY <2>6, <2>7
  <1>11. ContainsWord(h, n) <=> f[1]
    BY DEF ContainsWord, f, Searches
  <1>12. word(1) <=> WordIn(h, n)
    BY <1>1 DEF word, WordFrom, WordIn, N
  <1>13. QED
    BY <1>1, <1>10, <1>11, <1>12
-----------------------------------------------------------------------------
(* A text with a blank in it.                                              *)

\* a is what h has behind its place d, up to a blank or its end, and before d
\* is a blank or nothing.
Field(a, h, d) ==
  /\ \A i \in 1 .. Len(a) : a[i] = h[d + i]
  /\ d = 0 \/ h[d] = " "
  /\ d + Len(a) = Len(h) \/ h[d + Len(a) + 1] = " "

\* The places before and behind place k of n.
LEMMA PlacesAround ==
  ASSUME NEW n \in Nat, NEW k \in Nat, 1 <= k, k <= n
  PROVE  /\ k - 1 \in Nat /\ k - 1 <= n /\ 1 <= k - 1 + 1 /\ k - 1 - 1 + 1 = k - 1 /\ 0 + (k - 1) + 1 = k
         /\ \A l \in 1 .. k - 1 : 1 + l - 1 = 0 + l
         /\ k + 1 \in Nat /\ k + 1 <= n + 1 /\ 1 <= k + 1 /\ n - (k + 1) + 1 = n - k /\ k + (n - k) = n
         /\ \A l \in 1 .. n - k : (k + 1) + l - 1 = k + l
  OBVIOUS

Blank(h, k) == h[k] = " "

\* What is before a blank is a field of the text.
LEMMA FieldBefore ==
  ASSUME NEW S, NEW s \in Seq(S), NEW k \in Nat, 1 <= k, k <= Len(s), Blank(s, k)
  PROVE  /\ SubSeq(s, 1, k - 1) \in Seq(S) /\ Len(SubSeq(s, 1, k - 1)) = k - 1
         /\ Field(SubSeq(s, 1, k - 1), s, 0)
  <1> DEFINE j == k - 1
             a == SubSeq(s, 1, j)
             N == Len(s)
  <1>0. N \in Nat /\ k <= N
    BY LenProperties
  <1> HIDE DEF N
  <1>1. j \in Nat /\ j <= N /\ 1 <= j + 1 /\ 1 \in Nat /\ 1 <= 1 /\ j - 1 + 1 = j /\ 0 + j + 1 = k
        /\ \A l \in 1 .. j : 1 + l - 1 = 0 + l
    BY <1>0, PlacesAround
  <1> HIDE DEF j
  <1>2. /\ SubSeq(s, 1, j) \in Seq(S) /\ Len(SubSeq(s, 1, j)) = j - 1 + 1
        /\ DOMAIN SubSeq(s, 1, j) = 1 .. j - 1 + 1
        /\ \A l \in 1 .. j - 1 + 1 : SubSeq(s, 1, j)[l] = s[1 + l - 1] /\ 1 + l - 1 \in 1 .. j
    BY <1>1, Parts DEF N
  <1>3. a \in Seq(S) /\ Len(a) = j /\ \A l \in 1 .. j : a[l] = s[0 + l]
    BY <1>1, <1>2
  <1> HIDE DEF a
  <1>4. s[0 + Len(a) + 1] = " "
    <2>1. 0 + Len(a) + 1 = k
      BY <1>1, <1>3
    <2>2. QED
      BY <2>1 DEF Blank
  <1>5. Field(a, s, 0)
    BY <1>3, <1>4 DEF Field
  <1>6. QED
    BY <1>3, <1>5 DEF a, j

\* What is behind a blank is a field of the text.
LEMMA FieldBehind ==
  ASSUME NEW S, NEW s \in Seq(S), NEW k \in Nat, 1 <= k, k <= Len(s), Blank(s, k)
  PROVE  /\ SubSeq(s, k + 1, Len(s)) \in Seq(S) /\ Len(SubSeq(s, k + 1, Len(s))) = Len(s) - k
         /\ Field(SubSeq(s, k + 1, Len(s)), s, k)
  <1> DEFINE N == Len(s)
             j == k + 1
             a == SubSeq(s, j, N)
  <1>1. N \in Nat /\ k <= N
    BY LenProperties
  <1> HIDE DEF N
  <1>2. j \in Nat /\ j <= N + 1 /\ 1 <= j /\ N - j + 1 = N - k /\ k + (N - k) = N
        /\ \A l \in 1 .. N - k : j + l - 1 = k + l
    BY <1>1, PlacesAround
  <1> HIDE DEF j
  <1>x. N <= Len(s)
    BY <1>1 DEF N
  <1>3. /\ SubSeq(s, j, N) \in Seq(S) /\ Len(SubSeq(s, j, N)) = N - j + 1
        /\ DOMAIN SubSeq(s, j, N) = 1 .. N - j + 1
        /\ \A l \in 1 .. N - j + 1 : SubSeq(s, j, N)[l] = s[j + l - 1] /\ j + l - 1 \in j .. N
    BY <1>1, <1>2, <1>x, Parts
  <1>4. a \in Seq(S) /\ Len(a) = N - k /\ \A l \in 1 .. N - k : a[l] = s[k + l]
    BY <1>2, <1>3
  <1> HIDE DEF a
  <1>5. k + Len(a) = Len(s)
    BY <1>2, <1>4 DEF N
  <1>6. Field(a, s, k)
    BY <1>4, <1>5 DEF Field, Blank
  <1>7. QED
    BY <1>4, <1>6 DEF a, j, N

\* A needle in a field of a text.
LEMMA OccursInField ==
  ASSUME NEW h \in Seq(Char), NEW a \in Seq(Char), NEW n \in Seq(Char), NEW d \in Nat, Field(a, h, d),
         d + Len(a) <= Len(h), NEW p \in Nat, 1 <= p, p + Len(n) - 1 <= Len(a)
  PROVE  OccursAt(h, n, d + p) <=> OccursAt(a, n, p)
  <1> DEFINE q == d + p
             m == Len(n)
             A == Len(a)
             N == Len(h)
  <1>1. m \in Nat /\ A \in Nat /\ N \in Nat /\ q \in Nat /\ 1 <= q /\ q + m - 1 <= N /\ p + m - 1 <= A
    BY LenProperties
  <1>2. \A l \in 1 .. m : p + l - 1 \in 1 .. A /\ d + (p + l - 1) = q + l - 1
    BY <1>1
  <1>3. \A i \in 1 .. A : a[i] = h[d + i]
    BY DEF Field
  <1> HIDE DEF q
  <1>4. OccursAt(h, n, q) <=> Spells(h, n, q)
    BY <1>1, OccursWhere
  <1>5. OccursAt(a, n, p) <=> Spells(a, n, p)
    BY OccursWhere
  <1>6. \A l \in 1 .. m : a[p + l - 1] = h[q + l - 1]
    BY <1>2, <1>3
  <1>7. Spells(h, n, q) <=> Spells(a, n, p)
    BY <1>1, <1>6 DEF Spells
  <1>8. QED
    BY <1>4, <1>5, <1>7 DEF q

\* Around a needle in a field is the same as in the text, or a blank.
LEMMA BoundedInField ==
  ASSUME NEW h \in Seq(Char), NEW a \in Seq(Char), NEW n \in Seq(Char), NEW d \in Nat, Field(a, h, d),
         d + Len(a) <= Len(h), NEW p \in Nat, 1 <= p, p + Len(n) - 1 <= Len(a)
  PROVE  Bounded(h, n, d + p) <=> Bounded(a, n, p)
  <1> DEFINE q == d + p
             m == Len(n)
             A == Len(a)
             N == Len(h)
  <1>1. m \in Nat /\ A \in Nat /\ N \in Nat /\ q \in Nat /\ 1 <= q /\ p + m - 1 <= A /\ d + A <= N
    BY LenProperties
  <1>2. " " \notin WordByte
    BY DEF WordByte, Digits
  <1>3. \A i \in 1 .. A : a[i] = h[d + i]
    BY DEF Field
  <1>4. (q = 1 \/ h[q - 1] \notin WordByte) <=> (p = 1 \/ a[p - 1] \notin WordByte)
    <2>1. CASE p = 1
      <3>1. q - 1 = d
        BY <2>1
      <3>2. d = 0 \/ h[d] = " "
        BY DEF Field
      <3>3. d = 0 => q = 1
        BY <2>1
      <3>4. QED
        BY <1>2, <2>1, <3>1, <3>2, <3>3
    <2>2. CASE p # 1
      <3>1. p - 1 \in 1 .. A /\ d + (p - 1) = q - 1 /\ q # 1
        BY <1>1, <2>2
      <3>2. a[p - 1] = h[q - 1]
        BY <1>3, <3>1
      <3>3. QED
        BY <2>2, <3>1, <3>2
    <2>3. QED
      BY <2>1, <2>2
  <1>5. (q + m > N \/ h[q + m] \notin WordByte) <=> (p + m > A \/ a[p + m] \notin WordByte)
    <2>1. CASE p + m > A
      <3>1. q + m = d + A + 1
        BY <1>1, <2>1
      <3>2. d + A = N \/ h[d + A + 1] = " "
        BY DEF Field
      <3>3. d + A = N => q + m > N
        BY <1>1, <3>1
      <3> HIDE DEF q, m, N, A
      <3>4. h[q + m] = h[d + A + 1]
        BY <3>1
      <3>5. QED
        BY <1>2, <2>1, <3>2, <3>3, <3>4
    <2>2. CASE ~(p + m > A)
      <3>1. p + m \in 1 .. A /\ d + (p + m) = q + m /\ ~(q + m > N)
        BY <1>1, <2>2
      <3>2. a[p + m] = h[q + m]
        BY <1>3, <3>1
      <3>3. QED
        BY <2>2, <3>1, <3>2
    <2>3. QED
      BY <2>1, <2>2
  <1>6. QED
    BY <1>4, <1>5 DEF Bounded
\* A word of a field is a word of the text.
LEMMA WordOfField ==
  ASSUME NEW h \in Seq(Char), NEW a \in Seq(Char), NEW n \in Seq(Char), n # <<>>, NEW d \in Nat, Field(a, h, d),
         d + Len(a) <= Len(h), WordIn(a, n)
  PROVE  WordIn(h, n)
  <1>1. PICK p \in DOMAIN a : OccursAt(a, n, p) /\ Bounded(a, n, p)
    BY DEF WordIn
  <1> DEFINE q == d + p
  <1>2. Len(h) \in Nat /\ Len(a) \in Nat /\ p \in 1 .. Len(a) /\ DOMAIN h = 1 .. Len(h)
    BY LenProperties
  <1>3. p \in Nat /\ 1 <= p /\ q \in 1 .. Len(h)
    BY <1>2
  <1>4. p + Len(n) - 1 <= Len(a)
    BY <1>1 DEF OccursAt
  <1>5. OccursAt(h, n, q)
    BY <1>1, <1>3, <1>4, OccursInField
  <1>6. Bounded(h, n, q)
    BY <1>1, <1>3, <1>4, BoundedInField
  <1>7. QED
    BY <1>2, <1>3, <1>5, <1>6 DEF WordIn

\* A needle in a text, if it falls in a field, is there.
LEMMA WordFallsInField ==
  ASSUME NEW h \in Seq(Char), NEW a \in Seq(Char), NEW n \in Seq(Char), n # <<>>, NEW d \in Nat, Field(a, h, d),
         d + Len(a) <= Len(h), NEW q \in Nat, OccursAt(h, n, q), Bounded(h, n, q), d < q, q + Len(n) - 1 <= d + Len(a)
  PROVE  WordIn(a, n)
  <1> DEFINE p == q - d
  <1>1. Len(a) \in Nat /\ Len(n) \in Nat /\ Len(n) # 0 /\ DOMAIN a = 1 .. Len(a)
    BY LenProperties, EmptySeq
  <1>2. p \in Nat /\ 1 <= p /\ d + p = q /\ p + Len(n) - 1 <= Len(a) /\ p \in 1 .. Len(a)
    BY <1>1
  <1> HIDE DEF p
  <1>3. OccursAt(h, n, d + p) <=> OccursAt(a, n, p)
    BY <1>2, OccursInField
  <1>4. Bounded(h, n, d + p) <=> Bounded(a, n, p)
    BY <1>2, BoundedInField
  <1>5. QED
    BY <1>1, <1>2, <1>3, <1>4 DEF WordIn

BlankFree(n) == " " \notin ToSet(n)

\* A word that has no blank is before or behind each blank of a text.
LEMMA WordsOfFields ==
  ASSUME NEW h \in Seq(Char), NEW n \in Seq(Char), n # <<>>, BlankFree(n), NEW k \in Nat, 1 <= k, k <= Len(h),
         Blank(h, k), NEW a \in Seq(Char), Len(a) = k - 1, Field(a, h, 0),
         NEW b \in Seq(Char), Len(b) = Len(h) - k, Field(b, h, k)
  PROVE  WordIn(h, n) <=> WordIn(a, n) \/ WordIn(b, n)
  <1> DEFINE m == Len(n)
             N == Len(h)
  <1>1. m \in Nat /\ N \in Nat /\ DOMAIN h = 1 .. N /\ DOMAIN n = 1 .. m
    BY LenProperties
  <1>2. \A l \in 1 .. m : n[l] # " "
    BY <1>1 DEF ToSet, BlankFree
  <1>3. 0 \in Nat /\ 0 + Len(a) <= Len(h) /\ k + Len(b) <= Len(h)
    <2>1. 0 \in Nat /\ 0 + (k - 1) <= N /\ k + (N - k) <= N
      BY <1>1, PlacesAround
    <2>2. QED
      BY <2>1
  <1>4. WordIn(a, n) => WordIn(h, n)
    BY <1>3, WordOfField
  <1>5. WordIn(b, n) => WordIn(h, n)
    BY <1>3, WordOfField
  <1>6. ASSUME WordIn(h, n) PROVE WordIn(a, n) \/ WordIn(b, n)
    <2>1. PICK q \in DOMAIN h : OccursAt(h, n, q) /\ Bounded(h, n, q)
      BY <1>6 DEF WordIn
    <2>2. q \in Nat /\ 1 <= q /\ q + m - 1 <= N
      BY <1>1, <2>1 DEF OccursAt
    <2>3. q > k \/ q + m <= k
      <3> SUFFICES ASSUME ~(q + m <= k), ~(q > k) PROVE FALSE
        OBVIOUS
      <3>1. Spells(h, n, q)
        BY <2>1, <2>2, OccursWhere
      <3> DEFINE l == k - q + 1
      <3>2. l \in 1 .. m /\ q + l - 1 = k
        BY <1>1, <2>2
      <3> HIDE DEF l
      <3>3. h[q + l - 1] = n[l]
        BY <3>1, <3>2 DEF Spells
      <3>4. QED
        BY <1>2, <3>2, <3>3 DEF Blank
    <2>4. CASE q + m <= k
      <3>1. 0 < q /\ q + Len(n) - 1 <= 0 + Len(a)
        BY <1>1, <2>2, <2>4
      <3>2. WordIn(a, n)
        BY <1>3, <2>1, <2>2, <3>1, WordFallsInField
      <3>3. QED
        BY <3>2
    <2>5. CASE q > k
      <3>1. k < q /\ q + Len(n) - 1 <= k + Len(b)
        BY <1>1, <2>2, <2>5
      <3>2. WordIn(b, n)
        BY <1>3, <2>1, <2>2, <3>1, WordFallsInField
      <3>3. QED
        BY <3>2
    <2>6. QED
      BY <2>3, <2>4, <2>5
  <1>7. QED
    BY <1>4, <1>5, <1>6
-----------------------------------------------------------------------------
(* Tokens.                                                                 *)

\* Place i to place j of s is a run of token characters, and no longer one.
Run(s, i, j) ==
  /\ \A l \in i .. j : s[l] \in TokenChars
  /\ i = 1 \/ s[i - 1] \notin TokenChars
  /\ j = Len(s) \/ s[j + 1] \notin TokenChars

\* The characters of a part.
LEMMA OnlyInPart ==
  ASSUME NEW s \in Seq(Char), NEW C, NEW i \in Nat, NEW j \in Nat, 1 <= i, i <= j, j <= Len(s)
  PROVE  Only(SubSeq(s, i, j), C) <=> \A l \in i .. j : s[l] \in C
  <1> DEFINE p == SubSeq(s, i, j)
             m == j - i + 1
  <1>1. i <= j + 1 /\ m \in Nat
    OBVIOUS
  <1>2. DOMAIN p = 1 .. m /\ \A l \in 1 .. m : p[l] = s[i + l - 1]
    BY <1>1, Parts
  <1>3. \A l \in 1 .. m : i + l - 1 \in i .. j
    OBVIOUS
  <1>4. \A l \in i .. j : l - i + 1 \in 1 .. m /\ i + (l - i + 1) - 1 = l
    OBVIOUS
  <1> HIDE DEF p, m
  <1>5. Only(p, C) <=> \A l \in 1 .. m : p[l] \in C
    BY <1>2 DEF Only, ToSet
  <1>6. ASSUME \A l \in 1 .. m : p[l] \in C, NEW l \in i .. j PROVE s[l] \in C
    <2> DEFINE q == l - i + 1
    <2>1. q \in 1 .. m /\ i + q - 1 = l
      BY <1>4
    <2> HIDE DEF q
    <2>2. p[q] = s[i + q - 1] /\ p[q] \in C
      BY <1>2, <1>6, <2>1
    <2>3. QED
      BY <2>1, <2>2
  <1>7. ASSUME \A l \in i .. j : s[l] \in C, NEW l \in 1 .. m PROVE p[l] \in C
    BY <1>2, <1>3, <1>7
  <1>8. QED
    BY <1>5, <1>6, <1>7 DEF p

\* The tokens are the runs.
LEMMA TokensAreRuns ==
  ASSUME NEW s \in Seq(Char), NEW t
  PROVE  t \in Tokens(s) <=>
           \E i \in 1 .. Len(s) : \E j \in 1 .. Len(s) : i <= j /\ Run(s, i, j) /\ t = SubSeq(s, i, j)
  <1> DEFINE D == 1 .. Len(s)
             token(i, j) == /\ i <= j /\ Only(SubSeq(s, i, j), TokenChars)
                            /\ i = 1 \/ s[i - 1] \notin TokenChars
                            /\ j = Len(s) \/ s[j + 1] \notin TokenChars
  <1>1. DOMAIN s = D /\ Len(s) \in Nat
    BY LenProperties
  <1>2. \A i, j \in D : token(i, j) <=> i <= j /\ Run(s, i, j)
    <2> TAKE i, j \in D
    <2>1. i \in Nat /\ j \in Nat /\ 1 <= i /\ j <= Len(s)
      BY <1>1
    <2>2. i <= j => (Only(SubSeq(s, i, j), TokenChars) <=> \A l \in i .. j : s[l] \in TokenChars)
      BY <2>1, OnlyInPart
    <2>3. QED
      BY <2>2 DEF Run
  <1>3. Tokens(s) = {SubSeq(s, r[1], r[2]) : r \in {q \in D \X D : token(q[1], q[2])}}
    BY <1>1 DEF Tokens
  <1> HIDE DEF token, D
  <1>4. t \in Tokens(s) <=> \E i \in D : \E j \in D : token(i, j) /\ t = SubSeq(s, i, j)
    <2>1. ASSUME t \in Tokens(s) PROVE \E i \in D : \E j \in D : token(i, j) /\ t = SubSeq(s, i, j)
      <3>1. PICK r \in D \X D : token(r[1], r[2]) /\ t = SubSeq(s, r[1], r[2])
        BY <1>3, <2>1
      <3>2. r[1] \in D /\ r[2] \in D
        OBVIOUS
      <3>3. QED
        BY <3>1, <3>2
    <2>2. ASSUME NEW i \in D, NEW j \in D, token(i, j), t = SubSeq(s, i, j) PROVE t \in Tokens(s)
      <3> DEFINE r == <<i, j>>
      <3>1. r \in D \X D /\ r[1] = i /\ r[2] = j
        OBVIOUS
      <3> HIDE DEF r
      <3>2. r \in {q \in D \X D : token(q[1], q[2])} /\ t = SubSeq(s, r[1], r[2])
        BY <2>2, <3>1
      <3>3. QED
        BY <1>3, <3>2
    <2>3. QED
      BY <2>1, <2>2
  <1>5. QED
    BY <1>2, <1>4 DEF D

\* A run of a field is one of the text.
LEMMA RunInField ==
  ASSUME NEW h \in Seq(Char), NEW a \in Seq(Char), NEW d \in Nat, Field(a, h, d), d + Len(a) <= Len(h),
         NEW i \in Nat, NEW j \in Nat, 1 <= i, i <= j, j <= Len(a)
  PROVE  (Run(h, d + i, d + j) <=> Run(a, i, j)) /\ SubSeq(h, d + i, d + j) = SubSeq(a, i, j)
  <1> DEFINE x == d + i
             y == d + j
             A == Len(a)
             N == Len(h)
             m == j - i + 1
  <1>1. A \in Nat /\ N \in Nat /\ x \in Nat /\ y \in Nat /\ 1 <= x /\ x <= y /\ y <= N /\ d + A <= N
        /\ x <= y + 1 /\ i <= j + 1 /\ m \in Nat /\ y - x + 1 = m
    BY LenProperties
  <1>2. " " \notin TokenChars
    BY DEF TokenChars, WordByte, Digits
  <1>3. \A l \in 1 .. A : a[l] = h[d + l]
    BY DEF Field
  <1>4. (x = 1 \/ h[x - 1] \notin TokenChars) <=> (i = 1 \/ a[i - 1] \notin TokenChars)
    <2>1. CASE i = 1
      <3>1. x - 1 = d
        BY <2>1
      <3>2. d = 0 \/ h[d] = " "
        BY DEF Field
      <3>3. d = 0 => x = 1
        BY <2>1
      <3>4. QED
        BY <1>2, <2>1, <3>1, <3>2, <3>3
    <2>2. CASE i # 1
      <3>1. i - 1 \in 1 .. A /\ d + (i - 1) = x - 1 /\ x # 1
        BY <1>1, <2>2
      <3>2. a[i - 1] = h[x - 1]
        BY <1>3, <3>1
      <3>3. QED
        BY <2>2, <3>1, <3>2
    <2>3. QED
      BY <2>1, <2>2
  <1>5. (y = N \/ h[y + 1] \notin TokenChars) <=> (j = A \/ a[j + 1] \notin TokenChars)
    <2>1. CASE j = A
      <3>1. y + 1 = d + A + 1
        BY <2>1
      <3>2. d + A = N \/ h[d + A + 1] = " "
        BY DEF Field
      <3>3. d + A = N => y = N
        BY <2>1
      <3> HIDE DEF y, N, A
      <3>4. h[y + 1] = h[d + A + 1]
        BY <3>1
      <3>5. QED
        BY <1>2, <2>1, <3>2, <3>3, <3>4
    <2>2. CASE j # A
      <3>1. j + 1 \in 1 .. A /\ d + (j + 1) = y + 1 /\ y # N
        BY <1>1, <2>2
      <3>2. a[j + 1] = h[y + 1]
        BY <1>3, <3>1
      <3>3. QED
        BY <2>2, <3>1, <3>2
    <2>3. QED
      BY <2>1, <2>2
  <1>6. \A l \in i .. j : l \in 1 .. A /\ d + l \in x .. y
    BY <1>1
  <1>7. \A l \in x .. y : l - d \in i .. j /\ d + (l - d) = l
    BY <1>1
  <1> HIDE DEF x, y
  <1>8. (\A l \in x .. y : h[l] \in TokenChars) <=> \A l \in i .. j : a[l] \in TokenChars
    <2>1. ASSUME \A l \in x .. y : h[l] \in TokenChars, NEW l \in i .. j PROVE a[l] \in TokenChars
      BY <1>3, <1>6, <2>1
    <2>2. ASSUME \A l \in i .. j : a[l] \in TokenChars, NEW l \in x .. y PROVE h[l] \in TokenChars
      <3> DEFINE e == l - d
      <3>1. e \in i .. j /\ d + e = l
        BY <1>7
      <3> HIDE DEF e
      <3>2. a[e] \in TokenChars /\ a[e] = h[d + e]
        BY <1>3, <1>6, <2>2, <3>1
      <3>3. QED
        BY <3>1, <3>2
    <2>3. QED
      BY <2>1, <2>2
  <1>9. Run(h, x, y) <=> Run(a, i, j)
    BY <1>4, <1>5, <1>8 DEF Run
  <1>10. SubSeq(h, x, y) = SubSeq(a, i, j)
    <2> DEFINE s == SubSeq(h, x, y)
               t == SubSeq(a, i, j)
    <2>1. s \in Seq(Char) /\ Len(s) = y - x + 1 /\ \A l \in 1 .. y - x + 1 : s[l] = h[x + l - 1]
      BY <1>1, Parts
    <2>2. t \in Seq(Char) /\ Len(t) = j - i + 1 /\ \A l \in 1 .. j - i + 1 : t[l] = a[i + l - 1]
      BY <1>1, Parts
    <2> HIDE DEF s, t
    <2>3. \A l \in 1 .. m : i + l - 1 \in 1 .. A /\ d + (i + l - 1) = x + l - 1
      BY <1>1 DEF x
    <2>4. \A l \in 1 .. m : h[x + l - 1] = a[i + l - 1]
      BY <1>3, <2>3
    <2> HIDE DEF m
    <2>5. Len(s) = m /\ Len(t) = m /\ \A l \in 1 .. m : s[l] = t[l]
      BY <1>1, <2>1, <2>2, <2>4 DEF m
    <2>6. s = t
      BY <2>1, <2>2, <2>5, SameElements
    <2>7. QED
      BY <2>6 DEF s, t
  <1>11. QED
    BY <1>9, <1>10 DEF x, y

\* A token of a field is one of the text.
LEMMA TokenOfField ==
  ASSUME NEW h \in Seq(Char), NEW a \in Seq(Char), NEW d \in Nat, Field(a, h, d), d + Len(a) <= Len(h),
         NEW t, t \in Tokens(a)
  PROVE  t \in Tokens(h)
  <1>1. PICK i \in 1 .. Len(a) : \E j \in 1 .. Len(a) : i <= j /\ Run(a, i, j) /\ t = SubSeq(a, i, j)
    BY TokensAreRuns
  <1>2. PICK j \in 1 .. Len(a) : i <= j /\ Run(a, i, j) /\ t = SubSeq(a, i, j)
    BY <1>1
  <1> DEFINE x == d + i
             y == d + j
  <1>3. Len(a) \in Nat /\ Len(h) \in Nat
    BY LenProperties
  <1>4. i \in Nat /\ j \in Nat /\ 1 <= i /\ j <= Len(a) /\ x \in 1 .. Len(h) /\ y \in 1 .. Len(h) /\ x <= y
    BY <1>2, <1>3
  <1>5. Run(h, x, y) /\ t = SubSeq(h, x, y)
    BY <1>2, <1>4, RunInField
  <1> HIDE DEF x, y
  <1>6. QED
    BY <1>4, <1>5, TokensAreRuns

\* A run of the text that falls in a field is a token of it.
LEMMA TokenFallsInField ==
  ASSUME NEW h \in Seq(Char), NEW a \in Seq(Char), NEW d \in Nat, Field(a, h, d), d + Len(a) <= Len(h),
         NEW x \in Nat, NEW y \in Nat, d < x, x <= y, y <= d + Len(a), Run(h, x, y)
  PROVE  SubSeq(h, x, y) \in Tokens(a)
  <1> DEFINE i == x - d
             j == y - d
  <1>1. Len(a) \in Nat
    BY LenProperties
  <1>2. i \in Nat /\ j \in Nat /\ 1 <= i /\ i <= j /\ j <= Len(a) /\ d + i = x /\ d + j = y
        /\ i \in 1 .. Len(a) /\ j \in 1 .. Len(a)
    BY <1>1
  <1> HIDE DEF i, j
  <1>3. (Run(h, d + i, d + j) <=> Run(a, i, j)) /\ SubSeq(h, d + i, d + j) = SubSeq(a, i, j)
    BY <1>2, RunInField
  <1>4. Run(a, i, j) /\ SubSeq(h, x, y) = SubSeq(a, i, j)
    BY <1>2, <1>3
  <1>5. QED
    BY <1>2, <1>4, TokensAreRuns

\* The tokens of a text are those before and behind each blank.
LEMMA TokensOfFields ==
  ASSUME NEW h \in Seq(Char), NEW k \in Nat, 1 <= k, k <= Len(h), Blank(h, k),
         NEW a \in Seq(Char), Len(a) = k - 1, Field(a, h, 0),
         NEW b \in Seq(Char), Len(b) = Len(h) - k, Field(b, h, k)
  PROVE  Tokens(h) = Tokens(a) \cup Tokens(b)
  <1> DEFINE N == Len(h)
  <1>1. N \in Nat
    BY LenProperties
  <1>2. 0 \in Nat /\ 0 + Len(a) <= Len(h) /\ k + Len(b) <= Len(h)
    <2>1. 0 \in Nat /\ 0 + (k - 1) <= N /\ k + (N - k) <= N
      BY <1>1, PlacesAround
    <2>2. QED
      BY <2>1
  <1>3. \A t : t \in Tokens(a) => t \in Tokens(h)
    BY <1>2, TokenOfField
  <1>4. \A t : t \in Tokens(b) => t \in Tokens(h)
    BY <1>2, TokenOfField
  <1>5. ASSUME NEW t, t \in Tokens(h) PROVE t \in Tokens(a) \/ t \in Tokens(b)
    <2>1. PICK x \in 1 .. N : \E j \in 1 .. N : x <= j /\ Run(h, x, j) /\ t = SubSeq(h, x, j)
      BY <1>5, TokensAreRuns
    <2>2. PICK y \in 1 .. N : x <= y /\ Run(h, x, y) /\ t = SubSeq(h, x, y)
      BY <2>1
    <2>3. x \in Nat /\ y \in Nat /\ 1 <= x /\ y <= N
      BY <1>1
    <2>4. y < k \/ k < x
      <3> SUFFICES ASSUME ~(y < k), ~(k < x) PROVE FALSE
        OBVIOUS
      <3>1. k \in x .. y
        BY <2>3
      <3>2. h[k] \in TokenChars
        BY <2>2, <3>1 DEF Run
      <3>3. QED
        BY <3>2 DEF Blank, TokenChars, WordByte, Digits
    <2>5. CASE y < k
      <3>1. 0 < x /\ y <= 0 + Len(a)
        BY <2>3, <2>5
      <3>2. SubSeq(h, x, y) \in Tokens(a)
        BY <1>2, <2>2, <2>3, <3>1, TokenFallsInField
      <3>3. QED
        BY <2>2, <3>2
    <2>6. CASE k < x
      <3>1. y <= k + Len(b)
        BY <1>1, <2>3
      <3>2. SubSeq(h, x, y) \in Tokens(b)
        BY <1>2, <2>2, <2>3, <2>6, <3>1, TokenFallsInField
      <3>3. QED
        BY <2>2, <3>2
    <2>7. QED
      BY <2>4, <2>5, <2>6
  <1>6. QED
    BY <1>3, <1>4, <1>5
-----------------------------------------------------------------------------
(* Entities.                                                               *)

\* Errors, files and symbols are found token by token.
LEMMA FoundByToken ==
  ASSUME NEW s, NEW a, NEW b, Tokens(s) = Tokens(a) \cup Tokens(b)
  PROVE  /\ Errors(s) = Errors(a) \cup Errors(b)
         /\ Files(s) = Files(a) \cup Files(b)
         /\ Symbols(s) = Symbols(a) \cup Symbols(b)
  <1> DEFINE T == Tokens(s)
             A == Tokens(a)
             B == Tokens(b)
             refusal(u) == Len(u) = 3 /\ Only(u, Digits) /\ u[1] = "5"
             constant(t) == /\ Len(t) >= 4 /\ Only(t, {"X", "_"} \cup Digits) /\ Some(t, {"X"})
                            /\ Some(t, {"_"}) \/ Len(t) >= 6
             path(u) == Some(u, {"/"}) \/ \E e \in Extensions : IsSuffix(e, Lower(u))
             bare(u) == TrimEnd(u, {"."})
             long(f) == Bytes(f) >= 3
             name(u) == TrimEnd(u, {"("})
             cased(u) == LET r == TrimEnd(u, {"("}) IN
                           \/ Some(r, {"x", "y"}) /\ Some(r, {"X"})
                           \/ Some(r, {"_"}) /\ Len(r) >= 5
                           \/ Last(u) = "("
             symbol(raw) == /\ Len(raw) >= 3 /\ Only(raw, WordByte) /\ ~Only(raw, Digits)
                            /\ Lower(raw) \notin Libraries \cup Concepts
             errors(X) == {Http(t) : t \in {u \in X : refusal(u)}} \cup {t \in X : constant(t)}
             files(X) == {f \in {bare(t) : t \in {u \in X : path(u)}} : long(f)}
             symbols(X) == {raw \in {name(t) : t \in {u \in X : cased(u)}} : symbol(raw)}
  <1>1. \A x : Errors(x) = errors(Tokens(x))
    BY DEF Errors
  <1>2. \A x : Files(x) = files(Tokens(x))
    BY DEF Files
  <1>3. \A x : Symbols(x) = symbols(Tokens(x))
    BY DEF Symbols
  <1>4. T = A \cup B
    OBVIOUS
  <1> HIDE DEF T, A, B, refusal, constant, path, bare, long, name, cased, symbol
  <1>5. errors(T) = errors(A) \cup errors(B)
    BY <1>4
  <1>6. files(T) = files(A) \cup files(B)
    BY <1>4
  <1>7. symbols(T) = symbols(A) \cup symbols(B)
    BY <1>4
  <1> HIDE DEF errors, files, symbols
  <1>8. QED
    BY <1>1, <1>2, <1>3, <1>5, <1>6, <1>7 DEF T, A, B

\* Letter case changes no place, no length and no blank.
LEMMA LowerKeeps ==
  ASSUME NEW s \in Seq(Char)
  PROVE  /\ Lower(s) \in Seq(Char) /\ Len(Lower(s)) = Len(s) /\ DOMAIN Lower(s) = 1 .. Len(s)
         /\ \A i \in 1 .. Len(s) : Lower(s)[i] = (IF s[i] = "X" THEN "x" ELSE s[i])
  <1> DEFINE N == Len(s)
             low(c) == IF c = "X" THEN "x" ELSE c
             l == [i \in 1 .. N |-> low(s[i])]
  <1>1. N \in Nat /\ DOMAIN s = 1 .. N /\ \A i \in 1 .. N : s[i] \in Char
    BY LenProperties, ElementOfSeq
  <1>2. \A c \in Char : low(c) \in Char
    BY DEF Char, WordByte
  <1>3. Lower(s) = l
    BY <1>1 DEF Lower
  <1> HIDE DEF N, low
  <1>4. l \in [1 .. N -> Char]
    BY <1>1, <1>2
  <1>5. l \in Seq(Char)
    BY <1>1, <1>4, SeqDef
  <1>6. DOMAIN l = 1 .. N /\ \A i \in 1 .. N : l[i] = low(s[i])
    OBVIOUS
  <1> HIDE DEF l
  <1>7. Len(l) = N
    <2>1. Len(l) \in Nat /\ DOMAIN l = 1 .. Len(l)
      BY <1>5, LenProperties
    <2>2. 1 .. Len(l) = 1 .. N
      BY <1>6, <2>1
    <2> DEFINE M == Len(l)
    <2>3. M \in Nat
      BY <2>1
    <2> HIDE DEF M
    <2>4. 1 .. M = 1 .. N
      BY <2>2 DEF M
    <2>5. M = N
      BY <1>1, <2>3, <2>4
    <2>6. QED
      BY <2>5 DEF M
  <1>8. QED
    BY <1>3, <1>5, <1>6, <1>7 DEF N, low

\* A field in lower case is a field of the text in lower case.
LEMMA LowerField ==
  ASSUME NEW h \in Seq(Char), NEW a \in Seq(Char), NEW d \in Nat, Field(a, h, d), d + Len(a) <= Len(h)
  PROVE  Field(Lower(a), Lower(h), d)
  <1> DEFINE A == Len(a)
             N == Len(h)
             x == Lower(a)
             y == Lower(h)
  <1>1. A \in Nat /\ N \in Nat /\ d + A <= N
    BY LenProperties
  <1>2. Len(x) = A /\ \A i \in 1 .. A : x[i] = (IF a[i] = "X" THEN "x" ELSE a[i])
    BY LowerKeeps
  <1>3. Len(y) = N /\ \A i \in 1 .. N : y[i] = (IF h[i] = "X" THEN "x" ELSE h[i])
    BY LowerKeeps
  <1>4. (\A i \in 1 .. A : a[i] = h[d + i]) /\ (d = 0 \/ h[d] = " ") /\ (d + A = N \/ h[d + A + 1] = " ")
    BY DEF Field
  <1>5. \A i \in 1 .. A : d + i \in 1 .. N
    BY <1>1
  <1>6. d = 0 \/ d \in 1 .. N
    BY <1>1
  <1>7. d + A = N \/ d + A + 1 \in 1 .. N
    BY <1>1
  <1> HIDE DEF A, N, x, y
  <1>8. \A i \in 1 .. A : x[i] = y[d + i]
    BY <1>2, <1>3, <1>4, <1>5
  <1>9. d = 0 \/ y[d] = " "
    BY <1>3, <1>4, <1>6
  <1>10. d + A = N \/ y[d + A + 1] = " "
    <2> DEFINE e == d + A + 1
    <2>1. CASE d + A # N
      <3>1. e \in 1 .. N /\ h[e] = " "
        BY <1>4, <1>7, <2>1
      <3> HIDE DEF e
      <3>2. y[e] = " "
        BY <1>3, <3>1
      <3>3. QED
        BY <3>2 DEF e
    <2>2. QED
      BY <2>1
  <1>11. QED
    BY <1>2, <1>3, <1>8, <1>9, <1>10 DEF Field, x, y

\* What occurs in a field occurs in the text.
LEMMA OccursInText ==
  ASSUME NEW h \in Seq(Char), NEW a \in Seq(Char), NEW c \in Seq(Char), NEW d \in Nat, Field(a, h, d),
         d + Len(a) <= Len(h), NEW p \in 1 .. Len(a), OccursAt(Lower(a), c, p)
  PROVE  \E q \in DOMAIN h : OccursAt(Lower(h), c, q)
  <1> DEFINE x == Lower(a)
             y == Lower(h)
             q == d + p
  <1>1. Len(a) \in Nat /\ Len(h) \in Nat /\ DOMAIN h = 1 .. Len(h)
    BY LenProperties
  <1>2. p \in Nat /\ 1 <= p /\ q \in 1 .. Len(h)
    BY <1>1
  <1>3. x \in Seq(Char) /\ y \in Seq(Char) /\ Len(x) = Len(a) /\ Len(y) = Len(h) /\ Field(x, y, d)
    BY LowerKeeps, LowerField
  <1> HIDE DEF x, y
  <1>4. OccursAt(x, c, p)
    BY DEF x
  <1>5. p + Len(c) - 1 <= Len(x)
    BY <1>4 DEF OccursAt
  <1>6. OccursAt(y, c, q)
    BY <1>2, <1>3, <1>4, <1>5, OccursInField
  <1>7. QED
    BY <1>1, <1>2, <1>6 DEF y
-----------------------------------------------------------------------------
(* Texts of pieces.                                                        *)

\* Records of one kind.
OfKind(kind, N) == {[kind |-> kind, name |-> n] : n \in N}

\* The words of a lexicon and the commands that a text has.
WordsOf(s, L) == {w \in L : ContainsWord(Lower(s), w)}
CommandsOf(s) == {c \in Commands : \E p \in DOMAIN s : OccursAt(Lower(s), c, p)}

\* What a text mentions apart from commands.
Plain(s) ==
  OfKind("Library", WordsOf(s, Libraries)) \cup OfKind("Concept", WordsOf(s, Concepts))
    \cup OfKind("Error", Errors(s)) \cup OfKind("File", Files(s)) \cup OfKind("Symbol", Symbols(s))

LowerAll(E) == {[e EXCEPT !.name = Lower(@)] : e \in E}

\* Entities are lowered one by one, and only commands have their kind.
LEMMA ExtractIs ==
  ASSUME NEW s
  PROVE  /\ Extract(s) = LowerAll(Plain(s)) \cup LowerAll(OfKind("Command", CommandsOf(s)))
         /\ WithoutCommands(Extract(s)) = LowerAll(Plain(s))
  <1> DEFINE C == OfKind("Command", CommandsOf(s))
  <1>1. Spelled(s) = Plain(s) \cup C
    BY DEF Spelled, Plain, OfKind, WordsOf, CommandsOf
  <1>2. Extract(s) = LowerAll(Spelled(s))
    BY DEF Extract, LowerAll
  <1>3. \A e \in C : e = [kind |-> "Command", name |-> e.name]
    BY DEF OfKind
  <1>4. \A e \in Plain(s) : /\ e = [kind |-> e.kind, name |-> e.name]
                            /\ e.kind # "Command"
    <2>1. ASSUME NEW k, k # "Command", NEW N, NEW e \in OfKind(k, N)
          PROVE  e = [kind |-> e.kind, name |-> e.name] /\ e.kind # "Command"
      BY <2>1 DEF OfKind
    <2>2. "Library" # "Command" /\ "Concept" # "Command" /\ "Error" # "Command" /\ "File" # "Command"
          /\ "Symbol" # "Command"
      OBVIOUS
    <2> TAKE e \in Plain(s)
    <2>3. PICK k, N : k # "Command" /\ e \in OfKind(k, N)
      BY <2>2 DEF Plain
    <2>4. QED
      BY <2>1, <2>3
  <1> HIDE DEF C
  <1>5. Extract(s) = LowerAll(Plain(s)) \cup LowerAll(C)
    BY <1>1, <1>2 DEF LowerAll
  <1>6. \A e \in LowerAll(C) : e.kind = "Command"
    <2> TAKE e \in LowerAll(C)
    <2>1. PICK d \in C : e = [d EXCEPT !.name = Lower(@)]
      BY DEF LowerAll
    <2>2. d = [kind |-> "Command", name |-> d.name]
      BY <1>3
    <2> DEFINE n == d.name
    <2> HIDE DEF n
    <2>3. d = [kind |-> "Command", name |-> n]
      BY <2>2 DEF n
    <2>4. [d EXCEPT !.name = Lower(@)].kind = "Command"
      BY <2>3
    <2>5. QED
      BY <2>1, <2>4
  <1>7. \A e \in LowerAll(Plain(s)) : e.kind # "Command"
    <2> TAKE e \in LowerAll(Plain(s))
    <2>1. PICK d \in Plain(s) : e = [d EXCEPT !.name = Lower(@)]
      BY DEF LowerAll
    <2> DEFINE k == d.kind
               n == d.name
    <2>2. d = [kind |-> k, name |-> n] /\ k # "Command"
      BY <1>4
    <2> HIDE DEF k, n
    <2>3. [d EXCEPT !.name = Lower(@)].kind = k
      BY <2>2
    <2>4. QED
      BY <2>1, <2>2, <2>3
  <1>8. WithoutCommands(Extract(s)) = LowerAll(Plain(s))
    BY <1>5, <1>6, <1>7 DEF WithoutCommands
  <1>9. QED
    BY <1>5, <1>8 DEF C

\* A lexicon's words in a text are those before and behind each blank of it.
LEMMA LexiconOfFields ==
  ASSUME NEW h \in Seq(Char), NEW k \in Nat, 1 <= k, k <= Len(h), Blank(h, k),
         NEW a \in Seq(Char), Len(a) = k - 1, Field(a, h, 0),
         NEW b \in Seq(Char), Len(b) = Len(h) - k, Field(b, h, k),
         NEW L \in SUBSET (Libraries \cup Concepts)
  PROVE  WordsOf(h, L) = WordsOf(a, L) \cup WordsOf(b, L)
  <1> DEFINE x == Lower(h)
             y == Lower(a)
             z == Lower(b)
  <1>1. x \in Seq(Char) /\ Len(x) = Len(h) /\ Blank(x, k)
    <2>1. x \in Seq(Char) /\ Len(x) = Len(h)
          /\ \A i \in 1 .. Len(h) : x[i] = (IF h[i] = "X" THEN "x" ELSE h[i])
      BY LowerKeeps
    <2>2. k \in 1 .. Len(h)
      BY LenProperties
    <2> HIDE DEF x
    <2>3. x[k] = " "
      BY <2>1, <2>2 DEF Blank
    <2>4. QED
      BY <2>1, <2>3 DEF Blank
  <1>2. y \in Seq(Char) /\ Len(y) = Len(a)
    BY LowerKeeps
  <1>3. z \in Seq(Char) /\ Len(z) = Len(b)
    BY LowerKeeps
  <1>4. 0 \in Nat /\ 0 + Len(a) <= Len(h) /\ k + Len(b) <= Len(h)
    <2> DEFINE N == Len(h)
    <2>1. N \in Nat /\ k <= N
      BY LenProperties
    <2> HIDE DEF N
    <2>2. 0 \in Nat /\ 0 + (k - 1) <= N /\ k + (N - k) <= N
      BY <2>1, PlacesAround
    <2>3. QED
      BY <2>2 DEF N
  <1>5. Field(y, x, 0)
    BY <1>4, LowerField
  <1>6. Field(z, x, k)
    BY <1>4, LowerField
  <1> HIDE DEF x, y, z
  <1>7. 1 <= k /\ k <= Len(x) /\ Len(y) = k - 1 /\ Len(z) = Len(x) - k
    BY <1>1, <1>2, <1>3
  <1>8. ASSUME NEW n \in L
        PROVE  ContainsWord(x, n) <=> ContainsWord(y, n) \/ ContainsWord(z, n)
    <2>1. n \in Seq(Char) /\ n # <<>> /\ BlankFree(n) /\ OverlapsInside(n)
      BY ExtractionConstants DEF BlankFree
    <2>2. ContainsWord(x, n) <=> WordIn(x, n)
      BY <1>1, <2>1, ContainsWordIs
    <2>3. ContainsWord(y, n) <=> WordIn(y, n)
      BY <1>2, <2>1, ContainsWordIs
    <2>4. ContainsWord(z, n) <=> WordIn(z, n)
      BY <1>3, <2>1, ContainsWordIs
    <2>5. WordIn(x, n) <=> WordIn(y, n) \/ WordIn(z, n)
      BY <1>1, <1>2, <1>3, <1>5, <1>6, <1>7, <2>1, WordsOfFields
    <2>6. QED
      BY <2>2, <2>3, <2>4, <2>5
  <1>9. QED
    BY <1>8 DEF WordsOf, x, y, z

\* A command in a field is in the text.
LEMMA CommandsOfField ==
  ASSUME NEW h \in Seq(Char), NEW a \in Seq(Char), NEW d \in Nat, Field(a, h, d), d + Len(a) <= Len(h)
  PROVE  CommandsOf(a) \subseteq CommandsOf(h)
  <1> SUFFICES ASSUME NEW c \in Commands, NEW p \in DOMAIN a, OccursAt(Lower(a), c, p)
               PROVE  \E q \in DOMAIN h : OccursAt(Lower(h), c, q)
    BY DEF CommandsOf
  <1>1. c \in Seq(Char)
    BY ExtractionConstants
  <1>2. p \in 1 .. Len(a)
    BY LenProperties
  <1>3. QED
    BY <1>1, <1>2, OccursInText

\* Extraction is local to each side of a blank.
LEMMA LocalAt ==
  ASSUME NEW h \in Seq(Char), NEW k \in Nat, 1 <= k, k <= Len(h), Blank(h, k)
  PROVE  LET before == Extract(SubSeq(h, 1, k - 1))
             behind == Extract(SubSeq(h, k + 1, Len(h))) IN
           /\ before \cup behind \subseteq Extract(h)
           /\ WithoutCommands(Extract(h)) = WithoutCommands(before \cup behind)
  <1> DEFINE a == SubSeq(h, 1, k - 1)
             b == SubSeq(h, k + 1, Len(h))
  <1>2. a \in Seq(Char) /\ Len(a) = k - 1 /\ Field(a, h, 0)
    BY FieldBefore
  <1>3. b \in Seq(Char) /\ Len(b) = Len(h) - k /\ Field(b, h, k)
    BY FieldBehind
  <1>4. 0 \in Nat /\ 0 + Len(a) <= Len(h) /\ k + Len(b) <= Len(h)
    <2> DEFINE N == Len(h)
    <2>1. N \in Nat /\ k <= N
      BY LenProperties
    <2> HIDE DEF N
    <2>2. 0 \in Nat /\ 0 + (k - 1) <= N /\ k + (N - k) <= N
      BY <2>1, PlacesAround
    <2> HIDE DEF a, b
    <2>3. QED
      BY <1>2, <1>3, <2>2 DEF N
  <1> HIDE DEF a, b
  <1>5. Tokens(h) = Tokens(a) \cup Tokens(b)
    BY <1>2, <1>3, TokensOfFields
  <1>6. /\ Errors(h) = Errors(a) \cup Errors(b)
        /\ Files(h) = Files(a) \cup Files(b)
        /\ Symbols(h) = Symbols(a) \cup Symbols(b)
    BY <1>5, FoundByToken
  <1>7. ASSUME NEW L \in SUBSET (Libraries \cup Concepts)
        PROVE  WordsOf(h, L) = WordsOf(a, L) \cup WordsOf(b, L)
    BY <1>2, <1>3, LexiconOfFields
  <1>8. /\ WordsOf(h, Libraries) = WordsOf(a, Libraries) \cup WordsOf(b, Libraries)
        /\ WordsOf(h, Concepts) = WordsOf(a, Concepts) \cup WordsOf(b, Concepts)
    BY <1>7
  <1>9. Plain(h) = Plain(a) \cup Plain(b)
    <2>1. \A kind, M, N : OfKind(kind, M \cup N) = OfKind(kind, M) \cup OfKind(kind, N)
      BY DEF OfKind
    <2>2. QED
      BY <1>6, <1>8, <2>1 DEF Plain
  <1>10. CommandsOf(a) \subseteq CommandsOf(h) /\ CommandsOf(b) \subseteq CommandsOf(h)
    BY <1>2, <1>3, <1>4, CommandsOfField
  <1>11. LowerAll(Plain(h)) = LowerAll(Plain(a)) \cup LowerAll(Plain(b))
    BY <1>9 DEF LowerAll
  <1>12. ASSUME NEW s, CommandsOf(s) \subseteq CommandsOf(h)
         PROVE  LowerAll(OfKind("Command", CommandsOf(s))) \subseteq LowerAll(OfKind("Command", CommandsOf(h)))
    <2>1. OfKind("Command", CommandsOf(s)) \subseteq OfKind("Command", CommandsOf(h))
      BY <1>12 DEF OfKind
    <2>2. QED
      BY <2>1 DEF LowerAll
  <1>13. Extract(a) \cup Extract(b) \subseteq Extract(h)
    BY <1>10, <1>11, <1>12, ExtractIs
  <1>14. WithoutCommands(Extract(h)) = WithoutCommands(Extract(a)) \cup WithoutCommands(Extract(b))
    BY <1>11, ExtractIs
  <1>15. WithoutCommands(Extract(a) \cup Extract(b)) = WithoutCommands(Extract(a)) \cup WithoutCommands(Extract(b))
    BY DEF WithoutCommands
  <1>16. QED
    BY <1>13, <1>14, <1>15 DEF a, b

-----------------------------------------------------------------------------
(* Symbols.                                                                *)

\* What is left of a text whose end is trimmed, and what is not.
TrimmedTo(t, C, q) == (q = 0 \/ t[q] \notin C) /\ \A p \in q + 1 .. Len(t) : t[p] \in C

LEMMA TrimEndIs ==
  ASSUME NEW t \in Seq(Char), NEW C
  PROVE  \E q \in 0 .. Len(t) : TrimEnd(t, C) = SubSeq(t, 1, q) /\ TrimmedTo(t, C, q)
  <1> DEFINE S == {i \in DOMAIN t : t[i] \notin C}
             q == Max({0} \cup S)
  <1>1. Len(t) \in Nat /\ DOMAIN t = 1 .. Len(t)
    BY LenProperties
  <1>2. IsFiniteSet(S) /\ S \subseteq 1 .. Len(t)
    <2>1. S \subseteq 1 .. Len(t)
      BY <1>1
    <2> HIDE DEF S
    <2> DEFINE N == Len(t)
    <2>2. N \in Int /\ 1 \in Int
      BY <1>1
    <2> HIDE DEF N
    <2>3. IsFiniteSet(1 .. N)
      BY <2>2, FS_Interval
    <2>4. QED
      BY <2>1, <2>3, FS_Subset DEF N
  <1>3. \A x \in S : x \in Nat
    BY <1>1, <1>2
  <1>4. TrimEnd(t, C) = SubSeq(t, 1, q)
    BY DEF TrimEnd
  <1>5. \A p \in 1 .. Len(t) : p \in S <=> t[p] \notin C
    BY <1>1
  <1> HIDE DEF S
  <1>6. q \in Nat /\ (\A x \in S : x <= q) /\ (q = 0 \/ q \in S)
    BY <1>2, <1>3, GreatestOrNone
  <1> HIDE DEF q
  <1>7. q \in 0 .. Len(t)
    BY <1>1, <1>2, <1>6
  <1>8. ASSUME NEW p \in q + 1 .. Len(t) PROVE t[p] \in C
    <2>1. p \in 1 .. Len(t) /\ ~(p <= q)
      BY <1>1, <1>6
    <2>2. QED
      BY <1>5, <1>6, <2>1
  <1>9. q = 0 \/ t[q] \notin C
    BY <1>2, <1>5, <1>6
  <1>10. QED
    BY <1>4, <1>7, <1>8, <1>9 DEF TrimmedTo

LEMMA TrimEndAt ==
  ASSUME NEW t \in Seq(Char), NEW C, NEW q \in 1 .. Len(t), TrimmedTo(t, C, q)
  PROVE  TrimEnd(t, C) = SubSeq(t, 1, q)
  <1>1. Len(t) \in Nat
    BY LenProperties
  <1>2. PICK o \in 0 .. Len(t) : TrimEnd(t, C) = SubSeq(t, 1, o) /\ TrimmedTo(t, C, o)
    BY TrimEndIs
  <1>3. ~(o < q)
    <2> SUFFICES ASSUME o < q PROVE FALSE
      OBVIOUS
    <2>1. q \in o + 1 .. Len(t) /\ q # 0
      BY <1>1
    <2>2. t[q] \in C /\ t[q] \notin C
      BY <1>2, <2>1 DEF TrimmedTo
    <2>3. QED
      BY <2>2
  <1>4. ~(q < o)
    <2> SUFFICES ASSUME q < o PROVE FALSE
      OBVIOUS
    <2>1. o \in q + 1 .. Len(t) /\ o # 0
      BY <1>1
    <2>2. t[o] \in C /\ t[o] \notin C
      BY <1>2, <2>1 DEF TrimmedTo
    <2>3. QED
      BY <2>2
  <1>5. o = q
    BY <1>1, <1>3, <1>4
  <1>6. QED
    BY <1>2, <1>5

\* A part that begins where a part begins.
LEMMA PartOfPart ==
  ASSUME NEW s \in Seq(Char), NEW i \in Nat, NEW m \in Nat, 1 <= i, i <= m, m <= Len(s),
         NEW q \in Nat, 1 <= q, q <= m - i + 1
  PROVE  SubSeq(SubSeq(s, i, m), 1, q) = SubSeq(s, i, i + q - 1)
  <1> DEFINE u == SubSeq(s, i, m)
             j == i + q - 1
             a == SubSeq(u, 1, q)
             b == SubSeq(s, i, j)
  <1>1. Len(s) \in Nat
    BY LenProperties
  <1>2. u \in Seq(Char) /\ Len(u) = m - i + 1 /\ \A l \in 1 .. m - i + 1 : u[l] = s[i + l - 1]
    BY Parts
  <1>3. j \in Nat /\ i <= j + 1 /\ j <= Len(s) /\ j - i + 1 = q /\ q - 1 + 1 = q
    BY <1>1
  <1> HIDE DEF u, j
  <1>4. b \in Seq(Char) /\ Len(b) = q /\ \A l \in 1 .. q : b[l] = s[i + l - 1]
    BY <1>3, Parts
  <1>5. a \in Seq(Char) /\ Len(a) = q /\ \A l \in 1 .. q : a[l] = u[1 + l - 1]
    <2>1. q <= Len(u) /\ 1 <= q + 1
      BY <1>2
    <2>2. a \in Seq(Char) /\ Len(a) = q - 1 + 1 /\ \A l \in 1 .. q - 1 + 1 : a[l] = u[1 + l - 1]
      BY <1>2, <2>1, Parts
    <2>3. QED
      BY <1>3, <2>2
  <1> HIDE DEF a, b
  <1>6. \A l \in 1 .. q : a[l] = b[l]
    <2> TAKE l \in 1 .. q
    <2>1. 1 + l - 1 = l /\ l \in 1 .. m - i + 1
      OBVIOUS
    <2>2. QED
      BY <1>2, <1>4, <1>5, <2>1
  <1>7. a = b
    BY <1>4, <1>5, <1>6, SameElements
  <1>8. QED
    BY <1>7 DEF a, b, u, j

\* The token that ends in m is the letters up to j and parentheses behind them.
LEMMA TokenOfSymbol ==
  ASSUME NEW s \in Seq(Char), NEW i \in Nat, NEW j \in Nat, NEW m \in Nat,
         1 <= i, i <= j, j <= m, m <= Len(s)
  PROVE  LET u == SubSeq(s, i, m) IN
           /\ u \in Seq(Char) /\ Len(u) = m - i + 1 /\ Last(u) = s[m]
           /\ SubSeq(u, 1, j - i + 1) = SubSeq(s, i, j)
           /\ TrimmedTo(u, {"("}, j - i + 1)
                <=> s[j] # "(" /\ \A p \in j + 1 .. m : s[p] = "("
  <1> DEFINE u == SubSeq(s, i, m)
             q == j - i + 1
             n == m - i + 1
  <1>1. u \in Seq(Char) /\ Len(u) = n /\ \A l \in 1 .. n : u[l] = s[i + l - 1]
    BY Parts
  <1>2. q \in Nat /\ n \in Nat /\ 1 <= q /\ q <= n /\ i + q - 1 = j /\ i + n - 1 = m
    OBVIOUS
  <1>3. SubSeq(SubSeq(s, i, m), 1, q) = SubSeq(s, i, i + q - 1)
    <2> HIDE DEF q
    <2>1. i <= m /\ q <= m - i + 1
      BY <1>2
    <2>2. QED
      BY <1>2, <2>1, PartOfPart
  <1>4. \A l \in q + 1 .. n : i + l - 1 \in j + 1 .. m /\ l \in 1 .. n
    OBVIOUS
  <1>5. \A p \in j + 1 .. m : p - i + 1 \in q + 1 .. n /\ i + (p - i + 1) - 1 = p
    OBVIOUS
  <1> HIDE DEF u, q, n
  <1>6. u[q] = s[j] /\ u[n] = s[m]
    <2>1. q \in 1 .. n /\ n \in 1 .. n
      BY <1>2
    <2>2. QED
      BY <1>1, <1>2, <2>1
  <1>7. (\A l \in q + 1 .. n : u[l] \in {"("}) <=> \A p \in j + 1 .. m : s[p] = "("
    <2>1. ASSUME \A l \in q + 1 .. n : u[l] \in {"("}, NEW p \in j + 1 .. m PROVE s[p] = "("
      <3> DEFINE l == p - i + 1
      <3>1. l \in q + 1 .. n /\ i + l - 1 = p
        BY <1>5
      <3> HIDE DEF l
      <3>2. l \in 1 .. n /\ u[l] \in {"("}
        BY <1>4, <2>1, <3>1
      <3>3. QED
        BY <1>1, <3>1, <3>2
    <2>2. ASSUME \A p \in j + 1 .. m : s[p] = "(", NEW l \in q + 1 .. n PROVE u[l] \in {"("}
      BY <1>1, <1>4, <2>2
    <2>3. QED
      BY <2>1, <2>2
  <1>8. TrimmedTo(u, {"("}, q) <=> s[j] # "(" /\ \A p \in j + 1 .. m : s[p] = "("
    <2>1. q # 0
      BY <1>2
    <2>2. QED
      BY <1>1, <1>6, <1>7, <2>1 DEF TrimmedTo
  <1>9. Last(u) = s[m]
    BY <1>1, <1>6 DEF Last
  <1>10. QED
    BY <1>1, <1>2, <1>3, <1>8, <1>9 DEF u, q, n

\* A symbol is what is left of a token whose parentheses are trimmed.
LEMMA SymbolsByToken ==
  ASSUME NEW s, NEW raw
  PROVE  raw \in Symbols(s) <=>
           \E u \in Tokens(s) : /\ raw = TrimEnd(u, {"("}) /\ Only(raw, WordByte)
                                /\ IsName(raw, Last(u) = "(")
  BY DEF Symbols, IsName

\* The symbols of the text are the names that stand free in it.
FreeName(raw) ==
  \E i \in 1 .. Len(text) : \E j \in i .. Len(text) : \E m \in j .. Len(text) :
    StandsFree(i, j, m) /\ IsName(raw, m > j) /\ raw = SubSeq(text, i, j)

LEMMA WordBytesJoin ==
  /\ Joining = TokenChars /\ WordByte \subseteq TokenChars
  /\ "(" \in TokenChars /\ "(" \notin WordByte
  BY DEF Joining, TokenChars, WordByte, Digits

LEMMA SymbolStandsFree ==
  ASSUME text \in Seq(Char), NEW raw, raw \in Symbols(text)
  PROVE  FreeName(raw)
  <1>1. PICK u \in Tokens(text) : /\ raw = TrimEnd(u, {"("}) /\ Only(raw, WordByte)
                                  /\ IsName(raw, Last(u) = "(")
    BY SymbolsByToken
  <1>2. PICK i \in 1 .. Len(text), m \in 1 .. Len(text) :
          i <= m /\ Run(text, i, m) /\ u = SubSeq(text, i, m)
    BY TokensAreRuns
  <1>3. Len(text) \in Nat /\ i \in Nat /\ m \in Nat /\ 1 <= i /\ m <= Len(text) /\ i <= m + 1
    BY <1>2, LenProperties
  <1>4. u \in Seq(Char) /\ Len(u) = m - i + 1
    BY <1>2, <1>3, Parts
  <1>5. PICK q \in 0 .. Len(u) : raw = SubSeq(u, 1, q) /\ TrimmedTo(u, {"("}, q)
    BY <1>1, <1>4, TrimEndIs
  <1>6. q >= 3
    <2>1. Len(u) \in Nat /\ 1 \in Nat /\ q \in Nat /\ q <= Len(u) /\ 1 <= q + 1 /\ q - 1 + 1 = q
      BY <1>4, <1>5, LenProperties
    <2>2. Len(SubSeq(u, 1, q)) = q - 1 + 1
      BY <1>4, <2>1, Parts
    <2>3. Len(raw) >= 3
      BY <1>1 DEF IsName
    <2>4. QED
      BY <1>5, <2>1, <2>2, <2>3
  <1> DEFINE j == i + q - 1
  <1>7. j \in Nat /\ i <= j /\ j <= m /\ j - i + 1 = q
    BY <1>2, <1>3, <1>4, <1>5, <1>6
  <1> HIDE DEF j
  <1>8. /\ Last(u) = text[m] /\ SubSeq(u, 1, q) = SubSeq(text, i, j)
        /\ TrimmedTo(u, {"("}, q) <=> text[j] # "(" /\ \A p \in j + 1 .. m : text[p] = "("
    BY <1>2, <1>3, <1>7, TokenOfSymbol
  <1>9. \A p \in i .. j : text[p] \in WordByte
    <2>1. j <= Len(text)
      BY <1>3, <1>7
    <2>2. QED
      BY <1>1, <1>3, <1>5, <1>7, <1>8, <2>1, OnlyInPart
  <1>10. Last(u) = "(" <=> m > j
    <2>1. CASE m = j
      <3>1. text[m] \in WordByte /\ ~(m > j)
        BY <1>3, <1>7, <1>9, <2>1
      <3>2. QED
        BY <1>8, <3>1, WordBytesJoin
    <2>2. CASE m > j
      <3>1. m \in j + 1 .. m
        BY <1>3, <1>7, <2>2
      <3>2. QED
        BY <1>5, <1>8, <2>2, <3>1
    <2>3. QED
      BY <1>3, <1>7, <2>1, <2>2
  <1>11. StandsFree(i, j, m)
    <2>1. (i = 1 \/ text[i - 1] \notin Joining) /\ (m = Len(text) \/ text[m + 1] \notin Joining)
      BY <1>2, WordBytesJoin DEF Run
    <2>2. QED
      BY <1>5, <1>8, <1>9, <2>1 DEF StandsFree
  <1>12. IsName(raw, m > j)
    BY <1>1, <1>10 DEF IsName
  <1>13. i \in 1 .. Len(text) /\ j \in i .. Len(text) /\ m \in j .. Len(text)
    BY <1>2, <1>3, <1>7
  <1>14. QED
    BY <1>5, <1>8, <1>11, <1>12, <1>13 DEF FreeName

LEMMA FreeNameIsSymbol ==
  ASSUME text \in Seq(Char), NEW raw, FreeName(raw)
  PROVE  raw \in Symbols(text)
  <1>1. PICK i \in 1 .. Len(text) : \E j \in i .. Len(text) : \E m \in j .. Len(text) :
          StandsFree(i, j, m) /\ IsName(raw, m > j) /\ raw = SubSeq(text, i, j)
    BY DEF FreeName
  <1>2. PICK j \in i .. Len(text) : \E m \in j .. Len(text) :
           StandsFree(i, j, m) /\ IsName(raw, m > j) /\ raw = SubSeq(text, i, j)
    BY <1>1
  <1>3. PICK m \in j .. Len(text) :
           StandsFree(i, j, m) /\ IsName(raw, m > j) /\ raw = SubSeq(text, i, j)
    BY <1>2
  <1>4. /\ Len(text) \in Nat /\ i \in Nat /\ j \in Nat /\ m \in Nat
        /\ 1 <= i /\ i <= j /\ j <= m /\ m <= Len(text) /\ j <= Len(text) /\ i <= m
    BY <1>3, LenProperties
  <1> DEFINE u == SubSeq(text, i, m)
             q == j - i + 1
  <1>5. q \in 1 .. m - i + 1
    BY <1>4
  <1>6. /\ \A p \in i .. j : text[p] \in WordByte
        /\ \A p \in j + 1 .. m : text[p] = "("
        /\ i = 1 \/ text[i - 1] \notin TokenChars
        /\ m = Len(text) \/ text[m + 1] \notin TokenChars
    BY <1>3, WordBytesJoin DEF StandsFree
  <1>7. Run(text, i, m)
    <2>1. ASSUME NEW l \in i .. m PROVE text[l] \in TokenChars
      <3>1. l \in i .. j \/ l \in j + 1 .. m
        BY <1>4
      <3>2. QED
        BY <1>6, <3>1, WordBytesJoin
    <2>2. QED
      BY <1>6, <2>1 DEF Run
  <1>8. u \in Tokens(text)
    <2>1. i \in 1 .. Len(text) /\ m \in 1 .. Len(text)
      BY <1>4
    <2>2. QED
      BY <1>4, <1>7, <2>1, TokensAreRuns
  <1>9. text[j] # "("
    <2>1. j \in i .. j
      BY <1>4
    <2>2. QED
      BY <1>6, <2>1, WordBytesJoin
  <1>10. /\ u \in Seq(Char) /\ Len(u) = m - i + 1 /\ Last(u) = text[m] /\ SubSeq(u, 1, q) = raw
        /\ TrimmedTo(u, {"("}, q)
    <2>1. u = SubSeq(text, i, m) /\ q = j - i + 1
      OBVIOUS
    <2> HIDE DEF u, q
    <2>2. /\ u \in Seq(Char) /\ Len(u) = m - i + 1 /\ Last(u) = text[m]
          /\ SubSeq(u, 1, q) = SubSeq(text, i, j)
          /\ TrimmedTo(u, {"("}, q) <=> text[j] # "(" /\ \A p \in j + 1 .. m : text[p] = "("
      BY <1>4, <2>1, TokenOfSymbol
    <2>3. raw = SubSeq(text, i, j)
      BY <1>3
    <2>4. QED
      BY <1>6, <1>9, <2>2, <2>3
  <1> HIDE DEF u, q
  <1>11. raw = TrimEnd(u, {"("})
    <2>1. q \in 1 .. Len(u)
      BY <1>5, <1>10
    <2>2. QED
      BY <1>10, <2>1, TrimEndAt
  <1>12. Last(u) = "(" <=> m > j
    <2>1. CASE m = j
      BY <1>4, <1>9, <1>10, <2>1
    <2>2. CASE m > j
      <3>1. m \in j + 1 .. m
        BY <1>4, <2>2
      <3>2. QED
        BY <1>6, <1>10, <2>2, <3>1
    <2>3. QED
      BY <1>4, <2>1, <2>2
  <1>13. IsName(raw, Last(u) = "(")
    BY <1>3, <1>12 DEF IsName
  <1>14. Only(raw, WordByte)
    BY <1>3, <1>4, <1>6, OnlyInPart
  <1>15. QED
    BY <1>8, <1>11, <1>13, <1>14, SymbolsByToken

\* Symbols are found where they stand free.
LEMMA SymbolsAreFree ==
  ASSUME text \in Seq(Char)
  PROVE  SymbolsStandFree
  <1> DEFINE mentioned == {e.name : e \in {x \in Extract(text) : x.kind = "Symbol"}}
             at(i, j, m) == IF StandsFree(i, j, m) /\ IsName(SubSeq(text, i, j), m > j)
                            THEN {Lower(SubSeq(text, i, j))} ELSE {}
             free == UNION {UNION {UNION {at(i, j, m) : m \in j .. Len(text)} : j \in i .. Len(text)}
                              : i \in DOMAIN text}
  <1>1. DOMAIN text = 1 .. Len(text)
    BY LenProperties
  <1>2. \A n : n \in mentioned <=> \E raw \in Symbols(text) : n = Lower(raw)
    <2>1. Extract(text) = LowerAll(Plain(text)) \cup LowerAll(OfKind("Command", CommandsOf(text)))
      BY ExtractIs
    <2>2. ASSUME NEW k, NEW N, NEW e
          PROVE  e \in LowerAll(OfKind(k, N)) <=> \E n \in N : e = [kind |-> k, name |-> Lower(n)]
      <3>1. \A n : [[kind |-> k, name |-> n] EXCEPT !.name = Lower(@)] = [kind |-> k, name |-> Lower(n)]
        OBVIOUS
      <3>2. e \in LowerAll(OfKind(k, N)) <=> \E r \in OfKind(k, N) : e = [r EXCEPT !.name = Lower(@)]
        BY DEF LowerAll
      <3>3. \A r : r \in OfKind(k, N) <=> \E n \in N : r = [kind |-> k, name |-> n]
        BY DEF OfKind
      <3>4. ASSUME NEW r \in OfKind(k, N), e = [r EXCEPT !.name = Lower(@)]
            PROVE  \E n \in N : e = [kind |-> k, name |-> Lower(n)]
        <4>1. PICK n \in N : r = [kind |-> k, name |-> n]
          BY <3>3
        <4>2. e = [kind |-> k, name |-> Lower(n)]
          BY <3>1, <3>4, <4>1
        <4>3. QED
          BY <4>2
      <3>5. ASSUME NEW n \in N, e = [kind |-> k, name |-> Lower(n)]
            PROVE  \E r \in OfKind(k, N) : e = [r EXCEPT !.name = Lower(@)]
        <4> DEFINE r == [kind |-> k, name |-> n]
        <4>1. r \in OfKind(k, N)
          BY <3>3
        <4>2. e = [r EXCEPT !.name = Lower(@)]
          BY <3>1, <3>5
        <4>3. QED
          BY <4>1, <4>2
      <3>6. QED
        BY <3>2, <3>4, <3>5
    <2>3. "Library" # "Symbol" /\ "Concept" # "Symbol" /\ "Error" # "Symbol" /\ "File" # "Symbol"
          /\ "Command" # "Symbol"
      OBVIOUS
    <2>4. LowerAll(Plain(text)) =
            LowerAll(OfKind("Library", WordsOf(text, Libraries)))
              \cup LowerAll(OfKind("Concept", WordsOf(text, Concepts)))
              \cup LowerAll(OfKind("Error", Errors(text))) \cup LowerAll(OfKind("File", Files(text)))
              \cup LowerAll(OfKind("Symbol", Symbols(text)))
      BY DEF LowerAll, Plain
    <2>5. ASSUME NEW k, k # "Symbol", NEW N, NEW e \in LowerAll(OfKind(k, N)) PROVE e.kind # "Symbol"
      BY <2>2, <2>5
    <2>6. ASSUME NEW e \in Extract(text), e.kind = "Symbol"
          PROVE  e \in LowerAll(OfKind("Symbol", Symbols(text)))
      BY <2>1, <2>3, <2>4, <2>5, <2>6
    <2>7. LowerAll(OfKind("Symbol", Symbols(text))) \subseteq Extract(text)
      BY <2>1, <2>4
    <2>8. ASSUME NEW n, n \in mentioned PROVE \E raw \in Symbols(text) : n = Lower(raw)
      <3>1. PICK e \in Extract(text) : e.kind = "Symbol" /\ n = e.name
        BY <2>8
      <3>2. PICK raw \in Symbols(text) : e = [kind |-> "Symbol", name |-> Lower(raw)]
        BY <2>2, <2>6, <3>1
      <3>3. QED
        BY <3>1, <3>2
    <2>9. ASSUME NEW raw \in Symbols(text) PROVE Lower(raw) \in mentioned
      <3> DEFINE e == [kind |-> "Symbol", name |-> Lower(raw)]
      <3>1. e \in LowerAll(OfKind("Symbol", Symbols(text)))
        BY <2>2
      <3>2. e \in Extract(text) /\ e.kind = "Symbol" /\ e.name = Lower(raw)
        BY <2>7, <3>1
      <3> HIDE DEF e
      <3>3. QED
        BY <3>2
    <2>10. QED
      BY <2>8, <2>9
  <1>3. \A n : n \in free <=> \E raw : FreeName(raw) /\ n = Lower(raw)
    <2>1. ASSUME NEW n, n \in free PROVE \E raw : FreeName(raw) /\ n = Lower(raw)
      <3>1. PICK i \in 1 .. Len(text) : \E j \in i .. Len(text) : \E m \in j .. Len(text) : n \in at(i, j, m)
        BY <1>1, <2>1
      <3>2. PICK j \in i .. Len(text) : \E m \in j .. Len(text) : n \in at(i, j, m)
        BY <3>1
      <3>3. PICK m \in j .. Len(text) : n \in at(i, j, m)
        BY <3>2
      <3>4. StandsFree(i, j, m) /\ IsName(SubSeq(text, i, j), m > j) /\ n = Lower(SubSeq(text, i, j))
        BY <3>3
      <3>5. FreeName(SubSeq(text, i, j))
        BY <3>4 DEF FreeName
      <3>6. QED
        BY <3>4, <3>5
    <2>2. ASSUME NEW raw, FreeName(raw) PROVE Lower(raw) \in free
      <3>1. PICK i \in 1 .. Len(text) : \E j \in i .. Len(text) : \E m \in j .. Len(text) :
              StandsFree(i, j, m) /\ IsName(raw, m > j) /\ raw = SubSeq(text, i, j)
        BY <2>2 DEF FreeName
      <3>2. \E j \in i .. Len(text) : \E m \in j .. Len(text) : Lower(raw) \in at(i, j, m)
        BY <3>1
      <3> HIDE DEF at
      <3>3. QED
        BY <1>1, <3>2
    <2>3. QED
      BY <2>1, <2>2
  <1>4. \A raw : FreeName(raw) <=> raw \in Symbols(text)
    BY SymbolStandsFree, FreeNameIsSymbol
  <1> HIDE DEF mentioned, free
  <1>5. mentioned = free
    <2>1. \A n : n \in mentioned <=> n \in free
      BY <1>2, <1>3, <1>4
    <2>2. QED
      BY <2>1
  <1>6. QED
    BY <1>5 DEF SymbolsStandFree, mentioned, free

\* Every text is a sequence of characters.
LEMMA TextsAreTexts == TextSpec => [](text \in Seq(Char))
  <1>1. TextInit => text \in Seq(Char)
    <2>1. <<>> \in Seq(Char)
      BY EmptySeq
    <2>2. QED
      BY <2>1 DEF TextInit
  <1>2. text \in Seq(Char) /\ [TextNext]_<<text, pieces>> => (text \in Seq(Char))'
    <2> SUFFICES ASSUME text \in Seq(Char), [TextNext]_<<text, pieces>> PROVE text' \in Seq(Char)
      OBVIOUS
    <2>1. CASE TextNext
      <3>1. PICK p \in Pieces : text' = text \o p
        BY <2>1 DEF TextNext
      <3>2. p \in Seq(Char)
        BY PiecesAreTexts
      <3>3. text \o p \in Seq(Char)
        BY <3>2, ConcatProperties
      <3>4. QED
        BY <3>1, <3>3
    <2>2. CASE UNCHANGED <<text, pieces>>
      BY <2>2
    <2>3. QED
      BY <2>1, <2>2
  <1>3. QED
    BY <1>1, <1>2, PTL DEF TextSpec

\* Every text of any number of any pieces: each whole word of the lexicon is
\* found wherever it stands, what is linked to a text is what is linked to its
\* parts between blanks, and symbols are the names with nothing joined to them.
THEOREM ExtractionIsLocalAndComplete == TextSpec => []ExtractionIsSound
  <1>1. ASSUME text \in Seq(Char) PROVE ExtractionIsSound
    <2> DEFINE h == Lower(text)
    <2>1. h \in Seq(Char) /\ DOMAIN h = 1 .. Len(text) /\ Len(h) = Len(text)
      BY <1>1, LowerKeeps
    <2>2. DOMAIN text = 1 .. Len(text)
      BY <1>1, LenProperties
    <2> HIDE DEF h
    <2>3. \A n \in Libraries \cup Concepts :
            ContainsWord(h, n) = \E p \in DOMAIN text : OccursAt(h, n, p) /\ Bounded(h, n, p)
      <3> TAKE n \in Libraries \cup Concepts
      <3>1. n \in Seq(Char) /\ n # <<>> /\ OverlapsInside(n)
        BY ExtractionConstants
      <3>2. ContainsWord(h, n) <=> WordIn(h, n)
        BY <2>1, <3>1, ContainsWordIs
      <3>3. DOMAIN h = DOMAIN text
        BY <2>1, <2>2
      <3>4. ContainsWord(h, n) \in BOOLEAN
        BY DEF ContainsWord
      <3>5. QED
        BY <3>2, <3>3, <3>4 DEF WordIn
    <2>4. WholeWordsAreFound
      BY <2>3 DEF WholeWordsAreFound, h
    <2>5. ExtractionIsLocal
      <3> DEFINE Local(k) ==
                   LET before == Extract(SubSeq(text, 1, k - 1))
                       behind == Extract(SubSeq(text, k + 1, Len(text))) IN
                     /\ before \cup behind \subseteq Extract(text)
                     /\ WithoutCommands(Extract(text)) = WithoutCommands(before \cup behind)
      <3>1. \A k \in 1 .. Len(text) : Blank(text, k) => Local(k)
        <4> TAKE k \in 1 .. Len(text)
        <4>1. k \in Nat /\ 1 <= k /\ k <= Len(text)
          BY <1>1, LenProperties
        <4>2. QED
          BY <1>1, <4>1, LocalAt
      <3> HIDE DEF Local
      <3>2. \A k \in {i \in DOMAIN text : text[i] = " "} : Local(k)
        BY <2>2, <3>1 DEF Blank
      <3>3. QED
        BY <3>2 DEF ExtractionIsLocal, Local
    <2>6. SymbolsStandFree
      BY <1>1, SymbolsAreFree
    <2>7. QED
      BY <2>4, <2>5, <2>6 DEF ExtractionIsSound
  <1>2. QED
    BY <1>1, TextsAreTexts, PTL
=============================================================================
