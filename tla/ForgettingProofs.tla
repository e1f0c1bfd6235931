--------------------------- MODULE ForgettingProofs --------------------------
(***************************************************************************)
(* Theorems about the three maintenance algorithms: for every importance,  *)
(* threshold and length of protection and staleness of forgetting, for     *)
(* every group, text and threshold of merging, and for every result and    *)
(* threshold of reflecting.                                                *)
(***************************************************************************)
EXTENDS Forgetting, Merging, Reflecting, CollectionProofs, TLAPS

-----------------------------------------------------------------------------
(* Thresholds and fields.                                                  *)

\* The constructor puts its thresholds in order.
LEMMA Thresholds ==
  /\ ForgetThreshold \in Int /\ CandidateThreshold \in Int
  /\ CandidateThreshold <= ForgetThreshold
  <1>1. ForgetGiven \in Int /\ CandidateGiven \in Int
    BY ForgettingConstants
  <1>2. QED
    BY <1>1, OfTwo DEF ForgetThreshold, CandidateThreshold

\* The fields of a memory.
LEMMA MemoryFields ==
  ASSUME NEW m \in Memories
  PROVE  /\ m.importance \in 0 .. 10 /\ m.confidence \in 0 .. 10 /\ m.estimate \in 0 .. 10
         /\ m.content \in Qualities /\ m.superseded \in BOOLEAN /\ m.accesses \in 0 .. 1
         /\ m.validFrom = 0 /\ m.validTo \in Never .. MaxTime /\ m.lastAccess \in Never .. MaxTime
  BY ForgettingConstants DEF Memories

-----------------------------------------------------------------------------
(* Scores and verdicts.                                                    *)

\* The score, with the larger importance spelled out.
LEMMA ScoreIs ==
  ASSUME NEW m \in Memories, NEW t \in Int
  PROVE  ForgetScore(m, t) =
             10 * (10 - IF m.importance >= m.estimate THEN m.importance ELSE m.estimate)
           + 7 * (10 - m.confidence)
           + (IF m.accesses = 0 THEN 40 ELSE 0)
           + (IF IsStale(m, t) THEN 80 ELSE 0) + (IF m.content = "good" THEN 0 ELSE 70)
  <1>1. m.importance \in Int /\ m.estimate \in Int
    BY MemoryFields
  <1>2. Max({m.importance, m.estimate}) = IF m.importance >= m.estimate THEN m.importance ELSE m.estimate
    BY <1>1, OfTwo
  <1>3. QED
    BY <1>2 DEF ForgetScore

\* What decides between two verdicts: m at t is judged no harsher than n at
\* u if each reason to be harsh with m is one to be harsh with n.
LEMMA Milder ==
  ASSUME NEW m \in Memories, NEW n \in Memories, NEW t \in Int, NEW u \in Int,
         RecentlyAccessed(n, u) => RecentlyAccessed(m, t),
         (m.validTo # Never /\ m.validTo <= t) => (n.validTo # Never /\ n.validTo <= u),
         m.superseded => n.superseded,
         m.content = "empty" => n.content = "empty",
         HighImportance(n) => HighImportance(m),
         ForgetScore(m, t) <= ForgetScore(n, u),
         ForgetScore(m, t) \in Int, ForgetScore(n, u) \in Int
  PROVE  Severity(m, t) <= Severity(n, u)
  <1> DEFINE soon(k, v)   == RecentlyAccessed(k, v)
             ruled(k, v)  == (k.validTo # Never /\ k.validTo <= v) \/ k.superseded \/ k.content = "empty"
             harsh(k, v)  == ruled(k, v) \/ (~HighImportance(k) /\ ForgetScore(k, v) >= ForgetThreshold)
             middle(k, v) == ~HighImportance(k) /\ ForgetScore(k, v) >= CandidateThreshold
  <1>1. ASSUME NEW k, NEW v
        PROVE  Severity(k, v) = IF soon(k, v) THEN 0
                                ELSE IF harsh(k, v) THEN 2
                                ELSE IF middle(k, v) THEN 1 ELSE 0
    BY DEF Severity, Verdict, Output
  <1>2. soon(n, u) => soon(m, t)
    OBVIOUS
  <1>3. harsh(m, t) => harsh(n, u)
    BY Thresholds
  <1>4. middle(m, t) => middle(n, u)
    BY Thresholds
  <1> HIDE DEF soon, harsh, middle
  <1>5. QED
    BY <1>1, <1>2, <1>3, <1>4

\* Scores are numbers.
LEMMA ScoreType ==
  ASSUME NEW m \in Memories, NEW t \in Int
  PROVE  ForgetScore(m, t) \in Int
  BY ScoreIs, MemoryFields

-----------------------------------------------------------------------------
(* What an access does to a memory, and the invariant.                     *)

\* An accessed memory is a memory.
LEMMA TouchedMemory ==
  ASSUME NEW m \in Memories, NEW t \in 0 .. MaxTime
  PROVE  /\ Touched(m, t) \in Memories
         /\ Touched(m, t).importance = m.importance /\ Touched(m, t).confidence = m.confidence
         /\ Touched(m, t).estimate = m.estimate /\ Touched(m, t).content = m.content
         /\ Touched(m, t).superseded = m.superseded /\ Touched(m, t).validTo = m.validTo
         /\ Touched(m, t).validFrom = m.validFrom
         /\ Touched(m, t).accesses = 1 /\ Touched(m, t).lastAccess = t
  <1>1. t \in Never .. MaxTime
    BY ForgettingConstants DEF Never
  <1>2. Touched(m, t) \in Memories
    <2> DEFINE counted == [m EXCEPT !.accesses = 1]
    <2>1. counted \in Memories
      BY DEF Memories
    <2>2. [counted EXCEPT !.lastAccess = t] \in Memories
      BY <1>1, <2>1 DEF Memories
    <2>3. Touched(m, t) = [counted EXCEPT !.lastAccess = t]
      BY DEF Memories, Touched
    <2>4. QED
      BY <2>2, <2>3
  <1>3. /\ Touched(m, t).importance = m.importance /\ Touched(m, t).confidence = m.confidence
        /\ Touched(m, t).estimate = m.estimate /\ Touched(m, t).content = m.content
        /\ Touched(m, t).superseded = m.superseded /\ Touched(m, t).validTo = m.validTo
        /\ Touched(m, t).validFrom = m.validFrom
    BY DEF Memories, Touched
  <1>4. Touched(m, t).accesses = 1 /\ Touched(m, t).lastAccess = t
    BY DEF Memories, Touched
  <1>5. QED
    BY <1>2, <1>3, <1>4

\* No access lies in the future; a plan is executed only after the verdict on
\* the copy was to forget; and what the memory shows of accesses is what the
\* copy shows, unless there was one since the reading.
ForgetInv ==
  /\ ForgetTypeOK
  /\ memory.lastAccess <= now
  /\ pc = "execute" => Verdict(copy, asOf).kind = "Forget"
  /\ memory.lastAccess < asOf => memory.lastAccess = copy.lastAccess

\* Only a reason to forget, or a score above the threshold, forgets.
LEMMA ReasonsToForget ==
  ASSUME NEW m, NEW t, Verdict(m, t).kind = "Forget"
  PROVE  /\ ~RecentlyAccessed(m, t)
         /\ \/ ForgetScore(m, t) >= ForgetThreshold
            \/ m.superseded \/ m.content = "empty" \/ m.validTo # Never
  BY DEF Verdict, Output

\* The invariant holds at first.
LEMMA ForgetInvInit == ForgetInit => ForgetInv
  <1> SUFFICES ASSUME ForgetInit PROVE ForgetInv
    OBVIOUS
  <1>1. memory \in Memories /\ memory.lastAccess = Never
    BY DEF ForgetInit
  <1>2. now = 0 /\ asOf = 0 /\ copy = memory /\ pc = "idle" /\ archived = FALSE
    BY DEF ForgetInit
  <1>3. 0 \in 0 .. MaxTime
    BY ForgettingConstants
  <1>4. QED
    BY <1>1, <1>2, <1>3 DEF ForgetInv, ForgetTypeOK, Never

\* Every step keeps the invariant.
LEMMA ForgetInvStep == ForgetInv /\ [ForgetNext]_forgetVars => ForgetInv'
  <1> SUFFICES ASSUME ForgetInv, [ForgetNext]_forgetVars PROVE ForgetInv'
    OBVIOUS
  <1>0. /\ memory \in Memories /\ copy \in Memories /\ now \in 0 .. MaxTime /\ asOf \in 0 .. now
        /\ now \in Int /\ asOf \in Int /\ MaxTime \in Int
    BY ForgettingConstants DEF ForgetInv, ForgetTypeOK
  <1>1. memory.lastAccess \in Int /\ memory.validTo \in Int
    BY <1>0, MemoryFields, ForgettingConstants DEF Never
  <1>2. CASE Read
    BY <1>0, <1>1, <1>2 DEF ForgetInv, ForgetTypeOK, Read
  <1>3. CASE Judge
    <2>1. pc' = "execute" => Verdict(copy, asOf).kind = "Forget"
      BY <1>3 DEF Judge
    <2>2. pc' \in {"idle", "execute"}
      BY <1>3 DEF Judge
    <2>3. UNCHANGED <<memory, now, copy, asOf, archived>>
      BY <1>3 DEF Judge
    <2>4. Verdict(copy, asOf)' = Verdict(copy, asOf)
      BY <2>3
    <2>5. ForgetTypeOK'
      BY <2>1, <2>2, <2>3, ReasonsToForget DEF ForgetInv, ForgetTypeOK
    <2>6. QED
      BY <2>1, <2>3, <2>4, <2>5 DEF ForgetInv
  <1>4. CASE Archive
    <2>1. /\ memory' \in Memories /\ memory'.validTo # Never
          /\ memory'.lastAccess = memory.lastAccess
      BY <1>0, <1>1, <1>4, ForgettingConstants DEF Archive, Memories, Never
    <2>2. pc' = "idle" /\ UNCHANGED <<now, copy, asOf>>
      BY <1>4 DEF Archive
    <2>3. QED
      BY <1>0, <2>1, <2>2 DEF ForgetInv, ForgetTypeOK
  <1>5. CASE Tick
    <2>1. now' = now + 1 /\ now < MaxTime /\ UNCHANGED <<memory, pc, copy, asOf, archived>>
      BY <1>5 DEF Tick
    <2>2. now' \in 0 .. MaxTime /\ asOf \in 0 .. now' /\ memory.lastAccess <= now'
      BY <1>0, <1>1, <2>1 DEF ForgetInv
    <2>3. QED
      BY <2>1, <2>2 DEF ForgetInv, ForgetTypeOK
  <1>6. CASE Access
    <2>1. memory' = Touched(memory, now) /\ UNCHANGED <<now, pc, copy, asOf, archived>>
      BY <1>6 DEF Access
    <2>2. memory' \in Memories /\ memory'.validTo = memory.validTo /\ memory'.lastAccess = now
      BY <1>0, <2>1, TouchedMemory
    <2>3. QED
      BY <1>0, <2>1, <2>2 DEF ForgetInv, ForgetTypeOK
  <1>7. CASE Change
    <2>1. memory.validTo = Never /\ UNCHANGED <<now, pc, copy, asOf, archived>>
      BY <1>7 DEF Change
    <2>2. memory' \in Memories /\ memory'.lastAccess = memory.lastAccess
      BY <1>0, <1>1, <1>7, ForgettingConstants DEF Change, Memories, Never
    <2>3. ~archived
      BY <2>1 DEF ForgetInv, ForgetTypeOK
    <2>4. QED
      BY <1>0, <2>1, <2>2, <2>3 DEF ForgetInv, ForgetTypeOK
  <1>8. CASE UNCHANGED forgetVars
    BY <1>8 DEF ForgetInv, ForgetTypeOK, forgetVars
  <1>9. QED
    BY <1>2, <1>3, <1>4, <1>5, <1>6, <1>7, <1>8 DEF ForgetNext

\* The invariant always holds.
LEMMA ForgetInvHolds == ForgetSpec => []ForgetInv
  BY ForgetInvInit, ForgetInvStep, PTL DEF ForgetSpec

-----------------------------------------------------------------------------
(* The theorems.                                                           *)

\* The rows, the copies and the plans are what they should be: no plan is
\* executed without a reason or a score that forgets.
THEOREM ForgetIsTyped == ForgetSpec => []ForgetTypeOK
  <1>1. ForgetInv => ForgetTypeOK
    BY DEF ForgetInv
  <1>2. QED
    BY <1>1, ForgetInvHolds, PTL

\* The later the reading, the harsher the verdict.
LEMMA Ripens == ForgetInv => TimeOnlyRipens
  <1> SUFFICES ASSUME ForgetInv, NEW t \in now .. MaxTime + Stale, NEW u \in now .. MaxTime + Stale, t <= u
               PROVE  Severity(memory, t) <= Severity(memory, u)
    BY DEF TimeOnlyRipens
  <1>0. memory \in Memories /\ now \in Int /\ MaxTime \in Int /\ Stale \in Int /\ Recent \in Int
    BY ForgettingConstants DEF ForgetInv, ForgetTypeOK
  <1>1. t \in Int /\ u \in Int
    BY <1>0
  <1>2. memory.lastAccess \in Int /\ memory.validTo \in Int /\ memory.validFrom = 0
    BY <1>0, MemoryFields DEF Never
  <1>3. RecentlyAccessed(memory, u) => RecentlyAccessed(memory, t)
    BY <1>0, <1>1, <1>2 DEF RecentlyAccessed
  <1>4. IsStale(memory, t) => IsStale(memory, u)
    BY <1>0, <1>1, <1>2 DEF IsStale
  <1>5. ForgetScore(memory, t) <= ForgetScore(memory, u)
    <2>1. ForgetScore(memory, u) - ForgetScore(memory, t) =
            (IF IsStale(memory, u) THEN 80 ELSE 0) - (IF IsStale(memory, t) THEN 80 ELSE 0)
      BY <1>0, <1>1, ScoreIs, MemoryFields
    <2>2. ForgetScore(memory, t) \in Int /\ ForgetScore(memory, u) \in Int
      BY <1>0, <1>1, ScoreType
    <2>3. QED
      BY <2>1, <2>2, <1>4
  <1>6. QED
    BY <1>0, <1>1, <1>2, <1>3, <1>5, Milder, ScoreType

\* Time only ripens: a memory left alone is judged no milder later.
THEOREM ForgettingRipens == ForgetSpec => []TimeOnlyRipens
  BY Ripens, ForgetInvHolds, PTL

\* An access now makes no later verdict harsher.
LEMMA UseHelps == ForgetInv => UseNeverHurts
  <1> SUFFICES ASSUME ForgetInv, NEW t \in now .. MaxTime + Stale
               PROVE  Severity(Touched(memory, now), t) <= Severity(memory, t)
    BY DEF UseNeverHurts
  <1> DEFINE used == Touched(memory, now)
  <1>0. /\ memory \in Memories /\ now \in 0 .. MaxTime /\ now \in Int /\ now >= 0
        /\ MaxTime \in Int /\ Stale \in Int /\ Recent \in Int /\ memory.lastAccess <= now
    BY ForgettingConstants DEF ForgetInv, ForgetTypeOK
  <1>1. t \in Int /\ t >= now
    BY <1>0
  <1>2. memory.lastAccess \in Int /\ memory.validTo \in Int /\ memory.validFrom = 0
    BY <1>0, MemoryFields DEF Never
  <1>3. /\ used \in Memories
        /\ used.importance = memory.importance /\ used.confidence = memory.confidence
        /\ used.estimate = memory.estimate /\ used.content = memory.content
        /\ used.superseded = memory.superseded /\ used.validTo = memory.validTo
        /\ used.accesses = 1 /\ used.lastAccess = now
    BY <1>0, TouchedMemory
  <1> HIDE DEF used
  <1>4. RecentlyAccessed(memory, t) => RecentlyAccessed(used, t)
    BY <1>0, <1>1, <1>2, <1>3 DEF RecentlyAccessed, Never
  <1>5. IsStale(used, t) => IsStale(memory, t)
    BY <1>0, <1>1, <1>2, <1>3 DEF IsStale, Never
  <1>6. HighImportance(memory) => HighImportance(used)
    BY <1>3 DEF HighImportance
  <1>7. ForgetScore(used, t) <= ForgetScore(memory, t)
    <2>1. /\ memory.importance \in Int /\ memory.estimate \in Int /\ memory.confidence \in Int
      BY <1>0, MemoryFields
    <2> DEFINE base == 10 * (10 - IF memory.importance >= memory.estimate THEN memory.importance ELSE memory.estimate)
                     + 7 * (10 - memory.confidence)
               poor == IF memory.content = "good" THEN 0 ELSE 70
    <2>2. ForgetScore(used, t) = base + (IF IsStale(used, t) THEN 80 ELSE 0) + poor
      BY <1>1, <1>3, <2>1, ScoreIs
    <2>3. ForgetScore(memory, t) = base + (IF memory.accesses = 0 THEN 40 ELSE 0)
                                 + (IF IsStale(memory, t) THEN 80 ELSE 0) + poor
      BY <1>0, <1>1, ScoreIs
    <2>4. base \in Int /\ poor \in Int
      BY <2>1
    <2> HIDE DEF base, poor
    <2>5. QED
      BY <2>2, <2>3, <2>4, <1>5
  <1>8. Severity(used, t) <= Severity(memory, t)
    BY <1>0, <1>1, <1>3, <1>4, <1>6, <1>7, Milder, ScoreType
  <1>9. QED
    BY <1>8 DEF used

\* Use never hurts: a recalled memory is judged no harsher than if it were not.
THEOREM ForgettingRewardsUse == ForgetSpec => []UseNeverHurts
  BY UseHelps, ForgetInvHolds, PTL

\* More merit makes no verdict harsher.
LEMMA MeritHelps == ForgetInv => MeritNeverHurts
  <1> DEFINE better(i, c, q) == [memory EXCEPT !.importance = i, !.confidence = c, !.content = q]
  <1> SUFFICES ASSUME ForgetInv,
                      NEW i \in Importances, NEW c \in Confidences, NEW q \in Qualities,
                      i >= memory.importance, c >= memory.confidence, Rank(q) >= Rank(memory.content)
               PROVE  Severity(better(i, c, q), now) <= Severity(memory, now)
    BY DEF MeritNeverHurts
  <1> DEFINE best == better(i, c, q)
  <1>0. memory \in Memories /\ now \in Int
    BY DEF ForgetInv, ForgetTypeOK
  <1>1. /\ best \in Memories
        /\ best.importance = i /\ best.confidence = c /\ best.content = q
        /\ best.estimate = memory.estimate /\ best.superseded = memory.superseded
        /\ best.validTo = memory.validTo /\ best.validFrom = memory.validFrom
        /\ best.accesses = memory.accesses /\ best.lastAccess = memory.lastAccess
    <2> DEFINE first  == [memory EXCEPT !.importance = i]
               second == [first EXCEPT !.confidence = c]
               third  == [second EXCEPT !.content = q]
    <2>1. first \in Memories /\ second \in Memories /\ third \in Memories
      BY <1>0 DEF Memories
    <2>2. best = third
      BY <1>0 DEF Memories
    <2>3. QED
      BY <1>0, <2>1, <2>2 DEF Memories
  <1> HIDE DEF best
  <1>2. /\ memory.importance \in Int /\ memory.estimate \in Int /\ memory.confidence \in Int
        /\ i \in Int /\ c \in Int
    BY <1>0, MemoryFields, ForgettingConstants
  <1>3. memory.content \in Qualities
    BY <1>0, MemoryFields
  <1>4. (q = "empty" => memory.content = "empty") /\ (memory.content = "good" => q = "good")
    BY <1>3 DEF Rank, Qualities
  <1>5. RecentlyAccessed(memory, now) => RecentlyAccessed(best, now)
    BY <1>1 DEF RecentlyAccessed
  <1>6. IsStale(best, now) = IsStale(memory, now)
    BY <1>1 DEF IsStale
  <1>7. HighImportance(memory) => HighImportance(best)
    BY <1>1, <1>2 DEF HighImportance
  <1>8. ForgetScore(best, now) <= ForgetScore(memory, now)
    <2> DEFINE lacks(p) == 10 - IF p >= memory.estimate THEN p ELSE memory.estimate
               unused   == (IF memory.accesses = 0 THEN 40 ELSE 0) + (IF IsStale(memory, now) THEN 80 ELSE 0)
               poor(r)  == IF r = "good" THEN 0 ELSE 70
    <2>1. ForgetScore(best, now) = 10 * lacks(i) + 7 * (10 - c) + unused + poor(q)
      BY <1>0, <1>1, <1>2, <1>6, ScoreIs
    <2>2. ForgetScore(memory, now) = 10 * lacks(memory.importance) + 7 * (10 - memory.confidence)
                                     + unused + poor(memory.content)
      BY <1>0, <1>2, ScoreIs
    <2>3. lacks(i) \in Int /\ lacks(memory.importance) \in Int /\ lacks(i) <= lacks(memory.importance)
      BY <1>2
    <2>4. poor(q) \in Int /\ poor(memory.content) \in Int /\ poor(q) <= poor(memory.content) /\ unused \in Int
      BY <1>4
    <2> HIDE DEF lacks, unused, poor
    <2>5. QED
      BY <1>2, <2>1, <2>2, <2>3, <2>4
  <1>9. Severity(best, now) <= Severity(memory, now)
    BY <1>0, <1>1, <1>4, <1>5, <1>7, <1>8, Milder, ScoreType
  <1>10. QED
    BY <1>9 DEF best

\* The verdict falls with the importance, the confidence and the quality.
THEOREM ForgettingRewardsMerit == ForgetSpec => []MeritNeverHurts
  BY MeritHelps, ForgetInvHolds, PTL

\* The verdict is harsher with time and milder with use and merit, for every
\* setting of the thresholds, the days and the scales.
THEOREM ForgettingIsAlwaysMonotone == ForgetSpec => []ForgettingIsMonotone
  <1>1. TimeOnlyRipens /\ UseNeverHurts /\ MeritNeverHurts => ForgettingIsMonotone
    BY DEF ForgettingIsMonotone
  <1>2. QED
    BY <1>1, ForgettingRipens, ForgettingRewardsUse, ForgettingRewardsMerit, PTL

\* Only an access since the reading can be lost.
LEMMA LostAccessStep ==
  ForgetInv /\ [ForgetNext]_forgetVars =>
    [~archived /\ archived' /\ RecentlyAccessed(memory, now) => memory.lastAccess >= asOf]_forgetVars
  <1> SUFFICES ASSUME ForgetInv, [ForgetNext]_forgetVars,
                      ~archived, archived', RecentlyAccessed(memory, now)
               PROVE  memory.lastAccess >= asOf
    OBVIOUS
  <1>0. /\ memory \in Memories /\ copy \in Memories /\ now \in Int /\ asOf \in Int /\ asOf <= now
        /\ Recent \in Int /\ memory.lastAccess \in Int
    BY MemoryFields, ForgettingConstants DEF ForgetInv, ForgetTypeOK, Never
  <1>1. Archive
    BY DEF ForgetNext, Read, Judge, Tick, Access, Change, forgetVars
  <1>2. Verdict(copy, asOf).kind = "Forget"
    BY <1>1 DEF Archive, ForgetInv
  <1>3. ~RecentlyAccessed(copy, asOf)
    BY <1>2, ReasonsToForget
  <1>4. ASSUME memory.lastAccess < asOf PROVE FALSE
    <2>1. copy.lastAccess = memory.lastAccess
      BY <1>4 DEF ForgetInv
    <2>2. RecentlyAccessed(copy, asOf)
      BY <1>0, <2>1 DEF RecentlyAccessed
    <2>3. QED
      BY <1>3, <2>2
  <1>5. QED
    BY <1>0, <1>4

\* A memory that was accessed recently is archived only if the access came
\* between the reading and the archiving.
THEOREM ForgettingLosesOnlyInWindow == ForgetSpec => LostAccessIsInWindow
  BY ForgetInvHolds, LostAccessStep, PTL DEF ForgetSpec, LostAccessIsInWindow

-----------------------------------------------------------------------------
(* The decision whether to merge.                                          *)

\* What the process knows of the memories of a group.
Copies(S, g) == \A i \in DOMAIN g : S[g[i]].text \in Seq(Line)

\* A text has so many tokens.
LEMMA TokensAreFinite ==
  ASSUME NEW t \in Seq(Line)
  PROVE  IsFiniteSet(Tokens(t))
  <1> DEFINE of(i) == TokensOf[t[i]]
             all == {of(i) : i \in DOMAIN t}
  <1>1. DOMAIN t = 1 .. Len(t) /\ Len(t) \in Nat /\ \A i \in DOMAIN t : t[i] \in Line
    BY LenProperties, ElementOfSeq
  <1>2. \A i \in DOMAIN t : IsFiniteSet(of(i))
    BY <1>1, MergingConstants
  <1>3. IsFiniteSet(DOMAIN t)
    BY <1>1, FS_Interval
  <1> HIDE DEF of
  <1>4. IsFiniteSet(all)
    <2> DEFINE q == [i \in DOMAIN t |-> of(i)]
    <2>1. q \in Surjection(DOMAIN t, all)
      BY DEF Surjection
    <2> HIDE DEF q, all
    <2>2. QED
      BY <1>3, <2>1, FS_Surjection
  <1>5. \A T \in all : IsFiniteSet(T)
    BY <1>2
  <1> HIDE DEF all
  <1>6. IsFiniteSet(UNION all)
    BY <1>4, <1>5, FS_UNION
  <1>7. QED
    BY <1>6 DEF Tokens, all, of

\* A part of a number, in units of 1 / 10000.
LEMMA PartAtMost ==
  ASSUME NEW a \in Nat, NEW b \in Nat, b # 0, a <= b
  PROVE  (10000 * a) \div b \in Int /\ (10000 * a) \div b <= 10000
  <1> DEFINE q == (10000 * a) \div b
  <1>1. q \in Int /\ b * q <= 10000 * a
    BY Z3
  <1>2. b * q <= 10000 * b
    BY <1>1
  <1> HIDE DEF q
  <1>3. ASSUME q > 10000 PROVE FALSE
    <2>1. q - 10000 \in Nat /\ q - 10000 > 0
      BY <1>1, <1>3
    <2>2. b * (q - 10000) > 0
      BY <2>1
    <2>3. b * (q - 10000) = b * q - 10000 * b
      BY <1>1
    <2>4. QED
      BY <1>1, <1>2, <2>2, <2>3
  <1>4. q <= 10000
    BY <1>1, <1>3
  <1>5. QED
    BY <1>1, <1>4 DEF q

\* Two texts agree in all their tokens at most.
LEMMA OverlapAtMost ==
  ASSUME NEW t \in Seq(Line), NEW u \in Seq(Line)
  PROVE  TokenOverlap(t, u) \in Int /\ TokenOverlap(t, u) <= 10000
  <1> DEFINE T == Tokens(t)
             U == Tokens(u)
             a == Cardinality(T \cap U)
             b == Cardinality(T \cup U)
  <1>1. TokenOverlap(t, u) = IF T = {} \/ U = {} THEN 0 ELSE (10000 * a) \div b
    BY DEF TokenOverlap
  <1>2. IsFiniteSet(T) /\ IsFiniteSet(U)
    BY TokensAreFinite
  <1> HIDE DEF T, U
  <1>3. ASSUME T # {}
        PROVE  a \in Nat /\ b \in Nat /\ b # 0 /\ a <= b
    <2>1. IsFiniteSet(T \cup U)
      BY <1>2, FS_Union
    <2>2. T \cap U \in SUBSET (T \cup U)
      OBVIOUS
    <2>3. IsFiniteSet(T \cap U) /\ a <= b
      BY <2>1, <2>2, FS_Subset
    <2>4. a \in Nat /\ b \in Nat
      BY <2>1, <2>3, FS_CardinalityType
    <2>5. T \cup U # {}
      BY <1>3
    <2>6. b # 0
      BY <2>1, <2>5, FS_EmptySet
    <2>7. QED
      BY <2>3, <2>4, <2>6
  <1> HIDE DEF a, b
  <1>4. CASE T = {} \/ U = {}
    BY <1>1, <1>4
  <1>5. CASE T # {} /\ U # {}
    <2>1. (10000 * a) \div b \in Int /\ (10000 * a) \div b <= 10000
      BY <1>3, <1>5, PartAtMost
    <2>2. QED
      BY <1>1, <1>5, <2>1
  <1>6. QED
    BY <1>4, <1>5

\* Two memories score 1 at most.
LEMMA PairScores ==
  ASSUME NEW m, NEW n, m.text \in Seq(Line), n.text \in Seq(Line)
  PROVE  PairScore(m, n) \in Int /\ PairScore(m, n) <= 10000
  <1> DEFINE o == TokenOverlap(m.text, n.text)
             k == IF m.class.kind = n.class.kind THEN 1500 ELSE 0
             s == IF m.class.scope = n.class.scope THEN 1000 ELSE 0
             w == IF Signals(m.text) \cap Signals(n.text) # {} THEN 1000 ELSE 0
  <1>1. o \in Int /\ o <= 10000
    BY OverlapAtMost
  <1>2. PairScore(m, n) = (65 * o) \div 100 + k + s + w
    BY DEF PairScore
  <1>3. k \in Int /\ s \in Int /\ w \in Int /\ k <= 1500 /\ s <= 1000 /\ w <= 1000
    OBVIOUS
  <1> HIDE DEF k, s, w, o
  <1>4. (65 * o) \div 100 \in Int /\ (65 * o) \div 100 <= 6500
    BY <1>1
  <1>5. QED
    BY <1>2, <1>3, <1>4

\* The pairs of places, and what they score.
Scores(S, g) == [p \in Pairs(g) |-> PairScore(S[g[p[1]]], S[g[p[2]]])]

LEMMA PairsOf ==
  ASSUME NEW S, NEW M, NEW g \in Seq(M), Copies(S, g)
  PROVE  /\ IsFiniteSet(Pairs(g)) /\ Cardinality(Pairs(g)) \in Nat
         /\ DOMAIN Scores(S, g) = Pairs(g)
         /\ \A p \in Pairs(g) : Scores(S, g)[p] \in Int /\ Scores(S, g)[p] <= 10000
  <1> DEFINE D == DOMAIN g
  <1>1. D = 1 .. Len(g) /\ Len(g) \in Nat
    BY LenProperties
  <1>2. IsFiniteSet(D)
    BY <1>1, FS_Interval
  <1>3. IsFiniteSet(D \X D)
    BY <1>2, FS_Product
  <1>4. IsFiniteSet(Pairs(g)) /\ Cardinality(Pairs(g)) \in Nat
    BY <1>3, FS_Subset, FS_CardinalityType DEF Pairs
  <1>5. DOMAIN Scores(S, g) = Pairs(g)
    BY DEF Scores
  <1>6. ASSUME NEW p \in Pairs(g)
        PROVE  Scores(S, g)[p] \in Int /\ Scores(S, g)[p] <= 10000
    <2>1. p[1] \in D /\ p[2] \in D
      BY DEF Pairs
    <2>2. Scores(S, g)[p] = PairScore(S[g[p[1]]], S[g[p[2]]])
      BY DEF Scores
    <2>3. QED
      BY <2>1, <2>2, PairScores DEF Copies
  <1>7. QED
    BY <1>4, <1>5, <1>6

\* No member is carried along further than the other pairs reach.
CarriedAt(S, g, i) ==
  (MergeThreshold - Max(Rounding)) * Cardinality(Pairs(g))
    <= Likeness(S, g, i) + 10000 * Cardinality(Pairs(g) \ PairsWith(g, i))

LEMMA MostRounding == Max(Rounding) = 2 /\ Rounding \subseteq Int /\ \A off \in Rounding : off <= 2
  <1>1. \A off \in Rounding : off \in Int /\ off <= 2
    BY DEF Rounding
  <1>2. 2 \in Rounding
    BY DEF Rounding
  <1> HIDE DEF Rounding
  <1>3. Max(Rounding) = 2
    <2> DEFINE m == Max(Rounding)
    <2>1. \E x \in Rounding : \A y \in Rounding : x >= y
      BY <1>1, <1>2
    <2>2. m \in Rounding /\ \A y \in Rounding : m >= y
      BY <2>1 DEF Max
    <2> HIDE DEF m
    <2>3. m = 2
      BY <1>1, <1>2, <2>2
    <2>4. QED
      BY <2>3 DEF m
  <1>4. QED
    BY <1>1, <1>3

LEMMA MergedAreCarried ==
  ASSUME NEW S, NEW M, NEW g \in Seq(M), Copies(S, g), NEW off \in Rounding, NEW i,
         Reaches(S, g, MergeThreshold - off)
  PROVE  CarriedAt(S, g, i)
  <1> DEFINE P == Pairs(g)
             W == PairsWith(g, i)
             f == Scores(S, g)
             c == Cardinality(P)
             all == SumFunctionOnSet(f, P)
             some == SumFunctionOnSet(f, W)
             rest == Cardinality(P \ W)
  <1>1. /\ IsFiniteSet(P) /\ c \in Nat /\ DOMAIN f = P
        /\ \A p \in P : f[p] \in Int /\ f[p] <= 10000
    BY PairsOf
  <1>2. W \in SUBSET P
    BY DEF PairsWith
  <1>3. all >= (MergeThreshold - off) * c
    <2>1. SumFunction(Scores(S, g)) >= (MergeThreshold - off) * Cardinality(Pairs(g))
      BY DEF Reaches, Scores
    <2>2. SumFunction(Scores(S, g)) = SumFunctionOnSet(Scores(S, g), Pairs(g))
      BY <1>1 DEF SumFunction
    <2>3. QED
      BY <2>1, <2>2
  <1>4. Likeness(S, g, i) = some
    <2> DEFINE h == [p \in PairsWith(g, i) |-> PairScore(S[g[p[1]]], S[g[p[2]]])]
    <2>1. Likeness(S, g, i) = SumFunctionOnSet(h, W)
      BY DEF Likeness, SumFunction
    <2>2. \A p \in W : h[p] = f[p]
      BY <1>2 DEF Scores
    <2>3. IsFiniteSet(W)
      BY <1>1, <1>2, FS_Subset
    <2> HIDE DEF h, W, f, P
    <2>4. SumFunctionOnSet(h, W) = SumFunctionOnSet(f, W)
      BY <2>2, <2>3, SumOfEqual
    <2>5. QED
      BY <2>1, <2>4
  <1> HIDE DEF P, W, f
  <1>5. all <= some + 10000 * rest /\ all \in Int /\ some \in Int /\ rest \in Nat
    BY <1>1, <1>2, SumAtMost
  <1> HIDE DEF c, all, some, rest
  <1>6. (MergeThreshold - 2) * c <= (MergeThreshold - off) * c
    <2> DEFINE x == MergeThreshold - 2
               y == MergeThreshold - off
    <2>1. x \in Int /\ y \in Int /\ x <= y
      BY MostRounding, MergingConstants
    <2> HIDE DEF x, y
    <2>2. (y - x) * c >= 0
      BY <1>1, <2>1
    <2>3. (y - x) * c = y * c - x * c
      BY <1>1, <2>1
    <2>4. x * c <= y * c
      BY <1>1, <2>1, <2>2, <2>3
    <2>5. QED
      BY <2>4 DEF x, y
  <1>7. (MergeThreshold - 2) * c <= some + 10000 * rest
    <2> DEFINE x == (MergeThreshold - 2) * c
               y == (MergeThreshold - off) * c
    <2>1. x \in Int /\ y \in Int
      BY <1>1, MostRounding, MergingConstants
    <2>2. x <= y /\ all >= y
      BY <1>3, <1>6
    <2> HIDE DEF x, y
    <2>3. x <= some + 10000 * rest
      BY <1>5, <2>1, <2>2
    <2>4. QED
      BY <2>3 DEF x
  <1>8. QED
    BY <1>4, <1>7, MostRounding DEF CarriedAt, c, some, rest, P, W

-----------------------------------------------------------------------------
(* The merge of a group.                                                   *)

\* The mutations of a plan.
MergeMutation == [op : {"UpdateMemory", "ArchiveMemory"}, id : MemoryId, text : Seq(Line)]

\* What the process knows of its group.
GroupRead == \A m \in Range(group) : copies[m].text \in Seq(Line)

\* The group has not changed since it was read, and its update has not failed.
Unraced == (raced \cup refused) \cap Range(group) = {}

\* The first memory of the group says what all of them said.
PrimaryHasAll ==
  /\ group[1] \in live
  /\ \A m \in Range(group) : Lines(copies[m].text) \subseteq Lines(text[group[1]])

\* What is left of the plan archives other memories of the group.
ArchivesOthers(mutations) ==
  \A i \in DOMAIN mutations :
    \E m \in Range(group) \ {group[1]} : mutations[i] = ArchiveMutation(m)

MergeInv ==
  /\ text \in [MemoryId -> Seq(Line)] /\ live \subseteq MemoryId
  /\ phase \in {"idle", "decide", "execute"}
  /\ group \in Seq(MemoryId) /\ (phase # "idle" => GroupRead)
  /\ plan \in Seq(MergeMutation)
  /\ phase = "execute" => Len(group) >= 2 /\ plan # <<>>
  /\ Unraced =>
       /\ phase = "decide" => superseded = {} /\ \A m \in Range(group) : copies[m].valid = (m \in live)
       /\ phase = "execute" =>
            \/ plan = MergePlan(copies, group) /\ superseded = {} /\ Range(group) \subseteq live
            \/ PrimaryHasAll /\ ArchivesOthers(plan)
       /\ superseded # {} => PrimaryHasAll
       /\ superseded \subseteq Range(group)

\* The merged content has the lines of every memory of the group.
LEMMA MergedContentHasAll ==
  ASSUME NEW S, NEW M, NEW g \in Seq(M), Copies(S, g)
  PROVE  /\ MergedContent(S, g) \in Seq(Line)
         /\ \A k \in DOMAIN g : Lines(S[g[k]].text) \subseteq Lines(MergedContent(S, g))
  <1> DEFINE n == Len(g)
             texts == [i \in DOMAIN g |-> S[g[i]].text]
             first == {i \in DOMAIN g : \A j \in 1 .. i - 1 : S[g[j]].text # S[g[i]].text}
             d == Picked(texts, first)
             whole == FlattenSeq(d)
  <1>1. n \in Nat /\ DOMAIN g = 1 .. n
    BY LenProperties
  <1>2. texts \in Seq(Seq(Line)) /\ DOMAIN texts = 1 .. n
    <2> HIDE DEF n
    <2>1. texts \in [1 .. n -> Seq(Line)]
      BY <1>1 DEF Copies
    <2> HIDE DEF texts
    <2>2. QED
      BY <1>1, <2>1, SequenceOfLength
  <1>3. first \in SUBSET (DOMAIN texts)
    BY <1>1, <1>2
  <1>4. \A i \in 1 .. n : texts[i] = S[g[i]].text
    BY <1>1
  <1>5. \A i \in 1 .. n : (\A j \in 1 .. i - 1 : texts[j] # texts[i]) => i \in first
    <2> SUFFICES ASSUME NEW i \in 1 .. n, \A j \in 1 .. i - 1 : texts[j] # texts[i]
                 PROVE  i \in first
      OBVIOUS
    <2>1. ASSUME NEW j \in 1 .. i - 1 PROVE S[g[j]].text # S[g[i]].text
      <3> HIDE DEF texts
      <3>1. j \in 1 .. n
        BY <1>1
      <3>2. texts[j] # texts[i]
        OBVIOUS
      <3>3. QED
        BY <1>4, <3>1, <3>2
    <2>2. QED
      BY <1>1, <2>1
  <1> HIDE DEF n, texts, first, d, whole
  <1>6. d \in Seq(Seq(Line)) /\ DOMAIN d = 1 .. Len(d)
    <2>1. d \in Seq(Seq(Line))
      BY <1>2, <1>3, PickedProperties DEF d
    <2>2. QED
      BY <2>1, LenProperties
  <1>7. whole \in Seq(Line) /\ \E of : JoinedFrom(whole, d, Len(d), of)
    BY <1>6, FlattenProperties DEF whole
  <1>8. \A q \in 1 .. Len(d) : Range(d[q]) \subseteq Range(whole)
    BY <1>7 DEF JoinedFrom, Range
  <1>9. \A i \in first : \E q \in 1 .. Len(d) : d[q] = texts[i]
    <2> TAKE i \in first
    <2>1. \E q \in DOMAIN Picked(texts, first) : Nth(first, q) = i /\ Picked(texts, first)[q] = texts[i]
      BY <1>2, <1>3, PickedReaches
    <2>2. QED
      BY <1>6, <2>1 DEF d
  <1>10. \A k \in 1 .. n : \E i \in first : texts[i] = texts[k]
    <2> TAKE k \in 1 .. n
    <2> DEFINE T == {i \in 1 .. n : texts[i] = texts[k]}
    <2>1. T \in SUBSET Nat /\ T # {}
      BY <1>1
    <2>2. PICK i \in T : \A j \in T : i <= j
      BY <2>1, LeastNumber
    <2>3. \A j \in 1 .. i - 1 : texts[j] # texts[i]
      BY <1>1, <2>2
    <2>4. QED
      BY <1>5, <2>2, <2>3
  <1>11. \A k \in 1 .. n : Range(texts[k]) \subseteq Range(whole)
    BY <1>8, <1>9, <1>10
  <1>12. MergedContent(S, g) = whole
    BY DEF MergedContent, Distinct, whole, d, texts, first
  <1>13. QED
    BY <1>1, <1>4, <1>7, <1>11, <1>12 DEF Lines

\* The first mutation of the plan and the others.
LEMMA MergePlanFacts ==
  ASSUME NEW S, NEW M, NEW g \in Seq(M), Len(g) >= 1
  PROVE  /\ MergePlan(S, g) # <<>>
         /\ Head(MergePlan(S, g)) = UpdateMutation(g[1], MergedContent(S, g))
         /\ \A i \in DOMAIN Tail(MergePlan(S, g)) :
              \E m \in Range(g) \ {g[1]} : Tail(MergePlan(S, g))[i] = ArchiveMutation(m)
  <1> DEFINE o == Others(g)
             k == Len(o)
             at == {i \in DOMAIN g : g[i] # g[1]}
             X == Range(g) \ {g[1]}
             back == [i \in DOMAIN o |-> ArchiveMutation(o[i])]
             Y == {ArchiveMutation(m) : m \in X}
             start == UpdateMutation(g[1], MergedContent(S, g))
             Z == Y \cup {start}
  <1>1. at \in SUBSET (DOMAIN g) /\ o = Picked(g, at)
    BY DEF Others
  <1>2. o \in Seq({g[i] : i \in at})
    <2> HIDE DEF o, at
    <2>1. QED
      BY <1>1, PickedProperties
  <1>3. {g[i] : i \in at} \subseteq X
    BY DEF Range
  <1>4. k \in Nat /\ DOMAIN o = 1 .. k /\ \A i \in 1 .. k : o[i] \in X
    BY <1>2, <1>3, LenProperties, ElementOfSeq
  <1> HIDE DEF o, k, at, start
  <1>5. back \in [1 .. k -> Z] /\ start \in Z
    BY <1>4
  <1>6. \A i \in 1 .. k : \E m \in X : back[i] = ArchiveMutation(m)
    BY <1>4
  <1> HIDE DEF back, Z, X
  <1>7. back \in Seq(Z) /\ Len(back) = k
    BY <1>4, <1>5, SequenceOfLength
  <1> DEFINE one == <<start>>
             whole == one \o back
  <1>8. one \in Seq(Z) /\ Len(one) = 1 /\ one[1] = start /\ one # <<>>
    BY <1>5
  <1> HIDE DEF one
  <1>9. /\ whole \in Seq(Z) /\ Len(whole) = Len(one) + Len(back)
        /\ \A i \in 1 .. Len(one) + Len(back) :
             whole[i] = IF i <= Len(one) THEN one[i] ELSE back[i - Len(one)]
    BY <1>7, <1>8, ConcatProperties
  <1> HIDE DEF whole
  <1>10. /\ Len(whole) = 1 + k /\ whole[1] = start
         /\ \A i \in 1 .. k : whole[i + 1] = back[i]
    <2>1. Len(whole) = 1 + k /\ whole[1] = start
      BY <1>4, <1>7, <1>8, <1>9
    <2>2. ASSUME NEW i \in 1 .. k PROVE whole[i + 1] = back[i]
      <3>1. i + 1 \in 1 .. 1 + k /\ ~(i + 1 <= 1) /\ (i + 1) - 1 = i
        BY <1>4
      <3>2. QED
        BY <1>7, <1>8, <1>9, <3>1
    <2>3. QED
      BY <2>1, <2>2
  <1>11. /\ whole # <<>> /\ Head(whole) = start
         /\ DOMAIN Tail(whole) = 1 .. k
         /\ \A i \in 1 .. k : Tail(whole)[i] = whole[i + 1]
    BY <1>4, <1>9, <1>10
  <1>12. MergePlan(S, g) = whole
    BY DEF MergePlan, whole, one, back, start, o
  <1>13. QED
    BY <1>6, <1>10, <1>11, <1>12 DEF start, X

-----------------------------------------------------------------------------
(* The steps of the merge.                                                 *)

\* The plan of a group that was read has mutations of the store.
LEMMA MergePlanType ==
  ASSUME NEW S, NEW g \in Seq(MemoryId), Copies(S, g), Len(g) >= 1
  PROVE  MergePlan(S, g) \in Seq(MergeMutation)
  <1> DEFINE o == Others(g)
             k == Len(o)
             at == {i \in DOMAIN g : g[i] # g[1]}
             back == [i \in DOMAIN o |-> ArchiveMutation(o[i])]
             one == <<UpdateMutation(g[1], MergedContent(S, g))>>
  <1>1. at \in SUBSET (DOMAIN g) /\ o = Picked(g, at)
    BY DEF Others
  <1>2. o \in Seq(MemoryId)
    <2> HIDE DEF o, at
    <2>1. QED
      BY <1>1, PickedProperties
  <1>3. k \in Nat /\ DOMAIN o = 1 .. k /\ \A i \in 1 .. k : o[i] \in MemoryId
    BY <1>2, LenProperties, ElementOfSeq
  <1> HIDE DEF o, k
  <1>4. back \in [1 .. k -> MergeMutation]
    BY <1>3 DEF ArchiveMutation, MergeMutation
  <1>5. one \in Seq(MergeMutation)
    <2>1. MergedContent(S, g) \in Seq(Line)
      BY MergedContentHasAll
    <2>2. g[1] \in MemoryId
      BY ElementOfSeq, LenProperties
    <2>3. UpdateMutation(g[1], MergedContent(S, g)) \in MergeMutation
      BY <2>1, <2>2 DEF UpdateMutation, MergeMutation
    <2>4. QED
      BY <2>3
  <1> HIDE DEF back, one
  <1>6. back \in Seq(MergeMutation)
    BY <1>3, <1>4, SequenceOfLength
  <1>7. one \o back \in Seq(MergeMutation)
    BY <1>5, <1>6, ConcatProperties
  <1>8. QED
    BY <1>7 DEF MergePlan, one, back, o

LEMMA MergeInvInit ==
  ASSUME MergeInit
  PROVE  MergeInv
  BY MergingConstants DEF MergeInit, MergeInv, ArchivesOthers, PrimaryHasAll

LEMMA ReadGroupStep ==
  ASSUME MergeInv, ReadGroup
  PROVE  MergeInv'
  <1>1. PICK g \in Groups :
          /\ group' = g
          /\ copies' = [m \in Range(g) |-> [class |-> class[m], text |-> text[m], valid |-> m \in live]]
    BY DEF ReadGroup
  <1>2. g \in Seq(MemoryId) /\ Range(g) \subseteq MemoryId
    <2>1. g \in Seq(MemoryId)
      BY MergingConstants
    <2>2. QED
      BY <2>1, ElementOfSeq DEF Range
  <1>3. /\ phase' = "decide" /\ plan' = <<>> /\ superseded' = {} /\ raced' = {} /\ refused' = {}
        /\ UNCHANGED <<class, text, live>>
    BY DEF ReadGroup
  <1>4. \A m \in Range(g) : copies'[m].text = text[m] /\ copies'[m].valid = (m \in live)
    BY <1>1
  <1>5. GroupRead' /\ group' \in Seq(MemoryId)
    BY <1>1, <1>2, <1>4 DEF GroupRead, MergeInv
  <1>6. \A m \in Range(group') : copies'[m].valid = (m \in live')
    BY <1>1, <1>3, <1>4
  <1>7. QED
    BY <1>3, <1>5, <1>6 DEF MergeInv

LEMMA DecideStep ==
  ASSUME MergeInv, Decide
  PROVE  MergeInv'
  <1>1. /\ phase = "decide" /\ GroupRead /\ group \in Seq(MemoryId)
        /\ UNCHANGED <<class, text, live, group, copies, superseded, raced, refused>>
    BY DEF Decide, MergeInv
  <1>2. Copies(copies, group)
    BY <1>1 DEF GroupRead, Copies, Range
  <1>3. PICK off \in Rounding :
          IF Decision(copies, group, off) = "Merge"
          THEN plan' = MergePlan(copies, group) /\ phase' = "execute"
          ELSE plan' = <<>> /\ phase' = "idle"
    BY DEF Decide
  <1>4. CASE Decision(copies, group, off) = "Merge"
    <2>1. phase' = "execute" /\ plan' = MergePlan(copies, group)
      BY <1>4, <1>3
    <2>2. Len(group) >= 2 /\ \A m \in Range(group) : copies[m].valid
      BY <1>1, <1>4, LenProperties DEF Decision, GroupRead
    <2>3. MergePlan(copies, group) \in Seq(MergeMutation)
      BY <1>1, <1>2, <2>2, MergePlanType, LenProperties DEF GroupRead
    <2>4. MergePlan(copies, group) # <<>>
      BY <1>1, <2>2, MergePlanFacts, LenProperties DEF GroupRead
    <2>5. MergePlan(copies, group)' = MergePlan(copies, group)
      BY <1>1 DEF MergePlan, MergedContent, Distinct
    <2>6. Unraced => superseded = {} /\ Range(group) \subseteq live
      BY <1>1, <2>2 DEF MergeInv
    <2>7. QED
      BY <1>1, <2>1, <2>2, <2>3, <2>4, <2>5, <2>6 DEF MergeInv, MergeMutation, GroupRead, Unraced
  <1>5. CASE Decision(copies, group, off) # "Merge"
    <2>1. phase' = "idle" /\ plan' = <<>>
      BY <1>5, <1>3
    <2>2. QED
      BY <1>1, <2>1 DEF MergeInv, Unraced, PrimaryHasAll
  <1>6. QED
    BY <1>4, <1>5

LEMMA CrashMergeStep ==
  ASSUME MergeInv, CrashMerge
  PROVE  MergeInv'
  BY DEF CrashMerge, MergeInv, Unraced, PrimaryHasAll

\* Another process changes a memory: one of the group, or none of its
\* business.
LEMMA OthersStep ==
  ASSUME MergeInv, OthersWhileMerging
  PROVE  MergeInv'
  <1>1. PICK m \in live :
          /\ raced' = raced \cup {m}
          /\ \/ live' = live \ {m} /\ UNCHANGED text
             \/ \E t \in Texts : text' = [text EXCEPT ![m] = t] /\ UNCHANGED live
    BY DEF OthersWhileMerging
  <1>2. UNCHANGED <<class, group, copies, phase, plan, superseded, refused>>
    BY DEF OthersWhileMerging
  <1>3. text' \in [MemoryId -> Seq(Line)] /\ live' \subseteq MemoryId
    BY <1>1, MergingConstants DEF MergeInv
  <1>4. GroupRead' = GroupRead /\ MergePlan(copies, group)' = MergePlan(copies, group)
        /\ \A mutations : ArchivesOthers(mutations)' = ArchivesOthers(mutations)
    BY <1>2 DEF GroupRead, MergePlan, MergedContent, Distinct, ArchivesOthers
  <1>5. ASSUME Unraced'
        PROVE  /\ Unraced /\ m \notin Range(group)
               /\ \A n \in Range(group) : (n \in live' <=> n \in live) /\ text'[n] = text[n]
    <2>1. Unraced /\ m \notin Range(group)
      BY <1>1, <1>2, <1>5 DEF Unraced
    <2>2. ASSUME NEW n \in Range(group)
          PROVE  (n \in live' <=> n \in live) /\ text'[n] = text[n]
      <3>1. n # m
        BY <2>1
      <3>2. text \in [MemoryId -> Seq(Line)] /\ n \in MemoryId
        <4>1. group \in Seq(MemoryId)
          BY DEF MergeInv
        <4>2. \A i \in DOMAIN group : group[i] \in MemoryId
          BY <4>1, LenProperties, ElementOfSeq
        <4>3. QED
          BY <4>2 DEF MergeInv, Range
      <3>3. text'[n] = text[n]
        BY <1>1, <3>1, <3>2
      <3>4. live' = live \ {m} \/ live' = live
        BY <1>1
      <3>5. n \in live' <=> n \in live
        BY <3>1, <3>4
      <3>6. QED
        BY <3>3, <3>5
    <2>3. QED
      BY <2>1, <2>2
  <1>6. ASSUME Unraced', PrimaryHasAll, Range(group) # {}
        PROVE  PrimaryHasAll'
    <2>1. group[1] \in Range(group)
      BY <1>6, LenProperties DEF Range, MergeInv
    <2>2. QED
      BY <1>2, <1>5, <1>6, <2>1 DEF PrimaryHasAll
  <1>7. phase = "execute" => Range(group) # {}
    <2> SUFFICES ASSUME phase = "execute" PROVE Range(group) # {}
      OBVIOUS
    <2>1. group \in Seq(MemoryId) /\ Len(group) >= 2
      BY DEF MergeInv
    <2>2. 1 \in DOMAIN group
      BY <2>1, LenProperties
    <2>3. group[1] \in Range(group)
      BY <2>2 DEF Range
    <2>4. QED
      BY <2>3
  <1>8. superseded # {} /\ Unraced => Range(group) # {}
    BY DEF MergeInv
  <1>9. Unraced' =>
          /\ phase = "decide" => superseded = {} /\ \A n \in Range(group) : copies[n].valid = (n \in live')
          /\ phase = "execute" =>
               \/ plan = MergePlan(copies, group) /\ superseded = {} /\ Range(group) \subseteq live'
               \/ PrimaryHasAll' /\ ArchivesOthers(plan)
          /\ superseded # {} => PrimaryHasAll'
          /\ superseded \subseteq Range(group)
    BY <1>5, <1>6, <1>7, <1>8 DEF MergeInv
  <1>10. QED
    BY <1>2, <1>3, <1>4, <1>9 DEF MergeInv

\* A step of the plan, that the store does or refuses.
MutationDone(mut) ==
  /\ text' = IF mut.op = "UpdateMemory" /\ mut.id \in live
             THEN [text EXCEPT ![mut.id] = mut.text] ELSE text
  /\ live' = IF mut.op = "ArchiveMemory" THEN live \ {mut.id} ELSE live
  /\ superseded' = superseded \cup (live \ live')
  /\ UNCHANGED <<refused, changes>>

\* A step that failed, since the database was busy.
MutationFailed(mut) ==
  /\ refused' = IF mut.op = "UpdateMemory" THEN refused \cup {mut.id} ELSE refused
  /\ UNCHANGED <<text, live, superseded>>

\* What both have in common.
PlanGoesOn ==
  /\ phase = "execute"
  /\ plan' = Tail(plan)
  /\ phase' = IF Len(plan) = 1 THEN "idle" ELSE "execute"
  /\ UNCHANGED <<class, group, copies, raced>>

LEMMA ExecuteMergeIs ==
  ASSUME ExecuteMerge
  PROVE  PlanGoesOn /\ (MutationDone(Head(plan)) \/ MutationFailed(Head(plan)))
  BY DEF ExecuteMerge, PlanGoesOn, MutationDone, MutationFailed

LEMMA MutationDoneStep ==
  ASSUME MergeInv, PlanGoesOn, MutationDone(Head(plan))
  PROVE  MergeInv'
  <1> DEFINE mut == Head(plan)
  <1>1. /\ phase = "execute" /\ plan \in Seq(MergeMutation) /\ plan # <<>> /\ Len(group) >= 2
        /\ group \in Seq(MemoryId) /\ GroupRead
        /\ text \in [MemoryId -> Seq(Line)] /\ live \subseteq MemoryId
    BY DEF PlanGoesOn, MergeInv
  <1>2. /\ text' = IF mut.op = "UpdateMemory" /\ mut.id \in live
                   THEN [text EXCEPT ![mut.id] = mut.text] ELSE text
        /\ live' = IF mut.op = "ArchiveMemory" THEN live \ {mut.id} ELSE live
        /\ superseded' = superseded \cup (live \ live')
        /\ plan' = Tail(plan)
        /\ phase' = IF Len(plan) = 1 THEN "idle" ELSE "execute"
        /\ UNCHANGED <<class, group, copies, raced, refused>>
    BY DEF PlanGoesOn, MutationDone
  <1>3. mut \in MergeMutation /\ Len(plan) \in Nat /\ Len(plan) >= 1
        /\ Tail(plan) \in Seq(MergeMutation) /\ (Len(plan) # 1 => Tail(plan) # <<>>)
    <2> DEFINE M == MergeMutation
    <2>1. plan \in Seq(M) /\ plan # <<>>
      BY <1>1
    <2> HIDE DEF M
    <2>2. /\ Head(plan) \in M /\ Tail(plan) \in Seq(M)
          /\ Len(plan) \in Nat /\ Len(plan) >= 1 /\ Len(Tail(plan)) = Len(plan) - 1
      BY <2>1, HeadTailProperties, LenProperties, EmptySeq
    <2>3. Len(plan) # 1 => Tail(plan) # <<>>
      <3> DEFINE rest == Tail(plan)
      <3>1. rest \in Seq(M) /\ Len(rest) = Len(plan) - 1 /\ Len(plan) \in Nat
        BY <2>2
      <3> HIDE DEF rest
      <3>2. Len(plan) # 1 => Len(rest) # 0
        BY <3>1
      <3>3. rest = <<>> => Len(rest) = 0
        BY EmptySeq
      <3>4. Len(plan) # 1 => rest # <<>>
        BY <3>2, <3>3
      <3>5. QED
        BY <3>4 DEF rest
    <2>4. QED
      BY <2>2, <2>3 DEF M
  <1>4. /\ text' \in [MemoryId -> Seq(Line)] /\ live' \subseteq MemoryId
        /\ phase' \in {"idle", "execute"}
        /\ plan' \in Seq(MergeMutation)
        /\ phase' = "execute" => plan' # <<>>
        /\ group' = group /\ GroupRead'
    <2>1. mut.text \in Seq(Line)
      BY <1>3 DEF MergeMutation
    <2> HIDE DEF mut
    <2>2. QED
      BY <1>1, <1>2, <1>3, <2>1 DEF GroupRead
  <1>5. group[1] \in Range(group) /\ Len(group) >= 1 /\ Copies(copies, group)
    BY <1>1, LenProperties DEF Range, GroupRead, Copies
  <1>6. ASSUME Unraced
        PROVE  PrimaryHasAll' /\ ArchivesOthers(plan)' /\ superseded' \subseteq Range(group)
    <2>1. CASE plan = MergePlan(copies, group) /\ superseded = {} /\ Range(group) \subseteq live
      <3> DEFINE merged == MergedContent(copies, group)
      <3>1. mut = UpdateMutation(group[1], merged)
        BY <1>1, <1>5, <2>1, MergePlanFacts
      <3>2. /\ mut.op = "UpdateMemory" /\ mut.id = group[1] /\ mut.text = merged
        BY <3>1 DEF UpdateMutation
      <3>3. \A k \in DOMAIN group : Lines(copies[group[k]].text) \subseteq Lines(merged)
        BY <1>1, <1>5, MergedContentHasAll
      <3>4. ArchivesOthers(Tail(plan))
        <4> HIDE DEF mut, merged
        <4>1. group \in Seq(MemoryId) /\ Len(group) >= 1
          BY <1>1, <1>5
        <4>2. \A i \in DOMAIN Tail(MergePlan(copies, group)) :
                \E m \in Range(group) \ {group[1]} : Tail(MergePlan(copies, group))[i] = ArchiveMutation(m)
          BY <4>1, MergePlanFacts
        <4>3. QED
          BY <2>1, <4>2 DEF ArchivesOthers
      <3> HIDE DEF mut, merged
      <3>5. live' = live /\ superseded' = {} /\ text'[group[1]] = merged
        BY <1>1, <1>2, <1>5, <2>1, <3>2
      <3>6. PrimaryHasAll'
        BY <1>2, <1>5, <2>1, <3>3, <3>5 DEF PrimaryHasAll, Range
      <3>7. ArchivesOthers(plan)'
        BY <1>2, <3>4 DEF ArchivesOthers
      <3>8. QED
        BY <3>5, <3>6, <3>7
    <2>2. CASE PrimaryHasAll /\ ArchivesOthers(plan)
      <3>1. PICK m \in Range(group) \ {group[1]} : mut = ArchiveMutation(m)
        BY <1>1, <2>2 DEF ArchivesOthers
      <3>2. mut.op = "ArchiveMemory" /\ mut.id = m
        BY <3>1 DEF ArchiveMutation
      <3>3. ArchivesOthers(Tail(plan))
        <4>1. \A i \in DOMAIN Tail(plan) : i + 1 \in DOMAIN plan /\ Tail(plan)[i] = plan[i + 1]
          BY <1>1, HeadTailProperties, LenProperties
        <4>2. QED
          BY <2>2, <4>1 DEF ArchivesOthers
      <3> HIDE DEF mut
      <3>4. text' = text /\ live' = live \ {m} /\ superseded' \subseteq superseded \cup {m}
        BY <1>2, <3>2
      <3>5. PrimaryHasAll'
        BY <1>2, <2>2, <3>1, <3>4 DEF PrimaryHasAll
      <3>6. ArchivesOthers(plan)'
        BY <1>2, <3>3 DEF ArchivesOthers
      <3>7. superseded \subseteq Range(group)
        BY <1>6 DEF MergeInv
      <3>8. QED
        BY <3>1, <3>4, <3>5, <3>6, <3>7
    <2>3. QED
      BY <1>1, <1>6, <2>1, <2>2 DEF MergeInv
  <1>7. Unraced' = Unraced
    BY <1>2 DEF Unraced
  <1>8. QED
    BY <1>1, <1>2, <1>4, <1>6, <1>7 DEF MergeInv

LEMMA MutationFailedStep ==
  ASSUME MergeInv, PlanGoesOn, MutationFailed(Head(plan))
  PROVE  MergeInv'
  <1> DEFINE mut == Head(plan)
  <1>1. /\ phase = "execute" /\ plan \in Seq(MergeMutation) /\ plan # <<>> /\ Len(group) >= 2
        /\ group \in Seq(MemoryId) /\ GroupRead
        /\ text \in [MemoryId -> Seq(Line)] /\ live \subseteq MemoryId
    BY DEF PlanGoesOn, MergeInv
  <1>2. /\ refused' = IF mut.op = "UpdateMemory" THEN refused \cup {mut.id} ELSE refused
        /\ plan' = Tail(plan)
        /\ phase' = IF Len(plan) = 1 THEN "idle" ELSE "execute"
        /\ UNCHANGED <<class, text, live, group, copies, superseded, raced>>
    BY DEF PlanGoesOn, MutationFailed
  <1>3. /\ Tail(plan) \in Seq(MergeMutation) /\ (Len(plan) # 1 => Tail(plan) # <<>>)
        /\ \A i \in DOMAIN Tail(plan) : i + 1 \in DOMAIN plan /\ Tail(plan)[i] = plan[i + 1]
    <2> DEFINE M == MergeMutation
               rest == Tail(plan)
    <2>1. plan \in Seq(M) /\ plan # <<>>
      BY <1>1
    <2> HIDE DEF M
    <2>2. /\ rest \in Seq(M) /\ Len(plan) \in Nat /\ Len(rest) = Len(plan) - 1
          /\ DOMAIN plan = 1 .. Len(plan) /\ DOMAIN rest = 1 .. Len(rest)
          /\ \A i \in 1 .. Len(rest) : rest[i] = plan[i + 1]
      BY <2>1, HeadTailProperties, LenProperties, EmptySeq
    <2> HIDE DEF rest
    <2>3. Len(plan) # 1 => Len(rest) # 0
      BY <2>2
    <2>4. rest = <<>> => Len(rest) = 0
      BY EmptySeq
    <2>5. \A i \in DOMAIN rest : i + 1 \in DOMAIN plan /\ rest[i] = plan[i + 1]
      BY <2>2
    <2>6. QED
      BY <2>2, <2>3, <2>4, <2>5 DEF M, rest
  <1>4. group[1] \in Range(group) /\ Len(group) >= 1 /\ Copies(copies, group)
    BY <1>1, LenProperties DEF Range, GroupRead, Copies
  <1>5. ASSUME Unraced'
        PROVE  Unraced /\ (mut.op # "UpdateMemory" \/ mut.id \notin Range(group))
    <2>1. (raced \cup refused') \cap Range(group) = {}
      BY <1>2, <1>5 DEF Unraced
    <2>2. /\ refused \subseteq refused'
          /\ mut.op = "UpdateMemory" => mut.id \in refused'
      <3> HIDE DEF mut
      <3>1. QED
        BY <1>2
    <2>3. Unraced
      BY <2>1, <2>2 DEF Unraced
    <2>4. mut.op # "UpdateMemory" \/ mut.id \notin Range(group)
      <3> HIDE DEF mut
      <3>1. QED
        BY <2>1, <2>2
    <2>5. QED
      BY <2>3, <2>4
  <1>6. ASSUME Unraced'
        PROVE  PrimaryHasAll /\ ArchivesOthers(Tail(plan)) /\ superseded \subseteq Range(group)
    <2>1. CASE plan = MergePlan(copies, group)
      <3>1. mut = UpdateMutation(group[1], MergedContent(copies, group))
        BY <1>1, <1>4, <2>1, MergePlanFacts
      <3>2. mut.op = "UpdateMemory" /\ mut.id = group[1]
        BY <3>1 DEF UpdateMutation
      <3>3. QED
        BY <1>4, <1>5, <1>6, <3>2
    <2>2. CASE PrimaryHasAll /\ ArchivesOthers(plan)
      <3>1. ArchivesOthers(Tail(plan))
        BY <1>3, <2>2 DEF ArchivesOthers
      <3>2. superseded \subseteq Range(group)
        BY <1>5, <1>6 DEF MergeInv
      <3>3. QED
        BY <2>2, <3>1, <3>2
    <2>3. QED
      BY <1>1, <1>5, <1>6, <2>1, <2>2 DEF MergeInv
  <1>7. ASSUME Unraced' PROVE PrimaryHasAll' /\ ArchivesOthers(plan)'
    <2>1. PrimaryHasAll' = PrimaryHasAll
      BY <1>2 DEF PrimaryHasAll
    <2>2. ArchivesOthers(plan)' = ArchivesOthers(Tail(plan))
      BY <1>2 DEF ArchivesOthers
    <2>3. QED
      BY <1>6, <1>7, <2>1, <2>2
  <1>8. GroupRead'
    BY <1>1, <1>2 DEF GroupRead
  <1> HIDE DEF mut
  <1>9. QED
    BY <1>1, <1>2, <1>3, <1>6, <1>7, <1>8 DEF MergeInv

LEMMA ExecuteMergeStep ==
  ASSUME MergeInv, ExecuteMerge
  PROVE  MergeInv'
  BY ExecuteMergeIs, MutationDoneStep, MutationFailedStep

LEMMA MergeInvStep ==
  ASSUME MergeInv, [MergeNext]_mergeVars
  PROVE  MergeInv'
  <1>1. CASE UNCHANGED mergeVars
    <2>1. UNCHANGED <<class, text, live, group, copies, phase, plan, superseded, raced, refused>>
      BY <1>1 DEF mergeVars
    <2>2. \A mutations : ArchivesOthers(mutations)' = ArchivesOthers(mutations)
      BY <2>1 DEF ArchivesOthers
    <2>3. /\ MergePlan(copies, group)' = MergePlan(copies, group) /\ PrimaryHasAll' = PrimaryHasAll
          /\ GroupRead' = GroupRead /\ Unraced' = Unraced
      BY <2>1 DEF GroupRead, MergePlan, MergedContent, Distinct, PrimaryHasAll, Unraced
    <2>4. QED
      BY <2>1, <2>2, <2>3 DEF MergeInv
  <1>2. QED
    BY <1>1, ReadGroupStep, DecideStep, ExecuteMergeStep, CrashMergeStep, OthersStep DEF MergeNext

\* What merged memories said is said by the primary one, at each point of
\* the plan and after a crash, as long as nobody else changed the group and the
\* update of the primary one did not fail.
THEOREM MergingTextSurvives == MergeSpec => []MergedTextSurvives
  <1>1. MergeInit => MergeInv
    BY MergeInvInit
  <1>2. MergeInv /\ [MergeNext]_mergeVars => MergeInv'
    BY MergeInvStep
  <1>3. MergeInv => MergedTextSurvives
    BY DEF MergeInv, MergedTextSurvives, Unraced, PrimaryHasAll
  <1>4. QED
    BY <1>1, <1>2, <1>3, PTL DEF MergeSpec

\* A group whose plan is executed, or that lost a member to it, was merged.
CarriedInv ==
  phase = "execute" \/ superseded # {} => \A i \in DOMAIN group : CarriedAt(copies, group, i)

LEMMA CarriedInvStep ==
  ASSUME MergeInv, CarriedInv, [MergeNext]_mergeVars
  PROVE  CarriedInv'
  <1>1. CASE ReadGroup
    BY <1>1 DEF ReadGroup, CarriedInv
  <1>2. CASE Decide
    <2>1. /\ phase = "decide" /\ GroupRead /\ group \in Seq(MemoryId)
          /\ UNCHANGED <<group, copies, superseded>>
      BY <1>2 DEF Decide, MergeInv
    <2>2. Copies(copies, group)
      BY <2>1 DEF GroupRead, Copies, Range
    <2>3. PICK off \in Rounding :
            IF Decision(copies, group, off) = "Merge"
            THEN plan' = MergePlan(copies, group) /\ phase' = "execute"
            ELSE plan' = <<>> /\ phase' = "idle"
      BY <1>2 DEF Decide
    <2>4. CASE Decision(copies, group, off) = "Merge"
      <3>1. Reaches(copies, group, MergeThreshold - off)
        BY <2>4 DEF Decision
      <3>2. \A i \in DOMAIN group : CarriedAt(copies, group, i)
        BY <2>1, <2>2, <3>1, MergedAreCarried
      <3>3. (\A i \in DOMAIN group : CarriedAt(copies, group, i))'
              = \A i \in DOMAIN group : CarriedAt(copies, group, i)
        BY <2>1 DEF CarriedAt, Likeness
      <3>4. QED
        BY <3>2, <3>3 DEF CarriedInv
    <2>5. CASE Decision(copies, group, off) # "Merge"
      <3>1. phase' = "idle"
        BY <2>3, <2>5
      <3>2. QED
        BY <2>1, <3>1 DEF CarriedInv, CarriedAt, Likeness
    <2>6. QED
      BY <2>4, <2>5
  <1>3. CASE ExecuteMerge
    <2>1. phase = "execute" /\ UNCHANGED <<group, copies>>
      BY <1>3 DEF ExecuteMerge
    <2>2. QED
      BY <2>1 DEF CarriedInv, CarriedAt, Likeness
  <1>4. CASE CrashMerge \/ OthersWhileMerging \/ UNCHANGED mergeVars
    <2>1. (phase' = phase \/ phase' = "idle") /\ UNCHANGED <<group, copies, superseded>>
      BY <1>4 DEF CrashMerge, OthersWhileMerging, mergeVars
    <2>2. QED
      BY <2>1 DEF CarriedInv, CarriedAt, Likeness
  <1>5. QED
    BY <1>1, <1>2, <1>3, <1>4 DEF MergeNext

\* No memory is archived with a group unless what it has in common with the
\* others makes up for what their own pairs leave open, however the average is
\* rounded and in whatever order the group is added up.
THEOREM MergingCarriesOnlySoFar == MergeSpec => []CarriedOnlySoFar
  <1>1. MergeInit => MergeInv /\ CarriedInv
    BY MergeInvInit DEF MergeInit, CarriedInv
  <1>2. MergeInv /\ CarriedInv /\ [MergeNext]_mergeVars => (MergeInv /\ CarriedInv)'
    BY MergeInvStep, CarriedInvStep
  <1>3. CarriedInv => CarriedOnlySoFar
    BY DEF CarriedInv, CarriedOnlySoFar, CarriedAt
  <1>4. QED
    BY <1>1, <1>2, <1>3, PTL DEF MergeSpec

-----------------------------------------------------------------------------
(* The rounding of the reflection score.                                   *)

\* A rounded score is off by half a unit in the last place at most.
LEMMA RoundedNearby ==
  ASSUME NEW x \in Nat
  PROVE  F32(x) \in Nat /\ F32(x) - x <= 16 /\ x - F32(x) <= 16
  <1> DEFINE u == Ulp(x)
             q == x \div u
             r == x % u
  <1>1. u \in {2, 4, 8, 16, 32}
    BY DEF Ulp
  <1> HIDE DEF u
  <1>2. q \in Nat /\ r \in 0 .. u - 1 /\ x = u * q + r
    BY <1>1
  <1> HIDE DEF q, r
  <1>3. \/ F32(x) = u * q /\ 2 * r <= u
        \/ F32(x) = u * (q + 1) /\ 2 * r >= u
    <2>1. F32(x) = u * (IF 2 * r > u \/ (2 * r = u /\ q % 2 = 1) THEN q + 1 ELSE q)
      BY DEF F32, u, q, r
    <2>2. QED
      BY <1>1, <1>2, <2>1
  <1>4. QED
    BY <1>1, <1>2, <1>3

\* The parts of the score in units of 2^-27 are within 4 units of what is
\* written, and the thresholds too: a hundredth is 2^27 / 100 units.
Near(units, hundredths, off) ==
  /\ units \in Int /\ hundredths \in Int
  /\ 100 * units - 134217728 * hundredths <= 100 * off
  /\ 134217728 * hundredths - 100 * units <= 100 * off

\* Rounding and sums add to the error.
LEMMA NearRounded ==
  ASSUME NEW x \in Nat, NEW h \in Int, NEW off \in Nat, Near(x, h, off)
  PROVE  Near(F32(x), h, off + 16) /\ F32(x) \in Nat
  BY RoundedNearby DEF Near

LEMMA NearSum ==
  ASSUME NEW x, NEW h, NEW a \in Nat, NEW y, NEW k, NEW b \in Nat, Near(x, h, a), Near(y, k, b)
  PROVE  Near(x + y, h + k, a + b)
  BY DEF Near

\* The hundredths of the kind, and of so many events or signals.
KindHundredths == [Failure |-> 45, Preference |-> 35, Playbook |-> 30, State |-> 20, Fact |-> 10]

LEMMA NearParts ==
  /\ Near(0, 0, 0) /\ Near(Half, 50, 0)
  /\ \A e \in 0 .. 3 : Near(e * EvidenceWeight, 35 * e, 12) /\ e * EvidenceWeight \in Nat
  /\ \A s \in 0 .. 3 : Near(s * SignalWeight, 15 * s, 12) /\ s * SignalWeight \in Nat
  /\ \A k \in DOMAIN KindWeight : Near(KindWeight[k], KindHundredths[k], 4) /\ KindWeight[k] \in Nat
  <1>1. Near(0, 0, 0) /\ Near(Half, 50, 0)
    BY DEF Near, Half
  <1>2. ASSUME NEW e \in 0 .. 3
        PROVE  Near(e * EvidenceWeight, 35 * e, 12) /\ e * EvidenceWeight \in Nat
    BY DEF Near, EvidenceWeight
  <1>3. ASSUME NEW s \in 0 .. 3
        PROVE  Near(s * SignalWeight, 15 * s, 12) /\ s * SignalWeight \in Nat
    BY DEF Near, SignalWeight
  <1>4. ASSUME NEW k \in DOMAIN KindWeight
        PROVE  Near(KindWeight[k], KindHundredths[k], 4) /\ KindWeight[k] \in Nat
    <2>1. k \in {"Failure", "Preference", "Playbook", "State", "Fact"}
      BY DEF KindWeight
    <2>2. QED
      BY <2>1 DEF Near, KindWeight, KindHundredths
  <1>5. QED
    BY <1>1, <1>2, <1>3, <1>4

\* The score of e events and s signals in hundredths.
HundredthsOf(i, e, k, s) ==
  (IF i = Half THEN 50 ELSE 0) + 35 * e + KindHundredths[k] + 15 * s

\* The rounded score is within 108 units of the score as it is written.
LEMMA ScoreOfIsNear ==
  ASSUME NEW i \in Estimated, NEW e \in 0 .. 3, NEW k \in DOMAIN KindWeight, NEW s \in 0 .. 3
  PROVE  Near(ScoreOf(i, e, k, s), HundredthsOf(i, e, k, s), 108)
  <1> DEFINE ih == IF i = Half THEN 50 ELSE 0
             xe == e * EvidenceWeight
             he == 35 * e
             xk == KindWeight[k]
             hk == KindHundredths[k]
             xs == s * SignalWeight
             hs == 15 * s
             x1 == F32(xe)
             x2 == F32(i + x1)
             x3 == F32(x2 + xk)
             x4 == F32(xs)
             x5 == F32(x3 + x4)
  <1>1. 35 * e \in Int /\ 15 * s \in Int /\ ih \in Int /\ KindHundredths[k] \in Int
    <2>1. k \in {"Failure", "Preference", "Playbook", "State", "Fact"}
      BY DEF KindWeight
    <2>2. KindHundredths[k] \in Int
      BY <2>1 DEF KindHundredths
    <2>3. QED
      BY <2>2
  <1>2. ScoreOf(i, e, k, s) = x5 /\ HundredthsOf(i, e, k, s) = ((ih + he) + hk) + hs
    BY DEF ScoreOf, HundredthsOf
  <1>4. Near(i, ih, 0) /\ i \in Nat
    BY NearParts, ReflectingConstants DEF Half
  <1>5. /\ Near(xe, he, 12) /\ xe \in Nat /\ he \in Int
        /\ Near(xk, hk, 4) /\ xk \in Nat /\ hk \in Int
        /\ Near(xs, hs, 12) /\ xs \in Nat /\ hs \in Int
    BY <1>1, NearParts
  <1> HIDE DEF ih, xe, he, xk, hk, xs, hs
  <1>6. Near(x1, he, 28) /\ x1 \in Nat
    BY <1>5, NearRounded
  <1> HIDE DEF x1
  <1>7. Near(i + x1, ih + he, 28)
    BY <1>4, <1>6, NearSum
  <1>8. Near(x2, ih + he, 44) /\ x2 \in Nat
    BY <1>1, <1>4, <1>5, <1>6, <1>7, NearRounded
  <1> HIDE DEF x2
  <1>9. Near(x2 + xk, (ih + he) + hk, 48)
    BY <1>5, <1>8, NearSum
  <1>10. Near(x3, (ih + he) + hk, 64) /\ x3 \in Nat
    BY <1>1, <1>5, <1>8, <1>9, NearRounded
  <1> HIDE DEF x3
  <1>11. Near(x4, hs, 28) /\ x4 \in Nat
    <2>1. Near(F32(xs), hs, 12 + 16) /\ F32(xs) \in Nat
      BY <1>5, NearRounded
    <2>2. QED
      BY <2>1
  <1> HIDE DEF x4
  <1>12. Near(x3 + x4, ((ih + he) + hk) + hs, 92)
    BY <1>10, <1>11, NearSum
  <1>13. Near(x5, ((ih + he) + hk) + hs, 108)
    BY <1>1, <1>5, <1>10, <1>11, <1>12, NearRounded
  <1>14. QED
    BY <1>2, <1>13

\* More evidence makes a larger score: 35 hundredths are more than rounding
\* can take away.
LEMMA ScoreOfGrows ==
  ASSUME NEW i \in Estimated, NEW e \in 0 .. 3, NEW f \in 0 .. 3, e <= f,
         NEW k \in DOMAIN KindWeight, NEW s \in 0 .. 3
  PROVE  ScoreOf(i, e, k, s) <= ScoreOf(i, f, k, s)
  <1> DEFINE x == ScoreOf(i, e, k, s)
             y == ScoreOf(i, f, k, s)
             g == HundredthsOf(i, e, k, s)
             h == HundredthsOf(i, f, k, s)
  <1>1. Near(x, g, 108) /\ Near(y, h, 108)
    BY ScoreOfIsNear
  <1>2. CASE e = f
    BY <1>1, <1>2 DEF Near
  <1>3. CASE e # f
    <2>1. e + 1 <= f
      BY <1>3
    <2>2. g + 35 <= h
      <3> DEFINE base == IF i = Half THEN 50 ELSE 0
                 kind == KindHundredths[k]
      <3>1. base \in Int /\ kind \in Int
        <4>1. k \in {"Failure", "Preference", "Playbook", "State", "Fact"}
          BY DEF KindWeight
        <4>2. QED
          BY <4>1 DEF KindHundredths
      <3>2. g = base + 35 * e + kind + 15 * s /\ h = base + 35 * f + kind + 15 * s
        BY DEF HundredthsOf
      <3> HIDE DEF base, kind, g, h
      <3>3. QED
        BY <2>1, <3>1, <3>2
    <2> HIDE DEF x, y, g, h
    <2>3. x <= y
      BY <1>1, <2>2 DEF Near
    <2>4. QED
      BY <2>3 DEF x, y
  <1>4. QED
    BY <1>2, <1>3

\* What every state has.
ReflInv ==
  /\ algorithm \in {"noop", "deterministic", "rule"}
  /\ target \in [kind : DOMAIN KindWeight, signals : 0 .. 4, blank : BOOLEAN]
  /\ importance \in Estimated
  /\ active \in BOOLEAN
  /\ events \in Seq(BOOLEAN) /\ Len(events) <= Capacity

LEMMA ReflInvInit ==
  ASSUME ReflInit
  PROVE  ReflInv
  BY ReflectingConstants DEF ReflInit, ReflInv

LEMMA ReflInvStep ==
  ASSUME ReflInv, [ReflNext]_reflVars
  PROVE  ReflInv'
  <1>1. ASSUME NEW names \in BOOLEAN, Record(names)
        PROVE  ReflInv'
    <2> DEFINE all == Append(events, names)
    <2>1. all \in Seq(BOOLEAN) /\ Len(all) = Len(events) + 1 /\ all # <<>>
      BY DEF ReflInv
    <2>2. Tail(all) \in Seq(BOOLEAN) /\ Len(Tail(all)) = Len(events)
      BY <2>1 DEF ReflInv
    <2>3. events' = IF Len(all) > Capacity THEN Tail(all) ELSE all
      BY <1>1 DEF Record
    <2> HIDE DEF all
    <2>4. events' \in Seq(BOOLEAN) /\ Len(events') <= Capacity
      <3>1. Len(events) \in Nat /\ Len(events) <= Capacity /\ Capacity \in Nat
        BY ReflectingConstants DEF ReflInv
      <3>2. CASE Len(all) > Capacity
        BY <2>2, <2>3, <3>1, <3>2
      <3>3. CASE ~(Len(all) > Capacity)
        BY <2>1, <2>3, <3>1, <3>3
      <3>4. QED
        BY <3>2, <3>3
    <2>5. QED
      BY <1>1, <2>4 DEF Record, ReflInv
  <1>2. QED
    BY <1>1
    DEF ReflNext, reflVars, ReflInv, Reflect, ExecuteEdge, Invalidate, Associate

\* The window is the end of the events that are kept.
LEMMA WindowFacts ==
  ASSUME ReflInv
  PROVE  /\ Window \in Seq(BOOLEAN) /\ Len(Window) \in Nat
         /\ Len(Window) = IF RecentLimit <= Len(events) THEN RecentLimit ELSE Len(events)
         /\ \A i \in 1 .. Len(Window) : Window[i] = events[Len(events) - Len(Window) + i]
  <1> DEFINE l == Len(events)
             n == IF RecentLimit <= l THEN RecentLimit ELSE l
             w == SubSeq(events, l - n + 1, l)
  <1>1. l \in Nat /\ n \in Nat /\ n <= l /\ events \in Seq(BOOLEAN)
    BY ReflectingConstants, LenProperties DEF ReflInv
  <1>2. Window = w
    BY DEF Window
  <1> HIDE DEF n, l
  <1>3. \A i \in l - n + 1 .. l : i \in 1 .. Len(events)
    BY <1>1 DEF l
  <1>4. w \in Seq(BOOLEAN) /\ Len(w) = n /\ \A i \in 1 .. n : w[i] = events[l - n + i]
    BY <1>1, <1>3
  <1>5. QED
    BY <1>1, <1>2, <1>4 DEF n, l

LEMMA EvidenceIsNat ==
  ASSUME ReflInv
  PROVE  /\ IsFiniteSet({i \in DOMAIN Window : Window[i]})
         /\ Evidence \in Nat
  <1>1. DOMAIN Window = 1 .. Len(Window) /\ Len(Window) \in Nat
    BY WindowFacts, LenProperties
  <1>2. IsFiniteSet(1 .. Len(Window))
    BY <1>1, FS_Interval
  <1>3. IsFiniteSet({i \in DOMAIN Window : Window[i]})
    BY <1>1, <1>2, FS_Subset
  <1>4. QED
    BY <1>3, FS_CardinalityType DEF Evidence

\* What is in the table of scores.
LEMMA ScoresHold ==
  ASSUME NEW i \in Estimated, NEW e \in 0 .. 3, NEW k \in DOMAIN KindWeight, NEW s \in 0 .. 3
  PROVE  RuleScores[i][e][k][s] = ScoreOf(i, e, k, s)
  BY DEF RuleScores

\* The arguments of the score.
LEMMA ScoreArguments ==
  ASSUME ReflInv
  PROVE  LET e == Capped(Evidence)
             s == Capped(target.signals)
         IN  /\ e \in 0 .. 3 /\ s \in 0 .. 3
             /\ importance \in Estimated /\ target.kind \in DOMAIN KindWeight
             /\ RuleScore(Evidence) = ScoreOf(importance, e, target.kind, s)
             /\ Hundredths = HundredthsOf(importance, e, target.kind, s)
  <1>1. Capped(Evidence) \in 0 .. 3 /\ Capped(target.signals) \in 0 .. 3
    BY EvidenceIsNat DEF Capped, ReflInv
  <1>2. RuleScore(Evidence) = ScoreOf(importance, Capped(Evidence), target.kind, Capped(target.signals))
    BY <1>1, ScoresHold DEF RuleScore, ReflInv
  <1>3. Hundredths = HundredthsOf(importance, Capped(Evidence), target.kind, Capped(target.signals))
    BY DEF Hundredths, HundredthsOf, Capped, KindHundredths
  <1>4. QED
    BY <1>1, <1>2, <1>3 DEF ReflInv

\* What the algorithms answer.
LEMMA ReflectionIs ==
  ASSUME ReflInv
  PROVE  /\ algorithm = "noop" => Reflection = "skipped"
         /\ algorithm = "deterministic" => Reflection = DeterministicVerdict
         /\ algorithm = "rule" => Reflection = RuleVerdict
         /\ Inert => RuleVerdict = "skipped"
         /\ ~Inert => RuleVerdict = IF RuleScore(Evidence) >= ProduceScore THEN "produced"
                                    ELSE IF RuleScore(Evidence) >= CandidateScore THEN "candidate"
                                    ELSE "skipped"
  <1>1. /\ algorithm = "noop" => Reflection = "skipped"
        /\ algorithm = "deterministic" => Reflection = DeterministicVerdict
        /\ algorithm = "rule" => Reflection = RuleVerdict
    BY DEF Reflection
  <1>2. QED
    BY <1>1 DEF RuleVerdict

\* The rule of the algorithm applies its thresholds to the score of f32 as
\* if it were exact, except where it is a tie.
LEMMA TiesOnly ==
  ASSUME ReflInv
  PROVE  RoundingOnlyAtTies
  <1> SUFFICES ASSUME algorithm = "rule", ~Inert
               PROVE  /\ Hundredths # 150 => (Reflection = "produced") = (Hundredths > 150)
                      /\ Hundredths # 80 => (Reflection = "skipped") = (Hundredths < 80)
    BY DEF RoundingOnlyAtTies
  <1> DEFINE x == RuleScore(Evidence)
             h == Hundredths
  <1>1. Near(x, h, 108)
    BY ScoreArguments, ScoreOfIsNear
  <1>2. Reflection = IF x >= ProduceScore THEN "produced"
                     ELSE IF x >= CandidateScore THEN "candidate" ELSE "skipped"
    BY ReflectionIs
  <1> HIDE DEF x, h
  <1>3. x \in Int /\ h \in Int
    BY <1>1 DEF Near
  <1>4. (h > 150 => x >= ProduceScore) /\ (h < 150 => x < ProduceScore)
    BY <1>1, <1>3 DEF Near, ProduceScore
  <1>5. (h > 80 => x >= CandidateScore) /\ (h < 80 => x < CandidateScore)
    BY <1>1, <1>3 DEF Near, CandidateScore
  <1>6. ProduceScore >= CandidateScore /\ ProduceScore \in Int /\ CandidateScore \in Int
    BY DEF ProduceScore, CandidateScore
  <1>7. QED
    BY <1>2, <1>3, <1>4, <1>5, <1>6 DEF h

\* Rounding to f32 decides a rule-based reflection at a threshold only, for
\* every target and every history.
THEOREM ReflectingRoundingOnlyAtTies == ReflSpec => []RoundingOnlyAtTies
  <1>1. ReflInit => ReflInv
    BY ReflInvInit
  <1>2. ReflInv /\ [ReflNext]_reflVars => ReflInv'
    BY ReflInvStep
  <1>3. ReflInv => RoundingOnlyAtTies
    BY TiesOnly
  <1>4. QED
    BY <1>1, <1>2, <1>3, PTL DEF ReflSpec

-----------------------------------------------------------------------------
(* What an event does to the verdict.                                      *)

\* At least as much evidence never makes a weaker verdict.
LEMMA StrengthGrows ==
  ASSUME ReflInv, ReflInv', UNCHANGED <<algorithm, target, importance, active>>,
         Evidence <= Evidence'
  PROVE  /\ Strength(Reflection) \in 0 .. 2 /\ Strength(Reflection') \in 0 .. 2
         /\ Strength(Reflection) <= Strength(Reflection')
  <1> DEFINE x == RuleScore(Evidence)
             y == RuleScore(Evidence)'
  <1>1. Inert' = Inert
    BY DEF Inert
  <1>2. x \in Int /\ y \in Int /\ x <= y
    <2> DEFINE e == Capped(Evidence)
               f == Capped(Evidence')
               s == Capped(target.signals)
    <2>1. /\ e \in 0 .. 3 /\ s \in 0 .. 3
          /\ importance \in Estimated /\ target.kind \in DOMAIN KindWeight
          /\ x = ScoreOf(importance, e, target.kind, s)
      BY ScoreArguments
    <2>2. (ReflInv => Evidence \in Nat)'
      BY EvidenceIsNat, PTL
    <2>3. f \in 0 .. 3 /\ e <= f
      BY <2>2, EvidenceIsNat DEF Capped
    <2>4. y = ScoreOf(importance, f, target.kind, s)
      BY <2>1, <2>3, ScoresHold DEF RuleScore
    <2> HIDE DEF x, y, e, f, s
    <2>5. Near(ScoreOf(importance, e, target.kind, s), HundredthsOf(importance, e, target.kind, s), 108)
      BY <2>1, ScoreOfIsNear
    <2>6. Near(ScoreOf(importance, f, target.kind, s), HundredthsOf(importance, f, target.kind, s), 108)
      BY <2>1, <2>3, ScoreOfIsNear
    <2>7. ScoreOf(importance, e, target.kind, s) <= ScoreOf(importance, f, target.kind, s)
      BY <2>1, <2>3, ScoreOfGrows
    <2>8. QED
      BY <2>1, <2>4, <2>5, <2>6, <2>7 DEF Near
  <1>3. CASE algorithm # "rule"
    <2>1. Reflection' = Reflection
      BY <1>1, <1>3 DEF Reflection, DeterministicVerdict, ReflInv
    <2>2. Strength(Reflection) \in 0 .. 2
      BY <1>3 DEF Reflection, DeterministicVerdict, ReflInv, Strength
    <2>3. QED
      BY <2>1, <2>2
  <1>4. CASE algorithm = "rule"
    <2>1. Reflection = RuleVerdict /\ Reflection' = RuleVerdict'
      BY <1>4 DEF Reflection
    <2>2. CASE Inert
      BY <1>1, <2>1, <2>2 DEF RuleVerdict, Strength
    <2>3. CASE ~Inert
      <3>1. RuleVerdict = IF x >= ProduceScore THEN "produced"
                          ELSE IF x >= CandidateScore THEN "candidate" ELSE "skipped"
        BY <2>3 DEF RuleVerdict
      <3>2. RuleVerdict' = IF y >= ProduceScore THEN "produced"
                           ELSE IF y >= CandidateScore THEN "candidate" ELSE "skipped"
        BY <1>1, <2>3 DEF RuleVerdict
      <3>3. ProduceScore \in Int /\ CandidateScore \in Int /\ CandidateScore <= ProduceScore
        BY DEF ProduceScore, CandidateScore
      <3> HIDE DEF x, y
      <3>4. QED
        BY <1>2, <2>1, <3>1, <3>2, <3>3 DEF Strength
    <2>4. QED
      BY <2>2, <2>3
  <1>5. QED
    BY <1>3, <1>4

\* The places of a list that hold TRUE.
Marks(w) == {i \in DOMAIN w : w[i]}

\* A window that grows, or moves on by one.
Longer(w, v) == Len(v) = Len(w) + 1 /\ \A i \in 1 .. Len(w) : v[i] = w[i]
MovedOn(w, v, names) ==
  /\ Len(v) = Len(w) /\ (Len(w) > 0 => v[Len(w)] = names)
  /\ \A i \in 1 .. Len(w) - 1 : v[i] = w[i + 1]

LEMMA MarksGrow ==
  ASSUME NEW w \in Seq(BOOLEAN), NEW v \in Seq(BOOLEAN), NEW names \in BOOLEAN,
         Longer(w, v) \/ (MovedOn(w, v, names) /\ ~(Len(w) > 0 /\ w[1] /\ ~names))
  PROVE  Cardinality(Marks(w)) <= Cardinality(Marks(v))
  <1> DEFINE n == Len(w)
             m(i) == IF Longer(w, v) THEN i ELSE IF i = 1 THEN n ELSE i - 1
             f == [i \in Marks(w) |-> m(i)]
  <1>1. n \in Nat /\ Len(v) \in Nat /\ DOMAIN w = 1 .. n /\ DOMAIN v = 1 .. Len(v)
    BY LenProperties
  <1>2. \A i \in Marks(w) : m(i) \in Marks(v)
    <2> TAKE i \in Marks(w)
    <2>1. i \in 1 .. n /\ w[i]
      BY <1>1 DEF Marks
    <2>2. CASE Longer(w, v)
      <3>1. i \in DOMAIN v /\ v[i] = w[i]
        <4>1. Len(v) = n + 1 /\ \A j \in 1 .. n : v[j] = w[j]
          BY <2>2 DEF Longer
        <4>2. v[i] = w[i]
          BY <2>1, <4>1, Zenon
        <4>3. i \in 1 .. n /\ Len(v) = n + 1
          BY <2>1, <4>1
        <4>4. i \in DOMAIN v
          BY <1>1, <4>3
        <4>5. QED
          BY <4>2, <4>4
      <3>2. QED
        BY <2>1, <2>2, <3>1 DEF Marks
    <2>3. CASE ~Longer(w, v) /\ i = 1
      <3>1. n \in DOMAIN v /\ v[n] = names
        <4>1. i \in 1 .. n
          BY <2>1
        <4>2. n > 0
          BY <1>1, <4>1
        <4>3. Len(v) = n /\ v[n] = names
          BY <2>3, <4>2, Zenon DEF MovedOn
        <4>4. n \in DOMAIN v
          BY <1>1, <4>2, <4>3
        <4>5. QED
          BY <4>3, <4>4
      <3>2. names
        BY <1>1, <2>1, <2>3
      <3>3. QED
        BY <2>3, <3>1, <3>2 DEF Marks
    <2>4. CASE ~Longer(w, v) /\ i # 1
      <3>1. i - 1 \in 1 .. n - 1 /\ (i - 1) + 1 = i
        BY <1>1, <2>1, <2>4
      <3>2. i - 1 \in DOMAIN v /\ v[i - 1] = w[i]
        <4>1. /\ Len(v) = n
              /\ \A j \in 1 .. n - 1 : v[j] = w[j + 1]
          BY <2>4 DEF MovedOn
        <4>2. QED
          BY <1>1, <3>1, <4>1
      <3>3. QED
        BY <2>1, <2>4, <3>2 DEF Marks
    <2>5. QED
      BY <2>2, <2>3, <2>4
  <1>3. \A i, j \in Marks(w) : m(i) = m(j) => i = j
    BY <1>1 DEF Marks
  <1>4. IsFiniteSet(Marks(v))
    <2>1. IsFiniteSet(1 .. Len(v))
      BY <1>1, FS_Interval
    <2>2. QED
      BY <1>1, <2>1, FS_Subset DEF Marks
  <1> HIDE DEF m
  <1>5. f \in Injection(Marks(w), Marks(v))
    BY <1>2, <1>3 DEF Injection, IsInjective
  <1>6. QED
    BY <1>4, <1>5, FS_Injection

\* An event changes the window in one of these two ways.
LEMMA WindowStep ==
  ASSUME ReflInv, ReflInv', NEW names \in BOOLEAN, Record(names)
  PROVE  /\ Longer(Window, Window') \/ MovedOn(Window, Window', names)
         /\ Len(Window) > 0 => events'[Len(events')] = names
  <1> DEFINE all == Append(events, names)
             l == Len(events)
             n == Len(Window)
             k == Len(Window')
  <1>1. /\ n = IF RecentLimit <= l THEN RecentLimit ELSE l
        /\ \A i \in 1 .. n : Window[i] = events[l - n + i]
    BY WindowFacts
  <1>2. (ReflInv => /\ Len(Window) = IF RecentLimit <= Len(events) THEN RecentLimit ELSE Len(events)
                    /\ \A i \in 1 .. Len(Window) : Window[i] = events[Len(events) - Len(Window) + i])'
    BY WindowFacts, PTL
  <1>3. /\ k = IF RecentLimit <= Len(events') THEN RecentLimit ELSE Len(events')
        /\ \A i \in 1 .. k : Window'[i] = events'[Len(events') - k + i]
    BY <1>2
  <1>4. /\ events \in Seq(BOOLEAN) /\ l \in Nat /\ l <= Capacity
        /\ RecentLimit \in Nat /\ Capacity \in Nat
    BY ReflectingConstants DEF ReflInv
  <1>5. /\ all \in Seq(BOOLEAN) /\ Len(all) = l + 1 /\ all[l + 1] = names
        /\ \A i \in 1 .. l : all[i] = events[i]
    BY <1>4
  <1> HIDE DEF all
  <1>6. CASE events' = all
    <2>1. Len(events') = l + 1 /\ events'[Len(events')] = names
      BY <1>5, <1>6
    <2>2. CASE RecentLimit <= l
      <3>1. n = RecentLimit /\ k = RecentLimit
        BY <1>1, <1>3, <1>4, <2>1, <2>2
      <3>2. ASSUME NEW i \in 1 .. n - 1 PROVE Window'[i] = Window[i + 1]
        <4>1. i \in 1 .. k /\ i + 1 \in 1 .. n /\ l + 1 - k + i \in 1 .. l
              /\ l + 1 - k + i = l - n + (i + 1)
          BY <1>4, <2>2, <3>1
        <4>2. Window'[i] = events'[l + 1 - k + i]
          BY <1>3, <2>1, <4>1
        <4>3. Window[i + 1] = events[l - n + (i + 1)]
          BY <1>1, <4>1
        <4>4. events'[l + 1 - k + i] = events[l + 1 - k + i]
          BY <1>5, <1>6, <4>1
        <4>5. QED
          BY <4>1, <4>2, <4>3, <4>4
      <3>3. k > 0 => Window'[k] = names
        <4>1. k > 0 => k \in 1 .. k /\ l + 1 - k + k = l + 1
          BY <1>4, <3>1
        <4>2. QED
          BY <1>3, <2>1, <4>1
      <3>4. QED
        BY <2>1, <3>1, <3>2, <3>3 DEF MovedOn
    <2>3. CASE ~(RecentLimit <= l)
      <3>1. n = l /\ k = l + 1
        BY <1>1, <1>3, <1>4, <2>1, <2>3
      <3>2. ASSUME NEW i \in 1 .. n PROVE Window'[i] = Window[i]
        <4>1. i \in 1 .. k /\ l + 1 - k + i = i /\ l - n + i = i /\ i \in 1 .. l
          BY <1>4, <3>1
        <4>2. Window'[i] = events'[l + 1 - k + i] /\ Window[i] = events[l - n + i]
          BY <1>1, <1>3, <2>1, <4>1
        <4>3. events'[i] = events[i]
          BY <1>5, <1>6, <4>1
        <4>4. QED
          BY <4>1, <4>2, <4>3
      <3>3. QED
        BY <2>1, <3>1, <3>2 DEF Longer
    <2>4. QED
      BY <2>2, <2>3
  <1>7. CASE events' = Tail(all)
    <2>1. /\ Len(events') = l
          /\ \A i \in 1 .. l : events'[i] = all[i + 1]
      BY <1>4, <1>5, <1>7
    <2>2. n = k /\ n <= l /\ n \in Nat
      BY <1>1, <1>3, <1>4, <2>1
    <2>3. ASSUME NEW i \in 1 .. n - 1 PROVE Window'[i] = Window[i + 1]
      <3>1. i \in 1 .. k /\ i + 1 \in 1 .. n /\ l - k + i \in 1 .. l /\ (l - k + i) + 1 \in 1 .. l
            /\ (l - k + i) + 1 = l - n + (i + 1)
        BY <1>4, <2>2
      <3>2. Window'[i] = events'[l - k + i] /\ Window[i + 1] = events[l - n + (i + 1)]
        BY <1>1, <1>3, <2>1, <3>1
      <3>3. events'[l - k + i] = events[(l - k + i) + 1]
        BY <1>5, <2>1, <3>1
      <3>4. QED
        BY <3>1, <3>2, <3>3
    <2>4. l > 0 => events'[l] = names
      BY <1>4, <1>5, <2>1
    <2>5. k > 0 => Window'[k] = names
      <3>1. k > 0 => k \in 1 .. k /\ l - k + k = l /\ l > 0
        BY <1>4, <2>2
      <3>2. QED
        BY <1>3, <2>1, <2>4, <3>1
    <2>6. n > 0 => l > 0
      BY <1>4, <2>2
    <2>7. QED
      BY <2>1, <2>2, <2>3, <2>4, <2>5, <2>6 DEF MovedOn
  <1>8. QED
    BY <1>6, <1>7 DEF Record, all

\* Another event about the target never lowers the verdict of
\* RuleBasedReflectionAlgorithm::reflect, although the stream may drop an
\* older one for it, whatever the capacity of the stream and the limit.
THEOREM ReflectingNamingNeverHurts == ReflSpec => NamingNeverHurts
  <1>1. ReflInit => ReflInv
    BY ReflInvInit
  <1>2. ReflInv /\ [ReflNext]_reflVars => ReflInv'
    BY ReflInvStep
  <1>3. ReflInv /\ ReflInv' /\ [ReflNext]_reflVars =>
          [(active = active' /\ Strength(Reflection') < Strength(Reflection)) =>
             Window # <<>> /\ Window[1] /\ ~events'[Len(events')]]_reflVars
    <2> SUFFICES ASSUME ReflInv, ReflInv', ReflNext, active' = active,
                        Strength(Reflection') < Strength(Reflection)
                 PROVE  Window # <<>> /\ Window[1] /\ ~events'[Len(events')]
      BY DEF reflVars
    <2>2. UNCHANGED <<algorithm, target, importance, active>>
      BY DEF ReflNext, Record, Reflect, ExecuteEdge, Invalidate, Associate
    <2>3. ~(Evidence <= Evidence')
      BY <2>2, StrengthGrows
    <2>4. Evidence = Cardinality(Marks(Window)) /\ Evidence' = Cardinality(Marks(Window'))
      BY DEF Evidence, Marks
    <2>5. Evidence \in Nat
      BY EvidenceIsNat
    <2>6. CASE UNCHANGED events
      <3>1. Evidence' = Evidence
        BY <2>6 DEF Evidence, Window
      <3>2. QED
        BY <2>3, <2>5, <3>1
    <2>7. ASSUME NEW names \in BOOLEAN, Record(names)
          PROVE  Window # <<>> /\ Window[1] /\ ~events'[Len(events')]
      <3>1. /\ Longer(Window, Window') \/ MovedOn(Window, Window', names)
            /\ Len(Window) > 0 => events'[Len(events')] = names
        BY <2>7, WindowStep
      <3>2. (ReflInv => Window \in Seq(BOOLEAN))'
        BY WindowFacts, PTL
      <3>3. Window \in Seq(BOOLEAN) /\ Window' \in Seq(BOOLEAN)
        BY <3>2, WindowFacts
      <3>4. Len(Window) > 0 /\ Window[1] /\ ~names
        BY <2>3, <2>4, <3>1, <3>3, MarksGrow
      <3>5. QED
        BY <3>1, <3>3, <3>4
    <2>8. QED
      BY <2>6, <2>7 DEF ReflNext, Reflect, ExecuteEdge, Invalidate, Associate
  <1>4. QED
    BY <1>1, <1>2, <1>3, PTL DEF ReflSpec, NamingNeverHurts
=============================================================================
