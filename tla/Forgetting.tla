------------------------------ MODULE Forgetting -----------------------------
(***************************************************************************)
(* RuleBasedForgetAlgorithm (crates/core/src/adaptive/forget.rs) at work:  *)
(* a memory is read, judged as of the time of the reading, and archived    *)
(* later, when the plan made of the verdict is executed.  Meanwhile other  *)
(* processes recall, rewrite or invalidate the same memory.                *)
(*                                                                         *)
(* Importance and confidence are in tenths, scores in units of 0.005, and  *)
(* time in days or any longer unit.  Content is one of its qualities.      *)
(***************************************************************************)
EXTENDS Integers, FiniteSetsExt

CONSTANTS
  Importances,       \* bound: importances of memories
  Confidences,       \* bound: confidences of memories
  Estimates,         \* bound: what the ImportanceEstimator may answer
  Recent,            \* RECENT_AFTER_SECONDS
  Stale,             \* STALE_AFTER_SECONDS
  ForgetGiven, CandidateGiven, \* thresholds given to the constructor
  MaxTime            \* bound: the clock

ASSUME ForgettingConstants ==
  /\ Importances \cup Confidences \cup Estimates \subseteq 0 .. 10
  /\ Recent \in Nat /\ Stale \in Nat
  /\ ForgetGiven \in Nat /\ CandidateGiven \in Nat /\ MaxTime \in Nat

VARIABLES
  memory,   \* the row of the memory
  now,      \* the clock
  pc,       \* "idle", "judge" after the memory was read, or "execute"
  copy,     \* ForgetTarget: the memory as it was read
  asOf      \* AlgorithmContext::now

\* History, not part of the program: what the last executed plan archived.
VARIABLE archived

forgetVars == <<memory, now, pc, copy, asOf, archived>>

Never == -1   \* NULL in a column of times

Qualities == {"empty", "low", "good"}

Memories ==
  [importance : Importances, confidence : Confidences, estimate : Estimates,
   content : Qualities, superseded : BOOLEAN, accesses : 0 .. 1,
   validFrom : {0}, validTo : Never .. MaxTime, lastAccess : Never .. MaxTime]

\* A memory as it was written; no operation of the store sets superseded_by,
\* but it is a column that the algorithm reads.
ForgetInit ==
  /\ memory \in {m \in Memories : m.accesses = 0 /\ m.validTo = Never /\ m.lastAccess = Never}
  /\ now = 0
  /\ pc = "idle" /\ copy = memory /\ asOf = 0
  /\ archived = FALSE

-----------------------------------------------------------------------------
(* The verdict on a memory m at time t.                                    *)

ForgetThreshold    == Max({ForgetGiven, CandidateGiven})
CandidateThreshold == Min({ForgetGiven, CandidateGiven})

\* is_stale.
IsStale(m, t) == t - (IF m.lastAccess = Never THEN m.validFrom ELSE m.lastAccess) >= Stale

\* Mutant: popular memories are penalized, not unused ones.
ForgetScoreUsed(m, t) ==
    10 * (10 - Max({m.importance, m.estimate})) + 7 * (10 - m.confidence)
  + (IF m.accesses > 0 THEN 40 ELSE 0)
  + (IF IsStale(m, t) THEN 80 ELSE 0) + (IF m.content = "good" THEN 0 ELSE 70)

\* forget_score.
ForgetScore(m, t) ==
    10 * (10 - Max({m.importance, m.estimate})) + 7 * (10 - m.confidence)
  + (IF m.accesses = 0 THEN 40 ELSE 0)
  + (IF IsStale(m, t) THEN 80 ELSE 0) + (IF m.content = "good" THEN 0 ELSE 70)

\* The protection of recent accesses.
RecentlyAccessed(m, t) == m.lastAccess # Never /\ t - m.lastAccess <= Recent

HighImportance(m) == m.estimate >= 8 \/ m.importance >= 8

Output(kind, reason) == [kind |-> kind, reason |-> reason]

\* forget_reason.
Reason(m) == IF m.content = "good" THEN "LowUseLowImportance" ELSE "LowQualityStale"

\* Mutant: the rules for expired, superseded and empty memories come first.
VerdictRulesFirst(m, t) ==
  IF m.validTo # Never /\ m.validTo <= t THEN Output("Forget", "Expired")
  ELSE IF m.superseded THEN Output("Forget", "Superseded")
  ELSE IF m.content = "empty" THEN Output("Forget", "EmptyContent")
  ELSE IF RecentlyAccessed(m, t) THEN Output("Skipped", "ProtectedRecentAccess")
  ELSE IF HighImportance(m) THEN Output("Skipped", "HighImportance")
  ELSE IF ForgetScore(m, t) >= ForgetThreshold THEN Output("Forget", Reason(m))
  ELSE IF ForgetScore(m, t) >= CandidateThreshold THEN Output("Candidate", Reason(m))
  ELSE Output("Skipped", "InsufficientSignal")

\* RuleBasedForgetAlgorithm::forget.
Verdict(m, t) ==
  IF RecentlyAccessed(m, t) THEN Output("Skipped", "ProtectedRecentAccess")
  ELSE IF m.validTo # Never /\ m.validTo <= t THEN Output("Forget", "Expired")
  ELSE IF m.superseded THEN Output("Forget", "Superseded")
  ELSE IF m.content = "empty" THEN Output("Forget", "EmptyContent")
  ELSE IF HighImportance(m) THEN Output("Skipped", "HighImportance")
  ELSE IF ForgetScore(m, t) >= ForgetThreshold THEN Output("Forget", Reason(m))
  ELSE IF ForgetScore(m, t) >= CandidateThreshold THEN Output("Candidate", Reason(m))
  ELSE Output("Skipped", "InsufficientSignal")

-----------------------------------------------------------------------------
(* The process that forgets.                                               *)

\* It reads the memory and notes the time.
Read ==
  /\ pc = "idle"
  /\ pc' = "judge"
  /\ copy' = memory /\ asOf' = now
  /\ UNCHANGED <<memory, now, archived>>

\* to_store_mutation_plan: only Forget has a plan.
Judge ==
  /\ pc = "judge"
  /\ pc' = IF Verdict(copy, asOf).kind = "Forget" THEN "execute" ELSE "idle"
  /\ UNCHANGED <<memory, now, copy, asOf, archived>>

\* ArchiveMemory, which the store refuses when the memory is invalid.
Archive ==
  /\ pc = "execute"
  /\ pc' = "idle"
  /\ memory' = IF memory.validTo = Never THEN [memory EXCEPT !.validTo = now] ELSE memory
  /\ archived' = (archived \/ memory.validTo = Never)
  /\ UNCHANGED <<now, copy, asOf>>

(* Others.                                                                 *)

Tick == /\ now < MaxTime /\ now' = now + 1
        /\ UNCHANGED <<memory, pc, copy, asOf, archived>>

\* record_access, which also stamps invalid memories.
Touched(m, t) == [m EXCEPT !.accesses = 1, !.lastAccess = t]

\* A recall hands the memory out.
Access ==
  /\ memory' = Touched(memory, now)
  /\ UNCHANGED <<now, pc, copy, asOf, archived>>

\* update_content and invalidate by another process.
Change ==
  /\ memory.validTo = Never
  /\ \/ \E c \in Qualities : memory' = [memory EXCEPT !.content = c]
     \/ memory' = [memory EXCEPT !.validTo = now]
  /\ UNCHANGED <<now, pc, copy, asOf, archived>>

ForgetNext == Read \/ Judge \/ Archive \/ Tick \/ Access \/ Change

ForgetSpec == ForgetInit /\ [][ForgetNext]_forgetVars

-----------------------------------------------------------------------------
(* Properties.                                                             *)

ForgetTypeOK ==
  /\ memory \in Memories /\ copy \in Memories
  /\ now \in 0 .. MaxTime /\ asOf \in 0 .. now
  /\ pc \in {"idle", "judge", "execute"}
  /\ archived => memory.validTo # Never
  /\ pc = "execute" =>
       \/ ForgetScore(copy, asOf) >= ForgetThreshold
       \/ copy.superseded \/ copy.content = "empty" \/ copy.validTo # Never

Severity(m, t) ==
  LET kind == Verdict(m, t).kind
  IN  CASE kind = "Skipped" -> 0 [] kind = "Candidate" -> 1 [] kind = "Forget" -> 2

\* Time only ripens: left alone, a memory never gets a milder verdict later
\* than it has now, through the end of the protection, the threshold of
\* staleness and everything else.
TimeOnlyRipens ==
  \A t, u \in now .. MaxTime + Stale : t <= u => Severity(memory, t) <= Severity(memory, u)

\* Use never hurts: a memory that is recalled now gets no harsher verdict at
\* any later time than it would have got otherwise.
UseNeverHurts ==
  \A t \in now .. MaxTime + Stale : Severity(Touched(memory, now), t) <= Severity(memory, t)

Rank(quality) == CASE quality = "empty" -> 0 [] quality = "low" -> 1 [] quality = "good" -> 2

\* Merit never hurts: of two memories with the same history the one that is
\* not worse in importance, confidence and content gets no harsher verdict.
MeritNeverHurts ==
  \A i \in Importances, c \in Confidences, q \in Qualities :
    i >= memory.importance /\ c >= memory.confidence /\ Rank(q) >= Rank(memory.content) =>
      Severity([memory EXCEPT !.importance = i, !.confidence = c, !.content = q], now)
        <= Severity(memory, now)

\* The five signals and the order of the rules add up to a verdict that is
\* monotone: harsher with time, milder with use and with merit.
ForgettingIsMonotone == TimeOnlyRipens /\ UseNeverHurts /\ MeritNeverHurts

\* An access protects, except in the window between reading and archiving:
\* when a memory that was accessed recently is archived nevertheless, then
\* that access is not older than the reading.
LostAccessIsInWindow ==
  [][~archived /\ archived' /\ RecentlyAccessed(memory, now) => memory.lastAccess >= asOf]_forgetVars
=============================================================================
