------------------------------- MODULE Merging -------------------------------
(***************************************************************************)
(* RuleBasedMergeAlgorithm (crates/core/src/adaptive/merge.rs) and what    *)
(* becomes of its output: consolidation plan, executed action, store       *)
(* mutations (crates/core/src/working_memory), executed one by one while   *)
(* other processes rewrite and invalidate the same memories.               *)
(*                                                                         *)
(* A text is a sequence of lines, and a line is known by its tokens and by *)
(* the signal words it contains.  Scores are in units of 1 / 10000.        *)
(***************************************************************************)
EXTENDS Subsequences, FiniteSetsExt, SequencesExt

CONSTANTS
  Line,         \* lines of text
  TokensOf,     \* the tokens of each line
  SignalsOf,    \* the signal words each line contains
  MemoryId,
  Classes,      \* bound: kinds and scopes of memories, [kind, scope]
  Texts,        \* bound: texts of memories
  Groups,       \* bound: groups of ids a caller hands in, with repetitions
  MergeThreshold, MergeCandidateThreshold, \* in this order, as the constructor leaves them
  MaxReads, MaxChanges \* bounds: merges tried, transactions of others

ASSUME MergingConstants ==
  /\ TokensOf \in [Line -> SUBSET STRING] /\ \A l \in Line : IsFiniteSet(TokensOf[l])
  /\ Texts \subseteq Seq(Line)
  /\ Groups \subseteq Seq(MemoryId)
  /\ MergeCandidateThreshold \in Nat /\ MergeThreshold \in Nat
  /\ MergeCandidateThreshold <= MergeThreshold

VARIABLES
  class, text, live, \* the memories
  group,   \* ids of the MergeTarget
  copies,    \* the memories as they were read: class, text and validity
  phase,      \* "idle", "decide" or "execute"
  plan     \* store mutations still to be executed

(* History, not part of the program.                                       *)
VARIABLES
  superseded, \* memories this plan archived
  raced,      \* memories others changed since the reading
  refused,    \* memories this plan could not update, the database being busy
  reads, changes

mergeVars ==
  <<class, text, live, group, copies, phase, plan, superseded, raced, refused, reads, changes>>

MergeInit ==
  /\ class \in [MemoryId -> Classes]
  /\ text \in [MemoryId -> Texts]
  /\ live = MemoryId
  /\ group = <<>> /\ copies = [m \in {} |-> 0] /\ phase = "idle" /\ plan = <<>>
  /\ superseded = {} /\ raced = {} /\ refused = {} /\ reads = 0 /\ changes = 0

-----------------------------------------------------------------------------
(* The decision.  S maps each id of a group to its copy.                   *)

\* tokens.
Tokens(t) == UNION {TokensOf[t[i]] : i \in DOMAIN t}

Signals(t) == UNION {SignalsOf[t[i]] : i \in DOMAIN t}

\* token_overlap: intersection over union.
TokenOverlap(t, u) ==
  IF Tokens(t) = {} \/ Tokens(u) = {} THEN 0
  ELSE (10000 * Cardinality(Tokens(t) \cap Tokens(u))) \div Cardinality(Tokens(t) \cup Tokens(u))

\* pair_score.
PairScore(m, n) ==
    (65 * TokenOverlap(m.text, n.text)) \div 100
  + (IF m.class.kind = n.class.kind THEN 1500 ELSE 0)
  + (IF m.class.scope = n.class.scope THEN 1000 ELSE 0)
  + (IF Signals(m.text) \cap Signals(n.text) # {} THEN 1000 ELSE 0)

Pairs(g) == {p \in (DOMAIN g) \X (DOMAIN g) : p[1] < p[2]}

\* Bound: what the average of a group may differ by from that of the code, which
\* adds f32 in the order of the group.  The two divisions of a pair take less
\* than 1.7 units off, and f32 sums of some hundred pairs are off by less than 0.3.
Rounding == -2 .. 2

\* Mutant: only neighbours are compared.
ReachesNeighbours(S, g, threshold) ==
  SumFunction([i \in 1 .. Len(g) - 1 |-> PairScore(S[g[i]], S[g[i + 1]])])
    >= threshold * (Len(g) - 1)

\* merge_score against a threshold: the average over all pairs.
Reaches(S, g, threshold) ==
  SumFunction([p \in Pairs(g) |-> PairScore(S[g[p[1]]], S[g[p[2]]])])
    >= threshold * Cardinality(Pairs(g))

\* RuleBasedMergeAlgorithm::merge, with an average that is off by so much.
Decision(S, g, off) ==
  IF Len(g) < 2 THEN "TooFewMemories"
  ELSE IF \E m \in Range(g) : S[m].text = <<>> THEN "EmptyContent"
  ELSE IF \E m \in Range(g) : ~S[m].valid THEN "StructurallyInert"
  ELSE IF Reaches(S, g, MergeThreshold - off) THEN "Merge"
  ELSE IF Reaches(S, g, MergeCandidateThreshold - off) THEN "Candidate"
  ELSE "LowSimilarity"

\* The texts of a group without repetitions, in the order of the group.
Distinct(S, g) ==
  LET first == {i \in DOMAIN g : \A j \in 1 .. i - 1 : S[g[j]].text # S[g[i]].text}
  IN  Picked([i \in DOMAIN g |-> S[g[i]].text], first)

\* merged_content: texts are compared as a whole, so a line may stay twice.
MergedContent(S, g) == FlattenSeq(Distinct(S, g))

UpdateMutation(m, t) == [op |-> "UpdateMemory", id |-> m, text |-> t]
ArchiveMutation(m)   == [op |-> "ArchiveMemory", id |-> m, text |-> <<>>]

\* The group without its first memory.
Others(g) == Picked(g, {i \in DOMAIN g : g[i] # g[1]})

\* Mutant: the superseded memories are archived before the update.
MergePlanArchivesFirst(S, g) ==
  [i \in DOMAIN Others(g) |-> ArchiveMutation(Others(g)[i])]
    \o <<UpdateMutation(g[1], MergedContent(S, g))>>

\* to_consolidation_plan_with_item_id, dispatch_merge and
\* dispatch_merge_lifecycle: one item that links the whole group.  The first
\* linked memory is the primary one and is archived at no other position.
MergePlan(S, g) ==
  <<UpdateMutation(g[1], MergedContent(S, g))>>
    \o [i \in DOMAIN Others(g) |-> ArchiveMutation(Others(g)[i])]

-----------------------------------------------------------------------------
(* The process that merges.                                                *)

\* It reads a group of memories, in one query.
ReadGroup ==
  /\ phase = "idle" /\ reads < MaxReads
  /\ reads' = reads + 1
  /\ \E g \in Groups :
       /\ group' = g
       /\ copies' = [m \in Range(g) |-> [class |-> class[m], text |-> text[m], valid |-> m \in live]]
  /\ phase' = "decide" /\ plan' = <<>>
  /\ superseded' = {} /\ raced' = {} /\ refused' = {}
  /\ UNCHANGED <<class, text, live, changes>>

\* Only the output Merge has a plan.
Decide ==
  /\ phase = "decide"
  /\ \E off \in Rounding :
       IF Decision(copies, group, off) = "Merge"
       THEN plan' = MergePlan(copies, group) /\ phase' = "execute"
       ELSE plan' = <<>> /\ phase' = "idle"
  /\ UNCHANGED <<class, text, live, group, copies, superseded, raced, refused, reads, changes>>

\* execute_mutation: what the store refuses, since the memory is not live, is
\* skipped, and so is what fails, since another process is writing.  In either
\* case the rest goes on.
ExecuteMerge ==
  /\ phase = "execute"
  /\ LET mut == Head(plan) IN
       \/ /\ text' = IF mut.op = "UpdateMemory" /\ mut.id \in live
                     THEN [text EXCEPT ![mut.id] = mut.text] ELSE text
          /\ live' = IF mut.op = "ArchiveMemory" THEN live \ {mut.id} ELSE live
          /\ superseded' = superseded \cup (live \ live')
          /\ UNCHANGED <<refused, changes>>
       \/ /\ changes < MaxChanges /\ changes' = changes + 1
          /\ refused' = IF mut.op = "UpdateMemory" THEN refused \cup {mut.id} ELSE refused
          /\ UNCHANGED <<text, live, superseded>>
  /\ plan' = Tail(plan)
  /\ phase' = IF Len(plan) = 1 THEN "idle" ELSE "execute"
  /\ UNCHANGED <<class, group, copies, raced, reads>>

\* The process dies between two mutations.
CrashMerge ==
  /\ phase = "execute"
  /\ phase' = "idle" /\ plan' = <<>>
  /\ UNCHANGED <<class, text, live, group, copies, superseded, raced, refused, reads, changes>>

\* update_content and invalidate by another process.
OthersWhileMerging ==
  /\ changes < MaxChanges /\ changes' = changes + 1
  /\ \E m \in live : /\ raced' = raced \cup {m}
                     /\ \/ live' = live \ {m} /\ UNCHANGED text
                        \/ \E t \in Texts : text' = [text EXCEPT ![m] = t] /\ UNCHANGED live
  /\ UNCHANGED <<class, group, copies, phase, plan, superseded, refused, reads>>

MergeNext == ReadGroup \/ Decide \/ ExecuteMerge \/ CrashMerge \/ OthersWhileMerging

MergeSpec == MergeInit /\ [][MergeNext]_mergeVars

-----------------------------------------------------------------------------
(* Properties.                                                             *)

Lines(t) == Range(t)

\* What the memories said that a merge has archived is said by its primary
\* one from the moment each of them is gone, whether the plan is finished or
\* was cut short by a crash.  Two things break it, and no other: a member that
\* others changed after the reading, and an update of the primary memory that
\* failed because the database was busy.  The other members are archived
\* nevertheless.
MergedTextSurvives ==
  (raced \cup refused) \cap Range(group) = {} =>
    \A m \in superseded : group[1] \in live /\ Lines(copies[m].text) \subseteq Lines(text[group[1]])

\* What the place i of a group has in common with the others.
PairsWith(g, i) == {p \in Pairs(g) : i \in {p[1], p[2]}}

Likeness(S, g, i) == SumFunction([p \in PairsWith(g, i) |-> PairScore(S[g[p[1]]], S[g[p[2]]])])

\* The average lets a group carry along a member that is unlike all others,
\* but only so far: what the member lacks, the pairs of the others must have
\* above the threshold.  A memory that is archived as one of two meets the
\* threshold t itself, one of three is like the others by 1 - 3 (1 - t) / 2 on
\* the average, and with t = 0.72 one of eight may be like none.
CarriedOnlySoFar ==
  \A i \in DOMAIN group : group[i] \in superseded =>
    (MergeThreshold - Max(Rounding)) * Cardinality(Pairs(group))
      <= Likeness(copies, group, i) + 10000 * Cardinality(Pairs(group) \ PairsWith(group, i))
=============================================================================
