---------------------------- MODULE StoreExecutor ----------------------------
(***************************************************************************)
(* Store integration (crates/core/src/working_memory): processes that turn *)
(* the output of the adaptive algorithms into plans of store mutations and *)
(* execute them on the store with SQLitePersistentStoreExecutor.           *)
(*                                                                         *)
(* A plan is made from memories the process read before.  Its mutations    *)
(* run one after the other, each in a transaction of its own, while other  *)
(* processes run theirs.  A mutation that fails is put on the list of      *)
(* skipped ones, and the next one is tried.  A process may die between two *)
(* mutations.                                                              *)
(***************************************************************************)
EXTENDS Store, Hebbian, FiniteSetsExt, SequencesExt

CONSTANTS
  Proc,        \* processes with a connection to the database
  Producer,    \* which producers run: a subset of Producers
  Join,        \* the content a merge makes of a set of contents
  MaxEdges,    \* max_edges of the Hebbian algorithm
  Faults,      \* which faults happen: a subset of {"crash", "busy"}
  MaxPlans,    \* bound: plans submitted
  MaxFaults    \* bound: faults

Producers == {"promote", "merge", "forget", "reinforce"}

ASSUME ExecutorConstants ==
  /\ IsFiniteSet(Proc)
  /\ Producer \subseteq Producers
  /\ Join \in [(SUBSET Content) \ {{}} -> Content]
  /\ Faults \subseteq {"crash", "busy"}
  /\ MaxEdges \in Nat /\ MaxPlans \in Nat /\ MaxFaults \in Nat

VARIABLES
  plan,        \* mutations a process still has to execute
  checking,    \* memories a reinforce call still has to find active
  target,      \* all the memories of that call, and its weight delta
  executed     \* StoreExecutionReport.executed, of all plans of a process

(* History, not part of the program.                                       *)
VARIABLES
  submitted,   \* number of plans so far
  faults,      \* number of faults so far
  torn         \* {s, t} when a fault lost an update of one of its edges

execVars == <<plan, checking, target, executed, submitted, faults, torn>>
allVars  == <<vars, execVars>>

ExecInit ==
  /\ Init
  /\ plan      = [p \in Proc |-> <<>>]
  /\ checking  = [p \in Proc |-> <<>>]
  /\ target    = [p \in Proc |-> [ids |-> <<>>, delta |-> 0]]
  /\ executed  = [p \in Proc |-> <<>>]
  /\ submitted = 0
  /\ faults    = 0
  /\ torn      = {}

-----------------------------------------------------------------------------
(* Mutations and the plans made of them.                                   *)

InsertMemory(c)      == [op |-> "InsertMemory", content |-> c]
UpdateMemory(m, c)   == [op |-> "UpdateMemory", id |-> m, content |-> c]
ArchiveMemory(m)     == [op |-> "ArchiveMemory", id |-> m]
EdgeMutation(s, t, d) == [op |-> "UpdateEdge", source |-> s, target |-> t, delta |-> d]

\* dispatch_action of an archived working-memory item: the item becomes a
\* memory, under an id that the executor ignores.
PromotePlan(c) == <<InsertMemory(c)>>

\* Mutant: the duplicates are archived before the primary is updated.
MergePlanArchivingFirst(ids) ==
  [i \in 1 .. Len(ids) - 1 |-> ArchiveMemory(ids[i + 1])]
    \o <<UpdateMemory(ids[1], Join[{content[ids[i]] : i \in DOMAIN ids}])>>

\* dispatch_merge_lifecycle: first the primary gets the merged content, then
\* the others are archived.
MergePlan(ids) ==
  <<UpdateMemory(ids[1], Join[{content[ids[i]] : i \in DOMAIN ids}])>>
    \o [i \in 1 .. Len(ids) - 1 |-> ArchiveMemory(ids[i + 1])]

\* ForgetOutput::to_store_mutation_plan.
ForgetPlan(m) == <<ArchiveMemory(m)>>

\* HebbianOutput -> PlanOnlyHebbianExecutor -> dispatcher.  The Hebbian plans
\* have no duplicates and no invalid edges for the executor to skip.
ReinforcePlan(event) ==
  LET planned == EdgePlans(<<event>>, MaxEdges) IN
    [k \in DOMAIN planned |->
       EdgeMutation(planned[k].source, planned[k].target, planned[k].delta)]

-----------------------------------------------------------------------------
(* Making plans.                                                           *)

\* p may call the producer.
MayCall(p, producer) ==
  /\ producer \in Producer
  /\ plan[p] = <<>> /\ checking[p] = <<>>
  /\ submitted < MaxPlans

Submit(p, mutations) ==
  /\ plan' = [plan EXCEPT ![p] = mutations]
  /\ submitted' = submitted + 1
  /\ UNCHANGED <<vars, checking, target, executed, faults, torn>>

\* A client writes memories for the producers to work on.
ClientWrite(m, c) == Write(m, c) /\ UNCHANGED execVars

\* A working-memory item is promoted to long-term memory.
Promote(p, c) == MayCall(p, "promote") /\ Submit(p, PromotePlan(c))

\* The merge algorithm read the memories of S, none of them structurally
\* inert, and merges them.
Merge(p, S) ==
  /\ MayCall(p, "merge")
  /\ S \subseteq Live /\ Cardinality(S) >= 2
  /\ \E ids \in SetToSeqs(S) : Submit(p, MergePlan(ids))

\* The forget algorithm decided to forget m, which it also does when m is
\* already invalid (ForgetReason::Expired).
Forget(p, m) ==
  /\ MayCall(p, "forget")
  /\ m \in Written
  /\ Submit(p, ForgetPlan(m))

\* reinforce_memories is called with the ids of two or more memories, which
\* it sorts, for an event of weight delta d.
Reinforce(p, S, d) ==
  /\ MayCall(p, "reinforce")
  /\ S \subseteq Written /\ Cardinality(S) >= 2
  /\ checking' = [checking EXCEPT ![p] = SetToSeq(S)]
  /\ target' = [target EXCEPT ![p] = [ids |-> SetToSeq(S), delta |-> d]]
  /\ UNCHANGED <<vars, plan, executed, submitted, faults, torn>>

\* One store.get of the check: an inactive memory ends the call, and after
\* the last one the plan is made from all the ids.
Check(p) ==
  /\ checking[p] # <<>>
  /\ \/ /\ Head(checking[p]) \notin Live
        /\ checking' = [checking EXCEPT ![p] = <<>>]
        /\ UNCHANGED <<plan, submitted>>
     \/ /\ Head(checking[p]) \in Live /\ Len(checking[p]) > 1
        /\ checking' = [checking EXCEPT ![p] = Tail(@)]
        /\ UNCHANGED <<plan, submitted>>
     \/ /\ Head(checking[p]) \in Live /\ Len(checking[p]) = 1
        /\ checking' = [checking EXCEPT ![p] = <<>>]
        /\ submitted < MaxPlans
        /\ plan' = [plan EXCEPT ![p] = ReinforcePlan(target[p])]
        /\ submitted' = submitted + 1
  /\ UNCHANGED <<vars, target, executed, faults, torn>>

-----------------------------------------------------------------------------
(* Executing them.                                                         *)

\* The store operation a mutation stands for.
Perform(mut) ==
  \/ mut.op = "InsertMemory"  /\ \E m \in MemoryId : Write(m, mut.content)
  \/ mut.op = "UpdateMemory"  /\ UpdateContent(mut.id, mut.content)
  \/ mut.op = "ArchiveMemory" /\ Invalidate(mut.id)
  \/ mut.op = "UpdateEdge"    /\ UpdateEdge(mut.source, mut.target, mut.delta)

\* The memories that must be valid for the store to accept a mutation; it
\* answers NotFound otherwise.
Needs(mut) ==
  CASE mut.op = "InsertMemory" -> {}
    [] mut.op \in {"UpdateMemory", "ArchiveMemory"} -> {mut.id}
    [] mut.op = "UpdateEdge" -> {mut.source, mut.target}

\* Mutant: record_result reports a failed mutation as executed.
ExecuteTrusting(p) ==
  /\ plan[p] # <<>>
  /\ LET mut == Head(plan[p]) IN
       /\ IF Needs(mut) \subseteq Live THEN Perform(mut) ELSE UNCHANGED vars
       /\ executed' = [executed EXCEPT ![p] = Append(@, mut)]
  /\ plan' = [plan EXCEPT ![p] = Tail(@)]
  /\ UNCHANGED <<checking, target, submitted, faults, torn>>

\* execute_mutation and record_result.
Execute(p) ==
  /\ plan[p] # <<>>
  /\ LET mut == Head(plan[p]) IN
       \/ /\ Needs(mut) \subseteq Live
          /\ Perform(mut)
          /\ executed' = [executed EXCEPT ![p] = Append(@, mut)]
       \/ /\ ~(Needs(mut) \subseteq Live)
          /\ UNCHANGED <<vars, executed>>
  /\ plan' = [plan EXCEPT ![p] = Tail(@)]
  /\ UNCHANGED <<checking, target, submitted, faults, torn>>

\* The edges a list of mutations updates, without their directions.
EdgesIn(mutations) ==
  {{mut.source, mut.target} : mut \in {x \in Range(mutations) : x.op = "UpdateEdge"}}

Fault(kind, lost) ==
  /\ kind \in Faults
  /\ faults < MaxFaults
  /\ faults' = faults + 1
  /\ torn' = torn \cup EdgesIn(lost)
  /\ UNCHANGED <<vars, checking, target, executed, submitted>>

\* The store answers SQLITE_BUSY because another connection writes: after
\* the busy timeout, or at once when update_edge has read a snapshot that
\* the other one made old.  The mutation is skipped like any other failure.
Busy(p) ==
  /\ plan[p] # <<>>
  /\ Fault("busy", <<Head(plan[p])>>)
  /\ plan' = [plan EXCEPT ![p] = Tail(@)]

\* The process dies: the rest of its plan is lost, what it has committed
\* stays.
Crash(p) ==
  /\ plan[p] # <<>>
  /\ Fault("crash", plan[p])
  /\ plan' = [plan EXCEPT ![p] = <<>>]

-----------------------------------------------------------------------------
ExecNext ==
  \/ \E m \in MemoryId, c \in Content : ClientWrite(m, c)
  \/ \E p \in Proc, c \in Content : Promote(p, c)
  \/ \E p \in Proc, S \in SUBSET Live : Merge(p, S)
  \/ \E p \in Proc, m \in Written : Forget(p, m)
  \/ \E p \in Proc, S \in SUBSET Written, d \in Delta : Reinforce(p, S, d)
  \/ \E p \in Proc : Check(p) \/ Execute(p) \/ Busy(p) \/ Crash(p)

ExecSpec == ExecInit /\ [][ExecNext]_allVars

-----------------------------------------------------------------------------
(* Properties.                                                             *)

\* Where the plans under way update the edge from s to t, and what they will
\* still add to its weight.
Due(s, t) ==
  LET at(p) == {i \in DOMAIN plan[p] : /\ plan[p][i].op = "UpdateEdge"
                                       /\ plan[p][i].source = s
                                       /\ plan[p][i].target = t}
  IN  UNION {{p} \X at(p) : p \in Proc}

Owed(s, t) == SumFunction([x \in Due(s, t) |-> plan[x[1]][x[2]].delta])

\* Each memory that is invalid was archived by one executed mutation, and
\* by no other, of any process: two processes that decide to archive the
\* same memory, or one that decides so twice, do not both report it.
ArchivedOnce ==
  \A m \in MemoryId :
    Cardinality(UNION {{p} \X {i \in DOMAIN executed[p] :
                                 executed[p][i] = ArchiveMemory(m)} : p \in Proc})
      = IF status[m] = "invalid" THEN 1 ELSE 0

\* Association is mutual: for two valid memories the weights of the edges
\* both ways, with what the plans under way still owe them, are the same,
\* however the plans of several processes interleave with each other and
\* with memories becoming invalid.  Only a fault on that edge breaks it.
MutualEdges ==
  \A s, t \in Live :
    {s, t} \notin torn => weight[<<s, t>>] + Owed(s, t) = weight[<<t, s>>] + Owed(t, s)

\* When only one process merges, each entity that was ever mentioned stays
\* mentioned by a valid memory, also if the process dies half way: the
\* primary has the merged content before the first duplicate is archived.
MergeLosesNoEntity ==
  entities \subseteq UNION {links[m] : m \in Live}
=============================================================================
