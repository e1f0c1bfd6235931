---------------------------- MODULE WorkingMemory ----------------------------
(***************************************************************************)
(* Working memory (crates/core/src/working_memory): sessions fill a buffer *)
(* with items that expire, a planner (a caller; the code has only one that *)
(* plans nothing) sorts the items of a session into a consolidation plan   *)
(* or the payload of a reflection event, and the plan becomes a list of    *)
(* store mutations that is executed one by one, while other processes      *)
(* archive memories, and perhaps once more after a crash.                  *)
(*                                                                         *)
(* A text is the set of notes in it: joining texts is their union.         *)
(***************************************************************************)
EXTENDS Subsequences, SequencesExt

CONSTANTS
  Session,
  MemoryId,    \* ids of long-term memories
  Old,         \* the memories that are there at the start
  Unknown,     \* an id no memory has: of an item, or a reflection node
  Kinds,       \* bound: items, [note, ids, ttl]; ttl is Never when chrono overflows
  Never,
  MaxTime, MaxItems, MaxPlans, MaxChanges \* bounds

ASSUME WorkingMemoryConstants ==
  /\ IsFiniteSet(Old) /\ Old \subseteq MemoryId /\ Unknown \notin MemoryId
  /\ \A k \in Kinds : k.ids \in Seq(MemoryId) /\ (k.ttl \in Nat \/ k.ttl = Never)

VARIABLES
  now,
  buffer,      \* the items of each session, with the time they were made
  status,      \* of each memory: "none", "active" or "archived"
  text,        \* of each memory
  todo,        \* mutations still to be executed
  mutations    \* all mutations of the plan

(* History, not part of the program.                                       *)
VARIABLES
  base,        \* status and text when the plan was first executed
  groups,      \* its merge groups
  discarded,   \* memories its reflection event discards
  crashed,     \* the last execution of the plan did not finish
  plans, changes

wmVars == <<now, buffer, status, text, todo, mutations, base, groups, discarded,
            crashed, plans, changes>>

WMInit ==
  /\ now = 0
  /\ buffer = [s \in Session |-> <<>>]
  /\ status = [m \in MemoryId |-> IF m \in Old THEN "active" ELSE "none"]
  /\ text = [m \in MemoryId |-> IF m \in Old THEN {m} ELSE {}]
  /\ todo = <<>> /\ mutations = <<>>
  /\ base = [status |-> status, text |-> text]
  /\ groups = <<>> /\ discarded = {} /\ crashed = FALSE /\ plans = 0 /\ changes = 0

planVars == <<todo, mutations, base, groups, discarded, crashed, plans>>

-----------------------------------------------------------------------------
(* The buffer.                                                             *)

\* is_expired_at.
IsExpired(item) == item.ttl # Never /\ item.born + item.ttl <= now

\* WorkingMemoryItem::new and add.
AddItem(s, k) ==
  /\ Len(buffer[s]) < MaxItems
  /\ buffer' = [buffer EXCEPT ![s] = Append(@, [kind |-> k, born |-> now, ttl |-> k.ttl])]
  /\ UNCHANGED <<now, status, text, changes>> /\ UNCHANGED planVars

\* Time passes.
Pass ==
  /\ now < MaxTime
  /\ now' = now + 1
  /\ UNCHANGED <<buffer, status, text, changes>> /\ UNCHANGED planVars

\* clear_expired.
ClearExpired ==
  /\ buffer' = [s \in Session |->
                  Picked(buffer[s], {i \in DOMAIN buffer[s] : ~IsExpired(buffer[s][i])})]
  /\ UNCHANGED <<now, status, text, changes>> /\ UNCHANGED planVars

-----------------------------------------------------------------------------
(* Store mutations.  A group is a sequence of item kinds.                  *)

Insert(t)    == [op |-> "insert", text |-> t]
Update(m, t) == [op |-> "update", id |-> m, text |-> t]
Archive(m)   == [op |-> "archive", id |-> m]
Edge(m)      == [op |-> "edge", target |-> m]

LinkedIds(items) == FlattenSeq([i \in DOMAIN items |-> items[i].ids])
Notes(items) == {items[i].note : i \in DOMAIN items}

\* primary_merge_memory_id: the first linked id of all items, or the item's own.
Primary(items) ==
  IF LinkedIds(items) = <<>> THEN Unknown ELSE LinkedIds(items)[1]

\* Mutant: only the first of the linked ids is kept, wherever it is repeated.
LifecycleByPosition(items) ==
  IF items = <<>> THEN <<>>
  ELSE <<Update(Primary(items), Notes(items))>>
         \o [i \in 1 .. Len(LinkedIds(items)) - 1 |-> Archive(LinkedIds(items)[i + 1])]

\* dispatch_merge_lifecycle: the primary gets the joined content of the
\* items, the other memories they link are archived.
Lifecycle(items) ==
  LET ids    == LinkedIds(items)
      others == Picked(ids, {i \in DOMAIN ids : ids[i] # Primary(items)})
  IN  IF items = <<>> THEN <<>>
      ELSE <<Update(Primary(items), Notes(items))>>
             \o [i \in DOMAIN others |-> Archive(others[i])]

Lifecycles(gs) == FlattenSeq([i \in DOMAIN gs |-> Lifecycle(gs[i])])

\* Mutant: a discarded item takes the memories it links with it.
DiscardLinked(k) == [i \in DOMAIN k.ids |-> Archive(k.ids[i])]

\* A discarded item archives the memory with the id of the item.
Discard(k) == <<Archive(Unknown)>>

\* PlanOnlyConsolidationExecutor and its dispatcher: promoted items, merge
\* groups (empty ones are skipped), discarded items, in this order.
ConsolidationMutations(promote, merge, discard) ==
  [i \in DOMAIN promote |-> Insert({promote[i].note})]
    \o Lifecycles(merge)
    \o FlattenSeq([i \in DOMAIN discard |-> Discard(discard[i])])

\* dispatch_reflection_event: edges from the event to what it promotes, merge
\* groups, discarded memories.
ReflectionMutations(promoted, merge, ids) ==
  [i \in DOMAIN promoted |-> Edge(promoted[i])]
    \o Lifecycles(merge)
    \o [i \in DOMAIN ids |-> Archive(ids[i])]

-----------------------------------------------------------------------------
(* Plans.                                                                  *)

\* The items of session s that a planner puts into the bucket b.
Bucket(s, into, b) ==
  LET items == Picked(buffer[s], {i \in DOMAIN buffer[s] : into[i] = b})
  IN  [i \in DOMAIN items |-> items[i].kind]

\* A plan with the mutations ms, the merge groups gs and the discarded ids.
Start(ms, gs, ids) ==
  /\ plans < MaxPlans
  /\ todo = <<>> /\ ~crashed
  /\ mutations' = ms /\ todo' = ms
  /\ base' = [status |-> status, text |-> text]
  /\ groups' = gs /\ discarded' = ids
  /\ plans' = plans + 1 /\ changes' = 0
  /\ UNCHANGED <<now, buffer, status, text, crashed>>

\* Each item of a session goes into one bucket of a consolidation plan; the
\* items to be merged form one group or two.
Consolidate(s) ==
  \E into \in [DOMAIN buffer[s] -> {"promote", "merge", "merge too", "discard"}] :
    LET merge == <<Bucket(s, into, "merge"), Bucket(s, into, "merge too")>>
    IN  Start(ConsolidationMutations(Bucket(s, into, "promote"), merge, Bucket(s, into, "discard")),
              merge, {})

\* The payload of a reflection event promotes one memory, merges items and
\* discards memories.
ReflectOn(s) ==
  \E into \in [DOMAIN buffer[s] -> {"merge", "leave"}], m \in Old, ids \in SUBSET Old :
    LET merge == <<Bucket(s, into, "merge")>>
    IN  Start(ReflectionMutations(<<m>>, merge, SetToSeq(ids)), merge, ids)

\* Mutant: a second execution goes on behind the mutation under way.
AgainBehind ==
  /\ todo = <<>> /\ plans < MaxPlans
  /\ todo' = IF crashed THEN <<>> ELSE mutations
  /\ crashed' = FALSE
  /\ plans' = plans + 1
  /\ UNCHANGED <<now, buffer, status, text, mutations, base, groups, discarded, changes>>

\* The caller executes the same plan again.
Again ==
  /\ todo = <<>> /\ plans < MaxPlans
  /\ todo' = mutations
  /\ crashed' = FALSE
  /\ plans' = plans + 1
  /\ UNCHANGED <<now, buffer, status, text, mutations, base, groups, discarded, changes>>

-----------------------------------------------------------------------------
(* Execution.  The store is a pair of status and text.                     *)

\* What a mutation other than an insertion makes of the store.  An edge
\* from a reflection node, and whatever names no active memory, is refused.
Apply(mut, store) ==
  IF mut.op = "edge" \/ mut.id \notin MemoryId \/ store.status[mut.id] # "active" THEN store
  ELSE IF mut.op = "update" THEN [store EXCEPT !.text[mut.id] = mut.text]
  ELSE [store EXCEPT !.status[mut.id] = "archived"]

\* The mutation at the head is carried out: a promoted item becomes a memory
\* with a new id.
Perform ==
  /\ IF Head(todo).op = "insert"
     THEN \E m \in MemoryId :
            /\ status[m] = "none"
            /\ status' = [status EXCEPT ![m] = "active"]
            /\ text' = [text EXCEPT ![m] = Head(todo).text]
     ELSE LET after == Apply(Head(todo), [status |-> status, text |-> text])
          IN  status' = after.status /\ text' = after.text
  /\ UNCHANGED changes

\* execute_mutation: one that fails because others keep the store busy is
\* skipped, and the next one is carried out all the same.
Execute ==
  /\ todo # <<>>
  /\ todo' = Tail(todo)
  /\ \/ Perform
     \/ changes < MaxChanges /\ changes' = changes + 1 /\ UNCHANGED <<status, text>>
  /\ UNCHANGED <<now, buffer, mutations, base, groups, discarded, crashed, plans>>

\* The process dies.
Crash ==
  /\ todo # <<>>
  /\ todo' = <<>> /\ crashed' = TRUE
  /\ UNCHANGED <<now, buffer, status, text, mutations, base, groups, discarded, plans, changes>>

\* Another process archives a memory.
Other(m) ==
  /\ changes < MaxChanges /\ status[m] = "active"
  /\ status' = [status EXCEPT ![m] = "archived"]
  /\ changes' = changes + 1
  /\ UNCHANGED <<now, buffer, text>> /\ UNCHANGED planVars

WMNext ==
  \/ \E s \in Session, k \in Kinds : AddItem(s, k)
  \/ Pass \/ ClearExpired
  \/ \E s \in Session : Consolidate(s) \/ ReflectOn(s)
  \/ Again \/ Execute \/ Crash
  \/ \E m \in MemoryId : Other(m)

WMSpec == WMInit /\ [][WMNext]_wmVars

-----------------------------------------------------------------------------
(* Properties.                                                             *)

Idle == todo = <<>> /\ ~crashed /\ changes = 0
IdsOf(g) == {LinkedIds(g)[i] : i \in DOMAIN LinkedIds(g)}

\* A plan, executed and perhaps executed again, changes no memory that was
\* there before but those its merge groups link and its event discards: an
\* item that is discarded or promoted leaves the memories it links alone.
OnlyTheNamedChange ==
  changes = 0 =>
    \A m \in MemoryId : base.status[m] # "none" =>
      \/ status[m] = base.status[m] /\ text[m] = base.text[m]
      \/ m \in discarded
      \/ \E i \in DOMAIN groups : m \in IdsOf(groups[i])

\* Groups that share no memory, with each other or with what is discarded,
\* each leave one active memory, which has the notes of all items of the
\* group.  (Groups that do share one may archive all their memories.)
GroupsLeaveASurvivor ==
  Idle =>
    \A i \in DOMAIN groups :
      \/ IdsOf(groups[i]) = {}
      \/ \E m \in IdsOf(groups[i]) : base.status[m] # "active" \/ m \in discarded
      \/ \E j \in DOMAIN groups \ {i} : IdsOf(groups[i]) \cap IdsOf(groups[j]) # {}
      \/ \E m \in IdsOf(groups[i]) : status[m] = "active" /\ text[m] = Notes(groups[i])

\* Executing a plan again is safe: however often it was begun, by crashes
\* and retries, once an execution ends the memories that were there before
\* are as one execution leaves them.  (Promoted items are inserted again.)
RetriesConverge ==
  Idle =>
    LET after[i \in 0 .. Len(mutations)] ==
          IF i = 0 THEN base
          ELSE IF mutations[i].op = "insert" THEN after[i - 1]
          ELSE Apply(mutations[i], after[i - 1])
        once == after[Len(mutations)]
    IN  \A m \in MemoryId : base.status[m] # "none" =>
          status[m] = once.status[m] /\ text[m] = once.text[m]
=============================================================================
