---------------------------- MODULE MCMaintenance ----------------------------
(* What keeps long-term memory in order: a memory that is judged for         *)
(* forgetting, a group that is merged, or a memory that is reflected on.  A  *)
(* behaviour is one of the three; they share no state.                       *)
EXTENDS Forgetting, Merging, Reflecting

VARIABLE pass   \* the algorithm whose steps this behaviour has

\* Three memories to merge; the lines a and b overlap, c has nothing in common
\* with them but a signal word.
MCTokensOf == ("a" :> {"x", "y", "z"}) @@ ("b" :> {"x", "y", "z", "w"}) @@ ("c" :> {"u", "v"})
MCSignalsOf == ("a" :> {"fix"}) @@ ("b" :> {}) @@ ("c" :> {"fix"})
MCTexts == {<<>>, <<"a">>, <<"b">>, <<"c">>}
MCClasses == {[kind |-> "fact", scope |-> "global"], [kind |-> "playbook", scope |-> "global"]}
MCGroups == {<<1>>, <<1, 2>>, <<2, 2, 1>>, <<1, 2, 1>>, <<1, 2, 3>>, <<3, 1, 2, 2>>, <<1, 1, 2, 2, 3>>}

-----------------------------------------------------------------------------
\* A memory on which every verdict is clear.
NoForgetting ==
  /\ memory = [importance |-> Max(Importances), confidence |-> Max(Confidences),
               estimate |-> 0, content |-> "good", superseded |-> TRUE, accesses |-> 0,
               validFrom |-> 0, validTo |-> Never, lastAccess |-> Never]
  /\ now = MaxTime /\ pc = "idle" /\ copy = memory /\ asOf = 0 /\ archived = FALSE

NoMerging ==
  /\ class = <<>> /\ text = [m \in MemoryId |-> <<>>] /\ live = MemoryId
  /\ group = <<>> /\ copies = <<>> /\ phase = "idle" /\ plan = <<>>
  /\ superseded = {} /\ raced = {} /\ refused = {} /\ reads = 0 /\ changes = 0

NoReflecting ==
  /\ algorithm = "noop" /\ target = [kind |-> "Fact", signals |-> 0, blank |-> TRUE]
  /\ importance = 0 /\ active = TRUE /\ events = <<>> /\ recorded = 0
  /\ verdict = "none" /\ todo = 0 /\ edges = {}

MaintenanceInit ==
  \/ pass = "forget"  /\ ForgetInit /\ NoMerging    /\ NoReflecting
  \/ pass = "merge"   /\ MergeInit  /\ NoForgetting /\ NoReflecting
  \/ pass = "reflect" /\ ReflInit   /\ NoForgetting /\ NoMerging

\* Merging ends when its bounds are used up, the others go on for ever.
MergingEnds == reads = MaxReads /\ phase = "idle" /\ UNCHANGED mergeVars

MaintenanceNext ==
  /\ UNCHANGED pass
  /\ \/ pass = "forget"  /\ ForgetNext /\ UNCHANGED <<mergeVars, reflVars>>
     \/ pass = "merge"   /\ (MergeNext \/ MergingEnds) /\ UNCHANGED <<forgetVars, reflVars>>
     \/ pass = "reflect" /\ ReflNext   /\ UNCHANGED <<forgetVars, mergeVars>>

MaintenanceSpec ==
  MaintenanceInit /\ [][MaintenanceNext]_<<forgetVars, mergeVars, reflVars, pass>>
=============================================================================
