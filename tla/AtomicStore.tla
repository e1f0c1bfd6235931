----------------------------- MODULE AtomicStore -----------------------------
(***************************************************************************)
(* What several connections to one database file promise together: a       *)
(* history of databases in which each comes from the one before by one     *)
(* call, and of which a loss of power takes no more than the end that was  *)
(* not yet synced.  Store, and every module that takes a call for one      *)
(* step, relies on this; Transactions shows that the calls keep it.        *)
(***************************************************************************)
EXTENDS Naturals, Sequences

CONSTANT MemoryId   \* the ids of memories

VARIABLES
  history,   \* the committed databases, oldest first
  durable    \* how many of them are synced to the disk

Status   == {"absent", "live", "invalid"}
Database == [status : [MemoryId -> Status], weight : [MemoryId \X MemoryId -> Nat]]

\* A call that changes the database: its kind, and the memories it names.
Call == [kind : {"write", "invalidate", "edge"}, source : MemoryId, target : MemoryId]

\* Whether a call succeeds on a database.
Allowed(db, call) ==
  \/ call.kind = "write" /\ db.status[call.source] = "absent"
  \/ call.kind = "invalidate" /\ db.status[call.source] = "live"
  \/ /\ call.kind = "edge"
     /\ db.status[call.source] = "live"
     /\ db.status[call.target] = "live"

\* The memory m with another status.
Restated(db, m, s) == [db EXCEPT !.status = [db.status EXCEPT ![m] = s]]

\* One more association from one memory to another.
Associated(db, e) == [db EXCEPT !.weight = [db.weight EXCEPT ![e] = db.weight[e] + 1]]

\* The database after a call.
After(db, call) ==
  CASE call.kind = "write"      -> Restated(db, call.source, "live")
    [] call.kind = "invalidate" -> Restated(db, call.source, "invalid")
    [] call.kind = "edge"       -> Associated(db, <<call.source, call.target>>)

\* The present database.
Now == history[Len(history)]

AtomicInit ==
  /\ history \in Seq(Database)
  /\ Len(history) = 1
  /\ durable = 1

\* One call, all of it.
Perform(call) ==
  /\ Allowed(Now, call)
  /\ history' = Append(history, After(Now, call))
  /\ UNCHANGED durable

\* The disk catches up.
Sync ==
  /\ durable' \in durable .. Len(history)
  /\ UNCHANGED history

\* The power fails: an end of the history that was not synced is gone.
Lose ==
  /\ \E n \in durable .. Len(history) : history' = SubSeq(history, 1, n)
  /\ UNCHANGED durable

AtomicNext == (\E call \in Call : Perform(call)) \/ Sync \/ Lose

AtomicSpec == AtomicInit /\ [][AtomicNext]_<<history, durable>>
=============================================================================
