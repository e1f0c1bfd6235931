---------------------------- MODULE Transactions ----------------------------
(***************************************************************************)
(* The calls of crates/core/src/store statement by statement, as the       *)
(* transactions that `self.conn.transaction()` opens on the write-ahead    *)
(* log that schema.rs asks for.  The connections belong to processes (the  *)
(* command line, MCP servers) that each execute a plan of calls, one after *)
(* the other, and go on after a call that failed, as the executor of       *)
(* persistent_store.rs does.                                               *)
(*                                                                         *)
(* SQLite itself is external and modelled by its documented rules:         *)
(* transaction() is BEGIN DEFERRED, the first read takes a snapshot, the   *)
(* first write takes the one write lock, a transaction whose snapshot is   *)
(* not the newest, or that has a snapshot while another one writes, cannot *)
(* write and fails at once, and one without a snapshot waits for the busy  *)
(* timeout.  With synchronous = NORMAL a commit is not synced until the    *)
(* log is checkpointed.                                                    *)
(*                                                                         *)
(* Of the tables only what one call reads and another one writes is kept:  *)
(* the validity of memories and the weights of edges.  Every edge is       *)
(* strengthened by the same amount, the unit of the weights.               *)
(***************************************************************************)
EXTENDS Naturals, Sequences

CONSTANTS
  Memories,     \* the ids of memories
  Conn,         \* the connections, one per process
  Nobody,       \* no connection
  MaxPlans,     \* bound: plans that are submitted
  MaxFaults     \* bound: kills and losses of power

ASSUME TransactionConstants ==
  /\ Nobody \notin Conn
  /\ MaxPlans \in Nat
  /\ MaxFaults \in Nat

VARIABLES
  wal,      \* the committed databases, oldest first
  synced,   \* how many of them are checkpointed
  lock,     \* the connection that holds the write lock
  todo,     \* per connection: the calls of its plan that are left
  at,       \* per connection: the statement of the first of them
  snap,     \* per connection: the database it reads, 0 without a snapshot
  draft,    \* the newest database with what the holder of the lock has written
  report,   \* per connection: what became of the calls of its plan
  began,    \* history: the newest database when the call began
  plans,    \* bound: plans submitted so far
  faults    \* bound: faults so far

logVars  == <<wal, synced>>
connVars == <<todo, at, snap, report, began>>
txnVars     == <<logVars, lock, draft, connVars, plans, faults>>

TxnStatus    == {"absent", "live", "invalid"}
Database  == [status : [Memories -> TxnStatus], weight : [Memories \X Memories -> Nat]]
TxnCall      == [kind : {"write", "invalidate", "edge"}, source : Memories, target : Memories]
Statement == {"idle", "source", "target", "upsert", "modify", "none", "commit"}
Outcome   == {"applied", "missing", "busy"}

Newest == wal[Len(wal)]

\* The first statement of a call: update_edge reads first, the others write.
FirstOf(calls) ==
  IF calls = <<>> THEN "idle"
  ELSE IF Head(calls).kind = "edge" THEN "source" ELSE "modify"

Edge(s, t) == [kind |-> "edge", source |-> s, target |-> t]

\* The plans: both directions of an association, a memory that is written,
\* one that is archived.
Plan ==
  {<<Edge(e[1], e[2]), Edge(e[2], e[1])>> : e \in {x \in Memories \X Memories : x[1] # x[2]}}
    \cup {<<[kind |-> k, source |-> m, target |-> m]>> :
             k \in {"write", "invalidate"}, m \in Memories}

TxnInit ==
  /\ wal \in {<<[status |-> st, weight |-> [e \in Memories \X Memories |-> 0]]>> :
                 st \in [Memories -> TxnStatus]}
  /\ synced = 1
  /\ lock = Nobody
  /\ draft = Newest
  /\ todo   = [c \in Conn |-> <<>>]
  /\ at     = [c \in Conn |-> "idle"]
  /\ snap   = [c \in Conn |-> 0]
  /\ report = [c \in Conn |-> <<>>]
  /\ began  = [c \in Conn |-> 0]
  /\ plans = 0
  /\ faults = 0

-----------------------------------------------------------------------------
(* Pieces that the statements share.                                       *)

\* A ULID that nobody has drawn before.
Fresh(m) ==
  /\ \A i \in 1 .. Len(wal) : wal[i].status[m] = "absent"
  /\ \A c \in Conn : \A i \in 1 .. Len(todo[c]) :
       todo[c][i].kind = "write" => todo[c][i].source # m

\* A process starts on a plan.
Submit(c, p) ==
  /\ at[c] = "idle"
  /\ plans < MaxPlans
  /\ p[1].kind = "write" => Fresh(p[1].source)
  /\ plans' = plans + 1
  /\ todo'   = [todo EXCEPT ![c] = p]
  /\ at'     = [at EXCEPT ![c] = FirstOf(p)]
  /\ report' = [report EXCEPT ![c] = <<>>]
  /\ began'  = [began EXCEPT ![c] = Len(wal)]
  /\ UNCHANGED <<logVars, lock, draft, snap, faults>>

\* The call is over: its outcome is reported and the next one begins.
Turn(c, outcome) ==
  /\ todo'   = [todo EXCEPT ![c] = Tail(todo[c])]
  /\ at'     = [at EXCEPT ![c] = FirstOf(Tail(todo[c]))]
  /\ report' = [report EXCEPT ![c] = Append(report[c], outcome)]
  /\ began'  = [began EXCEPT ![c] = IF Tail(todo[c]) = <<>> THEN 0 ELSE Len(wal')]
  /\ UNCHANGED <<plans, faults>>

\* Mutant: the transaction of a call that fails is left open.
LeaveOpen(c, outcome) ==
  /\ UNCHANGED <<logVars, lock, draft, snap>>
  /\ Turn(c, outcome)

\* An early return: the transaction is dropped, which rolls it back.
RollBack(c, outcome) ==
  /\ UNCHANGED logVars
  /\ snap' = [snap EXCEPT ![c] = 0]
  /\ lock'  = IF lock = c THEN Nobody ELSE lock
  /\ draft' = IF lock = c THEN Newest ELSE draft
  /\ Turn(c, outcome)

\* The snapshot that a read of c uses: its own, or else the newest.
View(c) == IF snap[c] = 0 THEN Len(wal) ELSE snap[c]

-----------------------------------------------------------------------------
(* The statements.                                                         *)

\* Mutant: the ends are looked up before the transaction begins.
LookUpOutside(c, m, next) ==
  IF Newest.status[m] = "live"
  THEN /\ at' = [at EXCEPT ![c] = next]
       /\ UNCHANGED <<logVars, lock, todo, snap, draft, report, began, plans, faults>>
  ELSE RollBack(c, "missing")

\* memory_exists in a transaction: an early return if m is not valid.
LookUp(c, m, next) ==
  IF wal[View(c)].status[m] = "live"
  THEN /\ snap' = [snap EXCEPT ![c] = View(c)]
       /\ at'   = [at EXCEPT ![c] = next]
       /\ UNCHANGED <<logVars, lock, todo, draft, report, began, plans, faults>>
  ELSE RollBack(c, "missing")

ReadSource(c) == at[c] = "source" /\ LookUp(c, Head(todo[c]).source, "target")

ReadTarget(c) == at[c] = "target" /\ LookUp(c, Head(todo[c]).target, "upsert")

\* A statement that writes: c holds the lock, and db is what it would commit.
Hold(c, db, next) ==
  /\ lock'  = c
  /\ snap'  = [snap EXCEPT ![c] = Len(wal)]
  /\ draft' = db
  /\ at'    = [at EXCEPT ![c] = next]
  /\ UNCHANGED <<logVars, todo, report, began, plans, faults>>

\* The INSERT of update_edge.  It has read, so it does not wait.
Upsert(c) ==
  /\ at[c] = "upsert"
  /\ LET e == <<Head(todo[c]).source, Head(todo[c]).target>>
         w == Newest.weight
     IN IF lock = Nobody /\ View(c) = Len(wal)
        THEN Hold(c, [status |-> Newest.status, weight |-> [w EXCEPT ![e] = w[e] + 1]], "commit")
        ELSE RollBack(c, "busy")

\* The first statement of write, whose id is new, and of invalidate, which
\* waits for the lock, as update_content, put_embedding and record_access do.
\* An UPDATE that finds no row has the lock as well.
Modify(c) ==
  /\ at[c] = "modify"
  /\ lock = Nobody
  /\ LET m  == Head(todo[c]).source
         st == Newest.status
         Set(s) == Hold(c, [status |-> [st EXCEPT ![m] = s], weight |-> Newest.weight], "commit")
     IN \/ Head(todo[c]).kind = "write" /\ st[m] = "absent" /\ Set("live")
        \/ Head(todo[c]).kind = "invalidate" /\ st[m] = "live" /\ Set("invalid")
        \/ Head(todo[c]).kind = "invalidate" /\ st[m] # "live" /\ Hold(c, Newest, "none")

\* The NotFound of an UPDATE that found no row.
NotFound(c) == at[c] = "none" /\ RollBack(c, "missing")

\* The busy timeout: another connection writes for too long.
BusyTimeout(c) ==
  /\ at[c] = "modify"
  /\ lock # Nobody
  /\ RollBack(c, "busy")

\* tx.commit()
Commit(c) ==
  /\ at[c] = "commit"
  /\ wal' = Append(wal, draft)
  /\ lock' = Nobody
  /\ snap' = [snap EXCEPT ![c] = 0]
  /\ Turn(c, "applied")
  /\ UNCHANGED <<synced, draft>>

-----------------------------------------------------------------------------
(* The log, and faults.                                                    *)

\* The log is synced and copied into the database file.
Checkpoint ==
  /\ synced < Len(wal)
  /\ synced' = Len(wal)
  /\ UNCHANGED <<wal, lock, draft, connVars, plans, faults>>

\* A process is killed; its lock is released and its plan is forgotten.
Kill(c) ==
  /\ at[c] # "idle"
  /\ faults < MaxFaults
  /\ faults' = faults + 1
  /\ todo' = [todo EXCEPT ![c] = <<>>]
  /\ at'   = [at EXCEPT ![c] = "idle"]
  /\ snap' = [snap EXCEPT ![c] = 0]
  /\ lock'  = IF lock = c THEN Nobody ELSE lock
  /\ draft' = IF lock = c THEN Newest ELSE draft
  /\ report' = [report EXCEPT ![c] = <<>>]
  /\ began'  = [began EXCEPT ![c] = 0]
  /\ UNCHANGED <<logVars, plans>>

\* Power fails: all processes end, and commits that were not synced may be lost.
PowerLoss ==
  /\ faults < MaxFaults
  /\ faults' = faults + 1
  /\ \E n \in synced .. Len(wal) : wal' = SubSeq(wal, 1, n)
  /\ draft' = Newest'
  /\ lock' = Nobody
  /\ todo' = [c \in Conn |-> <<>>]
  /\ at'   = [c \in Conn |-> "idle"]
  /\ snap' = [c \in Conn |-> 0]
  /\ report' = [c \in Conn |-> <<>>]
  /\ began' = [c \in Conn |-> 0]
  /\ UNCHANGED <<synced, plans>>

\* What a process that is not killed goes on to do.
Step(c) ==
  ReadSource(c) \/ ReadTarget(c) \/ Upsert(c) \/ Modify(c) \/ NotFound(c)
    \/ BusyTimeout(c) \/ Commit(c)

TxnNext ==
  \/ \E c \in Conn : (\E p \in Plan : Submit(c, p)) \/ Step(c) \/ Kill(c)
  \/ Checkpoint
  \/ PowerLoss

\* A process that is not killed goes on with its plan.
TxnFairness == \A c \in Conn : WF_txnVars(Step(c))

TxnSpec == TxnInit /\ [][TxnNext]_txnVars /\ TxnFairness

-----------------------------------------------------------------------------
(* Properties.                                                             *)

\* The lock is held exactly by the connection that has written and not yet
\* committed, and only a call that reads before it writes has a snapshot
\* without the lock.  No early return leaves a transaction behind.
TxnTypeOK ==
  /\ wal \in Seq(Database)
  /\ synced \in 1 .. Len(wal)
  /\ lock \in Conn \cup {Nobody}
  /\ todo \in [Conn -> Seq(TxnCall)]
  /\ at \in [Conn -> Statement]
  /\ snap \in [Conn -> 0 .. Len(wal)]
  /\ draft \in Database
  /\ lock = Nobody => draft = Newest
  /\ report \in [Conn -> Seq(Outcome)]
  /\ began \in [Conn -> Nat]
  /\ plans \in Nat
  /\ faults \in Nat
  /\ \A c \in Conn :
       /\ lock = c <=> at[c] \in {"none", "commit"}
       /\ snap[c] # 0 <=> at[c] \in {"target", "upsert", "none", "commit"}
       /\ at[c] # "idle" => todo[c] # <<>>

Atomic == INSTANCE AtomicStore WITH
  MemoryId <- Memories, history <- wal, durable <- synced

\* However the statements of several connections interleave, and whichever
\* of them are killed, each call acts on the newest database as a whole or
\* not at all: no edge is tied to a memory that was archived meanwhile, no
\* update is lost, and a loss of power takes the end of the log only.
ImplementsAtomicStore == Atomic!AtomicSpec

\* A call fails as busy only when another connection writes, or has committed
\* since the call began: a process that is alone never skips a direction of
\* an association for a snapshot of its own.
BusyNeedsRival ==
  [][\A c \in Conn : report'[c] = Append(report[c], "busy") =>
        lock \notin {c, Nobody} \/ Len(wal) > began[c]]_txnVars

\* Whoever holds the write lock gives it back, whatever its call comes to.
LocksAreReleased == \A c \in Conn : lock = c ~> lock # c
=============================================================================
