------------------------------ MODULE EventLog -------------------------------
(***************************************************************************)
(* What the store's event log promises: it is append-only, and it is the   *)
(* history of memories that are added once, updated while they are valid,  *)
(* and invalidated at most once, after which they have no more events.     *)
(* The only state is the log: every condition on the next event is about   *)
(* the events before it.                                                   *)
(***************************************************************************)
EXTENDS Naturals, Sequences

CONSTANTS MemoryId, Content, NoContent

VARIABLE log

\* The log holds an event of this kind for m.
Has(kind, m) ==
  \E i \in 1 .. Len(log) : log[i].kind = kind /\ log[i].memory = m

Record(kind, m, c) ==
  log' = Append(log, [kind |-> kind, memory |-> m, content |-> c])

Add(m, c)    == ~Has("ADD", m) /\ Record("ADD", m, c)

Update(m, c) == /\ Has("ADD", m)
                /\ ~Has("INVALIDATE", m)
                /\ Record("UPDATE", m, c)

Retire(m)    == /\ Has("ADD", m)
                /\ ~Has("INVALIDATE", m)
                /\ Record("INVALIDATE", m, NoContent)

Init == log = <<>>

Next == \E m \in MemoryId :
          \/ \E c \in Content : Add(m, c) \/ Update(m, c)
          \/ Retire(m)

Spec == Init /\ [][Next]_log
=============================================================================
