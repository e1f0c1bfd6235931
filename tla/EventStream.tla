----------------------------- MODULE EventStream -----------------------------
(***************************************************************************)
(* InMemoryMemoryEventStream (crates/core/src/adaptive/event_stream.rs): a *)
(* VecDeque behind a mutex, which several threads record events in and     *)
(* replay from.  The queue is changed in two steps under the lock, and a   *)
(* replay copies it under the lock; an answer of no events needs no lock.  *)
(***************************************************************************)
EXTENDS Integers, Sequences

CONSTANTS
  Thread, Event, Limits, Capacity, \* as in Replay
  None,      \* the holder of a free lock, the argument of no call
  MaxEvents  \* bound: events recorded

ASSUME StreamConstants ==
  /\ None \notin Thread
  /\ Limits \subseteq Nat /\ Capacity \in Nat /\ MaxEvents \in Nat

VARIABLES
  queue,    \* the queue, oldest event first
  lock,      \* the thread that holds the mutex
  step,      \* what each thread does next
  arg,       \* the event or limit it has been called with
  answer,    \* the last answer of recent to each thread
  log        \* history: the events in the order they entered the queue

streamVars == <<queue, lock, step, arg, answer, log>>

Recording == {"record", "make room", "push"}
Replaying == {"recent", "copy"}

StreamInit ==
  /\ queue = <<>> /\ log = <<>>
  /\ lock = None
  /\ step = [t \in Thread |-> "idle"] /\ arg = [t \in Thread |-> None]
  /\ answer = [t \in Thread |-> <<>>]

Call(t, s, a) ==
  /\ step[t] = "idle"
  /\ step' = [step EXCEPT ![t] = s] /\ arg' = [arg EXCEPT ![t] = a]

To(t, s) == step' = [step EXCEPT ![t] = s] /\ UNCHANGED arg

Return(t) == step' = [step EXCEPT ![t] = "idle"] /\ arg' = [arg EXCEPT ![t] = None]

-----------------------------------------------------------------------------
\* A thread calls record or recent.
CallRecord(t, e) ==
  /\ Len(log) < MaxEvents
  /\ Call(t, "record", e)
  /\ UNCHANGED <<queue, lock, answer, log>>

CallRecent(t, n) ==
  /\ Call(t, "recent", n)
  /\ UNCHANGED <<queue, lock, answer, log>>

\* Both take the lock; record drops its event if the capacity is 0.
LockToRecord(t) ==
  /\ step[t] = "record" /\ lock = None
  /\ lock' = t
  /\ To(t, "make room")
  /\ UNCHANGED <<queue, answer, log>>

\* The oldest event leaves a full queue.
MakeRoom(t) ==
  /\ step[t] = "make room" /\ Capacity > 0
  /\ queue' = IF Len(queue) = Capacity THEN Tail(queue) ELSE queue
  /\ To(t, "push")
  /\ UNCHANGED <<lock, answer, log>>

\* With capacity 0 the event is dropped.
DropAtOnce(t) ==
  /\ step[t] = "make room" /\ Capacity = 0
  /\ log' = Append(log, arg[t])
  /\ lock' = None
  /\ Return(t)
  /\ UNCHANGED <<queue, answer>>

\* The event enters the queue, and the lock is released.
Push(t) ==
  /\ step[t] = "push"
  /\ queue' = Append(queue, arg[t])
  /\ log' = Append(log, arg[t])
  /\ lock' = None
  /\ Return(t)
  /\ UNCHANGED answer

\* recent(0) answers without the lock.
RecentNone(t) ==
  /\ step[t] = "recent" /\ arg[t] = 0
  /\ answer' = [answer EXCEPT ![t] = <<>>]
  /\ Return(t)
  /\ UNCHANGED <<queue, lock, log>>

LockToCopy(t) ==
  /\ step[t] = "recent" /\ arg[t] > 0 /\ lock = None
  /\ lock' = t
  /\ To(t, "copy")
  /\ UNCHANGED <<queue, answer, log>>

Smaller(n, m) == IF n <= m THEN n ELSE m

\* Mutant: the oldest events are replayed, not the most recent ones.
CopyFirst(t) ==
  /\ step[t] = "copy"
  /\ answer' = [answer EXCEPT ![t] = SubSeq(queue, 1, Smaller(arg[t], Len(queue)))]
  /\ lock' = None
  /\ Return(t)
  /\ UNCHANGED <<queue, log>>

\* skip(start) of the queue, copied; then the lock is released.
Copy(t) ==
  /\ step[t] = "copy"
  /\ LET start == Len(queue) - Smaller(arg[t], Len(queue))
     IN  answer' = [answer EXCEPT ![t] = SubSeq(queue, start + 1, Len(queue))]
  /\ lock' = None
  /\ Return(t)
  /\ UNCHANGED <<queue, log>>

Enter(t) == IF Capacity = 0 THEN DropAtOnce(t) ELSE MakeRoom(t)

Step(t) ==
  \/ LockToRecord(t) \/ Enter(t) \/ Push(t)
  \/ RecentNone(t) \/ LockToCopy(t) \/ Copy(t)

StreamNext ==
  \E t \in Thread :
    \/ \E e \in Event : CallRecord(t, e)
    \/ \E n \in Limits : CallRecent(t, n)
    \/ Step(t)

StreamSpec == StreamInit /\ [][StreamNext]_streamVars

-----------------------------------------------------------------------------
(* Properties.                                                             *)

\* The lock is held by the one thread that works on the queue.
StreamTypeOK ==
  /\ step \in [Thread -> {"idle"} \cup Recording \cup Replaying]
  /\ \A t \in Thread : step[t] \in Recording => arg[t] \in Event
  /\ \A t \in Thread : step[t] \in Replaying => arg[t] \in Limits
  /\ arg \in [Thread -> Event \cup Limits \cup {None}]
  /\ lock \in Thread \cup {None}
  /\ queue \in Seq(Event) /\ log \in Seq(Event)
  /\ answer \in [Thread -> Seq(Event)]
  /\ \A t \in Thread : step[t] \in {"make room", "push", "copy"} <=> lock = t

R == INSTANCE Replay

\* The queue holds exactly the most recent events, as many as its capacity
\* allows, in the order in which they were recorded, except that the thread
\* that is about to push has made room already.
RetainsTheRecent ==
  LET pushing == \E t \in Thread : step[t] = "push"
  IN  queue = R!LastOf(log, IF pushing THEN Smaller(Len(log), Capacity - 1) ELSE Capacity)

\* The stream is the log it promises to be: each answer of recent is the end
\* of what has been recorded, at one moment between call and answer, and
\* nothing else changes log or answers.
ImplementsReplay == R!ReplaySpec
=============================================================================
