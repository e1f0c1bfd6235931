------------------------------- MODULE Replay --------------------------------
(***************************************************************************)
(* What the trait MemoryEventStream promises                               *)
(* (crates/core/src/adaptive/event_stream.rs): a log that only grows, of   *)
(* which a replay sees the most recent events, in the order of recording.  *)
(* A stream may forget the oldest ones, here all but Capacity.             *)
(***************************************************************************)
EXTENDS Integers, Sequences

CONSTANTS
  Thread,    \* users of the stream
  Event,     \* events
  Limits,    \* limits that recent is called with
  Capacity   \* events the stream retains

VARIABLES
  log,       \* all events, as they were recorded
  answer     \* the last answer each thread got from recent

replayVars == <<log, answer>>

\* The last n elements of s, or all of them.
LastOf(s, n) ==
  LET k == IF n <= Len(s) THEN n ELSE Len(s)
  IN  [i \in 1 .. k |-> s[Len(s) - k + i]]

ReplayInit ==
  /\ log = <<>>
  /\ answer = [t \in Thread |-> <<>>]

\* record.
Append1(e) ==
  /\ log' = Append(log, e)
  /\ UNCHANGED answer

\* recent(n).
Recent(t, n) ==
  /\ answer' = [answer EXCEPT ![t] = LastOf(LastOf(log, Capacity), n)]
  /\ UNCHANGED log

ReplayNext ==
  \/ \E e \in Event : Append1(e)
  \/ \E t \in Thread, n \in Limits : Recent(t, n)

ReplaySpec == ReplayInit /\ [][ReplayNext]_replayVars
=============================================================================
