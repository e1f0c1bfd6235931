-------------------------- MODULE EventStreamProofs --------------------------
(***************************************************************************)
(* Theorems about the in-memory event stream, for every set of threads and *)
(* events, every capacity and every limit, and about working memory, for   *)
(* every set of sessions, memories and kinds of items, and without the     *)
(* bounds on time, plans and changes playing a part.                       *)
(***************************************************************************)
EXTENDS EventStream, WorkingMemory, SequenceTheorems, CollectionProofs, TLAPS

USE StreamConstants

-----------------------------------------------------------------------------
(* The end of a sequence.                                                  *)

\* The last n elements of a sequence are a sequence of n elements, if there
\* are as many.
LEMMA LastOfType ==
  ASSUME NEW S, NEW s \in Seq(S), NEW n \in Nat
  PROVE  /\ R!LastOf(s, n) \in Seq(S)
         /\ Len(R!LastOf(s, n)) = IF n <= Len(s) THEN n ELSE Len(s)
  <1>1. PICK k \in Nat : k = IF n <= Len(s) THEN n ELSE Len(s)
    OBVIOUS
  <1>2. R!LastOf(s, n) = [i \in 1 .. k |-> s[Len(s) - k + i]]
    BY <1>1 DEF R!LastOf
  <1>3. \A i \in 1 .. k : Len(s) - k + i \in 1 .. Len(s)
    BY <1>1
  <1>4. \A i \in 1 .. k : s[Len(s) - k + i] \in S
    BY <1>3, ElementOfSeq
  <1>5. R!LastOf(s, n) \in [1 .. k -> S]
    BY <1>2, <1>4
  <1>6. R!LastOf(s, n) \in Seq(S) /\ Len(R!LastOf(s, n)) = k
    BY <1>5, SeqDef
  <1>7. QED
    BY <1>1, <1>6

\* Appending to the last n elements gives the last n + 1 elements of the
\* longer sequence.
LEMMA LastOfAppend ==
  ASSUME NEW S, NEW s \in Seq(S), NEW e \in S, NEW n \in 0 .. Len(s)
  PROVE  Append(R!LastOf(s, n), e) = R!LastOf(Append(s, e), n + 1)
  <1>1. R!LastOf(s, n) = [i \in 1 .. n |-> s[Len(s) - n + i]]
    BY DEF R!LastOf
  <1>2. Append(s, e) \in Seq(S) /\ Len(Append(s, e)) = Len(s) + 1
    OBVIOUS
  <1>3. R!LastOf(Append(s, e), n + 1)
          = [i \in 1 .. n + 1 |-> Append(s, e)[Len(s) + 1 - (n + 1) + i]]
    BY <1>2 DEF R!LastOf
  <1>4. R!LastOf(s, n) \in Seq(S) /\ Len(R!LastOf(s, n)) = n
    BY LastOfType
  <1>5. \A i \in 1 .. n + 1 :
          Append(s, e)[Len(s) + 1 - (n + 1) + i] = Append(R!LastOf(s, n), e)[i]
    BY <1>1, <1>4
  <1>6. Append(R!LastOf(s, n), e) \in Seq(S) /\ Len(Append(R!LastOf(s, n), e)) = n + 1
    BY <1>4
  <1>7. QED
    BY <1>3, <1>5, <1>6

\* Without the first of them, the last n elements are the last n - 1.
LEMMA LastOfTail ==
  ASSUME NEW S, NEW s \in Seq(S), NEW n \in 1 .. Len(s)
  PROVE  Tail(R!LastOf(s, n)) = R!LastOf(s, n - 1)
  <1>1. R!LastOf(s, n) = [i \in 1 .. n |-> s[Len(s) - n + i]]
    BY DEF R!LastOf
  <1>2. R!LastOf(s, n - 1) = [i \in 1 .. n - 1 |-> s[Len(s) - (n - 1) + i]]
    BY DEF R!LastOf
  <1>3. R!LastOf(s, n) \in Seq(S) /\ Len(R!LastOf(s, n)) = n
    BY LastOfType
  <1>4. R!LastOf(s, n) # <<>>
    BY <1>3
  <1> DEFINE t == Tail(R!LastOf(s, n))
  <1>5. t \in Seq(S) /\ Len(t) = n - 1 /\ \A i \in 1 .. n - 1 : t[i] = R!LastOf(s, n)[i + 1]
    BY <1>3, <1>4, HeadTailProperties
  <1>6. \A i \in 1 .. n - 1 : R!LastOf(s, n)[i + 1] = s[Len(s) - (n - 1) + i]
    BY <1>1
  <1>7. R!LastOf(s, n - 1) \in Seq(S) /\ Len(R!LastOf(s, n - 1)) = n - 1
    BY LastOfType
  <1>8. \A i \in 1 .. n - 1 : t[i] = R!LastOf(s, n - 1)[i]
    BY <1>2, <1>5, <1>6
  <1> HIDE DEF t
  <1>9. t = R!LastOf(s, n - 1)
    BY <1>5, <1>7, <1>8, SeqEqual
  <1>10. QED
    BY <1>9 DEF t

\* None of a sequence.
LEMMA LastOfNone ==
  ASSUME NEW S, NEW s \in Seq(S), NEW n \in Nat, n = 0 \/ Len(s) = 0
  PROVE  R!LastOf(s, n) = <<>>
  <1>1. R!LastOf(s, n) \in Seq(S) /\ Len(R!LastOf(s, n)) = 0
    BY LastOfType
  <1>2. QED
    BY <1>1, EmptySeq

\* All of a sequence, when as many elements or more are asked for.
LEMMA LastOfAll ==
  ASSUME NEW S, NEW s \in Seq(S), NEW n \in Nat, n >= Len(s)
  PROVE  R!LastOf(s, n) = s
  <1>1. R!LastOf(s, n) = [i \in 1 .. Len(s) |-> s[i]]
    BY DEF R!LastOf
  <1>2. QED
    BY <1>1

\* skip(start) of a queue are its last elements.
LEMMA LastOfSkip ==
  ASSUME NEW S, NEW s \in Seq(S), NEW n \in Nat
  PROVE  SubSeq(s, Len(s) - Smaller(n, Len(s)) + 1, Len(s)) = R!LastOf(s, n)
  <1> DEFINE k == Smaller(n, Len(s))
             t == SubSeq(s, Len(s) - k + 1, Len(s))
  <1>1. k \in 0 .. Len(s)
    BY DEF Smaller
  <1>2. R!LastOf(s, n) = [i \in 1 .. k |-> s[Len(s) - k + i]]
    BY DEF R!LastOf, Smaller
  <1> HIDE DEF k
  <1>3. t \in Seq(S) /\ Len(t) = k /\ \A i \in 1 .. k : t[i] = s[Len(s) - k + i]
    BY <1>1
  <1>4. t = [i \in 1 .. k |-> s[Len(s) - k + i]]
    BY <1>3
  <1>5. QED
    BY <1>2, <1>4 DEF k

-----------------------------------------------------------------------------
(* Typing and the lock.                                                    *)

\* No step breaks the types, and no step lets two threads work on the queue.
LEMMA StreamTypeStep ==
  ASSUME StreamTypeOK, [StreamNext]_streamVars
  PROVE  StreamTypeOK'
  <1> USE DEF StreamTypeOK, Recording, Replaying, Call, To, Return
  <1>1. ASSUME NEW t \in Thread, NEW e \in Event, CallRecord(t, e)
        PROVE  StreamTypeOK'
    BY <1>1 DEF CallRecord
  <1>2. ASSUME NEW t \in Thread, NEW n \in Limits, CallRecent(t, n)
        PROVE  StreamTypeOK'
    BY <1>2 DEF CallRecent
  <1>3. ASSUME NEW t \in Thread, LockToRecord(t)
        PROVE  StreamTypeOK'
    BY <1>3 DEF LockToRecord
  <1>4. ASSUME NEW t \in Thread, MakeRoom(t)
        PROVE  StreamTypeOK'
    <2>1. queue = <<>> => Len(queue) = 0
      BY EmptySeq
    <2>2. Capacity \in Nat
      OBVIOUS
    <2>3. Capacity > 0
      BY <1>4 DEF MakeRoom
    <2>4. Capacity # 0
      BY ONLY <2>2, <2>3
    <2>5. CASE Len(queue) = Capacity
      <3>1. Tail(queue) \in Seq(Event)
        BY <2>1, <2>4, <2>5, HeadTailProperties
      <3>2. queue' \in Seq(Event)
        BY <1>4, <2>5, <3>1 DEF MakeRoom
      <3>3. QED
        BY <1>4, <3>2 DEF MakeRoom
    <2>6. CASE Len(queue) # Capacity
      BY <1>4, <2>6 DEF MakeRoom
    <2>7. QED
      BY <2>5, <2>6
  <1>5. ASSUME NEW t \in Thread, DropAtOnce(t)
        PROVE  StreamTypeOK'
    <2>1. log' \in Seq(Event)
      BY <1>5, AppendProperties DEF DropAtOnce
    <2>2. QED
      BY <1>5, <2>1 DEF DropAtOnce
  <1>6. ASSUME NEW t \in Thread, Push(t)
        PROVE  StreamTypeOK'
    <2>1. log' \in Seq(Event) /\ queue' \in Seq(Event)
      BY <1>6, AppendProperties DEF Push
    <2>2. QED
      BY <1>6, <2>1 DEF Push
  <1>7. ASSUME NEW t \in Thread, RecentNone(t)
        PROVE  StreamTypeOK'
    <2>1. answer' \in [Thread -> Seq(Event)]
      BY <1>7, EmptySeq DEF RecentNone
    <2>2. QED
      BY <1>7, <2>1 DEF RecentNone
  <1>8. ASSUME NEW t \in Thread, LockToCopy(t)
        PROVE  StreamTypeOK'
    BY <1>8 DEF LockToCopy
  <1>9. ASSUME NEW t \in Thread, Copy(t)
        PROVE  StreamTypeOK'
    <2>1. arg[t] \in Nat
      BY <1>9 DEF Copy
    <2>2. R!LastOf(queue, arg[t]) \in Seq(Event)
      BY <2>1, LastOfType
    <2>3. SubSeq(queue, Len(queue) - Smaller(arg[t], Len(queue)) + 1, Len(queue))
            = R!LastOf(queue, arg[t])
      BY <2>1, LastOfSkip
    <2>4. answer' \in [Thread -> Seq(Event)]
      BY <1>9, <2>2, <2>3 DEF Copy
    <2>5. QED
      BY <1>9, <2>4 DEF Copy
  <1>10. CASE UNCHANGED streamVars
    BY <1>10 DEF streamVars
  <1>11. QED
    BY <1>1, <1>2, <1>3, <1>4, <1>5, <1>6, <1>7, <1>8, <1>9, <1>10
    DEF StreamNext, Step, Enter

\* The lock and the types hold in every state.
THEOREM StreamIsTyped == StreamSpec => []StreamTypeOK
  <1>1. StreamInit => StreamTypeOK
    BY EmptySeq DEF StreamInit, StreamTypeOK, Recording, Replaying
  <1>2. QED
    BY <1>1, StreamTypeStep, PTL DEF StreamSpec

-----------------------------------------------------------------------------
(* What the queue retains.                                                 *)

\* The invariant: when a thread is about to push, room has been made, and
\* there is room to make.
StreamInv ==
  /\ StreamTypeOK
  /\ RetainsTheRecent
  /\ \A t \in Thread : step[t] = "push" => Capacity > 0

\* A thread that works on the queue is the only one.
LEMMA OnlyOneWorks ==
  ASSUME StreamTypeOK, NEW t \in Thread, step[t] \in {"make room", "push", "copy"}
  PROVE  \A u \in Thread \ {t} : step[u] \notin {"make room", "push", "copy"}
  BY DEF StreamTypeOK

\* Making room keeps one event less than the capacity.
LEMMA MakeRoomStep ==
  ASSUME StreamInv, NEW t \in Thread, MakeRoom(t)
  PROVE  queue' = R!LastOf(log, Smaller(Len(log), Capacity - 1))
  <1>1. \A u \in Thread : step[u] # "push"
    BY OnlyOneWorks DEF MakeRoom, StreamInv
  <1>2. queue = R!LastOf(log, Capacity)
    BY <1>1 DEF StreamInv, RetainsTheRecent
  <1>3. log \in Seq(Event) /\ Capacity \in Nat /\ Capacity > 0
    BY DEF StreamInv, StreamTypeOK, MakeRoom
  <1>4. Len(queue) = IF Capacity <= Len(log) THEN Capacity ELSE Len(log)
    BY <1>2, <1>3, LastOfType
  <1>5. CASE Capacity <= Len(log)
    <2>1. queue' = Tail(queue)
      BY <1>4, <1>5 DEF MakeRoom
    <2>2. Tail(R!LastOf(log, Capacity)) = R!LastOf(log, Capacity - 1)
      BY <1>3, <1>5, LastOfTail
    <2>3. Smaller(Len(log), Capacity - 1) = Capacity - 1
      BY <1>3, <1>5 DEF Smaller
    <2>4. QED
      BY <1>2, <2>1, <2>2, <2>3
  <1>6. CASE Len(log) < Capacity
    <2>1. Len(queue) # Capacity
      BY <1>3, <1>4, <1>6
    <2>2. queue' = queue
      BY <2>1 DEF MakeRoom
    <2>3. R!LastOf(log, Capacity) = log /\ R!LastOf(log, Len(log)) = log
      BY <1>3, <1>6, LastOfAll
    <2>4. Smaller(Len(log), Capacity - 1) = Len(log)
      BY <1>3, <1>6 DEF Smaller
    <2>5. QED
      BY <1>2, <2>2, <2>3, <2>4
  <1>7. QED
    BY <1>3, <1>5, <1>6

\* Pushing completes the queue again.
LEMMA PushStep ==
  ASSUME StreamInv, NEW t \in Thread, Push(t)
  PROVE  queue' = R!LastOf(log', Capacity)
  <1>1. step[t] = "push" /\ arg[t] \in Event
    BY DEF Push, StreamInv, StreamTypeOK, Recording
  <1>2. log \in Seq(Event) /\ Capacity \in Nat /\ Capacity > 0
    BY <1>1 DEF StreamInv, StreamTypeOK
  <1>3. queue = R!LastOf(log, Smaller(Len(log), Capacity - 1))
    BY <1>1 DEF StreamInv, RetainsTheRecent
  <1>4. PICK n \in 0 .. Len(log) : n = Smaller(Len(log), Capacity - 1)
    BY <1>2 DEF Smaller
  <1>5. queue' = R!LastOf(log', n + 1)
    BY <1>1, <1>2, <1>3, <1>4, LastOfAppend DEF Push
  <1>6. CASE n = Capacity - 1
    BY <1>2, <1>5, <1>6
  <1>7. CASE n = Len(log) /\ n < Capacity - 1
    <2>1. log' \in Seq(Event) /\ Len(log') = Len(log) + 1
      BY <1>1, <1>2, AppendProperties DEF Push
    <2>2. R!LastOf(log', n + 1) = log' /\ R!LastOf(log', Capacity) = log'
      BY <1>2, <1>7, <2>1, LastOfAll
    <2>3. QED
      BY <1>5, <2>2
  <1>8. QED
    BY <1>2, <1>4, <1>6, <1>7 DEF Smaller

\* No step breaks the invariant.
LEMMA StreamInvStep ==
  ASSUME StreamInv, [StreamNext]_streamVars
  PROVE  StreamInv'
  <1> USE DEF StreamInv
  <1>1. StreamTypeOK /\ StreamTypeOK'
    BY StreamTypeStep
  <1>2. ASSUME UNCHANGED <<queue, log>>,
               NEW t \in Thread, NEW s \in {"idle", "record", "recent", "make room", "copy"},
               step[t] # "push", step' = [step EXCEPT ![t] = s]
        PROVE  StreamInv'
    <2>1. \A u \in Thread : step'[u] = "push" <=> step[u] = "push"
      BY <1>1, <1>2 DEF StreamTypeOK
    <2>2. QED
      BY <1>1, <1>2, <2>1 DEF RetainsTheRecent, R!LastOf
  <1>3. ASSUME NEW t \in Thread, \/ \E e \in Event : CallRecord(t, e)
                                 \/ \E n \in Limits : CallRecent(t, n)
        PROVE  StreamInv'
    BY <1>2, <1>3 DEF CallRecord, CallRecent, Call
  <1>4. ASSUME NEW t \in Thread, LockToRecord(t) \/ RecentNone(t) \/ LockToCopy(t) \/ Copy(t)
        PROVE  StreamInv'
    BY <1>2, <1>4 DEF LockToRecord, RecentNone, LockToCopy, Copy, To, Return
  <1>5. ASSUME NEW t \in Thread, MakeRoom(t)
        PROVE  StreamInv'
    <2>1. step'[t] = "push" /\ log' = log /\ Capacity > 0
      BY <1>1, <1>5 DEF MakeRoom, To, StreamTypeOK
    <2>2. queue' = R!LastOf(log, Smaller(Len(log), Capacity - 1))
      BY <1>5, MakeRoomStep
    <2>3. QED
      BY <1>1, <2>1, <2>2 DEF RetainsTheRecent
  <1>6. ASSUME NEW t \in Thread, DropAtOnce(t)
        PROVE  StreamInv'
    <2>1. Capacity = 0 /\ queue' = queue
      BY <1>5, <1>6 DEF DropAtOnce
    <2>2. \A u \in Thread : step[u] # "push" /\ step'[u] # "push"
      BY <1>1, <1>6, OnlyOneWorks DEF DropAtOnce, Return, StreamTypeOK
    <2>3. queue = R!LastOf(log, 0)
      BY <2>1, <2>2 DEF RetainsTheRecent
    <2>4. R!LastOf(log, 0) = R!LastOf(log', 0)
      <3>1. log \in Seq(Event) /\ log' \in Seq(Event)
        BY <1>1 DEF StreamTypeOK
      <3>2. QED
        BY <3>1, LastOfNone
    <2>5. QED
      BY <1>1, <2>1, <2>2, <2>3, <2>4 DEF RetainsTheRecent
  <1>7. ASSUME NEW t \in Thread, Push(t)
        PROVE  StreamInv'
    <2>1. \A u \in Thread : step'[u] # "push"
      BY <1>1, <1>7, OnlyOneWorks DEF Push, Return, StreamTypeOK
    <2>2. queue' = R!LastOf(log', Capacity)
      BY <1>7, PushStep
    <2>3. QED
      BY <1>1, <2>1, <2>2 DEF RetainsTheRecent
  <1>8. CASE UNCHANGED streamVars
    BY <1>1, <1>8 DEF streamVars, RetainsTheRecent, R!LastOf
  <1>9. QED
    BY <1>3, <1>4, <1>5, <1>6, <1>7, <1>8 DEF StreamNext, Step, Enter

\* The invariant holds at the start.
LEMMA StreamInvInit == StreamInit => StreamInv
  <1> SUFFICES ASSUME StreamInit PROVE StreamInv
    OBVIOUS
  <1>1. StreamTypeOK
    BY EmptySeq DEF StreamInit, StreamTypeOK, Recording, Replaying
  <1>2. \A t \in Thread : step[t] # "push"
    BY DEF StreamInit
  <1>3. <<>> \in Seq(Event) /\ Len(<<>>) = 0 /\ Capacity \in Nat
    BY EmptySeq
  <1>4. R!LastOf(<<>>, Capacity) = <<>>
    BY <1>3, LastOfNone
  <1>5. QED
    BY <1>1, <1>2, <1>4 DEF StreamInv, RetainsTheRecent, StreamInit

\* The queue holds exactly the most recent events.
THEOREM StreamRetainsTheRecent == StreamSpec => []RetainsTheRecent
  <1>1. StreamInit => StreamInv
    BY StreamInvInit
  <1>2. StreamInv => RetainsTheRecent
    BY DEF StreamInv
  <1>3. QED
    BY <1>1, <1>2, StreamInvStep, PTL DEF StreamSpec

-----------------------------------------------------------------------------
(* The stream is the log that the trait promises.                          *)

\* Every step is a step of the log, or none.
LEMMA ReplayStep ==
  ASSUME StreamInv, [StreamNext]_streamVars
  PROVE  [R!ReplayNext]_(R!replayVars)
  <1> USE DEF R!replayVars
  <1>1. StreamTypeOK
    BY DEF StreamInv
  <1>2. ASSUME NEW t \in Thread, DropAtOnce(t) \/ Push(t)
        PROVE  \E e \in Event : R!Append1(e)
    <2>1. arg[t] \in Event
      BY <1>1, <1>2 DEF DropAtOnce, Push, StreamTypeOK, Recording
    <2>2. R!Append1(arg[t])
      BY <1>2 DEF DropAtOnce, Push, R!Append1
    <2>3. QED
      BY <2>1, <2>2
  <1>3. ASSUME NEW t \in Thread, RecentNone(t)
        PROVE  \E n \in Limits : R!Recent(t, n)
    <2>1. 0 \in Limits /\ log \in Seq(Event)
      BY <1>1, <1>3 DEF RecentNone, StreamTypeOK, Replaying
    <2>2. R!LastOf(R!LastOf(log, Capacity), 0) = <<>>
      <3>1. R!LastOf(log, Capacity) \in Seq(Event)
        BY <2>1, LastOfType
      <3>2. QED
        BY <3>1, LastOfNone
    <2>3. R!Recent(t, 0)
      BY <1>3, <2>2 DEF RecentNone, R!Recent
    <2>4. QED
      BY <2>1, <2>3
  <1>4. ASSUME NEW t \in Thread, Copy(t)
        PROVE  \E n \in Limits : R!Recent(t, n)
    <2>1. arg[t] \in Limits /\ arg[t] \in Nat /\ queue \in Seq(Event)
      BY <1>1, <1>4 DEF Copy, StreamTypeOK, Replaying
    <2>2. \A u \in Thread : step[u] # "push"
      BY <1>1, <1>4, OnlyOneWorks DEF Copy
    <2>3. queue = R!LastOf(log, Capacity)
      BY <2>2 DEF StreamInv, RetainsTheRecent
    <2>4. SubSeq(queue, Len(queue) - Smaller(arg[t], Len(queue)) + 1, Len(queue))
            = R!LastOf(queue, arg[t])
      BY <2>1, LastOfSkip
    <2>5. R!Recent(t, arg[t])
      BY <1>4, <2>3, <2>4 DEF Copy, R!Recent
    <2>6. QED
      BY <2>1, <2>5
  <1>5. ASSUME NEW t \in Thread,
               \/ \E e \in Event : CallRecord(t, e)
               \/ \E n \in Limits : CallRecent(t, n)
               \/ LockToRecord(t) \/ MakeRoom(t) \/ LockToCopy(t)
        PROVE  UNCHANGED R!replayVars
    BY <1>5 DEF CallRecord, CallRecent, LockToRecord, MakeRoom, LockToCopy
  <1>6. CASE UNCHANGED streamVars
    BY <1>6 DEF streamVars
  <1>7. QED
    BY <1>2, <1>3, <1>4, <1>5, <1>6 DEF StreamNext, Step, Enter, R!ReplayNext

\* The queue with its lock, its capacity and its two-step push implements the
\* log: each answer is the end of what has been recorded.
THEOREM StreamImplementsReplay == StreamSpec => ImplementsReplay
  <1>1. StreamInit => StreamInv
    BY StreamInvInit
  <1>2. StreamInit => R!ReplayInit
    BY DEF StreamInit, R!ReplayInit
  <1>3. QED
    BY <1>1, <1>2, StreamInvStep, ReplayStep, PTL
    DEF StreamSpec, ImplementsReplay, R!ReplaySpec

-----------------------------------------------------------------------------
(* Working memory: what a plan makes of a memory.                          *)

\* Mutations ms: one archives m, the first k of them do, and the updates of m
\* among the first k that find it active.
Archives(ms, i, m) == ms[i].op = "archive" /\ ms[i].id = m
GoneBy(ms, k, m)   == \E i \in 1 .. k : Archives(ms, i, m)
Updates(ms, k, m)  ==
  {i \in 1 .. k : ms[i].op = "update" /\ ms[i].id = m /\ ~GoneBy(ms, i - 1, m)}

\* A memory that said old says t after the first k of them.
LastSays(ms, k, m, old, t) ==
  \/ Updates(ms, k, m) = {} /\ t = old
  \/ \E i \in Updates(ms, k, m) : t = ms[i].text /\ \A j \in Updates(ms, k, m) : j <= i

\* Mutations of the plan that the execution under way has behind it.
Done == Len(mutations) - Len(todo)

\* A memory that was active and said old when a plan of the mutations ms was
\* made has now the status s and the text t: it is as one execution leaves
\* it, or still on the way there, and in the last case, if the execution is
\* still under way and has come to k, not further than that.
OnTheWay(ms, k, running, m, old, s, t) ==
  LET n == Len(ms) IN
    \/ s = "archived" /\ GoneBy(ms, n, m) /\ LastSays(ms, n, m, old, t)
    \/ /\ s = "active"
       /\ t = old \/ \E i \in Updates(ms, n, m) : t = ms[i].text
       /\ running => /\ ~GoneBy(ms, k, m)
                     /\ Updates(ms, k, m) = {} \/ LastSays(ms, k, m, old, t)

AsPlanned(m) ==
  /\ base.status[m] = "archived" => status[m] = "archived" /\ text[m] = base.text[m]
  /\ base.status[m] = "active" =>
       OnTheWay(mutations, Done, ~crashed, m, base.text[m], status[m], text[m])

\* Mutations ms change what the groups gs and the discarded ids name, and
\* update the first memory of every group.
Names(ms, gs, ids) ==
  /\ \A x \in Range(ms) :
       /\ x.op = "update" =>
            \E g \in Range(gs) : g # <<>> /\ x = Update(Primary(g), Notes(g))
       /\ x.op = "archive" =>
            \/ x.id \in ids \cup {Unknown}
            \/ \E g \in Range(gs) : x.id \in IdsOf(g) \ {Primary(g)}
  /\ \A g \in Range(gs) : g # <<>> => Update(Primary(g), Notes(g)) \in Range(ms)

\* Types.
TextOf   == SUBSET (Old \cup {k.note : k \in Kinds})
Mutation ==
  [op : {"insert"}, text : TextOf] \cup [op : {"update"}, id : MemoryId \cup {Unknown}, text : TextOf]
    \cup [op : {"archive"}, id : MemoryId \cup {Unknown}] \cup [op : {"edge"}, target : MemoryId]
Status   == {"none", "active", "archived"}
Texts    == [MemoryId -> TextOf]
StoreOf  == [status : [MemoryId -> Status], text : Texts]
Item     == [kind : Kinds, born : Nat, ttl : Nat \cup {Never}]

WMTypes ==
  /\ now \in Nat /\ changes \in Nat /\ crashed \in BOOLEAN /\ discarded \in SUBSET Old
  /\ status \in [MemoryId -> Status] /\ text \in Texts /\ base \in StoreOf
  /\ buffer \in [Session -> Seq(Item)] /\ groups \in Seq(Seq(Kinds))
  /\ mutations \in Seq(Mutation) /\ todo \in Seq(Mutation) /\ Len(todo) <= Len(mutations)
  /\ \A j \in 1 .. Len(todo) : todo[j] = mutations[Done + j]
  /\ crashed => todo = <<>>

\* The plan is one for its groups and its event, and what it has changed is as
\* it says, unless others interfere.
WMInv ==
  /\ WMTypes /\ Names(mutations, groups, discarded)
  /\ changes = 0 => \A m \in MemoryId : base.status[m] # "none" => AsPlanned(m)

\* Mutation x is about the memory m.
About(x, m) == x.op \in {"update", "archive"} /\ x.id = m

\* A mutation that is about another memory, or none, changes nothing for m.
LEMMA OneMoreApart ==
  ASSUME NEW ms, NEW k \in Nat, NEW m, ~About(ms[k + 1], m)
  PROVE  /\ Updates(ms, k + 1, m) = Updates(ms, k, m)
         /\ GoneBy(ms, k + 1, m) <=> GoneBy(ms, k, m)
         /\ \A old, t : LastSays(ms, k + 1, m, old, t) <=> LastSays(ms, k, m, old, t)
  <1>1. \A i \in 1 .. k + 1 : i \in 1 .. k \/ i = k + 1
    OBVIOUS
  <1>2. \A i \in 1 .. k : i \in 1 .. k + 1
    OBVIOUS
  <1>3. Updates(ms, k + 1, m) = Updates(ms, k, m)
    BY <1>1, <1>2 DEF Updates, About
  <1>4. GoneBy(ms, k + 1, m) <=> GoneBy(ms, k, m)
    BY <1>1, <1>2 DEF GoneBy, Archives, About
  <1>5. QED
    BY <1>3, <1>4 DEF LastSays

\* An update that finds m says the last word so far.
LEMMA OneMoreUpdate ==
  ASSUME NEW ms, NEW k \in Nat, NEW m, ms[k + 1].op = "update", ms[k + 1].id = m, ~GoneBy(ms, k, m)
  PROVE  /\ k + 1 \in Updates(ms, k + 1, m) /\ ~GoneBy(ms, k + 1, m)
         /\ \A old : LastSays(ms, k + 1, m, old, ms[k + 1].text)
  <1>1. \A i \in 1 .. k + 1 : i \in 1 .. k \/ i = k + 1
    OBVIOUS
  <1>2. k + 1 \in 1 .. k + 1 /\ (k + 1) - 1 = k
    OBVIOUS
  <1>3. k + 1 \in Updates(ms, k + 1, m)
    BY <1>2 DEF Updates
  <1>4. ~GoneBy(ms, k + 1, m)
    BY <1>1 DEF GoneBy, Archives
  <1>5. \A j \in Updates(ms, k + 1, m) : j <= k + 1
    BY DEF Updates
  <1>6. QED
    BY <1>3, <1>4, <1>5 DEF LastSays

\* After one that archives m nothing is said.
LEMMA OneMoreArchive ==
  ASSUME NEW ms, NEW k \in Nat, NEW m, Archives(ms, k + 1, m)
  PROVE  /\ Updates(ms, k + 1, m) = Updates(ms, k, m) /\ GoneBy(ms, k + 1, m)
         /\ \A old, t : LastSays(ms, k + 1, m, old, t) <=> LastSays(ms, k, m, old, t)
  <1>1. \A i \in 1 .. k + 1 : i \in 1 .. k \/ i = k + 1
    OBVIOUS
  <1>2. \A i \in 1 .. k : i \in 1 .. k + 1
    OBVIOUS
  <1>3. k + 1 \in 1 .. k + 1
    OBVIOUS
  <1>4. Updates(ms, k + 1, m) = Updates(ms, k, m)
    BY <1>1, <1>2 DEF Updates, Archives
  <1>5. GoneBy(ms, k + 1, m)
    BY <1>3 DEF GoneBy
  <1>6. QED
    BY <1>4, <1>5 DEF LastSays

\* Once one archives m, later ones do not matter.
LEMMA GoneForever ==
  ASSUME NEW ms, NEW k \in Nat, NEW n \in Nat, k <= n, NEW m, GoneBy(ms, k, m)
  PROVE  /\ Updates(ms, n, m) = Updates(ms, k, m) /\ GoneBy(ms, n, m)
         /\ \A old, t : LastSays(ms, n, m, old, t) <=> LastSays(ms, k, m, old, t)
  <1>1. PICK a \in 1 .. k : Archives(ms, a, m)
    BY DEF GoneBy
  <1>2. \A i \in 1 .. n : i \in 1 .. k \/ a \in 1 .. i - 1
    OBVIOUS
  <1>3. \A i \in 1 .. k : i \in 1 .. n
    OBVIOUS
  <1>4. \A i \in 1 .. n : ~(i \in 1 .. k) => GoneBy(ms, i - 1, m)
    BY <1>1, <1>2 DEF GoneBy
  <1>5. Updates(ms, n, m) = Updates(ms, k, m)
    BY <1>3, <1>4 DEF Updates
  <1>6. GoneBy(ms, n, m)
    BY <1>1, <1>3 DEF GoneBy
  <1>7. QED
    BY <1>5, <1>6 DEF LastSays

\* More mutations, more updates.
LEMMA UpdatesGrow ==
  ASSUME NEW ms, NEW k \in Nat, NEW n \in Nat, k <= n, NEW m
  PROVE  Updates(ms, k, m) \subseteq Updates(ms, n, m)
  BY DEF Updates

\* Only one text is the last one.
LEMMA SaysOne ==
  ASSUME NEW ms, NEW k \in Nat, NEW m, NEW old, NEW t, NEW u,
         LastSays(ms, k, m, old, t), LastSays(ms, k, m, old, u)
  PROVE  t = u
  <1>1. \A i \in Updates(ms, k, m) : i \in Nat
    BY DEF Updates
  <1> DEFINE U == Updates(ms, k, m)
  <1>2. CASE U = {}
    BY <1>2 DEF LastSays
  <1>3. CASE U # {}
    <2>1. PICK i \in U : t = ms[i].text /\ \A j \in U : j <= i
      BY <1>3 DEF LastSays
    <2>2. PICK l \in U : u = ms[l].text /\ \A j \in U : j <= l
      BY <1>3 DEF LastSays
    <2>3. i = l
      BY <1>1, <2>1, <2>2
    <2>4. QED
      BY <2>1, <2>2, <2>3
  <1>4. QED
    BY <1>2, <1>3

\* Before the first mutation nothing is said or gone.
LEMMA NothingYet ==
  ASSUME NEW ms, NEW m
  PROVE  Updates(ms, 0, m) = {} /\ ~GoneBy(ms, 0, m) /\ \A old : LastSays(ms, 0, m, old, old)
  BY DEF Updates, GoneBy, LastSays

\* What a mutation does to a store.
LEMMA ApplyFacts ==
  ASSUME NEW x \in Mutation, x.op # "insert", NEW s \in StoreOf
  PROVE  /\ Apply(x, s) \in StoreOf
         /\ \A m \in MemoryId :
              LET hit == About(x, m) /\ s.status[m] = "active" IN
              /\ Apply(x, s).status[m] =
                   IF hit /\ x.op = "archive" THEN "archived" ELSE s.status[m]
              /\ Apply(x, s).text[m] = IF hit /\ x.op = "update" THEN x.text ELSE s.text[m]
  <1>1. s.status \in [MemoryId -> Status] /\ s.text \in Texts
    BY DEF StoreOf
  <1>2. x.op \in {"edge", "update", "archive"}
    BY DEF Mutation
  <1>3. s = [status |-> s.status, text |-> s.text]
    BY DEF StoreOf
  <1>4. CASE x.op = "edge" \/ x.id \notin MemoryId \/ s.status[x.id] # "active"
    <2>1. Apply(x, s) = s
      BY <1>4 DEF Apply
    <2>2. \A m \in MemoryId : ~(About(x, m) /\ s.status[m] = "active")
      BY <1>4 DEF About
    <2>3. QED
      BY <2>1, <2>2
  <1>5. CASE x.op = "update" /\ x.id \in MemoryId /\ s.status[x.id] = "active"
    <2>1. x.text \in TextOf
      BY <1>5 DEF Mutation
    <2> DEFINE after == [s EXCEPT !.text[x.id] = x.text]
    <2>2. Apply(x, s) = after
      BY <1>5 DEF Apply
    <2>3. after.status = s.status /\ after.text = [s.text EXCEPT ![x.id] = x.text]
      BY <1>3
    <2>4. after = [status |-> after.status, text |-> after.text]
      BY <1>3
    <2> HIDE DEF after
    <2>5. after.text \in Texts
      BY <1>1, <2>1, <2>3 DEF Texts
    <2>6. after \in StoreOf
      BY <1>1, <2>3, <2>4, <2>5 DEF StoreOf
    <2>7. \A m \in MemoryId : About(x, m) <=> m = x.id
      BY <1>5 DEF About
    <2>8. \A m \in MemoryId : after.text[m] = IF m = x.id THEN x.text ELSE s.text[m]
      BY <1>1, <2>3 DEF Texts
    <2>9. QED
      BY <1>5, <2>2, <2>3, <2>6, <2>7, <2>8
  <1>6. CASE x.op = "archive" /\ x.id \in MemoryId /\ s.status[x.id] = "active"
    <2> DEFINE after == [s EXCEPT !.status[x.id] = "archived"]
    <2>1. Apply(x, s) = after
      BY <1>6 DEF Apply
    <2>2. after.text = s.text /\ after.status = [s.status EXCEPT ![x.id] = "archived"]
      BY <1>3
    <2>3. after = [status |-> after.status, text |-> after.text]
      BY <1>3
    <2> HIDE DEF after
    <2>4. after.status \in [MemoryId -> Status]
      BY <1>1, <2>2 DEF Status
    <2>5. after \in StoreOf
      BY <1>1, <2>2, <2>3, <2>4 DEF StoreOf
    <2>6. \A m \in MemoryId : About(x, m) <=> m = x.id
      BY <1>6 DEF About
    <2>7. \A m \in MemoryId : after.status[m] = IF m = x.id THEN "archived" ELSE s.status[m]
      BY <1>1, <2>2
    <2>8. QED
      BY <1>6, <2>1, <2>2, <2>5, <2>6, <2>7
  <1>7. QED
    BY <1>2, <1>4, <1>5, <1>6

\* One turn of the executor brings a memory one mutation further.
LEMMA OneTurn ==
  ASSUME NEW ms, NEW n \in Nat, n = Len(ms), NEW k \in Nat, k < n, NEW m, NEW old, NEW s, NEW t,
         OnTheWay(ms, k, TRUE, m, old, s, t), NEW x, x = ms[k + 1], NEW s2, NEW t2,
         s2 = (IF (About(x, m) /\ s = "active") /\ x.op = "archive" THEN "archived" ELSE s),
         t2 = (IF (About(x, m) /\ s = "active") /\ x.op = "update" THEN x.text ELSE t)
  PROVE  OnTheWay(ms, k + 1, TRUE, m, old, s2, t2)
  <1>1. CASE s = "archived"
    BY <1>1 DEF OnTheWay
  <1>2. CASE s = "active" /\ ~About(x, m)
    <2>1. s2 = s /\ t2 = t
      BY <1>2
    <2>2. /\ Updates(ms, k + 1, m) = Updates(ms, k, m)
          /\ GoneBy(ms, k + 1, m) <=> GoneBy(ms, k, m)
          /\ LastSays(ms, k + 1, m, old, t) <=> LastSays(ms, k, m, old, t)
      BY <1>2, OneMoreApart
    <2>3. QED
      BY <1>2, <2>1, <2>2 DEF OnTheWay
  <1>3. CASE s = "active" /\ About(x, m) /\ x.op = "update"
    <2>1. s2 = "active" /\ t2 = ms[k + 1].text
      BY <1>3
    <2>2. ~GoneBy(ms, k, m)
      BY <1>3 DEF OnTheWay
    <2>3. /\ k + 1 \in Updates(ms, k + 1, m) /\ ~GoneBy(ms, k + 1, m)
          /\ LastSays(ms, k + 1, m, old, t2)
      BY <1>3, <2>1, <2>2, OneMoreUpdate DEF About
    <2>4. k + 1 \in Updates(ms, n, m)
      BY <2>3, UpdatesGrow
    <2>5. QED
      BY <2>1, <2>3, <2>4 DEF OnTheWay
  <1>4. CASE s = "active" /\ About(x, m) /\ x.op = "archive"
    <2>1. s2 = "archived" /\ t2 = t
      BY <1>4
    <2>2. Archives(ms, k + 1, m)
      BY <1>4 DEF Archives, About
    <2>3. /\ Updates(ms, k + 1, m) = Updates(ms, k, m) /\ GoneBy(ms, k + 1, m)
          /\ LastSays(ms, k + 1, m, old, t) <=> LastSays(ms, k, m, old, t)
      BY <2>2, OneMoreArchive
    <2>4. k + 1 \in Nat /\ k + 1 <= n
      OBVIOUS
    <2>5. /\ Updates(ms, n, m) = Updates(ms, k + 1, m) /\ GoneBy(ms, n, m)
          /\ LastSays(ms, n, m, old, t) <=> LastSays(ms, k + 1, m, old, t)
      BY <2>3, <2>4, GoneForever
    <2>6. LastSays(ms, k, m, old, t)
      <3>1. CASE Updates(ms, k, m) = {}
        <4>1. t = old
          BY <1>4, <2>3, <2>5, <3>1 DEF OnTheWay
        <4>2. QED
          BY <3>1, <4>1 DEF LastSays
      <3>2. CASE Updates(ms, k, m) # {}
        BY <1>4, <3>2 DEF OnTheWay
      <3>3. QED
        BY <3>1, <3>2
    <2>7. QED
      BY <2>1, <2>3, <2>5, <2>6 DEF OnTheWay
  <1>5. s \in {"active", "archived"}
    BY DEF OnTheWay
  <1>6. QED
    BY <1>1, <1>2, <1>3, <1>4, <1>5 DEF About

\* The execution of a mutation.
LEMMA PerformStep ==
  ASSUME WMInv, Execute, Perform
  PROVE  WMInv'
  <1> DEFINE x == Head(todo)
             rest == Tail(todo)
             k == Done
             n == Len(mutations)
             store == [status |-> status, text |-> text]
             after == Apply(x, store)
  <1>1. /\ todo # <<>> /\ todo \in Seq(Mutation) /\ mutations \in Seq(Mutation)
        /\ Len(todo) <= n /\ \A j \in 1 .. Len(todo) : todo[j] = mutations[k + j]
        /\ status \in [MemoryId -> Status] /\ text \in Texts /\ base \in StoreOf
        /\ ~crashed
    BY DEF Execute, WMInv, WMTypes
  <1>2. /\ todo' = rest
        /\ UNCHANGED <<now, buffer, mutations, base, groups, discarded, crashed, plans, changes>>
    BY DEF Execute, Perform
  <1>3. /\ n \in Nat /\ Len(todo) \in Nat /\ Len(todo) >= 1
        /\ x = todo[1] /\ x \in Mutation
        /\ rest \in Seq(Mutation) /\ Len(rest) = Len(todo) - 1
        /\ \A j \in 1 .. Len(rest) : rest[j] = todo[j + 1]
    <2> DEFINE M == Mutation
    <2>1. todo \in Seq(M) /\ todo # <<>> /\ mutations \in Seq(M)
      BY <1>1
    <2> HIDE DEF M
    <2>2. /\ Head(todo) \in M /\ Tail(todo) \in Seq(M) /\ Head(todo) = todo[1]
          /\ Len(todo) \in Nat /\ Len(todo) >= 1 /\ Len(Tail(todo)) = Len(todo) - 1
          /\ \A j \in 1 .. Len(todo) - 1 : Tail(todo)[j] = todo[j + 1]
      BY <2>1, HeadTailProperties, LenProperties, EmptySeq
    <2>3. n \in Nat
      BY <2>1, LenProperties
    <2>4. QED
      BY <2>2, <2>3 DEF M
  <1>4. k = n - Len(todo)
    BY DEF Done
  <1>5. Done' = n - Len(rest)
    BY <1>2 DEF Done
  <1> HIDE DEF x, rest, k, n
  <1>6. k \in Nat /\ k < n /\ x = mutations[k + 1] /\ Done' = k + 1
    BY <1>1, <1>3, <1>4, <1>5
  <1>7. Len(rest) <= n /\ \A j \in 1 .. Len(rest) : rest[j] = mutations[(k + 1) + j]
    <2>1. ASSUME NEW j \in 1 .. Len(rest)
          PROVE  rest[j] = mutations[(k + 1) + j]
      <3>1. j + 1 \in 1 .. Len(todo) /\ k + (j + 1) = (k + 1) + j
        BY <1>3, <1>6
      <3>2. rest[j] = todo[j + 1] /\ todo[j + 1] = mutations[k + (j + 1)]
        BY <1>1, <1>3, <3>1
      <3>3. QED
        BY <3>1, <3>2
    <2>2. QED
      BY <1>1, <1>3, <2>1
  <1>8. CASE x.op = "insert"
    <2>1. PICK m \in MemoryId :
            /\ status[m] = "none"
            /\ status' = [status EXCEPT ![m] = "active"]
            /\ text' = [text EXCEPT ![m] = x.text]
      BY <1>8 DEF Perform, x
    <2>2. x.text \in TextOf
      BY <1>3, <1>8 DEF Mutation
    <2>3. status' \in [MemoryId -> Status] /\ text' \in Texts
      BY <1>1, <2>1, <2>2 DEF Status, Texts
    <2>4. WMTypes'
      BY <1>1, <1>2, <1>3, <1>6, <1>7, <2>3 DEF WMInv, WMTypes, n
    <2>5. ASSUME changes = 0, NEW b \in MemoryId, base.status[b] # "none"
          PROVE  AsPlanned(b)'
      <3>1. AsPlanned(b)
        BY <2>5 DEF WMInv
      <3>2. status[b] # "none"
        <4>1. base.status[b] \in Status
          BY <1>1 DEF StoreOf
        <4>2. QED
          BY <2>5, <3>1, <4>1 DEF AsPlanned, OnTheWay, Status
      <3>3. status'[b] = status[b] /\ text'[b] = text[b]
        BY <1>1, <2>1, <3>2 DEF Texts
      <3>4. ~About(x, b)
        BY <1>8 DEF About
      <3>5. /\ Updates(mutations, k + 1, b) = Updates(mutations, k, b)
            /\ GoneBy(mutations, k + 1, b) <=> GoneBy(mutations, k, b)
            /\ \A old, t : LastSays(mutations, k + 1, b, old, t) <=> LastSays(mutations, k, b, old, t)
        BY <1>6, <3>4, OneMoreApart
      <3>6. OnTheWay(mutations, k, ~crashed, b, base.text[b], status[b], text[b])
              => OnTheWay(mutations, k + 1, ~crashed, b, base.text[b], status[b], text[b])
        BY <3>5 DEF OnTheWay
      <3>7. QED
        BY <1>2, <1>6, <3>1, <3>3, <3>6 DEF AsPlanned, k
    <2>6. Names(mutations, groups, discarded)'
      BY <1>2 DEF WMInv, Names
    <2>7. QED
      BY <1>2, <2>4, <2>5, <2>6 DEF WMInv
  <1>9. CASE x.op # "insert"
    <2>1. status' = after.status /\ text' = after.text
      BY <1>9 DEF Perform, x
    <2>2. store \in StoreOf
      BY <1>1 DEF StoreOf
    <2>3. /\ after \in StoreOf
          /\ \A m \in MemoryId :
               LET hit == About(x, m) /\ store.status[m] = "active" IN
               /\ after.status[m] =
                    IF hit /\ x.op = "archive" THEN "archived" ELSE store.status[m]
               /\ after.text[m] = IF hit /\ x.op = "update" THEN x.text ELSE store.text[m]
      <3> HIDE DEF store
      <3>1. QED
        BY <1>3, <1>9, <2>2, ApplyFacts
    <2>4. store.status = status /\ store.text = text
      OBVIOUS
    <2> HIDE DEF after, store
    <2>5. status' \in [MemoryId -> Status] /\ text' \in Texts
      BY <2>1, <2>3 DEF StoreOf
    <2>6. WMTypes'
      BY <1>1, <1>2, <1>3, <1>6, <1>7, <2>5 DEF WMInv, WMTypes, n
    <2>7. ASSUME changes = 0, NEW b \in MemoryId, base.status[b] # "none"
          PROVE  AsPlanned(b)'
      <3>1. AsPlanned(b)
        BY <2>7 DEF WMInv
      <3>2. /\ status'[b] = IF (About(x, b) /\ status[b] = "active") /\ x.op = "archive"
                            THEN "archived" ELSE status[b]
            /\ text'[b] = IF (About(x, b) /\ status[b] = "active") /\ x.op = "update"
                          THEN x.text ELSE text[b]
        BY <2>1, <2>3, <2>4
      <3>3. CASE base.status[b] = "archived"
        BY <1>2, <3>1, <3>2, <3>3 DEF AsPlanned
      <3>4. CASE base.status[b] = "active"
        <4>1. OnTheWay(mutations, k, TRUE, b, base.text[b], status[b], text[b])
          BY <1>1, <3>1, <3>4 DEF AsPlanned, k
        <4>2. n = Len(mutations)
          BY DEF n
        <4>3. OnTheWay(mutations, k + 1, TRUE, b, base.text[b], status'[b], text'[b])
          BY <1>3, <1>6, <3>2, <4>1, <4>2, OneTurn
        <4>4. QED
          BY <1>1, <1>2, <1>6, <3>4, <4>3 DEF AsPlanned
      <3>5. base.status[b] \in Status
        BY <1>1 DEF StoreOf
      <3>6. QED
        BY <2>7, <3>3, <3>4, <3>5 DEF Status
    <2>8. Names(mutations, groups, discarded)'
      BY <1>2 DEF WMInv, Names
    <2>9. QED
      BY <1>2, <2>6, <2>7, <2>8 DEF WMInv
  <1>10. QED
    BY <1>8, <1>9

\* What is left of a plan when the mutation at its head is done or skipped.
LEMMA RestOfPlan ==
  ASSUME WMTypes, todo # <<>>, todo' = Tail(todo), mutations' = mutations
  PROVE  /\ todo' \in Seq(Mutation) /\ Len(todo') <= Len(mutations)
         /\ \A j \in 1 .. Len(todo') : todo'[j] = mutations[Done' + j]
  <1> DEFINE M == Mutation
             rest == Tail(todo)
             n == Len(mutations)
  <1>1. /\ todo \in Seq(M) /\ todo # <<>> /\ mutations \in Seq(M)
        /\ Len(todo) <= n /\ \A j \in 1 .. Len(todo) : todo[j] = mutations[Done + j]
    BY DEF WMTypes
  <1>2. Done = n - Len(todo) /\ Done' = n - Len(rest)
    BY DEF Done
  <1> HIDE DEF M
  <1>3. /\ rest \in Seq(M) /\ Len(todo) \in Nat /\ Len(rest) = Len(todo) - 1
        /\ \A j \in 1 .. Len(todo) - 1 : rest[j] = todo[j + 1]
    BY <1>1, HeadTailProperties, LenProperties, EmptySeq
  <1>4. n \in Nat
    BY <1>1, LenProperties
  <1> HIDE DEF rest, n
  <1>5. ASSUME NEW j \in 1 .. Len(rest)
        PROVE  rest[j] = mutations[Done' + j]
    <2>1. j + 1 \in 1 .. Len(todo) /\ Done + (j + 1) = Done' + j
      BY <1>2, <1>3, <1>4
    <2>2. rest[j] = todo[j + 1] /\ todo[j + 1] = mutations[Done + (j + 1)]
      BY <1>1, <1>3, <2>1
    <2>3. QED
      BY <2>1, <2>2
  <1>6. Len(rest) <= n
    BY <1>1, <1>3, <1>4
  <1>7. QED
    BY <1>3, <1>5, <1>6 DEF M, rest, n

\* A mutation that is skipped keeps the types.
LEMMA SkipKeepsTypes ==
  ASSUME WMTypes, todo # <<>>, todo' = Tail(todo), changes' = changes + 1, ~crashed,
         UNCHANGED <<now, buffer, status, text, mutations, base, groups, discarded, crashed>>
  PROVE  WMTypes'
  <1>1. /\ todo' \in Seq(Mutation) /\ Len(todo') <= Len(mutations')
        /\ \A j \in 1 .. Len(todo') : todo'[j] = mutations'[Done' + j]
    BY RestOfPlan
  <1>2. changes' \in Nat /\ ~crashed'
    BY DEF WMTypes
  <1>3. /\ now' \in Nat /\ crashed' \in BOOLEAN /\ discarded' \in SUBSET Old
        /\ status' \in [MemoryId -> Status] /\ text' \in Texts /\ base' \in StoreOf
        /\ buffer' \in [Session -> Seq(Item)] /\ groups' \in Seq(Seq(Kinds))
        /\ mutations' \in Seq(Mutation)
    BY DEF WMTypes
  <1>4. QED
    BY <1>1, <1>2, <1>3 DEF WMTypes

\* The execution of a mutation: a skipped one counts as a change by others,
\* after which nothing is said of the memories.
LEMMA ExecuteStep ==
  ASSUME WMInv, Execute
  PROVE  WMInv'
  <1>1. CASE Perform
    BY <1>1, PerformStep
  <1>2. CASE changes < MaxChanges /\ changes' = changes + 1 /\ UNCHANGED <<status, text>>
    <2>1. /\ todo # <<>> /\ todo' = Tail(todo)
          /\ UNCHANGED <<now, buffer, mutations, base, groups, discarded, crashed, plans>>
      BY DEF Execute
    <2>2. WMTypes /\ ~crashed
      BY <2>1 DEF WMInv, WMTypes
    <2>3. WMTypes'
      BY <1>2, <2>1, <2>2, SkipKeepsTypes
    <2>4. Names(mutations, groups, discarded)'
      BY <2>1 DEF WMInv, Names
    <2>5. changes' # 0
      BY <1>2, <2>2 DEF WMTypes
    <2>6. QED
      BY <2>3, <2>4, <2>5 DEF WMInv
  <1>3. QED
    BY <1>1, <1>2 DEF Execute

\* A memory at the beginning of an execution.
LEMMA AtTheStart ==
  ASSUME NEW ms, NEW m, NEW old, NEW s, NEW t, s = "active",
         t = old \/ \E i \in Updates(ms, Len(ms), m) : t = ms[i].text
  PROVE  OnTheWay(ms, 0, TRUE, m, old, s, t)
  <1>1. Updates(ms, 0, m) = {} /\ ~GoneBy(ms, 0, m)
    BY NothingYet
  <1>2. QED
    BY <1>1 DEF OnTheWay

\* A plan is begun.
LEMMA StartStep ==
  ASSUME WMInv, NEW ms \in Seq(Mutation), NEW gs \in Seq(Seq(Kinds)), NEW ids \in SUBSET Old,
         Names(ms, gs, ids), Start(ms, gs, ids)
  PROVE  WMInv'
  <1>1. /\ mutations' = ms /\ todo' = ms /\ groups' = gs /\ discarded' = ids
        /\ base' = [status |-> status, text |-> text] /\ changes' = 0
        /\ UNCHANGED <<now, buffer, status, text, crashed>> /\ ~crashed
    BY DEF Start
  <1>2. /\ status \in [MemoryId -> Status] /\ text \in Texts
        /\ now \in Nat /\ buffer \in [Session -> Seq(Item)] /\ crashed \in BOOLEAN
    BY DEF WMInv, WMTypes
  <1>3. Len(ms) \in Nat
    BY LenProperties
  <1>4. Done' = 0
    BY <1>1, <1>3 DEF Done
  <1>5. (\A j \in 1 .. Len(todo) : todo[j] = mutations[Done + j])'
    <2>1. \A j \in 1 .. Len(ms) : ms[j] = ms[0 + j]
      OBVIOUS
    <2>2. QED
      BY <1>1, <1>4, <2>1
  <1>6. base' \in StoreOf
    BY <1>1, <1>2 DEF StoreOf
  <1>7. WMTypes'
    BY <1>1, <1>2, <1>3, <1>4, <1>5, <1>6 DEF WMTypes
  <1>8. Names(mutations, groups, discarded)'
    BY <1>1 DEF Names
  <1>9. ASSUME NEW m \in MemoryId PROVE AsPlanned(m)'
    <2>1. base'.status[m] = status[m] /\ base'.text[m] = text[m]
      BY <1>1
    <2>2. CASE status[m] = "active"
      <3>1. OnTheWay(ms, 0, TRUE, m, text[m], status[m], text[m])
        BY <2>2, AtTheStart
      <3>2. ~crashed' = TRUE
        BY <1>1, <1>2 DEF WMInv, WMTypes
      <3>3. QED
        BY <1>1, <1>4, <2>1, <2>2, <3>1, <3>2 DEF AsPlanned
    <2>3. CASE status[m] # "active"
      BY <1>1, <2>1, <2>3 DEF AsPlanned
    <2>4. QED
      BY <2>2, <2>3
  <1>10. QED
    BY <1>7, <1>8, <1>9 DEF WMInv

\* The plan is executed again.
LEMMA AgainStep ==
  ASSUME WMInv, Again
  PROVE  WMInv'
  <1>1. /\ todo' = mutations /\ crashed' = FALSE /\ todo = <<>>
        /\ UNCHANGED <<now, buffer, status, text, mutations, base, groups, discarded, changes>>
    BY DEF Again
  <1>2. /\ now \in Nat /\ changes \in Nat /\ discarded \in SUBSET Old
        /\ status \in [MemoryId -> Status] /\ text \in Texts /\ base \in StoreOf
        /\ buffer \in [Session -> Seq(Item)] /\ groups \in Seq(Seq(Kinds))
        /\ mutations \in Seq(Mutation)
    BY DEF WMInv, WMTypes
  <1>3. Len(mutations) \in Nat
    BY <1>2, LenProperties
  <1>4. Done' = 0
    BY <1>1, <1>3 DEF Done
  <1>5. (\A j \in 1 .. Len(todo) : todo[j] = mutations[Done + j])'
    <2>1. \A j \in 1 .. Len(mutations) : mutations[j] = mutations[0 + j]
      OBVIOUS
    <2>2. QED
      BY <1>1, <1>4, <2>1
  <1>6. WMTypes'
    <2>1. crashed' \in BOOLEAN /\ (crashed' => todo' = <<>>)
      BY <1>1
    <2>2. /\ UNCHANGED <<now, changes, discarded, status, text, base, buffer, groups, mutations>>
          /\ todo' \in Seq(Mutation) /\ Len(todo') <= Len(mutations')
      BY <1>1, <1>2, <1>3
    <2>3. QED
      BY <1>2, <1>5, <2>1, <2>2 DEF WMTypes
  <1>7. Names(mutations, groups, discarded)'
    BY <1>1 DEF WMInv, Names
  <1>8. ASSUME changes = 0, NEW m \in MemoryId, base.status[m] # "none"
        PROVE  AsPlanned(m)'
    <2>1. AsPlanned(m)
      BY <1>8 DEF WMInv
    <2>2. ASSUME OnTheWay(mutations, Done, ~crashed, m, base.text[m], status[m], text[m])
          PROVE  OnTheWay(mutations, 0, TRUE, m, base.text[m], status[m], text[m])
      <3>1. CASE status[m] = "archived"
        BY <2>2, <3>1 DEF OnTheWay
      <3>2. CASE status[m] # "archived"
        <4>1. /\ status[m] = "active"
              /\ text[m] = base.text[m] \/ \E i \in Updates(mutations, Len(mutations), m) : text[m] = mutations[i].text
          BY <2>2, <3>2 DEF OnTheWay
        <4>2. QED
          BY <4>1, AtTheStart
      <3>3. QED
        BY <3>1, <3>2
    <2>3. QED
      BY <1>1, <1>4, <2>1, <2>2 DEF AsPlanned
  <1>9. QED
    BY <1>1, <1>6, <1>7, <1>8 DEF WMInv

\* The process dies.
LEMMA CrashStep ==
  ASSUME WMInv, Crash
  PROVE  WMInv'
  <1>1. /\ todo' = <<>> /\ crashed' = TRUE
        /\ UNCHANGED <<now, buffer, status, text, mutations, base, groups, discarded, changes>>
    BY DEF Crash
  <1>2. WMTypes
    BY DEF WMInv
  <1>3. Len(mutations) \in Nat /\ <<>> \in Seq(Mutation) /\ Len(<<>>) = 0
    <2>1. mutations \in Seq(Mutation)
      BY <1>2 DEF WMTypes
    <2> DEFINE M == Mutation
    <2>2. mutations \in Seq(M)
      BY <2>1
    <2> HIDE DEF M
    <2>3. Len(mutations) \in Nat /\ <<>> \in Seq(M) /\ Len(<<>>) = 0
      BY <2>2, EmptySeq, LenProperties
    <2>4. QED
      BY <2>3 DEF M
  <1>4. Len(<<>>) <= Len(mutations) /\ \A j \in 1 .. Len(<<>>) : <<>>[j] = mutations[Done' + j]
    BY <1>3
  <1>5. WMTypes'
    BY <1>1, <1>2, <1>3, <1>4 DEF WMTypes
  <1>6. Names(mutations, groups, discarded)'
    BY <1>1 DEF WMInv, Names
  <1>7. ASSUME changes = 0, NEW m \in MemoryId, base.status[m] # "none"
        PROVE  AsPlanned(m)'
    <2>1. AsPlanned(m)
      BY <1>7 DEF WMInv
    <2>2. ASSUME OnTheWay(mutations, Done, ~crashed, m, base.text[m], status[m], text[m]), NEW k
          PROVE  OnTheWay(mutations, k, FALSE, m, base.text[m], status[m], text[m])
      BY <2>2 DEF OnTheWay
    <2>3. QED
      BY <1>1, <2>1, <2>2 DEF AsPlanned
  <1>8. QED
    BY <1>1, <1>5, <1>6, <1>7 DEF WMInv

\* Neither the buffer nor the clock has to do with the plan.
LEMMA SamePlanStep ==
  ASSUME WMInv, WMTypes', UNCHANGED <<status, text, changes, planVars>>
  PROVE  WMInv'
  <1>1. UNCHANGED <<status, text, changes, todo, mutations, base, groups, discarded, crashed>>
    BY DEF planVars
  <1>2. Done' = Done
    BY <1>1 DEF Done
  <1>3. Names(mutations, groups, discarded)'
    BY <1>1 DEF WMInv, Names
  <1>4. ASSUME NEW m PROVE AsPlanned(m)' <=> AsPlanned(m)
    BY <1>1, <1>2 DEF AsPlanned
  <1>5. QED
    BY <1>1, <1>3, <1>4 DEF WMInv

\* The steps of the buffer and the clock.
LEMMA BufferSteps ==
  ASSUME WMInv, (\E s \in Session, k \in Kinds : AddItem(s, k)) \/ Pass \/ ClearExpired
  PROVE  WMInv'
  <1>1. UNCHANGED <<status, text, changes, planVars>>
    BY DEF AddItem, Pass, ClearExpired
  <1>2. /\ WMTypes /\ UNCHANGED <<todo, mutations, base, groups, discarded, crashed>> /\ Done' = Done
    BY <1>1 DEF WMInv, planVars, Done
  <1>3. now \in Nat /\ buffer \in [Session -> Seq(Item)]
    BY <1>2 DEF WMTypes
  <1>4. CASE Pass
    <2>1. now' \in Nat /\ buffer' = buffer
      BY <1>3, <1>4 DEF Pass
    <2>2. QED
      BY <1>1, <1>2, <2>1, SamePlanStep DEF WMTypes
  <1>5. CASE \E s \in Session, k \in Kinds : AddItem(s, k)
    <2>1. PICK s \in Session, k \in Kinds : AddItem(s, k)
      BY <1>5
    <2> DEFINE item == [kind |-> k, born |-> now, ttl |-> k.ttl]
    <2>2. item \in Item
      BY <1>3, WorkingMemoryConstants DEF Item
    <2>3. buffer' = [buffer EXCEPT ![s] = Append(buffer[s], item)] /\ now' = now
      BY <2>1 DEF AddItem
    <2> HIDE DEF item
    <2>4. Append(buffer[s], item) \in Seq(Item)
      <3> DEFINE I == Item
      <3>1. buffer[s] \in Seq(I) /\ item \in I
        BY <1>3, <2>2
      <3> HIDE DEF I
      <3>2. Append(buffer[s], item) \in Seq(I)
        BY <3>1, AppendProperties
      <3>3. QED
        BY <3>2 DEF I
    <2>5. buffer' \in [Session -> Seq(Item)]
      BY <1>3, <2>3, <2>4
    <2>6. QED
      BY <1>1, <1>2, <1>3, <2>3, <2>5, SamePlanStep DEF WMTypes
  <1>6. CASE ClearExpired
    <2> DEFINE kept(s) == {i \in DOMAIN buffer[s] : ~IsExpired(buffer[s][i])}
    <2>1. buffer' = [s \in Session |-> Picked(buffer[s], kept(s))] /\ now' = now
      BY <1>6 DEF ClearExpired
    <2>2. ASSUME NEW s \in Session PROVE Picked(buffer[s], kept(s)) \in Seq(Item)
      <3> DEFINE I == Item
                 at == kept(s)
      <3>1. buffer[s] \in Seq(I) /\ at \in SUBSET (DOMAIN buffer[s])
        BY <1>3
      <3> HIDE DEF I, at
      <3>2. Picked(buffer[s], at) \in Seq(I)
        BY <3>1, PickedProperties
      <3>3. QED
        BY <3>2 DEF I, at
    <2> HIDE DEF kept
    <2>3. buffer' \in [Session -> Seq(Item)]
      BY <2>1, <2>2
    <2>4. QED
      BY <1>1, <1>2, <1>3, <2>1, <2>3, SamePlanStep DEF WMTypes
  <1>7. QED
    BY <1>4, <1>5, <1>6

\* Another process interferes, so nothing is claimed of the plan.
LEMMA OtherStep ==
  ASSUME WMInv, NEW m \in MemoryId, Other(m)
  PROVE  WMInv'
  <1>1. /\ status' = [status EXCEPT ![m] = "archived"] /\ changes' = changes + 1
        /\ UNCHANGED <<now, buffer, text, todo, mutations, base, groups, discarded, crashed>>
    BY DEF Other, planVars
  <1>2. WMTypes
    BY DEF WMInv
  <1>3. status' \in [MemoryId -> Status] /\ changes' \in Nat /\ changes' # 0
    BY <1>1, <1>2 DEF WMTypes, Status
  <1>4. Done' = Done
    BY <1>1 DEF Done
  <1>5. WMTypes'
    BY <1>1, <1>2, <1>3, <1>4 DEF WMTypes
  <1>6. Names(mutations, groups, discarded)'
    BY <1>1 DEF WMInv, Names
  <1>7. QED
    BY <1>3, <1>5, <1>6 DEF WMInv

-----------------------------------------------------------------------------
(* Working memory: what plans name.                                        *)

\* The elements of a sequence of images.
LEMMA MappedRange ==
  ASSUME NEW S, NEW s \in Seq(S), NEW T, NEW f, DOMAIN f = DOMAIN s, \A i \in DOMAIN s : f[i] \in T,
         f = [i \in DOMAIN s |-> f[i]]
  PROVE  f \in Seq(T) /\ Len(f) = Len(s)
  <1>1. Len(s) \in Nat /\ DOMAIN s = 1 .. Len(s)
    BY LenProperties
  <1>2. f \in [1 .. Len(s) -> T]
    BY <1>1
  <1>3. QED
    BY <1>1, <1>2, SequenceOfLength

\* Sequences of one element and of two.
LEMMA OneSeq ==
  ASSUME NEW T, NEW a \in T
  PROVE  <<a>> \in Seq(T) /\ Range(<<a>>) = {a}
  BY DEF Range

LEMMA TwoSeq ==
  ASSUME NEW T, NEW a \in T, NEW b \in T
  PROVE  <<a, b>> \in Seq(T)
  OBVIOUS

\* A group, its ids and its notes.
LEMMA GroupFacts ==
  ASSUME NEW g \in Seq(Kinds)
  PROVE  /\ LinkedIds(g) \in Seq(MemoryId)
         /\ IdsOf(g) = Range(LinkedIds(g)) /\ IdsOf(g) \subseteq MemoryId
         /\ Primary(g) \in MemoryId \cup {Unknown}
         /\ Primary(g) \in IdsOf(g) \/ Primary(g) = Unknown
         /\ IdsOf(g) # {} => Primary(g) \in IdsOf(g) /\ g # <<>>
         /\ Notes(g) \in TextOf
  <1> DEFINE lists == [i \in DOMAIN g |-> g[i].ids]
             ids == LinkedIds(g)
  <1>1. \A i \in DOMAIN g : g[i] \in Kinds
    BY LenProperties, ElementOfSeq
  <1>2. \A i \in DOMAIN g : lists[i] \in Seq(MemoryId)
    BY <1>1, WorkingMemoryConstants
  <1>3. DOMAIN lists = DOMAIN g /\ lists = [i \in DOMAIN g |-> lists[i]]
    OBVIOUS
  <1> HIDE DEF lists
  <1>4. lists \in Seq(Seq(MemoryId))
    BY <1>2, <1>3, MappedRange
  <1>5. /\ FlattenSeq(lists) \in Seq(MemoryId)
        /\ \A x : x \in Range(FlattenSeq(lists)) <=> \E i \in DOMAIN lists : x \in Range(lists[i])
    BY <1>4, FlattenRange
  <1>6. ids = FlattenSeq(lists)
    BY DEF LinkedIds, lists
  <1> HIDE DEF ids
  <1>7. ids \in Seq(MemoryId) /\ Len(ids) \in Nat /\ DOMAIN ids = 1 .. Len(ids)
    BY <1>5, <1>6, LenProperties
  <1>8. IdsOf(g) = Range(ids)
    BY DEF IdsOf, Range, ids
  <1>9. Range(ids) \subseteq MemoryId
    BY <1>7, ElementOfSeq DEF Range
  <1>10. ids # <<>> => ids[1] \in Range(ids)
    <2>1. ids # <<>> => 1 \in DOMAIN ids
      BY <1>7, EmptySeq
    <2>2. QED
      BY <2>1 DEF Range
  <1>11. Primary(g) = IF ids = <<>> THEN Unknown ELSE ids[1]
    BY DEF Primary, ids
  <1>12. Range(ids) # {} => ids # <<>>
    BY DEF Range
  <1>13. Range(ids) # {} => g # <<>>
    <2>1. g = <<>> => DOMAIN lists = {}
      BY <1>3
    <2>2. QED
      BY <1>5, <1>6, <2>1
  <1>14. Notes(g) \in TextOf
    BY <1>1 DEF Notes, TextOf
  <1>15. QED
    BY <1>7, <1>8, <1>9, <1>10, <1>11, <1>12, <1>13, <1>14 DEF ids

\* What is done for a group.
OfGroup(x, g) ==
  \/ g # <<>> /\ x = Update(Primary(g), Notes(g))
  \/ \E m \in IdsOf(g) \ {Primary(g)} : x = Archive(m)

\* All mutations of a group are its own, the update of its primary among them.
LEMMA LifecycleFacts ==
  ASSUME NEW g \in Seq(Kinds)
  PROVE  /\ Lifecycle(g) \in Seq(Mutation)
         /\ \A x \in Range(Lifecycle(g)) : OfGroup(x, g)
         /\ g # <<>> => Update(Primary(g), Notes(g)) \in Range(Lifecycle(g))
  <1> DEFINE ids == LinkedIds(g)
             at == {i \in DOMAIN ids : ids[i] # Primary(g)}
             others == Picked(ids, at)
             X == IdsOf(g) \ {Primary(g)}
             archives == [i \in DOMAIN others |-> Archive(others[i])]
             start == Update(Primary(g), Notes(g))
             one == <<start>>
  <1>1. ids \in Seq(MemoryId) /\ IdsOf(g) = Range(ids) /\ IdsOf(g) \subseteq MemoryId
        /\ Primary(g) \in MemoryId \cup {Unknown} /\ Notes(g) \in TextOf
    BY GroupFacts
  <1>2. CASE g = <<>>
    <2>1. Lifecycle(g) = <<>>
      BY <1>2 DEF Lifecycle
    <2> DEFINE M == Mutation
    <2>2. <<>> \in Seq(M)
      <3> HIDE DEF M
      <3>1. QED
        BY EmptySeq
    <2>3. Range(<<>>) = {}
      BY DEF Range
    <2>4. QED
      BY <1>2, <2>1, <2>2, <2>3
  <1>3. CASE g # <<>>
    <2>1. Lifecycle(g) = one \o archives
      BY <1>3 DEF Lifecycle
    <2>2. {ids[p] : p \in at} \subseteq X
      BY <1>1 DEF Range
    <2>3. others \in Seq({ids[p] : p \in at})
      <3> HIDE DEF ids
      <3>1. at \in SUBSET (DOMAIN ids)
        OBVIOUS
      <3> HIDE DEF at
      <3>2. QED
        BY <1>1, <3>1, PickedProperties
    <2> HIDE DEF ids, at, others, X
    <2>4. DOMAIN others = 1 .. Len(others) /\ Len(others) \in Nat /\ \A i \in DOMAIN others : others[i] \in X
      BY <2>2, <2>3, LenProperties, ElementOfSeq
    <2>5. \A m \in X : Archive(m) \in Mutation
      BY <1>1 DEF Archive, Mutation, X
    <2>6. start \in Mutation
      BY <1>1 DEF Update, Mutation
    <2>7. /\ archives \in [1 .. Len(others) -> Mutation]
          /\ \A x \in Range(archives) : \E m \in X : x = Archive(m)
      BY <2>4, <2>5 DEF Range
    <2> HIDE DEF archives, start
    <2>8. archives \in Seq(Mutation) /\ one \in Seq(Mutation) /\ Range(one) = {start}
      <3> DEFINE M == Mutation
      <3>1. archives \in [1 .. Len(others) -> M] /\ start \in M
        BY <2>6, <2>7
      <3> HIDE DEF M
      <3>2. archives \in Seq(M)
        BY <2>4, <3>1, SequenceOfLength
      <3>3. one \in Seq(M) /\ Range(one) = {start}
        BY <3>1 DEF Range
      <3>4. QED
        BY <3>2, <3>3 DEF M
    <2> HIDE DEF one
    <2>9. /\ one \o archives \in Seq(Mutation)
          /\ \A x : x \in Range(one \o archives) <=> x \in Range(one) \/ x \in Range(archives)
      <3> DEFINE M == Mutation
      <3>1. archives \in Seq(M) /\ one \in Seq(M)
        BY <2>8
      <3> HIDE DEF M
      <3>2. /\ one \o archives \in Seq(M)
            /\ \A x : x \in Range(one \o archives) <=> x \in Range(one) \/ x \in Range(archives)
        BY <3>1, ConcatRange
      <3>3. QED
        BY <3>2 DEF M
    <2>10. \A x \in Range(one \o archives) : OfGroup(x, g)
      BY <1>3, <2>7, <2>8, <2>9 DEF OfGroup, X, start
    <2>11. QED
      BY <2>1, <2>8, <2>9, <2>10 DEF start
  <1>4. QED
    BY <1>2, <1>3

\* All mutations of several groups are those of one of them.
LEMMA LifecyclesFacts ==
  ASSUME NEW gs \in Seq(Seq(Kinds))
  PROVE  /\ Lifecycles(gs) \in Seq(Mutation)
         /\ \A x \in Range(Lifecycles(gs)) : \E g \in Range(gs) : OfGroup(x, g)
         /\ \A g \in Range(gs) : g # <<>> => Update(Primary(g), Notes(g)) \in Range(Lifecycles(gs))
  <1> DEFINE M == Mutation
             lists == [i \in DOMAIN gs |-> Lifecycle(gs[i])]
             G == Seq(Kinds)
  <1>1. gs \in Seq(G)
    OBVIOUS
  <1>2. \A i \in DOMAIN gs : gs[i] \in Seq(Kinds)
    <2> HIDE DEF G
    <2>1. \A i \in DOMAIN gs : gs[i] \in G
      BY <1>1, LenProperties, ElementOfSeq
    <2>2. QED
      BY <2>1 DEF G
  <1>3. \A i \in DOMAIN gs : lists[i] \in Seq(M)
    BY <1>2, LifecycleFacts
  <1>4. DOMAIN lists = DOMAIN gs /\ lists = [i \in DOMAIN gs |-> lists[i]]
    OBVIOUS
  <1>5. lists \in Seq(Seq(M))
    <2> DEFINE T == Seq(M)
    <2>1. \A i \in DOMAIN gs : lists[i] \in T
      BY <1>3
    <2> HIDE DEF lists, G, T
    <2>2. lists \in Seq(T)
      BY <1>1, <1>4, <2>1, MappedRange
    <2>3. QED
      BY <2>2 DEF T
  <1>6. Lifecycles(gs) = FlattenSeq(lists)
    BY DEF Lifecycles
  <1>7. /\ FlattenSeq(lists) \in Seq(M)
        /\ \A x : x \in Range(FlattenSeq(lists)) <=> \E i \in DOMAIN lists : x \in Range(lists[i])
    <2> HIDE DEF lists, M
    <2>1. QED
      BY <1>5, FlattenRange
  <1>8. \A i \in DOMAIN gs : /\ \A x \in Range(lists[i]) : OfGroup(x, gs[i])
                             /\ gs[i] # <<>> => Update(Primary(gs[i]), Notes(gs[i])) \in Range(lists[i])
    BY <1>2, LifecycleFacts
  <1> HIDE DEF lists, M
  <1>9. \A x \in Range(FlattenSeq(lists)) : \E g \in Range(gs) : OfGroup(x, g)
    <2> TAKE x \in Range(FlattenSeq(lists))
    <2>1. PICK i \in DOMAIN gs : x \in Range(lists[i])
      BY <1>4, <1>7
    <2>2. gs[i] \in Range(gs)
      BY DEF Range
    <2>3. QED
      BY <1>8, <2>1, <2>2
  <1>10. \A g \in Range(gs) : g # <<>> => Update(Primary(g), Notes(g)) \in Range(FlattenSeq(lists))
    <2> TAKE g \in Range(gs)
    <2>1. PICK i \in DOMAIN gs : g = gs[i]
      BY DEF Range
    <2>2. QED
      BY <1>4, <1>7, <1>8, <2>1
  <1>11. QED
    BY <1>6, <1>7, <1>9, <1>10 DEF M

\* A plan: first insertions or edges, then groups, then what is discarded.
LEMMA PlanFacts ==
  ASSUME NEW gs \in Seq(Seq(Kinds)), NEW ids \in SUBSET Old,
         NEW first \in Seq(Mutation), \A x \in Range(first) : x.op \in {"insert", "edge"},
         NEW last \in Seq(Mutation), \A x \in Range(last) : \E m \in ids \cup {Unknown} : x = Archive(m)
  PROVE  LET ms == (first \o Lifecycles(gs)) \o last
         IN  ms \in Seq(Mutation) /\ Names(ms, gs, ids)
  <1> DEFINE M == Mutation
             middle == Lifecycles(gs)
             ms == (first \o middle) \o last
  <1>1. /\ middle \in Seq(M)
        /\ \A x \in Range(middle) : \E g \in Range(gs) : OfGroup(x, g)
        /\ \A g \in Range(gs) : g # <<>> => Update(Primary(g), Notes(g)) \in Range(middle)
    BY LifecyclesFacts
  <1>2. first \in Seq(M) /\ last \in Seq(M)
    OBVIOUS
  <1> HIDE DEF M, middle
  <1>3. /\ first \o middle \in Seq(M)
        /\ \A x : x \in Range(first \o middle) <=> x \in Range(first) \/ x \in Range(middle)
    BY <1>1, <1>2, ConcatRange
  <1> DEFINE left == first \o middle
  <1>31. left \in Seq(M)
    BY <1>3
  <1> HIDE DEF left
  <1>32. /\ left \o last \in Seq(M)
         /\ \A x : x \in Range(left \o last) <=> x \in Range(left) \/ x \in Range(last)
    BY <1>2, <1>31, ConcatRange
  <1>4. /\ ms \in Seq(M)
        /\ \A x : x \in Range(ms) <=> x \in Range(first \o middle) \/ x \in Range(last)
    BY <1>32 DEF left
  <1> HIDE DEF ms
  <1>5. ASSUME NEW x \in Range(ms)
        PROVE  /\ x.op = "update" =>
                    \E g \in Range(gs) : g # <<>> /\ x = Update(Primary(g), Notes(g))
               /\ x.op = "archive" =>
                    \/ x.id \in ids \cup {Unknown}
                    \/ \E g \in Range(gs) : x.id \in IdsOf(g) \ {Primary(g)}
    <2>1. CASE x \in Range(first)
      BY <2>1
    <2>2. CASE x \in Range(last)
      BY <2>2 DEF Archive
    <2>3. CASE x \in Range(middle)
      <3>1. PICK g \in Range(gs) : OfGroup(x, g)
        BY <1>1, <2>3
      <3>2. QED
        BY <3>1 DEF OfGroup, Update, Archive
    <2>4. QED
      BY <1>3, <1>4, <2>1, <2>2, <2>3
  <1>6. \A g \in Range(gs) : g # <<>> => Update(Primary(g), Notes(g)) \in Range(ms)
    BY <1>1, <1>3, <1>4
  <1>7. Names(ms, gs, ids)
    BY <1>5, <1>6 DEF Names
  <1>8. QED
    BY <1>4, <1>7 DEF ms, middle, M

\* The items of a bucket.
LEMMA BucketIsKinds ==
  ASSUME NEW s \in Session, buffer[s] \in Seq(Item), NEW into, NEW b
  PROVE  Bucket(s, into, b) \in Seq(Kinds)
  <1> DEFINE I == Item
             at == {i \in DOMAIN buffer[s] : into[i] = b}
             items == Picked(buffer[s], at)
             kinds == [i \in DOMAIN items |-> items[i].kind]
  <1>1. buffer[s] \in Seq(I) /\ at \in SUBSET (DOMAIN buffer[s])
    OBVIOUS
  <1> HIDE DEF I, at
  <1>2. items \in Seq(I)
    BY <1>1, PickedProperties
  <1> HIDE DEF items
  <1>3. \A i \in DOMAIN items : items[i] \in I
    BY <1>2, LenProperties, ElementOfSeq
  <1>4. \A i \in DOMAIN items : kinds[i] \in Kinds
    BY <1>3 DEF I, Item
  <1>5. DOMAIN kinds = DOMAIN items /\ kinds = [i \in DOMAIN items |-> kinds[i]]
    OBVIOUS
  <1> HIDE DEF kinds
  <1>6. kinds \in Seq(Kinds)
    BY <1>2, <1>4, <1>5, MappedRange
  <1>7. Bucket(s, into, b) = kinds
    BY DEF Bucket, kinds, items, at
  <1>8. QED
    BY <1>6, <1>7

\* A consolidation plan names what its groups link.
LEMMA ConsolidateStep ==
  ASSUME WMInv, NEW s \in Session, Consolidate(s)
  PROVE  WMInv'
  <1>1. PICK into \in [DOMAIN buffer[s] -> {"promote", "merge", "merge too", "discard"}] :
          LET merge == <<Bucket(s, into, "merge"), Bucket(s, into, "merge too")>>
          IN  Start(ConsolidationMutations(Bucket(s, into, "promote"), merge, Bucket(s, into, "discard")),
                    merge, {})
    BY DEF Consolidate
  <1>2. buffer[s] \in Seq(Item)
    BY DEF WMInv, WMTypes
  <1> DEFINE promote == Bucket(s, into, "promote")
             discard == Bucket(s, into, "discard")
             one == Bucket(s, into, "merge")
             two == Bucket(s, into, "merge too")
             gs == <<one, two>>
             M == Mutation
             first == [i \in DOMAIN promote |-> Insert({promote[i].note})]
             lists == [i \in DOMAIN discard |-> Discard(discard[i])]
             last == FlattenSeq(lists)
  <1>3. /\ promote \in Seq(Kinds) /\ discard \in Seq(Kinds)
        /\ one \in Seq(Kinds) /\ two \in Seq(Kinds)
    BY <1>2, BucketIsKinds
  <1>4. ConsolidationMutations(promote, gs, discard) = (first \o Lifecycles(gs)) \o last
    BY DEF ConsolidationMutations
  <1>5. Start(ConsolidationMutations(promote, gs, discard), gs, {})
    BY <1>1
  <1> HIDE DEF promote, discard, one, two
  <1>6. gs \in Seq(Seq(Kinds))
    <2> DEFINE T == Seq(Kinds)
    <2>1. one \in T /\ two \in T
      BY <1>3
    <2> HIDE DEF T
    <2>2. gs \in Seq(T)
      BY <2>1, TwoSeq
    <2>3. QED
      BY <2>2 DEF T
  <1>7. first \in Seq(M) /\ \A x \in Range(first) : x.op \in {"insert", "edge"}
    <2>1. \A i \in DOMAIN promote : promote[i] \in Kinds
      BY <1>3, LenProperties, ElementOfSeq
    <2>2. \A i \in DOMAIN promote : first[i] \in M
      BY <2>1 DEF Insert, Mutation, TextOf
    <2>3. DOMAIN first = DOMAIN promote /\ first = [i \in DOMAIN promote |-> first[i]]
      OBVIOUS
    <2>4. \A i \in DOMAIN promote : first[i].op = "insert"
      BY DEF Insert
    <2> HIDE DEF first, M
    <2>41. \A x \in Range(first) : x.op \in {"insert", "edge"}
      BY <2>3, <2>4 DEF Range
    <2>5. first \in Seq(M)
      BY <1>3, <2>2, <2>3, MappedRange
    <2>6. QED
      BY <2>41, <2>5
  <1>8. last \in Seq(M) /\ \A x \in Range(last) : \E m \in {} \cup {Unknown} : x = Archive(m)
    <2>1. Archive(Unknown) \in M
      BY DEF Archive, Mutation
    <2>2. \A i \in DOMAIN discard : lists[i] \in Seq(M) /\ Range(lists[i]) = {Archive(Unknown)}
      <3> DEFINE a == Archive(Unknown)
      <3>1. a \in M
        BY <2>1
      <3> HIDE DEF M, a
      <3>2. <<a>> \in Seq(M) /\ Range(<<a>>) = {a}
        BY <3>1, OneSeq
      <3>3. QED
        BY <3>2 DEF Discard, a
    <2>3. DOMAIN lists = DOMAIN discard /\ lists = [i \in DOMAIN discard |-> lists[i]]
      OBVIOUS
    <2> DEFINE T == Seq(M)
    <2>4. \A i \in DOMAIN discard : lists[i] \in T
      BY <2>2
    <2> HIDE DEF M, lists, T
    <2>5. lists \in Seq(T)
      BY <1>3, <2>3, <2>4, MappedRange
    <2>6. lists \in Seq(Seq(M))
      BY <2>5 DEF T
    <2>7. /\ last \in Seq(M)
          /\ \A x : x \in Range(last) <=> \E i \in DOMAIN lists : x \in Range(lists[i])
      BY <2>6, FlattenRange
    <2>8. QED
      BY <2>2, <2>3, <2>7
  <1> DEFINE ms == (first \o Lifecycles(gs)) \o last
  <1> HIDE DEF first, last, gs
  <1>9. ms \in Seq(Mutation) /\ Names(ms, gs, {})
    BY <1>6, <1>7, <1>8, PlanFacts
  <1>10. Start(ms, gs, {})
    BY <1>4, <1>5
  <1> HIDE DEF ms
  <1>11. QED
    BY <1>6, <1>9, <1>10, StartStep

\* The payload of an event names that, and what it discards.
LEMMA ReflectStep ==
  ASSUME WMInv, NEW s \in Session, ReflectOn(s)
  PROVE  WMInv'
  <1>1. PICK into \in [DOMAIN buffer[s] -> {"merge", "leave"}], m \in Old, ids \in SUBSET Old :
          LET merge == <<Bucket(s, into, "merge")>>
          IN  Start(ReflectionMutations(<<m>>, merge, SetToSeq(ids)), merge, ids)
    BY DEF ReflectOn
  <1>2. buffer[s] \in Seq(Item)
    BY DEF WMInv, WMTypes
  <1> DEFINE one == Bucket(s, into, "merge")
             gs == <<one>>
             M == Mutation
             promoted == <<m>>
             first == [i \in DOMAIN promoted |-> Edge(promoted[i])]
             list == SetToSeq(ids)
             last == [i \in DOMAIN list |-> Archive(list[i])]
  <1>3. one \in Seq(Kinds)
    BY <1>2, BucketIsKinds
  <1>4. ReflectionMutations(promoted, gs, list) = (first \o Lifecycles(gs)) \o last
    BY DEF ReflectionMutations
  <1>5. Start(ReflectionMutations(promoted, gs, list), gs, ids)
    BY <1>1
  <1> HIDE DEF one
  <1>6. gs \in Seq(Seq(Kinds))
    <2> DEFINE T == Seq(Kinds)
    <2>1. one \in T
      BY <1>3
    <2> HIDE DEF T
    <2>2. gs \in Seq(T)
      BY <2>1, OneSeq
    <2>3. QED
      BY <2>2 DEF T
  <1>7. first \in Seq(M) /\ \A x \in Range(first) : x.op \in {"insert", "edge"}
    <2>1. promoted \in Seq(Old) /\ DOMAIN promoted = 1 .. 1 /\ promoted[1] = m
      OBVIOUS
    <2> HIDE DEF promoted
    <2>2. \A i \in DOMAIN promoted : first[i] \in M
      BY <2>1, WorkingMemoryConstants DEF Edge, Mutation
    <2>3. DOMAIN first = DOMAIN promoted /\ first = [i \in DOMAIN promoted |-> first[i]]
      OBVIOUS
    <2>4. \A x \in Range(first) : x.op \in {"insert", "edge"}
      BY DEF Range, Edge
    <2> HIDE DEF first, M
    <2>5. first \in Seq(M)
      BY <2>1, <2>2, <2>3, MappedRange
    <2>6. QED
      BY <2>4, <2>5
  <1>8. last \in Seq(M) /\ \A x \in Range(last) : \E b \in ids \cup {Unknown} : x = Archive(b)
    <2>1. IsFiniteSet(ids)
      BY FS_Subset, WorkingMemoryConstants
    <2>2. list \in Seq(ids) /\ Range(list) = ids
      BY <2>1, SetAsSequence
    <2> HIDE DEF list
    <2>3. \A i \in DOMAIN list : list[i] \in ids
      BY <2>2 DEF Range
    <2>4. \A i \in DOMAIN list : last[i] \in M
      BY <2>3, WorkingMemoryConstants DEF Archive, Mutation
    <2>5. DOMAIN last = DOMAIN list /\ last = [i \in DOMAIN list |-> last[i]]
      OBVIOUS
    <2>6. \A x \in Range(last) : \E b \in ids \cup {Unknown} : x = Archive(b)
      BY <2>3 DEF Range
    <2> HIDE DEF last, M
    <2>7. last \in Seq(M)
      BY <2>2, <2>4, <2>5, MappedRange
    <2>8. QED
      BY <2>6, <2>7
  <1> DEFINE ms == (first \o Lifecycles(gs)) \o last
  <1> HIDE DEF first, last, gs
  <1>9. ms \in Seq(Mutation) /\ Names(ms, gs, ids)
    BY <1>6, <1>7, <1>8, PlanFacts
  <1>10. Start(ms, gs, ids)
    BY <1>4, <1>5
  <1> HIDE DEF ms
  <1>11. QED
    BY <1>6, <1>9, <1>10, StartStep

-----------------------------------------------------------------------------
(* Working memory: the theorems.                                           *)

\* The invariant: initially, and step by step.
LEMMA WMInvInit == WMInit => WMInv
  <1> SUFFICES ASSUME WMInit PROVE WMInv
    OBVIOUS
  <1>1. /\ now = 0 /\ changes = 0 /\ crashed = FALSE /\ discarded = {}
        /\ buffer = [s \in Session |-> <<>>] /\ todo = <<>> /\ mutations = <<>> /\ groups = <<>>
        /\ status = [m \in MemoryId |-> IF m \in Old THEN "active" ELSE "none"]
        /\ text = [m \in MemoryId |-> IF m \in Old THEN {m} ELSE {}]
        /\ base = [status |-> status, text |-> text]
    BY DEF WMInit
  <1>2. ASSUME NEW S PROVE <<>> \in Seq(S) /\ Len(<<>>) = 0 /\ Range(<<>>) = {}
    BY DEF Range
  <1>3. status \in [MemoryId -> Status]
    BY <1>1 DEF Status
  <1>4. text \in Texts
    BY <1>1 DEF Texts, TextOf
  <1>5. base \in StoreOf /\ base.status = status /\ base.text = text
    BY <1>1, <1>3, <1>4 DEF StoreOf
  <1>6. buffer \in [Session -> Seq(Item)]
    BY <1>1, <1>2
  <1>7. mutations \in Seq(Mutation) /\ todo \in Seq(Mutation) /\ Len(todo) = 0 /\ Len(mutations) = 0
    BY <1>1, <1>2
  <1>8. groups \in Seq(Seq(Kinds))
    BY <1>1, <1>2
  <1>9. WMTypes
    <2>1. /\ now \in Nat /\ changes \in Nat /\ crashed \in BOOLEAN /\ ~crashed
          /\ discarded \in SUBSET Old
      BY <1>1
    <2>2. Len(todo) <= Len(mutations) /\ \A j \in 1 .. Len(todo) : todo[j] = mutations[Done + j]
      BY <1>7
    <2>3. QED
      BY <2>1, <2>2, <1>3, <1>4, <1>5, <1>6, <1>7, <1>8 DEF WMTypes
  <1>10. Names(mutations, groups, discarded)
    BY <1>1, <1>2 DEF Names
  <1>11. \A m \in MemoryId : base.status[m] # "none" => AsPlanned(m)
    <2> TAKE m \in MemoryId
    <2>1. base.status[m] # "archived" /\ status[m] = base.status[m] /\ text[m] = base.text[m]
      BY <1>1, <1>5
    <2>2. Done = 0
      BY <1>7 DEF Done
    <2>3. status[m] = "active" => OnTheWay(mutations, 0, TRUE, m, base.text[m], status[m], text[m])
      BY <2>1, AtTheStart
    <2>4. ~crashed
      BY <1>1
    <2>5. (~crashed) = TRUE
      BY <2>4
    <2>6. QED
      BY <2>1, <2>2, <2>3, <2>5 DEF AsPlanned
  <1>12. QED
    BY <1>9, <1>10, <1>11 DEF WMInv

LEMMA WMInvStep == WMInv /\ [WMNext]_wmVars => WMInv'
  <1> SUFFICES ASSUME WMInv, [WMNext]_wmVars PROVE WMInv'
    OBVIOUS
  <1>1. CASE (\E s \in Session, k \in Kinds : AddItem(s, k)) \/ Pass \/ ClearExpired
    BY <1>1, BufferSteps
  <1>2. CASE \E s \in Session : Consolidate(s)
    BY <1>2, ConsolidateStep
  <1>3. CASE \E s \in Session : ReflectOn(s)
    BY <1>3, ReflectStep
  <1>4. CASE Again
    BY <1>4, AgainStep
  <1>5. CASE Execute
    BY <1>5, ExecuteStep
  <1>6. CASE Crash
    BY <1>6, CrashStep
  <1>7. CASE \E m \in MemoryId : Other(m)
    BY <1>7, OtherStep
  <1>8. CASE UNCHANGED wmVars
    <2>1. UNCHANGED <<now, buffer, status, text, changes, planVars>>
      BY <1>8 DEF wmVars, planVars
    <2>2. WMTypes'
      BY <2>1 DEF WMInv, WMTypes, planVars, Done
    <2>3. QED
      BY <2>1, <2>2, SamePlanStep
  <1>9. QED
    BY <1>1, <1>2, <1>3, <1>4, <1>5, <1>6, <1>7, <1>8 DEF WMNext

\* The plan is one for its groups and its event, and what it has changed of
\* the memories that were there is as it says, or on the way there.
THEOREM WorkingMemoryInvariant == WMSpec => []WMInv
  BY WMInvInit, WMInvStep, PTL DEF WMSpec

\* What changes a memory is a mutation about it.
LEMMA NamedByThePlan ==
  ASSUME WMInv, NEW m \in MemoryId, NEW i \in 1 .. Len(mutations), About(mutations[i], m)
  PROVE  /\ mutations[i].op = "update" =>
              \E g \in Range(groups) :
                 g # <<>> /\ m = Primary(g) /\ m \in IdsOf(g) /\ mutations[i].text = Notes(g)
         /\ mutations[i].op = "archive" =>
              m \in discarded \/ \E g \in Range(groups) : m \in IdsOf(g) \ {Primary(g)}
  <1>1. /\ Names(mutations, groups, discarded) /\ groups \in Seq(Seq(Kinds))
        /\ mutations \in Seq(Mutation) /\ m # Unknown
    BY WorkingMemoryConstants DEF WMInv, WMTypes
  <1>2. mutations[i] \in Range(mutations)
    BY <1>1, LenProperties DEF Range
  <1>3. \A g \in Range(groups) : g \in Seq(Kinds)
    <2> DEFINE G == Seq(Kinds)
    <2>1. groups \in Seq(G)
      BY <1>1
    <2> HIDE DEF G
    <2>2. \A j \in DOMAIN groups : groups[j] \in G
      BY <2>1, LenProperties, ElementOfSeq
    <2>3. QED
      BY <2>2 DEF G, Range
  <1>4. CASE mutations[i].op = "update"
    <2>1. PICK g \in Range(groups) : g # <<>> /\ mutations[i] = Update(Primary(g), Notes(g))
      BY <1>1, <1>2, <1>4 DEF Names
    <2>2. m = Primary(g) /\ mutations[i].text = Notes(g)
      BY <2>1 DEF Update, About
    <2>3. m \in IdsOf(g)
      BY <1>1, <1>3, <2>2, GroupFacts
    <2>4. QED
      BY <1>4, <2>1, <2>2, <2>3
  <1>5. CASE mutations[i].op = "archive"
    <2>1. \/ m \in discarded \cup {Unknown}
          \/ \E g \in Range(groups) : m \in IdsOf(g) \ {Primary(g)}
      BY <1>1, <1>2, <1>5 DEF Names, About
    <2>2. QED
      BY <1>1, <1>5, <2>1
  <1>6. QED
    BY <1>4, <1>5

\* A plan, executed and perhaps executed again, changes no memory that was
\* there before but those its merge groups link and its event discards:
\* whatever the buffers hold, and wherever executions of the plan break off.
THEOREM WorkingMemoryOnlyTheNamedChange == WMSpec => []OnlyTheNamedChange
  <1>1. ASSUME WMInv PROVE OnlyTheNamedChange
    <2> SUFFICES ASSUME changes = 0, NEW m \in MemoryId, base.status[m] # "none",
                        ~(status[m] = base.status[m] /\ text[m] = base.text[m])
                 PROVE  m \in discarded \/ \E i \in DOMAIN groups : m \in IdsOf(groups[i])
      BY DEF OnlyTheNamedChange
    <2>1. AsPlanned(m) /\ base.status[m] \in Status
      BY <1>1 DEF WMInv, WMTypes, StoreOf
    <2> DEFINE n == Len(mutations)
    <2>2. OnTheWay(mutations, Done, ~crashed, m, base.text[m], status[m], text[m])
          /\ base.status[m] = "active"
      BY <2>1 DEF AsPlanned, Status
    <2>3. GoneBy(mutations, n, m) \/ Updates(mutations, n, m) # {}
      BY <2>2 DEF OnTheWay
    <2>4. \E i \in 1 .. n : About(mutations[i], m)
      BY <2>3 DEF GoneBy, Updates, Archives, About
    <2>5. m \in discarded \/ \E g \in Range(groups) : m \in IdsOf(g)
      BY <1>1, <2>4, NamedByThePlan DEF About
    <2>6. QED
      BY <2>5 DEF Range
  <1>2. QED
    BY <1>1, WorkingMemoryInvariant, PTL

\* Groups that share no memory, with each other or with what the event
\* discards, each leave one active memory with the notes of all items: the
\* primary one, which the plan updates and nothing in it archives.
THEOREM WorkingMemoryGroupsLeaveASurvivor == WMSpec => []GroupsLeaveASurvivor
  <1>1. ASSUME WMInv PROVE GroupsLeaveASurvivor
    <2> SUFFICES ASSUME Idle, NEW i \in DOMAIN groups, IdsOf(groups[i]) # {},
                        \A a \in IdsOf(groups[i]) : base.status[a] = "active" /\ a \notin discarded,
                        \A j \in DOMAIN groups \ {i} : IdsOf(groups[i]) \cap IdsOf(groups[j]) = {}
                 PROVE  \E a \in IdsOf(groups[i]) : status[a] = "active" /\ text[a] = Notes(groups[i])
      BY DEF GroupsLeaveASurvivor
    <2> DEFINE own == groups[i]
               m == Primary(own)
               n == Len(mutations)
    <2>1. /\ Names(mutations, groups, discarded) /\ groups \in Seq(Seq(Kinds))
          /\ mutations \in Seq(Mutation)
      BY <1>1 DEF WMInv, WMTypes
    <2>2. own \in Seq(Kinds)
      <3> DEFINE G == Seq(Kinds)
      <3>1. groups \in Seq(G)
        BY <2>1
      <3> HIDE DEF G
      <3>2. groups[i] \in G
        BY <3>1, LenProperties, ElementOfSeq
      <3>3. QED
        BY <3>2 DEF G
    <2>3. m \in IdsOf(own) /\ own # <<>> /\ IdsOf(own) \subseteq MemoryId
      <3> HIDE DEF own
      <3>1. IdsOf(own) # {}
        BY DEF own
      <3>2. QED
        BY <2>2, <3>1, GroupFacts
    <2>4. m \in MemoryId /\ base.status[m] = "active" /\ m \notin discarded
      BY <2>3
    <2>5. own \in Range(groups)
      BY DEF Range
    <2>6. \A g \in Range(groups) : m \in IdsOf(g) => g = own
      <3> TAKE g \in Range(groups)
      <3>1. PICK j \in DOMAIN groups : g = groups[j]
        BY DEF Range
      <3>2. QED
        BY <2>3, <3>1
    <2> HIDE DEF own, m
    <2>7. ~GoneBy(mutations, n, m)
      <3> SUFFICES ASSUME NEW l \in 1 .. n, Archives(mutations, l, m) PROVE FALSE
        BY DEF GoneBy
      <3>1. About(mutations[l], m) /\ mutations[l].op = "archive"
        BY DEF Archives, About
      <3>2. \E g \in Range(groups) : m \in IdsOf(g) \ {Primary(g)}
        BY <1>1, <2>4, <3>1, NamedByThePlan
      <3>3. QED
        BY <2>6, <3>2 DEF m
    <2>8. ASSUME NEW l \in Updates(mutations, n, m) PROVE mutations[l].text = Notes(own)
      <3>1. l \in 1 .. n /\ About(mutations[l], m) /\ mutations[l].op = "update"
        BY <2>8 DEF Updates, About
      <3>2. \E g \in Range(groups) : m \in IdsOf(g) /\ mutations[l].text = Notes(g)
        BY <1>1, <2>4, <3>1, NamedByThePlan
      <3>3. QED
        BY <2>6, <3>2
    <2>9. Updates(mutations, n, m) # {}
      <3>1. Update(m, Notes(own)) \in Range(mutations)
        BY <2>1, <2>3, <2>5 DEF Names, m
      <3>2. PICK l \in DOMAIN mutations : mutations[l] = Update(m, Notes(own))
        BY <3>1 DEF Range
      <3>3. l \in 1 .. n
        BY <2>1, <3>2, LenProperties
      <3>4. mutations[l].op = "update" /\ mutations[l].id = m
        BY <3>2 DEF Update
      <3>5. ~GoneBy(mutations, l - 1, m)
        <4>1. \A j \in 1 .. l - 1 : j \in 1 .. n
          BY <2>1, <3>3, LenProperties
        <4>2. QED
          BY <2>7, <4>1 DEF GoneBy
      <3>6. QED
        BY <3>3, <3>4, <3>5 DEF Updates
    <2>10. AsPlanned(m) /\ Done = n /\ ~crashed
      <3>1. AsPlanned(m)
        BY <1>1, <2>4 DEF WMInv, Idle
      <3>2. Len(mutations) \in Nat /\ Len(todo) = 0 /\ ~crashed
        BY <2>1, LenProperties DEF Idle
      <3>3. QED
        BY <3>1, <3>2 DEF Done
    <2>11. OnTheWay(mutations, n, TRUE, m, base.text[m], status[m], text[m])
      <3>1. (~crashed) = TRUE
        BY <2>10
      <3>2. QED
        BY <2>4, <2>10, <3>1 DEF AsPlanned
    <2>12. status[m] = "active" /\ LastSays(mutations, n, m, base.text[m], text[m])
      BY <2>7, <2>9, <2>11 DEF OnTheWay
    <2>13. text[m] = Notes(own)
      BY <2>8, <2>9, <2>12 DEF LastSays
    <2>14. QED
      BY <2>3, <2>12, <2>13 DEF own
  <1>2. QED
    BY <1>1, WorkingMemoryInvariant, PTL

\* What the first k of the mutations ms make of the store the plan found.
AsOnce(ms, k, b, s) ==
  /\ s \in StoreOf
  /\ \A m \in MemoryId :
       /\ b.status[m] = "archived" => s.status[m] = "archived" /\ s.text[m] = b.text[m]
       /\ b.status[m] = "active" =>
            /\ s.status[m] = IF GoneBy(ms, k, m) THEN "archived" ELSE "active"
            /\ LastSays(ms, k, m, b.text[m], s.text[m])

\* One mutation goes from what the first k make of it to what one more does.
LEMMA OneMoreOnce ==
  ASSUME NEW ms, NEW k \in Nat, NEW b, NEW s, AsOnce(ms, k, b, s), ms[k + 1] \in Mutation
  PROVE  /\ ms[k + 1].op = "insert" => AsOnce(ms, k + 1, b, s)
         /\ ms[k + 1].op # "insert" => AsOnce(ms, k + 1, b, Apply(ms[k + 1], s))
  <1> DEFINE x == ms[k + 1]
             after == IF x.op = "insert" THEN s ELSE Apply(x, s)
  <1>1. /\ after \in StoreOf
        /\ \A m \in MemoryId :
             LET hit == About(x, m) /\ s.status[m] = "active" IN
             /\ after.status[m] = IF hit /\ x.op = "archive" THEN "archived" ELSE s.status[m]
             /\ after.text[m] = IF hit /\ x.op = "update" THEN x.text ELSE s.text[m]
    <2>1. s \in StoreOf
      BY DEF AsOnce
    <2>2. CASE x.op = "insert"
      BY <2>1, <2>2
    <2>3. CASE x.op # "insert"
      BY <2>1, <2>3, ApplyFacts
    <2>4. QED
      BY <2>2, <2>3
  <1> HIDE DEF after
  <1>2. ASSUME NEW m \in MemoryId, b.status[m] = "archived"
        PROVE  after.status[m] = "archived" /\ after.text[m] = b.text[m]
    <2>1. s.status[m] = "archived" /\ s.text[m] = b.text[m]
      BY <1>2 DEF AsOnce
    <2>2. QED
      BY <1>1, <2>1
  <1>3. ASSUME NEW m \in MemoryId, b.status[m] = "active"
        PROVE  /\ after.status[m] = IF GoneBy(ms, k + 1, m) THEN "archived" ELSE "active"
               /\ LastSays(ms, k + 1, m, b.text[m], after.text[m])
    <2>1. /\ s.status[m] = IF GoneBy(ms, k, m) THEN "archived" ELSE "active"
          /\ LastSays(ms, k, m, b.text[m], s.text[m])
      BY <1>3 DEF AsOnce
    <2> HIDE DEF x
    <2>2. CASE ~About(x, m)
      <3>1. after.status[m] = s.status[m] /\ after.text[m] = s.text[m]
        BY <1>1, <2>2
      <3>2. QED
        BY <2>1, <2>2, <3>1, OneMoreApart DEF x
    <2>3. CASE GoneBy(ms, k, m)
      <3>1. after.status[m] = s.status[m] /\ after.text[m] = s.text[m]
        BY <1>1, <2>1, <2>3
      <3>2. k + 1 \in Nat /\ k <= k + 1
        OBVIOUS
      <3>3. GoneBy(ms, k + 1, m) /\ LastSays(ms, k + 1, m, b.text[m], s.text[m])
        BY <2>1, <2>3, <3>2, GoneForever
      <3>4. QED
        BY <2>1, <2>3, <3>1, <3>3
    <2>4. CASE About(x, m) /\ ~GoneBy(ms, k, m) /\ x.op = "update"
      <3>1. after.status[m] = "active" /\ after.text[m] = x.text
        BY <1>1, <2>1, <2>4
      <3>2. ~GoneBy(ms, k + 1, m) /\ LastSays(ms, k + 1, m, b.text[m], x.text)
        BY <2>4, OneMoreUpdate DEF About, x
      <3>3. QED
        BY <3>1, <3>2
    <2>5. CASE About(x, m) /\ ~GoneBy(ms, k, m) /\ x.op = "archive"
      <3>1. after.status[m] = "archived" /\ after.text[m] = s.text[m]
        BY <1>1, <2>1, <2>5
      <3>2. Archives(ms, k + 1, m)
        BY <2>5 DEF Archives, About, x
      <3>3. GoneBy(ms, k + 1, m) /\ LastSays(ms, k + 1, m, b.text[m], s.text[m])
        BY <2>1, <3>2, OneMoreArchive
      <3>4. QED
        BY <3>1, <3>3
    <2>6. QED
      BY <2>2, <2>3, <2>4, <2>5 DEF About
  <1>4. AsOnce(ms, k + 1, b, after)
    BY <1>1, <1>2, <1>3 DEF AsOnce
  <1>5. QED
    BY <1>4 DEF after

\* What RetriesConverge compares with is the recursion of its definition, and
\* its last value is what all mutations make of the store.
LEMMA OnceFacts ==
  ASSUME NEW ms \in Seq(Mutation), NEW b \in StoreOf, NEW f,
         f = [i \in 0 .. Len(ms) |->
                IF i = 0 THEN b
                ELSE IF ms[i].op = "insert" THEN f[i - 1]
                ELSE Apply(ms[i], f[i - 1])]
  PROVE  AsOnce(ms, Len(ms), b, f[Len(ms)])
  <1> DEFINE n == Len(ms)
             P == {k \in 0 .. n : AsOnce(ms, k, b, f[k])}
  <1>1. n \in Nat /\ \A i \in 1 .. n : ms[i] \in Mutation
    <2> DEFINE M == Mutation
    <2>1. ms \in Seq(M)
      OBVIOUS
    <2> HIDE DEF M
    <2>2. n \in Nat /\ \A i \in 1 .. n : ms[i] \in M
      BY <2>1, LenProperties, ElementOfSeq
    <2>3. QED
      BY <2>2 DEF M
  <1>2. 0 \in P
    <2>1. f[0] = b
      BY <1>1
    <2>2. \A m \in MemoryId : ~GoneBy(ms, 0, m) /\ LastSays(ms, 0, m, b.text[m], b.text[m])
      BY NothingYet
    <2>3. AsOnce(ms, 0, b, b)
      BY <2>2 DEF AsOnce
    <2>4. QED
      BY <1>1, <2>1, <2>3
  <1>3. ASSUME NEW k \in Nat, k < n, k \in P PROVE k + 1 \in P
    <2>1. k + 1 \in 0 .. n /\ k + 1 # 0 /\ (k + 1) - 1 = k /\ k + 1 \in 1 .. n
      BY <1>1, <1>3
    <2>2. f[k + 1] = IF ms[k + 1].op = "insert" THEN f[k] ELSE Apply(ms[k + 1], f[k])
      BY <2>1
    <2>3. AsOnce(ms, k, b, f[k]) /\ ms[k + 1] \in Mutation
      BY <1>1, <1>3, <2>1
    <2>4. AsOnce(ms, k + 1, b, f[k + 1])
      BY <2>2, <2>3, OneMoreOnce
    <2>5. QED
      BY <2>1, <2>4
  <1>4. \A k \in 0 .. n : k \in P
    <2> HIDE DEF P
    <2>1. QED
      BY <1>1, <1>2, <1>3, CountingUp
  <1>5. QED
    BY <1>1, <1>4

\* It exists.
LEMMA OnceExists ==
  ASSUME NEW ms \in Seq(Mutation), NEW b \in StoreOf
  PROVE  \E f : f = [i \in 0 .. Len(ms) |->
                       IF i = 0 THEN b
                       ELSE IF ms[i].op = "insert" THEN f[i - 1]
                       ELSE Apply(ms[i], f[i - 1])]
  <1> DEFINE n == Len(ms)
             S == StoreOf
             turn(i, x) == IF ms[i].op = "insert" THEN x ELSE Apply(ms[i], x)
             turns == [i \in 1 .. n |-> [x \in S |-> turn(i, x)]]
  <1>1. n \in Nat /\ \A i \in 1 .. n : ms[i] \in Mutation
    <2> DEFINE M == Mutation
    <2>1. ms \in Seq(M)
      OBVIOUS
    <2> HIDE DEF M
    <2>2. n \in Nat /\ \A i \in 1 .. n : ms[i] \in M
      BY <2>1, LenProperties, ElementOfSeq
    <2>3. QED
      BY <2>2 DEF M
  <1>2. \A i \in 1 .. n : \A x \in S : turn(i, x) \in S
    BY <1>1, ApplyFacts
  <1> HIDE DEF turn
  <1>3. turns \in [1 .. n -> [S -> S]] /\ \A i \in 1 .. n : \A x \in S : turns[i][x] = turn(i, x)
    BY <1>2
  <1>4. b \in S
    OBVIOUS
  <1> HIDE DEF S, turns, n
  <1>5. PICK f \in [0 .. n -> S] : Recursion(f, n, b, turns)
    BY <1>1, <1>3, <1>4, RecursionExists
  <1>6. f = [i \in 0 .. n |-> IF i = 0 THEN b ELSE turns[i][f[i - 1]]]
    BY <1>5 DEF Recursion
  <1>7. \A i \in 0 .. n : i # 0 => turns[i][f[i - 1]] = turn(i, f[i - 1])
    <2> TAKE i \in 0 .. n
    <2>1. i # 0 => i \in 1 .. n /\ i - 1 \in 0 .. n
      BY <1>1
    <2>2. QED
      BY <1>3, <1>5, <2>1
  <1>8. \A i \in 0 .. n : f[i] = IF i = 0 THEN b ELSE turn(i, f[i - 1])
    BY <1>6, <1>7
  <1>9. f = [i \in 0 .. n |-> IF i = 0 THEN b ELSE turn(i, f[i - 1])]
    BY <1>5, <1>8
  <1>10. f = [i \in 0 .. Len(ms) |->
                IF i = 0 THEN b ELSE IF ms[i].op = "insert" THEN f[i - 1] ELSE Apply(ms[i], f[i - 1])]
    BY <1>9 DEF turn, n
  <1>11. QED
    BY <1>10

\* Executing a plan again is safe: however often it was begun, by crashes
\* and retries, once an execution ends the memories that were there before
\* are as one execution leaves them.
THEOREM WorkingMemoryRetriesConverge == WMSpec => []RetriesConverge
  <1>1. ASSUME WMInv PROVE RetriesConverge
    <2> SUFFICES ASSUME Idle PROVE RetriesConverge
      BY DEF RetriesConverge
    <2> DEFINE n == Len(mutations)
               after[i \in 0 .. Len(mutations)] ==
                 IF i = 0 THEN base
                 ELSE IF mutations[i].op = "insert" THEN after[i - 1]
                 ELSE Apply(mutations[i], after[i - 1])
    <2>1. mutations \in Seq(Mutation) /\ base \in StoreOf
      BY <1>1 DEF WMInv, WMTypes
    <2>2. after = [i \in 0 .. Len(mutations) |->
                     IF i = 0 THEN base
                     ELSE IF mutations[i].op = "insert" THEN after[i - 1]
                     ELSE Apply(mutations[i], after[i - 1])]
      <3>1. \E f : f = [i \in 0 .. Len(mutations) |->
                       IF i = 0 THEN base
                       ELSE IF mutations[i].op = "insert" THEN f[i - 1]
                       ELSE Apply(mutations[i], f[i - 1])]
        BY <2>1, OnceExists
      <3>2. QED
        BY <3>1
    <2> HIDE DEF after
    <2> DEFINE once == after[n]
    <2>3. AsOnce(mutations, n, base, once)
      BY <2>1, <2>2, OnceFacts
    <2> HIDE DEF once
    <2>4. ASSUME NEW m \in MemoryId, base.status[m] # "none"
          PROVE  status[m] = once.status[m] /\ text[m] = once.text[m]
      <3>1. AsPlanned(m) /\ Done = n /\ ~crashed /\ base.status[m] \in Status
        <4>1. AsPlanned(m) /\ base.status[m] \in Status
          BY <1>1, <2>1, <2>4 DEF WMInv, Idle, StoreOf
        <4>2. Len(mutations) \in Nat /\ Len(todo) = 0 /\ ~crashed
          BY <2>1, LenProperties DEF Idle
        <4>3. QED
          BY <4>1, <4>2 DEF Done
      <3>2. CASE base.status[m] = "archived"
        BY <2>3, <3>1, <3>2 DEF AsPlanned, AsOnce
      <3>3. CASE base.status[m] = "active"
        <4>1. (~crashed) = TRUE
          BY <3>1
        <4>2. OnTheWay(mutations, n, TRUE, m, base.text[m], status[m], text[m])
          BY <3>1, <3>3, <4>1 DEF AsPlanned
        <4>3. /\ once.status[m] = IF GoneBy(mutations, n, m) THEN "archived" ELSE "active"
              /\ LastSays(mutations, n, m, base.text[m], once.text[m])
          BY <2>3, <3>3 DEF AsOnce
        <4>4. LastSays(mutations, n, m, base.text[m], text[m])
          BY <4>2 DEF OnTheWay, LastSays
        <4>5. n \in Nat
          BY <2>1, LenProperties
        <4>6. text[m] = once.text[m]
          BY <4>3, <4>4, <4>5, SaysOne
        <4>7. QED
          BY <4>2, <4>3, <4>6 DEF OnTheWay
      <3>4. QED
        BY <2>4, <3>1, <3>2, <3>3 DEF Status
    <2>5. \A m \in MemoryId : base.status[m] # "none" =>
             status[m] = once.status[m] /\ text[m] = once.text[m]
      BY <2>4
    <2>6. QED
      BY <2>5 DEF RetriesConverge, once, after
  <1>2. QED
    BY <1>1, WorkingMemoryInvariant, PTL
=============================================================================
