--------------------------- MODULE McpServerProofs ---------------------------
(***************************************************************************)
(* Theorems about the MCP server, for any number of clients, any lines,    *)
(* pipes of any size and any number of crashes, and about a request that   *)
(* is made through both front ends, for any amounts and any database.      *)
(***************************************************************************)
EXTENDS McpServer, FrontEnds, SequenceTheorems, CollectionProofs, TLAPS

-----------------------------------------------------------------------------
(* Two sequences, one behind the other.                                    *)

\* The elements of a sequence behind another.
LEMMA Behind ==
  ASSUME NEW S, NEW s \in Seq(S), NEW t \in Seq(S)
  PROVE  /\ s \o t \in Seq(S) /\ DOMAIN (s \o t) = 1 .. Len(s) + Len(t)
         /\ Len(s) \in Nat /\ Len(t) \in Nat /\ DOMAIN s = 1 .. Len(s) /\ DOMAIN t = 1 .. Len(t)
         /\ \A i \in 1 .. Len(s) + Len(t) : (s \o t)[i] = IF i <= Len(s) THEN s[i] ELSE t[i - Len(s)]
  BY ConcatProperties, LenProperties

\* Moving the head of the second to the end of the first changes nothing.
LEMMA HeadMoves ==
  ASSUME NEW S, NEW s \in Seq(S), NEW t \in Seq(S), t # <<>>
  PROVE  /\ Append(s, Head(t)) \in Seq(S) /\ Tail(t) \in Seq(S)
         /\ Append(s, Head(t)) \o Tail(t) = s \o t
  <1> DEFINE a == Append(s, Head(t))
             r == Tail(t)
  <1>1. Head(t) \in S /\ r \in Seq(S) /\ Len(r) = Len(t) - 1 /\ Head(t) = t[1]
    BY HeadTailProperties
  <1>2. \A i \in 1 .. Len(t) - 1 : r[i] = t[i + 1]
    BY <1>1, HeadTailProperties
  <1>3. Len(s) \in Nat /\ Len(t) \in Nat /\ Len(t) > 0
    BY LenProperties, EmptySeq
  <1>4. /\ a \in Seq(S) /\ Len(a) = Len(s) + 1 /\ a[Len(s) + 1] = Head(t)
        /\ \A i \in 1 .. Len(s) : a[i] = s[i]
    BY <1>1, <1>3, AppendProperties
  <1> HIDE DEF a, r
  <1>5. /\ a \o r \in Seq(S) /\ DOMAIN (a \o r) = 1 .. Len(a) + Len(r)
        /\ \A i \in 1 .. Len(a) + Len(r) : (a \o r)[i] = IF i <= Len(a) THEN a[i] ELSE r[i - Len(a)]
    <2>1. a \in Seq(S)
      BY <1>4
    <2>2. r \in Seq(S)
      BY <1>1
    <2>3. QED
      BY <2>1, <2>2, Behind
  <1>6. /\ s \o t \in Seq(S) /\ DOMAIN (s \o t) = 1 .. Len(s) + Len(t)
        /\ \A i \in 1 .. Len(s) + Len(t) : (s \o t)[i] = IF i <= Len(s) THEN s[i] ELSE t[i - Len(s)]
    BY Behind
  <1>7. Len(a) + Len(r) = Len(s) + Len(t)
    BY <1>1, <1>3, <1>4
  <1>8. ASSUME NEW i \in 1 .. Len(s) + Len(t)
        PROVE  (a \o r)[i] = (s \o t)[i]
    <2>1. (a \o r)[i] = IF i <= Len(s) + 1 THEN a[i] ELSE r[i - (Len(s) + 1)]
      BY <1>4, <1>5, <1>7
    <2>2. (s \o t)[i] = IF i <= Len(s) THEN s[i] ELSE t[i - Len(s)]
      BY <1>6
    <2>3. i \in Int /\ 1 <= i /\ i <= Len(s) + Len(t)
      BY <1>3
    <2>4. CASE i <= Len(s)
      <3>1. i <= Len(s) + 1
        BY <1>3, <2>3, <2>4
      <3>2. QED
        BY <1>4, <2>1, <2>2, <2>3, <2>4, <3>1
    <2>5. CASE i = Len(s) + 1
      <3>1. a[i] = t[1] /\ i - Len(s) = 1 /\ ~(i <= Len(s))
        BY <1>1, <1>3, <1>4, <2>5
      <3>2. QED
        BY <1>3, <2>1, <2>2, <2>5, <3>1
    <2>6. CASE i > Len(s) + 1
      <3>1. i - (Len(s) + 1) \in 1 .. Len(t) - 1 /\ (i - (Len(s) + 1)) + 1 = i - Len(s)
        BY <1>3, <2>3, <2>6
      <3>2. r[i - (Len(s) + 1)] = t[i - Len(s)]
        BY <1>2, <3>1
      <3>3. ~(i <= Len(s) + 1) /\ ~(i <= Len(s))
        BY <1>3, <2>3, <2>6
      <3>4. QED
        BY <2>1, <2>2, <3>2, <3>3
    <2>7. i <= Len(s) \/ i = Len(s) + 1 \/ i > Len(s) + 1
      BY <1>3, <2>3
    <2>8. QED
      BY <2>4, <2>5, <2>6, <2>7
  <1>9. a \o r = s \o t
    <2>1. Len(a \o r) = Len(s \o t)
      BY <1>5, <1>6, <1>7, LenProperties
    <2>2. Len(a \o r) = Len(s) + Len(t)
      BY <1>1, <1>4, <1>7, ConcatProperties
    <2>3. QED
      BY <1>5, <1>6, <1>8, <2>1, <2>2, SeqEqual
  <1>10. QED
    BY <1>1, <1>4, <1>9 DEF a, r

\* What is appended to the second is appended to both.
LEMMA EndGrows ==
  ASSUME NEW S, NEW s \in Seq(S), NEW t \in Seq(S), NEW x \in S
  PROVE  /\ Append(t, x) \in Seq(S)
         /\ DOMAIN (s \o Append(t, x)) = 1 .. Len(s) + Len(t) + 1
         /\ \A i \in DOMAIN (s \o t) : (s \o Append(t, x))[i] = (s \o t)[i]
         /\ (s \o Append(t, x))[Len(s) + Len(t) + 1] = x
  <1>1. Len(s) \in Nat /\ Len(t) \in Nat
    BY LenProperties
  <1>2. /\ Append(t, x) \in Seq(S) /\ Len(Append(t, x)) = Len(t) + 1
        /\ Append(t, x)[Len(t) + 1] = x /\ \A i \in 1 .. Len(t) : Append(t, x)[i] = t[i]
    BY AppendProperties
  <1> DEFINE u == Append(t, x)
  <1> HIDE DEF u
  <1>3. /\ DOMAIN (s \o u) = 1 .. Len(s) + Len(u)
        /\ \A i \in 1 .. Len(s) + Len(u) : (s \o u)[i] = IF i <= Len(s) THEN s[i] ELSE u[i - Len(s)]
    BY <1>2, Behind DEF u
  <1>4. /\ DOMAIN (s \o t) = 1 .. Len(s) + Len(t)
        /\ \A i \in 1 .. Len(s) + Len(t) : (s \o t)[i] = IF i <= Len(s) THEN s[i] ELSE t[i - Len(s)]
    BY Behind
  <1>5. Len(u) = Len(t) + 1 /\ u[Len(t) + 1] = x /\ \A i \in 1 .. Len(t) : u[i] = t[i]
    BY <1>2 DEF u
  <1>6. ASSUME NEW i \in 1 .. Len(s) + Len(t) PROVE (s \o u)[i] = (s \o t)[i]
    <2>1. i \in 1 .. Len(s) + Len(u)
      BY <1>1, <1>5
    <2>2. ~(i <= Len(s)) => i - Len(s) \in 1 .. Len(t)
      BY <1>1
    <2>3. QED
      BY <1>3, <1>4, <1>5, <2>1, <2>2
  <1>7. (s \o u)[Len(s) + Len(t) + 1] = x
    <2>1. Len(s) + Len(t) + 1 \in 1 .. Len(s) + Len(u) /\ ~(Len(s) + Len(t) + 1 <= Len(s))
      BY <1>1, <1>5
    <2>2. (Len(s) + Len(t) + 1) - Len(s) = Len(t) + 1
      BY <1>1
    <2>3. QED
      BY <1>3, <1>5, <2>1, <2>2
  <1>8. QED
    BY <1>1, <1>2, <1>3, <1>4, <1>5, <1>6, <1>7 DEF u

\* A number up to the next one.
LEMMA UpToNext ==
  ASSUME NEW n \in Nat
  PROVE  /\ \A i \in 1 .. n + 1 : i \in 1 .. n \/ i = n + 1
         /\ \A i, j \in 1 .. n + 1 : i < j => i \in 1 .. n
  OBVIOUS

-----------------------------------------------------------------------------
(* The invariant.                                                          *)

AnswerType == [line : Nat, ok : BOOLEAN]
Effects == {"insert", "archive", "touch", "learn"}

\* What clients and servers hold has its type.
McpTypes ==
  /\ sent \in [Client -> Seq(Lines)] /\ inbox \in [Client -> Seq(Nat)]
  /\ outbox \in [Client -> Seq(AnswerType)] /\ got \in [Client -> Seq(AnswerType)]
  /\ up \in [Client -> BOOLEAN] /\ active \subseteq Memories
  /\ did \in [Client -> [1 .. MaxSends -> SUBSET Effects]]
  /\ job = [c \in Client |-> job[c]]
  /\ \A c \in Client :
       /\ job[c] = [line |-> job[c].line, steps |-> job[c].steps, on |-> job[c].on]
       /\ job[c].line \in Nat /\ (job[c].line = 0 => job[c] = NoJob)

\* The pipes have room for what is in them, and a server that ended has no
\* job and no lines.
Fits(c) ==
  /\ Len(inbox[c]) <= Pipe /\ Len(outbox[c]) <= Pipe
  /\ ~up[c] => job[c] = NoJob /\ inbox[c] = <<>>

\* In the order of their numbers: the lines that were answered, the one that
\* is worked on, and those in the pipe; all of them were sent.
InOrder(c) ==
  /\ \A i, j \in DOMAIN Answers(c) : i < j => Answers(c)[i].line < Answers(c)[j].line
  /\ \A i \in DOMAIN Answers(c) : LET k == Answers(c)[i].line IN
       k \in DOMAIN sent[c] /\ sent[c][k].type = "call" /\ sent[c][k].id
  /\ \A i, j \in DOMAIN inbox[c] : i < j => inbox[c][i] < inbox[c][j]
  /\ \A j \in DOMAIN inbox[c] :
       /\ inbox[c][j] \in DOMAIN sent[c] /\ job[c].line < inbox[c][j]
       /\ \A i \in DOMAIN Answers(c) : Answers(c)[i].line < inbox[c][j]
  /\ job[c].line # 0 =>
       /\ job[c].line \in DOMAIN sent[c] /\ sent[c][job[c].line].type = "call"
       /\ \A i \in DOMAIN Answers(c) : Answers(c)[i].line < job[c].line

McpInv == McpTypes /\ \A c \in Client : Fits(c) /\ InOrder(c)

\* The invariant holds at first.
LEMMA McpInvInit == McpInit => McpInv
  <1> SUFFICES ASSUME McpInit PROVE McpInv
    OBVIOUS
  <1>1. \A S : <<>> \in Seq(S) /\ Len(<<>>) = 0 /\ DOMAIN <<>> = {}
    BY EmptySeq
  <1>2. McpTypes
    BY <1>1 DEF McpInit, McpTypes, NoJob, Effects
  <1>3. ASSUME NEW c \in Client PROVE Fits(c) /\ InOrder(c)
    <2>1. inbox[c] = <<>> /\ outbox[c] = <<>> /\ got[c] = <<>> /\ up[c] /\ job[c].line = 0
      BY DEF McpInit, NoJob
    <2>2. Answers(c) = <<>>
      <3>1. Len(<<>> \o <<>>) = 0 /\ <<>> \o <<>> \in Seq({})
        BY <1>1, ConcatProperties
      <3>2. QED
        BY <2>1, <3>1, EmptySeq DEF Answers
    <2>3. QED
      BY <1>1, <2>1, <2>2, McpConstants DEF Fits, InOrder
  <1>4. QED
    BY <1>2, <1>3 DEF McpInv

\* A client whose lines, answers and server are left alone.
LEMMA OthersKeep ==
  ASSUME McpInv, NEW d \in Client,
         inbox'[d] = inbox[d], outbox'[d] = outbox[d], got'[d] = got[d],
         sent'[d] = sent[d], job'[d] = job[d], up'[d] = up[d]
  PROVE  Fits(d)' /\ InOrder(d)'
  <1>1. Answers(d)' = Answers(d)
    BY DEF Answers
  <1>2. QED
    BY <1>1 DEF McpInv, Fits, InOrder

-----------------------------------------------------------------------------
(* The steps of a client.                                                  *)

\* What is sent gets the next number.
LEMMA SendKeeps ==
  ASSUME McpInv, NEW c \in Client, NEW line \in Lines, Send(c, line)
  PROVE  McpInv'
  <1> DEFINE n == Len(sent[c]) + 1
  <1>1. /\ sent' = [sent EXCEPT ![c] = Append(sent[c], line)]
        /\ inbox' = [inbox EXCEPT ![c] = Append(inbox[c], n)]
        /\ up[c] /\ Len(inbox[c]) < Pipe
        /\ UNCHANGED <<outbox, up, job, active, got, did>>
    BY DEF Send
  <1>2. sent[c] \in Seq(Lines) /\ inbox[c] \in Seq(Nat)
    BY DEF McpInv, McpTypes
  <1>3. Len(sent[c]) \in Nat /\ n \in Nat /\ Len(inbox[c]) \in Nat /\ DOMAIN sent[c] = 1 .. Len(sent[c])
        /\ DOMAIN inbox[c] = 1 .. Len(inbox[c])
    BY <1>2, LenProperties
  <1>4. /\ sent'[c] \in Seq(Lines) /\ DOMAIN sent'[c] = 1 .. n
        /\ \A k \in DOMAIN sent[c] : sent'[c][k] = sent[c][k]
    <2>1. /\ Append(sent[c], line) \in Seq(Lines) /\ Len(Append(sent[c], line)) = n
          /\ \A k \in 1 .. Len(sent[c]) : Append(sent[c], line)[k] = sent[c][k]
      BY <1>2, AppendProperties
    <2>2. DOMAIN Append(sent[c], line) = 1 .. n
      BY <2>1, LenProperties
    <2>3. sent'[c] = Append(sent[c], line)
      BY <1>1 DEF McpInv, McpTypes
    <2>4. QED
      BY <1>3, <2>1, <2>2, <2>3
  <1>5. /\ inbox'[c] \in Seq(Nat) /\ DOMAIN inbox'[c] = 1 .. Len(inbox[c]) + 1 /\ Len(inbox'[c]) = Len(inbox[c]) + 1
        /\ inbox'[c][Len(inbox[c]) + 1] = n /\ \A j \in DOMAIN inbox[c] : inbox'[c][j] = inbox[c][j]
    <2>1. /\ Append(inbox[c], n) \in Seq(Nat) /\ Len(Append(inbox[c], n)) = Len(inbox[c]) + 1
          /\ Append(inbox[c], n)[Len(inbox[c]) + 1] = n
          /\ \A j \in 1 .. Len(inbox[c]) : Append(inbox[c], n)[j] = inbox[c][j]
      BY <1>2, <1>3, AppendProperties
    <2>2. DOMAIN Append(inbox[c], n) = 1 .. Len(inbox[c]) + 1
      BY <2>1, LenProperties
    <2>3. inbox'[c] = Append(inbox[c], n)
      BY <1>1 DEF McpInv, McpTypes
    <2>4. QED
      BY <1>3, <2>1, <2>2, <2>3
  <1>6. McpTypes'
    BY <1>1, <1>4, <1>5 DEF McpInv, McpTypes
  <1>7. Answers(c)' = Answers(c)
    BY <1>1 DEF Answers
  <1>8. Fits(c)'
    BY <1>1, <1>3, <1>5, McpConstants DEF McpInv, Fits
  <1>9. InOrder(c)'
    <2>1. \A k \in DOMAIN sent[c] : k \in DOMAIN sent'[c] /\ k < n
      BY <1>3, <1>4
    <2>2. \A j \in DOMAIN inbox'[c] : j \in DOMAIN inbox[c] \/ (j = Len(inbox[c]) + 1 /\ inbox'[c][j] = n)
      BY <1>3, <1>5
    <2>3. \A i \in DOMAIN Answers(c) : Answers(c)[i].line < n
      BY <2>1 DEF McpInv, InOrder
    <2>4. job[c].line < n
      <3>1. CASE job[c].line = 0
        BY <1>3, <3>1
      <3>2. CASE job[c].line # 0
        BY <2>1, <3>2 DEF McpInv, InOrder
      <3>3. QED
        BY <3>1, <3>2
    <2>5. \A j \in DOMAIN inbox'[c] :
            /\ inbox'[c][j] \in DOMAIN sent'[c] /\ job[c].line < inbox'[c][j]
            /\ \A i \in DOMAIN Answers(c) : Answers(c)[i].line < inbox'[c][j]
      <3> SUFFICES ASSUME NEW j \in DOMAIN inbox'[c]
                   PROVE  /\ inbox'[c][j] \in DOMAIN sent'[c] /\ job[c].line < inbox'[c][j]
                          /\ \A i \in DOMAIN Answers(c) : Answers(c)[i].line < inbox'[c][j]
        OBVIOUS
      <3>1. CASE j \in DOMAIN inbox[c]
        BY <1>5, <2>1, <3>1 DEF McpInv, InOrder
      <3>2. CASE inbox'[c][j] = n
        BY <1>3, <1>4, <2>3, <2>4, <3>2
      <3>3. QED
        BY <2>2, <3>1, <3>2
    <2>6. \A i, j \in DOMAIN inbox'[c] : i < j => inbox'[c][i] < inbox'[c][j]
      <3> SUFFICES ASSUME NEW i \in DOMAIN inbox'[c], NEW j \in DOMAIN inbox'[c], i < j
                   PROVE  inbox'[c][i] < inbox'[c][j]
        OBVIOUS
      <3>1. i \in DOMAIN inbox[c]
        BY <1>3, <1>5
      <3>2. CASE j \in DOMAIN inbox[c]
        BY <1>5, <3>1, <3>2 DEF McpInv, InOrder
      <3>3. CASE inbox'[c][j] = n
        BY <1>5, <2>1, <3>1, <3>3 DEF McpInv, InOrder
      <3>4. QED
        BY <2>2, <3>2, <3>3
    <2>7. QED
      BY <1>1, <1>4, <1>7, <2>1, <2>5, <2>6 DEF McpInv, InOrder
  <1>10. ASSUME NEW d \in Client, d # c PROVE Fits(d)' /\ InOrder(d)'
    BY <1>1, <1>10, OthersKeep DEF McpInv, McpTypes
  <1>11. QED
    BY <1>6, <1>8, <1>9, <1>10 DEF McpInv

\* An answer that is read is the same answer.
LEMMA ReadAnswerKeeps ==
  ASSUME McpInv, NEW c \in Client, ReadAnswer(c)
  PROVE  McpInv'
  <1>1. /\ outbox[c] # <<>> /\ got' = [got EXCEPT ![c] = Append(got[c], Head(outbox[c]))]
        /\ outbox' = [outbox EXCEPT ![c] = Tail(outbox[c])]
        /\ UNCHANGED <<inbox, up, job, active, sent, did>>
    BY DEF ReadAnswer
  <1>2. outbox[c] \in Seq(AnswerType) /\ got[c] \in Seq(AnswerType)
    BY DEF McpInv, McpTypes
  <1>3. /\ Append(got[c], Head(outbox[c])) \in Seq(AnswerType) /\ Tail(outbox[c]) \in Seq(AnswerType)
        /\ Append(got[c], Head(outbox[c])) \o Tail(outbox[c]) = got[c] \o outbox[c]
    BY <1>1, <1>2, HeadMoves
  <1>4. /\ got'[c] = Append(got[c], Head(outbox[c])) /\ outbox'[c] = Tail(outbox[c])
    BY <1>1 DEF McpInv, McpTypes
  <1>5. Answers(c)' = Answers(c)
    BY <1>3, <1>4 DEF Answers
  <1>6. McpTypes'
    BY <1>1, <1>3 DEF McpInv, McpTypes
  <1>7. Fits(c)'
    <2>1. Len(Tail(outbox[c])) = Len(outbox[c]) - 1 /\ Len(outbox[c]) \in Nat
      BY <1>1, <1>2, HeadTailProperties, LenProperties
    <2>2. QED
      BY <1>1, <1>4, <2>1, McpConstants DEF McpInv, Fits
  <1>8. InOrder(c)'
    BY <1>1, <1>5 DEF McpInv, InOrder
  <1>9. ASSUME NEW d \in Client, d # c PROVE Fits(d)' /\ InOrder(d)'
    BY <1>1, <1>9, OthersKeep DEF McpInv, McpTypes
  <1>10. QED
    BY <1>6, <1>7, <1>8, <1>9 DEF McpInv

\* A new server finds empty pipes.
LEMMA RestartKeeps ==
  ASSUME McpInv, NEW c \in Client, Restart(c)
  PROVE  McpInv'
  <1>1. /\ up' = [up EXCEPT ![c] = TRUE] /\ UNCHANGED <<inbox, outbox, job, active, sent, got, did>>
    BY DEF Restart
  <1>2. McpTypes'
    BY <1>1 DEF McpInv, McpTypes
  <1>3. ASSUME NEW d \in Client PROVE Fits(d)' /\ InOrder(d)'
    <2>1. Answers(d)' = Answers(d)
      BY <1>1 DEF Answers
    <2>2. InOrder(d)'
      BY <1>1, <2>1 DEF McpInv, InOrder
    <2>3. Fits(d)'
      BY <1>1 DEF McpInv, McpTypes, Fits
    <2>4. QED
      BY <2>2, <2>3
  <1>4. QED
    BY <1>2, <1>3 DEF McpInv

-----------------------------------------------------------------------------
(* The steps of a server.                                                  *)

\* A server that ends leaves the answers that it wrote.
LEMMA EndKeeps ==
  ASSUME McpInv, NEW c \in Client, End(c), UNCHANGED <<active, sent, got, did>>
  PROVE  McpInv'
  <1>1. /\ up' = [up EXCEPT ![c] = FALSE] /\ job' = [job EXCEPT ![c] = NoJob]
        /\ inbox' = [inbox EXCEPT ![c] = <<>>] /\ outbox' = outbox
    BY DEF End
  <1>2. \A S : <<>> \in Seq(S) /\ Len(<<>>) = 0 /\ DOMAIN <<>> = {}
    BY EmptySeq
  <1>3. McpTypes'
    BY <1>1, <1>2 DEF McpInv, McpTypes, NoJob
  <1>4. inbox'[c] = <<>> /\ job'[c] = NoJob
    BY <1>1 DEF McpInv, McpTypes
  <1>5. Answers(c)' = Answers(c)
    BY <1>1 DEF Answers
  <1>6. Fits(c)'
    BY <1>1, <1>2, <1>4, McpConstants DEF McpInv, Fits
  <1>7. InOrder(c)'
    BY <1>2, <1>4, <1>5 DEF McpInv, InOrder, NoJob
  <1>8. ASSUME NEW d \in Client, d # c PROVE Fits(d)' /\ InOrder(d)'
    BY <1>1, <1>8, OthersKeep DEF McpInv, McpTypes
  <1>9. QED
    BY <1>3, <1>6, <1>7, <1>8 DEF McpInv

\* The next line comes before those behind it.
LEMMA NextLine ==
  ASSUME McpInv, NEW c \in Client, inbox[c] # <<>>
  PROVE  /\ Take(c).line \in Nat /\ Take(c).rest \in Seq(Nat) /\ Len(Take(c).rest) <= Pipe
         /\ Take(c).line \in DOMAIN sent[c] /\ job[c].line < Take(c).line
         /\ \A i \in DOMAIN Answers(c) : Answers(c)[i].line < Take(c).line
         /\ \A j \in DOMAIN Take(c).rest :
              /\ j \in DOMAIN inbox[c] /\ j + 1 \in DOMAIN inbox[c] /\ Take(c).rest[j] = inbox[c][j + 1]
              /\ j \in Nat /\ Take(c).line < Take(c).rest[j]
  <1>1. inbox[c] \in Seq(Nat)
    BY DEF McpInv, McpTypes
  <1>2. /\ Take(c).line = inbox[c][1] /\ Take(c).rest = Tail(inbox[c])
        /\ Tail(inbox[c]) \in Seq(Nat) /\ Len(Tail(inbox[c])) = Len(inbox[c]) - 1 /\ inbox[c][1] \in Nat
        /\ \A j \in 1 .. Len(inbox[c]) - 1 : Tail(inbox[c])[j] = inbox[c][j + 1]
    BY <1>1, HeadTailProperties DEF Take
  <1>3. /\ Len(inbox[c]) \in Nat /\ Len(inbox[c]) > 0 /\ DOMAIN inbox[c] = 1 .. Len(inbox[c])
        /\ DOMAIN Tail(inbox[c]) = 1 .. Len(inbox[c]) - 1
    BY <1>1, <1>2, LenProperties, EmptySeq
  <1>4. 1 \in DOMAIN inbox[c]
    BY <1>3
  <1>5. /\ inbox[c][1] \in DOMAIN sent[c] /\ job[c].line < inbox[c][1]
        /\ \A i \in DOMAIN Answers(c) : Answers(c)[i].line < inbox[c][1]
    BY <1>4 DEF McpInv, InOrder
  <1>6. ASSUME NEW j \in 1 .. Len(inbox[c]) - 1
        PROVE  /\ j \in DOMAIN inbox[c] /\ j + 1 \in DOMAIN inbox[c] /\ j \in Nat
               /\ inbox[c][1] < inbox[c][j + 1]
    <2>1. j \in DOMAIN inbox[c] /\ j + 1 \in DOMAIN inbox[c] /\ j \in Nat /\ 1 < j + 1
      BY <1>3
    <2>2. QED
      BY <1>4, <2>1 DEF McpInv, InOrder
  <1>7. Len(Tail(inbox[c])) <= Pipe
    BY <1>2, <1>3, McpConstants DEF McpInv, Fits
  <1>8. QED
    BY <1>2, <1>3, <1>5, <1>6, <1>7

\* A line that is passed over, or that becomes the job.
LEMMA ReadLineKeeps ==
  ASSUME McpInv, NEW c \in Client, ReadLine(c)
  PROVE  McpInv'
  <1> DEFINE k == Take(c).line
             line == LineOf(c, k)
             rest == Take(c).rest
             steps == IF line.readable THEN StepsOf(line.tool) ELSE <<"refuse">>
  <1>1. up[c] /\ job[c] = NoJob /\ inbox[c] # <<>> /\ UNCHANGED <<active, sent, got, did>>
    BY DEF ReadLine
  <1>2. \/ End(c)
        \/ inbox' = [inbox EXCEPT ![c] = rest] /\ UNCHANGED <<outbox, up, job>>
        \/ /\ line.type = "call" /\ inbox' = [inbox EXCEPT ![c] = rest]
           /\ job' = [job EXCEPT ![c] = [line |-> k, on |-> line.on, steps |-> steps]]
           /\ UNCHANGED <<outbox, up>>
    BY DEF ReadLine
  <1>3. CASE End(c)
    BY <1>1, <1>3, EndKeeps
  <1>4. /\ k \in Nat /\ rest \in Seq(Nat) /\ Len(rest) <= Pipe /\ k \in DOMAIN sent[c] /\ job[c].line < k
        /\ \A i \in DOMAIN Answers(c) : Answers(c)[i].line < k
        /\ \A j \in DOMAIN rest :
              /\ j \in DOMAIN inbox[c] /\ j + 1 \in DOMAIN inbox[c] /\ rest[j] = inbox[c][j + 1]
              /\ j \in Nat /\ k < rest[j]
    BY <1>1, NextLine
  <1>5. \A i, j \in DOMAIN rest : i < j => rest[i] < rest[j]
    <2> SUFFICES ASSUME NEW i \in DOMAIN rest, NEW j \in DOMAIN rest, i < j PROVE rest[i] < rest[j]
      OBVIOUS
    <2>1. /\ i + 1 \in DOMAIN inbox[c] /\ j + 1 \in DOMAIN inbox[c] /\ i + 1 < j + 1
          /\ rest[i] = inbox[c][i + 1] /\ rest[j] = inbox[c][j + 1]
      BY <1>4
    <2>2. QED
      BY <2>1 DEF McpInv, InOrder
  <1>6. ASSUME inbox' = [inbox EXCEPT ![c] = rest], UNCHANGED <<outbox, up>>,
               \/ job' = job
               \/ /\ sent[c][k].type = "call"
                  /\ \E x, y : job' = [job EXCEPT ![c] = [line |-> k, on |-> x, steps |-> y]]
        PROVE  McpInv'
    <2>1. inbox'[c] = rest
      BY <1>6 DEF McpInv, McpTypes
    <2>2. \/ job'[c] = job[c] /\ job[c].line = 0
          \/ job'[c].line = k /\ sent[c][k].type = "call"
      BY <1>1, <1>6 DEF McpInv, McpTypes, NoJob
    <2>3. k # 0
      <3>1. sent[c] \in Seq(Lines)
        BY DEF McpInv, McpTypes
      <3>2. DOMAIN sent[c] = 1 .. Len(sent[c]) /\ Len(sent[c]) \in Nat
        BY <3>1, LenProperties
      <3>3. QED
        BY <1>4, <3>2
    <2>4. Answers(c)' = Answers(c)
      BY <1>1, <1>6 DEF Answers
    <2>5. McpTypes'
      <3>1. inbox' \in [Client -> Seq(Nat)]
        BY <1>4, <1>6 DEF McpInv, McpTypes
      <3>2. job' = [d \in Client |-> job'[d]]
        BY <1>6 DEF McpInv, McpTypes
      <3>3. ASSUME NEW d \in Client
            PROVE  /\ job'[d] = [line |-> job'[d].line, steps |-> job'[d].steps, on |-> job'[d].on]
                   /\ job'[d].line \in Nat /\ (job'[d].line = 0 => job'[d] = NoJob)
        <4>1. CASE job' = job
          BY <4>1 DEF McpInv, McpTypes
        <4>2. ASSUME NEW x, NEW y, job' = [job EXCEPT ![c] = [line |-> k, on |-> x, steps |-> y]], d = c
              PROVE  job'[d] = [line |-> k, on |-> x, steps |-> y]
          BY <4>2 DEF McpInv, McpTypes
        <4>3. ASSUME NEW x, NEW y, job' = [job EXCEPT ![c] = [line |-> k, on |-> x, steps |-> y]], d # c
              PROVE  job'[d] = job[d]
          BY <4>3 DEF McpInv, McpTypes
        <4>4. CASE job'[d] = job[d]
          BY <4>4 DEF McpInv, McpTypes
        <4>5. ASSUME NEW x, NEW y, job'[d] = [line |-> k, on |-> x, steps |-> y]
              PROVE  /\ job'[d] = [line |-> job'[d].line, steps |-> job'[d].steps, on |-> job'[d].on]
                     /\ job'[d].line \in Nat /\ (job'[d].line = 0 => job'[d] = NoJob)
          BY <1>4, <2>3, <4>5
        <4>6. QED
          BY <1>6, <4>1, <4>2, <4>3, <4>4, <4>5
      <3>4. QED
        BY <1>1, <1>6, <3>1, <3>2, <3>3 DEF McpInv, McpTypes
    <2>6. Fits(c)'
      BY <1>1, <1>4, <1>6, <2>1 DEF McpInv, Fits
    <2>7. InOrder(c)'
      BY <1>1, <1>4, <1>5, <2>1, <2>2, <2>4 DEF McpInv, InOrder
    <2>8. ASSUME NEW d \in Client, d # c PROVE Fits(d)' /\ InOrder(d)'
      BY <1>1, <1>6, <2>8, OthersKeep DEF McpInv, McpTypes
    <2>9. QED
      BY <2>5, <2>6, <2>7, <2>8 DEF McpInv
  <1> HIDE DEF k, rest, steps
  <1>7. QED
    BY <1>2, <1>3, <1>6 DEF LineOf

\* An answer that is written comes last.
LEMMA FinishAnswers ==
  ASSUME McpInv, NEW c \in Client, NEW ok \in BOOLEAN, Finish(c, ok), UNCHANGED got,
         sent[c][job[c].line].id
  PROVE  \E n \in Nat :
           /\ DOMAIN Answers(c) = 1 .. n /\ DOMAIN Answers(c)' = 1 .. n + 1
           /\ Answers(c)'[n + 1] = [line |-> job[c].line, ok |-> ok]
           /\ \A i \in DOMAIN Answers(c) : Answers(c)'[i] = Answers(c)[i]
  <1> DEFINE g == got[c]
             o == outbox[c]
             answer == [line |-> job[c].line, ok |-> ok]
             n == Len(g) + Len(o)
  <1>1. answer \in AnswerType /\ o \in Seq(AnswerType) /\ g \in Seq(AnswerType)
    BY DEF McpInv, McpTypes, AnswerType
  <1>2. outbox'[c] = Append(o, answer) /\ got'[c] = g
    BY DEF Finish, LineOf, McpInv, McpTypes
  <1> HIDE DEF answer, g, o
  <1>3. /\ DOMAIN (g \o Append(o, answer)) = 1 .. Len(g) + Len(o) + 1
        /\ \A i \in DOMAIN (g \o o) : (g \o Append(o, answer))[i] = (g \o o)[i]
        /\ (g \o Append(o, answer))[Len(g) + Len(o) + 1] = answer
    BY <1>1, EndGrows
  <1>4. DOMAIN (g \o o) = 1 .. n /\ Len(g) \in Nat /\ Len(o) \in Nat
    BY <1>1, Behind
  <1>5. Answers(c) = g \o o /\ Answers(c)' = g \o Append(o, answer)
    BY <1>2 DEF Answers, g, o
  <1>6. n \in Nat
    BY <1>4
  <1> HIDE DEF n
  <1>7. /\ DOMAIN Answers(c) = 1 .. n /\ DOMAIN Answers(c)' = 1 .. n + 1
        /\ Answers(c)'[n + 1] = answer
        /\ \A i \in DOMAIN Answers(c) : Answers(c)'[i] = Answers(c)[i]
    BY <1>3, <1>4, <1>5 DEF n
  <1>8. QED
    BY <1>6, <1>7 DEF answer

\* A step of the handling of a line keeps the line, or answers it.
LEMMA WorkKeeps ==
  ASSUME McpInv, NEW c \in Client, up[c], job[c] # NoJob,
         UNCHANGED <<inbox, up, sent, got>>, active' \subseteq Memories,
         did' \in [Client -> [1 .. MaxSends -> SUBSET Effects]],
         \/ /\ outbox' = outbox
            /\ \E x, y : job' = [job EXCEPT ![c] = [line |-> job[c].line, steps |-> x, on |-> y]]
         \/ \E ok \in BOOLEAN : Finish(c, ok)
  PROVE  McpInv'
  <1>1. job[c].line # 0
    BY DEF McpInv, McpTypes
  <1>2. ASSUME outbox' = outbox,
               NEW x, NEW y, job' = [job EXCEPT ![c] = [line |-> job[c].line, steps |-> x, on |-> y]]
        PROVE  McpInv'
    <2>1. job'[c].line = job[c].line
      BY <1>2 DEF McpInv, McpTypes
    <2>2. McpTypes'
      <3>1. job' = [d \in Client |-> job'[d]]
        BY <1>2 DEF McpInv, McpTypes
      <3>2. ASSUME NEW d \in Client
            PROVE  /\ job'[d] = [line |-> job'[d].line, steps |-> job'[d].steps, on |-> job'[d].on]
                   /\ job'[d].line \in Nat /\ (job'[d].line = 0 => job'[d] = NoJob)
        BY <1>1, <1>2 DEF McpInv, McpTypes
      <3>3. QED
        BY <1>2, <3>1, <3>2 DEF McpInv, McpTypes
    <2>3. Answers(c)' = Answers(c)
      BY <1>2 DEF Answers
    <2>4. Fits(c)' /\ InOrder(c)'
      BY <1>2, <2>1, <2>3 DEF McpInv, Fits, InOrder
    <2>5. ASSUME NEW d \in Client, d # c PROVE Fits(d)' /\ InOrder(d)'
      BY <1>2, <2>5, OthersKeep DEF McpInv, McpTypes
    <2>6. QED
      BY <2>2, <2>4, <2>5 DEF McpInv
  <1>3. ASSUME NEW ok \in BOOLEAN, Finish(c, ok)
        PROVE  McpInv'
    <2> DEFINE k == job[c].line
               answer == [line |-> k, ok |-> ok]
               id == sent[c][k].id
    <2>1. /\ job' = [job EXCEPT ![c] = NoJob] /\ (id => Len(outbox[c]) < Pipe)
          /\ outbox' = IF id THEN [outbox EXCEPT ![c] = Append(outbox[c], answer)] ELSE outbox
      BY <1>3 DEF Finish, LineOf
    <2>2. answer \in AnswerType /\ outbox[c] \in Seq(AnswerType) /\ got[c] \in Seq(AnswerType)
      BY DEF McpInv, McpTypes, AnswerType
    <2>3. /\ k \in DOMAIN sent[c] /\ sent[c][k].type = "call"
          /\ \A i \in DOMAIN Answers(c) : Answers(c)[i].line < k
          /\ \A j \in DOMAIN inbox[c] : k < inbox[c][j]
      BY <1>1 DEF McpInv, InOrder
    <2>4. job'[c] = NoJob /\ job'[c].line = 0
      BY <2>1 DEF McpInv, McpTypes, NoJob
    <2>5. /\ Append(outbox[c], answer) \in Seq(AnswerType)
          /\ DOMAIN (got[c] \o Append(outbox[c], answer)) = 1 .. Len(got[c]) + Len(outbox[c]) + 1
          /\ \A i \in DOMAIN Answers(c) : (got[c] \o Append(outbox[c], answer))[i] = Answers(c)[i]
          /\ (got[c] \o Append(outbox[c], answer))[Len(got[c]) + Len(outbox[c]) + 1] = answer
      <3> DEFINE g == got[c]
                 o == outbox[c]
      <3> HIDE DEF answer, g, o
      <3>1. g \in Seq(AnswerType) /\ o \in Seq(AnswerType) /\ answer \in AnswerType
        BY <2>2 DEF g, o
      <3>2. /\ Append(o, answer) \in Seq(AnswerType)
            /\ DOMAIN (g \o Append(o, answer)) = 1 .. Len(g) + Len(o) + 1
            /\ \A i \in DOMAIN (g \o o) : (g \o Append(o, answer))[i] = (g \o o)[i]
            /\ (g \o Append(o, answer))[Len(g) + Len(o) + 1] = answer
        BY <3>1, EndGrows
      <3>3. QED
        BY <3>2 DEF Answers, g, o
    <2>6. /\ DOMAIN Answers(c) = 1 .. Len(got[c]) + Len(outbox[c])
          /\ Len(got[c]) \in Nat /\ Len(outbox[c]) \in Nat
      BY <2>2, Behind DEF Answers
    <2>7. Len(Append(outbox[c], answer)) = Len(outbox[c]) + 1
      BY <2>2, AppendProperties
    <2>8. answer.line = k
      OBVIOUS
    <2> HIDE DEF answer
    <2>9. outbox'[c] = IF id THEN Append(outbox[c], answer) ELSE outbox[c]
      BY <2>1 DEF McpInv, McpTypes
    <2>10. McpTypes'
      <3>1. outbox' \in [Client -> Seq(AnswerType)]
        BY <2>1, <2>5 DEF McpInv, McpTypes
      <3>2. job' = [d \in Client |-> job'[d]]
        BY <2>1 DEF McpInv, McpTypes
      <3>3. ASSUME NEW d \in Client
            PROVE  /\ job'[d] = [line |-> job'[d].line, steps |-> job'[d].steps, on |-> job'[d].on]
                   /\ job'[d].line \in Nat /\ (job'[d].line = 0 => job'[d] = NoJob)
        BY <2>1 DEF McpInv, McpTypes, NoJob
      <3>4. QED
        BY <3>1, <3>2, <3>3 DEF McpInv, McpTypes
    <2>11. Fits(c)'
      BY <2>1, <2>6, <2>7, <2>9, McpConstants DEF McpInv, Fits
    <2>12. InOrder(c)'
      <3>1. CASE ~id
        <4>1. Answers(c)' = Answers(c)
          BY <2>9, <3>1 DEF Answers
        <4>2. \A j \in DOMAIN inbox[c] : 0 < inbox[c][j]
          BY <1>1, <2>3 DEF McpInv, McpTypes
        <4>3. QED
          BY <2>4, <4>1, <4>2 DEF McpInv, InOrder
      <3>2. CASE id
        <4> DEFINE all == Len(got[c]) + Len(outbox[c])
                   n == all + 1
        <4>0. all \in Nat /\ DOMAIN Answers(c) = 1 .. all
          <5> DEFINE g == Len(got[c])
                     o == Len(outbox[c])
          <5>1. g \in Nat /\ o \in Nat /\ DOMAIN Answers(c) = 1 .. g + o
            BY <2>6
          <5> HIDE DEF g, o
          <5>2. g + o \in Nat
            BY <5>1
          <5>3. QED
            BY <5>1, <5>2 DEF g, o
        <4>1. /\ DOMAIN Answers(c)' = 1 .. n /\ Answers(c)'[n] = answer
              /\ \A i \in DOMAIN Answers(c) : Answers(c)'[i] = Answers(c)[i]
          BY <2>5, <2>9, <3>2 DEF Answers
        <4> HIDE DEF all
        <4>2. /\ \A i \in 1 .. n : i \in DOMAIN Answers(c) \/ i = n
              /\ \A i, j \in 1 .. n : i < j => i \in DOMAIN Answers(c)
          BY <4>0, UpToNext
        <4>3. \A i \in DOMAIN Answers(c) : Answers(c)'[i].line < k
          BY <2>3, <4>1
        <4>4. Answers(c)'[n].line = k
          BY <2>8, <4>1
        <4>5. \A j \in DOMAIN inbox[c] : 0 < inbox[c][j] /\ k < inbox[c][j]
          BY <1>1, <2>3 DEF McpInv, McpTypes
        <4>6. \A i, j \in 1 .. n : i < j => Answers(c)'[i].line < Answers(c)'[j].line
          <5> SUFFICES ASSUME NEW i \in 1 .. n, NEW j \in 1 .. n, i < j
                       PROVE  Answers(c)'[i].line < Answers(c)'[j].line
            OBVIOUS
          <5>1. i \in DOMAIN Answers(c)
            BY <4>2
          <5>2. CASE j \in DOMAIN Answers(c)
            <6>1. Answers(c)[i].line < Answers(c)[j].line
              BY <5>1, <5>2 DEF McpInv, InOrder
            <6>2. QED
              BY <4>1, <5>1, <5>2, <6>1
          <5>3. CASE j = n
            BY <4>3, <4>4, <5>1, <5>3
          <5>4. QED
            BY <4>2, <5>2, <5>3
        <4>7. \A i \in 1 .. n : /\ Answers(c)'[i].line \in DOMAIN sent[c]
                               /\ sent[c][Answers(c)'[i].line].type = "call"
                               /\ sent[c][Answers(c)'[i].line].id
          BY <2>3, <3>2, <4>1, <4>2, <4>4 DEF McpInv, InOrder
        <4>8. \A j \in DOMAIN inbox[c] : \A i \in 1 .. n : Answers(c)'[i].line < inbox[c][j]
          <5> SUFFICES ASSUME NEW j \in DOMAIN inbox[c], NEW i \in 1 .. n
                       PROVE  Answers(c)'[i].line < inbox[c][j]
            OBVIOUS
          <5>1. CASE i \in DOMAIN Answers(c)
            BY <4>1, <5>1 DEF McpInv, InOrder
          <5>2. CASE i = n
            BY <4>4, <4>5, <5>2
          <5>3. QED
            BY <4>2, <5>1, <5>2
        <4> HIDE DEF n
        <4>9. QED
          BY <2>4, <4>1, <4>5, <4>6, <4>7, <4>8 DEF McpInv, InOrder
      <3>3. QED
        BY <3>1, <3>2
    <2>13. ASSUME NEW d \in Client, d # c PROVE Fits(d)' /\ InOrder(d)'
      BY <2>1, <2>13, OthersKeep DEF McpInv, McpTypes
    <2>14. QED
      BY <2>10, <2>11, <2>12, <2>13 DEF McpInv
  <1>4. QED
    BY <1>2, <1>3

\* The job moves on, or skips the reinforcement.
LEMMA GoMoves ==
  ASSUME McpInv, NEW c \in Client, NEW S, Go(c, S) \/ Past(c, S)
  PROVE  /\ outbox' = outbox
         /\ \E x, y : job' = [job EXCEPT ![c] = [line |-> job[c].line, steps |-> x, on |-> y]]
  <1>1. CASE Go(c, S)
    BY <1>1 DEF Go
  <1>2. CASE Past(c, S)
    <2> DEFINE rest == Tail(job[c].steps)
               x == Picked(rest, {i \in DOMAIN rest : rest[i] \notin {"check", "learn"}})
    <2>1. outbox' = outbox /\ job' = [job EXCEPT ![c] = [line |-> job[c].line, on |-> S, steps |-> x]]
      BY <1>2 DEF Past
    <2> HIDE DEF x
    <2>2. QED
      BY <2>1
  <1>3. QED
    BY <1>1, <1>2

\* What is recorded is an effect.
LEMMA DoneRecords ==
  ASSUME McpInv, NEW c \in Client, NEW what \in Effects, Done(c, what)
  PROVE  did' \in [Client -> [1 .. MaxSends -> SUBSET Effects]]
  <1> DEFINE k == job[c].line
  <1>1. did[c] \in [1 .. MaxSends -> SUBSET Effects]
    BY DEF McpInv, McpTypes
  <1>2. did' = [did EXCEPT ![c] = [did[c] EXCEPT ![k] = did[c][k] \cup {what}]]
    BY DEF Done
  <1> HIDE DEF k
  <1>3. [did[c] EXCEPT ![k] = did[c][k] \cup {what}] \in [1 .. MaxSends -> SUBSET Effects]
    BY <1>1
  <1>4. QED
    BY <1>2, <1>3 DEF McpInv, McpTypes

\* A server at a step has a job.
LEMMA WorkingHasJob ==
  ASSUME NEW c, NEW step, Working(c, step)
  PROVE  up[c] /\ job[c] # NoJob
  BY DEF Working, NoJob

\* Every way to handle a line.
LEMMA HandleKeeps ==
  ASSUME McpInv, NEW c \in Client, Handle(c)
  PROVE  McpInv'
  <1> DEFINE Moves == /\ outbox' = outbox
                      /\ \E x, y : job' = [job EXCEPT ![c] = [line |-> job[c].line, steps |-> x, on |-> y]]
             Finishes == \E ok \in BOOLEAN : Finish(c, ok)
             Records == did' \in [Client -> [1 .. MaxSends -> SUBSET Effects]]
  <1>1. UNCHANGED <<inbox, up, sent, got>>
    BY DEF Handle
  <1>2. \A S : Go(c, S) \/ Past(c, S) => Moves
    BY GoMoves
  <1>3. Finish(c, TRUE) \/ Finish(c, FALSE) => Finishes
    OBVIOUS
  <1>4. \A what \in Effects : Done(c, what) => Records
    BY DoneRecords
  <1>5. did' = did => Records
    BY DEF McpInv, McpTypes
  <1>6. active \subseteq Memories
    BY DEF McpInv, McpTypes
  <1>7. "insert" \in Effects /\ "archive" \in Effects /\ "touch" \in Effects /\ "learn" \in Effects
    BY DEF Effects
  <1> HIDE DEF Moves, Finishes, Records
  <1>8. up[c] /\ job[c] # NoJob /\ active' \subseteq Memories /\ Records /\ (Moves \/ Finishes)
    <2>1. CASE Answer(c)
      BY <2>1, <1>3, <1>5, <1>6 DEF Answer
    <2>2. CASE Refuse(c)
      BY <2>2, <1>3, <1>5, <1>6, WorkingHasJob DEF Refuse
    <2>3. CASE Look(c)
      BY <2>3, <1>2, <1>5, <1>6, WorkingHasJob DEF Look
    <2>4. CASE Insert(c)
      BY <2>4, <1>2, <1>4, <1>6, <1>7, WorkingHasJob DEF Insert
    <2>5. CASE Archive(c)
      BY <2>5, <1>2, <1>3, <1>4, <1>5, <1>6, <1>7, WorkingHasJob DEF Archive
    <2>6. CASE Search(c)
      BY <2>6, <1>2, <1>5, <1>6, WorkingHasJob DEF Search
    <2>7. CASE Touch(c)
      BY <2>7, <1>2, <1>4, <1>5, <1>6, <1>7, WorkingHasJob DEF Touch
    <2>8. CASE Check(c)
      BY <2>8, <1>2, <1>3, <1>5, <1>6, WorkingHasJob DEF Check
    <2>9. CASE Learn(c)
      BY <2>9, <1>2, <1>4, <1>5, <1>6, <1>7, WorkingHasJob DEF Learn
    <2>10. QED
      BY <2>1, <2>2, <2>3, <2>4, <2>5, <2>6, <2>7, <2>8, <2>9 DEF Handle
  <1>9. QED
    BY <1>1, <1>8, WorkKeeps DEF Moves, Finishes, Records

\* A busy database ends the line, or is skipped.
LEMMA BusyKeeps ==
  ASSUME McpInv, NEW c \in Client, Busy(c)
  PROVE  McpInv'
  <1>1. /\ up[c] /\ job[c] # NoJob /\ UNCHANGED <<inbox, up, active, sent, got, did>>
        /\ (Go(c, job[c].on) \/ Finish(c, FALSE))
    <2>1. job[c] # NoJob
      BY DEF Busy, NoJob
    <2>2. QED
      BY <2>1 DEF Busy
  <1>2. active' \subseteq Memories /\ did' \in [Client -> [1 .. MaxSends -> SUBSET Effects]]
    BY <1>1 DEF McpInv, McpTypes
  <1>3. CASE Go(c, job[c].on)
    BY <1>1, <1>2, <1>3, GoMoves, WorkKeeps
  <1>4. CASE Finish(c, FALSE)
    BY <1>1, <1>2, <1>4, WorkKeeps
  <1>5. QED
    BY <1>1, <1>3, <1>4

-----------------------------------------------------------------------------
(* Plans: the steps that are still to be done, and what was done before.   *)

StepName == {"refuse", "look", "insert", "archive", "search", "touch", "check", "learn"}
Tool == {"info", "unknown", "read", "write", "forget", "recall", "recall and reinforce",
         "reinforce", "latent query", "trace", "trace, reinforce and predict"}

\* The steps st of a call of a tool, to the memories on, fit what was done
\* before.  After a step that writes, archives or learns only looks follow;
\* while there is more than a look to be done nothing but accesses was
\* recorded; and when nothing is left the effect of the tool was recorded.
PlanFits(st, tool, on, named, done) ==
  /\ \A i, j \in DOMAIN st :
       i < j /\ st[i] \in {"insert", "archive", "learn"} => st[j] = "look"
  /\ \A i, j \in DOMAIN st :
       st[i] = "touch" => st[j] \in {"search", "touch", "look", "check", "learn"}
  /\ \A i \in DOMAIN st : st[i] # "look" => done \subseteq {"touch"}
  /\ tool = "write" =>
       /\ \A i \in DOMAIN st : st[i] \in {"insert", "refuse"}
       /\ st = <<>> => "insert" \in done
  /\ tool = "forget" =>
       /\ \A i \in DOMAIN st : st[i] \in {"archive", "refuse"}
       /\ st = <<>> => "archive" \in done
  /\ \A i \in DOMAIN st : st[i] = "archive" => tool = "forget" /\ on = named

\* The steps of each tool fit before they begin.
LEMMA PlanBegins ==
  ASSUME NEW tool \in Tool, NEW on
  PROVE  /\ StepsOf(tool) \in Seq(StepName) /\ PlanFits(StepsOf(tool), tool, on, on, {})
         /\ <<"refuse">> \in Seq(StepName) /\ PlanFits(<<"refuse">>, tool, on, on, {})
  <1>1. <<"refuse">> \in Seq(StepName) /\ PlanFits(<<"refuse">>, tool, on, on, {})
    BY DEF PlanFits, StepName
  <1>2. CASE tool \in {"info", "read"}
    <2> DEFINE st == <<"look">>
    <2>1. StepsOf(tool) = st
      BY <1>2 DEF StepsOf
    <2>2. st \in Seq(StepName) /\ DOMAIN st = 1 .. 1
      BY DEF StepName
    <2>3. st[1] = "look"
      OBVIOUS
    <2> HIDE DEF st
    <2>4. PlanFits(st, tool, on, on, {})
      BY <1>2, <2>2, <2>3 DEF PlanFits
    <2>5. QED
      BY <1>1, <2>1, <2>2, <2>4
  <1>3. CASE tool = "write"
    BY <1>3 DEF StepsOf, PlanFits, StepName
  <1>4. CASE tool = "forget"
    BY <1>4 DEF StepsOf, PlanFits, StepName
  <1>5. CASE tool = "recall"
    BY <1>5 DEF StepsOf, PlanFits, StepName
  <1>6. CASE tool \in {"latent query", "trace"}
    <2> DEFINE st == <<"search", "touch", "look">>
    <2>1. StepsOf(tool) = st
      BY <1>6 DEF StepsOf
    <2>2. st \in Seq(StepName) /\ DOMAIN st = 1 .. 3
      BY DEF StepName
    <2>3. st[1] = "search" /\ st[2] = "touch" /\ st[3] = "look"
      OBVIOUS
    <2> HIDE DEF st
    <2>4. \A i \in DOMAIN st : i = 1 \/ i = 2 \/ i = 3
      BY <2>2
    <2>5. \A i \in DOMAIN st : st[i] \in {"search", "touch", "look", "check", "learn"}
      BY <2>3, <2>4
    <2>6. \A i \in DOMAIN st : st[i] # "learn"
      BY <2>3, <2>4
    <2>7. tool \notin {"write", "forget"}
      BY <1>6
    <2>8. PlanFits(st, tool, on, on, {})
      BY <2>5, <2>6, <2>7 DEF PlanFits
    <2>9. QED
      BY <1>1, <2>1, <2>2, <2>8
  <1>7. CASE tool = "recall and reinforce"
    <2> DEFINE st == <<"search", "touch", "check", "learn">>
    <2>1. StepsOf(tool) = st
      BY <1>7 DEF StepsOf
    <2>2. st \in Seq(StepName) /\ DOMAIN st = 1 .. 4
      BY DEF StepName
    <2>3. st[1] = "search" /\ st[2] = "touch" /\ st[3] = "check" /\ st[4] = "learn"
      OBVIOUS
    <2> HIDE DEF st
    <2>4. \A i \in DOMAIN st : i = 1 \/ i = 2 \/ i = 3 \/ i = 4
      BY <2>2
    <2>5. \A i \in DOMAIN st : st[i] \in {"search", "touch", "look", "check", "learn"}
      BY <2>3, <2>4
    <2>6. \A i, j \in DOMAIN st : i < j /\ st[i] = "learn" => st[j] = "look"
      <3>1. \A i \in DOMAIN st : st[i] = "learn" => i = 4
        BY <2>3, <2>4
      <3>2. \A j \in DOMAIN st : 4 < j => FALSE
        BY <2>2
      <3>3. QED
        BY <2>3, <3>1, <3>2
    <2>7. tool \notin {"write", "forget"}
      BY <1>7
    <2>8. PlanFits(st, tool, on, on, {})
      BY <2>5, <2>6, <2>7 DEF PlanFits
    <2>9. QED
      BY <1>1, <2>1, <2>2, <2>8
  <1>8. CASE tool = "trace, reinforce and predict"
    <2> DEFINE st == <<"search", "touch", "look", "check", "learn", "look">>
    <2>1. StepsOf(tool) = st
      BY <1>8 DEF StepsOf
    <2>2. st \in Seq(StepName) /\ DOMAIN st = 1 .. 6
      BY DEF StepName
    <2>3. st[1] = "search" /\ st[2] = "touch" /\ st[3] = "look" /\ st[4] = "check" /\ st[5] = "learn" /\ st[6] = "look"
      OBVIOUS
    <2> HIDE DEF st
    <2>4. \A i \in DOMAIN st : i = 1 \/ i = 2 \/ i = 3 \/ i = 4 \/ i = 5 \/ i = 6
      BY <2>2
    <2>5. \A i \in DOMAIN st : st[i] \in {"search", "touch", "look", "check", "learn"}
      BY <2>3, <2>4
    <2>6. \A i, j \in DOMAIN st : i < j /\ st[i] = "learn" => st[j] = "look"
      <3>1. \A i \in DOMAIN st : st[i] = "learn" => i = 5
        BY <2>3, <2>4
      <3>2. \A j \in DOMAIN st : 5 < j => j = 6
        BY <2>2
      <3>3. QED
        BY <2>3, <3>1, <3>2
    <2>7. tool \notin {"write", "forget"}
      BY <1>8
    <2>8. PlanFits(st, tool, on, on, {})
      BY <2>5, <2>6, <2>7 DEF PlanFits
    <2>9. QED
      BY <1>1, <2>1, <2>2, <2>8
  <1>9. CASE tool = "reinforce"
    BY <1>9 DEF StepsOf, PlanFits, StepName
  <1>10. CASE tool = "unknown"
    BY <1>1, <1>10 DEF StepsOf
  <1>11. QED
    BY <1>1, <1>2, <1>3, <1>4, <1>5, <1>6, <1>7, <1>8, <1>9, <1>10 DEF Tool

\* What follows the first step: the steps behind it.
LEMMA Behind1 ==
  ASSUME NEW st \in Seq(StepName), st # <<>>
  PROVE  /\ Tail(st) \in Seq(StepName) /\ 1 \in DOMAIN st /\ Head(st) = st[1] /\ Head(st) \in StepName
         /\ \A i \in DOMAIN Tail(st) : /\ i + 1 \in DOMAIN st /\ Tail(st)[i] = st[i + 1]
                                       /\ i \in Nat /\ 1 < i + 1
  <1>1. /\ Head(st) \in StepName /\ Tail(st) \in Seq(StepName) /\ Len(Tail(st)) = Len(st) - 1
        /\ \A i \in 1 .. Len(Tail(st)) : Tail(st)[i] = st[i + 1]
    BY HeadTailProperties
  <1>2. Len(st) \in Nat \ {0} /\ DOMAIN st = 1 .. Len(st)
    BY LenProperties, EmptySeq
  <1>3. DOMAIN Tail(st) = 1 .. Len(st) - 1
    BY <1>1, LenProperties
  <1>4. Head(st) = st[1]
    OBVIOUS
  <1>5. ASSUME NEW i \in 1 .. Len(st) - 1
        PROVE  i + 1 \in 1 .. Len(st) /\ i \in Nat /\ 1 < i + 1
    BY <1>2
  <1>6. QED
    BY <1>1, <1>2, <1>3, <1>4, <1>5

\* The effects that a step may record.
Records(step, more) ==
  CASE step = "insert"  -> more = {"insert"}
    [] step = "archive" -> more = {"archive"}
    [] step = "touch"   -> more \subseteq {"touch"}
    [] step = "learn"   -> more \subseteq {"learn"}
    [] OTHER            -> more = {}

\* A step that was done leaves a plan that fits.
LEMMA PlanGoes ==
  ASSUME NEW st \in Seq(StepName), st # <<>>, Head(st) # "refuse",
         NEW tool, NEW on, NEW named, NEW done, PlanFits(st, tool, on, named, done),
         NEW more, Records(Head(st), more),
         NEW S, Head(st) = "archive" => S = on
  PROVE  PlanFits(Tail(st), tool, S, named, done \cup more)
  <1> DEFINE h == Head(st)
             rest == Tail(st)
  <1>1. /\ rest \in Seq(StepName) /\ 1 \in DOMAIN st /\ h = st[1] /\ h \in StepName
        /\ \A i \in DOMAIN rest : /\ i + 1 \in DOMAIN st /\ rest[i] = st[i + 1]
                                  /\ i \in Nat /\ 1 < i + 1
    BY Behind1
  <1> HIDE DEF h, rest
  <1>2. ASSUME NEW i \in DOMAIN rest, NEW j \in DOMAIN rest
        PROVE  /\ i < j /\ rest[i] \in {"insert", "archive", "learn"} => rest[j] = "look"
               /\ rest[i] = "touch" => rest[j] \in {"search", "touch", "look", "check", "learn"}
    <2>1. i < j => i + 1 < j + 1
      BY <1>1
    <2>2. QED
      BY <1>1, <2>1 DEF PlanFits
  <1>3. ASSUME NEW i \in DOMAIN rest, rest[i] # "look"
        PROVE  done \cup more \subseteq {"touch"}
    <2>1. i + 1 \in DOMAIN st /\ st[i + 1] # "look" /\ 1 < i + 1
      BY <1>1, <1>3
    <2>2. done \subseteq {"touch"} /\ h \notin {"insert", "archive", "learn"}
      BY <1>1, <2>1 DEF PlanFits
    <2>3. more \subseteq {"touch"}
      BY <2>2 DEF Records, h
    <2>4. QED
      BY <2>2, <2>3
  <1>4. ASSUME tool = "write"
        PROVE  (\A i \in DOMAIN rest : rest[i] \in {"insert", "refuse"}) /\ "insert" \in done \cup more
    <2>1. \A i \in DOMAIN st : st[i] \in {"insert", "refuse"}
      BY <1>4 DEF PlanFits
    <2>2. h = "insert"
      BY <1>1, <2>1 DEF h
    <2>3. more = {"insert"}
      BY <2>2 DEF Records, h
    <2>4. QED
      BY <1>1, <2>1, <2>3
  <1>5. ASSUME tool = "forget"
        PROVE  (\A i \in DOMAIN rest : rest[i] \in {"archive", "refuse"}) /\ "archive" \in done \cup more
    <2>1. \A i \in DOMAIN st : st[i] \in {"archive", "refuse"}
      BY <1>5 DEF PlanFits
    <2>2. h = "archive"
      BY <1>1, <2>1 DEF h
    <2>3. more = {"archive"}
      BY <2>2 DEF Records, h
    <2>4. QED
      BY <1>1, <2>1, <2>3
  <1>6. ASSUME NEW i \in DOMAIN rest, rest[i] = "archive"
        PROVE  tool = "forget" /\ S = named
    <2>1. st[i + 1] = "archive" /\ i + 1 \in DOMAIN st
      BY <1>1, <1>6
    <2>2. tool = "forget" /\ on = named
      BY <2>1 DEF PlanFits
    <2>3. st[1] \in {"archive", "refuse"}
      BY <1>1, <2>2 DEF PlanFits
    <2>4. h = "archive"
      BY <1>1, <2>3 DEF h
    <2>5. QED
      BY <2>2, <2>4 DEF h
  <1>7. PlanFits(rest, tool, S, named, done \cup more)
    BY <1>2, <1>3, <1>4, <1>5, <1>6 DEF PlanFits
  <1>8. QED
    BY <1>7 DEF rest

\* The steps that are picked.
LEMMA PickedSteps ==
  ASSUME NEW st \in Seq(StepName), NEW kept \in SUBSET (DOMAIN st)
  PROVE  /\ Picked(st, kept) \in Seq(StepName)
         /\ \A i \in DOMAIN Picked(st, kept) : Nth(kept, i) \in kept /\ Picked(st, kept)[i] = st[Nth(kept, i)]
  BY PickedProperties

\* So does an access after which the reinforcement is skipped.
LEMMA PlanPasses ==
  ASSUME NEW st \in Seq(StepName), st # <<>>, Head(st) = "touch",
         NEW tool, NEW on, NEW named, NEW done, PlanFits(st, tool, on, named, done),
         NEW more, more \subseteq {"touch"}, NEW S,
         NEW kept, kept = {i \in DOMAIN Tail(st) : Tail(st)[i] \notin {"check", "learn"}}
  PROVE  /\ Picked(Tail(st), kept) \in Seq(StepName)
         /\ PlanFits(Picked(Tail(st), kept), tool, S, named, done \cup more)
  <1> DEFINE rest == Tail(st)
             new == Picked(rest, kept)
  <1>1. /\ rest \in Seq(StepName) /\ 1 \in DOMAIN st /\ st[1] = "touch"
        /\ \A i \in DOMAIN rest : i + 1 \in DOMAIN st /\ rest[i] = st[i + 1]
    BY Behind1
  <1>2. kept \in SUBSET (DOMAIN rest)
    OBVIOUS
  <1> HIDE DEF rest
  <1>3. new \in Seq(StepName) /\ \A i \in DOMAIN new : Nth(kept, i) \in kept /\ new[i] = rest[Nth(kept, i)]
    BY <1>1, <1>2, PickedSteps
  <1> HIDE DEF new
  <1>4. \A i \in DOMAIN st : st[i] \in {"search", "touch", "look", "check", "learn"}
    BY <1>1 DEF PlanFits
  <1>5. \A i \in DOMAIN new : new[i] \in {"search", "touch", "look"}
    <2> TAKE i \in DOMAIN new
    <2> DEFINE p == Nth(kept, i)
    <2>1. p \in kept /\ new[i] = rest[p]
      BY <1>3
    <2> HIDE DEF p
    <2>2. p \in DOMAIN rest /\ rest[p] \notin {"check", "learn"}
      BY <2>1 DEF rest
    <2>3. rest[p] \in {"search", "touch", "look", "check", "learn"}
      BY <1>1, <1>4, <2>2
    <2>4. QED
      BY <2>1, <2>2, <2>3
  <1>6. done \cup more \subseteq {"touch"}
    BY <1>1 DEF PlanFits
  <1>7. tool # "write" /\ tool # "forget"
    BY <1>1 DEF PlanFits
  <1>8. PlanFits(new, tool, S, named, done \cup more)
    BY <1>5, <1>6, <1>7 DEF PlanFits
  <1>9. QED
    BY <1>3, <1>8 DEF new, rest

-----------------------------------------------------------------------------
(* What the answers tell.                                                  *)

\* The steps of a job are steps, and no more lines are sent than counted.
StepTypes(c) == Len(sent[c]) <= MaxSends /\ job[c].steps \in Seq(StepName)

\* The steps of a job fit its line, and what was done for it.
Planned(c) ==
  LET k == job[c].line IN
    k # 0 => PlanFits(job[c].steps, sent[c][k].tool, job[c].on, sent[c][k].on, did[c][k])

\* Nothing was done for a line that was not yet read.
InTurn(c) ==
  /\ \A k \in 1 .. MaxSends : k \notin DOMAIN sent[c] => did[c][k] = {}
  /\ \A j \in DOMAIN inbox[c] : did[c][inbox[c][j]] = {}

\* A good answer comes after the effect, an error without one.
Told(c) ==
  \A i \in DOMAIN Answers(c) : LET a == Answers(c)[i] IN
    /\ a.ok /\ sent[c][a.line].tool = "write" => "insert" \in did[c][a.line]
    /\ a.ok /\ sent[c][a.line].tool = "forget" => "archive" \in did[c][a.line]
    /\ ~a.ok => did[c][a.line] \subseteq {"touch"}

Sound(c) == StepTypes(c) /\ Planned(c) /\ InTurn(c) /\ Told(c)

\* The line k of a client is the call that forgot m.
Forgot(c, k, m) == k \in DOMAIN sent[c] /\ "archive" \in did[c][k] /\ sent[c][k].on = {m}

\* No call forgot what is active; and one call forgot what is not.
Ledger ==
  \A m \in Memories :
    /\ m \in active => \A c \in Client, k \in 1 .. MaxSends : ~Forgot(c, k, m)
    /\ m \notin active => \E c \in Client, k \in 1 .. MaxSends :
         Forgot(c, k, m) /\ \A d \in Client, j \in 1 .. MaxSends : Forgot(d, j, m) => d = c /\ j = k

EffectInv == Ledger /\ \A c \in Client : Sound(c)

\* At first nothing was sent and nothing done.
LEMMA EffectInvInit == McpInit => EffectInv
  <1> SUFFICES ASSUME McpInit PROVE EffectInv
    OBVIOUS
  <1>1. \A S : <<>> \in Seq(S) /\ Len(<<>>) = 0 /\ DOMAIN <<>> = {}
    BY EmptySeq
  <1>2. ASSUME NEW c \in Client PROVE Sound(c)
    <2>1. /\ inbox[c] = <<>> /\ outbox[c] = <<>> /\ got[c] = <<>> /\ sent[c] = <<>>
          /\ job[c].line = 0 /\ job[c].steps = <<>> /\ did[c] = [k \in 1 .. MaxSends |-> {}]
      BY DEF McpInit, NoJob
    <2>2. Answers(c) = <<>>
      <3>1. Len(<<>> \o <<>>) = 0 /\ <<>> \o <<>> \in Seq({})
        BY <1>1, ConcatProperties
      <3>2. QED
        BY <2>1, <3>1, EmptySeq DEF Answers
    <2>3. StepTypes(c)
      BY <1>1, <2>1, McpConstants DEF StepTypes
    <2>4. InTurn(c) /\ Told(c)
      BY <1>1, <2>1, <2>2 DEF InTurn, Told
    <2>5. Planned(c)
      BY <2>1 DEF Planned
    <2>6. QED
      BY <2>3, <2>4, <2>5 DEF Sound
  <1>3. \A c \in Client : DOMAIN sent[c] = {}
    BY <1>1 DEF McpInit
  <1>4. active = Memories
    BY DEF McpInit
  <1>5. Ledger
    BY <1>3, <1>4 DEF Ledger, Forgot
  <1>6. QED
    BY <1>2, <1>5 DEF EffectInv

\* A client that a step leaves alone.
LEMMA OthersTell ==
  ASSUME EffectInv, NEW d \in Client,
         inbox'[d] = inbox[d], outbox'[d] = outbox[d], got'[d] = got[d], sent'[d] = sent[d],
         job'[d] = job[d], did'[d] = did[d]
  PROVE  Sound(d)'
  <1>1. Answers(d)' = Answers(d)
    BY DEF Answers
  <1>2. StepTypes(d)' /\ Planned(d)' /\ InTurn(d)'
    BY DEF EffectInv, Sound, StepTypes, Planned, InTurn
  <1>3. Told(d)'
    BY <1>1 DEF EffectInv, Sound, Told
  <1>4. QED
    BY <1>2, <1>3 DEF Sound

\* While no memory is forgotten the ledger stays.
LEMMA LedgerKeeps ==
  ASSUME Ledger, active' = active,
         \A c \in Client, k \in 1 .. MaxSends, m \in Memories : Forgot(c, k, m)' <=> Forgot(c, k, m)
  PROVE  Ledger'
  BY DEF Ledger

\* The line a server works on was sent, and is a call.
LEMMA JobIsCall ==
  ASSUME McpInv, EffectInv, NEW c \in Client, job[c] # NoJob
  PROVE  LET k == job[c].line IN
           /\ k # 0 /\ k \in DOMAIN sent[c] /\ k \in 1 .. MaxSends /\ sent[c][k] \in Lines
           /\ sent[c][k].type = "call" /\ sent[c][k].tool \in Tool
           /\ DOMAIN sent[c] \subseteq 1 .. MaxSends
  <1> DEFINE k == job[c].line
  <1>1. k # 0
    BY DEF McpInv, McpTypes
  <1>2. sent[c] \in Seq(Lines)
    BY DEF McpInv, McpTypes
  <1>3. k \in DOMAIN sent[c] /\ sent[c][k].type = "call"
    BY <1>1 DEF McpInv, InOrder
  <1>4. Len(sent[c]) \in Nat /\ DOMAIN sent[c] = 1 .. Len(sent[c]) /\ Len(sent[c]) <= MaxSends
    BY <1>2, LenProperties DEF EffectInv, Sound, StepTypes
  <1>5. DOMAIN sent[c] \subseteq 1 .. MaxSends
    BY <1>4, McpConstants
  <1>6. sent[c][k] \in Lines
    BY <1>2, <1>3, <1>4, ElementOfSeq
  <1>7. sent[c][k].tool \in Tool
    BY <1>3, <1>6, McpConstants DEF LineTypes, Tool
  <1>8. QED
    BY <1>1, <1>3, <1>5, <1>6, <1>7

\* What a step of a job does to what its line has done.
Adds(c, E) ==
  did' = [did EXCEPT ![c] = [did[c] EXCEPT ![job[c].line] = did[c][job[c].line] \cup E]]

\* The steps that are left fit what was done, E added.
MovesOn(c, E) ==
  /\ outbox' = outbox
  /\ \E x \in Seq(StepName) : \E y :
       /\ job' = [job EXCEPT ![c] = [line |-> job[c].line, steps |-> x, on |-> y]]
       /\ PlanFits(x, sent[c][job[c].line].tool, y, sent[c][job[c].line].on,
                   did[c][job[c].line] \cup E)

\* The answer is good when all steps are done, an error while nothing is.
Ends(c, E) ==
  \E ok \in BOOLEAN :
    /\ Finish(c, ok) /\ E = {}
    /\ ok => job[c].steps = <<>>
    /\ ~ok => did[c][job[c].line] \subseteq {"touch"}

\* A step of a job: what it adds is told when the job ends.
LEMMA WorkTells ==
  ASSUME McpInv, EffectInv, NEW c \in Client, job[c] # NoJob,
         UNCHANGED <<inbox, sent, got>>, NEW E, Adds(c, E),
         MovesOn(c, E) \/ Ends(c, E)
  PROVE  \A d \in Client : Sound(d)'
  <1> DEFINE k == job[c].line
  <1>1. /\ k # 0 /\ k \in DOMAIN sent[c] /\ k \in 1 .. MaxSends /\ DOMAIN sent[c] \subseteq 1 .. MaxSends
    BY JobIsCall
  <1>2. did[c] \in [1 .. MaxSends -> SUBSET Effects]
    BY DEF McpInv, McpTypes
  <1>3. /\ did'[c][k] = did[c][k] \cup E
        /\ \A i \in 1 .. MaxSends : i # k => did'[c][i] = did[c][i]
        /\ \A d \in Client : d # c => did'[d] = did[d]
    <2>1. did'[c] = [did[c] EXCEPT ![k] = did[c][k] \cup E]
      BY DEF Adds, McpInv, McpTypes
    <2>2. QED
      BY <1>1, <1>2, <2>1 DEF Adds, McpInv, McpTypes
  <1>4. Sound(c)
    BY DEF EffectInv
  <1>5. /\ \A i \in DOMAIN Answers(c) : /\ Answers(c)[i].line \in DOMAIN sent[c]
                                        /\ Answers(c)[i].line < k /\ Answers(c)[i].line # k
        /\ \A j \in DOMAIN inbox[c] : inbox[c][j] \in DOMAIN sent[c] /\ k < inbox[c][j] /\ inbox[c][j] # k
    <2>1. /\ \A i \in DOMAIN Answers(c) : Answers(c)[i].line \in DOMAIN sent[c] /\ Answers(c)[i].line < k
          /\ \A j \in DOMAIN inbox[c] : inbox[c][j] \in DOMAIN sent[c] /\ k < inbox[c][j]
      BY <1>1 DEF McpInv, InOrder
    <2>2. \A i \in 1 .. MaxSends : i < k \/ k < i => i # k
      BY <1>1
    <2>3. QED
      BY <1>1, <2>1, <2>2
  <1> HIDE DEF k
  <1>6. /\ \A j \in DOMAIN inbox'[c] : did'[c][inbox'[c][j]] = {}
        /\ \A i \in 1 .. MaxSends : i \notin DOMAIN sent'[c] => did'[c][i] = {}
    BY <1>1, <1>3, <1>4, <1>5 DEF Sound, InTurn
  <1>7. \A i \in DOMAIN Answers(c) : did'[c][Answers(c)[i].line] = did[c][Answers(c)[i].line]
    BY <1>1, <1>3, <1>5
  <1>8. ASSUME NEW d \in Client, d # c PROVE Sound(d)'
    <2>1. job'[d] = job[d] /\ outbox'[d] = outbox[d]
      BY <1>8 DEF McpInv, McpTypes, Finish, MovesOn, Ends
    <2>2. did'[d] = did[d]
      BY <1>3, <1>8
    <2>3. QED
      BY <2>1, <2>2, OthersTell
  <1>9. ASSUME outbox' = outbox, NEW x \in Seq(StepName), NEW y,
               job' = [job EXCEPT ![c] = [line |-> k, steps |-> x, on |-> y]],
               PlanFits(x, sent[c][k].tool, y, sent[c][k].on, did[c][k] \cup E)
        PROVE  Sound(c)'
    <2>1. job'[c] = [line |-> k, steps |-> x, on |-> y]
      BY <1>9 DEF McpInv, McpTypes
    <2>2. Answers(c)' = Answers(c)
      BY <1>9 DEF Answers
    <2>4. StepTypes(c)'
      BY <1>4, <2>1 DEF Sound, StepTypes
    <2>5. Planned(c)'
      <3>1. job'[c].line = k /\ job'[c].steps = x /\ job'[c].on = y
        BY <2>1
      <3>2. PlanFits(x, sent'[c][k].tool, y, sent'[c][k].on, did'[c][k])
        BY <1>3, <1>9
      <3>3. QED
        BY <3>1, <3>2 DEF Planned, PlanFits
    <2>6. Told(c)'
      BY <1>4, <1>7, <2>2 DEF Sound, Told
    <2>8. QED
      BY <1>6, <2>4, <2>5, <2>6 DEF Sound, InTurn
  <1>10. ASSUME NEW ok \in BOOLEAN, Finish(c, ok), E = {}, ok => job[c].steps = <<>>,
                ~ok => did[c][k] \subseteq {"touch"}
         PROVE  Sound(c)'
    <2>1. job'[c] = NoJob
      BY <1>10 DEF Finish, McpInv, McpTypes
    <2>2. \A i \in 1 .. MaxSends : did'[c][i] = did[c][i]
      BY <1>1, <1>3, <1>10
    <2>3. StepTypes(c)'
      BY <1>4, <2>1, EmptySeq DEF Sound, StepTypes, NoJob
    <2>4. Planned(c)'
      BY <2>1 DEF Planned, NoJob
    <2>5. InTurn(c)'
      BY <1>6 DEF InTurn
    <2>6. CASE ~sent[c][k].id
      <3>1. outbox'[c] = outbox[c]
        BY <1>10, <2>6 DEF Finish, LineOf, McpInv, McpTypes, k
      <3>2. Answers(c)' = Answers(c)
        BY <3>1 DEF Answers
      <3>3. Told(c)'
        BY <1>4, <1>7, <3>2 DEF Sound, Told
      <3>4. QED
        BY <2>3, <2>4, <2>5, <3>3 DEF Sound
    <2>7. CASE sent[c][k].id
      <3>1. PICK n \in Nat :
              /\ DOMAIN Answers(c) = 1 .. n /\ DOMAIN Answers(c)' = 1 .. n + 1
              /\ Answers(c)'[n + 1] = [line |-> k, ok |-> ok]
              /\ \A i \in DOMAIN Answers(c) : Answers(c)'[i] = Answers(c)[i]
        BY <1>10, <2>7, FinishAnswers DEF k
      <3>2. \A i \in 1 .. n + 1 : i \in 1 .. n \/ i = n + 1
        BY UpToNext
      <3>3. n + 1 \in DOMAIN Answers(c)' /\ \A i \in DOMAIN Answers(c) : i \in DOMAIN Answers(c)'
        BY <3>1
      <3>4. Answers(c)'[n + 1].line = k /\ Answers(c)'[n + 1].ok = ok
        BY <3>1
      <3>8. /\ ok /\ sent[c][k].tool = "write" => "insert" \in did'[c][k]
            /\ ok /\ sent[c][k].tool = "forget" => "archive" \in did'[c][k]
            /\ ~ok => did'[c][k] \subseteq {"touch"}
        <4>1. did'[c][k] = did[c][k]
          BY <1>1, <2>2
        <4>2. ASSUME ok PROVE PlanFits(<<>>, sent[c][k].tool, job[c].on, sent[c][k].on, did[c][k])
          BY <1>1, <1>4, <1>10, <4>2 DEF Sound, Planned, k
        <4>3. QED
          BY <1>10, <4>1, <4>2 DEF PlanFits
      <3>9. Told(c)'
        <4>1. ASSUME NEW i \in DOMAIN Answers(c)'
              PROVE  LET a == Answers(c)'[i] IN
                       /\ a.ok /\ sent[c][a.line].tool = "write" => "insert" \in did'[c][a.line]
                       /\ a.ok /\ sent[c][a.line].tool = "forget" => "archive" \in did'[c][a.line]
                       /\ ~a.ok => did'[c][a.line] \subseteq {"touch"}
          <5>1. CASE i = n + 1
            BY <3>4, <3>8, <5>1
          <5>2. CASE i \in DOMAIN Answers(c)
            BY <1>4, <1>7, <3>1, <5>2 DEF Sound, Told
          <5>3. QED
            BY <3>1, <3>2, <5>1, <5>2
        <4>2. QED
          BY <4>1 DEF Told
      <3>10. QED
        BY <2>3, <2>4, <2>5, <3>9 DEF Sound
    <2>8. QED
      BY <2>6, <2>7
  <1>11. Sound(c)'
    BY <1>9, <1>10 DEF k, MovesOn, Ends
  <1>12. QED
    BY <1>8, <1>11

\* What is sent was not yet done.
LEMMA SendTells ==
  ASSUME McpInv, EffectInv, NEW c \in Client, NEW line \in Lines, Send(c, line)
  PROVE  EffectInv'
  <1> DEFINE n == Len(sent[c]) + 1
  <1>1. /\ sent' = [sent EXCEPT ![c] = Append(sent[c], line)]
        /\ inbox' = [inbox EXCEPT ![c] = Append(inbox[c], n)]
        /\ Len(sent[c]) < MaxSends /\ UNCHANGED <<outbox, job, active, got, did>>
    BY DEF Send
  <1>2. sent[c] \in Seq(Lines) /\ inbox[c] \in Seq(Nat)
    BY DEF McpInv, McpTypes
  <1>3. Len(sent[c]) \in Nat /\ n \in Nat /\ DOMAIN sent[c] = 1 .. Len(sent[c])
        /\ DOMAIN inbox[c] = 1 .. Len(inbox[c]) /\ Len(inbox[c]) \in Nat
    BY <1>2, LenProperties
  <1>4. /\ Len(sent'[c]) = n /\ DOMAIN sent'[c] = 1 .. n
        /\ \A k \in DOMAIN sent[c] : sent'[c][k] = sent[c][k]
    <2>1. /\ Append(sent[c], line) \in Seq(Lines) /\ Len(Append(sent[c], line)) = n
          /\ \A k \in 1 .. Len(sent[c]) : Append(sent[c], line)[k] = sent[c][k]
      BY <1>2, AppendProperties
    <2>2. DOMAIN Append(sent[c], line) = 1 .. n
      BY <2>1, LenProperties
    <2>3. sent'[c] = Append(sent[c], line)
      BY <1>1 DEF McpInv, McpTypes
    <2>4. QED
      BY <1>3, <2>1, <2>2, <2>3
  <1>5. /\ DOMAIN inbox'[c] = 1 .. Len(inbox[c]) + 1 /\ inbox'[c][Len(inbox[c]) + 1] = n
        /\ \A j \in DOMAIN inbox[c] : inbox'[c][j] = inbox[c][j]
    <2>1. /\ Append(inbox[c], n) \in Seq(Nat) /\ Len(Append(inbox[c], n)) = Len(inbox[c]) + 1
          /\ Append(inbox[c], n)[Len(inbox[c]) + 1] = n
          /\ \A j \in 1 .. Len(inbox[c]) : Append(inbox[c], n)[j] = inbox[c][j]
      BY <1>2, <1>3, AppendProperties
    <2>2. DOMAIN Append(inbox[c], n) = 1 .. Len(inbox[c]) + 1
      BY <2>1, LenProperties
    <2>3. inbox'[c] = Append(inbox[c], n)
      BY <1>1 DEF McpInv, McpTypes
    <2>4. QED
      BY <1>3, <2>1, <2>2, <2>3
  <1>6. /\ n \in 1 .. MaxSends /\ n \notin DOMAIN sent[c]
        /\ \A k \in DOMAIN sent'[c] : k \in DOMAIN sent[c] \/ k = n
        /\ \A k \in DOMAIN sent[c] : k \in DOMAIN sent'[c] /\ k # n
    BY <1>1, <1>3, <1>4, McpConstants
  <1>7. n \in DOMAIN sent'[c]
    BY <1>3, <1>4
  <1>8. \A j \in DOMAIN inbox'[c] : j \in DOMAIN inbox[c] \/ inbox'[c][j] = n
    BY <1>3, <1>5
  <1> HIDE DEF n
  <1>9. Sound(c)
    BY DEF EffectInv
  <1>10. did[c][n] = {}
    BY <1>6, <1>9 DEF Sound, InTurn
  <1>11. Answers(c)' = Answers(c)
    BY <1>1 DEF Answers
  <1>13. StepTypes(c)'
    BY <1>1, <1>3, <1>4, <1>9, McpConstants DEF Sound, StepTypes, n
  <1>14. Planned(c)'
    <2>1. job[c].line # 0 => job[c].line \in DOMAIN sent[c]
      BY DEF McpInv, InOrder
    <2>2. job[c].line # 0 => sent'[c][job[c].line] = sent[c][job[c].line]
      BY <1>4, <2>1
    <2>3. QED
      BY <1>1, <1>9, <2>2 DEF Sound, Planned
  <1>15. InTurn(c)'
    <2>1. \A k \in 1 .. MaxSends : k \notin DOMAIN sent'[c] => did'[c][k] = {}
      BY <1>1, <1>6, <1>9 DEF Sound, InTurn
    <2>2. \A j \in DOMAIN inbox'[c] : did'[c][inbox'[c][j]] = {}
      BY <1>1, <1>5, <1>8, <1>9, <1>10 DEF Sound, InTurn
    <2>3. QED
      BY <2>1, <2>2 DEF InTurn
  <1>16. Told(c)'
    <2>1. \A i \in DOMAIN Answers(c) : Answers(c)[i].line \in DOMAIN sent[c]
      BY DEF McpInv, InOrder
    <2>2. QED
      BY <1>1, <1>4, <1>9, <1>11, <2>1 DEF Sound, Told
  <1>17. ASSUME NEW d \in Client, d # c PROVE Sound(d)' /\ sent'[d] = sent[d]
    BY <1>1, <1>17, OthersTell DEF McpInv, McpTypes
  <1>18. \A d \in Client, k \in 1 .. MaxSends, m \in Memories : Forgot(d, k, m)' <=> Forgot(d, k, m)
    <2> SUFFICES ASSUME NEW d \in Client, NEW k \in 1 .. MaxSends, NEW m \in Memories
                 PROVE  Forgot(d, k, m)' <=> Forgot(d, k, m)
      OBVIOUS
    <2>1. CASE d # c
      BY <1>1, <1>17, <2>1 DEF Forgot
    <2>2. CASE d = c /\ k = n
      BY <1>1, <1>10, <2>2 DEF Forgot
    <2>3. CASE d = c /\ k # n
      BY <1>1, <1>4, <1>6, <2>3 DEF Forgot
    <2>4. QED
      BY <2>1, <2>2, <2>3
  <1>19. Ledger'
    BY <1>1, <1>18, LedgerKeeps DEF EffectInv
  <1>20. QED
    BY <1>1, <1>13, <1>14, <1>15, <1>16, <1>17, <1>19 DEF EffectInv, Sound

\* The ledger stays when a step changes neither the lines nor what they did.
LEMMA LedgerStays ==
  ASSUME EffectInv, UNCHANGED <<active, sent, did>>
  PROVE  Ledger'
  <1>1. \A c \in Client, k \in 1 .. MaxSends, m \in Memories : Forgot(c, k, m)' <=> Forgot(c, k, m)
    BY DEF Forgot
  <1>2. QED
    BY <1>1, LedgerKeeps DEF EffectInv

\* An answer that is read tells the same.
LEMMA ReadAnswerTells ==
  ASSUME McpInv, EffectInv, NEW c \in Client, ReadAnswer(c)
  PROVE  EffectInv'
  <1>1. /\ outbox[c] # <<>> /\ got' = [got EXCEPT ![c] = Append(got[c], Head(outbox[c]))]
        /\ outbox' = [outbox EXCEPT ![c] = Tail(outbox[c])]
        /\ UNCHANGED <<inbox, job, active, sent, did>>
    BY DEF ReadAnswer
  <1>2. outbox[c] \in Seq(AnswerType) /\ got[c] \in Seq(AnswerType)
    BY DEF McpInv, McpTypes
  <1>3. Append(got[c], Head(outbox[c])) \o Tail(outbox[c]) = got[c] \o outbox[c]
    BY <1>1, <1>2, HeadMoves
  <1>4. got'[c] = Append(got[c], Head(outbox[c])) /\ outbox'[c] = Tail(outbox[c])
    BY <1>1 DEF McpInv, McpTypes
  <1>5. Answers(c)' = Answers(c)
    BY <1>3, <1>4 DEF Answers
  <1>7. Sound(c)
    BY DEF EffectInv
  <1>8. StepTypes(c)' /\ Planned(c)'
    BY <1>1, <1>7 DEF Sound, StepTypes, Planned
  <1>9. InTurn(c)'
    BY <1>1, <1>7 DEF Sound, InTurn
  <1>10. Told(c)'
    BY <1>1, <1>5, <1>7 DEF Sound, Told
  <1>11. ASSUME NEW d \in Client, d # c PROVE Sound(d)'
    BY <1>1, <1>11, OthersTell DEF McpInv, McpTypes
  <1>12. QED
    BY <1>1, <1>8, <1>9, <1>10, <1>11, LedgerStays DEF EffectInv, Sound

\* A new server starts with nothing.
LEMMA RestartTells ==
  ASSUME EffectInv, NEW c \in Client, Restart(c)
  PROVE  EffectInv'
  <1>1. UNCHANGED <<inbox, outbox, job, active, sent, got, did>>
    BY DEF Restart
  <1>2. QED
    BY <1>1, OthersTell, LedgerStays DEF EffectInv

\* The answers of a server that ended tell the same.
LEMMA EndTells ==
  ASSUME McpInv, EffectInv, NEW c \in Client, End(c), UNCHANGED <<active, sent, got, did>>
  PROVE  EffectInv'
  <1>1. /\ job' = [job EXCEPT ![c] = NoJob] /\ inbox' = [inbox EXCEPT ![c] = <<>>]
        /\ outbox' = outbox
    BY DEF End
  <1>2. \A S : <<>> \in Seq(S) /\ DOMAIN <<>> = {}
    BY EmptySeq
  <1>3. inbox'[c] = <<>> /\ job'[c] = NoJob
    BY <1>1 DEF McpInv, McpTypes
  <1>4. Answers(c)' = Answers(c)
    BY <1>1 DEF Answers
  <1>5. Sound(c)
    BY DEF EffectInv
  <1>6. StepTypes(c)' /\ Planned(c)'
    BY <1>2, <1>3, <1>5 DEF Sound, StepTypes, Planned, NoJob
  <1>7. Told(c)'
    BY <1>4, <1>5 DEF Sound, Told
  <1>8. InTurn(c)'
    BY <1>2, <1>3, <1>5 DEF Sound, InTurn
  <1>9. ASSUME NEW d \in Client, d # c PROVE Sound(d)'
    BY <1>1, <1>9, OthersTell DEF McpInv, McpTypes
  <1>10. QED
    BY <1>6, <1>7, <1>8, <1>9, LedgerStays DEF EffectInv, Sound

\* A line that is passed over did nothing; and one that becomes the job has
\* its whole plan before it.
LEMMA ReadLineTells ==
  ASSUME McpInv, EffectInv, NEW c \in Client, ReadLine(c)
  PROVE  EffectInv'
  <1> DEFINE k == Take(c).line
             line == sent[c][k]
             rest == Take(c).rest
             steps == IF line.readable THEN StepsOf(line.tool) ELSE <<"refuse">>
  <1>1. job[c] = NoJob /\ inbox[c] # <<>> /\ UNCHANGED <<active, sent, got, did>>
    BY DEF ReadLine
  <1>2. \/ End(c)
        \/ inbox' = [inbox EXCEPT ![c] = rest] /\ UNCHANGED <<outbox, job>>
        \/ /\ line.type = "call" /\ inbox' = [inbox EXCEPT ![c] = rest]
           /\ job' = [job EXCEPT ![c] = [line |-> k, on |-> line.on, steps |-> steps]]
           /\ UNCHANGED outbox
    BY DEF ReadLine, LineOf
  <1>3. CASE End(c)
    BY <1>1, <1>3, EndTells
  <1>4. /\ k \in DOMAIN sent[c]
        /\ \A j \in DOMAIN rest : j + 1 \in DOMAIN inbox[c] /\ rest[j] = inbox[c][j + 1]
    BY <1>1, NextLine
  <1>5. Sound(c)
    BY DEF EffectInv
  <1>6. did[c][k] = {}
    <2>1. inbox[c] \in Seq(Nat)
      BY DEF McpInv, McpTypes
    <2>2. 1 \in DOMAIN inbox[c] /\ inbox[c][1] = k
      <3>1. Len(inbox[c]) \in Nat \ {0} /\ DOMAIN inbox[c] = 1 .. Len(inbox[c])
        BY <1>1, <2>1, LenProperties, EmptySeq
      <3>2. QED
        BY <2>1, <3>1, HeadTailProperties DEF Take
    <2>3. QED
      BY <1>5, <2>2 DEF Sound, InTurn
  <1>7. sent[c] \in Seq(Lines) /\ sent[c][k] \in Lines
    <2>1. sent[c] \in Seq(Lines)
      BY DEF McpInv, McpTypes
    <2>2. DOMAIN sent[c] = 1 .. Len(sent[c])
      BY <2>1, LenProperties
    <2>3. QED
      BY <1>4, <2>1, <2>2, ElementOfSeq
  <1>8. line.type = "call" => steps \in Seq(StepName) /\ PlanFits(steps, line.tool, line.on, line.on, {})
    <2> SUFFICES ASSUME line.type = "call"
                 PROVE  steps \in Seq(StepName) /\ PlanFits(steps, line.tool, line.on, line.on, {})
      OBVIOUS
    <2>1. line.tool \in Tool
      BY <1>7, McpConstants DEF LineTypes, Tool
    <2>2. QED
      BY <2>1, PlanBegins
  <1>9. ASSUME NEW j \in DOMAIN rest PROVE did[c][rest[j]] = {}
    BY <1>4, <1>5 DEF Sound, InTurn
  <1> HIDE DEF k, rest, steps
  <1>11. ASSUME inbox' = [inbox EXCEPT ![c] = rest], UNCHANGED outbox,
                \/ job' = job
                \/ /\ sent[c][k].type = "call"
                   /\ job' = [job EXCEPT ![c] = [line |-> k, on |-> sent[c][k].on, steps |-> steps]]
         PROVE  EffectInv'
    <2>1. inbox'[c] = rest
      BY <1>11 DEF McpInv, McpTypes
    <2>2. Answers(c)' = Answers(c)
      BY <1>1, <1>11 DEF Answers
    <2>4. Told(c)'
      BY <1>1, <1>5, <2>2 DEF Sound, Told
    <2>5. InTurn(c)'
      <3>1. \A j \in DOMAIN inbox'[c] : did'[c][inbox'[c][j]] = {}
        BY <1>1, <1>9, <2>1
      <3>2. \A i \in 1 .. MaxSends : i \notin DOMAIN sent'[c] => did'[c][i] = {}
        BY <1>1, <1>5 DEF Sound, InTurn
      <3>3. QED
        BY <3>1, <3>2 DEF InTurn
    <2>6. StepTypes(c)' /\ Planned(c)'
      <3>1. CASE job' = job
        BY <1>1, <1>5, <3>1 DEF Sound, StepTypes, Planned
      <3>2. CASE /\ sent[c][k].type = "call"
                 /\ job' = [job EXCEPT ![c] = [line |-> k, on |-> sent[c][k].on, steps |-> steps]]
        <4>1. job'[c] = [line |-> k, on |-> sent[c][k].on, steps |-> steps]
          BY <3>2 DEF McpInv, McpTypes
        <4>2. job'[c].line = k /\ job'[c].on = sent[c][k].on /\ job'[c].steps = steps
          BY <4>1
        <4>3. PlanFits(steps, sent'[c][k].tool, sent[c][k].on, sent'[c][k].on, did'[c][k])
          BY <1>1, <1>6, <1>8, <3>2
        <4>4. StepTypes(c)'
          BY <1>1, <1>5, <1>8, <3>2, <4>2 DEF Sound, StepTypes
        <4>5. Planned(c)'
          BY <4>2, <4>3 DEF Planned, PlanFits
        <4>6. QED
          BY <4>4, <4>5
      <3>3. QED
        BY <1>11, <3>1, <3>2
    <2>7. ASSUME NEW d \in Client, d # c PROVE Sound(d)'
      <3>1. job'[d] = job[d] /\ inbox'[d] = inbox[d]
        BY <1>11, <2>7 DEF McpInv, McpTypes
      <3>2. QED
        BY <1>1, <1>11, <3>1, OthersTell
    <2>8. QED
      BY <1>1, <1>11, <2>4, <2>5, <2>6, <2>7, LedgerStays DEF EffectInv, Sound
  <1>12. QED
    BY <1>2, <1>3, <1>11

\* Recording nothing, or one effect.
LEMMA Recording ==
  ASSUME McpInv, EffectInv, NEW c \in Client, job[c] # NoJob
  PROVE  /\ did' = did => Adds(c, {})
         /\ \A what : Done(c, what) => Adds(c, {what})
  <1> DEFINE k == job[c].line
  <1>1. k \in 1 .. MaxSends
    BY JobIsCall
  <1>2. did \in [Client -> [1 .. MaxSends -> SUBSET Effects]]
    BY DEF McpInv, McpTypes
  <1>3. did' = did => Adds(c, {})
    <2> DEFINE e == did[c][k]
               f == did[c]
    <2>1. e \cup {} = e
      OBVIOUS
    <2>2. [f EXCEPT ![k] = e] = f
      BY <1>1, <1>2
    <2>3. [did EXCEPT ![c] = f] = did
      BY <1>2
    <2>4. QED
      BY <2>1, <2>2, <2>3 DEF Adds
  <1>4. QED
    BY <1>3 DEF Done, Adds

\* While no memory is archived the ledger stays.
LEMMA LedgerWorks ==
  ASSUME McpInv, EffectInv, NEW c \in Client, job[c] # NoJob, NEW E, Adds(c, E), "archive" \notin E,
         UNCHANGED <<active, sent>>
  PROVE  Ledger'
  <1> DEFINE k == job[c].line
  <1>1. k \in 1 .. MaxSends
    BY JobIsCall
  <1>2. \A d \in Client, j \in 1 .. MaxSends : "archive" \in did'[d][j] <=> "archive" \in did[d][j]
    BY <1>1 DEF Adds, McpInv, McpTypes
  <1>3. \A d \in Client, j \in 1 .. MaxSends, m \in Memories : Forgot(d, j, m)' <=> Forgot(d, j, m)
    BY <1>2 DEF Forgot
  <1>4. QED
    BY <1>3, LedgerKeeps DEF EffectInv

\* A step done with S leaves a plan that fits.
LEMMA GoFits ==
  ASSUME McpInv, EffectInv, NEW c \in Client, job[c] # NoJob, job[c].steps # <<>>,
         Head(job[c].steps) # "refuse", NEW S, Go(c, S), Head(job[c].steps) = "archive" => S = job[c].on,
         NEW E, Records(Head(job[c].steps), E)
  PROVE  MovesOn(c, E)
  <1> DEFINE k == job[c].line
             st == job[c].steps
             on == job[c].on
             tool == sent[c][k].tool
             named == sent[c][k].on
             done == did[c][k]
  <1>1. k # 0
    BY JobIsCall
  <1>2. st \in Seq(StepName) /\ PlanFits(st, tool, on, named, done)
    BY <1>1 DEF EffectInv, Sound, StepTypes, Planned
  <1>3. outbox' = outbox /\ job' = [job EXCEPT ![c] = [line |-> k, steps |-> Tail(st), on |-> S]]
    BY DEF Go
  <1>4. st # <<>> /\ Head(st) # "refuse" /\ (Head(st) = "archive" => S = on) /\ Records(Head(st), E)
    OBVIOUS
  <1> HIDE DEF st, on, tool, named, done
  <1>5. Tail(st) \in Seq(StepName)
    BY <1>2, <1>4, HeadTailProperties
  <1>6. PlanFits(Tail(st), tool, S, named, done \cup E)
    BY <1>2, <1>4, PlanGoes
  <1>7. QED
    BY <1>3, <1>5, <1>6 DEF MovesOn, st, on, tool, named, done

\* So does an access that skips the reinforcement.
LEMMA PastFits ==
  ASSUME McpInv, EffectInv, NEW c \in Client, job[c] # NoJob, job[c].steps # <<>>,
         Head(job[c].steps) = "touch", NEW S, Past(c, S), NEW E, E \subseteq {"touch"}
  PROVE  MovesOn(c, E)
  <1> DEFINE k == job[c].line
             st == job[c].steps
             on == job[c].on
             tool == sent[c][k].tool
             named == sent[c][k].on
             done == did[c][k]
             kept == {i \in DOMAIN Tail(st) : Tail(st)[i] \notin {"check", "learn"}}
             x == Picked(Tail(st), kept)
  <1>1. k # 0
    BY JobIsCall
  <1>2. st \in Seq(StepName) /\ PlanFits(st, tool, on, named, done)
    BY <1>1 DEF EffectInv, Sound, StepTypes, Planned
  <1>3. outbox' = outbox /\ job' = [job EXCEPT ![c] = [line |-> k, steps |-> x, on |-> S]]
    BY DEF Past
  <1>4. st # <<>> /\ Head(st) = "touch"
    OBVIOUS
  <1> HIDE DEF st, on, tool, named, done
  <1>5. x \in Seq(StepName) /\ PlanFits(x, tool, S, named, done \cup E)
    BY <1>2, <1>4, PlanPasses
  <1> HIDE DEF x
  <1>6. QED
    BY <1>3, <1>5 DEF MovesOn, st, on, tool, named, done

\* An error before the effect is an error without one.
LEMMA FailFits ==
  ASSUME McpInv, EffectInv, NEW c \in Client, job[c] # NoJob, job[c].steps # <<>>,
         Head(job[c].steps) # "look", Finish(c, FALSE)
  PROVE  Ends(c, {})
  <1> DEFINE k == job[c].line
             st == job[c].steps
  <1>1. k # 0
    BY JobIsCall
  <1>2. st \in Seq(StepName) /\ PlanFits(st, sent[c][k].tool, job[c].on, sent[c][k].on, did[c][k])
    BY <1>1 DEF EffectInv, Sound, StepTypes, Planned
  <1>3. 1 \in DOMAIN st /\ st[1] # "look"
    <2>1. st # <<>> /\ Head(st) # "look"
      OBVIOUS
    <2> HIDE DEF st
    <2>2. QED
      BY <1>2, <2>1, Behind1
  <1>4. did[c][k] \subseteq {"touch"}
    BY <1>2, <1>3 DEF PlanFits
  <1>5. QED
    BY <1>4 DEF Ends

\* Who archives a memory is the one call that forgot it.
LEMMA ArchiveCounts ==
  ASSUME McpInv, EffectInv, NEW c \in Client, Working(c, "archive"), job[c].on \subseteq active,
         Adds(c, {"archive"}), active' = active \ job[c].on, sent' = sent
  PROVE  Ledger'
  <1> DEFINE k == job[c].line
             st == job[c].steps
  <1>1. /\ k # 0 /\ k \in DOMAIN sent[c] /\ k \in 1 .. MaxSends /\ sent[c][k] \in Lines
        /\ sent[c][k].type = "call"
    BY JobIsCall, WorkingHasJob
  <1>2. st \in Seq(StepName) /\ PlanFits(st, sent[c][k].tool, job[c].on, sent[c][k].on, did[c][k])
    BY <1>1 DEF EffectInv, Sound, StepTypes, Planned
  <1>3. 1 \in DOMAIN st /\ st[1] = "archive"
    <2>1. st # <<>> /\ Head(st) = "archive"
      BY DEF Working, Next1
    <2> HIDE DEF st
    <2>2. QED
      BY <1>2, <2>1, Behind1
  <1>4. sent[c][k].tool = "forget" /\ job[c].on = sent[c][k].on
    BY <1>2, <1>3 DEF PlanFits
  <1>5. PICK m0 \in Memories : sent[c][k].on = {m0}
    BY <1>1, <1>4, McpConstants
  <1>6. active' = active \ {m0} /\ m0 \in active
    BY <1>4, <1>5
  <1>7. /\ "archive" \in did'[c][k]
        /\ \A d \in Client, j \in 1 .. MaxSends : ~(d = c /\ j = k) => did'[d][j] = did[d][j]
    BY <1>1 DEF Adds, McpInv, McpTypes
  <1> HIDE DEF k
  <1>8. /\ \A m \in Memories : \A i : i = k => (Forgot(c, i, m)' <=> m = m0)
        /\ \A d \in Client, j \in 1 .. MaxSends, m \in Memories :
             ~(d = c /\ j = k) => (Forgot(d, j, m)' <=> Forgot(d, j, m))
    BY <1>1, <1>5, <1>7 DEF Forgot
  <1>9. Ledger
    BY DEF EffectInv
  <1>10. ASSUME NEW m \in Memories, m \in active'
         PROVE  \A d \in Client, j \in 1 .. MaxSends : ~Forgot(d, j, m)'
    <2>1. m # m0 /\ m \in active
      BY <1>6, <1>10
    <2>2. \A d \in Client, j \in 1 .. MaxSends : ~Forgot(d, j, m)
      BY <1>9, <2>1 DEF Ledger
    <2>3. QED
      BY <1>8, <2>1, <2>2
  <1>11. ASSUME NEW m \in Memories, m \notin active'
         PROVE  \E d \in Client, j \in 1 .. MaxSends :
                  /\ Forgot(d, j, m)'
                  /\ \A e \in Client, i \in 1 .. MaxSends : Forgot(e, i, m)' => e = d /\ i = j
    <2>1. CASE m = m0
      <3>1. \A d \in Client, j \in 1 .. MaxSends : ~Forgot(d, j, m)
        BY <1>6, <1>9, <2>1 DEF Ledger
      <3>2. \A i : i = k => Forgot(c, i, m)'
        BY <1>8, <2>1
      <3>3. \A e \in Client, i \in 1 .. MaxSends : Forgot(e, i, m)' => e = c /\ i = k
        BY <1>8, <3>1
      <3>4. QED
        BY <1>1, <3>2, <3>3
    <2>2. CASE m # m0
      <3>1. m \notin active
        BY <1>6, <1>11, <2>2
      <3>2. PICK d \in Client, j \in 1 .. MaxSends :
              Forgot(d, j, m) /\ \A e \in Client, i \in 1 .. MaxSends : Forgot(e, i, m) => e = d /\ i = j
        BY <1>9, <3>1 DEF Ledger
      <3>3. ~(d = c /\ j = k)
        BY <1>5, <2>2, <3>2 DEF Forgot
      <3>4. Forgot(d, j, m)'
        BY <1>8, <3>2, <3>3
      <3>5. \A e \in Client, i \in 1 .. MaxSends : Forgot(e, i, m)' => Forgot(e, i, m)
        BY <1>8, <2>2
      <3>6. QED
        BY <3>2, <3>4, <3>5
    <2>3. QED
      BY <2>1, <2>2
  <1>12. QED
    BY <1>10, <1>11 DEF Ledger

\* Every way to handle a line.
LEMMA HandleTells ==
  ASSUME McpInv, EffectInv, NEW c \in Client, Handle(c)
  PROVE  EffectInv'
  <1> DEFINE step == Head(job[c].steps)
  <1>1. UNCHANGED <<inbox, up, sent, got>>
    BY DEF Handle
  <1>2. \A name : Working(c, name) => job[c] # NoJob /\ job[c].steps # <<>> /\ step = name
    BY WorkingHasJob DEF Working, Next1
  <1>3. SUFFICES \E E : Adds(c, E) /\ (MovesOn(c, E) \/ Ends(c, E)) /\ job[c] # NoJob /\ Ledger'
    BY <1>1, WorkTells DEF EffectInv
  <1> HIDE DEF step
  <1>4. ASSUME NEW E, Adds(c, E), MovesOn(c, E) \/ Ends(c, E), job[c] # NoJob,
               "archive" \notin E, active' = active
        PROVE  \E F : Adds(c, F) /\ (MovesOn(c, F) \/ Ends(c, F)) /\ job[c] # NoJob /\ Ledger'
    BY <1>1, <1>4, LedgerWorks
  <1>5. ASSUME job[c] # NoJob, did' = did PROVE Adds(c, {})
    BY <1>5, Recording
  <1>6. ASSUME NEW what, job[c] # NoJob, Done(c, what) PROVE Adds(c, {what})
    BY <1>6, Recording
  <1>7. ASSUME NEW name, NEW S, Working(c, name), Go(c, S), name # "refuse",
               name = "archive" => S = job[c].on, NEW E, Records(name, E)
        PROVE  MovesOn(c, E)
    BY <1>2, <1>7, GoFits DEF step
  <1>8. ASSUME NEW name, Working(c, name), name # "look", Finish(c, FALSE) PROVE Ends(c, {})
    BY <1>2, <1>8, FailFits DEF step
  <1>9. CASE Answer(c)
    <2>1. Ends(c, {}) /\ did' = did /\ active' = active /\ job[c] # NoJob
      BY <1>9 DEF Answer, Ends
    <2>2. QED
      BY <1>4, <1>5, <2>1
  <1>10. CASE Refuse(c)
    <2>1. Working(c, "refuse") /\ did' = did /\ active' = active
      BY <1>10 DEF Refuse
    <2>2. Ends(c, {})
      BY <1>8, <1>10 DEF Refuse
    <2>3. QED
      BY <1>2, <1>4, <1>5, <2>1, <2>2
  <1>11. CASE Look(c)
    <2>1. Working(c, "look") /\ did' = did /\ active' = active /\ Go(c, job[c].on)
      BY <1>11 DEF Look
    <2>2. MovesOn(c, {})
      BY <1>7, <2>1 DEF Records
    <2>3. QED
      BY <1>2, <1>4, <1>5, <2>1, <2>2
  <1>12. CASE Insert(c)
    <2>1. Working(c, "insert") /\ Done(c, "insert") /\ active' = active /\ Go(c, {})
      BY <1>12 DEF Insert
    <2>2. MovesOn(c, {"insert"})
      BY <1>7, <2>1 DEF Records
    <2>3. QED
      BY <1>2, <1>4, <1>6, <2>1, <2>2
  <1>13. CASE Archive(c)
    <2>1. Working(c, "archive")
      BY <1>13 DEF Archive
    <2>2. CASE /\ job[c].on \subseteq active
               /\ Go(c, job[c].on) /\ Done(c, "archive")
               /\ active' = active \ job[c].on
      <3>1. MovesOn(c, {"archive"})
        BY <1>7, <2>1, <2>2 DEF Records
      <3>2. Adds(c, {"archive"})
        BY <1>2, <1>6, <2>1, <2>2
      <3>3. Ledger'
        BY <1>1, <2>1, <2>2, <3>2, ArchiveCounts
      <3>4. QED
        BY <1>2, <2>1, <3>1, <3>2, <3>3
    <2>3. CASE Finish(c, FALSE) /\ UNCHANGED <<active, did>>
      <3>1. Ends(c, {})
        BY <1>8, <2>1, <2>3
      <3>2. QED
        BY <1>2, <1>4, <1>5, <2>1, <2>3, <3>1
    <2>4. QED
      BY <1>13, <2>2, <2>3 DEF Archive
  <1>14. CASE Search(c)
    <2>1. Working(c, "search") /\ did' = did /\ active' = active /\ \E S : Go(c, S)
      BY <1>14 DEF Search
    <2>2. MovesOn(c, {})
      BY <1>7, <2>1 DEF Records
    <2>3. QED
      BY <1>2, <1>4, <1>5, <2>1, <2>2
  <1>15. CASE Touch(c)
    <2>1. Working(c, "touch") /\ active' = active /\ (Go(c, job[c].on) \/ Past(c, job[c].on))
      BY <1>15 DEF Touch
    <2>2. job[c] # NoJob /\ job[c].steps # <<>> /\ step = "touch"
      BY <1>2, <2>1
    <2>3. ASSUME NEW E, E \subseteq {"touch"} PROVE MovesOn(c, E)
      <3>1. CASE Go(c, job[c].on)
        BY <1>7, <2>1, <2>3, <3>1 DEF Records
      <3>2. CASE Past(c, job[c].on)
        BY <2>2, <2>3, <3>2, PastFits DEF step
      <3>3. QED
        BY <2>1, <3>1, <3>2
    <2>4. CASE did' = did
      <3>1. MovesOn(c, {})
        BY <2>3
      <3>2. QED
        BY <1>4, <1>5, <2>1, <2>2, <2>4, <3>1
    <2>5. CASE Done(c, "touch")
      <3>1. MovesOn(c, {"touch"})
        BY <2>3
      <3>2. QED
        BY <1>4, <1>6, <2>1, <2>2, <2>5, <3>1
    <2>6. QED
      BY <1>15, <2>4, <2>5 DEF Touch
  <1>16. CASE Check(c)
    <2>1. Working(c, "check") /\ did' = did /\ active' = active /\ (Go(c, job[c].on) \/ Finish(c, FALSE))
      BY <1>16 DEF Check
    <2>2. MovesOn(c, {}) \/ Ends(c, {})
      <3>1. Go(c, job[c].on) => MovesOn(c, {})
        BY <1>7, <2>1 DEF Records
      <3>2. Finish(c, FALSE) => Ends(c, {})
        BY <1>8, <2>1
      <3>3. QED
        BY <2>1, <3>1, <3>2
    <2>3. QED
      BY <1>2, <1>4, <1>5, <2>1, <2>2
  <1>17. CASE Learn(c)
    <2>1. Working(c, "learn") /\ active' = active /\ Go(c, job[c].on) /\ (did' = did \/ Done(c, "learn"))
      BY <1>17 DEF Learn
    <2>2. MovesOn(c, {}) /\ MovesOn(c, {"learn"})
      BY <1>7, <2>1 DEF Records
    <2>3. QED
      BY <1>2, <1>4, <1>5, <1>6, <2>1, <2>2
  <1>18. QED
    BY <1>9, <1>10, <1>11, <1>12, <1>13, <1>14, <1>15, <1>16, <1>17 DEF Handle

\* A busy database is an error before the effect; edges are only skipped.
LEMMA BusyTells ==
  ASSUME McpInv, EffectInv, NEW c \in Client, Busy(c)
  PROVE  EffectInv'
  <1>1. /\ job[c] # NoJob /\ job[c].steps # <<>> /\ UNCHANGED <<inbox, active, sent, got, did>>
        /\ \/ Head(job[c].steps) = "learn" /\ Go(c, job[c].on)
           \/ Head(job[c].steps) \in {"insert", "archive", "touch"} /\ Finish(c, FALSE)
    <2>1. job[c] # NoJob
      BY DEF Busy, NoJob
    <2>2. QED
      BY <2>1 DEF Busy, Next1
  <1>2. MovesOn(c, {}) \/ Ends(c, {})
    <2>1. CASE Head(job[c].steps) = "learn" /\ Go(c, job[c].on)
      BY <1>1, <2>1, GoFits DEF Records
    <2>2. CASE Head(job[c].steps) \in {"insert", "archive", "touch"} /\ Finish(c, FALSE)
      BY <1>1, <2>2, FailFits
    <2>3. QED
      BY <1>1, <2>1, <2>2
  <1>3. Adds(c, {})
    BY <1>1, Recording
  <1>4. QED
    BY <1>1, <1>2, <1>3, WorkTells, LedgerStays DEF EffectInv

\* Every step keeps what the answers tell.
LEMMA EffectInvStep == McpInv /\ EffectInv /\ [McpNext]_mcpVars => EffectInv'
  <1> SUFFICES ASSUME McpInv, EffectInv, [McpNext]_mcpVars PROVE EffectInv'
    OBVIOUS
  <1>1. ASSUME NEW c \in Client, NEW line \in Lines, Send(c, line) PROVE EffectInv'
    BY <1>1, SendTells
  <1>2. ASSUME NEW c \in Client,
               ReadAnswer(c) \/ Restart(c) \/ ReadLine(c) \/ Handle(c) \/ Busy(c)
        PROVE  EffectInv'
    BY <1>2, ReadAnswerTells, RestartTells, ReadLineTells, HandleTells, BusyTells
  <1>3. ASSUME NEW c \in Client, Crash(c) PROVE EffectInv'
    BY <1>3, EndTells DEF Crash
  <1>4. CASE UNCHANGED mcpVars
    <2>1. UNCHANGED <<inbox, outbox, job, active, sent, got, did>>
      BY <1>4 DEF mcpVars
    <2>2. QED
      BY <2>1, OthersTell, LedgerStays DEF EffectInv
  <1>5. QED
    BY <1>1, <1>2, <1>3, <1>4 DEF McpNext

-----------------------------------------------------------------------------
(* The theorems.                                                           *)

\* Every step keeps the invariant.
LEMMA McpInvStep == McpInv /\ [McpNext]_mcpVars => McpInv'
  <1> SUFFICES ASSUME McpInv, [McpNext]_mcpVars PROVE McpInv'
    OBVIOUS
  <1>1. ASSUME NEW c \in Client, NEW line \in Lines, Send(c, line) PROVE McpInv'
    BY <1>1, SendKeeps
  <1>2. ASSUME NEW c \in Client,
               \/ ReadAnswer(c) \/ Restart(c) \/ ReadLine(c) \/ Handle(c) \/ Busy(c)
        PROVE  McpInv'
    BY <1>2, ReadAnswerKeeps, RestartKeeps, ReadLineKeeps, HandleKeeps, BusyKeeps
  <1>3. ASSUME NEW c \in Client, Crash(c) PROVE McpInv'
    BY <1>3, EndKeeps DEF Crash
  <1>4. CASE UNCHANGED mcpVars
    <2>1. UNCHANGED <<inbox, outbox, up, job, active, sent, got, did>>
      BY <1>4 DEF mcpVars
    <2>2. \A c \in Client : Answers(c)' = Answers(c)
      BY <2>1 DEF Answers
    <2>3. QED
      BY <2>1, <2>2 DEF McpInv, McpTypes, Fits, InOrder
  <1>5. QED
    BY <1>1, <1>2, <1>3, <1>4 DEF McpNext

\* The invariant always holds.
LEMMA McpInvHolds == McpSpec => []McpInv
  BY McpInvInit, McpInvStep, PTL DEF McpSpec

\* No pipe overflows, a server that ended leaves neither a job nor lines, and
\* no line is worked on that was not sent.
THEOREM McpIsTyped == McpSpec => []McpTypeOK
  <1>1. McpInv => McpTypeOK
    <2> SUFFICES ASSUME McpInv, NEW c \in Client
                 PROVE  /\ job[c].line \in 0 .. Len(sent[c])
                        /\ \A k \in 1 .. MaxSends : did[c][k] \subseteq Effects
      BY DEF McpInv, McpTypes, McpTypeOK, Fits, Effects
    <2>1. sent[c] \in Seq(Lines)
      BY DEF McpInv, McpTypes
    <2>2. DOMAIN sent[c] = 1 .. Len(sent[c]) /\ Len(sent[c]) \in Nat
      BY <2>1, LenProperties
    <2>3. job[c].line = 0 \/ job[c].line \in 1 .. Len(sent[c])
      BY <2>2 DEF McpInv, InOrder
    <2>4. job[c].line \in 0 .. Len(sent[c])
      BY <2>2, <2>3
    <2>5. \A k \in 1 .. MaxSends : did[c][k] \subseteq Effects
      BY DEF McpInv, McpTypes
    <2>6. QED
      BY <2>4, <2>5
  <1>2. QED
    BY <1>1, McpInvHolds, PTL

\* What the answers tell always holds.
LEMMA EffectInvHolds == McpSpec => [](McpInv /\ EffectInv)
  <1>1. McpInit => McpInv /\ EffectInv
    BY McpInvInit, EffectInvInit
  <1>2. (McpInv /\ EffectInv) /\ [McpNext]_mcpVars => (McpInv /\ EffectInv)'
    BY McpInvStep, EffectInvStep
  <1>3. QED
    BY <1>1, <1>2, PTL DEF McpSpec

\* A good answer is given after its effect is committed; an error means that
\* nothing was written, archived or learned; and of all the calls to forget a
\* memory, by however many clients, crashes and retries included, exactly one
\* has done it once the memory is gone, and none before.
THEOREM McpAnswersTellTheEffect == McpSpec => []AnswersTellTheEffect
  <1>1. ASSUME McpInv, EffectInv PROVE AnswersTellTheEffect
    <2>1. ASSUME NEW c \in Client, NEW k \in DOMAIN sent[c]
          PROVE  /\ AnsweredWith(c, k, TRUE) =>
                      /\ sent[c][k].tool = "write" => "insert" \in did[c][k]
                      /\ sent[c][k].tool = "forget" => "archive" \in did[c][k]
                 /\ AnsweredWith(c, k, FALSE) => did[c][k] \subseteq {"touch"}
      <3>1. Told(c)
        BY <1>1 DEF EffectInv, Sound
      <3>2. ASSUME NEW ok \in BOOLEAN, NEW i \in DOMAIN Answers(c), Answers(c)[i] = [line |-> k, ok |-> ok]
            PROVE  Answers(c)[i].line = k /\ Answers(c)[i].ok = ok
        BY <3>2
      <3>3. QED
        BY <3>1, <3>2 DEF AnsweredWith, Told
    <2>2. ASSUME NEW m \in Memories
          PROVE  Cardinality(UNION {{<<c, k>> : k \in {j \in DOMAIN sent[c] :
                              "archive" \in did[c][j] /\ sent[c][j].on = {m}}} : c \in Client})
                   = IF m \in active THEN 0 ELSE 1
      <3> DEFINE U == UNION {{<<c, k>> : k \in {j \in DOMAIN sent[c] :
                        "archive" \in did[c][j] /\ sent[c][j].on = {m}}} : c \in Client}
      <3>1. \A c \in Client : DOMAIN sent[c] \subseteq 1 .. MaxSends
        <4> SUFFICES ASSUME NEW c \in Client PROVE DOMAIN sent[c] \subseteq 1 .. MaxSends
          OBVIOUS
        <4>1. sent[c] \in Seq(Lines) /\ Len(sent[c]) <= MaxSends
          BY <1>1 DEF McpInv, McpTypes, EffectInv, Sound, StepTypes
        <4>2. DOMAIN sent[c] = 1 .. Len(sent[c]) /\ Len(sent[c]) \in Nat
          BY <4>1, LenProperties
        <4>3. QED
          BY <4>1, <4>2, McpConstants
      <3>2. \A p : p \in U <=> \E c \in Client, k \in 1 .. MaxSends : p = <<c, k>> /\ Forgot(c, k, m)
        BY <3>1 DEF Forgot
      <3> HIDE DEF U
      <3>3. Ledger
        BY <1>1 DEF EffectInv
      <3>4. CASE m \in active
        <4>1. U = {}
          BY <3>2, <3>3, <3>4 DEF Ledger
        <4>2. QED
          BY <3>4, <4>1, FS_EmptySet DEF U
      <3>5. CASE m \notin active
        <4>1. PICK c \in Client, k \in 1 .. MaxSends :
                Forgot(c, k, m) /\ \A d \in Client, j \in 1 .. MaxSends : Forgot(d, j, m) => d = c /\ j = k
          BY <3>3, <3>5 DEF Ledger
        <4>2. U = {<<c, k>>}
          BY <3>2, <4>1
        <4>3. Cardinality(U) = 1
          BY <4>2, FS_Singleton
        <4>4. QED
          BY <3>5, <4>3 DEF U
      <3>6. QED
        BY <3>4, <3>5
    <2>3. QED
      BY <2>1, <2>2 DEF AnswersTellTheEffect
  <1>2. QED
    BY <1>1, EffectInvHolds, PTL

-----------------------------------------------------------------------------
(* What a client that counts its answers can know.                         *)

\* No request is passed over: it is answered, or before its server, or was
\* left by a server that ended.
Accounted(c) ==
  \A k \in Requests(c) : Answered(c, k) \/ k \in Waiting(c) \/ k \in UNION lost[c]

\* What was left is left for ever, and of each part only the first was done.
LeftAlone(c) ==
  \A left \in lost[c] : \A k \in left :
    /\ k \in DOMAIN sent[c] /\ k \notin Waiting(c) /\ ~Answered(c, k)
    /\ did[c][k] # {} => \A j \in left : k <= j

DoubtInv ==
  /\ lost = [c \in Client |-> lost[c]]
  /\ \A c \in Client : Accounted(c) /\ LeftAlone(c)

\* At first nothing was sent, and nothing left.
LEMMA DoubtInvInit == McpInit => DoubtInv
  <1> SUFFICES ASSUME McpInit PROVE DoubtInv
    OBVIOUS
  <1>1. \A c \in Client : sent[c] = <<>> /\ lost[c] = {}
    BY DEF McpInit
  <1>2. \A c \in Client : Requests(c) = {}
    BY <1>1, EmptySeq DEF Requests
  <1>3. QED
    BY <1>1, <1>2 DEF DoubtInv, Accounted, LeftAlone, McpInit

\* What a server has before it: lines that were sent, are not answered, and
\* behind the first of them nothing is done.
LEMMA WaitingFacts ==
  ASSUME McpInv, EffectInv, NEW c \in Client
  PROVE  \A k \in Waiting(c) :
           /\ k \in DOMAIN sent[c] /\ ~Answered(c, k)
           /\ did[c][k] # {} => \A j \in Waiting(c) : k <= j
  <1>1. /\ InOrder(c) /\ \A j \in DOMAIN inbox[c] : did[c][inbox[c][j]] = {}
        /\ sent[c] \in Seq(Lines) /\ job[c].line \in Nat
    BY DEF McpInv, McpTypes, EffectInv, Sound, InTurn
  <1>2. DOMAIN sent[c] = 1 .. Len(sent[c]) /\ Len(sent[c]) \in Nat
    BY <1>1, LenProperties
  <1>3. \A k, i \in Nat : i < k => i # k
    OBVIOUS
  <1>4. \A i \in DOMAIN Answers(c) : Answers(c)[i].line \in Nat
    BY <1>1, <1>2 DEF InOrder
  <1>5. ASSUME NEW k \in Waiting(c)
        PROVE  /\ k \in DOMAIN sent[c] /\ k \in Nat /\ ~Answered(c, k)
               /\ k # job[c].line => did[c][k] = {} /\ job[c].line < k
    <2>1. CASE k = job[c].line /\ k # 0
      <3>1. k \in DOMAIN sent[c] /\ \A i \in DOMAIN Answers(c) : Answers(c)[i].line < k
        BY <1>1, <2>1 DEF InOrder
      <3>2. QED
        BY <1>1, <1>3, <1>4, <2>1, <3>1 DEF Answered
    <2>2. CASE \E j \in DOMAIN inbox[c] : k = inbox[c][j]
      <3>1. PICK j \in DOMAIN inbox[c] : k = inbox[c][j]
        BY <2>2
      <3>2. /\ k \in DOMAIN sent[c] /\ job[c].line < k /\ did[c][k] = {}
            /\ \A i \in DOMAIN Answers(c) : Answers(c)[i].line < k
        BY <1>1, <3>1 DEF InOrder
      <3>3. k \in Nat
        BY <1>2, <3>2
      <3>4. QED
        BY <1>3, <1>4, <3>2, <3>3 DEF Answered
    <2>3. QED
      BY <2>1, <2>2 DEF Waiting
  <1>6. ASSUME NEW k \in Waiting(c), did[c][k] # {}, NEW j \in Waiting(c)
        PROVE  k <= j
    <2>1. k = job[c].line
      BY <1>5, <1>6
    <2>2. j \in Nat /\ (j = job[c].line \/ job[c].line < j)
      BY <1>5
    <2>3. QED
      BY <1>1, <2>1, <2>2
  <1>7. QED
    BY <1>5, <1>6

\* A step that leaves the lines that were sent: the server has no more before
\* it, what it no longer has is answered or asks for no answer, and nothing
\* else is answered or done.
Advances(c) ==
  /\ sent'[c] = sent[c] /\ lost'[c] = lost[c]
  /\ Waiting(c)' \subseteq Waiting(c)
  /\ \A k \in Waiting(c) \ Waiting(c)' : k \in Requests(c) => Answered(c, k)'
  /\ \A k : Answered(c, k) => Answered(c, k)'
  /\ \A k : Answered(c, k)' => Answered(c, k) \/ k \in Waiting(c)
  /\ \A k \in DOMAIN sent[c] : k \notin Waiting(c) => did'[c][k] = did[c][k]

LEMMA AdvancesKeeps ==
  ASSUME DoubtInv, NEW c \in Client, Advances(c)
  PROVE  Accounted(c)' /\ LeftAlone(c)'
  <1>1. Accounted(c) /\ LeftAlone(c)
    BY DEF DoubtInv
  <1>2. Requests(c)' = Requests(c)
    BY DEF Requests, Advances
  <1>3. Accounted(c)'
    BY <1>1, <1>2 DEF Accounted, Advances
  <1>4. LeftAlone(c)'
    BY <1>1 DEF LeftAlone, Advances
  <1>5. QED
    BY <1>3, <1>4

\* A client that a step leaves alone.
LEMMA OthersAdvance ==
  ASSUME NEW d,
         inbox'[d] = inbox[d], outbox'[d] = outbox[d], got'[d] = got[d], sent'[d] = sent[d],
         job'[d] = job[d], did'[d] = did[d], lost'[d] = lost[d]
  PROVE  Advances(d)
  <1>1. Answers(d)' = Answers(d) /\ Waiting(d)' = Waiting(d)
    BY DEF Answers, Waiting
  <1>2. QED
    BY <1>1 DEF Advances, Answered

\* What is sent is before the server.
LEMMA SendAccounts ==
  ASSUME McpInv, DoubtInv, NEW c \in Client, NEW line \in Lines, Send(c, line)
  PROVE  DoubtInv'
  <1> DEFINE n == Len(sent[c]) + 1
  <1>1. /\ sent' = [sent EXCEPT ![c] = Append(sent[c], line)]
        /\ inbox' = [inbox EXCEPT ![c] = Append(inbox[c], n)]
        /\ UNCHANGED <<outbox, job, got, did, lost>>
    BY DEF Send
  <1>2. sent[c] \in Seq(Lines) /\ inbox[c] \in Seq(Nat)
    BY DEF McpInv, McpTypes
  <1>3. Len(sent[c]) \in Nat /\ n \in Nat /\ DOMAIN sent[c] = 1 .. Len(sent[c])
        /\ DOMAIN inbox[c] = 1 .. Len(inbox[c]) /\ Len(inbox[c]) \in Nat
    BY <1>2, LenProperties
  <1>4. /\ DOMAIN sent'[c] = 1 .. n /\ \A k \in DOMAIN sent[c] : sent'[c][k] = sent[c][k]
    <2>1. /\ Append(sent[c], line) \in Seq(Lines) /\ Len(Append(sent[c], line)) = n
          /\ \A k \in 1 .. Len(sent[c]) : Append(sent[c], line)[k] = sent[c][k]
      BY <1>2, AppendProperties
    <2>2. DOMAIN Append(sent[c], line) = 1 .. n
      BY <2>1, LenProperties
    <2>3. sent'[c] = Append(sent[c], line)
      BY <1>1 DEF McpInv, McpTypes
    <2>4. QED
      BY <1>3, <2>1, <2>2, <2>3
  <1>5. /\ DOMAIN inbox'[c] = 1 .. Len(inbox[c]) + 1 /\ inbox'[c][Len(inbox[c]) + 1] = n
        /\ \A j \in DOMAIN inbox[c] : inbox'[c][j] = inbox[c][j]
    <2>1. /\ Append(inbox[c], n) \in Seq(Nat) /\ Len(Append(inbox[c], n)) = Len(inbox[c]) + 1
          /\ Append(inbox[c], n)[Len(inbox[c]) + 1] = n
          /\ \A j \in 1 .. Len(inbox[c]) : Append(inbox[c], n)[j] = inbox[c][j]
      BY <1>2, <1>3, AppendProperties
    <2>2. DOMAIN Append(inbox[c], n) = 1 .. Len(inbox[c]) + 1
      BY <2>1, LenProperties
    <2>3. inbox'[c] = Append(inbox[c], n)
      BY <1>1 DEF McpInv, McpTypes
    <2>4. QED
      BY <1>3, <2>1, <2>2, <2>3
  <1>6. /\ n \notin DOMAIN sent[c] /\ \A k \in DOMAIN sent'[c] : k \in DOMAIN sent[c] \/ k = n
        /\ \A k \in DOMAIN sent[c] : k \in DOMAIN sent'[c]
        /\ Len(inbox[c]) + 1 \in DOMAIN inbox'[c]
        /\ \A j \in DOMAIN inbox[c] : j \in DOMAIN inbox'[c]
        /\ \A j \in DOMAIN inbox'[c] : j \in DOMAIN inbox[c] \/ j = Len(inbox[c]) + 1
    BY <1>3, <1>4, <1>5
  <1> HIDE DEF n
  <1>7. Waiting(c)' = Waiting(c) \cup {n}
    BY <1>1, <1>5, <1>6 DEF Waiting
  <1>8. Answers(c)' = Answers(c)
    BY <1>1 DEF Answers
  <1>9. \A k : Answered(c, k)' <=> Answered(c, k)
    BY <1>8 DEF Answered
  <1>10. Accounted(c) /\ LeftAlone(c)
    BY DEF DoubtInv
  <1>11. Accounted(c)'
    <2>1. \A k \in Requests(c)' : k \in Requests(c) \/ k = n
      BY <1>4, <1>6 DEF Requests
    <2>2. QED
      BY <1>1, <1>7, <1>9, <1>10, <2>1 DEF Accounted
  <1>12. LeftAlone(c)'
    BY <1>1, <1>6, <1>7, <1>9, <1>10 DEF LeftAlone
  <1>13. ASSUME NEW d \in Client, d # c PROVE Accounted(d)' /\ LeftAlone(d)'
    <2>1. Advances(d)
      BY <1>1, <1>13, OthersAdvance DEF McpInv, McpTypes
    <2>2. QED
      BY <2>1, AdvancesKeeps
  <1>14. QED
    BY <1>1, <1>11, <1>12, <1>13 DEF DoubtInv

\* What a server has before it when it ends is left.
LEMMA EndAccounts ==
  ASSUME McpInv, EffectInv, DoubtInv, NEW c \in Client, End(c), UNCHANGED <<sent, got, did>>
  PROVE  DoubtInv'
  <1>1. /\ job' = [job EXCEPT ![c] = NoJob] /\ inbox' = [inbox EXCEPT ![c] = <<>>]
        /\ outbox' = outbox /\ lost' = [lost EXCEPT ![c] = lost[c] \cup {Waiting(c)}]
    BY DEF End
  <1>2. inbox'[c] = <<>> /\ job'[c].line = 0 /\ lost'[c] = lost[c] \cup {Waiting(c)}
    BY <1>1 DEF McpInv, McpTypes, DoubtInv, NoJob
  <1>3. Waiting(c)' = {}
    BY <1>2, EmptySeq DEF Waiting
  <1>4. Answers(c)' = Answers(c)
    BY <1>1 DEF Answers
  <1>5. \A k : Answered(c, k)' <=> Answered(c, k)
    BY <1>4 DEF Answered
  <1>6. Accounted(c) /\ LeftAlone(c)
    BY DEF DoubtInv
  <1>7. Requests(c)' = Requests(c)
    BY DEF Requests
  <1>8. Accounted(c)'
    BY <1>2, <1>5, <1>6, <1>7 DEF Accounted
  <1>9. LeftAlone(c)'
    BY <1>2, <1>3, <1>5, <1>6, WaitingFacts DEF LeftAlone
  <1>10. ASSUME NEW d \in Client, d # c PROVE Accounted(d)' /\ LeftAlone(d)'
    <2>1. lost'[d] = lost[d]
      BY <1>1, <1>10 DEF DoubtInv
    <2>2. Advances(d)
      BY <1>1, <1>10, <2>1, OthersAdvance DEF McpInv, McpTypes
    <2>3. QED
      BY <2>2, AdvancesKeeps
  <1>11. QED
    BY <1>1, <1>8, <1>9, <1>10 DEF DoubtInv

\* A line that is read becomes the job, or asks for no answer.
LEMMA ReadLineAccounts ==
  ASSUME McpInv, EffectInv, DoubtInv, NEW c \in Client, ReadLine(c)
  PROVE  DoubtInv'
  <1> DEFINE k == Take(c).line
             rest == Take(c).rest
  <1>1. job[c] = NoJob /\ inbox[c] # <<>> /\ UNCHANGED <<sent, got, did>>
    BY DEF ReadLine
  <1>2. \/ End(c)
        \/ /\ sent[c][k].type \in {"blank", "no json"} /\ inbox' = [inbox EXCEPT ![c] = rest]
           /\ UNCHANGED <<outbox, job, lost>>
        \/ /\ inbox' = [inbox EXCEPT ![c] = rest]
           /\ \E x, y : job' = [job EXCEPT ![c] = [line |-> k, on |-> x, steps |-> y]]
           /\ UNCHANGED <<outbox, lost>>
    BY DEF ReadLine, LineOf
  <1>3. CASE End(c)
    BY <1>1, <1>3, EndAccounts
  <1>4. inbox[c] \in Seq(Nat)
    BY DEF McpInv, McpTypes
  <1>5. Len(inbox[c]) \in Nat \ {0} /\ DOMAIN inbox[c] = 1 .. Len(inbox[c])
    BY <1>1, <1>4, LenProperties, EmptySeq
  <1>6. /\ k = inbox[c][1] /\ rest \in Seq(Nat) /\ DOMAIN rest = 1 .. Len(inbox[c]) - 1
        /\ \A j \in 1 .. Len(inbox[c]) - 1 : rest[j] = inbox[c][j + 1]
    <2>1. /\ Head(inbox[c]) = inbox[c][1] /\ Tail(inbox[c]) \in Seq(Nat)
          /\ Len(Tail(inbox[c])) = Len(inbox[c]) - 1
          /\ \A j \in 1 .. Len(inbox[c]) - 1 : Tail(inbox[c])[j] = inbox[c][j + 1]
      BY <1>1, <1>4, HeadTailProperties
    <2>2. DOMAIN Tail(inbox[c]) = 1 .. Len(inbox[c]) - 1
      BY <2>1, LenProperties
    <2>3. QED
      BY <2>1, <2>2 DEF Take
  <1>7. 1 \in DOMAIN inbox[c] /\ \A j \in DOMAIN inbox[c] : j = 1 \/ j - 1 \in DOMAIN rest
    BY <1>5, <1>6
  <1>8. \A j \in DOMAIN rest : j + 1 \in DOMAIN inbox[c]
    BY <1>5, <1>6
  <1>9. \A j \in DOMAIN inbox[c] : j # 1 => rest[j - 1] = inbox[c][j]
    <2> SUFFICES ASSUME NEW j \in DOMAIN inbox[c], j # 1 PROVE rest[j - 1] = inbox[c][j]
      OBVIOUS
    <2>1. j - 1 \in 1 .. Len(inbox[c]) - 1 /\ (j - 1) + 1 = j
      BY <1>5
    <2>2. QED
      BY <1>6, <2>1
  <1>10. {rest[j] : j \in DOMAIN rest} \cup {k} = {inbox[c][j] : j \in DOMAIN inbox[c]}
    <2>1. \A j \in DOMAIN rest : rest[j] \in {inbox[c][i] : i \in DOMAIN inbox[c]}
      BY <1>6, <1>8
    <2>2. \A j \in DOMAIN inbox[c] : inbox[c][j] \in {rest[i] : i \in DOMAIN rest} \cup {k}
      BY <1>6, <1>7, <1>9
    <2>3. QED
      BY <1>6, <1>7, <2>1, <2>2
  <1> HIDE DEF k, rest
  <1>11. Waiting(c) = {rest[j] : j \in DOMAIN rest} \cup {k}
    BY <1>1, <1>10 DEF Waiting, NoJob
  <1>12. ASSUME inbox' = [inbox EXCEPT ![c] = rest], UNCHANGED <<outbox, lost>>,
                \/ sent[c][k].type \in {"blank", "no json"} /\ job' = job
                \/ \E x, y : job' = [job EXCEPT ![c] = [line |-> k, on |-> x, steps |-> y]]
         PROVE  DoubtInv'
    <2>1. inbox'[c] = rest
      BY <1>12 DEF McpInv, McpTypes
    <2>2. Answers(c)' = Answers(c)
      BY <1>1, <1>12 DEF Answers
    <2>3. k # 0
      <3>1. k \in DOMAIN sent[c]
        BY <1>11, WaitingFacts
      <3>2. sent[c] \in Seq(Lines)
        BY DEF McpInv, McpTypes
      <3>3. DOMAIN sent[c] = 1 .. Len(sent[c])
        BY <3>2, LenProperties
      <3>4. QED
        BY <3>1, <3>2, <3>3, LenProperties
    <2>4. \/ k \notin Requests(c) /\ Waiting(c)' = {rest[j] : j \in DOMAIN rest}
          \/ Waiting(c)' = Waiting(c)
      <3>1. CASE sent[c][k].type \in {"blank", "no json"} /\ job' = job
        <4>0. job'[c] = NoJob
          BY <1>1, <3>1
        <4>1. sent[c][k].type # "call" /\ job'[c].line = 0
          <5>1. job'[c].line = 0
            BY <4>0 DEF NoJob
          <5>2. \A t : t \in {"blank", "no json"} => t # "call"
            OBVIOUS
          <5>3. QED
            BY <3>1, <5>1, <5>2
        <4>2. k \notin Requests(c)
          BY <4>1 DEF Requests
        <4>3. Waiting(c)' = {rest[j] : j \in DOMAIN rest}
          BY <2>1, <4>1 DEF Waiting
        <4>4. QED
          BY <4>2, <4>3
      <3>2. CASE \E x, y : job' = [job EXCEPT ![c] = [line |-> k, on |-> x, steps |-> y]]
        <4>1. job'[c].line = k
          BY <3>2 DEF McpInv, McpTypes
        <4>2. QED
          BY <1>11, <2>1, <2>3, <4>1 DEF Waiting
      <3>3. QED
        BY <1>12, <3>1, <3>2
    <2>5. Advances(c)
      BY <1>1, <1>11, <1>12, <2>2, <2>4 DEF Advances, Answered
    <2>6. ASSUME NEW d \in Client, d # c PROVE Advances(d)
      <3>1. job'[d] = job[d] /\ inbox'[d] = inbox[d]
        BY <1>12, <2>6 DEF McpInv, McpTypes
      <3>2. QED
        BY <1>1, <1>12, <3>1, OthersAdvance
    <2>7. QED
      BY <1>12, <2>5, <2>6, AdvancesKeeps DEF DoubtInv
  <1>13. QED
    BY <1>2, <1>3, <1>12

\* The work on a line leaves it before the server, or answers it.
LEMMA WorkAccounts ==
  ASSUME McpInv, EffectInv, DoubtInv, NEW c \in Client, job[c] # NoJob,
         UNCHANGED <<inbox, sent, got, lost>>, did' = did \/ \E what : Done(c, what),
         \/ /\ outbox' = outbox
            /\ \E x, y : job' = [job EXCEPT ![c] = [line |-> job[c].line, steps |-> x, on |-> y]]
         \/ \E ok \in BOOLEAN : Finish(c, ok)
  PROVE  DoubtInv'
  <1> DEFINE k == job[c].line
  <1>1. k # 0 /\ k \in Waiting(c)
    BY DEF McpInv, McpTypes, Waiting
  <1>2. /\ \A i \in DOMAIN sent[c] : i # k => did'[c][i] = did[c][i]
        /\ \A d \in Client : d # c => did'[d] = did[d]
    <2>1. k \in 1 .. MaxSends /\ DOMAIN sent[c] \subseteq 1 .. MaxSends
      BY JobIsCall
    <2>2. did \in [Client -> [1 .. MaxSends -> SUBSET Effects]]
      BY DEF McpInv, McpTypes
    <2>3. ASSUME NEW what, Done(c, what)
          PROVE  /\ \A i \in 1 .. MaxSends : i # k => did'[c][i] = did[c][i]
                 /\ \A d \in Client : d # c => did'[d] = did[d]
      <3>1. did' = [did EXCEPT ![c] = [did[c] EXCEPT ![k] = did[c][k] \cup {what}]]
        BY <2>3 DEF Done
      <3>2. did'[c] = [did[c] EXCEPT ![k] = did[c][k] \cup {what}]
        BY <2>2, <3>1
      <3>3. \A i \in 1 .. MaxSends : i # k => did'[c][i] = did[c][i]
        BY <2>2, <3>2
      <3>4. QED
        BY <2>2, <3>1, <3>3
    <2>4. QED
      BY <2>1, <2>3
  <1>3. \A d \in Client : d # c => job'[d] = job[d] /\ outbox'[d] = outbox[d]
    BY DEF Finish, McpInv, McpTypes
  <1>4. ASSUME outbox' = outbox,
               \E x, y : job' = [job EXCEPT ![c] = [line |-> job[c].line, steps |-> x, on |-> y]]
        PROVE  Advances(c)
    <2>1. job'[c].line = job[c].line
      BY <1>4 DEF McpInv, McpTypes
    <2>2. Answers(c)' = Answers(c) /\ Waiting(c)' = Waiting(c)
      BY <1>4, <2>1 DEF Answers, Waiting
    <2>3. QED
      BY <1>1, <1>2, <2>2 DEF Advances, Answered
  <1>5. ASSUME NEW ok \in BOOLEAN, Finish(c, ok) PROVE Advances(c)
    <2>1. job'[c].line = 0
      BY <1>5 DEF Finish, NoJob, McpInv, McpTypes
    <2>2. Waiting(c)' = {inbox[c][j] : j \in DOMAIN inbox[c]}
      BY <2>1 DEF Waiting
    <2>3. Waiting(c)' \subseteq Waiting(c) /\ \A i \in Waiting(c) \ Waiting(c)' : i = k
      BY <2>2 DEF Waiting
    <2>4. CASE ~sent[c][k].id
      <3>1. outbox' = outbox
        BY <1>5, <2>4 DEF Finish, LineOf
      <3>2. Answers(c)' = Answers(c)
        BY <3>1 DEF Answers
      <3>3. k \notin Requests(c)
        BY <2>4 DEF Requests
      <3>4. QED
        BY <1>1, <1>2, <2>3, <3>2, <3>3 DEF Advances, Answered
    <2>5. CASE sent[c][k].id
      <3>1. PICK n \in Nat :
              /\ DOMAIN Answers(c) = 1 .. n /\ DOMAIN Answers(c)' = 1 .. n + 1
              /\ Answers(c)'[n + 1] = [line |-> k, ok |-> ok]
              /\ \A i \in DOMAIN Answers(c) : Answers(c)'[i] = Answers(c)[i]
        BY <1>5, <2>5, FinishAnswers
      <3>2. \A i \in 1 .. n + 1 : i \in 1 .. n \/ i = n + 1
        BY UpToNext
      <3>3. n + 1 \in DOMAIN Answers(c)' /\ \A i \in DOMAIN Answers(c) : i \in DOMAIN Answers(c)'
        BY <3>1
      <3>4. Answers(c)'[n + 1].line = k
        BY <3>1
      <3> HIDE DEF k
      <3>5. \A i : Answered(c, i)' <=> Answered(c, i) \/ i = k
        BY <3>1, <3>2, <3>3, <3>4 DEF Answered
      <3>6. QED
        BY <1>1, <1>2, <2>3, <3>5 DEF Advances
    <2>6. QED
      BY <2>4, <2>5
  <1>6. Advances(c)
    BY <1>4, <1>5
  <1>7. ASSUME NEW d \in Client, d # c PROVE Advances(d)
    BY <1>2, <1>3, <1>7, OthersAdvance
  <1>8. QED
    BY <1>6, <1>7, AdvancesKeeps DEF DoubtInv

\* Handling a line, with a busy database or without.
LEMMA HandleAccounts ==
  ASSUME McpInv, EffectInv, DoubtInv, NEW c \in Client, Handle(c) \/ Busy(c)
  PROVE  DoubtInv'
  <1> DEFINE Moves == /\ outbox' = outbox
                      /\ \E x, y : job' = [job EXCEPT ![c] = [line |-> job[c].line, steps |-> x, on |-> y]]
             Finishes == \E ok \in BOOLEAN : Finish(c, ok)
             Noted == did' = did \/ \E what : Done(c, what)
  <1>1. UNCHANGED <<inbox, sent, got, lost>>
    BY DEF Handle, Busy
  <1>2. \A S : Go(c, S) \/ Past(c, S) => Moves
    BY GoMoves
  <1>3. Finish(c, TRUE) \/ Finish(c, FALSE) => Finishes
    OBVIOUS
  <1>4. (did' = did => Noted) /\ \A what : Done(c, what) => Noted
    OBVIOUS
  <1> HIDE DEF Moves, Finishes, Noted
  <1>5. job[c] # NoJob /\ Noted /\ (Moves \/ Finishes)
    <2>1. CASE Answer(c)
      BY <2>1, <1>3, <1>4 DEF Answer
    <2>2. CASE Refuse(c)
      BY <2>2, <1>3, <1>4, WorkingHasJob DEF Refuse
    <2>3. CASE Look(c)
      BY <2>3, <1>2, <1>4, WorkingHasJob DEF Look
    <2>4. CASE Insert(c)
      BY <2>4, <1>2, <1>4, WorkingHasJob DEF Insert
    <2>5. CASE Archive(c)
      BY <2>5, <1>2, <1>3, <1>4, WorkingHasJob DEF Archive
    <2>6. CASE Search(c)
      BY <2>6, <1>2, <1>4, WorkingHasJob DEF Search
    <2>7. CASE Touch(c)
      BY <2>7, <1>2, <1>4, WorkingHasJob DEF Touch
    <2>8. CASE Check(c)
      BY <2>8, <1>2, <1>3, <1>4, WorkingHasJob DEF Check
    <2>9. CASE Learn(c)
      BY <2>9, <1>2, <1>4, WorkingHasJob DEF Learn
    <2>10. CASE Busy(c)
      <3>1. job[c] # NoJob
        BY <2>10 DEF Busy, NoJob
      <3>2. did' = did /\ (Go(c, job[c].on) \/ Finish(c, FALSE))
        BY <2>10 DEF Busy
      <3>3. QED
        BY <1>2, <1>3, <1>4, <3>1, <3>2
    <2>11. QED
      BY <2>1, <2>2, <2>3, <2>4, <2>5, <2>6, <2>7, <2>8, <2>9, <2>10 DEF Handle
  <1>6. QED
    BY <1>1, <1>5, WorkAccounts DEF Moves, Finishes, Noted

\* Every step keeps the account.
LEMMA DoubtInvStep == McpInv /\ EffectInv /\ DoubtInv /\ [McpNext]_mcpVars => DoubtInv'
  <1> SUFFICES ASSUME McpInv, EffectInv, DoubtInv, [McpNext]_mcpVars PROVE DoubtInv'
    OBVIOUS
  <1>1. ASSUME NEW c \in Client, NEW line \in Lines, Send(c, line) PROVE DoubtInv'
    BY <1>1, SendAccounts
  <1>2. ASSUME NEW c \in Client, ReadAnswer(c) PROVE DoubtInv'
    <2>1. /\ outbox[c] # <<>> /\ got' = [got EXCEPT ![c] = Append(got[c], Head(outbox[c]))]
          /\ outbox' = [outbox EXCEPT ![c] = Tail(outbox[c])]
          /\ UNCHANGED <<inbox, job, sent, did, lost>>
      BY <1>2 DEF ReadAnswer
    <2>2. outbox[c] \in Seq(AnswerType) /\ got[c] \in Seq(AnswerType)
      BY DEF McpInv, McpTypes
    <2>3. Append(got[c], Head(outbox[c])) \o Tail(outbox[c]) = got[c] \o outbox[c]
      BY <2>1, <2>2, HeadMoves
    <2>4. got'[c] = Append(got[c], Head(outbox[c])) /\ outbox'[c] = Tail(outbox[c])
      BY <2>1 DEF McpInv, McpTypes
    <2>5. Answers(c)' = Answers(c) /\ Waiting(c)' = Waiting(c)
      BY <2>1, <2>3, <2>4 DEF Answers, Waiting
    <2>6. Advances(c)
      BY <2>1, <2>5 DEF Advances, Answered
    <2>7. ASSUME NEW d \in Client, d # c PROVE Advances(d)
      BY <2>1, <2>7, OthersAdvance DEF McpInv, McpTypes
    <2>8. QED
      BY <2>1, <2>6, <2>7, AdvancesKeeps DEF DoubtInv
  <1>3. ASSUME NEW c \in Client, ReadLine(c) \/ Handle(c) \/ Busy(c) PROVE DoubtInv'
    BY <1>3, ReadLineAccounts, HandleAccounts
  <1>4. ASSUME NEW c \in Client, Crash(c) PROVE DoubtInv'
    BY <1>4, EndAccounts DEF Crash
  <1>5. CASE (\E c \in Client : Restart(c)) \/ UNCHANGED mcpVars
    <2>1. UNCHANGED <<inbox, outbox, job, sent, got, did, lost>>
      BY <1>5 DEF Restart, mcpVars
    <2>2. \A d \in Client : Advances(d)
      BY <2>1, OthersAdvance
    <2>3. QED
      BY <2>1, <2>2, AdvancesKeeps DEF DoubtInv
  <1>6. QED
    BY <1>1, <1>2, <1>3, <1>4, <1>5 DEF McpNext

\* A client can count its answers: the next one it reads is to its first
\* request without an answer, for none is passed over, whatever fails.  And
\* when its server ends only the first of the lines that it left can have been
\* executed, so the others can be sent again without any doubt.
THEOREM McpAnswersCanBeCounted == McpSpec => []AnswersCanBeCounted
  <1>1. McpInit => McpInv /\ EffectInv /\ DoubtInv
    BY McpInvInit, EffectInvInit, DoubtInvInit
  <1>2. (McpInv /\ EffectInv /\ DoubtInv) /\ [McpNext]_mcpVars => (McpInv /\ EffectInv /\ DoubtInv)'
    BY McpInvStep, EffectInvStep, DoubtInvStep
  <1>3. ASSUME McpInv, EffectInv, DoubtInv PROVE AnswersCanBeCounted
    <2>1. ASSUME NEW c \in Client
          PROVE  {Answers(c)[i].line : i \in DOMAIN Answers(c)}
                   = Requests(c) \ (Waiting(c) \cup UNION lost[c])
      <3>1. InOrder(c) /\ Accounted(c) /\ LeftAlone(c)
        BY <1>3 DEF McpInv, DoubtInv
      <3>2. \A i \in DOMAIN Answers(c) : Answers(c)[i].line \in Requests(c)
        BY <3>1 DEF InOrder, Requests
      <3>3. \A k \in Waiting(c) \cup UNION lost[c] : ~Answered(c, k)
        BY <1>3, <3>1, WaitingFacts DEF LeftAlone
      <3>4. \A k : k \in {Answers(c)[i].line : i \in DOMAIN Answers(c)} <=> Answered(c, k)
        BY DEF Answered
      <3>5. \A k : Answered(c, k) => k \in Requests(c)
        BY <3>2 DEF Answered
      <3>6. QED
        BY <3>1, <3>3, <3>4, <3>5 DEF Accounted
    <2>2. AnswersInOrder
      BY <1>3, <2>1 DEF AnswersInOrder, McpInv, InOrder
    <2>3. FirstInDoubt
      BY <1>3, WaitingFacts DEF FirstInDoubt, DoubtInv, LeftAlone
    <2>4. QED
      BY <2>2, <2>3 DEF AnswersCanBeCounted
  <1>4. QED
    BY <1>1, <1>2, <1>3, PTL DEF McpSpec

-----------------------------------------------------------------------------
(* Two front ends.                                                         *)

\* Arguments the front ends share, and what each does without them.
SameDefaults(o) ==
  /\ DOMAIN CliTakes[o] = DOMAIN McpReads[o]
  /\ \A a \in DOMAIN CliTakes[o] :
       \/ a = "source" /\ CliTakes[o][a] \in Choice[a] /\ McpReads[o][a] \in Choice[a]
       \/ o = "recall" /\ a = "k" /\ CliTakes[o][a] = 8 /\ McpReads[o][a] = None
       \/ CliTakes[o][a] = McpReads[o][a]

\* What the server reads for each of its tools.
LEMMA ReadsOf ==
  /\ McpReads["write"] = WriteReads /\ McpReads["recall"] = RecallReads
  /\ McpReads["forget"] = <<>> /\ McpReads["reinforce"] = [event |-> "recalled"]
  /\ McpReads["latent"] = LatentReads /\ McpReads["latent_query"] = LatentQueryReads
  /\ McpReads["trace"] = TraceReads
  /\ McpReads["list"] = [limit |-> 20] /\ McpReads["entities"] = [limit |-> 50]
  /\ McpReads["neighbors"] = [k |-> 8]
  /\ McpReads["edges"] = [direction |-> "both", k |-> 20]
  BY DEF McpReads, InspectionReads, With

\* What the command line takes for each of its commands.
LEMMA TakesOf ==
  /\ CliTakes["recall"] = CliRecall
  /\ CliTakes["forget"] = <<>> /\ CliTakes["reinforce"] = [event |-> "recalled"]
  /\ CliTakes["latent"] = LatentReads /\ CliTakes["latent_query"] = LatentQueryReads
  /\ CliTakes["trace"] = TraceReads
  /\ CliTakes["list"] = [limit |-> 20] /\ CliTakes["entities"] = [limit |-> 50]
  /\ CliTakes["neighbors"] = [k |-> 8]
  /\ CliTakes["edges"] = [direction |-> "both", k |-> 20]
  /\ CliTakes["write"] = [kind |-> "fact", scope |-> "global", source |-> "explicit_user",
                          importance |-> None, confidence |-> None]
  BY DEF CliTakes, CliSpread, CliLatentQuery, CliTrace, LatentReads, LatentQueryReads, TraceReads,
         SpreadReads

\* The two tables of a recall differ in k.
LEMMA RecallsDiffer == RecallReads = [CliRecall EXCEPT !["k"] = None]
  <1> DEFINE numbers == {"scope", "kind", "graph_scale", "graph_cap", "graph_steps", "graph_decay",
                         "latent_seed_k", "latent_scale", "latent_cap", "latent_steps", "latent_decay",
                         "latent_fanout", "latent_state", "latent_goal", "reinforce_k"}
             flags == {"graph_activation", "latent_activation", "latent_auto_context", "reinforce"}
  <1>1. DOMAIN CliRecall = numbers \cup flags \cup {"k"} /\ DOMAIN RecallReads = DOMAIN CliRecall
    BY DEF CliRecall, RecallReads
  <1>2. \A a \in numbers : CliRecall[a] = RecallReads[a]
    BY DEF CliRecall, RecallReads
  <1>3. /\ CliRecall["graph_activation"] = RecallReads["graph_activation"]
        /\ CliRecall["latent_activation"] = RecallReads["latent_activation"]
        /\ CliRecall["latent_auto_context"] = RecallReads["latent_auto_context"]
        /\ CliRecall["reinforce"] = RecallReads["reinforce"]
    BY DEF CliRecall, RecallReads
  <1>4. \A a \in flags : CliRecall[a] = RecallReads[a]
    BY <1>3
  <1>5. RecallReads["k"] = None
    BY DEF RecallReads
  <1>6. /\ CliRecall = [a \in DOMAIN CliRecall |-> CliRecall[a]]
        /\ RecallReads = [a \in DOMAIN RecallReads |-> RecallReads[a]]
    BY DEF CliRecall, RecallReads
  <1> DEFINE C == CliRecall
             R == RecallReads
  <1> HIDE DEF C, R, numbers, flags
  <1>7. \A a \in DOMAIN C \ {"k"} : C[a] = R[a]
    BY <1>1, <1>2, <1>4 DEF C, R
  <1>8. /\ C = [a \in DOMAIN C |-> C[a]] /\ R = [a \in DOMAIN R |-> R[a]] /\ DOMAIN R = DOMAIN C /\ R["k"] = None
        /\ "k" \in DOMAIN C
    BY <1>1, <1>5, <1>6 DEF C, R
  <1>9. R = [C EXCEPT !["k"] = None]
    BY <1>7, <1>8
  <1>10. QED
    BY <1>9 DEF C, R

\* The tables agree but for the source of what is written and k of a recall.
LEMMA TablesAgree == \A o \in DOMAIN Advertised : SameDefaults(o)
  <1>1. DOMAIN Advertised = {"write", "recall", "list", "forget", "entities", "neighbors", "edges",
                             "reinforce", "latent", "latent_query", "trace"}
    BY DEF Advertised
  <1>2. SameDefaults("write")
    <2>1. CliTakes["write"] = [kind |-> "fact", scope |-> "global", source |-> "explicit_user",
                               importance |-> None, confidence |-> None]
      BY TakesOf
    <2>2. McpReads["write"] = [kind |-> "fact", scope |-> "global", source |-> "agent_self",
                               importance |-> None, confidence |-> None]
      BY ReadsOf DEF WriteReads
    <2>3. QED
      BY <2>1, <2>2 DEF SameDefaults, Choice
  <1>3. SameDefaults("recall")
    <2>1. CliTakes["recall"] = CliRecall /\ McpReads["recall"] = RecallReads
      BY ReadsOf, TakesOf
    <2>2. RecallReads = [CliRecall EXCEPT !["k"] = None]
      BY RecallsDiffer
    <2>3. "k" \in DOMAIN CliRecall /\ CliRecall["k"] = 8
      BY DEF CliRecall
    <2> DEFINE R == CliRecall
    <2> HIDE DEF R
    <2>4. CliTakes["recall"] = R /\ McpReads["recall"] = [R EXCEPT !["k"] = None] /\ "k" \in DOMAIN R /\ R["k"] = 8
      BY <2>1, <2>2, <2>3 DEF R
    <2>5. QED
      BY <2>4 DEF SameDefaults
  <1>4. \A o \in DOMAIN Advertised \ {"write", "recall"} : CliTakes[o] = McpReads[o]
    BY <1>1, ReadsOf, TakesOf
  <1>5. QED
    BY <1>2, <1>3, <1>4 DEF SameDefaults

\* What the schemas advertise is what the server reads, but for k of a recall.
AsAdvertised(o) ==
  \A a \in DOMAIN Advertised[o] \cap DOMAIN McpReads[o] :
     \/ o = "recall" /\ a = "k" /\ McpReads[o][a] = None /\ Advertised[o][a] = 8
     \/ ~(o = "recall" /\ a = "k") /\ McpReads[o][a] = Advertised[o][a]

LEMMA SchemasAgree == \A o \in DOMAIN Advertised : AsAdvertised(o)
  <1>1. DOMAIN Advertised = {"write", "recall", "list", "forget", "entities", "neighbors", "edges",
                             "reinforce", "latent", "latent_query", "trace"}
    BY DEF Advertised
  <1>2. \A o \in {"list", "forget", "entities", "neighbors", "edges", "reinforce"} :
          Advertised[o] = McpReads[o]
    BY ReadsOf DEF Advertised
  <1>3. Advertised["write"] = McpReads["write"]
    BY ReadsOf DEF Advertised, WriteReads
  <1>4. McpReads["recall"] = [Advertised["recall"] EXCEPT !["k"] = None] /\ Advertised["recall"]["k"] = 8
    <2>1. Advertised["recall"] = CliRecall /\ CliRecall["k"] = 8
      BY DEF Advertised, CliRecall
    <2>2. QED
      BY <2>1, ReadsOf, RecallsDiffer
  <1>5. Advertised["latent_query"] = With(SpreadReads, [k |-> 10, seed_k |-> 3, scope |-> None, kind |-> None])
    BY DEF Advertised, SpreadDefaults, SpreadReads
  <1>6. Advertised["latent"] = With(SpreadReads, [k |-> 10, auto_context |-> FALSE])
    BY DEF Advertised, SpreadDefaults, SpreadReads
  <1>7. Advertised["trace"] = TraceReads
    BY DEF Advertised, SpreadDefaults, SpreadReads, TraceReads
  <1>8. ASSUME NEW table, NEW few, NEW more, \A a \in DOMAIN few \cap DOMAIN more : few[a] = more[a]
        PROVE  \A a \in DOMAIN With(table, few) \cap DOMAIN With(table, more) :
                  With(table, few)[a] = With(table, more)[a]
    BY <1>8 DEF With
  <1>9. AsAdvertised("latent_query")
    <2> DEFINE few == [k |-> 10, seed_k |-> 3, scope |-> None, kind |-> None]
               more == [k |-> 10, seed_k |-> 3, scope |-> None, kind |-> None, auto_context |-> FALSE]
    <2>1. \A a \in DOMAIN few \cap DOMAIN more : few[a] = more[a]
      OBVIOUS
    <2>2. Advertised["latent_query"] = With(SpreadReads, few)
          /\ McpReads["latent_query"] = With(SpreadReads, more)
      BY <1>5, ReadsOf DEF LatentQueryReads
    <2> HIDE DEF few, more
    <2>3. QED
      BY <1>8, <2>1, <2>2 DEF AsAdvertised
  <1>10. AsAdvertised("latent")
    <2> DEFINE few == [k |-> 10, auto_context |-> FALSE]
               more == [k |-> 10]
    <2>1. \A a \in DOMAIN few \cap DOMAIN more : few[a] = more[a]
      OBVIOUS
    <2>2. Advertised["latent"] = With(SpreadReads, few) /\ McpReads["latent"] = With(SpreadReads, more)
      BY <1>6, ReadsOf DEF LatentReads
    <2> HIDE DEF few, more
    <2>3. QED
      BY <1>8, <2>1, <2>2 DEF AsAdvertised
  <1>11. AsAdvertised("recall")
    <2> DEFINE R == Advertised["recall"]
    <2> HIDE DEF R
    <2>1. McpReads["recall"] = [R EXCEPT !["k"] = None] /\ R["k"] = 8 /\ Advertised["recall"] = R
      BY <1>4 DEF R
    <2>2. QED
      BY <2>1 DEF AsAdvertised
  <1>12. AsAdvertised("trace") /\ AsAdvertised("write")
    BY <1>3, <1>7, ReadsOf DEF AsAdvertised
  <1>13. QED
    BY <1>1, <1>2, <1>9, <1>10, <1>11, <1>12 DEF AsAdvertised

-----------------------------------------------------------------------------
(* What a request comes to, as a function of what it asks.                 *)

FeForgets == op = "forget" /\ world.gone = 1

\* What the store, the engine or a probe does, and what is learned from it.
Worked(f) == {<<"touch", m>> : m \in Touched(Params(f))} \cup IF op \in {"write", "forget"} THEN {<<op, 1>>} ELSE {}
Learned(f) == {<<"learn", m>> : m \in ToLearn(Params(f))}

FeResult(f) ==
  IF Refuses(f) THEN [out |-> "refused", effects |-> {}]
  ELSE IF FeForgets THEN [out |-> "error", effects |-> {}]
  ELSE IF world.gone \in ToLearn(Params(f)) THEN [out |-> "error", effects |-> Worked(f)]
  ELSE [out |-> "shown", effects |-> Worked(f) \cup Learned(f)]

\* A front end that is at a step has passed the ones before it.
Progress(f) ==
  \/ stage[f] = "parse" /\ out[f] = "running" /\ effects[f] = {}
  \/ stage[f] = "work" /\ out[f] = "running" /\ effects[f] = {} /\ ~Refuses(f)
  \/ stage[f] = "learn" /\ out[f] = "running" /\ effects[f] = Worked(f) /\ ~Refuses(f) /\ ~FeForgets
  \/ /\ stage[f] = "show" /\ out[f] = "running" /\ effects[f] = Worked(f) \cup Learned(f)
     /\ ~Refuses(f) /\ ~FeForgets /\ world.gone \notin ToLearn(Params(f))
  \/ stage[f] = "end" /\ out[f] = FeResult(f).out /\ effects[f] = FeResult(f).effects

FeInv ==
  /\ op \in DOMAIN Advertised
  /\ DOMAIN stage = FrontEnd /\ DOMAIN out = FrontEnd /\ DOMAIN effects = FrontEnd
  /\ \A f \in FrontEnd : Progress(f)

LEMMA FeInvInit == FeInit => FeInv
  BY DEF FeInit, FeInv, Progress

\* What a request asks stays the same.
FeKept(f) ==
  /\ (Refuses(f)' <=> Refuses(f))
  /\ Touched(Params(f))' = Touched(Params(f)) /\ ToLearn(Params(f))' = ToLearn(Params(f))
  /\ op' = op /\ world' = world
  /\ Worked(f)' = Worked(f) /\ Learned(f)' = Learned(f)
  /\ FeResult(f)' = FeResult(f) /\ (FeForgets' <=> FeForgets)

LEMMA RequestKept ==
  ASSUME UNCHANGED <<op, given, missing, world>>, NEW f \in FrontEnd
  PROVE  FeKept(f)
  <1>1. (Refuses(f)' <=> Refuses(f)) /\ Params(f)' = Params(f)
    BY DEF Refuses, Params
  <1>2. Touched(Params(f))' = Touched(Params(f))
    BY <1>1 DEF Touched, Hits, First
  <1>3. ToLearn(Params(f))' = ToLearn(Params(f))
    BY <1>1 DEF ToLearn, Hits, First
  <1>4. Worked(f)' = Worked(f) /\ Learned(f)' = Learned(f) /\ (FeForgets' <=> FeForgets)
    BY <1>2, <1>3 DEF Worked, Learned, FeForgets
  <1>5. FeResult(f)' = FeResult(f)
    BY <1>1, <1>3, <1>4 DEF FeResult
  <1>6. QED
    BY <1>1, <1>2, <1>3, <1>4, <1>5 DEF FeKept

LEMMA FeInvStep == FeInv /\ [FeNext]_feVars => FeInv'
  <1> SUFFICES ASSUME FeInv, [FeNext]_feVars PROVE FeInv'
    OBVIOUS
  <1>1. CASE UNCHANGED feVars
    <2>1. UNCHANGED <<op, given, missing, world, stage, out, effects>>
      BY <1>1 DEF feVars
    <2>2. \A f \in FrontEnd : FeKept(f)
      BY <2>1, RequestKept
    <2>3. QED
      BY <2>1, <2>2 DEF FeInv, Progress, FeKept
  <1>2. CASE FeNext
    <2>1. PICK f \in FrontEnd : Parse(f) \/ Work(f) \/ LearnFrom(f) \/ Show(f)
      BY <1>2 DEF FeNext
    <2>2. UNCHANGED <<op, given, missing, world>>
      BY <2>1 DEF Parse, Work, LearnFrom, Show, Step
    <2>3. \A g \in FrontEnd : FeKept(g)
      BY <2>2, RequestKept
    <2>4. Progress(f) /\ f \in DOMAIN stage /\ f \in DOMAIN out /\ f \in DOMAIN effects
      BY DEF FeInv
    <2>5. Progress(f)' /\ (\A g \in FrontEnd \ {f} : stage'[g] = stage[g] /\ out'[g] = out[g] /\ effects'[g] = effects[g])
          /\ DOMAIN stage' = FrontEnd /\ DOMAIN out' = FrontEnd /\ DOMAIN effects' = FrontEnd
      <3>1. CASE Parse(f)
        BY <2>2, <2>3, <2>4, <3>1 DEF Parse, At, Step, EndsAs, Progress, FeResult, FeInv, FeKept
      <3>2. CASE Work(f)
        <4>1. stage[f] = "work" /\ out[f] = "running" /\ effects[f] = {} /\ ~Refuses(f)
          BY <2>4, <3>2 DEF Work, At, Progress
        <4>2. CASE FeForgets
          <5>1. stage' = [stage EXCEPT ![f] = "end"] /\ out' = [out EXCEPT ![f] = "error"] /\ effects' = effects
            BY <3>2, <4>2 DEF Work, Step, EndsAs, FeForgets
          <5>2. FeResult(f) = [out |-> "error", effects |-> {}]
            BY <4>1, <4>2 DEF FeResult
          <5>3. QED
            BY <2>3, <2>4, <4>1, <5>1, <5>2 DEF Progress, FeInv, FeKept
        <4>3. CASE ~FeForgets
          <5>1. stage' = [stage EXCEPT ![f] = "learn"] /\ out' = out /\ effects' = [effects EXCEPT ![f] = @ \cup Worked(f)]
            BY <3>2, <4>3 DEF Work, Step, Does, FeForgets, Worked
          <5>2. QED
            BY <2>3, <2>4, <4>1, <4>3, <5>1 DEF Progress, FeInv, FeKept
        <4>4. QED
          BY <4>2, <4>3
      <3>3. CASE LearnFrom(f)
        BY <2>2, <2>3, <2>4, <3>3 DEF LearnFrom, At, Step, EndsAs, Does, Progress, FeResult, FeInv, Learned, FeKept
      <3>4. CASE Show(f)
        BY <2>2, <2>3, <2>4, <3>4 DEF Show, At, Step, EndsAs, Progress, FeResult, FeInv, FeKept
      <3>5. QED
        BY <2>1, <3>1, <3>2, <3>3, <3>4
    <2>6. \A g \in FrontEnd \ {f} : Progress(g)'
      BY <2>2, <2>3, <2>5 DEF FeInv, Progress, FeKept
    <2>7. QED
      BY <2>2, <2>5, <2>6 DEF FeInv
  <1>3. QED
    BY <1>1, <1>2

\* A request that both front ends know and can read.
Shared == Readable /\ DOMAIN given \subseteq DOMAIN McpReads[op] \cap DOMAIN CliTakes[op]

\* The parameters of a shared request, in the two front ends.
LEMMA ParamsAgree ==
  ASSUME FeInv, Shared
  PROVE  /\ DOMAIN Params("cli") = DOMAIN Params("mcp") /\ DOMAIN Params("cli") = DOMAIN CliTakes[op]
         /\ \A a \in DOMAIN Params("cli") :
              \/ a = "source" /\ Params("cli")[a] \in Choice[a] /\ Params("mcp")[a] \in Choice[a]
              \/ op = "recall" /\ a = "k" /\ Params("cli")[a] = 8 /\ Params("mcp")[a] = None
              \/ Params("cli")[a] = Params("mcp")[a]
  <1> DEFINE C == CliTakes[op]
             M == McpReads[op]
  <1>1. DOMAIN C = DOMAIN M
        /\ \A a \in DOMAIN C : \/ a = "source" /\ C[a] \in Choice[a] /\ M[a] \in Choice[a]
                               \/ op = "recall" /\ a = "k" /\ C[a] = 8 /\ M[a] = None
                               \/ C[a] = M[a]
    BY TablesAgree DEF FeInv, SameDefaults
  <1>2. Params("cli") = [a \in DOMAIN C |-> IF a \in DOMAIN given THEN given[a] ELSE C[a]]
    BY DEF Params, CliParams
  <1>3. Params("mcp") = [a \in DOMAIN M |-> IF a \in DOMAIN given /\ given[a] # Unreadable THEN given[a] ELSE M[a]]
    BY DEF Params, McpParams
  <1>4. \A a \in DOMAIN given : given[a] # Unreadable
    BY DEF Shared, Readable
  <1> HIDE DEF C, M
  <1>5. \A a \in DOMAIN C : a \in DOMAIN given => Params("cli")[a] = Params("mcp")[a]
    BY <1>1, <1>2, <1>3, <1>4
  <1>6. \A a \in DOMAIN C : a \notin DOMAIN given => Params("cli")[a] = C[a] /\ Params("mcp")[a] = M[a]
    BY <1>1, <1>2, <1>3, <1>4
  <1>7. DOMAIN Params("cli") = DOMAIN C /\ DOMAIN Params("mcp") = DOMAIN M
    BY <1>2, <1>3
  <1>8. QED
    BY <1>1, <1>5, <1>6, <1>7 DEF C

\* Both front ends refuse a shared request, or neither does.
LEMMA BothRefuse ==
  ASSUME FeInv, Shared
  PROVE  Refuses("cli") <=> Refuses("mcp")
  <1>1. Refuses("cli") <=> missing \/ BadChoice(Params("cli"))
    BY DEF Refuses, CliRefuses, Params, Shared, Readable
  <1>2. Refuses("mcp") <=> missing \/ BadChoice(Params("mcp"))
    BY DEF Refuses, McpRefuses, Params
  <1>3. BadChoice(Params("cli")) <=> BadChoice(Params("mcp"))
    <2> DEFINE P == Params("cli")
               Q == Params("mcp")
    <2>1. DOMAIN P = DOMAIN Q
          /\ \A a \in DOMAIN P : \/ a = "source" /\ P[a] \in Choice[a] /\ Q[a] \in Choice[a]
                                 \/ a = "k" \/ P[a] = Q[a]
      BY ParamsAgree
    <2>2. "k" \notin DOMAIN Choice
      BY DEF Choice
    <2> HIDE DEF P, Q
    <2>3. \A a \in DOMAIN P \cap DOMAIN Choice : P[a] \in Choice[a] \cup {None} <=> Q[a] \in Choice[a] \cup {None}
      BY <2>1, <2>2
    <2>4. BadChoice(P) <=> BadChoice(Q)
      BY <2>1, <2>3 DEF BadChoice
    <2>5. QED
      BY <2>4 DEF P, Q
  <1>4. QED
    BY <1>1, <1>2, <1>3

\* The arguments that the work and the learning of a command look at.
LEMMA LookedAt ==
  /\ op \in {"recall", "trace"} /\ FeInv => {"k", "reinforce", "reinforce_k"} \subseteq DOMAIN CliTakes[op]
  /\ op = "latent_query" /\ FeInv => {"k", "seed_k"} \subseteq DOMAIN CliTakes[op]
  <1>1. {"k", "reinforce", "reinforce_k"} \subseteq DOMAIN CliRecall
    BY DEF CliRecall
  <1>2. {"k", "reinforce", "reinforce_k"} \subseteq DOMAIN TraceReads
    BY DEF TraceReads, With
  <1>3. {"k", "seed_k"} \subseteq DOMAIN LatentQueryReads
    BY DEF LatentQueryReads, With
  <1>4. QED
    BY <1>1, <1>2, <1>3, TakesOf

\* A shared request comes to the same in both front ends.
LEMMA ResultsAgree ==
  ASSUME FeInv, Shared
  PROVE  FeResult("cli") = FeResult("mcp")
  <1> DEFINE P == Params("cli")
             Q == Params("mcp")
  <1>1. DOMAIN P = DOMAIN CliTakes[op]
        /\ \A a \in DOMAIN P : \/ a = "source" \/ P[a] = Q[a]
                               \/ op = "recall" /\ a = "k" /\ P[a] = 8 /\ Q[a] = None
    BY ParamsAgree
  <1> HIDE DEF P, Q
  <1>2. op \in {"recall", "trace"} => P.reinforce = Q.reinforce /\ P.reinforce_k = Q.reinforce_k
    BY <1>1, LookedAt
  <1>3. op \in {"recall", "trace"} => Hits(P.k) = Hits(Q.k)
    <2>1. op \in {"recall", "trace"} => P.k = Q.k \/ (P.k = 8 /\ Q.k = None)
      BY <1>1, LookedAt
    <2>2. Hits(8) = Hits(None)
      BY DEF Hits
    <2>3. QED
      BY <2>1, <2>2
  <1>4. op = "latent_query" => P.k = Q.k /\ P.seed_k = Q.seed_k
    BY <1>1, LookedAt
  <1>5. Touched(P) = Touched(Q)
    BY <1>3, <1>4 DEF Touched
  <1>6. ToLearn(P) = ToLearn(Q)
    BY <1>2, <1>3 DEF ToLearn
  <1>7. Worked("cli") = Worked("mcp") /\ Learned("cli") = Learned("mcp")
    BY <1>5, <1>6 DEF Worked, Learned, P, Q
  <1>8. QED
    BY <1>6, <1>7, BothRefuse DEF FeResult, P, Q

\* Arguments and defaults are written three times and agree: a request that
\* both front ends know has the same end, parameters and effects in both, and
\* what a client leaves out has the value the schema advertises, whatever the
\* amounts and however many memories a query finds.
THEOREM RequestsDoTheSame == FeSpec => []SameRequestSameWork
  <1>1. FeInv => SameRequestSameWork
    <2> SUFFICES ASSUME FeInv PROVE SameRequestSameWork
      OBVIOUS
    <2>1. ASSUME Ended, Shared
          PROVE  /\ out["cli"] = out["mcp"] /\ effects["cli"] = effects["mcp"]
                 /\ \A a \in DOMAIN Params("cli") \ {"source"} :
                      Meaning(a, Params("cli")[a]) = Meaning(a, Params("mcp")[a])
      <3>1. \A f \in FrontEnd : out[f] = FeResult(f).out /\ effects[f] = FeResult(f).effects
        BY <2>1 DEF FeInv, Progress, Ended
      <3>2. out["cli"] = out["mcp"] /\ effects["cli"] = effects["mcp"]
        BY <2>1, <3>1, ResultsAgree DEF FrontEnd
      <3>3. \A a \in DOMAIN Params("cli") \ {"source"} :
              \/ Params("cli")[a] = Params("mcp")[a]
              \/ op = "recall" /\ a = "k" /\ Params("cli")[a] = 8 /\ Params("mcp")[a] = None
        BY <2>1, ParamsAgree
      <3>4. QED
        BY <3>2, <3>3 DEF Meaning
    <2>2. ASSUME NEW a \in DOMAIN Advertised[op] \cap DOMAIN Params("mcp"),
                 a \notin DOMAIN given \/ given[a] = Unreadable
          PROVE  Meaning(a, Params("mcp")[a]) = Advertised[op][a]
      <3>1. a \in DOMAIN McpReads[op] /\ Params("mcp")[a] = McpReads[op][a]
        BY <2>2 DEF Params, McpParams
      <3>2. \/ op = "recall" /\ a = "k" /\ McpReads[op][a] = None /\ Advertised[op][a] = 8
            \/ ~(op = "recall" /\ a = "k") /\ McpReads[op][a] = Advertised[op][a]
        BY <3>1, SchemasAgree DEF FeInv, AsAdvertised
      <3>3. QED
        BY <3>1, <3>2 DEF Meaning
    <2>3. QED
      BY <2>1, <2>2 DEF SameRequestSameWork, Shared
  <1>2. QED
    BY <1>1, FeInvInit, FeInvStep, PTL DEF FeSpec
===============================================================================
