------------------------------ MODULE McpServer ------------------------------
(***************************************************************************)
(* The MCP server (crates/mcp-server/src): JSON-RPC 2.0 over stdio, one    *)
(* request per line.  Each client has a server process of its own, and all *)
(* servers have the same database.  A server reads a line, executes it to  *)
(* its end, transaction by transaction, writes the answer, and only then   *)
(* reads the next line.  The pipes between client and server hold only so  *)
(* many lines.  A server may die; its client starts another and may send   *)
(* again what was not answered.                                            *)
(***************************************************************************)
EXTENDS Integers, Sequences, FiniteSets, Subsequences

CONSTANTS
  Client,
  Memories,     \* the memories of the database at the start
  Lines,        \* bound: what clients send, see LineTypes
  Pipe,         \* lines a pipe holds
  MaxSends,     \* bound: lines each client sends
  MaxFaults     \* bound: crashes and busy answers of the database

\* A line is blank, no JSON, no UTF-8, or a request: with an id or without,
\* a tool and its target memories, arguments that can be read or not.
LineTypes ==
  [type : {"blank", "no json", "no utf8"}]
    \cup [type : {"call"}, id : BOOLEAN, readable : BOOLEAN,
          tool : {"info", "unknown", "read", "write", "forget", "recall",
                  "recall and reinforce", "reinforce", "latent query",
                  "trace", "trace, reinforce and predict"},
          on : SUBSET Memories]

\* A call to forget names one memory.
ASSUME McpConstants ==
  /\ Lines \subseteq LineTypes
  /\ \A line \in Lines : line.type = "call" /\ line.tool = "forget" =>
       \E m \in Memories : line.on = {m}
  /\ Pipe \in Nat \ {0} /\ MaxSends \in Nat /\ MaxFaults \in Nat

VARIABLES
  inbox, outbox, \* the pipes of each client: numbers of lines; answers
  up,            \* the server of a client runs
  job,           \* the line a server works on, the steps it still has to do
                 \* and the memories it does them to
  active         \* the database: memories that are not forgotten

(* The clients and history, not part of the program.                       *)
VARIABLES
  sent,          \* the lines each client has sent, by number
  got,           \* the answers each client has read
  did,           \* what the handling of each line has done to the database
  lost,          \* what each server that ended has left: sets of lines
  faults

mcpVars == <<inbox, outbox, up, job, active, sent, got, did, lost, faults>>

NoJob == [line |-> 0, steps |-> <<>>, on |-> {}]

McpInit ==
  /\ inbox = [c \in Client |-> <<>>] /\ outbox = [c \in Client |-> <<>>]
  /\ up = [c \in Client |-> TRUE]
  /\ job = [c \in Client |-> NoJob]
  /\ active = Memories
  /\ sent = [c \in Client |-> <<>>] /\ got = [c \in Client |-> <<>>]
  /\ did = [c \in Client |-> [k \in 1 .. MaxSends |-> {}]]
  /\ lost = [c \in Client |-> {}]
  /\ faults = 0

LineOf(c, k) == sent[c][k]

-----------------------------------------------------------------------------
(* The client.                                                             *)

\* A client sends a line.
Send(c, line) ==
  /\ Len(sent[c]) < MaxSends /\ Len(inbox[c]) < Pipe /\ up[c]
  /\ sent' = [sent EXCEPT ![c] = Append(@, line)]
  /\ inbox' = [inbox EXCEPT ![c] = Append(@, Len(sent[c]) + 1)]
  /\ UNCHANGED <<outbox, up, job, active, got, did, lost, faults>>

\* It reads an answer.
ReadAnswer(c) ==
  /\ outbox[c] # <<>>
  /\ got' = [got EXCEPT ![c] = Append(@, Head(outbox[c]))]
  /\ outbox' = [outbox EXCEPT ![c] = Tail(@)]
  /\ UNCHANGED <<inbox, up, job, active, sent, did, lost, faults>>

\* It reads what its server has written before it ended, and starts another.
Restart(c) ==
  /\ ~up[c] /\ outbox[c] = <<>>
  /\ up' = [up EXCEPT ![c] = TRUE]
  /\ UNCHANGED <<inbox, outbox, job, active, sent, got, did, lost, faults>>

-----------------------------------------------------------------------------
(* The server.                                                             *)

\* The transactions of a tool, after its arguments are read.  A trace
\* recalls for the visible memories; then reinforcement comes before
\* prediction.
StepsOf(tool) ==
  CASE tool \in {"info", "read"}       -> <<"look">>
    [] tool = "write"                  -> <<"insert">>
    [] tool = "forget"                 -> <<"archive">>
    [] tool = "recall"                 -> <<"search", "touch">>
    [] tool \in {"latent query", "trace"} -> <<"search", "touch", "look">>
    [] tool = "recall and reinforce"   -> <<"search", "touch", "check", "learn">>
    [] tool = "trace, reinforce and predict" ->
         <<"search", "touch", "look", "check", "learn", "look">>
    [] tool = "reinforce"              -> <<"check", "learn">>
    [] tool = "unknown"                -> <<"refuse">>

\* The next line and the lines behind it.
Take(c) == [line |-> Head(inbox[c]), rest |-> Tail(inbox[c])]

\* The lines a server has before it: the one it works on, and the pipe.
Waiting(c) == {inbox[c][j] : j \in DOMAIN inbox[c]} \cup ({job[c].line} \ {0})

\* The server ends, and what it has before it is lost; what it has written
\* stays in the pipe.
End(c) ==
  /\ up' = [up EXCEPT ![c] = FALSE]
  /\ job' = [job EXCEPT ![c] = NoJob]
  /\ inbox' = [inbox EXCEPT ![c] = <<>>]
  /\ lost' = [lost EXCEPT ![c] = @ \cup {Waiting(c)}]
  /\ UNCHANGED outbox

\* The main loop: blank lines and bad JSON are passed over, a line that is
\* no UTF-8 ends the server, and the arguments of a request are read before
\* anything is done.
ReadLine(c) ==
  /\ up[c] /\ job[c] = NoJob /\ inbox[c] # <<>>
  /\ LET k == Take(c).line  line == LineOf(c, k) IN
       \/ /\ line.type = "no utf8"
          /\ End(c)
       \/ /\ line.type \in {"blank", "no json"}
          /\ inbox' = [inbox EXCEPT ![c] = Take(c).rest]
          /\ UNCHANGED <<outbox, up, job, lost>>
       \/ /\ line.type = "call"
          /\ inbox' = [inbox EXCEPT ![c] = Take(c).rest]
          /\ job' = [job EXCEPT ![c] =
               [line |-> k, on |-> line.on,
                steps |-> IF line.readable THEN StepsOf(line.tool) ELSE <<"refuse">>]]
          /\ UNCHANGED <<outbox, up, lost>>
  /\ UNCHANGED <<active, sent, got, did, faults>>

\* Mutant: an error ends the handling of the line, and nothing is written.
FinishOnlyWell(c, ok) ==
  LET k == job[c].line  told == LineOf(c, k).id /\ ok IN
    /\ told => Len(outbox[c]) < Pipe
    /\ outbox' = IF told THEN [outbox EXCEPT ![c] = Append(@, [line |-> k, ok |-> ok])] ELSE outbox
    /\ job' = [job EXCEPT ![c] = NoJob]

\* The answer is written; a notification has none.
Finish(c, ok) ==
  LET k == job[c].line IN
    /\ LineOf(c, k).id => Len(outbox[c]) < Pipe
    /\ outbox' = IF LineOf(c, k).id
                 THEN [outbox EXCEPT ![c] = Append(@, [line |-> k, ok |-> ok])] ELSE outbox
    /\ job' = [job EXCEPT ![c] = NoJob]

\* The next step, done to the memories S.
Go(c, S) ==
  /\ job' = [job EXCEPT ![c] = [line |-> @.line, steps |-> Tail(@.steps), on |-> S]]
  /\ UNCHANGED outbox

\* What the line did is recorded.
Done(c, what) ==
  did' = [did EXCEPT ![c][job[c].line] = @ \cup {what}]

\* Skips the rest of a reinforcement.
Past(c, S) ==
  LET rest == Tail(job[c].steps)
      kept == {i \in DOMAIN rest : rest[i] \notin {"check", "learn"}}
  IN  /\ job' = [job EXCEPT ![c] = [line |-> @.line, on |-> S, steps |-> Picked(rest, kept)]]
      /\ UNCHANGED outbox

\* The step a server is at.
Next1(c) == Head(job[c].steps)
Working(c, step) == up[c] /\ job[c].steps # <<>> /\ Next1(c) = step

\* All steps are done.
Answer(c) ==
  /\ up[c] /\ job[c] # NoJob /\ job[c].steps = <<>>
  /\ Finish(c, TRUE)
  /\ UNCHANGED <<active, did>>

\* Unreadable arguments and unknown tools are errors.
Refuse(c) == Working(c, "refuse") /\ Finish(c, FALSE) /\ UNCHANGED <<active, did>>

\* Reading the database.
Look(c) == Working(c, "look") /\ Go(c, job[c].on) /\ UNCHANGED <<active, did>>

\* Store::write.
Insert(c) == Working(c, "insert") /\ Go(c, {}) /\ Done(c, "insert") /\ UNCHANGED active

\* Store::invalidate: a memory that is not active is not found.
Archive(c) ==
  /\ Working(c, "archive")
  /\ \/ /\ job[c].on \subseteq active
        /\ Go(c, job[c].on) /\ Done(c, "archive")
        /\ active' = active \ job[c].on
     \/ /\ ~(job[c].on \subseteq active)
        /\ Finish(c, FALSE) /\ UNCHANGED <<active, did>>

\* The hits are some of the active memories.
Search(c) ==
  /\ Working(c, "search")
  /\ \E hits \in SUBSET active : Go(c, hits)
  /\ UNCHANGED <<active, did>>

\* record_access counts the access also of a memory forgotten meanwhile.
Touch(c) ==
  /\ Working(c, "touch")
  /\ IF Cardinality(job[c].on) < 2 THEN Past(c, job[c].on) ELSE Go(c, job[c].on)
  /\ IF job[c].on = {} THEN UNCHANGED did ELSE Done(c, "touch")
  /\ UNCHANGED active

\* Mutant: what is found active is already reinforced.
CheckAndLearn(c) ==
  /\ Working(c, "check")
  /\ IF job[c].on \subseteq active THEN Go(c, job[c].on) ELSE Finish(c, FALSE)
  /\ IF Cardinality(job[c].on \cap active) >= 1 THEN Done(c, "learn") ELSE UNCHANGED did
  /\ UNCHANGED active

\* reinforce_memory_ids: an inactive memory is an error.
Check(c) ==
  /\ Working(c, "check")
  /\ IF job[c].on \subseteq active THEN Go(c, job[c].on) ELSE Finish(c, FALSE)
  /\ UNCHANGED <<active, did>>

\* Edges with an end that was forgotten since are skipped, and reported so
\* within a good answer.
Learn(c) ==
  /\ Working(c, "learn")
  /\ IF job[c].on \subseteq active THEN Done(c, "learn") ELSE UNCHANGED did
  /\ Go(c, job[c].on)
  /\ UNCHANGED active

Handle(c) ==
  /\ \/ Answer(c) \/ Refuse(c) \/ Look(c) \/ Insert(c) \/ Archive(c)
     \/ Search(c) \/ Touch(c) \/ Check(c) \/ Learn(c)
  /\ UNCHANGED <<inbox, up, sent, got, lost, faults>>

-----------------------------------------------------------------------------
(* Faults.                                                                 *)

\* The database is busy for too long: an error, but in the execution of
\* edges, where it is one more skipped mutation.
Busy(c) ==
  /\ faults < MaxFaults /\ faults' = faults + 1
  /\ up[c] /\ job[c].steps # <<>> /\ Next1(c) \in {"insert", "archive", "touch", "learn"}
  /\ IF Next1(c) = "learn" THEN Go(c, job[c].on) ELSE Finish(c, FALSE)
  /\ UNCHANGED <<inbox, up, active, sent, got, did, lost>>

\* The server dies.
Crash(c) ==
  /\ faults < MaxFaults /\ faults' = faults + 1
  /\ up[c]
  /\ End(c)
  /\ UNCHANGED <<active, sent, got, did>>

McpNext ==
  \E c \in Client :
    \/ \E line \in Lines : Send(c, line)
    \/ ReadAnswer(c) \/ Restart(c)
    \/ ReadLine(c) \/ Handle(c)
    \/ Busy(c) \/ Crash(c)

McpSpec == McpInit /\ [][McpNext]_mcpVars

\* A server goes on reading and working; a client goes on reading answers,
\* and starts a server that ended.
McpFairness ==
  \A c \in Client : /\ WF_mcpVars(ReadLine(c) \/ Handle(c))
                    /\ WF_mcpVars(ReadAnswer(c))
                    /\ WF_mcpVars(Restart(c))

McpFairSpec == McpSpec /\ McpFairness

-----------------------------------------------------------------------------
(* Properties.                                                             *)

Answers(c) == got[c] \o outbox[c]
Answered(c, k) == \E i \in DOMAIN Answers(c) : Answers(c)[i].line = k
AnsweredWith(c, k, ok) == \E i \in DOMAIN Answers(c) : Answers(c)[i] = [line |-> k, ok |-> ok]

\* A server that ended has no work, and a new one starts without lines.
McpTypeOK ==
  /\ active \subseteq Memories
  /\ \A c \in Client :
       /\ Len(inbox[c]) <= Pipe /\ Len(outbox[c]) <= Pipe
       /\ ~up[c] => job[c] = NoJob /\ inbox[c] = <<>>
       /\ job[c].line \in 0 .. Len(sent[c])
       /\ \A k \in 1 .. MaxSends : did[c][k] \subseteq {"insert", "archive", "touch", "learn"}

Requests(c) == {k \in DOMAIN sent[c] : sent[c][k].type = "call" /\ sent[c][k].id}

\* Requests are answered in the order in which they were sent, each once, and
\* none that a server has taken up is passed over, but the one it ended at;
\* what has no id or is no request is not answered.  So the next answer a
\* client reads is the one to its first request without an answer.
AnswersInOrder ==
  \A c \in Client :
    /\ \A i, j \in DOMAIN Answers(c) : i < j => Answers(c)[i].line < Answers(c)[j].line
    /\ {Answers(c)[i].line : i \in DOMAIN Answers(c)}
         = Requests(c) \ (Waiting(c) \cup UNION lost[c])

\* A good answer is given after its effect is committed, and an error means
\* that nothing was written, archived or learned, whatever other servers did
\* between the steps of the call; only accesses may have been counted.  And of
\* all the calls to forget a memory, by all clients, retries included, one has
\* done it, so no two are told that they have.
AnswersTellTheEffect ==
  /\ \A c \in Client : \A k \in DOMAIN sent[c] :
       /\ AnsweredWith(c, k, TRUE) =>
            /\ sent[c][k].tool = "write" => "insert" \in did[c][k]
            /\ sent[c][k].tool = "forget" => "archive" \in did[c][k]
       /\ AnsweredWith(c, k, FALSE) => did[c][k] \subseteq {"touch"}
  /\ \A m \in Memories :
       Cardinality(UNION {{<<c, k>> : k \in {j \in DOMAIN sent[c] :
                             "archive" \in did[c][j] /\ sent[c][j].on = {m}}} : c \in Client})
         = IF m \in active THEN 0 ELSE 1

\* Of the lines a server has before it, and of those a server has left when
\* it ended, only the first can have been done to the database: the client
\* may send the others again, and must expect of the first that it is executed
\* twice.
FirstInDoubt ==
  \A c \in Client : \A left \in lost[c] \cup {Waiting(c)} : \A k \in left :
    did[c][k] # {} => \A j \in left : k <= j

\* A client can count its answers, and knows what to expect of its lines when
\* its server ends.
AnswersCanBeCounted == AnswersInOrder /\ FirstInDoubt

\* Every request with an id is answered, if its server does not end first,
\* however full the pipes get.
EveryCallIsAnswered ==
  \A c \in Client : \A k \in 1 .. MaxSends :
    (k \in DOMAIN sent[c] /\ sent[c][k].type = "call" /\ sent[c][k].id)
      ~> (k \in UNION lost[c] \/ \E i \in DOMAIN got[c] : got[c][i].line = k)
=============================================================================
