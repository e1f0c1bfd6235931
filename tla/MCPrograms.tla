------------------------------ MODULE MCPrograms ------------------------------
(* The programs: MCP servers whose clients race, one request made through  *)
(* both front ends, and the comparison of systems.  A behaviour is one of  *)
(* the three.                                                              *)
EXTENDS McpServer, FrontEnds, Comparison

CONSTANTS m1, m2, c1, c2

VARIABLE program

-----------------------------------------------------------------------------
(* What clients send.                                                      *)

CallOf(tool, on) == [type |-> "call", id |-> TRUE, readable |-> TRUE, tool |-> tool, on |-> on]

\* Calls that race with each other.
Racing ==
  {CallOf("write", {}), CallOf("forget", {m1}), CallOf("recall and reinforce", {}),
   CallOf("reinforce", {m1, m2}),
   [CallOf("forget", {m2}) EXCEPT !.id = FALSE]}

Clients == Permutations({c1, c2})

-----------------------------------------------------------------------------
(* What is compared: two chains of the exported session, with the numbers  *)
(* of terms that its first two days have.                                  *)

MCMatches ==
  [n \in Node |-> CASE n = 3 -> [state |-> 2, goal |-> 3]
                    [] n = 5 -> [state |-> 1, goal |-> 3]
                    [] n = 9 -> [state |-> 2, goal |-> 2]
                    [] n = 11 -> [state |-> 1, goal |-> 2]
                    [] OTHER -> [state |-> 0, goal |-> 0]]
MCNames == BoundedSeq({"king", "graphiti", "all", "other"}, 2)
             \cup {<<"king", "graphiti", "king">>, <<"king", "king", "other">>}

\* Own seeds, all seeds, and a chain whose query finds nothing of its own.
MCFinds == {[c \in 1 .. Chains |-> {c}], [c \in 1 .. Chains |-> 1 .. Chains],
            [c \in 1 .. Chains |-> {1}], [c \in 1 .. Chains |-> {c} \ {1}]}

\* What the session is made for.
ASSUME SessionHits == FreshHits

-----------------------------------------------------------------------------
\* A program that is not run.
NoRequest ==
  /\ op = "forget" /\ given = <<>> /\ missing = FALSE
  /\ world = [found |-> 0, hidden |-> FALSE, gone |-> 0]
  /\ stage = [f \in FrontEnd |-> "parse"]
  /\ effects = [f \in FrontEnd |-> {}]
  /\ out = [f \in FrontEnd |-> "running"]

NoComparison ==
  names = <<>> /\ command = FALSE /\ matches = [c \in 1 .. Chains |-> {c}] /\ CmpInit

MCInit ==
  /\ program \in {"race", "request", "comparison"}
  /\ McpInit
  /\ IF program = "request" THEN FeInit ELSE NoRequest
  /\ IF program = "comparison" THEN CmpInit ELSE NoComparison

\* A program may stop when it has nothing left to do, and only then.
Ends ==
  /\ CASE program = "race" -> \A c \in Client : /\ Len(sent[c]) = MaxSends /\ up[c]
                                                /\ inbox[c] = <<>> /\ outbox[c] = <<>>
                                                /\ job[c] = NoJob
       [] program = "request" -> Ended
       [] program = "comparison" -> phase \in {"done", "failed"}
  /\ UNCHANGED <<mcpVars, feVars, cmpVars>>

MCNext ==
  /\ UNCHANGED program
  /\ \/ program = "race" /\ McpNext /\ UNCHANGED <<feVars, cmpVars>>
     \/ program = "request" /\ FeNext /\ UNCHANGED <<mcpVars, cmpVars>>
     \/ program = "comparison" /\ CmpNext /\ UNCHANGED <<mcpVars, feVars>>
     \/ Ends

MCSpec == MCInit /\ [][MCNext]_<<program, mcpVars, feVars, cmpVars>>
===============================================================================
