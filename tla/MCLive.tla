-------------------------------- MODULE MCLive --------------------------------
(* What must end: a run of the backfill against a store that others write  *)
(* to, and the calls of a client that sends every kind of line to its MCP  *)
(* server.  A behaviour is one of the two.                                 *)
EXTENDS MCBackfill, McpServer

CONSTANT c1

VARIABLE program

CallOf(tool, on) == [type |-> "call", id |-> TRUE, readable |-> TRUE, tool |-> tool, on |-> on]

AllKinds ==
  {[type |-> "blank"], [type |-> "no json"], [type |-> "no utf8"],
   [CallOf("write", {}) EXCEPT !.readable = FALSE],
   [CallOf("write", {}) EXCEPT !.id = FALSE],
   CallOf("unknown", {}), CallOf("read", {m1}), CallOf("forget", {m1}), CallOf("recall", {}),
   CallOf("trace, reinforce and predict", {})}

MCInit ==
  /\ program \in {"backfill", "server"}
  /\ BackfillInit
  /\ McpInit

MCNext ==
  /\ UNCHANGED program
  /\ \/ program = "backfill" /\ BackfillNext /\ UNCHANGED mcpVars
     \/ program = "server" /\ McpNext /\ UNCHANGED vars

\* The program that is not run can take no step, so the fairness of both is
\* the fairness of the one that is.
MCSpec ==
  /\ MCInit /\ [][MCNext]_<<program, vars, mcpVars>>
  /\ Fairness
  /\ McpFairness
===============================================================================
