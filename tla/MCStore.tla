------------------------------- MODULE MCStore -------------------------------
(* The store, call by call and statement by statement: two memories that   *)
(* may be linked by edges, with two contents that share an entity, under   *)
(* calls that are one step; and the transactions of two processes on two   *)
(* memories in any state.  A behaviour is one of the two.                  *)
EXTENDS Store, Transactions, TLC

CONSTANTS m1, m2, hello, world, e1, e2

VARIABLE grain

MCMentions == (hello :> {e1}) @@ (world :> {e1, e2})

MCDelta == {1}

MCInit ==
  /\ grain \in {"calls", "statements"}
  /\ Init
  /\ TxnInit
  /\ grain = "calls" => wal[1].status = [m \in Memories |-> "absent"]

\* Only when every plan is at its end may the processes stop.
TxnEnds == plans = MaxPlans /\ (\A c \in Conn : at[c] = "idle") /\ UNCHANGED txnVars

MCNext ==
  /\ UNCHANGED grain
  /\ \/ grain = "calls" /\ Next /\ UNCHANGED txnVars
     \/ grain = "statements" /\ (TxnNext \/ TxnEnds) /\ UNCHANGED vars

\* A connection that is not used has no step, so this is fair to those that are.
MCSpec ==
  /\ MCInit
  /\ [][MCNext]_<<grain, vars, txnVars>>
  /\ TxnFairness
=============================================================================
