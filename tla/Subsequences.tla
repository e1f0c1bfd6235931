----------------------------- MODULE Subsequences -----------------------------
(***************************************************************************)
(* What remains of a sequence when some of its elements are left out, by   *)
(* their positions, and the elements of a set in an order.  (SelectSeq and *)
(* SetToSortSeq, for theorems: the definition of SelectSeq is built into   *)
(* the proof system and cannot be expanded there, and the order of the     *)
(* other is an operator, which no theorem can be about.)                   *)
(***************************************************************************)
EXTENDS Integers, Sequences, FiniteSets

\* The i-th smallest number of a set.
Nth(at, i) == CHOOSE j \in at : Cardinality({k \in at : k <= j}) = i

\* The elements at some positions of a sequence, in their order.
Picked(s, at) == [i \in 1 .. Cardinality(at) |-> s[Nth(at, i)]]

\* The elements of a finite set in the order before, a set of pairs.
Ranked(S, before) ==
  [i \in 1 .. Cardinality(S) |->
     CHOOSE x \in S : Cardinality({y \in S : <<y, x>> \in before}) = i - 1]
=============================================================================
