----------------------------- MODULE MCBackfill ------------------------------
(* Backfill runs over a small store.                                       *)
EXTENDS Backfill, TLC

CONSTANTS m1, m2, m3, hello, world, w1, w2

MemorySymmetry == Permutations(MemoryId) \cup Permutations(Worker)
=============================================================================
