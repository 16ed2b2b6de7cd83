------------------------------ MODULE MCMlogc -------------------------------
(* Small instances of Mlogc for TLC. *)
EXTENDS Mlogc

CONSTANTS l1, l2, l3, t1, t2, t3, h1, h2

ThreadSymmetry == Permutations(Threads) \cup Permutations(Handles)
FullSymmetry == ThreadSymmetry \cup Permutations(Lines)
=============================================================================
