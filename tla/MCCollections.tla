--------------------------- MODULE MCCollections ---------------------------
(***************************************************************************)
(* Instances of Collections for TLC: a .cfg file cannot write a negative   *)
(* number, and the processes are interchangeable.                          *)
(***************************************************************************)
EXTENDS Collections, TLC

CONSTANT Decrement      \* whether rules also take away

\* One is added or, where a run asks for it, two are taken away.
MCAmounts == IF Decrement THEN {1, -2} ELSE {1}

Symmetry == Permutations(Tx)
=============================================================================
