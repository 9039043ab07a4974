----------------------------- MODULE MCConsole -----------------------------
(***************************************************************************)
(* Console on small instances.                                             *)
(***************************************************************************)
EXTENDS Console, TLC

CONSTANTS n1, n2, boot, p1, w1, w2

Symmetry == Permutations(Worker) \cup Permutations(Name)
=============================================================================
