---------------------------- MODULE MCLineEdits ----------------------------
(***************************************************************************)
(* LineEdits on small instances.  Settings and values are alike.           *)
(***************************************************************************)
EXTENDS LineEdits, TLC

CONSTANTS k1, k2, v1, v2

Symmetry == Permutations(Key) \cup Permutations(Value)
=============================================================================
