-------------------------- MODULE MCSlicerUpdates --------------------------
(***************************************************************************)
(* SlicerUpdates on small instances.  Slicers, settings and values are     *)
(* alike, and every property is about all of them.                         *)
(***************************************************************************)
EXTENDS SlicerUpdates, TLC

CONSTANTS s1, s2, k1, k2, v1, v2

Symmetry == Permutations(Slicer) \cup Permutations(Key) \cup Permutations(Value)
=============================================================================
