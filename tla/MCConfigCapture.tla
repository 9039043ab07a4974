-------------------------- MODULE MCConfigCapture --------------------------
(***************************************************************************)
(* ConfigCapture on small instances.  Ready and Slicing stand for the five *)
(* operating states: the code tells two of them apart only as different.   *)
(***************************************************************************)
EXTENDS ConfigCapture, TLC

CONSTANTS s1, w1, w2

Symmetry == Permutations(Worker)

\* Without the history variables, for properties that do not look at them.
WithoutHistory == <<live, doc, row, req>>
=============================================================================
