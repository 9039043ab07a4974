-------------------------- MODULE MCRequestBudget --------------------------
(***************************************************************************)
(* RequestBudget with few items, fewer threads and the code's own times in *)
(* units of two seconds (a Sync's 15 s as 16).                             *)
(***************************************************************************)
EXTENDS RequestBudget
=============================================================================
