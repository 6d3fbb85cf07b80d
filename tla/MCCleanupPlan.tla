---------------------------- MODULE MCCleanupPlan -----------------------------
(* Small instances of CleanupPlan. *)
EXTENDS CleanupPlan, TLC

Symmetry == Permutations(Windows) \cup Permutations(Plans)
===============================================================================
