---------------------------- MODULE MCTrashJournal ----------------------------
(* Small instances of TrashJournal. *)
EXTENDS TrashJournal

ASSUME Assumptions == JournalAssumption

Symmetry == Permutations(Ops) \cup Permutations(Items)
===============================================================================
