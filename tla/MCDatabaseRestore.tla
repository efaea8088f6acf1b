------------------------- MODULE MCDatabaseRestore -------------------------
(* Instances of DatabaseRestore. *)
EXTENDS DatabaseRestore, TLC

CONSTANTS c1, c2, d1, d2

MCControllers == {c1, c2}
MCDumps == {d1, d2}
Symmetry == Permutations(MCControllers) \cup Permutations(MCDumps)
=============================================================================
