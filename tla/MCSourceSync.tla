--------------------------- MODULE MCSourceSync ---------------------------
(* Constants of SourceSync for model checking.                             *)
EXTENDS SourceSync, TLC

MCSymmetry == Permutations(Sessions)
=============================================================================
