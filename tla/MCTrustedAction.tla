--------------------------- MODULE MCTrustedAction ---------------------------
(* Small instances of TrustedAction for TLC. *)
EXTENDS TrustedAction, TLC

\* Worker processes are interchangeable.
Symmetry == Permutations(Workers)

=============================================================================
