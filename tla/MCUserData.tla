----------------------------- MODULE MCUserData -----------------------------
(* Instances of UserData. *)
EXTENDS UserData, TLC
=============================================================================
