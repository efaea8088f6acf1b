---------------------------- MODULE SafeDeletion ----------------------------
(***************************************************************************)
(* What the deletion of a user promises, without requests, workers or      *)
(* leases.  Once it has begun, what is left of the user only dwindles; the *)
(* one exception is the audit that a task or a connection still leaves as  *)
(* long as it is there itself.  The provider is asked once at most, while  *)
(* there is an action to ask about and a token to ask with, and told once  *)
(* at most, when no token is left here.  What is gone stays gone.          *)
(***************************************************************************)
EXTENDS Naturals

CONSTANT Kinds \* of what may be left of a user

VARIABLES
  stage, \* "used", "going" or "gone"
  left,
  asked, \* how often the provider was asked about an action of the user
  told   \* how often it was told to revoke a token

vars == <<stage, left, asked, told>>

Init == stage = "used" /\ left \in SUBSET Kinds /\ asked = 0 /\ told = 0

Use ==
  /\ stage = "used"
  /\ left' \in SUBSET Kinds
  /\ UNCHANGED <<stage, asked, told>>

Begin ==
  /\ stage = "used"
  /\ stage' = "going"
  /\ UNCHANGED <<left, asked, told>>

\* Who still leaves audits.
Witnesses == left \cap {"job", "connection"}

Dwindle ==
  /\ stage = "going"
  /\ left' \subseteq left \cup (IF Witnesses = {} THEN {} ELSE {"audit"})
  /\ UNCHANGED <<stage, asked, told>>

Ask ==
  /\ stage = "going" /\ {"execution", "credential"} \subseteq left
  /\ asked = 0 /\ asked' = 1
  /\ UNCHANGED <<stage, left, told>>

\* A worker that has dropped the token may be late.
Tell ==
  /\ stage # "used" /\ "credential" \notin left
  /\ told = 0 /\ told' = 1
  /\ UNCHANGED <<stage, left, asked>>

Finish ==
  /\ stage = "going" /\ left \subseteq {"audit"}
  /\ stage' = "gone" /\ left' = {}
  /\ UNCHANGED <<asked, told>>

Next == Use \/ Begin \/ Dwindle \/ Ask \/ Tell \/ Finish

Spec == Init /\ [][Next]_vars
=============================================================================
