---------------------------- MODULE SafeRestore ----------------------------
(***************************************************************************)
(* What a restore promises, without controllers, locks or processes.  The  *)
(* gate closes while somebody may still be at work; a call is made when    *)
(* nobody is there any more.  A call changes the content once at most, and *)
(* only before it is judged: to the whole dump, or to something unknown.   *)
(* It is judged by the content, and what it is judged to be it remains.    *)
(* The database opens again with the dump in it and not otherwise.         *)
(***************************************************************************)
EXTENDS Naturals

CONSTANTS
  None,
  Dumps,
  Known,   \* the contents that are nobody's accident, the dumps among them
  Unknown \* one that no fingerprint knows

VARIABLES
  stage,     \* "open", "closing", "restoring", "unapplied", "restored" or "stuck"
  goal,      \* the dump, from the gate to the opening
  before,    \* what was there when the dump was called for, until the call is judged
  data,
  connected \* a runtime role

vars == <<stage, goal, before, data, connected>>

Init ==
  /\ stage = "open" /\ goal = None /\ before = None
  /\ data \in Known /\ connected \in BOOLEAN

Use ==
  /\ stage = "open"
  /\ data' \in Known /\ connected' \in BOOLEAN
  /\ UNCHANGED <<stage, goal, before>>

Close ==
  /\ stage = "open" /\ stage' = "closing"
  /\ goal' \in Dumps \ {data}
  /\ UNCHANGED <<before, data, connected>>

\* Whoever is connected may go on, and nobody else comes.
Linger ==
  /\ stage = "closing" /\ connected
  /\ data' \in Known /\ connected' \in BOOLEAN
  /\ UNCHANGED <<stage, goal, before>>

\* Those who lingered have brought about what was wanted.
Find ==
  /\ stage = "closing" /\ ~connected /\ data = goal
  /\ stage' = "restored"
  /\ UNCHANGED <<goal, before, data, connected>>

Call ==
  /\ stage \in {"closing", "unapplied"} /\ ~connected /\ data # goal
  /\ stage' = "restoring" /\ before' = data
  /\ UNCHANGED <<goal, data, connected>>

Apply ==
  /\ stage = "restoring" /\ data = before
  /\ data' \in {goal, Unknown}
  /\ UNCHANGED <<stage, goal, before, connected>>

Judge ==
  /\ stage = "restoring"
  /\ \/ data = goal /\ stage' = "restored" /\ before' = None
     \/ data = before /\ stage' = "unapplied" /\ before' = before
     \/ stage' = "stuck" /\ before' = None
  /\ UNCHANGED <<goal, data, connected>>

Reopen ==
  /\ stage = "restored" /\ stage' = "open" /\ goal' = None
  /\ UNCHANGED <<before, data, connected>>

Next == Use \/ Close \/ Linger \/ Find \/ Call \/ Apply \/ Judge \/ Reopen

Spec == Init /\ [][Next]_vars
=============================================================================
