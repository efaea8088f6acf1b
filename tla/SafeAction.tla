------------------------------ MODULE SafeAction ------------------------------
(***************************************************************************)
(* What a trusted action promises, without rows, workers or messages.  The *)
(* user consents; the outside world may then change, once; the program     *)
(* reports what it knows, and a report that is definite is true and stands.*)
(***************************************************************************)
EXTENDS Naturals

VARIABLES
  effects, \* how often the action was carried out
  verdict, \* what the program says of it
  consent  \* the user has approved exactly this action

vars == <<effects, verdict, consent>>

Verdicts == {"open", "unsure", "done", "not_done", "user"}

\* Nobody has said yet that the action is over.
Undecided == verdict \in {"open", "unsure"}

Init == effects = 0 /\ verdict = "open" /\ consent = FALSE

Agree ==
  /\ verdict = "open" /\ ~ consent
  /\ consent' = TRUE
  /\ UNCHANGED <<effects, verdict>>

\* Carried out with consent, once, and never behind a report that it was not.
\* A user who settles by hand may be overtaken by the provider.
Perform ==
  /\ consent /\ effects = 0 /\ verdict \notin {"done", "not_done"}
  /\ effects' = 1
  /\ UNCHANGED <<verdict, consent>>

Doubt ==
  /\ verdict = "open"
  /\ verdict' = "unsure"
  /\ UNCHANGED <<effects, consent>>

Done ==
  /\ Undecided /\ effects = 1
  /\ verdict' = "done"
  /\ UNCHANGED <<effects, consent>>

\* The consent may be used up or taken back with the report.
NotDone ==
  /\ Undecided /\ effects = 0
  /\ verdict' = "not_done"
  /\ consent' \in {consent, FALSE}
  /\ UNCHANGED effects

\* A consent that expires after the fact changes nothing else.
Revoke ==
  /\ verdict = "not_done" /\ consent
  /\ consent' = FALSE
  /\ UNCHANGED <<effects, verdict>>

Decide ==
  /\ verdict = "unsure"
  /\ verdict' = "user"
  /\ UNCHANGED <<effects, consent>>

Next == Agree \/ Perform \/ Doubt \/ Done \/ NotDone \/ Revoke \/ Decide

Spec == Init /\ [][Next]_vars

=============================================================================
