---------------------------- MODULE MCSubmissions ----------------------------
(***************************************************************************)
(* What becomes of a mail draft and of a calendar proposal before they are *)
(* trusted actions, and what the adapters make of them afterwards.  The    *)
(* three share no row but the user's, so each behaviour is of one of them. *)
(***************************************************************************)
EXTENDS CalendarProposals, TLC

CONSTANTS
  Drafts, Conns, CreationKeys, SubmitKeys, Generations,
  MaxMailVersion, MaxTasks,    \* bounds of the mails
  MaxItemVersion, MaxRequests  \* bounds of the writes

VARIABLES
  enabled, draft, source, mailTask, generation, mailSes,
  provider, action, item, effects, coined, wire, requests, late, adapter, verdict,
  kind \* what is submitted or written

mail == <<enabled, draft, source, mailTask, generation, mailSes>>
writes == <<provider, action, item, effects, coined, wire, requests, late, adapter, verdict>>

Mail == INSTANCE MailSubmission WITH
  MaxVersion <- MaxMailVersion, task <- mailTask, ses <- mailSes

Writes == INSTANCE ProviderWrites WITH MaxVersion <- MaxItemVersion

MCInit ==
  /\ kind \in {"calendar", "mail", "write"}
  /\ Init /\ (kind # "calendar" => event.time = CHOOSE t \in Times : TRUE)
  /\ Mail!Init /\ (kind # "mail" => mailTask = <<>>)
  /\ Writes!Init /\ (kind # "write" => provider = "google" /\ action = "mail")

MCNext ==
  \/ kind = "calendar" /\ Next /\ UNCHANGED <<mail, writes, kind>>
  \/ kind = "mail" /\ Mail!Next /\ UNCHANGED <<vars, writes, kind>>
  \/ kind = "write" /\ Writes!Next /\ UNCHANGED <<vars, mail, kind>>

MCSpec == MCInit /\ [][MCNext]_<<vars, mail, writes, kind>>

MCSymmetry ==
  Permutations(Sessions) \cup Permutations(SubmitKeys) \cup Permutations(Conns)

\* A mail that waits for its approval or is executed is the current version of its draft.
MailFrozenIsCurrent == Mail!FrozenIsCurrent

\* When an account has lost the permission to send, no submission rests on it.
RevocationComplete == Mail!RevocationComplete

\* No edit of a mail draft is overwritten unseen.
NothingLost == Mail!NothingLost

\* A definite verdict of an adapter is true and stays true.
DefiniteIsTrue == Writes!DefiniteIsTrue
=============================================================================
