--------------------------- MODULE ProviderWrites ---------------------------
(***************************************************************************)
(* What the four write adapters conclude from what the provider answers:   *)
(* Gmail and Google Calendar, Microsoft mail and Microsoft calendar.       *)
(*                                                                         *)
(* An adapter sends one approved command with execute: a mail, a new event *)
(* or a change of an event, which it reads first.  It answers with one of  *)
(* four verdicts: "applied", "refused", "again" (nothing happened and the  *)
(* caller may execute again) and "unknown", after which the caller only    *)
(* calls reconcile, which only reads.  Requests may be carried out after   *)
(* the adapter has stopped waiting, and the event has other editors.       *)
(*                                                                         *)
(* The caller is TrustedAction, whose Answers and ReadAnswers take a       *)
(* definite verdict to be true.  DefiniteIsTrue says when it is: not when  *)
(* a Google adapter takes 408 or 425 for a refusal.                        *)
(***************************************************************************)
EXTENDS Integers

CONSTANTS
  None,
  MaxVersion, \* bound: versions of the event
  MaxRequests \* bound: requests that write

VARIABLES
  provider, \* "google" or "microsoft"
  action,   \* "mail", "create" or "update"
  item,     \* the event at the provider
  effects,  \* how often the provider has carried the command out
  coined,   \* history: somebody else wrote the frozen content
  wire,     \* the request or its answer
  requests, \* how many requests that write were sent
  late,     \* history: the adapter was answered 408 or 425
  adapter,  \* where the adapter is
  verdict

command == <<provider, action>>
world == <<item, effects, coined>>
vars == <<command, world, wire, requests, late, adapter, verdict>>

-----------------------------------------------------------------------------
\* base_etag: the version that the approved change was made from.
Base == 1

\* fit: neither cancelled nor recurring, and the account may change it.
\* tag: the operation_id or the transactionId of this command.
BaseEvent == [content |-> "base", version |-> Base, fit |-> TRUE, tag |-> FALSE]

\* _event_body: the frozen fields, as the provider stores them.
Frozen(version) == [content |-> "frozen", version |-> version, fit |-> TRUE, tag |-> TRUE]

Init ==
  /\ provider \in {"google", "microsoft"} /\ action \in {"mail", "create", "update"}
  /\ item = IF action = "update" THEN BaseEvent ELSE None
  /\ effects = 0 /\ coined = FALSE
  /\ wire = "empty" /\ requests = 0 /\ late = FALSE
  /\ adapter = "ready" /\ verdict = "none"

\* execute or reconcile returns.
Conclude(v) == adapter' = "ready" /\ verdict' = v

Version == IF item = None THEN 1 ELSE item.version + 1

-----------------------------------------------------------------------------
(* The provider                                                            *)

\* Somebody edits the event, makes a series of it, cancels it or removes it.
Edit(content, fit) ==
  /\ item # None /\ Version <= MaxVersion
  /\ item' = [item EXCEPT !.content = content, !.version = Version, !.fit = fit]
  /\ coined' = (coined \/ content = "frozen")
  /\ UNCHANGED <<command, effects, wire, requests, late, adapter, verdict>>

Remove ==
  /\ item # None
  /\ item' = None
  /\ UNCHANGED <<command, effects, coined, wire, requests, late, adapter, verdict>>

\* The header If-Match of a change.
Condition(version) == version = Base

Accepts == action = "update" => item # None /\ Condition(item.version)

\* A request is carried out.  The answer may be lost, unreadable or an error of
\* the gateway all the same; a creation that Google has repeated within itself
\* is answered as a conflict with its own event.
CarryOut(reply) ==
  /\ wire = "request" /\ Accepts
  /\ effects' = effects + 1
  /\ item' = IF action = "mail" THEN None ELSE Frozen(Version)
  /\ wire' = reply
  /\ UNCHANGED <<command, coined, requests, late, adapter, verdict>>

\* A request is not carried out, because of its condition or for another reason.
Refuse(reply) ==
  /\ wire = "request"
  /\ reply = "stale" => ~Accepts
  /\ wire' = reply
  /\ UNCHANGED <<command, world, requests, late, adapter, verdict>>

-----------------------------------------------------------------------------
(* What is concluded from an answer                                        *)

\* 401 is "expired": the caller refreshes its token and executes again; 403 is
\* "denied", 404 "missing", 408 and 425 "late", 409 "conflict", 412 "stale", 429
\* "limited"; "broken" are 3xx and 5xx, "rejected" the other 4xx, "garbled" a
\* success that does not prove itself, "lost" no answer.

\* The event is read before it is changed.
GoogleCurrent ==
  [lost |-> "unknown", missing |-> "refused", expired |-> "again", denied |-> "refused",
   limited |-> "unknown", broken |-> "unknown", rejected |-> "refused", garbled |-> "unknown"]
MicrosoftCurrent ==
  [lost |-> "again", missing |-> "refused", expired |-> "again", denied |-> "refused",
   limited |-> "again", broken |-> "again", rejected |-> "unknown", garbled |-> "unknown"]

\* Variant: without an answer nothing has happened.
SilenceIsNo == "again"

\* The request was sent and its answer did not come in time.
Silence == "unknown"

\* No connection could be made, so that nothing was sent.
NotSent == "again"

GmailSent ==
  [done |-> "applied", garbled |-> "unknown", expired |-> "again", denied |-> "refused",
   late |-> "refused", conflict |-> "refused", stale |-> "refused", limited |-> "again",
   rejected |-> "refused", broken |-> "unknown"]

\* 202 accepts a mail and says nothing of its delivery.
MicrosoftSent ==
  [GmailSent EXCEPT !.done = "unknown", !.late = "unknown"]

GoogleWritten ==
  [GmailSent EXCEPT !.conflict = IF action = "create" THEN "duplicate" ELSE "refused"]

MicrosoftWritten == [GmailSent EXCEPT !.late = "unknown"]

Answer ==
  IF provider = "google"
  THEN IF action = "mail" THEN GmailSent ELSE GoogleWritten
  ELSE IF action = "mail" THEN MicrosoftSent ELSE MicrosoftWritten

-----------------------------------------------------------------------------
(* execute                                                                 *)

\* The command may be executed until there is a verdict, and again after one
\* that says that nothing happened.
Execute ==
  /\ adapter = "ready" /\ verdict \in {"none", "again"} /\ requests < MaxRequests
  /\ adapter' = IF action = "update" THEN "reading" ELSE "sending"
  /\ verdict' = "none"
  /\ UNCHANGED <<command, world, wire, requests, late>>

\* _provider_event_fact_error.
GoogleFit == item.fit
MicrosoftFit == item.fit

\* _current_event_precondition: the event may be changed and is the one that
\* the change was made from.
GoogleCurrentIsBase == GoogleFit /\ item.version = Base
MicrosoftCurrentIsBase == MicrosoftFit /\ item.version = Base

CurrentIsBase == IF provider = "google" THEN GoogleCurrentIsBase ELSE MicrosoftCurrentIsBase

ReadCurrent ==
  /\ adapter = "reading"
  /\ IF item # None /\ CurrentIsBase
     THEN adapter' = "sending" /\ UNCHANGED verdict
     ELSE Conclude("refused")
  /\ UNCHANGED <<command, world, wire, requests, late>>

ReadFails(reply) ==
  /\ adapter = "reading"
  /\ reply = "missing" <=> item = None
  /\ Conclude((IF provider = "google" THEN GoogleCurrent ELSE MicrosoftCurrent)[reply])
  /\ UNCHANGED <<command, world, wire, requests, late>>

\* _request: the one request that writes.
Send ==
  /\ adapter = "sending"
  /\ wire' = "request" /\ requests' = requests + 1 /\ adapter' = "waiting"
  /\ UNCHANGED <<command, world, late, verdict>>

ConnectFails ==
  /\ adapter = "sending"
  /\ Conclude(NotSent)
  /\ UNCHANGED <<command, world, wire, requests, late>>

Receive ==
  /\ adapter = "waiting" /\ wire \notin {"request", "empty"}
  /\ IF Answer[wire] = "duplicate"
     THEN adapter' = "confirming" /\ UNCHANGED verdict
     ELSE Conclude(Answer[wire])
  /\ wire' = "empty"
  /\ UNCHANGED <<command, world, requests, late>>

\* 408 or 425 says nothing of the request: it may have been carried out, and it
\* may still be.
AnsweredLate ==
  /\ adapter = "waiting"
  /\ Conclude(Answer["late"])
  /\ late' = TRUE
  /\ wire' = IF wire = "request" THEN wire ELSE "empty"
  /\ UNCHANGED <<command, world, requests>>

\* The adapter stops waiting; the request may still be carried out.
Timeout ==
  /\ adapter = "waiting"
  /\ Conclude(Silence)
  /\ wire' = IF wire = "request" THEN wire ELSE "empty"
  /\ UNCHANGED <<command, world, requests, late>>

-----------------------------------------------------------------------------
(* reconcile                                                               *)

\* Title, description, place, times and attendees.
GoogleSameFields == item.content = "frozen"
MicrosoftSameFields == item.content = "frozen"

\* _event_matches_command: every frozen field, and the mark of the operation.
GoogleMatches == item # None /\ GoogleFit /\ item.tag /\ GoogleSameFields

\* A change leaves no mark at Microsoft: only the fields are compared.
MicrosoftMatches == item # None /\ MicrosoftFit /\ MicrosoftSameFields

\* A change has taken the event to another version than that of the base.
Newer == action = "update" => item.version # Base

GoogleConfirms == GoogleMatches /\ Newer

\* The one event of the window that carries the transactionId.
MicrosoftWindow == item # None /\ item.tag
MicrosoftConfirms ==
  /\ action = "create" => MicrosoftWindow
  /\ MicrosoftMatches /\ Newer

\* The sent mails that a search for the Message-ID lists: it may lag behind.
GmailConfirms(listed) == listed = 1
MicrosoftSentConfirms(listed) == listed = 1

Confirms(listed) ==
  CASE action = "mail" /\ provider = "google" -> GmailConfirms(listed)
    [] action = "mail" /\ provider = "microsoft" -> MicrosoftSentConfirms(listed)
    [] action # "mail" /\ provider = "google" -> GoogleConfirms
    [] action # "mail" /\ provider = "microsoft" -> MicrosoftConfirms

\* Everything else that a read finds, and a read that fails, changes nothing.
Reconcile(listed) ==
  /\ adapter = "ready" /\ verdict = "unknown"
  /\ Confirms(listed)
  /\ Conclude("applied")
  /\ UNCHANGED <<command, world, wire, requests, late>>

\* The one read after a conflict of a creation.
ConfirmDuplicate(answered) ==
  /\ adapter = "confirming"
  /\ Conclude(IF answered /\ GoogleConfirms THEN "applied" ELSE "unknown")
  /\ UNCHANGED <<command, world, wire, requests, late>>

-----------------------------------------------------------------------------
Next ==
  \/ \E content \in {"base", "frozen", "theirs"}, fit \in BOOLEAN : Edit(content, fit)
  \/ Remove
  \/ \E reply \in {"done", "garbled", "broken"}
               \cup (IF command = <<"google", "create">> THEN {"conflict"} ELSE {}) :
       CarryOut(reply)
  \/ \E reply \in DOMAIN GmailSent \ {"done", "garbled", "late"} : Refuse(reply)
  \/ Execute \/ ReadCurrent
  \/ \E reply \in DOMAIN GoogleCurrent : ReadFails(reply)
  \/ Send \/ ConnectFails \/ Receive \/ AnsweredLate \/ Timeout
  \/ \E listed \in 0..effects : Reconcile(listed)
  \/ \E answered \in BOOLEAN : ConfirmDuplicate(answered)

Spec == Init /\ [][Next]_vars

-----------------------------------------------------------------------------
(* Properties                                                              *)

\* A definite verdict is true and stays true: after "again" and "refused" nothing
\* has happened and nothing is on its way; after "applied" the command was carried
\* out, once.  There are two exceptions.  The Google adapters call a command refused
\* after 408 and 425, of which gmail_write.py says itself that they prove nothing
\* (Microsoft's answer "unknown"); they never have it executed again.  And a change
\* at Microsoft, which leaves no mark there, may be confirmed by somebody else's
\* edit to the very same content.
DefiniteIsTrue ==
  /\ verdict = "again" => effects = 0 /\ wire # "request"
  /\ verdict = "refused" =>
       \/ effects = 0 /\ wire # "request"
       \/ provider = "google" /\ late
  /\ verdict = "applied" =>
       \/ effects = 1
       \/ provider = "microsoft" /\ action = "update" /\ coined
=============================================================================
