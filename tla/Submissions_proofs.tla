------------------------- MODULE Submissions_proofs -------------------------
(***************************************************************************)
(* What holds of the mails, the calendar proposals and the writes of the   *)
(* adapters for every number of them, of requests and of accounts.         *)
(***************************************************************************)
EXTENDS MCSubmissions, SequenceTheorems, TLAPS

(* Each behaviour is of one kind, and the other kinds' steps leave it alone. *)

LEMMA KindsApart ==
  [MCNext]_<<vars, mail, writes, kind>> =>
    [Next]_vars /\ [Mail!Next]_mail /\ [Writes!Next]_writes
  BY DEF MCNext

-----------------------------------------------------------------------------
(* The adapters.                                                           *)

Replies == {"done", "garbled", "expired", "denied", "late", "conflict", "stale", "limited",
            "rejected", "broken"}

\* What a request may have done that has not been answered yet.
OnItsWay ==
  /\ effects \in {0, 1} /\ wire \in {"empty", "request"} \cup Replies
  /\ wire = "request" => effects = 0
  /\ wire \in {"expired", "denied", "stale", "limited", "rejected"} => effects = 0
  /\ wire # "late"
  /\ wire = "conflict" /\ <<provider, action>> # <<"google", "create">> => effects = 0
  /\ wire = "done" => effects = 1

\* The mark and the frozen content have an origin.
Signed ==
  item # None =>
    /\ item.tag => effects = 1
    /\ item.content = "frozen" => effects = 1 \/ coined

\* Whoever may still send has sent nothing that could have happened.
Clean == effects = 0 /\ wire = "empty"

Adapters ==
  /\ provider \in {"google", "microsoft"} /\ action \in {"mail", "create", "update"}
  /\ adapter \in {"ready", "reading", "sending", "waiting", "confirming"}
  /\ verdict \in {"none", "again", "refused", "applied", "unknown"}
  /\ adapter # "ready" => verdict = "none"
  /\ adapter \in {"reading", "sending"} => Clean
  /\ adapter = "ready" /\ verdict = "none" => Clean
  /\ verdict = "again" => Clean
  /\ verdict = "refused" => Clean \/ (provider = "google" /\ late)
  /\ adapter = "waiting" => wire # "empty"
  /\ adapter = "confirming" => <<provider, action>> = <<"google", "create">> /\ wire = "empty"
  /\ verdict = "applied" =>
       effects = 1 \/ (provider = "microsoft" /\ action = "update" /\ coined)

Answered == OnItsWay /\ Signed /\ Adapters

LEMMA AnsweredInit == Writes!Init => Answered
  BY DEF Writes!Init, Writes!BaseEvent, Answered, OnItsWay, Signed, Adapters, Clean, Replies

LEMMA RepliesKnown == DOMAIN Writes!GmailSent = Replies
  BY DEF Writes!GmailSent, Replies

\* What the tables of the adapters conclude from an answer.
LEMMA AnswerMeans ==
  ASSUME NEW reply \in Replies, provider \in {"google", "microsoft"},
         action \in {"mail", "create", "update"}
  PROVE  /\ Writes!Answer[reply] \in {"again", "refused", "applied", "unknown", "duplicate"}
         /\ Writes!Answer[reply] = "applied" => reply = "done"
         /\ Writes!Answer[reply] = "duplicate" => <<provider, action>> = <<"google", "create">>
         /\ Writes!Answer[reply] \in {"again", "refused"} =>
              \/ reply \in {"expired", "denied", "late", "stale", "limited", "rejected"}
              \/ reply = "conflict" /\ <<provider, action>> # <<"google", "create">>
<1>1. CASE provider = "google"
  BY <1>1 DEF Replies, Writes!Answer, Writes!GmailSent, Writes!GoogleWritten
<1>2. CASE provider = "microsoft"
  <2>1. /\ Writes!MicrosoftSent[reply] = IF reply = "done" \/ reply = "late" THEN "unknown"
                                         ELSE Writes!GmailSent[reply]
        /\ Writes!MicrosoftWritten[reply] = IF reply = "late" THEN "unknown"
                                            ELSE Writes!GmailSent[reply]
    BY RepliesKnown DEF Replies, Writes!MicrosoftSent, Writes!MicrosoftWritten, Writes!GmailSent
  <2>2. Writes!Answer[reply] \in {Writes!MicrosoftSent[reply], Writes!MicrosoftWritten[reply]}
    BY <1>2 DEF Writes!Answer
  <2> QED
    BY <1>2, <2>1, <2>2 DEF Replies, Writes!GmailSent
<1> QED
  BY <1>1, <1>2

\* 408 and 425 never have a command executed again.
LEMMA LateMeans ==
  ASSUME provider \in {"google", "microsoft"}, action \in {"mail", "create", "update"}
  PROVE  Writes!Answer["late"] = IF provider = "google" THEN "refused" ELSE "unknown"
  BY DEF Writes!Answer, Writes!GmailSent, Writes!GoogleWritten, Writes!MicrosoftSent,
     Writes!MicrosoftWritten

LEMMA CurrentMeans ==
  ASSUME NEW reply \in DOMAIN Writes!GoogleCurrent
  PROVE  /\ Writes!GoogleCurrent[reply] \in {"again", "refused", "unknown"}
         /\ Writes!MicrosoftCurrent[reply] \in {"again", "refused", "unknown"}
  BY DEF Writes!GoogleCurrent, Writes!MicrosoftCurrent

\* What a read takes as a proof is one.
LEMMA ConfirmsMeans ==
  ASSUME Answered, NEW listed \in 0..effects, Writes!Confirms(listed)
  PROVE  effects = 1 \/ (provider = "microsoft" /\ action = "update" /\ coined)
<1>1. CASE action = "mail"
  <2>1. listed = 1
    BY <1>1 DEF Answered, Adapters, Writes!Confirms, Writes!GmailConfirms,
       Writes!MicrosoftSentConfirms
  <2> QED
    BY <2>1 DEF Answered, OnItsWay
<1>2. CASE action # "mail"
  BY <1>2 DEF Answered, OnItsWay, Adapters, Signed, Writes!Confirms, Writes!GoogleConfirms,
     Writes!GoogleMatches, Writes!MicrosoftConfirms, Writes!MicrosoftMatches,
     Writes!MicrosoftWindow, Writes!MicrosoftSameFields
<1> QED
  BY <1>1, <1>2

LEMMA AnsweredStep == Answered /\ [Writes!Next]_writes => Answered'
<1> SUFFICES ASSUME Answered, [Writes!Next]_writes
             PROVE  Answered'
  OBVIOUS
<1> USE DEF Answered, OnItsWay, Signed, Adapters, Clean, Writes!command, Writes!world
<1>1. CASE UNCHANGED writes
  BY <1>1 DEF writes, Replies
<1>2. CASE \E content \in {"base", "frozen", "theirs"}, fit \in BOOLEAN :
             Writes!Edit(content, fit)
  <2>1. PICK content \in {"base", "frozen", "theirs"}, fit \in BOOLEAN :
          Writes!Edit(content, fit)
    BY <1>2
  <2>2. item # None /\ item' = [item EXCEPT !.content = content, !.version = Writes!Version,
                                            !.fit = fit]
    BY <2>1 DEF Writes!Edit
  <2>3. item'.tag = item.tag /\ (item'.content = "frozen" => content = "frozen" \/ item.content = "frozen")
    BY <2>2, <2>1
  <2>4. /\ coined' = (coined \/ content = "frozen") /\ provider' = provider /\ action' = action
        /\ effects' = effects /\ wire' = wire /\ late' = late /\ adapter' = adapter /\ verdict' = verdict
    BY <2>1 DEF Writes!Edit
  <2>5. OnItsWay'
    BY <2>4 DEF Replies
  <2>6. Signed'
    BY <2>2, <2>3, <2>4
  <2>7. Adapters'
    BY <2>4
  <2> QED
    BY <2>5, <2>6, <2>7
<1>3. CASE Writes!Remove
  BY <1>3 DEF Writes!Remove, Replies
<1>4. CASE \E reply \in {"done", "garbled", "broken"}
                        \cup (IF Writes!command = <<"google", "create">> THEN {"conflict"} ELSE {}) :
             Writes!CarryOut(reply)
  BY <1>4 DEF Writes!CarryOut, Writes!Frozen, Replies
<1>5. CASE \E reply \in DOMAIN Writes!GmailSent \ {"done", "garbled", "late"} : Writes!Refuse(reply)
  BY <1>5, RepliesKnown DEF Writes!Refuse, Replies
<1>6. CASE Writes!Execute
  BY <1>6 DEF Writes!Execute, Replies
<1>7. CASE Writes!ReadCurrent
  BY <1>7 DEF Writes!ReadCurrent, Writes!Conclude, Replies
<1>8. CASE \E reply \in DOMAIN Writes!GoogleCurrent : Writes!ReadFails(reply)
  BY <1>8, CurrentMeans DEF Writes!ReadFails, Writes!Conclude, Replies
<1>9. CASE Writes!Send
  BY <1>9 DEF Writes!Send, Replies
<1>10. CASE Writes!ConnectFails
  BY <1>10 DEF Writes!ConnectFails, Writes!Conclude, Writes!NotSent, Replies
<1>11. CASE Writes!Receive
  <2>1. wire \in Replies
    BY <1>11 DEF Writes!Receive
  <2> QED
    BY <2>1, <1>11, AnswerMeans DEF Writes!Receive, Writes!Conclude, Replies
<1>12. CASE Writes!Timeout
  BY <1>12 DEF Writes!Timeout, Writes!Conclude, Writes!Silence, Replies
<1>15. CASE Writes!AnsweredLate
  <2>1. /\ Writes!Answer["late"] \in {"again", "refused", "unknown"}
        /\ Writes!Answer["late"] # "again"
        /\ Writes!Answer["late"] = "refused" => provider = "google"
    BY LateMeans
  <2> QED
    BY <2>1, <1>15 DEF Writes!AnsweredLate, Writes!Conclude, Replies
<1>13. CASE \E listed \in 0..effects : Writes!Reconcile(listed)
  BY <1>13, ConfirmsMeans DEF Writes!Reconcile, Writes!Conclude, Replies
<1>14. CASE \E answered \in BOOLEAN : Writes!ConfirmDuplicate(answered)
  BY <1>14 DEF Writes!ConfirmDuplicate, Writes!Conclude, Writes!GoogleConfirms,
     Writes!GoogleMatches, Replies
<1> QED
  BY <1>1, <1>2, <1>3, <1>4, <1>5, <1>6, <1>7, <1>8, <1>9, <1>10, <1>11, <1>12, <1>13, <1>14, <1>15
     DEF Writes!Next, writes

\* A definite verdict of an adapter is true and stays true, however late, lost or
\* repeated its request and the answer are, and whoever else edits the event.
THEOREM DefiniteIsTrueHolds == MCSpec => []DefiniteIsTrue
<1>1. MCInit => Answered
  BY AnsweredInit DEF MCInit
<1>2. Answered /\ [MCNext]_<<vars, mail, writes, kind>> => Answered'
  BY KindsApart, AnsweredStep
<1>3. Answered => DefiniteIsTrue
  BY DEF Answered, OnItsWay, Adapters, Clean, DefiniteIsTrue, Writes!DefiniteIsTrue
<1> QED
  BY <1>1, <1>2, <1>3, PTL DEF MCSpec
-----------------------------------------------------------------------------
(* The mails.                                                              *)

DraftRows == [status : Mail!DraftStatuses, version : Nat, conn : Conns \cup {None},
              key : CreationKeys \cup {None}]
TaskRows == [draft : Drafts, version : Nat, conn : Conns, key : SubmitKeys \cup {None},
             state : {"pending", "approved", "claimed", "closed"},
             summary : Conns \cup {None}, command : BOOLEAN]
GenerationRows == [draft : Drafts \cup {None}, base : Nat, owner : Sessions \cup {None},
                   done : BOOLEAN]
MailSessions == [op : {"none", "create", "update", "submit", "decide", "revoke"},
                 at : {"idle", "model", "scope", "tasks", "user"},
                 draft : Drafts \cup {None}, base : Nat, conn : Conns \cup {None},
                 key : CreationKeys \cup SubmitKeys \cup {None},
                 want : SUBSET Nat, held : SUBSET Nat, gen : Generations \cup {None}]

RowsTyped ==
  /\ enabled \subseteq Conns
  /\ draft \in [Drafts -> DraftRows]
  /\ \A d \in Drafts : /\ draft[d].status = "absent" => draft[d].version = 0
                       /\ draft[d].status # "absent" => draft[d].conn \in Conns
  /\ mailTask \in Seq(TaskRows)
  /\ generation \in [Generations -> GenerationRows]

\* A session knows what its place needs.
Placed(x) ==
  /\ x \in MailSessions
  /\ x.want \cup x.held \subseteq 1..Len(mailTask)
  /\ x.op \in {"update", "submit"} => x.draft \in Drafts
  /\ x.op \in {"create", "submit", "revoke"} => x.conn \in Conns
  /\ x.op = "create" => x.key \in CreationKeys
  /\ x.op = "submit" => x.key \in SubmitKeys
  /\ x.at = "scope" => x.op = "submit"
  /\ x.at = "tasks" => x.op = "revoke"
  /\ x.at = "model" => x.op = "update" /\ x.gen \in Generations
SessionsTyped ==
  /\ mailSes \in [Sessions -> MailSessions]
  /\ \A s \in Sessions : Placed(mailSes[s])

\* The lock of an account has one owner.
InScope(x) == x.op \in {"submit", "revoke"} /\ x.at \in {"tasks", "user"}
OneInScope ==
  \A s, r \in Sessions :
    InScope(mailSes[s]) /\ InScope(mailSes[r]) /\ mailSes[s].conn = mailSes[r].conn => s = r

\* A revocation knows every live submission of its account, and has the locks of all
\* of them when it begins to write.
Knows(x) ==
  x.op = "revoke" /\ x.at \in {"tasks", "user"} =>
    /\ \A t \in 1..Len(mailTask) :
         mailTask[t].state # "closed" /\ mailTask[t].conn = x.conn => t \in x.want \cup x.held
    /\ x.at = "user" => x.want = {}
RevokersKnow == \A s \in Sessions : Knows(mailSes[s])

\* The history of a draft has one entry for each version.
Written ==
  /\ source \in [Drafts -> Seq(Nat)]
  /\ \A d \in Drafts : Len(source[d]) = draft[d].version

Mailed == /\ RowsTyped /\ SessionsTyped /\ OneInScope /\ RevokersKnow /\ Written
          /\ MailFrozenIsCurrent /\ RevocationComplete /\ NothingLost

LEMMA MailedInit == Mail!Init => Mailed
<1> SUFFICES ASSUME Mail!Init
             PROVE  Mailed
  OBVIOUS
<1>1. SessionsTyped /\ OneInScope /\ RevokersKnow
  BY DEF Mail!Init, Mail!Idle, SessionsTyped, Placed, MailSessions, OneInScope, InScope,
     RevokersKnow, Knows
<1>2. generation \in [Generations -> GenerationRows] /\ enabled \subseteq Conns
  BY DEF Mail!Init, GenerationRows
<1>3. CASE /\ draft = [d \in Drafts |-> Mail!Absent]
           /\ source = [d \in Drafts |-> <<>>]
           /\ mailTask = <<>>
  <2>1. Mail!Absent \in DraftRows /\ Mail!Absent.status = "absent" /\ Mail!Absent.version = 0
    BY DEF Mail!Absent, DraftRows, Mail!DraftStatuses
  <2>2. <<>> \in Seq(TaskRows) /\ <<>> \in Seq(Nat) /\ Len(<<>>) = 0
    BY EmptySeq
  <2>3. RowsTyped /\ Written /\ NothingLost
    BY <1>2, <1>3, <2>1, <2>2 DEF RowsTyped, Written, NothingLost, Mail!NothingLost
  <2>4. MailFrozenIsCurrent /\ RevocationComplete
    BY <1>3, <2>1, <2>2 DEF MailFrozenIsCurrent, Mail!FrozenIsCurrent, Mail!Tasks, Mail!Of,
       RevocationComplete, Mail!RevocationComplete
  <2> QED
    BY <1>1, <2>3, <2>4 DEF Mailed
<1>4. CASE \E d \in Drafts, c \in Conns :
             /\ draft = [e \in Drafts |->
                           IF e = d THEN [status |-> "editing", version |-> 1,
                                          conn |-> c, key |-> None]
                           ELSE Mail!Absent]
             /\ source = [e \in Drafts |-> IF e = d THEN <<0>> ELSE <<>>]
             /\ mailTask = <<Mail!Legacy(d, c)>>
  <2>1. PICK d \in Drafts, c \in Conns :
             /\ draft = [e \in Drafts |->
                           IF e = d THEN [status |-> "editing", version |-> 1,
                                          conn |-> c, key |-> None]
                           ELSE Mail!Absent]
             /\ source = [e \in Drafts |-> IF e = d THEN <<0>> ELSE <<>>]
             /\ mailTask = <<Mail!Legacy(d, c)>>
    BY <1>4
  <2>2. Mail!Legacy(d, c) \in TaskRows /\ Mail!Legacy(d, c).state = "closed"
    BY DEF Mail!Legacy, TaskRows
  <2>3. /\ mailTask \in Seq(TaskRows) /\ Len(mailTask) = 1 /\ mailTask[1].state = "closed"
        /\ <<>> \in Seq(Nat) /\ Len(<<>>) = 0
        /\ <<0>> \in Seq(Nat) /\ Len(<<0>>) = 1 /\ <<0>>[1] = 0
    BY <2>1, <2>2, EmptySeq
  <2>4. /\ draft \in [Drafts -> DraftRows]
        /\ \A e \in Drafts : /\ draft[e].status \in {"editing", "absent"}
                             /\ draft[e].status = "editing" => draft[e].conn = c
                             /\ draft[e].version = IF e = d THEN 1 ELSE 0
    BY <2>1 DEF Mail!Absent, DraftRows, Mail!DraftStatuses
  <2>5. RowsTyped /\ Written
    BY <1>2, <2>1, <2>3, <2>4 DEF RowsTyped, Written
  <2>6. NothingLost
    BY <2>1, <2>3 DEF NothingLost, Mail!NothingLost
  <2>7. MailFrozenIsCurrent /\ RevocationComplete
    BY <2>3, <2>4 DEF MailFrozenIsCurrent, Mail!FrozenIsCurrent, Mail!Tasks, Mail!Of, Mail!Live,
       Mail!Open, RevocationComplete, Mail!RevocationComplete
  <2> QED
    BY <1>1, <2>5, <2>6, <2>7 DEF Mailed
<1> QED
  BY <1>3, <1>4 DEF Mail!Init

\* A step that only moves one session.
LEMMA SessionMoves ==
  ASSUME Mailed, NEW s \in Sessions, NEW x, mailSes' = [mailSes EXCEPT ![s] = x],
         Placed(x), Knows(x),
         InScope(x) => \A r \in Sessions \ {s} : InScope(mailSes[r]) => mailSes[r].conn # x.conn,
         UNCHANGED <<enabled, draft, source, mailTask>>,
         generation' \in [Generations -> GenerationRows]
  PROVE  Mailed'
<1>1. \A r \in Sessions : mailSes'[r] = IF r = s THEN x ELSE mailSes[r]
  BY DEF Mailed, SessionsTyped
<1>2. SessionsTyped'
  BY <1>1 DEF Mailed, SessionsTyped, Placed
<1>3. OneInScope'
  BY <1>1 DEF Mailed, OneInScope, InScope
<1>4. RevokersKnow'
  BY <1>1 DEF Mailed, RevokersKnow, Knows
<1>5. RowsTyped' /\ Written' /\ MailFrozenIsCurrent' /\ RevocationComplete' /\ NothingLost'
  BY DEF Mailed, RowsTyped, Written, MailFrozenIsCurrent, Mail!FrozenIsCurrent, Mail!Tasks,
     Mail!Of, Mail!Live, Mail!Open, RevocationComplete, Mail!RevocationComplete, NothingLost,
     Mail!NothingLost
<1> QED
  BY <1>2, <1>3, <1>4, <1>5 DEF Mailed

\* A session that is over leaves the others as they were, as long as nothing new lives
\* under a revocation.
LEMMA SessionEnds ==
  ASSUME Mailed, NEW s \in Sessions, mailSes' = [mailSes EXCEPT ![s] = Mail!Idle],
         RowsTyped', Len(mailTask') >= Len(mailTask),
         \A t \in 1..Len(mailTask') : mailTask'[t].state # "closed" =>
           \/ /\ t \in 1..Len(mailTask) /\ mailTask[t].state # "closed"
              /\ mailTask[t].conn = mailTask'[t].conn
           \/ \A r \in Sessions \ {s} : InScope(mailSes[r]) => mailSes[r].conn # mailTask'[t].conn
  PROVE  SessionsTyped' /\ OneInScope' /\ RevokersKnow'
<1>1. \A r \in Sessions : mailSes'[r] = IF r = s THEN Mail!Idle ELSE mailSes[r]
  BY DEF Mailed, SessionsTyped
<1>2. Mail!Idle \in MailSessions /\ ~InScope(Mail!Idle)
  BY DEF Mail!Idle, MailSessions, InScope
<1>3. Len(mailTask) \in Nat /\ Len(mailTask') \in Nat
  BY LenProperties DEF Mailed, RowsTyped
<1>4. SessionsTyped'
  <2>1. mailSes' \in [Sessions -> MailSessions]
    BY <1>2 DEF Mailed, SessionsTyped
  <2>2. Placed(Mail!Idle)'
    BY <1>2 DEF Mail!Idle, Placed
  <2>3. ASSUME NEW r \in Sessions, r # s PROVE Placed(mailSes[r])'
    <3>1. mailSes'[r] = mailSes[r] /\ Placed(mailSes[r])
      BY <1>1, <2>3 DEF Mailed, SessionsTyped
    <3> QED
      BY <1>3, <3>1 DEF Placed
  <2> QED
    BY <1>1, <2>1, <2>2, <2>3 DEF SessionsTyped, Placed
<1>5. OneInScope'
  BY <1>1, <1>2 DEF Mailed, OneInScope, InScope
<1>6. RevokersKnow'
  <2> SUFFICES ASSUME NEW r \in Sessions, mailSes'[r].op = "revoke",
                      mailSes'[r].at \in {"tasks", "user"}
               PROVE  /\ \A t \in 1..Len(mailTask') :
                           mailTask'[t].state # "closed" /\ mailTask'[t].conn = mailSes'[r].conn
                             => t \in mailSes'[r].want \cup mailSes'[r].held
                      /\ mailSes'[r].at = "user" => mailSes'[r].want = {}
    BY DEF RevokersKnow, Knows
  <2>1. r # s /\ mailSes'[r] = mailSes[r] /\ InScope(mailSes[r]) /\ Knows(mailSes[r])
    BY <1>1, <1>2 DEF Mailed, RevokersKnow, InScope, Mail!Idle
  <2> QED
    BY <2>1 DEF Knows
<1> QED
  BY <1>4, <1>5, <1>6

\* One live task holds a draft, and only a draft that is out of the user's hands.
LEMMA LiveAlone ==
  ASSUME Mailed, NEW t \in 1..Len(mailTask), mailTask[t].state # "closed"
  PROVE  /\ mailTask[t].draft \in Drafts /\ mailTask[t].conn \in Conns
         /\ draft[mailTask[t].draft].conn = mailTask[t].conn
         /\ draft[mailTask[t].draft].version = mailTask[t].version
         /\ draft[mailTask[t].draft].status \in
              IF mailTask[t].state \in {"pending", "approved"} THEN {"awaiting_approval"}
              ELSE {"executing", "needs_attention"}
         /\ \A u \in 1..Len(mailTask) :
              mailTask[u].state # "closed" /\ mailTask[u].draft = mailTask[t].draft => u = t
<1>1. mailTask[t] \in TaskRows
  BY ElementOfSeq DEF Mailed, RowsTyped
<1> QED
  BY <1>1 DEF Mailed, MailFrozenIsCurrent, Mail!FrozenIsCurrent, Mail!Tasks, Mail!Live, Mail!Open,
     TaskRows

LEMMA BeginKeeps ==
  ASSUME Mailed, NEW s \in Sessions, Mail!Begin(s)
  PROVE  Mailed'
<1> USE DEF Mail!Free, Mail!Become, Mail!Idle, Placed, MailSessions, Knows, InScope
<1>0. /\ \A d \in Drafts : draft[d] \in DraftRows
      /\ \A g \in Generations : generation[g] \in GenerationRows
      /\ \A r \in Sessions : mailSes[r] \in MailSessions
      /\ enabled \subseteq Conns /\ generation \in [Generations -> GenerationRows]
  BY DEF Mailed, RowsTyped, SessionsTyped
<1>1. ASSUME NEW k \in CreationKeys, NEW c \in Conns, Mail!BeginCreate(s, k, c)
      PROVE  Mailed'
  <2> DEFINE x == [Mail!Idle EXCEPT !.op = "create", !.at = "user", !.conn = c, !.key = k]
  <2>1. Placed(x) /\ Knows(x) /\ ~InScope(x)
    OBVIOUS
  <2> HIDE DEF x
  <2> QED
    BY <1>0, <1>1, <2>1, SessionMoves, Zenon DEF Mail!BeginCreate, x
<1>2. ASSUME NEW d \in Drafts, NEW c \in Conns \cup {None}, Mail!BeginUpdate(s, d, c)
      PROVE  Mailed'
  <2> DEFINE x == [Mail!Idle EXCEPT !.op = "update", !.at = "user", !.draft = d,
                                    !.base = draft[d].version, !.conn = c]
  <2>1. Placed(x) /\ Knows(x) /\ ~InScope(x)
    BY <1>0 DEF DraftRows
  <2> HIDE DEF x
  <2> QED
    BY <1>0, <1>2, <2>1, SessionMoves, Zenon DEF Mail!BeginUpdate, x
<1>3. ASSUME NEW g \in Generations, Mail!BeginGeneration(s, g)
      PROVE  Mailed'
  <2> DEFINE x == [Mail!Idle EXCEPT !.op = "update", !.at = "model",
                                    !.draft = generation[g].draft,
                                    !.base = generation[g].base, !.gen = g]
  <2>1. Placed(x) /\ Knows(x) /\ ~InScope(x)
    BY <1>0, <1>3 DEF GenerationRows, Mail!BeginGeneration
  <2>2. generation' = [generation EXCEPT ![g] = [generation[g] EXCEPT !.owner = s]]
    BY <1>3 DEF Mail!BeginGeneration
  <2>3. generation' \in [Generations -> GenerationRows]
    BY <1>0, <2>2 DEF GenerationRows
  <2>4. mailSes' = [mailSes EXCEPT ![s] = x] /\ UNCHANGED <<enabled, draft, source, mailTask>>
    BY <1>3, Zenon DEF Mail!BeginGeneration, x
  <2> HIDE DEF x
  <2> QED
    BY <2>1, <2>3, <2>4, SessionMoves
<1>4. ASSUME NEW d \in Drafts, NEW k \in SubmitKeys, Mail!BeginSubmit(s, d, k)
      PROVE  Mailed'
  <2> DEFINE x == [Mail!Idle EXCEPT !.op = "submit", !.at = "scope", !.draft = d,
                                    !.base = draft[d].version, !.conn = draft[d].conn, !.key = k]
  <2>0. draft[d].conn \in Conns
    BY <1>4 DEF Mail!BeginSubmit, Mailed, RowsTyped
  <2>1. Placed(x) /\ Knows(x) /\ ~InScope(x)
    BY <1>0, <2>0 DEF DraftRows
  <2> HIDE DEF x
  <2> QED
    BY <1>0, <1>4, <2>1, SessionMoves, Zenon DEF Mail!BeginSubmit, x
<1>5. ASSUME NEW t \in Mail!Tasks, Mail!BeginDecide(s, t)
      PROVE  Mailed'
  <2> DEFINE x == [Mail!Idle EXCEPT !.op = "decide", !.at = "user", !.held = {t}]
  <2>0. {t} \in SUBSET Nat /\ t \in 1..Len(mailTask)
    BY LenProperties DEF Mail!Tasks, Mailed, RowsTyped
  <2>1. Placed(x) /\ Knows(x) /\ ~InScope(x)
    BY <2>0
  <2> HIDE DEF x
  <2> QED
    BY <1>0, <1>5, <2>1, SessionMoves, Zenon DEF Mail!BeginDecide, x
<1>6. ASSUME NEW c \in Conns, Mail!BeginRevoke(s, c)
      PROVE  Mailed'
  <2> DEFINE C == Mail!Candidates(c)
             x == [Mail!Idle EXCEPT !.op = "revoke", !.conn = c, !.want = C,
                                    !.at = IF C = {} THEN "user" ELSE "tasks"]
  <2>1. C \subseteq 1..Len(mailTask)
    BY DEF Mail!Candidates, Mail!Tasks
  <2>2. C \in SUBSET Nat
    BY <2>1, LenProperties DEF Mailed, RowsTyped
  <2>3. Placed(x)
    <3> HIDE DEF C
    <3> QED
      BY <2>1, <2>2
  <2>4. \A t \in 1..Len(mailTask) :
          mailTask[t].state # "closed" /\ mailTask[t].conn = c => t \in C
    BY LiveAlone DEF Mail!Candidates, Mail!Tasks, Mail!Live
  <2>5. Knows(x)
    BY <2>4
  <2>6. \A r \in Sessions : InScope(mailSes[r]) => mailSes[r].conn # x.conn
    BY <1>6 DEF Mail!BeginRevoke, Mail!ScopeFree, Mail!ScopeHeld
  <2>7. mailSes' = [mailSes EXCEPT ![s] = x]
        /\ UNCHANGED <<enabled, draft, source, mailTask, generation>>
    BY <1>6, Zenon DEF Mail!BeginRevoke, x
  <2> HIDE DEF x
  <2> QED
    BY <1>0, <2>3, <2>5, <2>6, <2>7, SessionMoves
<1> QED
  BY <1>1, <1>2, <1>3, <1>4, <1>5, <1>6 DEF Mail!Begin

LEMMA LockKeeps ==
  ASSUME Mailed, NEW s \in Sessions, Mail!Lock(s) \/ Mail!Crash(s) \/ Mail!GenerationFails(s)
  PROVE  Mailed'
<1> USE DEF Mail!Become
<1>0. /\ mailSes[s] \in MailSessions /\ Placed(mailSes[s]) /\ Knows(mailSes[s])
      /\ generation \in [Generations -> GenerationRows]
      /\ \A g \in Generations : generation[g] \in GenerationRows
  BY DEF Mailed, RowsTyped, SessionsTyped, RevokersKnow
<1>1. Placed(Mail!Idle) /\ Knows(Mail!Idle) /\ ~InScope(Mail!Idle)
  BY DEF Mail!Idle, Placed, MailSessions, Knows, InScope
<1>2. CASE Mail!Crash(s)
  BY <1>0, <1>1, <1>2, SessionMoves DEF Mail!Crash, Mail!Leave
<1>3. CASE Mail!GenerationFails(s)
  <2>1. /\ mailSes' = [mailSes EXCEPT ![s] = Mail!Idle] /\ UNCHANGED <<enabled, draft, source, mailTask>>
        /\ generation' = Mail!Marked(mailSes[s].gen)
    BY <1>3 DEF Mail!GenerationFails, Mail!Leave
  <2>2. generation' \in [Generations -> GenerationRows]
    BY <2>1, <1>0 DEF Mail!Marked, GenerationRows
  <2> QED
    BY <1>1, <2>1, <2>2, SessionMoves
<1>4. CASE Mail!LockGeneration(s)
  <2> DEFINE x == [mailSes[s] EXCEPT !.at = "user"]
  <2>1. mailSes[s].at = "model" /\ UNCHANGED <<enabled, draft, source, mailTask, generation>>
        /\ (mailSes' = [mailSes EXCEPT ![s] = x] \/ mailSes' = [mailSes EXCEPT ![s] = Mail!Idle])
    BY <1>4 DEF Mail!LockGeneration, Mail!At, Mail!Leave
  <2>2. Placed(x) /\ Knows(x) /\ ~InScope(x)
    BY <1>0, <2>1 DEF Placed, MailSessions, Knows, InScope
  <2> HIDE DEF x
  <2> QED
    BY <1>0, <1>1, <2>1, <2>2, SessionMoves
<1>5. CASE Mail!LockScope(s)
  <2> DEFINE x == [mailSes[s] EXCEPT !.at = "user"]
  <2>1. mailSes[s].at = "scope" /\ UNCHANGED <<enabled, draft, source, mailTask, generation>>
        /\ mailSes' = [mailSes EXCEPT ![s] = x]
    BY <1>5 DEF Mail!LockScope, Mail!At
  <2>2. Placed(x) /\ Knows(x)
    BY <1>0, <2>1 DEF Placed, MailSessions, Knows
  <2>3. x.conn = mailSes[s].conn
    BY <1>0 DEF MailSessions
  <2>4. \A r \in Sessions : InScope(mailSes[r]) => mailSes[r].conn # x.conn
    BY <1>5, <2>3 DEF Mail!LockScope, Mail!ScopeFree, Mail!ScopeHeld, InScope
  <2> HIDE DEF x
  <2> QED
    BY <1>0, <2>1, <2>2, <2>4, SessionMoves
<1>6. CASE Mail!LockTask(s)
  <2>1. PICK t \in mailSes[s].want :
          /\ mailSes[s].at = "tasks" /\ UNCHANGED <<enabled, draft, source, mailTask, generation>>
          /\ mailSes' = [mailSes EXCEPT ![s] =
               [mailSes[s] EXCEPT !.want = @ \ {t}, !.held = @ \cup {t},
                                  !.at = IF mailSes[s].want = {t} THEN "user" ELSE "tasks"]]
    BY <1>6 DEF Mail!LockTask
  <2> DEFINE x == [mailSes[s] EXCEPT !.want = @ \ {t}, !.held = @ \cup {t},
                                     !.at = IF mailSes[s].want = {t} THEN "user" ELSE "tasks"]
  <2>2. /\ x \in MailSessions /\ x.want = mailSes[s].want \ {t} /\ x.held = mailSes[s].held \cup {t}
        /\ x.at = IF mailSes[s].want = {t} THEN "user" ELSE "tasks"
        /\ x.op = mailSes[s].op /\ x.conn = mailSes[s].conn /\ x.draft = mailSes[s].draft
        /\ x.key = mailSes[s].key /\ x.gen = mailSes[s].gen /\ mailSes[s].op = "revoke"
    BY <1>0, <2>1 DEF MailSessions, Placed
  <2> HIDE DEF x
  <2>3. Placed(x) /\ Knows(x)
    BY <1>0, <2>1, <2>2 DEF Placed, Knows
  <2>4. InScope(mailSes[s])
    BY <2>1, <2>2 DEF InScope
  <2>5. \A r \in Sessions \ {s} : InScope(mailSes[r]) => mailSes[r].conn # x.conn
    BY <2>2, <2>4 DEF Mailed, OneInScope
  <2>6. mailSes' = [mailSes EXCEPT ![s] = x]
    BY <2>1 DEF x
  <2> QED
    BY <1>0, <2>1, <2>3, <2>5, <2>6, SessionMoves
<1> QED
  BY <1>2, <1>3, <1>4, <1>5, <1>6 DEF Mail!Lock

\* What the steps that write know of the rows.
LEMMA RowsKnown ==
  ASSUME Mailed
  PROVE  /\ Len(mailTask) \in Nat /\ \A t \in 1..Len(mailTask) : mailTask[t] \in TaskRows
         /\ \A d \in Drafts : draft[d] \in DraftRows
         /\ \A s \in Sessions : mailSes[s] \in MailSessions /\ Placed(mailSes[s])
  BY LenProperties, ElementOfSeq DEF Mailed, RowsTyped, SessionsTyped

\* A draft that nobody has submitted may change, if its history follows.
LEMMA DraftChanges ==
  ASSUME Mailed, NEW d \in Drafts, NEW row \in DraftRows,
         draft[d].status \notin {"awaiting_approval", "executing", "needs_attention"},
         row.status \in {"editing", "cancelled"}, row.conn \in Conns,
         draft' = [draft EXCEPT ![d] = row],
         UNCHANGED enabled, generation' \in [Generations -> GenerationRows],
         mailTask' \in Seq(TaskRows), Len(mailTask') = Len(mailTask),
         \A t \in 1..Len(mailTask) :
           /\ mailTask'[t].draft = mailTask[t].draft /\ mailTask'[t].version = mailTask[t].version
           /\ mailTask'[t].conn = mailTask[t].conn /\ mailTask'[t].state = mailTask[t].state,
         \/ row.version = draft[d].version /\ UNCHANGED source
         \/ /\ row.version = draft[d].version + 1
            /\ source' = [source EXCEPT ![d] = Append(source[d], draft[d].version)]
  PROVE  /\ RowsTyped' /\ Written' /\ NothingLost'
         /\ MailFrozenIsCurrent' /\ RevocationComplete'
<1>0. \A e \in Drafts : draft'[e] = IF e = d THEN row ELSE draft[e]
  BY DEF Mailed, RowsTyped
<1>1. RowsTyped'
  BY <1>0 DEF Mailed, RowsTyped
<1>2. Written' /\ NothingLost'
  <2>1. CASE row.version = draft[d].version /\ UNCHANGED source
    BY <1>0, <2>1 DEF Mailed, Written, NothingLost, Mail!NothingLost
  <2>2. CASE /\ row.version = draft[d].version + 1
             /\ source' = [source EXCEPT ![d] = Append(source[d], draft[d].version)]
    <3>1. source[d] \in Seq(Nat) /\ draft[d].version \in Nat /\ Len(source[d]) = draft[d].version
      BY RowsKnown DEF Mailed, Written, DraftRows
    <3>2. /\ source'[d] \in Seq(Nat) /\ Len(source'[d]) = row.version
          /\ \A v \in 1..Len(source[d]) : source'[d][v] = source[d][v]
          /\ source'[d][row.version] = draft[d].version
      BY <2>2, <3>1, AppendProperties DEF Mailed, Written
    <3>3. \A e \in Drafts \ {d} : source'[e] = source[e]
      BY <2>2 DEF Mailed, Written
    <3>4. source' \in [Drafts -> Seq(Nat)]
      BY <2>2, <3>1, AppendProperties DEF Mailed, Written
    <3>5. Written'
      BY <1>0, <3>2, <3>3, <3>4 DEF Mailed, Written
    <3>6. ASSUME NEW v \in 1..Len(source'[d]) PROVE source'[d][v] = v - 1
      BY <2>2, <3>1, <3>2 DEF Mailed, NothingLost, Mail!NothingLost
    <3>7. NothingLost'
      BY <3>3, <3>6 DEF Mailed, NothingLost, Mail!NothingLost
    <3> QED
      BY <3>5, <3>7
  <2> QED
    BY <2>1, <2>2
<1>3. ASSUME NEW t \in 1..Len(mailTask), mailTask[t].state # "closed"
      PROVE  mailTask[t].draft # d
  BY <1>3, LiveAlone
<1>4. MailFrozenIsCurrent'
  <2>1. \A t \in 1..Len(mailTask) : mailTask[t].draft \in Drafts
    BY RowsKnown DEF TaskRows
  <2>2. \A t \in 1..Len(mailTask) : mailTask[t].state # "closed" =>
          draft'[mailTask[t].draft] = draft[mailTask[t].draft]
    BY <1>0, <1>3, <2>1
  <2> QED
    BY <1>0, <1>3, <2>2 DEF Mailed, MailFrozenIsCurrent, Mail!FrozenIsCurrent, Mail!Tasks, Mail!Of,
       Mail!Live, Mail!Open
<1>5. RevocationComplete'
  BY DEF Mailed, RevocationComplete, Mail!RevocationComplete, Mail!Open, Mail!Tasks
<1> QED
  BY <1>1, <1>2, <1>4, <1>5

LEMMA CancelKeeps ==
  ASSUME Mailed, NEW d \in Drafts, Mail!CancelDraft(d)
  PROVE  Mailed'
<1> DEFINE row == [draft[d] EXCEPT !.status = "cancelled"]
<1>1. /\ draft[d].status = "editing" /\ draft' = [draft EXCEPT ![d] = row]
      /\ UNCHANGED <<enabled, source, mailTask, generation, mailSes>>
  BY DEF Mail!CancelDraft
<1>2. row \in DraftRows /\ row.status = "cancelled" /\ row.conn = draft[d].conn
      /\ row.version = draft[d].version /\ draft[d].conn \in Conns
  BY <1>1, RowsKnown DEF DraftRows, Mail!DraftStatuses, Mailed, RowsTyped
<1> HIDE DEF row
<1>3. RowsTyped' /\ Written' /\ NothingLost' /\ MailFrozenIsCurrent' /\ RevocationComplete'
  BY <1>1, <1>2, DraftChanges DEF Mailed, RowsTyped
<1>4. SessionsTyped' /\ OneInScope' /\ RevokersKnow'
  BY <1>1 DEF Mailed, SessionsTyped, Placed, OneInScope, RevokersKnow, Knows
<1> QED
  BY <1>3, <1>4 DEF Mailed

LEMMA InsertKeeps ==
  ASSUME Mailed, NEW s \in Sessions, Mail!InsertDraft(s)
  PROVE  Mailed'
<1>0. /\ mailSes[s] \in MailSessions /\ mailSes[s].conn \in Conns /\ mailSes[s].key \in CreationKeys
      /\ mailSes' = [mailSes EXCEPT ![s] = Mail!Idle]
      /\ UNCHANGED <<enabled, mailTask, generation>>
  BY RowsKnown DEF Mail!InsertDraft, Mail!Working, Mail!Leave, Mail!Become, Placed
<1>1. CASE UNCHANGED <<draft, source>>
  <2>1. Placed(Mail!Idle) /\ Knows(Mail!Idle) /\ ~InScope(Mail!Idle)
    BY DEF Mail!Idle, Placed, MailSessions, Knows, InScope
  <2> QED
    BY <1>0, <1>1, <2>1, SessionMoves DEF Mailed, RowsTyped
<1>2. CASE ~ UNCHANGED <<draft, source>>
  <2> DEFINE row == [status |-> "editing", version |-> 1,
                     conn |-> mailSes[s].conn, key |-> mailSes[s].key]
  <2>1. PICK d \in Drafts :
          /\ draft[d].status = "absent" /\ draft' = [draft EXCEPT ![d] = row]
          /\ source' = [source EXCEPT ![d] = <<0>>]
    BY <1>2, Zenon DEF Mail!InsertDraft
  <2>2. row \in DraftRows /\ row.status = "editing" /\ row.conn \in Conns /\ row.version = 1
    BY <1>0 DEF DraftRows, Mail!DraftStatuses
  <2>3. draft[d].version = 0 /\ source[d] \in Seq(Nat) /\ Len(source[d]) = 0
    BY <2>1 DEF Mailed, RowsTyped, Written
  <2>4. <<0>> = Append(source[d], draft[d].version)
    BY <2>3, EmptySeq
  <2> HIDE DEF row
  <2>5. /\ generation' \in [Generations -> GenerationRows] /\ UNCHANGED enabled
        /\ mailTask' \in Seq(TaskRows) /\ UNCHANGED mailTask
    BY <1>0 DEF Mailed, RowsTyped
  <2>6. RowsTyped' /\ Written' /\ NothingLost' /\ MailFrozenIsCurrent' /\ RevocationComplete'
    <3>0. row.version = draft[d].version + 1
      BY <2>2, <2>3
    <3>1. source' = [source EXCEPT ![d] = Append(source[d], draft[d].version)]
      BY <2>1, <2>4, Zenon
    <3>2. draft[d].status \notin {"awaiting_approval", "executing", "needs_attention"}
      BY <2>1
    <3> QED
      BY <2>1, <2>2, <2>5, <3>0, <3>1, <3>2, DraftChanges
  <2>7. /\ Len(mailTask') >= Len(mailTask)
        /\ \A t \in 1..Len(mailTask') : mailTask'[t].state # "closed" =>
             /\ t \in 1..Len(mailTask) /\ mailTask[t].state # "closed"
             /\ mailTask[t].conn = mailTask'[t].conn
    BY <2>5, RowsKnown
  <2>8. SessionsTyped' /\ OneInScope' /\ RevokersKnow'
    BY <1>0, <2>6, <2>7, SessionEnds
  <2> QED
    BY <2>6, <2>8 DEF Mailed
<1> QED
  BY <1>1, <1>2

LEMMA SaveKeeps ==
  ASSUME Mailed, NEW s \in Sessions, Mail!SaveNextVersion(s)
  PROVE  Mailed'
<1> DEFINE d == mailSes[s].draft
<1>0. /\ mailSes[s] \in MailSessions /\ d \in Drafts /\ draft[d] \in DraftRows
      /\ mailSes' = [mailSes EXCEPT ![s] = Mail!Idle] /\ UNCHANGED enabled
      /\ generation' = IF mailSes[s].gen = None THEN generation
                       ELSE Mail!Marked(mailSes[s].gen)
  BY RowsKnown DEF Mail!SaveNextVersion, Mail!Working, Mail!Leave, Mail!Become, Placed
<1>1. generation' \in [Generations -> GenerationRows]
  BY <1>0 DEF Mailed, RowsTyped, Mail!Marked, GenerationRows
<1>2. CASE UNCHANGED <<draft, source, mailTask>>
  <2>1. Placed(Mail!Idle) /\ Knows(Mail!Idle) /\ ~InScope(Mail!Idle)
    BY DEF Mail!Idle, Placed, MailSessions, Knows, InScope
  <2> QED
    BY <1>0, <1>1, <1>2, <2>1, SessionMoves
<1>3. CASE Mail!Saves(s) /\ ~ UNCHANGED <<draft, source, mailTask>>
  <2> DEFINE row == [draft[d] EXCEPT !.version = @ + 1,
                                     !.conn = IF Mail!Moves(s) THEN mailSes[s].conn ELSE @]
  <2>1. /\ draft' = [draft EXCEPT ![d] = row]
        /\ source' = [source EXCEPT ![d] = Append(@, mailSes[s].base)]
        /\ mailTask' = IF Mail!Moves(s) THEN Mail!Bound(d) ELSE mailTask
    BY <1>3 DEF Mail!SaveNextVersion
  <2>2. /\ draft[d].version = mailSes[s].base /\ draft[d].status = "editing"
        /\ draft[d].conn \in Conns
    BY <1>0, <1>3 DEF Mail!Saves, Mailed, RowsTyped
  <2>3. /\ row \in DraftRows /\ row.status = "editing" /\ row.conn \in Conns
        /\ row.version = draft[d].version + 1
    <3>1. draft[d].version + 1 \in Nat /\ mailSes[s].conn \in Conns \cup {None}
      BY <1>0 DEF DraftRows, MailSessions
    <3>2. PICK c \in Conns : row = [draft[d] EXCEPT !.version = draft[d].version + 1, !.conn = c]
      BY <2>2, <3>1 DEF Mail!Moves
    <3> HIDE DEF row
    <3> QED
      BY <1>0, <2>2, <3>1, <3>2 DEF DraftRows
  <2>4. source' = [source EXCEPT ![d] = Append(source[d], draft[d].version)]
    BY <2>1, <2>2 DEF Mailed, Written
  <2> HIDE DEF row
  <2>5. /\ mailTask' \in Seq(TaskRows) /\ Len(mailTask') = Len(mailTask)
        /\ \A t \in 1..Len(mailTask) :
             /\ mailTask'[t].draft = mailTask[t].draft
             /\ mailTask'[t].version = mailTask[t].version
             /\ mailTask'[t].conn = mailTask[t].conn /\ mailTask'[t].state = mailTask[t].state
    <3>1. CASE ~Mail!Moves(s)
      BY <2>1, <3>1 DEF Mailed, RowsTyped
    <3>2. CASE Mail!Moves(s)
      <4>1. mailTask' = [t \in 1..Len(mailTask) |->
                 IF t \in Mail!Of(d) /\ mailTask[t].summary = None /\ mailTask[t].command
                 THEN [mailTask[t] EXCEPT !.summary = mailTask[t].conn] ELSE mailTask[t]]
        BY <2>1, <3>2 DEF Mail!Bound, Mail!Tasks
      <4>2. \A t \in 1..Len(mailTask) :
              mailTask'[t] = IF t \in Mail!Of(d) /\ mailTask[t].summary = None /\ mailTask[t].command
                             THEN [mailTask[t] EXCEPT !.summary = mailTask[t].conn]
                             ELSE mailTask[t]
        BY <4>1
      <4>3. ASSUME NEW t \in 1..Len(mailTask)
            PROVE  /\ mailTask'[t] \in TaskRows
                   /\ mailTask'[t].draft = mailTask[t].draft
                   /\ mailTask'[t].version = mailTask[t].version
                   /\ mailTask'[t].conn = mailTask[t].conn
                   /\ mailTask'[t].state = mailTask[t].state
        BY <4>2, RowsKnown DEF TaskRows
      <4>4. mailTask' \in Seq(TaskRows) /\ Len(mailTask') = Len(mailTask)
        BY <4>1, <4>3, RowsKnown, IsASeq
      <4> QED
        BY <4>3, <4>4
    <3> QED
      BY <3>1, <3>2
  <2>6. RowsTyped' /\ Written' /\ NothingLost' /\ MailFrozenIsCurrent' /\ RevocationComplete'
    BY <1>0, <1>1, <2>1, <2>2, <2>3, <2>4, <2>5, DraftChanges
  <2>7. /\ Len(mailTask') >= Len(mailTask)
        /\ \A t \in 1..Len(mailTask') : mailTask'[t].state # "closed" =>
             /\ t \in 1..Len(mailTask) /\ mailTask[t].state # "closed"
             /\ mailTask[t].conn = mailTask'[t].conn
    BY <2>5, RowsKnown
  <2>8. SessionsTyped' /\ OneInScope' /\ RevokersKnow'
    BY <1>0, <2>6, <2>7, SessionEnds
  <2> QED
    BY <2>6, <2>8 DEF Mailed
<1> QED
  BY <1>2, <1>3 DEF Mail!SaveNextVersion

LEMMA SubmitKeeps ==
  ASSUME Mailed, NEW s \in Sessions, Mail!Submit(s)
  PROVE  Mailed'
<1> DEFINE d == mailSes[s].draft
           c == mailSes[s].conn
           n == Len(mailTask)
<1>0. /\ mailSes[s] \in MailSessions /\ d \in Drafts /\ draft[d] \in DraftRows
      /\ c \in Conns /\ mailSes[s].key \in SubmitKeys /\ InScope(mailSes[s])
      /\ mailSes' = [mailSes EXCEPT ![s] = Mail!Idle] /\ UNCHANGED <<enabled, source, generation>>
      /\ n \in Nat
  BY RowsKnown DEF Mail!Submit, Mail!Working, Mail!Leave, Mail!Become, Placed, InScope
<1>1. CASE UNCHANGED <<mailTask, draft>>
  <2>1. Placed(Mail!Idle) /\ Knows(Mail!Idle) /\ ~InScope(Mail!Idle)
    BY DEF Mail!Idle, Placed, MailSessions, Knows, InScope
  <2> QED
    BY <1>0, <1>1, <2>1, SessionMoves DEF Mailed, RowsTyped
<1>2. CASE ~ UNCHANGED <<mailTask, draft>>
  <2>1. /\ Mail!Submittable(s) /\ mailTask' = Append(mailTask, Mail!Frozen(s))
        /\ draft' = [draft EXCEPT ![d] = [draft[d] EXCEPT !.status = "awaiting_approval"]]
    BY <1>2, Zenon DEF Mail!Submit
  <2>2. /\ draft[d].conn = c /\ draft[d].status = "editing" /\ draft[d].version = mailSes[s].base
        /\ c \in enabled
        /\ \A t \in 1..n : mailTask[t].draft = d => mailTask[t].version # draft[d].version
    BY <2>1 DEF Mail!Submittable, Mail!Consumed, Mail!Of, Mail!Tasks
  <2> DEFINE new == Mail!Frozen(s)
  <2>3. /\ new \in TaskRows /\ new.draft = d /\ new.version = draft[d].version /\ new.conn = c
        /\ new.state = "pending"
    BY <1>0, <2>2 DEF Mail!Frozen, TaskRows, DraftRows
  <2> HIDE DEF new
  <2>4. /\ mailTask' \in Seq(TaskRows) /\ Len(mailTask') = n + 1
        /\ \A t \in 1..n : mailTask'[t] = mailTask[t]
        /\ mailTask'[n + 1] = new
    BY <2>1, <2>3, AppendProperties DEF Mailed, RowsTyped, new
  <2>5. /\ draft' \in [Drafts -> DraftRows]
        /\ \A e \in Drafts : draft'[e].version = draft[e].version /\ draft'[e].conn = draft[e].conn
        /\ \A e \in Drafts : draft'[e].status = IF e = d THEN "awaiting_approval"
                                                ELSE draft[e].status
    BY <1>0, <2>1, RowsKnown DEF Mailed, RowsTyped, DraftRows, Mail!DraftStatuses
  <2>6. RowsTyped'
    BY <1>0, <2>2, <2>4, <2>5 DEF Mailed, RowsTyped
  <2>7. Written' /\ NothingLost'
    BY <1>0, <2>5 DEF Mailed, Written, NothingLost, Mail!NothingLost
  <2>8. RevocationComplete'
    BY <1>0, <2>2, <2>3, <2>4 DEF Mailed, RevocationComplete, Mail!RevocationComplete, Mail!Tasks,
       Mail!Open
  <2>9. MailFrozenIsCurrent'
    <3>1. ASSUME NEW t \in 1..(n + 1), mailTask'[t].state # "closed"
          PROVE  /\ draft'[mailTask'[t].draft].version = mailTask'[t].version
                 /\ draft'[mailTask'[t].draft].conn = mailTask'[t].conn
                 /\ draft'[mailTask'[t].draft].status \in
                      IF mailTask'[t].state \in {"pending", "approved"} THEN {"awaiting_approval"}
                      ELSE {"executing", "needs_attention"}
      <4>1. CASE t \in 1..n
        <5>1. mailTask'[t] = mailTask[t] /\ mailTask[t].state # "closed"
          BY <2>4, <3>1, <4>1
        <5>2. mailTask[t].draft # d /\ mailTask[t].draft \in Drafts
          BY <2>2, <4>1, <5>1, LiveAlone
        <5> QED
          BY <2>5, <4>1, <5>1, <5>2, LiveAlone
      <4>2. CASE t = n + 1
        BY <1>0, <2>2, <2>3, <2>4, <2>5, <4>2
      <4> QED
        BY <1>0, <4>1, <4>2
    <3>2. ASSUME NEW e \in Drafts,
                 draft'[e].status \in {"awaiting_approval", "executing", "needs_attention"}
          PROVE  \E t \in 1..(n + 1) : mailTask'[t].draft = e /\ mailTask'[t].state # "closed"
      <4>1. CASE e = d
        BY <1>0, <2>3, <2>4, <4>1
      <4>2. CASE e # d
        <5>1. PICK t \in 1..n : mailTask[t].draft = e /\ mailTask[t].state # "closed"
          BY <2>5, <3>2, <4>2 DEF Mailed, MailFrozenIsCurrent, Mail!FrozenIsCurrent, Mail!Of,
             Mail!Tasks, Mail!Live
        <5> QED
          BY <1>0, <2>4, <5>1
      <4> QED
        BY <4>1, <4>2
    <3>3. ASSUME NEW t \in 1..(n + 1), NEW u \in 1..(n + 1),
                 mailTask'[t].draft = mailTask'[u].draft,
                 mailTask'[t].version = mailTask'[u].version
          PROVE  t = u
      <4>1. \A v \in 1..(n + 1) : v \in 1..n \/ v = n + 1
        BY <1>0
      <4> QED
        BY <2>2, <2>3, <2>4, <3>3, <4>1 DEF Mailed, MailFrozenIsCurrent, Mail!FrozenIsCurrent,
           Mail!Tasks
    <3> QED
      BY <2>4, <3>1, <3>2, <3>3 DEF MailFrozenIsCurrent, Mail!FrozenIsCurrent, Mail!Tasks,
         Mail!Of, Mail!Live, Mail!Open
  <2>10. \A r \in Sessions \ {s} : InScope(mailSes[r]) => mailSes[r].conn # c
    BY <1>0 DEF Mailed, OneInScope
  <2>11. /\ Len(mailTask') >= Len(mailTask)
         /\ \A t \in 1..Len(mailTask') : mailTask'[t].state # "closed" =>
              \/ /\ t \in 1..Len(mailTask) /\ mailTask[t].state # "closed"
                 /\ mailTask[t].conn = mailTask'[t].conn
              \/ \A r \in Sessions \ {s} : InScope(mailSes[r]) => mailSes[r].conn # mailTask'[t].conn
    BY <1>0, <2>3, <2>4, <2>10
  <2>12. SessionsTyped' /\ OneInScope' /\ RevokersKnow'
    BY <1>0, <2>6, <2>11, SessionEnds
  <2> QED
    BY <2>6, <2>7, <2>8, <2>9, <2>12 DEF Mailed
<1> QED
  BY <1>1, <1>2

LEMMA HistoryStays ==
  ASSUME Mailed, UNCHANGED source, \A d \in Drafts : draft'[d].version = draft[d].version
  PROVE  Written' /\ NothingLost'
  BY DEF Mailed, Written, NothingLost, Mail!NothingLost

\* A step that only moves submissions along and takes permissions away.
LEMMA StatusesChange ==
  ASSUME Mailed, NEW s \in Sessions, mailSes' = [mailSes EXCEPT ![s] = Mail!Idle],
         UNCHANGED <<source, generation>>, enabled' \subseteq enabled,
         mailTask' \in Seq(TaskRows), Len(mailTask') = Len(mailTask),
         \A t \in 1..Len(mailTask) :
           /\ mailTask'[t].draft = mailTask[t].draft /\ mailTask'[t].version = mailTask[t].version
           /\ mailTask'[t].conn = mailTask[t].conn
           /\ mailTask[t].state = "closed" => mailTask'[t].state = "closed"
           /\ mailTask'[t].state \in {"pending", "approved"} => mailTask[t].conn \in enabled',
         draft' \in [Drafts -> DraftRows],
         \A d \in Drafts : /\ draft'[d].version = draft[d].version
                           /\ draft'[d].conn = draft[d].conn
                           /\ (draft[d].status = "absent" <=> draft'[d].status = "absent"),
         \A t \in 1..Len(mailTask) : mailTask'[t].state # "closed" =>
           draft'[mailTask[t].draft].status \in
             IF mailTask'[t].state \in {"pending", "approved"} THEN {"awaiting_approval"}
             ELSE {"executing", "needs_attention"},
         \A d \in Drafts :
           draft'[d].status \in {"awaiting_approval", "executing", "needs_attention"} =>
             \E t \in 1..Len(mailTask) : mailTask[t].draft = d /\ mailTask'[t].state # "closed"
  PROVE  Mailed'
<1>1. RowsTyped'
  <2>1. ASSUME NEW d \in Drafts
        PROVE  /\ draft'[d].status = "absent" => draft'[d].version = 0
               /\ draft'[d].status # "absent" => draft'[d].conn \in Conns
    <3>1. draft[d].status = "absent" <=> draft'[d].status = "absent"
      OBVIOUS
    <3>2. draft'[d].version = draft[d].version /\ draft'[d].conn = draft[d].conn
      OBVIOUS
    <3>3. /\ draft[d].status = "absent" => draft[d].version = 0
          /\ draft[d].status # "absent" => draft[d].conn \in Conns
      BY DEF Mailed, RowsTyped
    <3> QED
      BY <3>1, <3>2, <3>3
  <2>2. enabled' \subseteq Conns /\ generation' \in [Generations -> GenerationRows]
    BY DEF Mailed, RowsTyped
  <2> QED
    BY <2>1, <2>2 DEF RowsTyped
<1>2. Written' /\ NothingLost'
  BY HistoryStays
<1>3. RevocationComplete'
  BY DEF RevocationComplete, Mail!RevocationComplete, Mail!Tasks, Mail!Open
<1>4. MailFrozenIsCurrent'
  <2>1. ASSUME NEW t \in 1..Len(mailTask), mailTask'[t].state # "closed"
        PROVE  /\ draft'[mailTask'[t].draft].version = mailTask'[t].version
               /\ draft'[mailTask'[t].draft].conn = mailTask'[t].conn
    BY <2>1, LiveAlone
  <2> QED
    BY <2>1 DEF Mailed, MailFrozenIsCurrent, Mail!FrozenIsCurrent, Mail!Tasks, Mail!Of, Mail!Live,
       Mail!Open
<1>5. /\ Len(mailTask') >= Len(mailTask)
      /\ \A t \in 1..Len(mailTask') : mailTask'[t].state # "closed" =>
           /\ t \in 1..Len(mailTask) /\ mailTask[t].state # "closed"
           /\ mailTask[t].conn = mailTask'[t].conn
  BY RowsKnown
<1>6. SessionsTyped' /\ OneInScope' /\ RevokersKnow'
  BY <1>1, <1>5, SessionEnds
<1> QED
  BY <1>1, <1>2, <1>3, <1>4, <1>6 DEF Mailed

LEMMA OutcomesMean ==
  ASSUME Mailed, NEW t \in 1..Len(mailTask), NEW o \in Mail!Outcomes(t)
  PROVE  \/ /\ mailTask[t].state = "closed" /\ o[1] = "closed"
            /\ o[2] = draft[mailTask[t].draft].status
         \/ mailTask[t].state # "closed" /\ o[1] = "closed" /\ o[2] \in {"editing", "sent"}
         \/ /\ mailTask[t].state = "pending" /\ o[1] = "approved" /\ o[2] = "awaiting_approval"
         \/ /\ mailTask[t].state \in {"approved", "claimed"}
            /\ o[1] = "claimed" /\ o[2] \in {"executing", "needs_attention"}
<1>1. mailTask[t].state \in {"pending", "approved", "claimed", "closed"}
  BY RowsKnown DEF TaskRows
<1> QED
  BY <1>1 DEF Mail!Outcomes

LEMMA DecideKeeps ==
  ASSUME Mailed, NEW s \in Sessions, Mail!Decide(s)
  PROVE  Mailed'
<1>0. PICK t \in mailSes[s].held : \E o \in Mail!Outcomes(t) :
        /\ mailTask' = [mailTask EXCEPT ![t].state = o[1]]
        /\ draft' = [draft EXCEPT ![mailTask[t].draft].status = o[2]]
  BY DEF Mail!Decide
<1>1. PICK o \in Mail!Outcomes(t) :
        /\ mailTask' = [mailTask EXCEPT ![t] = [mailTask[t] EXCEPT !.state = o[1]]]
        /\ draft' = [draft EXCEPT ![mailTask[t].draft] =
                       [draft[mailTask[t].draft] EXCEPT !.status = o[2]]]
  BY <1>0
<1> DEFINE d == mailTask[t].draft
<1>2. /\ mailSes' = [mailSes EXCEPT ![s] = Mail!Idle] /\ UNCHANGED <<source, generation>>
      /\ enabled' = enabled
  BY DEF Mail!Decide, Mail!Leave, Mail!Become
<1>3. /\ t \in 1..Len(mailTask) /\ mailTask[t] \in TaskRows /\ d \in Drafts
      /\ draft[d] \in DraftRows
  BY RowsKnown DEF Placed, TaskRows
<1>4. \/ mailTask[t].state = "closed" /\ o[1] = "closed" /\ o[2] = draft[d].status
      \/ mailTask[t].state # "closed" /\ o[1] = "closed" /\ o[2] \in {"editing", "sent"}
      \/ mailTask[t].state = "pending" /\ o[1] = "approved" /\ o[2] = "awaiting_approval"
      \/ /\ mailTask[t].state \in {"approved", "claimed"}
         /\ o[1] = "claimed" /\ o[2] \in {"executing", "needs_attention"}
  BY <1>3, OutcomesMean
<1>5. /\ o[1] \in {"pending", "approved", "claimed", "closed"} /\ o[2] \in Mail!DraftStatuses
      /\ mailTask[t].state = "closed" => o[1] = "closed" /\ o[2] = draft[d].status
  BY <1>3, <1>4 DEF TaskRows, DraftRows, Mail!DraftStatuses
<1>6. /\ [mailTask[t] EXCEPT !.state = o[1]] \in TaskRows
      /\ [mailTask[t] EXCEPT !.state = o[1]].state = o[1]
      /\ [draft[d] EXCEPT !.status = o[2]] \in DraftRows
      /\ [draft[d] EXCEPT !.status = o[2]].status = o[2]
  BY <1>3, <1>5 DEF TaskRows, DraftRows
<1>7. /\ mailTask' \in Seq(TaskRows) /\ Len(mailTask') = Len(mailTask)
      /\ \A u \in 1..Len(mailTask) : u # t => mailTask'[u] = mailTask[u]
      /\ mailTask'[t].state = o[1]
      /\ mailTask'[t].draft = d /\ mailTask'[t].version = mailTask[t].version
      /\ mailTask'[t].conn = mailTask[t].conn
  <2> DEFINE row == [mailTask[t] EXCEPT !.state = o[1]]
  <2>1. /\ row \in TaskRows /\ row.state = o[1] /\ row.draft = d
        /\ row.version = mailTask[t].version /\ row.conn = mailTask[t].conn
    BY <1>3, <1>6 DEF TaskRows
  <2>2. mailTask' = [mailTask EXCEPT ![t] = row] /\ mailTask \in Seq(TaskRows)
    BY <1>1 DEF Mailed, RowsTyped
  <2> HIDE DEF row
  <2>3. /\ mailTask' \in Seq(TaskRows) /\ Len(mailTask') = Len(mailTask)
        /\ \A u \in 1..Len(mailTask) : mailTask'[u] = IF u = t THEN row ELSE mailTask[u]
    BY <1>3, <2>1, <2>2, ExceptSeq
  <2> QED
    BY <1>3, <2>1, <2>3
<1>8. /\ draft' \in [Drafts -> DraftRows]
      /\ \A e \in Drafts : e # d => draft'[e] = draft[e]
      /\ draft'[d].status = o[2] /\ draft'[d].version = draft[d].version
      /\ draft'[d].conn = draft[d].conn
  <2> DEFINE row == [draft[d] EXCEPT !.status = o[2]]
  <2>1. /\ row \in DraftRows /\ row.status = o[2] /\ row.version = draft[d].version
        /\ row.conn = draft[d].conn
    BY <1>3, <1>6 DEF DraftRows
  <2>2. draft' = [draft EXCEPT ![d] = row] /\ draft \in [Drafts -> DraftRows]
    BY <1>1 DEF Mailed, RowsTyped
  <2> HIDE DEF row
  <2> QED
    BY <1>3, <2>1, <2>2
<1>9. draft[d].status = "absent" <=> draft'[d].status = "absent"
  BY <1>3, <1>4, <1>8, LiveAlone
<1>10. ASSUME NEW u \in 1..Len(mailTask)
       PROVE  /\ mailTask'[u].draft = mailTask[u].draft
              /\ mailTask'[u].version = mailTask[u].version
              /\ mailTask'[u].conn = mailTask[u].conn
              /\ mailTask[u].state = "closed" => mailTask'[u].state = "closed"
              /\ mailTask'[u].state \in {"pending", "approved"} => mailTask[u].conn \in enabled'
  <2>1. mailTask[u].state \in {"pending", "approved"} => mailTask[u].conn \in enabled'
    BY <1>2 DEF Mailed, RevocationComplete, Mail!RevocationComplete, Mail!Tasks, Mail!Open
  <2> QED
    BY <1>4, <1>7, <2>1
<1>11. ASSUME NEW u \in 1..Len(mailTask), mailTask'[u].state # "closed"
       PROVE  draft'[mailTask[u].draft].status \in
                IF mailTask'[u].state \in {"pending", "approved"} THEN {"awaiting_approval"}
                ELSE {"executing", "needs_attention"}
  <2>1. CASE u = t
    BY <1>4, <1>7, <1>8, <1>11, <2>1
  <2>2. CASE u # t
    <3>1. mailTask'[u] = mailTask[u] /\ mailTask[u].state # "closed"
      BY <1>7, <1>11, <2>2
    <3>2. mailTask[t].state # "closed" => mailTask[u].draft # d
      BY <1>3, <2>2, <3>1, LiveAlone
    <3>3. mailTask[u].draft \in Drafts
      BY <3>1, LiveAlone
    <3>4. draft'[mailTask[u].draft].status = draft[mailTask[u].draft].status
      BY <1>5, <1>8, <3>2, <3>3
    <3> QED
      BY <3>1, <3>4, LiveAlone
  <2> QED
    BY <2>1, <2>2
<1>12. ASSUME NEW e \in Drafts,
              draft'[e].status \in {"awaiting_approval", "executing", "needs_attention"}
       PROVE  \E u \in 1..Len(mailTask) : mailTask[u].draft = e /\ mailTask'[u].state # "closed"
  <2>1. CASE e = d /\ mailTask[t].state # "closed"
    BY <1>3, <1>4, <1>7, <1>8, <1>12, <2>1
  <2>2. CASE ~ (e = d /\ mailTask[t].state # "closed")
    <3>1. draft'[e].status = draft[e].status
      BY <1>5, <1>8, <2>2
    <3>2. PICK u \in 1..Len(mailTask) : mailTask[u].draft = e /\ mailTask[u].state # "closed"
      BY <1>12, <3>1 DEF Mailed, MailFrozenIsCurrent, Mail!FrozenIsCurrent, Mail!Of, Mail!Tasks,
         Mail!Live
    <3>3. u # t
      BY <2>2, <3>2
    <3> QED
      BY <1>7, <3>2, <3>3
  <2> QED
    BY <2>1, <2>2
<1>13. \A e \in Drafts : /\ draft'[e].version = draft[e].version
                         /\ draft'[e].conn = draft[e].conn
                         /\ (draft[e].status = "absent" <=> draft'[e].status = "absent")
  BY <1>8, <1>9
<1> QED
  BY <1>2, <1>7, <1>8, <1>10, <1>11, <1>12, <1>13, StatusesChange

LEMMA RevokeKeeps ==
  ASSUME Mailed, NEW s \in Sessions, Mail!Revoke(s)
  PROVE  Mailed'
<1> DEFINE c == mailSes[s].conn
           T == {t \in mailSes[s].held : draft[mailTask[t].draft].conn = c}
           n == Len(mailTask)
<1>1. /\ mailTask' = Mail!TasksWithout(T) /\ draft' = Mail!DraftsWithout(T)
      /\ enabled' = enabled \ {c} /\ UNCHANGED <<source, generation>>
      /\ mailSes' = [mailSes EXCEPT ![s] = Mail!Idle]
      /\ mailSes[s].op = "revoke" /\ mailSes[s].at = "user"
  BY DEF Mail!Revoke, Mail!Working, Mail!Leave, Mail!Become
<1>2. /\ n \in Nat /\ T \subseteq 1..n
      /\ \A t \in 1..n : mailTask[t].state # "closed" /\ mailTask[t].conn = c => t \in T
  <2>1. mailSes[s].held \subseteq 1..n /\ n \in Nat
    BY RowsKnown DEF Placed
  <2>2. \A t \in 1..n : mailTask[t].state # "closed" /\ mailTask[t].conn = c => t \in mailSes[s].held
    BY <1>1 DEF Mailed, RevokersKnow, Knows
  <2> QED
    BY <2>1, <2>2, LiveAlone
<1> HIDE DEF T
<1>3. \A t \in 1..n :
        mailTask'[t] = IF t \in T /\ Mail!Withdrawn(t)
                       THEN [mailTask[t] EXCEPT !.state = "closed"] ELSE mailTask[t]
  BY <1>1 DEF Mail!TasksWithout, Mail!Tasks
<1>4. ASSUME NEW t \in 1..n
      PROVE  /\ mailTask'[t] \in TaskRows /\ mailTask'[t].draft = mailTask[t].draft
             /\ mailTask'[t].version = mailTask[t].version /\ mailTask'[t].conn = mailTask[t].conn
             /\ mailTask'[t].state = IF t \in T /\ Mail!Withdrawn(t) THEN "closed"
                                     ELSE mailTask[t].state
  BY <1>3, RowsKnown DEF TaskRows
<1>5. mailTask' \in Seq(TaskRows) /\ Len(mailTask') = n
  <2>1. mailTask' = [t \in 1..n |-> IF t \in T /\ Mail!Withdrawn(t)
                                    THEN [mailTask[t] EXCEPT !.state = "closed"]
                                    ELSE mailTask[t]]
    BY <1>1 DEF Mail!TasksWithout, Mail!Tasks
  <2> QED
    BY <1>2, <1>3, <1>4, <2>1, IsASeq
<1>6. \A d \in Drafts :
        draft'[d] = IF \E t \in T : mailTask[t].draft = d /\ Mail!Withdrawn(t)
                    THEN [draft[d] EXCEPT !.status = "editing"]
                    ELSE IF \E t \in T : mailTask[t].draft = d /\ Mail!Doubtful(t)
                    THEN [draft[d] EXCEPT !.status = "needs_attention"]
                    ELSE draft[d]
  BY <1>1 DEF Mail!DraftsWithout
<1>7. ASSUME NEW d \in Drafts
      PROVE  /\ draft'[d] \in DraftRows /\ draft'[d].version = draft[d].version
             /\ draft'[d].conn = draft[d].conn
             /\ draft'[d].status =
                  IF \E t \in T : mailTask[t].draft = d /\ Mail!Withdrawn(t) THEN "editing"
                  ELSE IF \E t \in T : mailTask[t].draft = d /\ Mail!Doubtful(t)
                  THEN "needs_attention" ELSE draft[d].status
  <2>1. \E st \in {"editing", "needs_attention", draft[d].status} :
          draft'[d] = [draft[d] EXCEPT !.status = st]
            /\ st = IF \E t \in T : mailTask[t].draft = d /\ Mail!Withdrawn(t) THEN "editing"
                    ELSE IF \E t \in T : mailTask[t].draft = d /\ Mail!Doubtful(t)
                    THEN "needs_attention" ELSE draft[d].status
    BY <1>6, RowsKnown DEF DraftRows
  <2> QED
    BY <2>1, RowsKnown DEF DraftRows, Mail!DraftStatuses
<1>8. draft' \in [Drafts -> DraftRows]
  BY <1>1, <1>7 DEF Mail!DraftsWithout
<1>9. ASSUME NEW t \in T
      PROVE  /\ Mail!Withdrawn(t) => mailTask[t].state # "closed"
             /\ Mail!Doubtful(t) => mailTask[t].state = "claimed"
  BY DEF Mail!Withdrawn, Mail!Doubtful, Mail!Open
<1>10. ASSUME NEW t \in 1..n
       PROVE  /\ mailTask[t].state = "closed" => mailTask'[t].state = "closed"
              /\ mailTask'[t].state \in {"pending", "approved"} => mailTask[t].conn \in enabled'
  <2>1. mailTask[t].state = "closed" => mailTask'[t].state = "closed"
    BY <1>4
  <2>2. ASSUME mailTask'[t].state \in {"pending", "approved"}
        PROVE  mailTask[t].conn \in enabled'
    <3>1. mailTask[t].state \in {"pending", "approved"} /\ ~ (t \in T /\ Mail!Withdrawn(t))
      BY <1>4, <2>2
    <3>2. mailTask[t].conn \in enabled
      BY <3>1 DEF Mailed, RevocationComplete, Mail!RevocationComplete, Mail!Tasks, Mail!Open
    <3>3. Mail!Withdrawn(t)
      BY <3>1, LiveAlone DEF Mail!Withdrawn, Mail!Open
    <3>4. mailTask[t].conn # c
      BY <1>2, <3>1, <3>3
    <3> QED
      BY <1>1, <3>2, <3>4
  <2> QED
    BY <2>1, <2>2
<1>11. ASSUME NEW t \in 1..n, mailTask'[t].state # "closed"
       PROVE  draft'[mailTask[t].draft].status \in
                IF mailTask'[t].state \in {"pending", "approved"} THEN {"awaiting_approval"}
                ELSE {"executing", "needs_attention"}
  <2>1. /\ mailTask'[t].state = mailTask[t].state /\ mailTask[t].state # "closed"
        /\ ~ (t \in T /\ Mail!Withdrawn(t))
    BY <1>4, <1>11
  <2>2. mailTask[t].draft \in Drafts
    BY <2>1, LiveAlone
  <2>3. \A u \in T : mailTask[u].draft = mailTask[t].draft /\ mailTask[u].state # "closed" => u = t
    BY <1>2, <2>1, LiveAlone
  <2>4. ~ \E u \in T : mailTask[u].draft = mailTask[t].draft /\ Mail!Withdrawn(u)
    BY <1>9, <2>1, <2>3
  <2>5. (\E u \in T : mailTask[u].draft = mailTask[t].draft /\ Mail!Doubtful(u))
          => mailTask[t].state = "claimed"
    BY <1>9, <2>3
  <2> QED
    BY <1>7, <2>1, <2>2, <2>4, <2>5, LiveAlone
<1>12. ASSUME NEW d \in Drafts,
              draft'[d].status \in {"awaiting_approval", "executing", "needs_attention"}
       PROVE  \E t \in 1..n : mailTask[t].draft = d /\ mailTask'[t].state # "closed"
  <2>1. ~ \E t \in T : mailTask[t].draft = d /\ Mail!Withdrawn(t)
    BY <1>7, <1>12
  <2>2. CASE \E t \in T : mailTask[t].draft = d /\ Mail!Doubtful(t)
    BY <1>2, <1>4, <1>9, <2>1, <2>2
  <2>3. CASE ~ \E t \in T : mailTask[t].draft = d /\ Mail!Doubtful(t)
    <3>1. draft'[d].status = draft[d].status
      BY <1>7, <2>1, <2>3
    <3>2. PICK t \in 1..n : mailTask[t].draft = d /\ mailTask[t].state # "closed"
      BY <1>12, <3>1 DEF Mailed, MailFrozenIsCurrent, Mail!FrozenIsCurrent, Mail!Of, Mail!Tasks,
         Mail!Live
    <3> QED
      BY <1>4, <2>1, <3>2
  <2> QED
    BY <2>2, <2>3
<1>13. ASSUME NEW d \in Drafts
       PROVE  draft[d].status = "absent" <=> draft'[d].status = "absent"
  <2>1. \A t \in T : mailTask[t].draft = d /\ (Mail!Withdrawn(t) \/ Mail!Doubtful(t)) =>
          draft[d].status # "absent"
    BY DEF Mail!Withdrawn, Mail!Doubtful
  <2> QED
    BY <1>7, <2>1
<1>14. \A d \in Drafts : /\ draft'[d].version = draft[d].version
                         /\ draft'[d].conn = draft[d].conn
                         /\ (draft[d].status = "absent" <=> draft'[d].status = "absent")
  BY <1>7, <1>13
<1>15. enabled' \subseteq enabled
  BY <1>1
<1>16. \A t \in 1..n :
         /\ mailTask'[t].draft = mailTask[t].draft /\ mailTask'[t].version = mailTask[t].version
         /\ mailTask'[t].conn = mailTask[t].conn
         /\ mailTask[t].state = "closed" => mailTask'[t].state = "closed"
         /\ mailTask'[t].state \in {"pending", "approved"} => mailTask[t].conn \in enabled'
  BY <1>4, <1>10
<1> QED
  BY <1>1, <1>5, <1>8, <1>11, <1>12, <1>14, <1>15, <1>16, StatusesChange

LEMMA OthersKeep ==
  ASSUME Mailed,
         \/ \E g \in Generations, d \in Drafts : Mail!EnqueueGeneration(g, d)
         \/ \E t \in Mail!Tasks : Mail!Purge(t)
         \/ \E c \in Conns : Mail!Authorize(c)
         \/ UNCHANGED mail
  PROVE  Mailed'
<1>0. ASSUME UNCHANGED <<draft, source, mailTask, mailSes>>, enabled \subseteq enabled',
             enabled' \subseteq Conns, generation' \in [Generations -> GenerationRows]
      PROVE  Mailed'
  <2>1. RowsTyped' /\ Written' /\ NothingLost'
    BY <1>0 DEF Mailed, RowsTyped, Written, NothingLost, Mail!NothingLost
  <2>2. SessionsTyped' /\ OneInScope' /\ RevokersKnow'
    BY <1>0 DEF Mailed, SessionsTyped, Placed, OneInScope, RevokersKnow, Knows
  <2>3. MailFrozenIsCurrent'
    BY <1>0 DEF Mailed, MailFrozenIsCurrent, Mail!FrozenIsCurrent, Mail!Tasks, Mail!Of, Mail!Live,
       Mail!Open
  <2>4. RevocationComplete'
    BY <1>0 DEF Mailed, RevocationComplete, Mail!RevocationComplete, Mail!Tasks, Mail!Open
  <2> QED
    BY <2>1, <2>2, <2>3, <2>4 DEF Mailed
<1>1. ASSUME NEW g \in Generations, NEW d \in Drafts, Mail!EnqueueGeneration(g, d)
      PROVE  Mailed'
  <2>1. generation' = [generation EXCEPT ![g] =
                         [generation[g] EXCEPT !.draft = d, !.base = draft[d].version]]
        /\ UNCHANGED <<enabled, draft, source, mailTask, mailSes>>
    BY <1>1 DEF Mail!EnqueueGeneration
  <2>2. /\ draft[d].version \in Nat /\ generation[g] \in GenerationRows
        /\ generation \in [Generations -> GenerationRows] /\ enabled \subseteq Conns
    BY RowsKnown DEF DraftRows, Mailed, RowsTyped
  <2>3. generation' \in [Generations -> GenerationRows]
    BY <2>1, <2>2 DEF GenerationRows
  <2> QED
    BY <1>0, <2>1, <2>2, <2>3
<1>2. ASSUME NEW t \in Mail!Tasks, Mail!Purge(t)
      PROVE  Mailed'
  <2> DEFINE row == [mailTask[t] EXCEPT !.command = FALSE]
  <2>0. t \in 1..Len(mailTask) /\ mailTask[t] \in TaskRows
    BY RowsKnown DEF Mail!Tasks
  <2>1. /\ row \in TaskRows /\ row.state = mailTask[t].state /\ row.draft = mailTask[t].draft
        /\ row.version = mailTask[t].version /\ row.conn = mailTask[t].conn
    BY <2>0 DEF TaskRows
  <2>2. mailTask' = [mailTask EXCEPT ![t] = row] /\ mailTask \in Seq(TaskRows)
        /\ UNCHANGED <<enabled, draft, source, generation, mailSes>>
    BY <1>2 DEF Mail!Purge, Mailed, RowsTyped
  <2> HIDE DEF row
  <2>3. /\ mailTask' \in Seq(TaskRows) /\ Len(mailTask') = Len(mailTask)
        /\ \A u \in 1..Len(mailTask) : mailTask'[u] = IF u = t THEN row ELSE mailTask[u]
    BY <2>0, <2>1, <2>2, ExceptSeq
  <2>4. \A u \in 1..Len(mailTask) :
          /\ mailTask'[u].state = mailTask[u].state /\ mailTask'[u].draft = mailTask[u].draft
          /\ mailTask'[u].version = mailTask[u].version /\ mailTask'[u].conn = mailTask[u].conn
    BY <2>1, <2>3
  <2>5. RowsTyped' /\ Written' /\ NothingLost'
    BY <2>2, <2>3 DEF Mailed, RowsTyped, Written, NothingLost, Mail!NothingLost
  <2>6. SessionsTyped' /\ OneInScope'
    BY <2>2, <2>3 DEF Mailed, SessionsTyped, Placed, OneInScope
  <2>7. RevokersKnow'
    BY <2>2, <2>3, <2>4 DEF Mailed, RevokersKnow, Knows
  <2>8. MailFrozenIsCurrent' /\ RevocationComplete'
    BY <2>2, <2>3, <2>4 DEF Mailed, MailFrozenIsCurrent, Mail!FrozenIsCurrent, Mail!Tasks,
       Mail!Of, Mail!Live, Mail!Open, RevocationComplete, Mail!RevocationComplete
  <2> QED
    BY <2>5, <2>6, <2>7, <2>8 DEF Mailed
<1>3. ASSUME NEW c \in Conns, Mail!Authorize(c)
      PROVE  Mailed'
  BY <1>0, <1>3 DEF Mail!Authorize, Mailed, RowsTyped
<1>4. CASE UNCHANGED mail
  BY <1>0, <1>4 DEF mail, Mailed, RowsTyped
<1> QED
  BY <1>1, <1>2, <1>3, <1>4

LEMMA MailedStep == Mailed /\ [Mail!Next]_mail => Mailed'
  BY BeginKeeps, LockKeeps, InsertKeeps, SaveKeeps, SubmitKeeps, DecideKeeps, RevokeKeeps,
     CancelKeeps, OthersKeep DEF Mail!Next, Mail!Work

LEMMA MailedAlways == MCSpec => []Mailed
<1>1. MCInit => Mailed
  BY MailedInit DEF MCInit
<1>2. Mailed /\ [MCNext]_<<vars, mail, writes, kind>> => Mailed'
  BY KindsApart, MailedStep
<1> QED
  BY <1>1, <1>2, PTL DEF MCSpec

\* A mail that waits for its approval or is executed is the current version of its draft,
\* and no version is submitted twice.
THEOREM MailFrozenIsCurrentHolds == MCSpec => []MailFrozenIsCurrent
<1>1. Mailed => MailFrozenIsCurrent
  BY DEF Mailed
<1> QED
  BY <1>1, MailedAlways, PTL

\* When an account has lost the permission to send, no submission rests on it, also not
\* one that was on its way.
THEOREM RevocationCompleteHolds == MCSpec => []RevocationComplete
<1>1. Mailed => RevocationComplete
  BY DEF Mailed
<1> QED
  BY <1>1, MailedAlways, PTL

\* Every version of a draft was written from the one before it.
THEOREM NothingLostHolds == MCSpec => []NothingLost
<1>1. Mailed => NothingLost
  BY DEF Mailed
<1> QED
  BY <1>1, MailedAlways, PTL
-----------------------------------------------------------------------------
(* The calendar proposals.                                                 *)

Contents == [time : Times, guests : Guests]
Events == [etag : Nat, time : Times, guests : Guests]
ProposalRows == [status : Statuses, kind : {None, "create", "update", "restore"},
                 explicit : BOOLEAN, version : Nat, target : Calendars \cup {None},
                 time : Times \cup {None}, guests : Guests, policy : Policies \cup {None},
                 chosen : BOOLEAN, confirmed : SUBSET Fields,
                 slots : {None} \cup (Times \X Calendars),
                 before : Contents \cup {None}, base : Nat, key : Keys \cup {None}]
FieldValues == Calendars \cup Times \cup Guests \cup Policies \cup {None}
CommandRows == {NoTask} \cup
               [state : {"pending", "approved", "claimed", "written", "refused"}, version : Nat,
                content : Contents, policy : Policies \cup {None}, base : Nat]
RestoreRows == [source : Proposals \cup {None}, owner : Sessions \cup {None},
                result : Proposals \cup {None}]
CalendarSessions == [op : {"none", "loaded", "plan", "restore"}, proposal : Proposals \cup {None},
                     version : Nat, key : Keys \cup {None}, cached : Nat,
                     got : Events \cup {None}]

\* A proposal that exists has a calendar, and one about an existing event its snapshot.
Whole(x) ==
  /\ x \in ProposalRows
  /\ x.status = "absent" => x = Absent
  /\ x.status # "absent" => x.kind # None /\ x.target \in Calendars
  /\ x.kind \in {"update", "restore"} => x.before \in Contents
Proposed ==
  /\ prop \in [Proposals -> ProposalRows] /\ \A p \in Proposals : Whole(prop[p])
  /\ seen \in [Proposals -> [Fields -> FieldValues]]
  /\ task \in [Proposals -> CommandRows]

\* A session of a restoration works for a task that has a source.
Occupied(x) ==
  /\ x \in CalendarSessions
  /\ x.op = "loaded" => x.proposal \in Proposals
  /\ x.op \in {"plan", "restore"} => x.key \in Keys /\ restore[x.key].source \in Proposals
  /\ x.op = "restore" => x.got \in Events
Occupations ==
  /\ restore \in [Keys -> RestoreRows]
  /\ ses \in [Sessions -> CalendarSessions] /\ \A s \in Sessions : Occupied(ses[s])

\* A version of the event stands for its content.
Of(etag, content) == etag <= event.etag /\ (etag = event.etag => content = Content(event))
Read(x) ==
  /\ x.op = "plan" => x.cached <= event.etag
  /\ x.op = "restore" => x.cached <= x.got.etag /\ Of(x.got.etag, Content(x.got))
Dated ==
  /\ event \in Events /\ cache \in Events /\ Of(cache.etag, Content(cache))
  /\ \A p \in Proposals : prop[p].kind \in {"update", "restore"} => Of(prop[p].base, prop[p].before)
  /\ \A s \in Sessions : Read(ses[s])

\* One restoration per key.
Keyed == \A p \in Proposals : prop[p].key # None => restore[prop[p].key].result = p

Scheduled == /\ Proposed /\ Occupations /\ Dated /\ Keyed
             /\ ConfirmedIsShown /\ FrozenIsCurrent

\* The properties of one proposal.
Shown(x, values) ==
  /\ \A f \in {"calendar", "time", "attendees"} :
       x.explicit /\ f \in x.confirmed => values[f] = Value(x, f)
  /\ x.slots # None => x.slots = <<x.time, x.target>>
Fits(x, y) ==
  /\ x.state # "none" =>
       /\ y.version = x.version /\ Content(y) = x.content
       /\ y.policy = x.policy /\ y.base = x.base
       /\ y.status \in CASE x.state \in {"pending", "approved"} ->
                                {"awaiting_approval", "cancelled"}
                         [] x.state = "claimed" -> {"executing"}
                         [] OTHER -> {"needs_attention"}
  /\ y.status \in {"awaiting_approval", "executing", "needs_attention"} => x.state # "none"

LEMMA EachProposal ==
  /\ ConfirmedIsShown <=> \A p \in Proposals : Shown(prop[p], seen[p])
  /\ FrozenIsCurrent <=> \A p \in Proposals : Fits(task[p], prop[p])
  BY Zenon DEF ConfirmedIsShown, StillConfirmed, Shown, FrozenIsCurrent, Fits, Fields

LEMMA ValueMeans ==
  ASSUME NEW x
  PROVE  /\ Value(x, "calendar") = x.target /\ Value(x, "time") = x.time
         /\ Value(x, "attendees") = x.guests /\ Value(x, "notification_policy") = x.policy
  BY DEF Value

LEMMA ScheduledInit == Init => Scheduled
<1> SUFFICES ASSUME Init
             PROVE  Scheduled
  OBVIOUS
<1>1. PICK t \in Times :
        /\ event = [etag |-> 1, time |-> t, guests |-> "some"] /\ cache = event
        /\ prop = [p \in Proposals |-> Absent] /\ seen = [p \in Proposals |-> Unseen]
        /\ task = [p \in Proposals |-> NoTask] /\ restore = [k \in Keys |-> NoRestore]
        /\ ses = [s \in Sessions |-> Idle]
  BY DEF Init
<1>2. /\ Absent \in ProposalRows /\ Absent.status = "absent" /\ Absent.kind = None
      /\ Absent.key = None /\ Absent.explicit = FALSE /\ Absent.slots = None
  BY DEF Absent, ProposalRows, Statuses, Guests
<1>3. None \notin {"create", "update", "restore"}
  BY ConstantsAssumption
<1>4. NoTask \in CommandRows /\ NoTask.state = "none"
  BY DEF NoTask, CommandRows
<1>5. Unseen \in [Fields -> FieldValues]
  BY DEF Unseen, FieldValues
<1>6. Proposed
  BY <1>1, <1>2, <1>3, <1>4, <1>5 DEF Proposed, Whole
<1>7. Occupations
  BY <1>1 DEF Occupations, Occupied, CalendarSessions, Idle, NoRestore, RestoreRows
<1>8. Dated
  BY <1>1, <1>2, <1>3 DEF Dated, Of, Read, Events, Guests, Idle
<1>9. Keyed
  BY <1>1, <1>2 DEF Keyed
<1>10. ConfirmedIsShown /\ FrozenIsCurrent
  BY <1>1, <1>2, <1>4, EachProposal DEF Shown, Fits
<1> QED
  BY <1>6, <1>7, <1>8, <1>9, <1>10 DEF Scheduled

\* What the steps know of the rows they read.
LEMMA ProposalsKnown ==
  ASSUME Scheduled, NEW p \in Proposals
  PROVE  /\ prop[p] \in ProposalRows /\ Whole(prop[p]) /\ task[p] \in CommandRows
         /\ seen[p] \in [Fields -> FieldValues]
         /\ Shown(prop[p], seen[p]) /\ Fits(task[p], prop[p])
  BY EachProposal DEF Scheduled, Proposed

LEMMA CalendarSessionsKnown ==
  ASSUME Scheduled, NEW s \in Sessions
  PROVE  ses[s] \in CalendarSessions /\ Occupied(ses[s]) /\ Read(ses[s])
  BY DEF Scheduled, Occupations, Dated

\* A step writes one proposal, its confirmed values and its command.
LEMMA ProposalChanges ==
  ASSUME Scheduled, NEW p \in Proposals, NEW row, prop' = [prop EXCEPT ![p] = row],
         seen' \in [Proposals -> [Fields -> FieldValues]],
         \A q \in Proposals \ {p} : seen'[q] = seen[q],
         task' \in [Proposals -> CommandRows],
         \A q \in Proposals \ {p} : task'[q] = task[q],
         Whole(row), Shown(row, seen'[p]), Fits(task'[p], row)
  PROVE  Proposed' /\ ConfirmedIsShown' /\ FrozenIsCurrent'
<1>1. \A q \in Proposals : prop'[q] = IF q = p THEN row ELSE prop[q]
  BY DEF Scheduled, Proposed
<1>2. Proposed'
  <2>1. prop' \in [Proposals -> ProposalRows]
    BY DEF Scheduled, Proposed, Whole
  <2>2. ASSUME NEW q \in Proposals PROVE Whole(prop'[q])
    BY <1>1 DEF Scheduled, Proposed
  <2> QED
    BY <2>1, <2>2 DEF Proposed, Whole
<1>3. ASSUME NEW q \in Proposals PROVE Shown(prop'[q], seen'[q]) /\ Fits(task'[q], prop'[q])
  <2>1. CASE q = p
    BY <1>1, <2>1
  <2>2. CASE q # p
    <3>1. prop'[q] = prop[q] /\ seen'[q] = seen[q] /\ task'[q] = task[q]
      BY <1>1, <2>2
    <3> QED
      BY <3>1, ProposalsKnown
  <2> QED
    BY <2>1, <2>2
<1>4. ConfirmedIsShown'
  <2> SUFFICES ASSUME NEW q \in Proposals
               PROVE  /\ \A f \in {"calendar", "time", "attendees"} :
                           prop'[q].explicit /\ f \in prop'[q].confirmed =>
                             seen'[q][f] = Value(prop[q], f)'
                      /\ prop'[q].slots # None =>
                           prop'[q].slots = <<prop'[q].time, prop'[q].target>>
    BY Zenon DEF ConfirmedIsShown, StillConfirmed, Fields
  <2> QED
    BY <1>3 DEF Shown, Value
<1>5. FrozenIsCurrent' <=> \A q \in Proposals : Fits(task'[q], prop'[q])
  BY Zenon DEF FrozenIsCurrent, Fits, Content
<1> QED
  BY <1>2, <1>3, <1>4, <1>5

\* The versions that are known only grow older.
LEMMA DatedKeeps ==
  ASSUME Scheduled, Proposed', Occupations', event' \in Events, cache' \in Events,
         event' = event \/ event'.etag > event.etag,
         cache' = cache \/ Of(cache'.etag, Content(cache')) \/ event' = cache',
         \A p \in Proposals : prop'[p].kind \in {"update", "restore"} =>
           \/ /\ prop[p].kind \in {"update", "restore"}
              /\ prop'[p].base = prop[p].base /\ prop'[p].before = prop[p].before
           \/ Of(prop'[p].base, prop'[p].before),
         \A s \in Sessions : ses'[s] = ses[s] \/ Read(ses'[s])
  PROVE  Dated'
<1>1. event.etag \in Nat /\ event'.etag \in Nat /\ cache.etag \in Nat /\ cache'.etag \in Nat
  BY DEF Scheduled, Dated, Events
<1>2. ASSUME NEW etag \in Nat, NEW content, Of(etag, content)
      PROVE  etag <= event'.etag /\ (etag = event'.etag => content = Content(event'))
  BY <1>1, <1>2 DEF Of
<1>3. cache'.etag <= event'.etag /\ (cache'.etag = event'.etag => Content(cache') = Content(event'))
  BY <1>1, <1>2 DEF Scheduled, Dated
<1>4. ASSUME NEW p \in Proposals, prop'[p].kind \in {"update", "restore"}
      PROVE  /\ prop'[p].base <= event'.etag
             /\ prop'[p].base = event'.etag => prop'[p].before = Content(event')
  <2>1. Of(prop'[p].base, prop'[p].before)
    BY <1>4 DEF Scheduled, Dated
  <2>2. prop'[p].base \in Nat
    BY DEF Proposed, ProposalRows
  <2> QED
    BY <1>2, <2>1, <2>2
<1>5. ASSUME NEW s \in Sessions
      PROVE  /\ ses'[s].op = "plan" => ses'[s].cached <= event'.etag
             /\ ses'[s].op = "restore" =>
                  /\ ses'[s].cached <= ses'[s].got.etag
                  /\ ses'[s].got.etag <= event'.etag
                  /\ ses'[s].got.etag = event'.etag => Content(ses'[s].got) = Content(event')
  <2>1. Read(ses'[s])
    BY CalendarSessionsKnown
  <2>2. /\ ses'[s].cached \in Nat
        /\ ses'[s].op = "restore" => ses'[s].got.etag \in Nat
    BY DEF Occupations, Occupied, CalendarSessions, Events
  <2> QED
    BY <1>1, <1>2, <2>1, <2>2 DEF Read
<1> QED
  BY <1>3, <1>4, <1>5 DEF Dated, Of, Read, Content

\* A session of the calendar moves; a restoration keeps its source.
LEMMA OccupationMoves ==
  ASSUME Scheduled, NEW s \in Sessions, NEW x, ses' = [ses EXCEPT ![s] = x], Occupied(x),
         restore' \in [Keys -> RestoreRows],
         \A k \in Keys : restore[k].source \in Proposals => restore'[k].source \in Proposals
  PROVE  Occupations'
<1>1. \A r \in Sessions : ses'[r] = IF r = s THEN x ELSE ses[r]
  BY DEF Scheduled, Occupations
<1>2. ses' \in [Sessions -> CalendarSessions]
  BY DEF Scheduled, Occupations, Occupied
<1>3. ASSUME NEW r \in Sessions
      PROVE  /\ ses'[r] \in CalendarSessions
             /\ ses'[r].op = "loaded" => ses'[r].proposal \in Proposals
             /\ ses'[r].op \in {"plan", "restore"} =>
                  ses'[r].key \in Keys /\ restore'[ses'[r].key].source \in Proposals
             /\ ses'[r].op = "restore" => ses'[r].got \in Events
  <2>1. Occupied(ses'[r])
    BY <1>1, CalendarSessionsKnown
  <2> QED
    BY <2>1 DEF Occupied
<1> QED
  BY <1>2, <1>3 DEF Occupations, Occupied

\* Keys are given out once.
LEMMA KeyedKeeps ==
  ASSUME Scheduled, \A p \in Proposals : prop'[p].key = prop[p].key \/ prop'[p].key = None,
         \A k \in Keys : restore[k].result # None => restore'[k].result = restore[k].result,
         Proposed
  PROVE  Keyed'
<1> SUFFICES ASSUME NEW p \in Proposals, prop'[p].key # None
             PROVE  restore'[prop'[p].key].result = p
  BY DEF Keyed
<1>1. prop'[p].key = prop[p].key /\ restore[prop[p].key].result = p
  BY DEF Scheduled, Keyed
<1>2. prop[p].key \in Keys
  BY <1>1 DEF Proposed, ProposalRows
<1>3. p # None
  BY ConstantsAssumption
<1> QED
  BY <1>1, <1>2, <1>3

\* Nothing but the event, its copy and the sessions changes.
LEMMA ProposalsStay ==
  ASSUME Scheduled, UNCHANGED <<prop, seen, task>>
  PROVE  Proposed' /\ ConfirmedIsShown' /\ FrozenIsCurrent'
<1>1. Proposed'
  BY DEF Scheduled, Proposed, Whole
<1>2. ConfirmedIsShown'
  BY Zenon DEF Scheduled, ConfirmedIsShown, StillConfirmed, Value
<1>3. FrozenIsCurrent'
  BY Zenon DEF Scheduled, FrozenIsCurrent, Content
<1> QED
  BY <1>1, <1>2, <1>3

LEMMA OccupationsStay ==
  ASSUME Scheduled, UNCHANGED <<restore, ses>>
  PROVE  Occupations'
  BY DEF Scheduled, Occupations, Occupied

LEMMA EventKeeps ==
  ASSUME Scheduled, UNCHANGED <<prop, seen, task, restore, ses>>,
         event' \in Events, event' = event \/ event'.etag > event.etag,
         cache' = cache \/ cache' = event
  PROVE  Scheduled'
<1>1. Proposed' /\ ConfirmedIsShown' /\ FrozenIsCurrent' /\ Occupations'
  BY ProposalsStay, OccupationsStay
<1>2. Keyed'
  BY DEF Scheduled, Keyed
<1>3. cache' \in Events /\ (cache' = cache \/ Of(cache'.etag, Content(cache')))
  BY DEF Scheduled, Dated, Of, Events
<1>4. \A p \in Proposals : prop'[p].kind \in {"update", "restore"} =>
        /\ prop[p].kind \in {"update", "restore"}
        /\ prop'[p].base = prop[p].base /\ prop'[p].before = prop[p].before
  OBVIOUS
<1>5. \A s \in Sessions : ses'[s] = ses[s]
  OBVIOUS
<1>6. Dated'
  BY <1>1, <1>3, <1>4, <1>5, DatedKeeps
<1> QED
  BY <1>1, <1>2, <1>6 DEF Scheduled

\* A step of a submission, with or without a write of the event.
LEMMA StatusKeeps ==
  ASSUME Scheduled, NEW p \in Proposals, NEW status \in Statuses \ {"absent"}, NEW x \in CommandRows,
         prop[p].status # "absent", prop' = [prop EXCEPT ![p].status = status],
         task' = [task EXCEPT ![p] = x], Fits(x, [prop[p] EXCEPT !.status = status]),
         UNCHANGED <<cache, seen, restore, ses>>,
         event' \in Events, event' = event \/ event'.etag > event.etag
  PROVE  Scheduled'
<1> DEFINE row == [prop[p] EXCEPT !.status = status]
<1>1. /\ row \in ProposalRows /\ row.status = status /\ row.kind = prop[p].kind
      /\ row.target = prop[p].target /\ row.before = prop[p].before /\ row.base = prop[p].base
      /\ row.key = prop[p].key /\ row.explicit = prop[p].explicit /\ row.slots = prop[p].slots
      /\ row.time = prop[p].time /\ row.guests = prop[p].guests
      /\ row.confirmed = prop[p].confirmed
  BY ProposalsKnown DEF ProposalRows
<1>2. prop' = [prop EXCEPT ![p] = row]
  OBVIOUS
<1> HIDE DEF row
<1>3. Whole(row)
  BY <1>1, ProposalsKnown DEF Whole
<1>4. Shown(row, seen'[p])
  <2>1. Shown(prop[p], seen[p])
    BY ProposalsKnown
  <2>2. \A f \in {"calendar", "time", "attendees"} : Value(row, f) = Value(prop[p], f)
    BY <1>1, ValueMeans
  <2> QED
    BY <1>1, <2>1, <2>2 DEF Shown
<1>5. Fits(task'[p], row)
  <2>1. task'[p] = x
    BY DEF Scheduled, Proposed
  <2> QED
    BY <2>1 DEF row
<1>6. /\ seen' \in [Proposals -> [Fields -> FieldValues]]
      /\ \A q \in Proposals \ {p} : seen'[q] = seen[q]
      /\ task' \in [Proposals -> CommandRows]
      /\ \A q \in Proposals \ {p} : task'[q] = task[q]
  BY DEF Scheduled, Proposed
<1>7. Proposed' /\ ConfirmedIsShown' /\ FrozenIsCurrent'
  BY <1>2, <1>3, <1>4, <1>5, <1>6, ProposalChanges
<1>8. Occupations'
  BY OccupationsStay
<1>9. \A q \in Proposals : /\ prop'[q].kind = prop[q].kind /\ prop'[q].base = prop[q].base
                           /\ prop'[q].before = prop[q].before /\ prop'[q].key = prop[q].key
  BY <1>1, <1>2 DEF Scheduled, Proposed
<1>10. Keyed'
  <2>1. \A q \in Proposals : prop'[q].key = prop[q].key
    BY <1>9
  <2> QED
    BY <2>1, KeyedKeeps DEF Scheduled
<1>11. Dated'
  <2>1. cache' \in Events /\ cache' = cache
    BY DEF Scheduled, Dated
  <2>2. \A q \in Proposals : prop'[q].kind \in {"update", "restore"} =>
          /\ prop[q].kind \in {"update", "restore"}
          /\ prop'[q].base = prop[q].base /\ prop'[q].before = prop[q].before
    BY <1>9
  <2>3. \A s \in Sessions : ses'[s] = ses[s]
    OBVIOUS
  <2> QED
    BY <1>7, <1>8, <2>1, <2>2, <2>3, DatedKeeps
<1> QED
  BY <1>7, <1>8, <1>10, <1>11 DEF Scheduled

LEMMA EventTyped ==
  ASSUME Scheduled
  PROVE  event \in Events /\ cache \in Events /\ event.etag \in Nat
         /\ (event' = event => event' \in Events)
  BY DEF Scheduled, Dated, Events

\* What a step makes of a status and of a command.
LEMMA CommandMoves ==
  ASSUME Scheduled, NEW p \in Proposals, NEW state \in {"approved", "claimed", "written", "refused"},
         NEW status \in Statuses, task[p].state # "none",
         status \in CASE state = "approved" -> {"awaiting_approval"}
                      [] state = "claimed" -> {"executing"}
                      [] OTHER -> {"needs_attention"}
  PROVE  /\ [task[p] EXCEPT !.state = state] \in CommandRows
         /\ Fits([task[p] EXCEPT !.state = state], [prop[p] EXCEPT !.status = status])
<1>1. /\ prop[p] \in ProposalRows /\ task[p] \in CommandRows /\ Fits(task[p], prop[p])
  BY ProposalsKnown
<1> DEFINE x == [task[p] EXCEPT !.state = state]
           y == [prop[p] EXCEPT !.status = status]
<1>2. /\ x \in CommandRows /\ x.state = state /\ x.version = task[p].version
      /\ x.content = task[p].content /\ x.policy = task[p].policy /\ x.base = task[p].base
  BY <1>1 DEF CommandRows, NoTask
<1>3. /\ y.status = status /\ y.version = prop[p].version /\ Content(y) = Content(prop[p])
      /\ y.policy = prop[p].policy /\ y.base = prop[p].base
  BY <1>1 DEF ProposalRows, Content
<1> HIDE DEF x, y
<1>4. Fits(x, y)
  BY <1>1, <1>2, <1>3 DEF Fits
<1> QED
  BY <1>2, <1>4 DEF x, y

LEMMA CommandEnds ==
  ASSUME Scheduled, NEW p \in Proposals,
         NEW status \in {"editing", "applied", "stale", "cancelled"}
  PROVE  NoTask \in CommandRows /\ Fits(NoTask, [prop[p] EXCEPT !.status = status])
<1>1. prop[p] \in ProposalRows
  BY ProposalsKnown
<1>2. [prop[p] EXCEPT !.status = status].status = status
  BY <1>1 DEF ProposalRows
<1>3. NoTask \in CommandRows /\ NoTask.state = "none"
  BY DEF NoTask, CommandRows
<1> QED
  BY <1>2, <1>3 DEF Fits

\* Conclude either ends the command or moves it.
LEMMA ConcludeKeeps ==
  ASSUME Scheduled, NEW p \in Proposals,
         NEW state \in {"approved", "claimed", "written", "refused", "closed"},
         NEW status \in Statuses, task[p].state # "none", prop[p].status # "absent",
         status \in CASE state = "approved" -> {"awaiting_approval"}
                      [] state = "claimed" -> {"executing"}
                      [] state = "closed" -> {"editing", "applied", "stale"}
                      [] OTHER -> {"needs_attention"},
         Conclude(p, state, status), UNCHANGED <<cache, seen, restore, ses>>,
         event' \in Events, event' = event \/ event'.etag > event.etag
  PROVE  Scheduled'
<1>1. CASE state = "closed"
  <2>1. /\ status \in {"editing", "applied", "stale"} /\ status \in Statuses \ {"absent"}
        /\ prop' = [prop EXCEPT ![p].status = status] /\ task' = [task EXCEPT ![p] = NoTask]
    BY <1>1 DEF Conclude
  <2>2. NoTask \in CommandRows /\ Fits(NoTask, [prop[p] EXCEPT !.status = status])
    BY <2>1, CommandEnds
  <2> QED
    BY <2>1, <2>2, StatusKeeps
<1>2. CASE state # "closed"
  <2> DEFINE x == [task[p] EXCEPT !.state = state]
  <2>1. /\ status \in Statuses \ {"absent"}
        /\ prop' = [prop EXCEPT ![p].status = status] /\ task' = [task EXCEPT ![p] = x]
    BY <1>2 DEF Conclude
  <2>2. x \in CommandRows /\ Fits(x, [prop[p] EXCEPT !.status = status])
    BY <1>2, CommandMoves
  <2> HIDE DEF x
  <2> QED
    BY <2>1, <2>2, StatusKeeps
<1> QED
  BY <1>1, <1>2

LEMMA SubmissionKeeps ==
  ASSUME Scheduled, NEW p \in Proposals,
         Cancel(p) \/ Submit(p) \/ Approve(p) \/ GiveBack(p) \/ Claim(p) \/ Execute(p) \/ Reconcile(p)
  PROVE  Scheduled'
<1>0. /\ prop[p] \in ProposalRows /\ Whole(prop[p]) /\ task[p] \in CommandRows
      /\ Fits(task[p], prop[p])
      /\ event \in Events /\ event.etag \in Nat
  BY ProposalsKnown, EventTyped
<1>1. CASE Cancel(p)
  <2>1. /\ prop[p].status \in {"editing", "awaiting_approval", "stale"}
        /\ prop' = [prop EXCEPT ![p].status = "cancelled"]
        /\ UNCHANGED <<event, cache, seen, task, restore, ses>>
    BY <1>1 DEF Cancel
  <2>2. task' = [task EXCEPT ![p] = task[p]]
    BY <2>1 DEF Scheduled, Proposed
  <2> DEFINE y == [prop[p] EXCEPT !.status = "cancelled"]
  <2>3. /\ y.status = "cancelled" /\ y.version = prop[p].version /\ Content(y) = Content(prop[p])
        /\ y.policy = prop[p].policy /\ y.base = prop[p].base
    BY <1>0 DEF ProposalRows, Content
  <2> HIDE DEF y
  <2>4. Fits(task[p], y)
    BY <1>0, <2>1, <2>3 DEF Fits
  <2>5. Fits(task[p], [prop[p] EXCEPT !.status = "cancelled"])
    BY <2>4 DEF y
  <2>6. "cancelled" \in Statuses \ {"absent"} /\ prop[p].status # "absent"
    BY <2>1 DEF Statuses
  <2> QED
    BY <1>0, <2>1, <2>2, <2>5, <2>6, StatusKeeps
<1>2. CASE Submit(p)
  <2> DEFINE x == [state |-> "pending", version |-> prop[p].version, content |-> Content(prop[p]),
                   policy |-> prop[p].policy, base |-> prop[p].base]
             y == [prop[p] EXCEPT !.status = "awaiting_approval"]
  <2>1. /\ prop[p].status = "editing" /\ prop[p].time # None /\ task' = [task EXCEPT ![p] = x]
        /\ prop' = [prop EXCEPT ![p].status = "awaiting_approval"]
        /\ UNCHANGED <<event, cache, seen, restore, ses>>
    BY <1>2 DEF Submit, Submittable, Ready
  <2>2. Content(prop[p]) \in Contents
    BY <1>0, <2>1 DEF Content, Contents, ProposalRows
  <2>3. x \in CommandRows
    BY <1>0, <2>2 DEF CommandRows, ProposalRows
  <2>4. /\ y.status = "awaiting_approval" /\ y.version = prop[p].version
        /\ Content(y) = Content(prop[p]) /\ y.policy = prop[p].policy /\ y.base = prop[p].base
    BY <1>0 DEF ProposalRows, Content
  <2>5. /\ x.state = "pending" /\ x.version = prop[p].version /\ x.content = Content(prop[p])
        /\ x.policy = prop[p].policy /\ x.base = prop[p].base
    OBVIOUS
  <2> HIDE DEF x, y
  <2>6. Fits(x, y)
    BY <2>4, <2>5 DEF Fits
  <2>7. Fits(x, [prop[p] EXCEPT !.status = "awaiting_approval"])
    BY <2>6 DEF y
  <2>8. "awaiting_approval" \in Statuses \ {"absent"} /\ prop[p].status # "absent"
    BY <2>1 DEF Statuses
  <2> QED
    BY <1>0, <2>1, <2>3, <2>7, <2>8, StatusKeeps
<1>3. CASE Approve(p)
  BY <1>0, <1>3, ConcludeKeeps DEF Approve, Statuses
<1>4. CASE GiveBack(p)
  BY <1>0, <1>4, ConcludeKeeps DEF GiveBack, Statuses
<1>5. CASE Claim(p)
  BY <1>0, <1>5, ConcludeKeeps DEF Claim, Statuses
<1>6. CASE Execute(p)
  <2>0. /\ UNCHANGED <<cache, seen, restore, ses>> /\ task[p].state = "claimed"
        /\ prop[p].status = "executing"
    BY <1>6 DEF Execute
  <2>1. event' \in Events /\ (event' = event \/ event'.etag > event.etag)
    <3>1. task[p].content = Content(prop[p])
      BY <1>0, <2>0 DEF Fits
    <3>2. CASE event' = event
      BY <1>0, <3>2
    <3>3. CASE event' = [etag |-> event.etag + 1, time |-> task[p].content.time,
                         guests |-> task[p].content.guests]
      <4>1. task[p].content \in Contents
        BY <1>0, <2>0 DEF CommandRows, NoTask
      <4> QED
        BY <1>0, <3>3, <4>1 DEF Events, Contents
    <3> QED
      BY <1>6, <3>2, <3>3 DEF Execute
  <2>2. \/ Conclude(p, "closed", "applied") \/ Conclude(p, "written", "needs_attention")
        \/ Conclude(p, "closed", "stale") \/ Conclude(p, "closed", "editing")
        \/ Conclude(p, "refused", "needs_attention")
    BY <1>6 DEF Execute
  <2> QED
    BY <2>0, <2>1, <2>2, ConcludeKeeps DEF Statuses
<1>7. CASE Reconcile(p)
  BY <1>0, <1>7, ConcludeKeeps DEF Reconcile, Statuses
<1> QED
  BY <1>1, <1>2, <1>3, <1>4, <1>5, <1>6, <1>7

LEMMA PolicyTyped ==
  ASSUME NEW k, NEW content, NEW before
  PROVE  DefaultPolicy(k, content, before) \in Policies
  BY DEF DefaultPolicy, Policies

\* A new row takes a place that no command knows.
LEMMA NewFits ==
  ASSUME Scheduled, NEW p \in Proposals, prop[p].status = "absent", NEW row, row.status = "editing"
  PROVE  Fits(task[p], row)
<1>1. task[p].state = "none"
  BY ProposalsKnown DEF Fits
<1> QED
  BY <1>1 DEF Fits

LEMMA PutKeeps ==
  ASSUME Scheduled, NEW p \in Proposals, NEW row \in ProposalRows,
         NEW values \in [Fields -> FieldValues], Put(p, row, values),
         row.status = "editing", row.kind # None, row.target \in Calendars, row.key = None,
         row.kind \in {"update", "restore"} => row.before \in Contents /\ Of(row.base, row.before),
         Shown(row, values)
  PROVE  Scheduled'
<1>1. /\ prop[p].status = "absent" /\ prop' = [prop EXCEPT ![p] = row]
      /\ seen' = [seen EXCEPT ![p] = values]
      /\ UNCHANGED <<event, cache, task, sent, restore, ses>>
  BY DEF Put
<1>2. Whole(row)
  BY DEF Whole
<1>3. /\ seen' \in [Proposals -> [Fields -> FieldValues]] /\ seen'[p] = values
      /\ \A q \in Proposals \ {p} : seen'[q] = seen[q]
      /\ task' \in [Proposals -> CommandRows] /\ task' = task
  BY <1>1 DEF Scheduled, Proposed
<1>4. Fits(task'[p], row)
  BY <1>1, <1>3, NewFits
<1>5. Proposed' /\ ConfirmedIsShown' /\ FrozenIsCurrent'
  BY <1>1, <1>2, <1>3, <1>4, ProposalChanges
<1>6. Occupations'
  BY <1>1, OccupationsStay
<1>7. \A q \in Proposals : prop'[q] = IF q = p THEN row ELSE prop[q]
  BY <1>1 DEF Scheduled, Proposed
<1>8. Keyed'
  <2>1. \A q \in Proposals : prop'[q].key = prop[q].key \/ prop'[q].key = None
    BY <1>7
  <2> QED
    BY <1>1, <2>1, KeyedKeeps DEF Scheduled
<1>9. Dated'
  <2>1. event' \in Events /\ event' = event /\ cache' \in Events /\ cache' = cache
    BY <1>1, EventTyped
  <2>2. \A q \in Proposals : prop'[q].kind \in {"update", "restore"} =>
           \/ /\ prop[q].kind \in {"update", "restore"}
              /\ prop'[q].base = prop[q].base /\ prop'[q].before = prop[q].before
           \/ Of(prop'[q].base, prop'[q].before)
    BY <1>7
  <2>3. \A s \in Sessions : ses'[s] = ses[s]
    BY <1>1
  <2> QED
    BY <1>5, <1>6, <2>1, <2>2, <2>3, DatedKeeps
<1> QED
  BY <1>5, <1>6, <1>8, <1>9 DEF Scheduled

\* A row is changed a few fields at a time.
Opened(p) == [p EXCEPT !.status = "editing"]
OfKind(p, k) == [p EXCEPT !.kind = k]
Explicit(p, x) == [p EXCEPT !.explicit = x]
Aimed(p, c, f) == [p EXCEPT !.version = 1, !.target = c, !.confirmed = f]
WithDetails(p, t, g) == [p EXCEPT !.time = t, !.guests = g]
WithPolicy(p, n) == [p EXCEPT !.policy = n]
WithChoice(p, h) == [p EXCEPT !.chosen = h]
WithSlots(p, w) == [p EXCEPT !.slots = w]
WithConfirmed(p, f) == [p EXCEPT !.confirmed = f]
Decided(p, n, f) == [p EXCEPT !.policy = n, !.confirmed = f]
WithBase(p, b, e, k) == [p EXCEPT !.before = b, !.base = e, !.key = k]

LEMMA OpenedMeans ==
  ASSUME NEW p \in ProposalRows
  PROVE  LET q == Opened(p)
         IN /\ q \in ProposalRows /\ q.status = "editing"
            /\ q.slots = p.slots /\ q.key = p.key
<1>1. "editing" \in Statuses
  BY DEF Statuses
<1> QED
  BY <1>1 DEF ProposalRows, Opened

LEMMA OfKindMeans ==
  ASSUME NEW p \in ProposalRows, NEW k \in {"create", "update", "restore"}
  PROVE  LET q == OfKind(p, k)
         IN /\ q \in ProposalRows /\ q.kind = k
            /\ q.status = p.status /\ q.slots = p.slots /\ q.key = p.key
  BY DEF ProposalRows, OfKind

LEMMA ExplicitMeans ==
  ASSUME NEW p \in ProposalRows, NEW x \in BOOLEAN
  PROVE  LET q == Explicit(p, x)
         IN /\ q \in ProposalRows /\ q.explicit = x /\ q.kind = p.kind
            /\ q.status = p.status /\ q.slots = p.slots /\ q.key = p.key
  BY DEF ProposalRows, Explicit

LEMMA AimedMeans ==
  ASSUME NEW p \in ProposalRows, NEW c \in Calendars, NEW f \in SUBSET Fields
  PROVE  LET q == Aimed(p, c, f)
         IN /\ q \in ProposalRows /\ q.target = c /\ q.confirmed = f
            /\ q.status = p.status /\ q.kind = p.kind /\ q.explicit = p.explicit
            /\ q.slots = p.slots /\ q.key = p.key
  BY DEF ProposalRows, Aimed

LEMMA DetailsMean ==
  ASSUME NEW p \in ProposalRows, NEW t \in Times \cup {None}, NEW g \in Guests
  PROVE  LET q == WithDetails(p, t, g)
         IN /\ q \in ProposalRows /\ q.time = t /\ q.guests = g
            /\ q.status = p.status /\ q.kind = p.kind /\ q.target = p.target
            /\ q.before = p.before /\ q.base = p.base /\ q.key = p.key
            /\ q.explicit = p.explicit /\ q.slots = p.slots
  BY DEF ProposalRows, WithDetails

LEMMA PolicyMeans ==
  ASSUME NEW p \in ProposalRows, NEW n \in Policies \cup {None}
  PROVE  LET q == WithPolicy(p, n)
         IN /\ q \in ProposalRows /\ q.time = p.time /\ q.guests = p.guests
            /\ q.status = p.status /\ q.kind = p.kind /\ q.target = p.target
            /\ q.before = p.before /\ q.base = p.base /\ q.key = p.key
            /\ q.explicit = p.explicit /\ q.slots = p.slots
  BY DEF ProposalRows, WithPolicy

LEMMA ChoiceMeans ==
  ASSUME NEW p \in ProposalRows, NEW h \in BOOLEAN
  PROVE  LET q == WithChoice(p, h)
         IN /\ q \in ProposalRows /\ q.time = p.time /\ q.guests = p.guests
            /\ q.status = p.status /\ q.kind = p.kind /\ q.target = p.target
            /\ q.before = p.before /\ q.base = p.base /\ q.key = p.key
            /\ q.explicit = p.explicit /\ q.slots = p.slots
  BY DEF ProposalRows, WithChoice

LEMMA SlotsMean ==
  ASSUME NEW p \in ProposalRows, NEW w \in {None} \cup (Times \X Calendars)
  PROVE  LET q == WithSlots(p, w)
         IN /\ q \in ProposalRows /\ q.time = p.time /\ q.guests = p.guests
            /\ q.status = p.status /\ q.kind = p.kind /\ q.target = p.target
            /\ q.before = p.before /\ q.base = p.base /\ q.key = p.key
            /\ q.explicit = p.explicit /\ q.slots = w
<1> DEFINE W == {None} \cup (Times \X Calendars)
<1>1. w \in W
  OBVIOUS
<1>2. ProposalRows = [status : Statuses, kind : {None, "create", "update", "restore"},
                 explicit : BOOLEAN, version : Nat, target : Calendars \cup {None},
                 time : Times \cup {None}, guests : Guests, policy : Policies \cup {None},
                 chosen : BOOLEAN, confirmed : SUBSET Fields, slots : W,
                 before : Contents \cup {None}, base : Nat, key : Keys \cup {None}]
  BY DEF ProposalRows
<1> HIDE DEF W
<1> QED
  BY <1>1, <1>2 DEF WithSlots

LEMMA ConfirmedMeans ==
  ASSUME NEW p \in ProposalRows, NEW f \in SUBSET Fields
  PROVE  LET q == WithConfirmed(p, f)
         IN /\ q \in ProposalRows /\ q.time = p.time /\ q.guests = p.guests
            /\ q.status = p.status /\ q.kind = p.kind /\ q.target = p.target
            /\ q.before = p.before /\ q.base = p.base /\ q.key = p.key
            /\ q.explicit = p.explicit /\ q.slots = p.slots /\ q.confirmed = f
  BY DEF ProposalRows, WithConfirmed

LEMMA DecidedMeans ==
  ASSUME NEW p \in ProposalRows, NEW n \in Policies, NEW f \in SUBSET Fields
  PROVE  LET q == Decided(p, n, f)
         IN /\ q \in ProposalRows /\ q.confirmed = f
            /\ q.status = p.status /\ q.kind = p.kind /\ q.target = p.target
            /\ q.slots = p.slots
  BY DEF ProposalRows, Decided

LEMMA BaseMeans ==
  ASSUME NEW p \in ProposalRows, NEW b \in Contents, NEW e \in Nat, NEW k \in Keys
  PROVE  LET q == WithBase(p, b, e, k)
         IN /\ q \in ProposalRows /\ q.before = b /\ q.base = e /\ q.key = k
            /\ q.status = p.status /\ q.kind = p.kind /\ q.target = p.target
            /\ q.slots = p.slots /\ q.confirmed = p.confirmed
  BY DEF ProposalRows, WithBase

\* What a new proposal is, whatever its first values are.
LEMMA NewMeans ==
  ASSUME NEW k \in {"create", "update", "restore"}, NEW explicit \in BOOLEAN, NEW c \in Calendars
  PROVE  /\ New(k, explicit, c) \in ProposalRows /\ New(k, explicit, c).status = "editing"
         /\ New(k, explicit, c).kind = k /\ k # None /\ New(k, explicit, c).target = c
         /\ New(k, explicit, c).explicit = explicit /\ New(k, explicit, c).slots = None
         /\ New(k, explicit, c).key = None
         /\ New(k, explicit, c).confirmed = IF explicit THEN {} ELSE Fields
<1>1. k # None
  BY ConstantsAssumption
<1> DEFINE fields == IF explicit THEN {} ELSE Fields
<1>3. fields \in SUBSET Fields
  OBVIOUS
<1> DEFINE empty == Opened(Absent)
           first == OfKind(empty, k)
           second == Explicit(first, explicit)
           third == Aimed(second, c, fields)
<1>4. New(k, explicit, c) = third
  BY DEF New, Opened, OfKind, Explicit, Aimed
<1> HIDE DEF fields
<1>5. Absent \in ProposalRows /\ Absent.slots = None /\ Absent.key = None
  <2>1. "absent" \in Statuses /\ "nobody" \in Guests
    BY DEF Statuses, Guests
  <2> QED
    BY <2>1 DEF Absent, ProposalRows
<1>6. /\ empty \in ProposalRows /\ empty.status = "editing"
      /\ empty.slots = None /\ empty.key = None
  BY <1>5, OpenedMeans
<1> HIDE DEF empty
<1>7. /\ first \in ProposalRows /\ first.status = "editing" /\ first.kind = k
      /\ first.slots = None /\ first.key = None
  BY <1>6, OfKindMeans
<1> HIDE DEF first
<1>8. /\ second \in ProposalRows /\ second.status = "editing" /\ second.kind = k
      /\ second.slots = None /\ second.key = None /\ second.explicit = explicit
  BY <1>7, ExplicitMeans
<1> HIDE DEF second
<1>9. /\ third \in ProposalRows /\ third.status = "editing" /\ third.kind = k
      /\ third.target = c /\ third.explicit = explicit /\ third.slots = None
      /\ third.key = None /\ third.confirmed = fields
  BY <1>3, <1>8, AimedMeans
<1> HIDE DEF third
<1> QED
  BY <1>1, <1>4, <1>9 DEF fields

LEMMA CreateKeeps ==
  ASSUME Scheduled, NEW p \in Proposals, Create(p)
  PROVE  Scheduled'
<1>0. Unseen \in [Fields -> FieldValues] /\ Home \in Calendars
  BY ConstantsAssumption DEF Unseen, FieldValues
<1>1. CASE CreateShell(p)
  <2>0. PICK explicit \in BOOLEAN : explicit = TRUE
    OBVIOUS
  <2> DEFINE new == New("create", explicit, Home)
             row == [new EXCEPT !.guests = "nobody"]
  <2>1. /\ new \in ProposalRows /\ new.status = "editing" /\ new.kind = "create"
        /\ "create" # None /\ new.target = Home /\ new.slots = None /\ new.key = None
        /\ new.confirmed = IF explicit THEN {} ELSE Fields
    BY <1>0, NewMeans
  <2> HIDE DEF new
  <2>2. /\ row \in ProposalRows /\ row.status = "editing" /\ row.kind = "create"
        /\ row.target = Home /\ row.slots = None /\ row.key = None /\ row.confirmed = {}
    BY <2>0, <2>1 DEF ProposalRows, Guests
  <2>3. Put(p, row, Unseen)
    BY <1>1, <2>0, Zenon DEF CreateShell, new
  <2> HIDE DEF row
  <2>4. Shown(row, Unseen)
    BY <2>2 DEF Shown
  <2> QED
    BY <1>0, <2>1, <2>2, <2>3, <2>4, PutKeeps
<1>2. CASE \E c \in Calendars, t \in Times, g \in Guests : CreateEvent(p, c, t, g)
  <2>0. PICK c \in Calendars, t \in Times, g \in Guests : CreateEvent(p, c, t, g)
    BY <1>2
  <2>9. PICK explicit \in BOOLEAN : explicit = FALSE
    OBVIOUS
  <2> DEFINE new == New("create", explicit, c)
             n == DefaultPolicy("create", [time |-> t, guests |-> g], None)
             row == [new EXCEPT !.time = t, !.guests = g, !.policy = n]
  <2>1. /\ new \in ProposalRows /\ new.status = "editing" /\ new.kind = "create"
        /\ "create" # None /\ new.target = c /\ new.slots = None /\ new.key = None
        /\ new.explicit = FALSE /\ n \in Policies
    BY <2>9, NewMeans, PolicyTyped
  <2>3. Put(p, row, Unseen)
    BY <2>0, <2>9, Zenon DEF CreateEvent
  <2> HIDE DEF new, n
  <2>2. /\ row \in ProposalRows /\ row.status = "editing" /\ row.kind = "create"
        /\ row.target = c /\ row.slots = None /\ row.key = None /\ row.explicit = FALSE
    BY <2>1 DEF ProposalRows
  <2> HIDE DEF row
  <2>4. Shown(row, Unseen)
    BY <2>2 DEF Shown
  <2> QED
    BY <1>0, <2>1, <2>2, <2>3, <2>4, PutKeeps
<1>3. CASE \E t \in Times, explicit \in BOOLEAN : CreateUpdate(p, explicit, t)
  <2>0. PICK t \in Times, explicit \in BOOLEAN : CreateUpdate(p, explicit, t)
    BY <1>3
  <2> DEFINE new == New("update", explicit, Home)
             content == IF explicit THEN Content(cache) ELSE [Content(cache) EXCEPT !.time = t]
             n == DefaultPolicy("update", content, Content(cache))
             row == [new EXCEPT !.time = content.time, !.guests = content.guests, !.policy = n,
                                !.before = Content(cache), !.base = cache.etag]
  <2>1. /\ new \in ProposalRows /\ new.status = "editing" /\ new.kind = "update"
        /\ "update" # None /\ new.target = Home /\ new.slots = None /\ new.key = None
        /\ new.explicit = explicit /\ n \in Policies
        /\ new.confirmed = IF explicit THEN {} ELSE Fields
    BY <1>0, NewMeans, PolicyTyped
  <2>2. Content(cache) \in Contents /\ cache.etag \in Nat /\ content \in Contents
    BY EventTyped DEF Events, Content, Contents
  <2>3. Put(p, row, Unseen)
    BY <2>0 DEF CreateUpdate
  <2>4. content.time \in Times /\ content.guests \in Guests
    BY <2>2 DEF Contents
  <2> HIDE DEF new, n, content
  <2>5. /\ row \in ProposalRows /\ row.status = "editing" /\ row.kind = "update"
        /\ row.target = Home /\ row.slots = None /\ row.key = None /\ row.explicit = explicit
        /\ row.before = Content(cache) /\ row.base = cache.etag
        /\ row.confirmed = IF explicit THEN {} ELSE Fields
    BY <2>1, <2>2, <2>4 DEF ProposalRows
  <2> HIDE DEF row
  <2>6. Of(row.base, row.before)
    BY <2>5 DEF Scheduled, Dated
  <2>7. Shown(row, Unseen)
    BY <2>5 DEF Shown
  <2> QED
    BY <1>0, <2>1, <2>2, <2>3, <2>5, <2>6, <2>7, PutKeeps
<1> QED
  BY <1>1, <1>2, <1>3 DEF Create

\* A session that only reads, or is over.
LEMMA CalendarSessionMoves ==
  ASSUME Scheduled, NEW s \in Sessions, NEW x, ses' = [ses EXCEPT ![s] = x], Occupied(x), Read(x),
         UNCHANGED <<event, cache, prop, seen, task>>, restore' \in [Keys -> RestoreRows],
         \A k \in Keys : /\ restore[k].source \in Proposals => restore'[k].source \in Proposals
                         /\ restore'[k].result = restore[k].result
  PROVE  Scheduled'
<1>1. Proposed' /\ ConfirmedIsShown' /\ FrozenIsCurrent'
  BY ProposalsStay
<1>2. Occupations'
  BY OccupationMoves
<1>3. Keyed'
  BY KeyedKeeps DEF Scheduled
<1>4. Dated'
  <2>1. \A r \in Sessions : ses'[r] = ses[r] \/ Read(ses'[r])
    BY DEF Scheduled, Occupations
  <2>2. event' \in Events /\ event' = event /\ cache' \in Events /\ cache' = cache
    BY EventTyped
  <2>3. \A p \in Proposals : prop'[p].kind \in {"update", "restore"} =>
          /\ prop[p].kind \in {"update", "restore"}
          /\ prop'[p].base = prop[p].base /\ prop'[p].before = prop[p].before
    OBVIOUS
  <2> QED
    BY <1>1, <1>2, <2>1, <2>2, <2>3, DatedKeeps
<1> QED
  BY <1>1, <1>2, <1>3, <1>4 DEF Scheduled

LEMMA IdleMeans == Occupied(Idle) /\ Read(Idle)
  BY DEF Idle, Occupied, Read, CalendarSessions

\* The compare-and-set of a next version, whatever it says, as long as what it leaves
\* confirmed is what the user saw.
LEMMA VersionKeeps ==
  ASSUME Scheduled, NEW s \in Sessions, ses[s].op = "loaded", NEW row, NEW values,
         SaveNextVersion(s, row, values),
         prop[ses[s].proposal].status = "editing" =>
           /\ row \in ProposalRows /\ row.kind = prop[ses[s].proposal].kind
           /\ row.target \in Calendars /\ row.before = prop[ses[s].proposal].before
           /\ row.base = prop[ses[s].proposal].base /\ row.key = prop[ses[s].proposal].key
           /\ values \in [Fields -> FieldValues] /\ Shown(row, values)
  PROVE  Scheduled'
<1> DEFINE p == ses[s].proposal
           new == [row EXCEPT !.version = @ + 1, !.status = prop[p].status]
<1>0. /\ p \in Proposals /\ ses' = [ses EXCEPT ![s] = Idle]
      /\ UNCHANGED <<event, cache, task, sent, restore>>
  BY CalendarSessionsKnown DEF Occupied, SaveNextVersion
<1>1. CASE UNCHANGED <<prop, seen>>
  BY <1>0, <1>1, IdleMeans, CalendarSessionMoves DEF Scheduled, Occupations
<1>2. CASE Saves(s) /\ ~UNCHANGED <<prop, seen>>
  <2>1. /\ prop[p].status = "editing" /\ prop' = [prop EXCEPT ![p] = new]
        /\ seen' = [seen EXCEPT ![p] = values]
    BY <1>2 DEF Saves, SaveNextVersion
  <2>2. /\ row \in ProposalRows /\ row.kind = prop[p].kind
        /\ row.target \in Calendars /\ row.before = prop[p].before
        /\ row.base = prop[p].base /\ row.key = prop[p].key
        /\ values \in [Fields -> FieldValues] /\ Shown(row, values)
    BY <2>1
  <2>3. /\ new \in ProposalRows /\ new.status = "editing" /\ new.kind = prop[p].kind
        /\ new.target = row.target /\ new.before = prop[p].before /\ new.base = prop[p].base
        /\ new.key = prop[p].key /\ new.explicit = row.explicit /\ new.slots = row.slots
        /\ new.time = row.time /\ new.guests = row.guests /\ new.confirmed = row.confirmed
    <3> DEFINE version == row.version + 1
    <3>1. version \in Nat /\ prop[p].status \in Statuses
      BY <2>1, <2>2 DEF ProposalRows, Statuses
    <3>2. new = [row EXCEPT !.version = version, !.status = prop[p].status]
      OBVIOUS
    <3> HIDE DEF version, new
    <3> QED
      BY <2>1, <2>2, <3>1, <3>2 DEF ProposalRows
  <2> HIDE DEF new
  <2>4. Whole(new)
    BY <1>0, <2>1, <2>2, <2>3, ProposalsKnown DEF Whole
  <2>5. /\ seen' \in [Proposals -> [Fields -> FieldValues]] /\ seen'[p] = values
        /\ \A q \in Proposals \ {p} : seen'[q] = seen[q]
        /\ task' \in [Proposals -> CommandRows] /\ task' = task
    BY <1>0, <2>1, <2>2 DEF Scheduled, Proposed
  <2>6. Shown(new, seen'[p])
    <3>1. \A f \in {"calendar", "time", "attendees"} : Value(new, f) = Value(row, f)
      BY <2>3, ValueMeans
    <3> QED
      BY <2>2, <2>3, <2>5, <3>1 DEF Shown
  <2>7. Fits(task'[p], new)
    <3>1. Fits(task[p], prop[p])
      BY <1>0, ProposalsKnown
    <3>2. task[p].state = "none"
      BY <2>1, <3>1 DEF Fits
    <3> QED
      BY <2>3, <2>5, <3>2 DEF Fits
  <2>8. Proposed' /\ ConfirmedIsShown' /\ FrozenIsCurrent'
    BY <1>0, <2>1, <2>4, <2>5, <2>6, <2>7, ProposalChanges
  <2>9. Occupations'
    BY <1>0, IdleMeans, OccupationMoves DEF Scheduled, Occupations
  <2>10. \A q \in Proposals : /\ prop'[q].kind = prop[q].kind /\ prop'[q].base = prop[q].base
                              /\ prop'[q].before = prop[q].before /\ prop'[q].key = prop[q].key
    BY <2>1, <2>3 DEF Scheduled, Proposed
  <2>11. Keyed'
    <3>1. \A q \in Proposals : prop'[q].key = prop[q].key
      BY <2>10
    <3> QED
      BY <1>0, <3>1, KeyedKeeps DEF Scheduled
  <2>12. Dated'
    <3>1. event' \in Events /\ event' = event /\ cache' \in Events /\ cache' = cache
      BY <1>0, EventTyped
    <3>2. \A q \in Proposals : prop'[q].kind \in {"update", "restore"} =>
            /\ prop[q].kind \in {"update", "restore"}
            /\ prop'[q].base = prop[q].base /\ prop'[q].before = prop[q].before
      BY <2>10
    <3>3. \A r \in Sessions : ses'[r] = ses[r] \/ Read(ses'[r])
      BY <1>0, IdleMeans DEF Scheduled, Occupations
    <3> QED
      BY <2>8, <2>9, <3>1, <3>2, <3>3, DatedKeeps
  <2> QED
    BY <2>8, <2>9, <2>11, <2>12 DEF Scheduled
<1> QED
  BY <1>1, <1>2 DEF SaveNextVersion

LEMMA EditKeeps ==
  ASSUME Scheduled, NEW s \in Sessions, NEW t \in Times \cup {None}, NEW g \in Guests \cup {None},
         NEW n \in Policies \cup {None}, Edit(s, t, g, n)
  PROVE  Scheduled'
<1> DEFINE p == ses[s].proposal
           row == prop[p]
           time == IF t = None THEN row.time ELSE t
           guests == IF g = None THEN row.guests ELSE g
           content == [time |-> time, guests |-> guests]
           chosen == row.chosen \/ n # None
           baseline == IF row.before = None THEN Content(row) ELSE row.before
           policy == IF n # None THEN n
                     ELSE IF chosen THEN row.policy
                     ELSE DefaultPolicy(row.kind, content, baseline)
           slots == IF t = None THEN row.slots ELSE None
           fields == IF row.explicit THEN row.confirmed \ Invalidated(t, g, n) ELSE Fields
           new == [row EXCEPT !.time = time, !.guests = guests, !.chosen = chosen,
                              !.policy = policy, !.slots = slots, !.confirmed = fields]
<1>1. ses[s].op = "loaded" /\ SaveNextVersion(s, Edited(row, t, g, n), seen[p])
  BY DEF Edit, Row
<1>2. p \in Proposals
  BY <1>1, CalendarSessionsKnown DEF Occupied
<1>3. /\ row \in ProposalRows /\ Whole(row) /\ seen[p] \in [Fields -> FieldValues]
      /\ Shown(row, seen[p])
  BY <1>2, ProposalsKnown
<1>4. Edited(row, t, g, n) = new
  BY Zenon DEF Edited
<1>5. /\ time \in Times \cup {None} /\ guests \in Guests /\ chosen \in BOOLEAN
      /\ slots \in {None} \cup (Times \X Calendars) /\ fields \in SUBSET Fields
  BY <1>3 DEF ProposalRows
<1>6. policy \in Policies \cup {None}
  BY <1>3, PolicyTyped DEF ProposalRows
<1>7. /\ t = None => time = row.time
      /\ g = None => guests = row.guests
      /\ slots # None => slots = row.slots /\ time = row.time
      /\ row.explicit => /\ fields \subseteq row.confirmed
                         /\ t # None => "time" \notin fields
                         /\ g # None => "attendees" \notin fields
  BY DEF Invalidated
<1> HIDE DEF time, guests, chosen, slots, fields, policy, row
<1>8. /\ new \in ProposalRows /\ new.kind = row.kind /\ new.target = row.target
      /\ new.before = row.before /\ new.base = row.base /\ new.key = row.key
      /\ new.explicit = row.explicit /\ new.time = time /\ new.guests = guests
      /\ new.slots = slots /\ new.confirmed = fields
  <2> DEFINE first == WithDetails(row, time, guests)
             chose == WithChoice(first, chosen)
             second == WithPolicy(chose, policy)
             third == WithSlots(second, slots)
             fourth == WithConfirmed(third, fields)
  <2>1. new = fourth
    BY DEF WithDetails, WithChoice, WithPolicy, WithSlots, WithConfirmed
  <2>2. /\ first \in ProposalRows /\ first.kind = row.kind /\ first.target = row.target
        /\ first.before = row.before /\ first.base = row.base /\ first.key = row.key
        /\ first.explicit = row.explicit /\ first.time = time /\ first.guests = guests
    BY <1>3, <1>5, DetailsMean
  <2> HIDE DEF first
  <2>6. /\ chose \in ProposalRows /\ chose.kind = row.kind /\ chose.target = row.target
        /\ chose.before = row.before /\ chose.base = row.base /\ chose.key = row.key
        /\ chose.explicit = row.explicit /\ chose.time = time /\ chose.guests = guests
    BY <1>5, <2>2, ChoiceMeans
  <2> HIDE DEF chose
  <2>3. /\ second \in ProposalRows /\ second.kind = row.kind /\ second.target = row.target
        /\ second.before = row.before /\ second.base = row.base /\ second.key = row.key
        /\ second.explicit = row.explicit /\ second.time = time /\ second.guests = guests
    BY <1>6, <2>6, PolicyMeans
  <2> HIDE DEF second
  <2>4. /\ third \in ProposalRows /\ third.kind = row.kind /\ third.target = row.target
        /\ third.before = row.before /\ third.base = row.base /\ third.key = row.key
        /\ third.explicit = row.explicit /\ third.time = time /\ third.guests = guests
        /\ third.slots = slots
    BY <1>5, <2>3, SlotsMean
  <2> HIDE DEF third
  <2>5. /\ fourth \in ProposalRows /\ fourth.kind = row.kind /\ fourth.target = row.target
        /\ fourth.before = row.before /\ fourth.base = row.base /\ fourth.key = row.key
        /\ fourth.explicit = row.explicit /\ fourth.time = time /\ fourth.guests = guests
        /\ fourth.slots = slots /\ fourth.confirmed = fields
    BY <1>5, <2>4, ConfirmedMeans
  <2> HIDE DEF fourth, new
  <2> QED
    BY <2>1, <2>5
<1> HIDE DEF new
<1>9. Shown(new, seen[p])
  <2>1. ASSUME NEW f \in {"calendar", "time", "attendees"}, new.explicit, f \in new.confirmed
        PROVE  seen[p][f] = Value(new, f)
    <3>1. seen[p][f] = Value(row, f)
      BY <1>3, <1>7, <1>8, <2>1 DEF Shown
    <3>2. CASE f = "calendar"
      BY <1>8, <3>1, <3>2, ValueMeans
    <3>3. CASE f = "time"
      BY <1>7, <1>8, <2>1, <3>1, <3>3, ValueMeans
    <3>4. CASE f = "attendees"
      BY <1>7, <1>8, <2>1, <3>1, <3>4, ValueMeans
    <3> QED
      BY <3>2, <3>3, <3>4
  <2>2. new.slots # None => new.slots = <<new.time, new.target>>
    BY <1>3, <1>7, <1>8 DEF Shown
  <2> QED
    BY <2>1, <2>2 DEF Shown
<1>10. row.status = "editing" => new.target \in Calendars
  BY <1>3, <1>8 DEF Whole
<1> QED
  BY <1>1, <1>3, <1>4, <1>8, <1>9, <1>10, VersionKeeps DEF row

LEMMA SuggestKeeps ==
  ASSUME Scheduled, NEW s \in Sessions, Suggest(s)
  PROVE  Scheduled'
<1> DEFINE p == ses[s].proposal
           row == prop[p]
           slots == <<row.time, row.target>>
           new == [row EXCEPT !.slots = slots]
<1>1. ses[s].op = "loaded" /\ row.time # None /\ SaveNextVersion(s, new, seen[p])
  BY DEF Suggest, Row
<1>2. p \in Proposals
  BY <1>1, CalendarSessionsKnown DEF Occupied
<1>3. /\ row \in ProposalRows /\ Whole(row) /\ seen[p] \in [Fields -> FieldValues]
      /\ Shown(row, seen[p])
  BY <1>2, ProposalsKnown
<1>4. ASSUME row.status = "editing"
      PROVE  /\ new \in ProposalRows /\ new.kind = row.kind /\ new.target \in Calendars
             /\ new.before = row.before /\ new.base = row.base /\ new.key = row.key
             /\ Shown(new, seen[p])
  <2>1. row.target \in Calendars /\ row.time \in Times
    BY <1>1, <1>3, <1>4 DEF Whole, ProposalRows
  <2>2. slots \in Times \X Calendars
    BY <2>1
  <2>3. slots = <<row.time, row.target>>
    OBVIOUS
  <2> HIDE DEF slots, row
  <2>4. /\ new \in ProposalRows /\ new.kind = row.kind /\ new.target = row.target
        /\ new.before = row.before /\ new.base = row.base /\ new.key = row.key
        /\ new.explicit = row.explicit /\ new.time = row.time /\ new.guests = row.guests
        /\ new.slots = slots /\ new.confirmed = row.confirmed
    BY <1>3, <2>2 DEF ProposalRows
  <2> HIDE DEF new
  <2>5. \A f \in {"calendar", "time", "attendees"} : Value(new, f) = Value(row, f)
    BY <2>4, ValueMeans
  <2>6. Shown(new, seen[p])
    BY <1>3, <2>3, <2>4, <2>5 DEF Shown
  <2> QED
    BY <2>1, <2>4, <2>6
<1> HIDE DEF new
<1> QED
  BY <1>1, <1>3, <1>4, VersionKeeps

LEMMA ConfirmKeeps ==
  ASSUME Scheduled, NEW s \in Sessions, NEW field \in Fields, NEW c \in Calendars,
         Confirm(s, field, c)
  PROVE  Scheduled'
<1> DEFINE p == ses[s].proposal
           row == prop[p]
           slots == IF c = row.target THEN row.slots ELSE None
           fields == row.confirmed \cup {field}
           new == [row EXCEPT !.confirmed = fields, !.slots = slots, !.target = c]
           values == [seen[p] EXCEPT ![field] = Value(new, field)]
<1>1. /\ ses[s].op = "loaded" /\ (c # row.target => field = "calendar")
      /\ SaveNextVersion(s, new, values)
  BY Zenon DEF Confirm, Row, Confirmed
<1>2. p \in Proposals
  BY <1>1, CalendarSessionsKnown DEF Occupied
<1>3. /\ row \in ProposalRows /\ Whole(row) /\ seen[p] \in [Fields -> FieldValues]
      /\ Shown(row, seen[p])
  BY <1>2, ProposalsKnown
<1>4. slots \in {None} \cup (Times \X Calendars) /\ fields \in SUBSET Fields
  BY <1>3 DEF ProposalRows
<1>5. /\ slots # None => slots = row.slots /\ c = row.target
      /\ \A f \in fields : f # field => f \in row.confirmed
  OBVIOUS
<1> HIDE DEF row, slots, fields
<1>6. /\ new \in ProposalRows /\ new.kind = row.kind /\ new.target = c
      /\ new.before = row.before /\ new.base = row.base /\ new.key = row.key
      /\ new.explicit = row.explicit /\ new.time = row.time /\ new.guests = row.guests
      /\ new.policy = row.policy /\ new.slots = slots /\ new.confirmed = fields
  BY <1>3, <1>4 DEF ProposalRows
<1> HIDE DEF new
<1>7. Value(new, field) \in FieldValues
  BY <1>3, <1>6, ValueMeans DEF Fields, FieldValues, ProposalRows
<1>8. /\ values \in [Fields -> FieldValues] /\ values[field] = Value(new, field)
      /\ \A f \in Fields : f # field => values[f] = seen[p][f]
  BY <1>3, <1>7
<1> HIDE DEF values
<1>9. Shown(new, values)
  <2>1. ASSUME NEW f \in {"calendar", "time", "attendees"}, new.explicit, f \in new.confirmed
        PROVE  values[f] = Value(new, f)
    <3>1. CASE f = field
      BY <1>8, <3>1
    <3>2. CASE f # field
      <4>1. values[f] = seen[p][f] /\ seen[p][f] = Value(row, f)
        BY <1>3, <1>5, <1>6, <1>8, <2>1, <3>2 DEF Shown, Fields
      <4>2. Value(new, f) = Value(row, f)
        BY <1>1, <1>6, <3>2, ValueMeans
      <4> QED
        BY <4>1, <4>2
    <3> QED
      BY <3>1, <3>2
  <2>2. new.slots # None => new.slots = <<new.time, new.target>>
    BY <1>3, <1>5, <1>6 DEF Shown
  <2> QED
    BY <2>1, <2>2 DEF Shown
<1> QED
  BY <1>1, <1>6, <1>8, <1>9, VersionKeeps DEF row

\* The steps of a restoration before it is stored.
LEMMA RestorationReads ==
  ASSUME Scheduled, NEW s \in Sessions,
         \/ \E p \in Proposals : Load(s, p)
         \/ \E k \in Keys : PlanRestore(s, k)
         \/ GetCurrentEvent(s) \/ Crash(s)
  PROVE  Scheduled'
<1>0. /\ ses[s] \in CalendarSessions /\ Occupied(ses[s]) /\ Read(ses[s])
      /\ restore \in [Keys -> RestoreRows] /\ event \in Events /\ cache \in Events
      /\ Of(cache.etag, Content(cache)) /\ event.etag \in Nat /\ cache.etag \in Nat
  BY CalendarSessionsKnown, EventTyped DEF Scheduled, Occupations, Dated, Events
<1>1. ASSUME NEW p \in Proposals, Load(s, p) PROVE Scheduled'
  <2> DEFINE x == [Idle EXCEPT !.op = "loaded", !.proposal = p, !.version = prop[p].version]
  <2>1. ses' = [ses EXCEPT ![s] = x] /\ UNCHANGED <<event, cache, prop, seen, task, restore>>
    BY <1>1, Zenon DEF Load
  <2>2. prop[p].version \in Nat
    BY ProposalsKnown DEF ProposalRows
  <2>3. Occupied(x) /\ Read(x)
    BY <2>2 DEF Idle, Occupied, Read, CalendarSessions
  <2> HIDE DEF x
  <2> QED
    BY <1>0, <2>1, <2>3, CalendarSessionMoves
<1>2. ASSUME NEW k \in Keys, PlanRestore(s, k) PROVE Scheduled'
  <2> DEFINE x == [Idle EXCEPT !.op = "plan", !.key = k, !.cached = cache.etag]
  <2>1. ses' = [ses EXCEPT ![s] = x] /\ UNCHANGED <<event, cache, prop, seen, task>>
    BY <1>2, Zenon DEF PlanRestore
  <2>2. restore' = [restore EXCEPT ![k] = [restore[k] EXCEPT !.owner = s]]
        /\ restore[k].source # None
    BY <1>2 DEF PlanRestore
  <2>3. /\ restore[k] \in RestoreRows /\ restore[k].source \in Proposals
    BY <1>0, <2>2 DEF RestoreRows
  <2>4. Occupied(x)
    BY <1>0, <2>3 DEF Idle, Occupied, CalendarSessions
  <2>5. Read(x)
    BY <1>0 DEF Idle, Read, Of
  <2>6. /\ restore' \in [Keys -> RestoreRows]
        /\ \A j \in Keys : /\ restore'[j].source = restore[j].source
                           /\ restore'[j].result = restore[j].result
    BY <1>0, <2>2 DEF RestoreRows
  <2> HIDE DEF x
  <2> QED
    BY <2>1, <2>4, <2>5, <2>6, CalendarSessionMoves
<1>3. CASE GetCurrentEvent(s)
  <2> DEFINE x == [ses[s] EXCEPT !.op = "restore", !.got = event]
  <2>1. /\ ses[s].op = "plan" /\ UNCHANGED <<event, cache, prop, seen, task, restore>>
        /\ ses' = [ses EXCEPT ![s].op = "restore", ![s].got = event]
    BY <1>3 DEF GetCurrentEvent
  <2>2. ses' = [ses EXCEPT ![s] = x]
    BY <2>1 DEF Scheduled, Occupations, CalendarSessions
  <2>3. /\ x \in CalendarSessions /\ x.op = "restore" /\ x.got = event
        /\ x.key = ses[s].key /\ x.cached = ses[s].cached
    BY <1>0 DEF CalendarSessions
  <2> HIDE DEF x
  <2>4. Occupied(x)
    BY <1>0, <2>1, <2>3 DEF Occupied
  <2>5. Read(x)
    BY <1>0, <2>1, <2>3 DEF Read, Of
  <2> QED
    BY <1>0, <2>1, <2>2, <2>4, <2>5, CalendarSessionMoves
<1>4. CASE Crash(s)
  BY <1>0, <1>4, IdleMeans, CalendarSessionMoves DEF Crash
<1> QED
  BY <1>1, <1>2, <1>3, <1>4

LEMMA EnqueueKeeps ==
  ASSUME Scheduled, NEW k \in Keys, NEW p \in Proposals, EnqueueRestore(k, p)
  PROVE  Scheduled'
<1>1. /\ restore' = [restore EXCEPT ![k] = [restore[k] EXCEPT !.source = p]]
      /\ UNCHANGED <<event, cache, prop, seen, task, sent, ses>>
      /\ restore \in [Keys -> RestoreRows] /\ ses \in [Sessions -> CalendarSessions]
  BY DEF EnqueueRestore, Scheduled, Occupations
<1>2. /\ restore' \in [Keys -> RestoreRows]
      /\ \A j \in Keys : /\ restore[j].source \in Proposals => restore'[j].source \in Proposals
                         /\ restore'[j].result = restore[j].result
  BY <1>1 DEF RestoreRows
<1>3. Proposed' /\ ConfirmedIsShown' /\ FrozenIsCurrent'
  BY <1>1, ProposalsStay
<1>4. Occupations'
  <2>1. ASSUME NEW s \in Sessions
        PROVE  /\ ses'[s] \in CalendarSessions
               /\ ses'[s].op = "loaded" => ses'[s].proposal \in Proposals
               /\ ses'[s].op \in {"plan", "restore"} =>
                    ses'[s].key \in Keys /\ restore'[ses'[s].key].source \in Proposals
               /\ ses'[s].op = "restore" => ses'[s].got \in Events
    BY <1>1, <1>2, CalendarSessionsKnown DEF Occupied
  <2> QED
    BY <1>1, <1>2, <2>1 DEF Occupations, Occupied
<1>5. Keyed'
  BY <1>1, <1>2, KeyedKeeps DEF Scheduled
<1>6. Dated'
  <2>1. event' \in Events /\ event' = event /\ cache' \in Events /\ cache' = cache
    BY <1>1, EventTyped
  <2>2. \A q \in Proposals : prop'[q].kind \in {"update", "restore"} =>
          /\ prop[q].kind \in {"update", "restore"}
          /\ prop'[q].base = prop[q].base /\ prop'[q].before = prop[q].before
    BY <1>1
  <2>3. \A s \in Sessions : ses'[s] = ses[s]
    BY <1>1
  <2> QED
    BY <1>3, <1>4, <2>1, <2>2, <2>3, DatedKeeps
<1> QED
  BY <1>3, <1>4, <1>5, <1>6 DEF Scheduled

\* What the proposal of a restoration says.
LEMMA RestoredMeans ==
  ASSUME Scheduled, NEW origin \in Proposals, prop[origin].kind = "update", NEW got \in Events,
         NEW k \in Keys
  PROVE  LET row == Restored(origin, got, k)
         IN /\ row \in ProposalRows /\ row.status = "editing" /\ row.kind = "restore"
            /\ row.target \in Calendars /\ row.before = Content(got) /\ row.base = got.etag
            /\ row.key = k /\ row.slots = None /\ row.before \in Contents
            /\ row.confirmed = Fields \ {"notification_policy"} /\ "restore" # None
<1> DEFINE old == prop[origin].before
           shown == Content(got)
           new == New("restore", TRUE, Home)
           n == DefaultPolicy("restore", old, shown)
           fields == Fields \ {"notification_policy"}
           time == old.time
           guests == old.guests
           tag == got.etag
           first == WithDetails(new, time, guests)
           second == Decided(first, n, fields)
           third == WithBase(second, shown, tag, k)
<1>1. time \in Times /\ guests \in Guests
  <2>1. old \in Contents
    BY ProposalsKnown DEF Whole
  <2> QED
    BY <2>1 DEF Contents
<1>2. shown \in Contents /\ tag \in Nat
  BY DEF Events, Content, Contents
<1>3. n \in Policies /\ fields \in SUBSET Fields
  BY PolicyTyped
<1>4. /\ new \in ProposalRows /\ new.status = "editing" /\ new.kind = "restore"
      /\ "restore" # None /\ new.target = Home /\ new.slots = None
  BY ConstantsAssumption, NewMeans
<1>5. Restored(origin, got, k) = third
  BY DEF Restored, WithDetails, Decided, WithBase
<1> HIDE DEF old, shown, n, fields, time, guests, tag, new
<1>6. /\ first \in ProposalRows /\ first.status = "editing" /\ first.kind = "restore"
      /\ first.target = Home /\ first.slots = None
  BY <1>1, <1>4, DetailsMean
<1> HIDE DEF first
<1>7. /\ second \in ProposalRows /\ second.status = "editing" /\ second.kind = "restore"
      /\ second.target = Home /\ second.slots = None /\ second.confirmed = fields
  BY <1>3, <1>6, DecidedMeans
<1> HIDE DEF second
<1>8. /\ third \in ProposalRows /\ third.status = "editing" /\ third.kind = "restore"
      /\ third.target = Home /\ third.slots = None /\ third.confirmed = fields
      /\ third.before = shown /\ third.base = tag /\ third.key = k
  BY <1>2, <1>7, BaseMeans
<1> HIDE DEF third
<1> QED
  BY <1>2, <1>4, <1>5, <1>8, ConstantsAssumption DEF shown, fields, tag

LEMMA CommitKeeps ==
  ASSUME Scheduled, NEW s \in Sessions, CommitRestore(s)
  PROVE  Scheduled'
<1> DEFINE k == ses[s].key
           origin == restore[k].source
           got == ses[s].got
           row == Restored(origin, got, k)
<1>0. /\ ses[s].op = "restore" /\ k \in Keys /\ origin \in Proposals /\ got \in Events
      /\ Read(ses[s]) /\ restore \in [Keys -> RestoreRows]
      /\ ses' = [ses EXCEPT ![s] = Idle] /\ UNCHANGED <<event, task, sent>>
  BY CalendarSessionsKnown DEF CommitRestore, Occupied, Scheduled, Occupations
<1>1. CASE UNCHANGED <<prop, seen, restore, cache>>
  BY <1>0, <1>1, IdleMeans, CalendarSessionMoves
<1>2. CASE ~UNCHANGED <<prop, seen, restore, cache>>
  <2>1. PICK p \in Proposals :
          /\ restore[k].result = None /\ Restorable(origin)
          /\ prop[p].status = "absent" /\ prop' = [prop EXCEPT ![p] = row]
          /\ seen' = [seen EXCEPT ![p] =
               [f \in Fields |-> IF f \in row.confirmed THEN Value(row, f) ELSE None]]
          /\ restore' = [restore EXCEPT ![k].result = p, ![k].owner = None]
          /\ cache' = got
    BY <1>2 DEF CommitRestore
  <2> DEFINE values == [f \in Fields |-> IF f \in row.confirmed THEN Value(row, f) ELSE None]
  <2>2. /\ row \in ProposalRows /\ row.status = "editing" /\ row.kind = "restore"
        /\ row.target \in Calendars /\ row.before = Content(got) /\ row.base = got.etag
        /\ row.key = k /\ row.slots = None /\ row.before \in Contents
        /\ row.confirmed = Fields \ {"notification_policy"} /\ "restore" # None
    <3>1. prop[origin].kind = "update"
      BY <2>1 DEF Restorable
    <3> HIDE DEF origin, got, k
    <3> QED
      BY <1>0, <3>1, RestoredMeans
  <2> HIDE DEF row
  <2>3. \A f \in Fields : Value(row, f) \in FieldValues
    BY <2>2, ValueMeans DEF Fields, FieldValues, ProposalRows
  <2>4. /\ values \in [Fields -> FieldValues]
        /\ \A f \in {"calendar", "time", "attendees"} : values[f] = Value(row, f)
    BY <2>2, <2>3 DEF Fields, FieldValues
  <2>5. seen' = [seen EXCEPT ![p] = values]
    BY <2>1
  <2> HIDE DEF values
  <2>6. Whole(row) /\ Shown(row, values)
    BY <2>2, <2>4 DEF Whole, Shown
  <2>7. /\ seen' \in [Proposals -> [Fields -> FieldValues]] /\ seen'[p] = values
        /\ \A q \in Proposals \ {p} : seen'[q] = seen[q]
        /\ task' \in [Proposals -> CommandRows] /\ task' = task
    BY <1>0, <2>4, <2>5 DEF Scheduled, Proposed
  <2>8. Fits(task'[p], row)
    BY <2>1, <2>2, <2>7, NewFits
  <2>9. Proposed' /\ ConfirmedIsShown' /\ FrozenIsCurrent'
    BY <2>1, <2>6, <2>7, <2>8, ProposalChanges
  <2>10. /\ restore' \in [Keys -> RestoreRows] /\ restore'[k].result = p
         /\ \A j \in Keys : /\ restore'[j].source = restore[j].source
                            /\ j # k => restore'[j].result = restore[j].result
    <3>1. restore' = [restore EXCEPT ![k] = [restore[k] EXCEPT !.result = p, !.owner = None]]
      BY <1>0, <2>1 DEF RestoreRows
    <3>2. restore[k] \in RestoreRows
      BY <1>0
    <3> DEFINE new == [restore[k] EXCEPT !.result = p, !.owner = None]
    <3>3. new \in RestoreRows /\ new.result = p /\ new.source = restore[k].source
      BY <3>2 DEF RestoreRows
    <3> HIDE DEF new
    <3>4. restore' = [restore EXCEPT ![k] = new]
      BY <3>1 DEF new
    <3> QED
      BY <1>0, <3>3, <3>4
  <2>11. Occupations'
    BY <1>0, <2>10, IdleMeans, OccupationMoves
  <2>12. \A q \in Proposals : prop'[q] = IF q = p THEN row ELSE prop[q]
    BY <2>1 DEF Scheduled, Proposed
  <2>13. Keyed'
    <3> SUFFICES ASSUME NEW q \in Proposals, prop'[q].key # None
                 PROVE  restore'[prop'[q].key].result = q
      BY DEF Keyed
    <3>1. CASE q = p
      BY <2>2, <2>10, <2>12, <3>1
    <3>2. CASE q # p
      <4>1. prop'[q].key = prop[q].key /\ restore[prop[q].key].result = q /\ prop[q].key \in Keys
        BY <2>12, <3>2, ProposalsKnown DEF Scheduled, Keyed, ProposalRows
      <4>2. q # None
        BY ConstantsAssumption
      <4>3. prop[q].key # k
        BY <2>1, <4>1, <4>2
      <4> QED
        BY <2>10, <4>1, <4>3
    <3> QED
      BY <3>1, <3>2
  <2>14. Of(got.etag, Content(got))
    BY <1>0 DEF Read
  <2>15. Dated'
    <3>1. /\ event' \in Events /\ event' = event /\ cache' \in Events
          /\ Of(cache'.etag, Content(cache'))
      BY <1>0, <2>1, <2>14, EventTyped
    <3>2. \A q \in Proposals : prop'[q].kind \in {"update", "restore"} =>
             \/ /\ prop[q].kind \in {"update", "restore"}
                /\ prop'[q].base = prop[q].base /\ prop'[q].before = prop[q].before
             \/ Of(prop'[q].base, prop'[q].before)
      BY <2>2, <2>12, <2>14
    <3>3. \A r \in Sessions : ses'[r] = ses[r] \/ Read(ses'[r])
      BY <1>0, IdleMeans DEF Scheduled, Occupations
    <3> QED
      BY <2>9, <2>11, <3>1, <3>2, <3>3, DatedKeeps
  <2> QED
    BY <2>9, <2>11, <2>13, <2>15 DEF Scheduled
<1> QED
  BY <1>1, <1>2

LEMMA ScheduledStep == Scheduled /\ [Next]_vars => Scheduled'
<1> SUFFICES ASSUME Scheduled, [Next]_vars
             PROVE  Scheduled'
  OBVIOUS
<1>1. ASSUME NEW t \in Times, EditElsewhere(t) PROVE Scheduled'
  <2>1. /\ event' \in Events /\ event'.etag > event.etag
        /\ UNCHANGED <<cache, prop, seen, task, restore, ses>>
    <3> DEFINE etag == event.etag + 1
    <3>1. etag \in Nat /\ etag > event.etag /\ event \in Events
      BY EventTyped
    <3>2. event' = [event EXCEPT !.etag = etag, !.time = t]
          /\ UNCHANGED <<cache, prop, seen, task, restore, ses>>
      BY <1>1 DEF EditElsewhere
    <3> HIDE DEF etag
    <3> QED
      BY <3>1, <3>2 DEF Events
  <2> QED
    BY <2>1, EventKeeps
<1>2. CASE Synchronise
  BY <1>2, EventTyped, EventKeeps DEF Synchronise
<1>3. ASSUME NEW p \in Created, Create(p) PROVE Scheduled'
  BY <1>3, ConstantsAssumption, CreateKeeps
<1>4. ASSUME NEW s \in Sessions, Change(s) PROVE Scheduled'
  <2>1. ASSUME NEW t \in Times, Edit(s, t, None, None) PROVE Scheduled'
    BY <2>1, EditKeeps
  <2>2. ASSUME NEW g \in Guests, NEW n \in Policies \cup {None}, Edit(s, None, g, n)
        PROVE  Scheduled'
    BY <2>2, EditKeeps
  <2>3. ASSUME NEW n \in Policies, Edit(s, None, None, n) PROVE Scheduled'
    BY <2>3, EditKeeps
  <2> QED
    BY <1>4, <2>1, <2>2, <2>3, SuggestKeeps, ConfirmKeeps, RestorationReads, CommitKeeps DEF Change
<1>5. CASE UNCHANGED vars
  BY <1>5, EventTyped, EventKeeps DEF vars
<1> QED
  BY <1>1, <1>2, <1>3, <1>4, <1>5, SubmissionKeeps, EnqueueKeeps DEF Next

LEMMA ScheduledAlways == MCSpec => []Scheduled
<1>1. MCInit => Scheduled
  BY ScheduledInit DEF MCInit
<1>2. Scheduled /\ [MCNext]_<<vars, mail, writes, kind>> => Scheduled'
  BY KindsApart, ScheduledStep
<1> QED
  BY <1>1, <1>2, PTL DEF MCSpec

\* What counts as confirmed is what the user was shown when confirming it.
THEOREM ConfirmedIsShownHolds == MCSpec => []ConfirmedIsShown
<1>1. Scheduled => ConfirmedIsShown
  BY DEF Scheduled
<1> QED
  BY <1>1, ScheduledAlways, PTL

\* A proposal that waits or is executed is the one that was frozen.
THEOREM FrozenIsCurrentHolds == MCSpec => []FrozenIsCurrent
<1>1. Scheduled => FrozenIsCurrent
  BY DEF Scheduled
<1> QED
  BY <1>1, ScheduledAlways, PTL

\* An approved update or restoration replaces exactly the content that its snapshot
\* before shows to the approver.
THEOREM OverwritesOnlyShownHolds == MCSpec => OverwritesOnlyShown
<1>1. ASSUME Scheduled, [Next]_vars, NEW p \in Proposals,
             task[p].state = "claimed", event' # event, task'[p] # task[p]
      PROVE  Content(event) = prop[p].before
  <2>0. task \in [Proposals -> CommandRows]
    BY <1>1 DEF Scheduled, Proposed
  <2>1. \E q \in Proposals : Execute(q)
    <3>1. ASSUME NEW q \in Proposals,
                 Cancel(q) \/ Submit(q) \/ Approve(q) \/ GiveBack(q) \/ Claim(q) \/ Reconcile(q)
          PROVE  event' = event
      BY <3>1 DEF Cancel, Submit, Approve, GiveBack, Claim, Reconcile
    <3>2. ASSUME NEW s \in Sessions, Change(s) PROVE event' = event
      BY <3>2, Zenon DEF Change, Load, Edit, Suggest, Confirm, SaveNextVersion, PlanRestore,
         GetCurrentEvent, CommitRestore, Crash
    <3>3. ASSUME NEW q \in Created, Create(q) PROVE event' = event
      BY <3>3 DEF Create, CreateShell, CreateEvent, CreateUpdate, Put
    <3>4. ASSUME NEW t \in Times, EditElsewhere(t) PROVE task' = task
      BY <3>4 DEF EditElsewhere
    <3>5. Synchronise => event' = event
      BY DEF Synchronise
    <3>6. ASSUME NEW k \in Keys, NEW q \in Proposals, EnqueueRestore(k, q) PROVE event' = event
      BY <3>6 DEF EnqueueRestore
    <3>7. ~UNCHANGED vars
      BY <1>1 DEF vars
    <3> QED
      BY <1>1, <3>1, <3>2, <3>3, <3>4, <3>5, <3>6, <3>7 DEF Next
  <2>2. PICK q \in Proposals : Execute(q)
    BY <2>1
  <2>3. q = p
    BY <1>1, <2>0, <2>2 DEF Execute, Conclude
  <2>4. prop[p].kind # "create" /\ task[p].base = event.etag /\ prop[p].status = "executing"
    BY <1>1, <2>2, <2>3 DEF Execute, Accepts
  <2>5. prop[p].base = task[p].base
    BY <1>1, ProposalsKnown DEF Fits
  <2>6. prop[p].kind \in {"update", "restore"}
    BY <1>1, <2>4, ProposalsKnown DEF Whole, ProposalRows
  <2> QED
    BY <1>1, <2>4, <2>5, <2>6 DEF Scheduled, Dated, Of
<1>2. Scheduled /\ [MCNext]_<<vars, mail, writes, kind>> =>
        [\A p \in Proposals :
           task[p].state = "claimed" /\ event' # event /\ task'[p] # task[p]
             => Content(event) = prop[p].before]_vars
  BY <1>1, KindsApart
<1> QED
  BY <1>2, ScheduledAlways, PTL DEF MCSpec, OverwritesOnlyShown

\* A restoration starts from the newest event that is known, never puts an older answer
\* over a newer copy, and is the only one of its key.
THEOREM RestoreStartsFreshHolds == MCSpec => RestoreStartsFresh
<1>1. ASSUME Scheduled, [Next]_vars, NEW p \in Proposals,
             prop[p].status = "absent", prop'[p].kind = "restore"
      PROVE  /\ cache'.etag >= cache.etag /\ prop'[p].base = cache'.etag
             /\ prop'[p].before = Content(cache')
             /\ \A q \in Proposals : q # p => prop[q].key # prop'[p].key
  <2>0. prop \in [Proposals -> ProposalRows]
    BY <1>1 DEF Scheduled, Proposed
  <2>1. prop[p].kind # "restore" /\ prop'[p] # prop[p]
    <3>1. prop[p].kind = None
      BY <1>1, ProposalsKnown DEF Whole, Absent
    <3> QED
      BY <1>1, <3>1, ConstantsAssumption
  <2>2. ~ \E q \in Created : Create(q)
    <3> SUFFICES ASSUME NEW q \in Proposals, Create(q)
                 PROVE  FALSE
      BY ConstantsAssumption
    <3>1. prop'[q].kind \in {"create", "update"} /\ \A r \in Proposals : r # q => prop'[r] = prop[r]
      <4>1. CASE CreateShell(q)
        <5> DEFINE row == [New("create", TRUE, Home) EXCEPT !.guests = "nobody"]
        <5>1. prop' = [prop EXCEPT ![q] = row]
          BY <4>1 DEF CreateShell, Put
        <5>2. row.kind = "create"
          BY DEF New, Absent
        <5> HIDE DEF row
        <5> QED
          BY <2>0, <5>1, <5>2
      <4>2. CASE \E c \in Calendars, t \in Times, g \in Guests : CreateEvent(q, c, t, g)
        <5>0. PICK c \in Calendars, t \in Times, g \in Guests : CreateEvent(q, c, t, g)
          BY <4>2
        <5> DEFINE row == [New("create", FALSE, c) EXCEPT !.time = t, !.guests = g,
                    !.policy = DefaultPolicy("create", [time |-> t, guests |-> g], None)]
        <5>1. prop' = [prop EXCEPT ![q] = row]
          BY <5>0 DEF CreateEvent, Put
        <5>2. row.kind = "create"
          BY DEF New, Absent
        <5> HIDE DEF row
        <5> QED
          BY <2>0, <5>1, <5>2
      <4>3. CASE \E t \in Times, explicit \in BOOLEAN : CreateUpdate(q, explicit, t)
        <5>0. PICK t \in Times, explicit \in BOOLEAN : CreateUpdate(q, explicit, t)
          BY <4>3
        <5> DEFINE content == IF explicit THEN Content(cache) ELSE [Content(cache) EXCEPT !.time = t]
                   row == [New("update", explicit, Home) EXCEPT
                     !.time = content.time, !.guests = content.guests,
                     !.policy = DefaultPolicy("update", content, Content(cache)),
                     !.before = Content(cache), !.base = cache.etag]
        <5>1. prop' = [prop EXCEPT ![q] = row]
          BY <5>0, Zenon DEF CreateUpdate, Put
        <5> HIDE DEF content
        <5>2. row.kind = "update"
          BY DEF New, Absent
        <5> HIDE DEF row
        <5> QED
          BY <2>0, <5>1, <5>2
      <4> QED
        BY <4>1, <4>2, <4>3 DEF Create
    <3> QED
      BY <1>1, <2>1, <3>1
  <2>3. ~ \E q \in Proposals : \/ Cancel(q) \/ Submit(q) \/ Approve(q) \/ GiveBack(q) \/ Claim(q)
                               \/ Execute(q) \/ Reconcile(q)
    <3> SUFFICES ASSUME NEW q \in Proposals,
                        \E status : prop' = [prop EXCEPT ![q].status = status]
                 PROVE  FALSE
      BY DEF Cancel, Submit, Approve, GiveBack, Claim, Execute, Reconcile, Conclude
    <3>1. prop'[p].kind = prop[p].kind
      BY <2>0 DEF ProposalRows
    <3> QED
      BY <1>1, <2>1, <3>1
  <2>4. ~ \E s \in Sessions :
            \/ \E t \in Times \cup {None}, g \in Guests \cup {None}, n \in Policies \cup {None} :
                 Edit(s, t, g, n)
            \/ Suggest(s) \/ \E f \in Fields, c \in Calendars : Confirm(s, f, c)
    <3> SUFFICES ASSUME NEW s \in Sessions, NEW row, NEW values, SaveNextVersion(s, row, values)
                 PROVE  FALSE
      BY DEF Edit, Suggest, Confirm
    <3>1. prop' = prop \/ Saves(s)
      BY DEF SaveNextVersion
    <3>2. \A q \in Proposals : q # ses[s].proposal => prop'[q] = prop[q]
      BY <2>0 DEF SaveNextVersion
    <3> QED
      BY <1>1, <2>1, <3>1, <3>2 DEF Saves
  <2>5. PICK s \in Sessions : CommitRestore(s)
    BY <1>1, <2>1, <2>2, <2>3, <2>4 DEF Next, vars, EditElsewhere, Synchronise, EnqueueRestore,
       Change, Load, PlanRestore, GetCurrentEvent, Crash
  <2> DEFINE k == ses[s].key
             origin == restore[k].source
             got == ses[s].got
             row == Restored(origin, got, k)
  <2>6. /\ ses[s].op = "restore" /\ k \in Keys /\ origin \in Proposals /\ got \in Events
        /\ Read(ses[s])
    BY <1>1, <2>5, CalendarSessionsKnown DEF CommitRestore, Occupied
  <2>7. PICK q \in Proposals :
          /\ restore[k].result = None /\ Restorable(origin) /\ Unmoved(s)
          /\ prop' = [prop EXCEPT ![q] = row] /\ cache' = got
    BY <2>1, <2>5 DEF CommitRestore
  <2>8. row.before = Content(got) /\ row.base = got.etag /\ row.key = k
    <3>1. prop[origin].kind = "update"
      BY <2>7 DEF Restorable
    <3> HIDE DEF origin, got, k
    <3> QED
      BY <1>1, <2>6, <3>1, RestoredMeans
  <2> HIDE DEF row
  <2>9. q = p /\ prop'[p] = row
    BY <2>0, <2>1, <2>7
  <2>10. cache'.etag >= cache.etag
    <3>1. /\ ses[s].cached <= got.etag /\ cache.etag = ses[s].cached
          /\ got.etag \in Nat /\ cache.etag \in Nat
      BY <1>1, <2>6, <2>7, EventTyped DEF Read, Unmoved, Events
    <3> QED
      BY <2>7, <3>1
  <2>11. ASSUME NEW r \in Proposals PROVE prop[r].key # k
    <3>1. r # None /\ k # None
      BY <2>6, ConstantsAssumption
    <3> QED
      BY <1>1, <2>7, <3>1 DEF Scheduled, Keyed
  <2> QED
    BY <2>7, <2>8, <2>9, <2>10, <2>11
<1>2. Scheduled /\ [MCNext]_<<vars, mail, writes, kind>> =>
        [\A p \in Proposals :
           prop[p].status = "absent" /\ prop'[p].kind = "restore" =>
             /\ cache'.etag >= cache.etag /\ prop'[p].base = cache'.etag
             /\ prop'[p].before = Content(cache')
             /\ \A q \in Proposals : q # p => prop[q].key # prop'[p].key]_vars
  BY <1>1, KindsApart
<1> QED
  BY <1>2, ScheduledAlways, PTL DEF MCSpec, RestoreStartsFresh

\* A step of another proposal leaves a proposal alone, and only a proposal that is
\* edited gets another version.
LEMMA OwnSteps ==
  ASSUME Scheduled, Next, NEW p \in Proposals
  PROVE  \/ prop'[p] = prop[p] /\ task'[p] = task[p]
         \/ prop[p].status \in {"absent", "editing"} /\ task'[p] = task[p]
         \/ Cancel(p) \/ Submit(p) \/ Approve(p) \/ GiveBack(p) \/ Claim(p) \/ Execute(p)
         \/ Reconcile(p)
<1> DEFINE Goal == \/ prop'[p] = prop[p] /\ task'[p] = task[p]
                   \/ prop[p].status \in {"absent", "editing"} /\ task'[p] = task[p]
<1>0. prop \in [Proposals -> ProposalRows] /\ task \in [Proposals -> CommandRows]
  BY DEF Scheduled, Proposed
<1>1. ASSUME NEW q \in Proposals, NEW row, prop' = [prop EXCEPT ![q] = row], task' = task,
             prop[q].status \in {"absent", "editing"}
      PROVE  Goal
  BY <1>0, <1>1
<1>2. ASSUME NEW q \in Proposals, q # p,
             Cancel(q) \/ Submit(q) \/ Approve(q) \/ GiveBack(q) \/ Claim(q) \/ Execute(q) \/ Reconcile(q)
      PROVE  Goal
  <2>1. ASSUME NEW state, NEW status, Conclude(q, state, status) PROVE Goal
    BY <1>0, <1>2, <2>1 DEF Conclude
  <2>2. CASE Cancel(q) \/ Submit(q)
    BY <1>0, <1>2, <2>2 DEF Cancel, Submit
  <2> HIDE DEF Goal
  <2> QED
    BY <1>2, <2>1, <2>2 DEF Approve, GiveBack, Claim, Execute, Reconcile
<1>3. ASSUME NEW q \in Created, Create(q) PROVE Goal
  <2>1. ASSUME NEW row, NEW values, Put(q, row, values) PROVE Goal
    <3>1. q \in Proposals
      BY <1>3, ConstantsAssumption
    <3> QED
      BY <1>1, <2>1, <3>1 DEF Put
  <2> HIDE DEF Goal
  <2> QED
    BY <1>3, <2>1 DEF Create, CreateShell, CreateEvent, CreateUpdate
<1>4. ASSUME NEW s \in Sessions, Change(s) PROVE Goal
  <2>1. ASSUME NEW row, NEW values, ses[s].op = "loaded", SaveNextVersion(s, row, values) PROVE Goal
    <3>1. ses[s].proposal \in Proposals
      BY <2>1, CalendarSessionsKnown DEF Occupied
    <3>2. CASE ~Saves(s)
      BY <2>1, <3>2 DEF SaveNextVersion
    <3>3. CASE Saves(s)
      BY <1>1, <2>1, <3>1, <3>3 DEF SaveNextVersion, Saves
    <3> QED
      BY <3>2, <3>3
  <2>2. CASE CommitRestore(s)
    <3>1. task' = task
      BY <2>2 DEF CommitRestore
    <3>2. CASE prop' = prop
      BY <3>1, <3>2
    <3> QED
      BY <1>1, <2>2, <3>1, <3>2 DEF CommitRestore
  <2>3. CASE prop' = prop /\ task' = task
    BY <2>3
  <2> HIDE DEF Goal
  <2> QED
    BY <1>4, <2>1, <2>2, <2>3
       DEF Change, Edit, Suggest, Confirm, Load, PlanRestore, GetCurrentEvent, Crash
<1>5. CASE prop' = prop /\ task' = task
  BY <1>5
<1>6. CASE (\E t \in Times : EditElsewhere(t)) \/ Synchronise
           \/ \E k \in Keys, q \in Proposals : EnqueueRestore(k, q)
  BY <1>5, <1>6 DEF EditElsewhere, Synchronise, EnqueueRestore
<1> HIDE DEF Goal
<1>7. CASE \E q \in Proposals : \/ Cancel(q) \/ Submit(q) \/ Approve(q) \/ GiveBack(q)
                                 \/ Claim(q) \/ Execute(q) \/ Reconcile(q)
  <2>1. Goal \/ Cancel(p) \/ Submit(p) \/ Approve(p) \/ GiveBack(p) \/ Claim(p) \/ Execute(p)
             \/ Reconcile(p)
    BY <1>2, <1>7
  <2> QED
    BY <2>1 DEF Goal
<1>8. CASE (\E q \in Created : Create(q)) \/ \E s \in Sessions : Change(s)
  <2>1. Goal
    BY <1>3, <1>4, <1>8
  <2> QED
    BY <2>1 DEF Goal
<1> QED
  BY <1>6, <1>7, <1>8 DEF Next

\* What is submitted had every field confirmed.
Ripe == \A p \in Proposals : task[p].state # "none" => prop[p].confirmed = Fields

LEMMA RipeStep == Scheduled /\ Ripe /\ [Next]_vars => Ripe'
<1> SUFFICES ASSUME Scheduled, Ripe, [Next]_vars, NEW p \in Proposals, task'[p].state # "none"
             PROVE  prop'[p].confirmed = Fields
  BY DEF Ripe
<1>0. /\ prop \in [Proposals -> ProposalRows] /\ task \in [Proposals -> CommandRows]
      /\ Fits(task[p], prop[p])
  BY ProposalsKnown DEF Scheduled, Proposed
<1>1. CASE prop'[p] = prop[p] /\ task'[p] = task[p]
  BY <1>1 DEF Ripe
<1>2. CASE prop[p].status \in {"absent", "editing"} /\ task'[p] = task[p]
  BY <1>0, <1>2 DEF Fits
<1>3. CASE Cancel(p)
  BY <1>0, <1>3 DEF Cancel, Ripe
<1>4. CASE Submit(p)
  BY <1>0, <1>4 DEF Submit, Submittable, Ready
<1>5. ASSUME NEW state, NEW status, Conclude(p, state, status), task[p].state # "none"
      PROVE  prop'[p].confirmed = Fields
  BY <1>0, <1>5 DEF Conclude, Ripe
<1>6. CASE Approve(p) \/ GiveBack(p) \/ Claim(p)
  BY <1>5, <1>6 DEF Approve, GiveBack, Claim
<1>7. CASE Execute(p) \/ Reconcile(p)
  BY <1>5, <1>7 DEF Execute, Reconcile
<1>8. CASE UNCHANGED vars
  BY <1>1, <1>8 DEF vars
<1> QED
  BY <1>1, <1>2, <1>3, <1>4, <1>6, <1>7, <1>8, OwnSteps

LEMMA RipeAlways == MCSpec => []Ripe
<1>1. MCInit => Ripe
  BY DEF MCInit, Init, Ripe, NoTask
<1>2. Scheduled /\ Ripe /\ [MCNext]_<<vars, mail, writes, kind>> => Ripe'
  BY KindsApart, RipeStep
<1> QED
  BY <1>1, <1>2, ScheduledAlways, PTL DEF MCSpec

\* A command of a proposal that asks for confirmations carries the calendar, the time
\* and the guests that the user was shown and confirmed, each of them, whatever was
\* edited in between.
FrozenIsConfirmed ==
  \A p \in Proposals : task[p].state # "none" /\ prop[p].explicit =>
    /\ task[p].content = [time |-> seen[p]["time"], guests |-> seen[p]["attendees"]]
    /\ prop[p].target = seen[p]["calendar"]

THEOREM FrozenIsConfirmedHolds == MCSpec => []FrozenIsConfirmed
<1>1. ASSUME Scheduled, Ripe, NEW p \in Proposals, task[p].state # "none", prop[p].explicit
      PROVE  /\ task[p].content = [time |-> seen[p]["time"], guests |-> seen[p]["attendees"]]
             /\ prop[p].target = seen[p]["calendar"]
  <2>1. prop[p].confirmed = Fields /\ Shown(prop[p], seen[p]) /\ Fits(task[p], prop[p])
    BY <1>1, ProposalsKnown DEF Ripe
  <2>2. /\ seen[p]["calendar"] = prop[p].target /\ seen[p]["time"] = prop[p].time
        /\ seen[p]["attendees"] = prop[p].guests
    BY <1>1, <2>1, ValueMeans DEF Shown, Fields
  <2>3. task[p].content = Content(prop[p])
    BY <1>1, <2>1 DEF Fits
  <2> QED
    BY <2>2, <2>3 DEF Content
<1>2. Scheduled /\ Ripe => FrozenIsConfirmed
  BY <1>1 DEF FrozenIsConfirmed
<1> QED
  BY <1>2, ScheduledAlways, RipeAlways, PTL

\* An applied and a cancelled proposal stay as they are, whatever its approval, its
\* execution and the requests that read it before still do.
OutcomeStays ==
  [][\A p \in Proposals : prop[p].status \in {"applied", "cancelled"} => prop'[p] = prop[p]]_vars

THEOREM OutcomeStaysHolds == MCSpec => OutcomeStays
<1>1. ASSUME Scheduled, [Next]_vars, NEW p \in Proposals, prop[p].status \in {"applied", "cancelled"}
      PROVE  prop'[p] = prop[p]
  <2>1. CASE Next
    <3>1. ~(Cancel(p) \/ Submit(p) \/ Approve(p) \/ GiveBack(p) \/ Claim(p) \/ Execute(p) \/ Reconcile(p))
      BY <1>1 DEF Cancel, Submit, Submittable, Approve, GiveBack, Claim, Execute, Reconcile
    <3> QED
      BY <1>1, <2>1, <3>1, OwnSteps
  <2> QED
    BY <1>1, <2>1 DEF vars
<1>2. Scheduled /\ [MCNext]_<<vars, mail, writes, kind>> =>
        [\A p \in Proposals : prop[p].status \in {"applied", "cancelled"} => prop'[p] = prop[p]]_vars
  BY <1>1, KindsApart
<1> QED
  BY <1>2, ScheduledAlways, PTL DEF MCSpec, OutcomeStays
=============================================================================
