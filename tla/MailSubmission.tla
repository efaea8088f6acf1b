--------------------------- MODULE MailSubmission ---------------------------
(***************************************************************************)
(* The local mail drafts of one user, from the first version to the        *)
(* trusted task that sends one of them.                                    *)
(*                                                                         *)
(* A draft is a row with a current version; every edit, by the user or by  *)
(* the model, is a compare-and-set on that row.  A submission freezes the  *)
(* current version and the account of the draft into a task with one       *)
(* approval; from then on the draft may not change until the task is       *)
(* withdrawn, decided or executed.  Taking the permission to send away     *)
(* from an account must also take away the submissions that rest on it,    *)
(* the one that another request is inserting right now included.           *)
(*                                                                         *)
(* Everything is a short transaction that first takes its locks, in the    *)
(* order key, scope of the account, tasks, user, draft.  Nothing is        *)
(* written before the lock of the user, so what follows it is one step of  *)
(* the model; what is read and locked before it are steps of their own.    *)
(* A session is one request or one worker's run; the locks it holds follow *)
(* from where it is (`at`).                                                *)
(***************************************************************************)
EXTENDS Integers, Sequences

CONSTANTS
  Sessions,     \* requests and runs in progress
  Drafts,       \* draft identifiers
  Conns,        \* connected accounts
  CreationKeys, \* idempotency keys of creations
  SubmitKeys,   \* idempotency keys of submissions
  Generations,  \* tasks that let the model write a version
  None,
  MaxVersion,   \* bound: versions of a draft
  MaxTasks      \* bound: trusted tasks

VARIABLES
  enabled,    \* accounts whose mail.read and mail.send are enabled
  draft,      \* MailDraftModel
  source,     \* history: the version that each version was written from
  task,       \* trusted tasks with their step summary and their approval
  generation, \* generation tasks: draft and version, owner of the lease, invocation stored
  ses         \* what each session is doing

vars == <<enabled, draft, source, task, generation, ses>>

-----------------------------------------------------------------------------
DraftStatuses == {"absent", "editing", "awaiting_approval", "executing",
                  "needs_attention", "sent", "cancelled"}
Absent == [status |-> "absent", version |-> 0, conn |-> None, key |-> None]
Idle == [op |-> "none", at |-> "idle", draft |-> None, base |-> 0,
         conn |-> None, key |-> None, want |-> {}, held |-> {}, gen |-> None]

\* A step written before summaries named their account: it names none, and
\* only the frozen command still does.
Legacy(d, c) == [draft |-> d, version |-> 1, conn |-> c, key |-> None,
                 state |-> "closed",
                 summary |-> None, command |-> TRUE]

\* A user with an older draft whose first version was once submitted and
\* rejected, or a user without any draft.
Init ==
  /\ enabled = Conns
  /\ generation = [g \in Generations |->
                     [draft |-> None, base |-> 0, owner |-> None, done |-> FALSE]]
  /\ ses = [s \in Sessions |-> Idle]
  /\ \/ /\ draft = [d \in Drafts |-> Absent]
        /\ source = [d \in Drafts |-> <<>>]
        /\ task = <<>>
     \/ \E d \in Drafts, c \in Conns :
          /\ draft = [e \in Drafts |->
                        IF e = d THEN [status |-> "editing", version |-> 1,
                                       conn |-> c, key |-> None]
                        ELSE Absent]
          /\ source = [e \in Drafts |-> IF e = d THEN <<0>> ELSE <<>>]
          /\ task = <<Legacy(d, c)>>

-----------------------------------------------------------------------------
(* Locks                                                                   *)

Tasks == 1..Len(task)
Of(d) == {t \in Tasks : task[t].draft = d}
\* What became of a closed one, its approval among it, nobody asks for again.
Live(t) == task[t].state # "closed"
Open(t) == task[t].state \in {"pending", "approved"}

KeyHeld(k) == \E s \in Sessions : ses[s].op = "submit" /\ ses[s].key = k
\* The advisory lock on (user, account) that submission and revocation share.
ScopeHeld(c) ==
  \E s \in Sessions : /\ ses[s].op \in {"submit", "revoke"} /\ ses[s].conn = c
                      /\ ses[s].at \in {"tasks", "user"}
TaskHeld(t) == \E s \in Sessions : t \in ses[s].held
GenerationHeld(g) ==
  \E s \in Sessions : ses[s].gen = g /\ ses[s].at = "user"

Free(s) == ses[s].at = "idle"
\* lock_active_user succeeds: the last lock before the draft.
Working(s, op) == ses[s].op = op /\ ses[s].at = "user"
Become(s, state) == ses' = [ses EXCEPT ![s] = state]
At(s, place) == Become(s, [ses[s] EXCEPT !.at = place])
Leave(s) == Become(s, Idle)

\* The process or its connection to the database is lost: a transaction that
\* has not committed leaves nothing behind.
Crash(s) ==
  /\ ~Free(s) /\ Leave(s)
  /\ UNCHANGED <<enabled, draft, source, task, generation>>

-----------------------------------------------------------------------------
(* Drafts and their versions                                               *)

KeyTaken(k) == \E d \in Drafts : draft[d].key = k

\* MailDraftUseCase.create reads the key before anything that may have
\* changed since the first request; a replay answers without a step.
BeginCreate(s, k, c) ==
  /\ Free(s) /\ ~KeyTaken(k) /\ c \in enabled
  /\ Become(s, [Idle EXCEPT !.op = "create", !.at = "user", !.conn = c, !.key = k])
  /\ UNCHANGED <<enabled, draft, source, task, generation>>

\* The insert; the loser of the unique key answers with the winner's draft.
InsertDraft(s) ==
  /\ Working(s, "create")
  /\ \/ /\ KeyTaken(ses[s].key) /\ UNCHANGED <<draft, source>>
     \/ /\ ~KeyTaken(ses[s].key)
        /\ \E d \in Drafts :
             /\ draft[d].status = "absent"
             /\ draft' = [draft EXCEPT ![d] =
                            [status |-> "editing", version |-> 1,
                             conn |-> ses[s].conn, key |-> ses[s].key]]
             /\ source' = [source EXCEPT ![d] = <<0>>]
  /\ Leave(s)
  /\ UNCHANGED <<enabled, task, generation>>

\* MailDraftUseCase.update: the content is read without a lock; what the
\* request leaves out is filled in from it.  A request that names an older
\* version is refused whatever happens next.  A request may move a new mail to
\* another account (a reply may not, so the drafts here are new mails); to name the
\* one it has is to name none.
BeginUpdate(s, d, c) ==
  /\ Free(s) /\ draft[d].status = "editing"
  /\ c # None => c \in enabled /\ c # draft[d].conn
  /\ Become(s, [Idle EXCEPT !.op = "update", !.at = "user", !.draft = d,
                            !.base = draft[d].version, !.conn = c])
  /\ UNCHANGED <<enabled, draft, source, task, generation>>

\* A task that generates a body for the version its creator sees.
EnqueueGeneration(g, d) ==
  /\ generation[g].draft = None /\ draft[d].status # "absent"
  /\ generation' = [generation EXCEPT ![g].draft = d, ![g].base = draft[d].version]
  /\ UNCHANGED <<enabled, draft, source, task, ses>>

\* A delivery of that task: it takes the lease, finds no stored invocation
\* and calls the model outside any transaction.
BeginGeneration(s, g) ==
  LET d == generation[g].draft
  IN /\ Free(s) /\ d # None /\ ~generation[g].done /\ ~GenerationHeld(g)
     /\ generation' = [generation EXCEPT ![g].owner = s]
     /\ Become(s, [Idle EXCEPT !.op = "update", !.at = "model", !.draft = d,
                            !.base = generation[g].base, !.gen = g])
     /\ UNCHANGED <<enabled, draft, source, task>>

Marked(g) == [generation EXCEPT ![g].done = TRUE, ![g].owner = None]

\* _persist_result locks the row of its task and goes on only as its owner.
LockGeneration(s) ==
  /\ ses[s].at = "model" /\ ~GenerationHeld(ses[s].gen)
  /\ IF generation[ses[s].gen].owner = s /\ ~generation[ses[s].gen].done
     THEN At(s, "user") ELSE Leave(s)
  /\ UNCHANGED <<enabled, draft, source, task, generation>>

\* preserve_historical_action_bindings: a summary that names no account gets
\* the one of its frozen command, which must be the one the draft is leaving;
\* without the command the draft may not move.
Bindable(d) ==
  \A t \in Of(d) : task[t].summary = None => task[t].command /\ task[t].conn = draft[d].conn
Bound(d) == [t \in Tasks |-> IF t \in Of(d) /\ task[t].summary = None /\ task[t].command
                             THEN [task[t] EXCEPT !.summary = task[t].conn]
                             ELSE task[t]]

Moves(s) == ses[s].conn # None /\ ses[s].conn # draft[ses[s].draft].conn
\* Variant: the update does not ask for the version it was based on.
SavesAnyway(s) == LET d == ses[s].draft IN
  /\ draft[d].status = "editing" /\ Moves(s) => Bindable(d)

Saves(s) == LET d == ses[s].draft IN
  /\ draft[d].version = ses[s].base /\ draft[d].status = "editing"
  /\ Moves(s) => Bindable(d)
\* save_next_version, and for a generation the marker in the same
\* transaction, whether or not the version was saved.
SaveNextVersion(s) == LET d == ses[s].draft IN
  /\ Working(s, "update")
  /\ \/ /\ Saves(s) /\ draft[d].version < MaxVersion
        /\ draft' = [draft EXCEPT ![d].version = @ + 1,
                                  ![d].conn = IF Moves(s) THEN ses[s].conn ELSE @]
        /\ source' = [source EXCEPT ![d] = Append(@, ses[s].base)]
        /\ task' = IF Moves(s) THEN Bound(d) ELSE task
     \/ ~Saves(s) /\ UNCHANGED <<draft, source, task>>
  /\ generation' = IF ses[s].gen = None THEN generation ELSE Marked(ses[s].gen)
  /\ Leave(s)
  /\ UNCHANGED <<enabled>>

\* A call of the model that fails or times out leaves only the marker.
GenerationFails(s) ==
  /\ Working(s, "update") /\ ses[s].gen # None
  /\ generation' = Marked(ses[s].gen)
  /\ Leave(s)
  /\ UNCHANGED <<enabled, draft, source, task>>

\* Only an editing draft: a submitted one is withdrawn through its task.
CancelDraft(d) ==
  /\ draft[d].status = "editing"
  /\ draft' = [draft EXCEPT ![d].status = "cancelled"]
  /\ UNCHANGED <<enabled, source, task, generation, ses>>

-----------------------------------------------------------------------------
(* Submission                                                              *)

Submitted(k) == \E t \in Tasks : task[t].key = k

\* find_existing_submission holds the lock of its key to the end; the account
\* is looked up without a lock, to know which scope to lock.  A replay of the
\* key answers with the task it finds, without a step.
BeginSubmit(s, d, k) ==
  /\ Free(s) /\ ~KeyHeld(k) /\ ~Submitted(k) /\ draft[d].status = "editing"
  /\ Become(s, [Idle EXCEPT !.op = "submit", !.at = "scope", !.draft = d,
                            !.base = draft[d].version, !.conn = draft[d].conn, !.key = k])
  /\ UNCHANGED <<enabled, draft, source, task, generation>>

\* Variant: a submission does not wait for a revocation of its account.
ScopeIgnored(c) == TRUE

ScopeFree(c) == ~ScopeHeld(c)

\* lock_connection_submission_scope, for a submission.
LockScope(s) ==
  /\ ses[s].at = "scope" /\ ScopeFree(ses[s].conn) /\ At(s, "user")
  /\ UNCHANGED <<enabled, draft, source, task, generation>>

\* Variant: only undecided approvals count.
ConsumedByLive(d, version) == \E t \in Of(d) : task[t].version = version /\ Live(t)

\* proposal_version_is_consumed: any approval, decided or not.
Consumed(d, version) == \E t \in Of(d) : task[t].version = version

\* lock_mail_draft finds the draft under the account whose scope it holds;
\* _validate_mail_snapshot and _validate_write_gate follow.
Submittable(s) == LET d == ses[s].draft IN
  /\ draft[d].conn = ses[s].conn /\ draft[d].status = "editing"
  /\ draft[d].version = ses[s].base
  /\ ses[s].conn \in enabled
  /\ ~Consumed(d, ses[s].base)

\* _freeze and create_submission.
Frozen(s) == [draft |-> ses[s].draft, version |-> ses[s].base,
              conn |-> draft[ses[s].draft].conn, key |-> ses[s].key,
              state |-> "pending",
              summary |-> draft[ses[s].draft].conn, command |-> TRUE]

Submit(s) ==
  /\ Working(s, "submit")
  /\ \/ /\ Submittable(s) /\ Len(task) < MaxTasks
        /\ task' = Append(task, Frozen(s))
        /\ draft' = [draft EXCEPT ![ses[s].draft].status = "awaiting_approval"]
     \/ ~Submittable(s) /\ UNCHANGED <<task, draft>>
  /\ Leave(s)
  /\ UNCHANGED <<enabled, source, generation>>

-----------------------------------------------------------------------------
(* What becomes of a submission                                            *)

\* The user or a worker takes the lock of a task to act on it.
BeginDecide(s, t) ==
  /\ Free(s) /\ Live(t) /\ ~TaskHeld(t)
  /\ Become(s, [Idle EXCEPT !.op = "decide", !.at = "user", !.held = {t}])
  /\ UNCHANGED <<enabled, draft, source, task, generation>>

\* The transactions of TrustedAction as they show here: what each makes of
\* the task with its approval, and of the draft.
Outcomes(t) == LET x == task[t] IN
  CASE x.state = "pending" -> {<<"approved", "awaiting_approval">>, <<"closed", "editing">>}
    [] x.state = "approved" ->
         {<<"closed", "editing">>}
           \cup (IF x.conn \in enabled THEN {<<"claimed", "executing">>} ELSE {})
    [] x.state = "claimed" ->
         {<<"closed", "sent">>, <<"closed", "editing">>, <<"claimed", "needs_attention">>}
    [] OTHER -> {<<x.state, draft[x.draft].status>>}

Decide(s) ==
  /\ Working(s, "decide")
  /\ \E t \in ses[s].held : \E o \in Outcomes(t) :
       /\ task' = [task EXCEPT ![t].state = o[1]]
       /\ draft' = [draft EXCEPT ![task[t].draft].status = o[2]]
  /\ Leave(s)
  /\ UNCHANGED <<enabled, source, generation>>

\* Retention removes the command of a settled task.
Purge(t) ==
  /\ task[t].state = "closed" /\ task[t].summary = None /\ task[t].command
  /\ task' = [task EXCEPT ![t].command = FALSE]
  /\ UNCHANGED <<enabled, draft, source, generation, ses>>

-----------------------------------------------------------------------------
(* Revocation                                                              *)

Candidates(c) == {t \in Tasks : Live(t) /\ draft[task[t].draft].conn = c}

\* The scope is locked before the tasks on it are looked for.
BeginRevoke(s, c) ==
  /\ Free(s) /\ c \in enabled /\ ScopeFree(c)
  /\ Become(s, [Idle EXCEPT !.op = "revoke", !.conn = c, !.want = Candidates(c),
                            !.at = IF Candidates(c) = {} THEN "user" ELSE "tasks"])
  /\ UNCHANGED <<enabled, draft, source, task, generation>>

\* Rows of tasks are locked one by one in the order of their identifiers.
LockTask(s) == \E t \in ses[s].want :
  /\ ses[s].at = "tasks" /\ ~TaskHeld(t) /\ \A u \in ses[s].want : t <= u
  /\ Become(s, [ses[s] EXCEPT !.want = @ \ {t}, !.held = @ \cup {t},
                              !.at = IF ses[s].want = {t} THEN "user" ELSE "tasks"])
  /\ UNCHANGED <<enabled, draft, source, task, generation>>

\* Under all the locks each candidate is read again: what nobody has claimed
\* is cancelled and its draft may be edited, what may have been sent is left
\* to the read-only reconciliation.
Withdrawn(t) == /\ Open(t)
                /\ draft[task[t].draft].status = "awaiting_approval"
                /\ draft[task[t].draft].version = task[t].version
Doubtful(t) == /\ task[t].state = "claimed"
               /\ draft[task[t].draft].status \in {"executing", "needs_attention"}
TasksWithout(T) ==
  [t \in Tasks |-> IF t \in T /\ Withdrawn(t)
                   THEN [task[t] EXCEPT !.state = "closed"]
                   ELSE task[t]]
DraftsWithout(T) ==
  [d \in Drafts |->
     IF \E t \in T : task[t].draft = d /\ Withdrawn(t)
     THEN [draft[d] EXCEPT !.status = "editing"]
     ELSE IF \E t \in T : task[t].draft = d /\ Doubtful(t)
     THEN [draft[d] EXCEPT !.status = "needs_attention"]
     ELSE draft[d]]

\* invalidate_unclaimed_actions_for_connection, then the change of the
\* account in the same transaction.
Revoke(s) ==
  LET c == ses[s].conn
      T == {t \in ses[s].held : draft[task[t].draft].conn = c}
  IN /\ Working(s, "revoke")
     /\ task' = TasksWithout(T) /\ draft' = DraftsWithout(T)
     /\ enabled' = enabled \ {c}
     /\ Leave(s)
     /\ UNCHANGED <<source, generation>>

\* A callback enables the capabilities again, under the lock of the user.
Authorize(c) ==
  /\ c \notin enabled
  /\ enabled' = enabled \cup {c}
  /\ UNCHANGED <<draft, source, task, generation, ses>>

-----------------------------------------------------------------------------
Begin(s) ==
  \/ \E k \in CreationKeys, c \in Conns : BeginCreate(s, k, c)
  \/ \E d \in Drafts, c \in Conns \cup {None} : BeginUpdate(s, d, c)
  \/ \E g \in Generations : BeginGeneration(s, g)
  \/ \E d \in Drafts, k \in SubmitKeys : BeginSubmit(s, d, k)
  \/ \E t \in Tasks : BeginDecide(s, t)
  \/ \E c \in Conns : BeginRevoke(s, c)

Lock(s) == LockGeneration(s) \/ LockScope(s) \/ LockTask(s)

Work(s) ==
  \/ InsertDraft(s) \/ SaveNextVersion(s) \/ GenerationFails(s)
  \/ Submit(s) \/ Decide(s) \/ Revoke(s)

Next ==
  \/ \E s \in Sessions : Begin(s) \/ Lock(s) \/ Work(s) \/ Crash(s)
  \/ \E g \in Generations, d \in Drafts : EnqueueGeneration(g, d)
  \/ \E d \in Drafts : CancelDraft(d)
  \/ \E t \in Tasks : Purge(t)
  \/ \E c \in Conns : Authorize(c)

Spec == Init /\ [][Next]_vars

-----------------------------------------------------------------------------
(* Properties                                                              *)

\* The rows have the types of their columns; a draft always has an account.
TypeOK ==
  /\ enabled \subseteq Conns
  /\ draft \in [Drafts -> [status : DraftStatuses, version : 0..MaxVersion,
                           conn : Conns \cup {None}, key : CreationKeys \cup {None}]]
  /\ task \in Seq([draft : Drafts, version : 1..MaxVersion, conn : Conns,
                   key : SubmitKeys \cup {None}, state : {"pending", "approved", "claimed", "closed"},
                   summary : Conns \cup {None}, command : BOOLEAN])
  /\ Len(task) <= MaxTasks
  /\ \A e \in Drafts : draft[e].status = "absent" <=> draft[e].conn = None

\* A draft is out of the user's hands exactly while one live task holds it,
\* and that task carries the version and the account the draft still has:
\* what the approver sees is what was submitted.  A version is submitted at
\* most once, whatever became of the first task: nothing the user has rejected
\* or seen fail is sent again unchanged.
FrozenIsCurrent ==
  /\ \A t \in Tasks : Live(t) =>
       /\ draft[task[t].draft].version = task[t].version
       /\ draft[task[t].draft].conn = task[t].conn
       /\ draft[task[t].draft].status \in
            IF Open(t) THEN {"awaiting_approval"}
            ELSE {"executing", "needs_attention"}
  /\ \A d \in Drafts :
       draft[d].status \in {"awaiting_approval", "executing", "needs_attention"} =>
         \E t \in Of(d) : Live(t)
  /\ \A t, u \in Tasks :
       task[t].draft = task[u].draft /\ task[t].version = task[u].version => t = u

\* Once an account may no longer send, no submission on it waits for a
\* decision or a claim, also not one that was being inserted meanwhile.
RevocationComplete ==
  \A t \in Tasks : Open(t) => task[t].conn \in enabled

\* Every version was written from the one before it: no edit of the user is
\* lost under a later request or under a slow model.
NothingLost ==
  \A d \in Drafts : \A v \in 1..Len(source[d]) : source[d][v] = v - 1
=============================================================================
