------------------------------ MODULE UserData ------------------------------
(***************************************************************************)
(* The data of one user, and how it is taken away: by retention while the  *)
(* user is active, and for good by privacy.delete_all_data.                *)
(*                                                                         *)
(* A user may ask for the deletion more than once; each request is a       *)
(* durable task of its own.  The first whose worker passes the barrier     *)
(* makes the user inactive and writes the started fact, its authority.     *)
(* From then on it deletes in transactions of its own, and a worker that   *)
(* takes it over starts from the first phase again.  Everybody else locks  *)
(* the user and looks whether they are active before they write.           *)
(*                                                                         *)
(* Rows that the code deletes one after the other without anybody in       *)
(* between are one kind here.                                              *)
(***************************************************************************)
EXTENDS Integers, FiniteSets

CONSTANTS
  None,
  RequestCount, \* bound: tasks privacy.delete_all_data
  WorkerCount,  \* workers that are at such a task at one time
  MaxFaults \* bound: failed attempts, lost messages and leases that run out early

ASSUME ConstantsAssumption ==
  /\ RequestCount \in Nat /\ WorkerCount \in Nat /\ MaxFaults \in Nat
  /\ None \notin Nat

\* The requests are numbered in the order in which they are made.
Requests == 1..RequestCount

Workers == 1..WorkerCount

\* data: mails, events, sessions, conversations and briefs, never all of them gone
\* before the deletion; content: what drafts, proposals and approvals hold.
RowKinds == {"data", "content", "connection", "credential", "audit", "checkpoint"}

Phases == {"idle", "barrier", "clean", "reconcile", "read", "credentials", "revoke",
           "graph", "tasks", "audits", "parents", "final"}

VARIABLES
  active,    \* users.is_active
  started,   \* the privacy.deletion_started facts
  completed, \* how often the deletion was completed
  request,   \* the tasks of the requests, over when failed, cancelled or deleted;
             \* owner: whose lease has not run out
  rows,
  connected, \* the status of the connection
  job,       \* another task of the user: "none", "running" or "done"
  execution, \* of a trusted action: "none", "open", "marked" or "settled"
  worker,
  retention, \* "on", "history" or "scanned"
  reads,     \* at the provider, of the action's result
  revokes,   \* of the connection's token
  faults

user == <<active, started, completed>>
outside == <<reads, revokes>>
tables == <<rows, connected, job, execution>>
vars == <<user, request, tables, worker, retention, outside, faults>>

-----------------------------------------------------------------------------
Asleep == [phase |-> "idle", request |-> None, normal |-> FALSE]

Init ==
  /\ active = TRUE /\ started = {} /\ completed = 0
  /\ request = [r \in Requests |->
       [status |-> "none", owner |-> None, message |-> FALSE]]
  /\ rows = {"data", "connection", "credential"} /\ connected = TRUE
  /\ job = "none" /\ execution = "none"
  /\ worker = [w \in Workers |-> Asleep]
  /\ retention = "on"
  /\ reads = 0 /\ revokes = 0 /\ faults = 0

\* A fault that the environment may still commit.
Fault == faults < MaxFaults /\ faults' = faults + 1

\* The cleaning of the history holds the locks of the task and of the user.
Unlocked == retention # "history"

\* Variant: the user is locked and not looked at.
AnyUser == Unlocked

\* lock_active_user, at the beginning of a transaction that writes for the user.
LockActive == Unlocked /\ active

-----------------------------------------------------------------------------
(* What the user and the ordinary workers do                               *)

\* A transaction that stores what a request or a run outside has brought.
Write(kind) ==
  /\ LockActive
  /\ rows' = rows \cup {kind}
  /\ UNCHANGED <<user, request, connected, job, execution, worker, retention, outside, faults>>

\* CreateTask.
CreateJob ==
  /\ LockActive /\ job = "none"
  /\ job' = "running" /\ rows' = rows \cup {"audit"}
  /\ UNCHANGED <<user, request, connected, execution, worker, retention, outside, faults>>

\* _authorize_write: the task exists and its user is active.
MaySave == job # "none" /\ active

SaveCheckpoint ==
  /\ Unlocked /\ MaySave
  /\ rows' = rows \cup {"checkpoint"}
  /\ UNCHANGED <<user, request, connected, job, execution, worker, retention, outside, faults>>

\* finish of an ordinary task asks for its owner and not for the user.
JobEnds ==
  /\ Unlocked /\ job = "running"
  /\ job' = "done" /\ rows' = rows \cup {"audit"}
  /\ UNCHANGED <<user, request, connected, execution, worker, retention, outside, faults>>

Claim ==
  /\ LockActive /\ execution = "none" /\ "content" \in rows
  /\ execution' = "open"
  /\ UNCHANGED <<user, request, rows, connected, job, worker, retention, outside, faults>>

\* An outcome is persisted by the lease that qualify withdraws.
Settle ==
  /\ Unlocked /\ execution = "open"
  /\ execution' = "settled"
  /\ UNCHANGED <<user, request, rows, connected, job, worker, retention, outside, faults>>

Connect ==
  /\ LockActive
  /\ rows' = rows \cup {"connection", "credential"} /\ connected' = TRUE
  /\ UNCHANGED <<user, request, job, execution, worker, retention, outside, faults>>

Disconnect ==
  /\ LockActive /\ connected
  /\ connected' = FALSE /\ rows' = rows \ {"credential"}
  /\ UNCHANGED <<user, request, job, execution, worker, retention, outside, faults>>

\* record_oauth_revoke_remediation locks the connection and not the user.
Remediate ==
  /\ "connection" \in rows
  /\ rows' = rows \cup {"audit"}
  /\ UNCHANGED <<user, request, connected, job, execution, worker, retention, outside, faults>>

-----------------------------------------------------------------------------
(* The requests                                                            *)

Ask(r) ==
  /\ LockActive /\ request[r].status = "none"
  /\ \A q \in Requests : q < r => request[q].status # "none"
  /\ request' = [request EXCEPT ![r].status = "queued", ![r].message = TRUE]
  /\ UNCHANGED <<user, tables, worker, retention, outside, faults>>

\* A worker of its own is at this request.
Attended(r) ==
  /\ request[r].owner \in Workers
  /\ worker[request[r].owner].phase # "idle" /\ worker[request[r].owner].request = r

\* The lease of a run that has ended runs out; that of one under way may, too.
Expire(r) ==
  /\ request[r].owner # None
  /\ IF Attended(r) THEN Fault ELSE UNCHANGED faults
  /\ request' = [request EXCEPT ![r].owner = None]
  /\ UNCHANGED <<user, tables, worker, retention, outside>>

Lose(r) ==
  /\ request[r].message /\ Fault
  /\ request' = [request EXCEPT ![r].message = FALSE]
  /\ UNCHANGED <<user, tables, worker, retention, outside>>

\* parse_privacy_deletion_started_authority: the one fact is that of this request.
Authority(r) == started = {r}

\* Variant: the scan goes over active users only.
RecoverActive(r) == active

\* _inactive_deletion_candidate.
Recoverable(r) == active \/ Authority(r)

\* recover_due.  The winner stays as it is and only gets a message.
Recover(r) ==
  /\ Unlocked /\ ~request[r].message /\ Recoverable(r)
  /\ \/ request[r].status = "queued" /\ active
     \/ request[r].status = "running" /\ request[r].owner = None
  /\ request' = [request EXCEPT ![r] =
       IF active THEN [status |-> "queued", owner |-> None, message |-> TRUE]
       ELSE [@ EXCEPT !.message = TRUE]]
  /\ UNCHANGED <<user, tables, worker, retention, outside, faults>>

Eligible(r) ==
  \/ active /\ request[r].status = "queued"
  \/ /\ request[r].status = "running" /\ request[r].owner = None
     /\ active \/ Authority(r)

\* Idle workers are alike.
FirstIdle(w) ==
  /\ worker[w].phase = "idle"
  /\ \A v \in Workers : worker[v].phase = "idle" => w <= v

\* acquire: the lease of an inactive user's deletion is a recovery.
Acquire(w, r) ==
  /\ Unlocked /\ FirstIdle(w) /\ request[r].message /\ Eligible(r)
  /\ request' = [request EXCEPT ![r] =
       [status |-> "running", owner |-> w, message |-> FALSE]]
  /\ worker' = [worker EXCEPT ![w] =
       [phase |-> "barrier", request |-> r, normal |-> active]]
  /\ UNCHANGED <<user, tables, retention, outside, faults>>

\* A message whose task is not to be had, or is no longer there.
Ignore(r) ==
  /\ Unlocked /\ request[r].message /\ ~Eligible(r)
  /\ request' = [request EXCEPT ![r].message = FALSE]
  /\ UNCHANGED <<user, tables, worker, retention, outside, faults>>

\* cancel of the user.
Cancel(r) ==
  /\ LockActive /\ request[r].status \in {"queued", "running"}
  /\ request' = [request EXCEPT ![r].status = "over", ![r].owner = None]
  /\ UNCHANGED <<user, tables, worker, retention, outside, faults>>

-----------------------------------------------------------------------------
(* The deletion                                                            *)

\* lock_deletion_binding: the task is running, and under this worker's lease.
Bound(w) ==
  LET r == worker[w].request IN
  /\ Unlocked
  /\ request[r].status = "running" /\ request[r].owner = w

\* And, for all that is deleted, the user is inactive by this very request.
Winner(w) == Bound(w) /\ ~active /\ Authority(worker[w].request)

Enter(w, phase) == worker' = [worker EXCEPT ![w].phase = phase]

\* A phase of the winner.
In(w, phase) == worker[w].phase = phase /\ Winner(w)

\* An active user must have no fact: the loser of the race finds one.
Prior(w) == started = {} /\ worker[w].normal

\* What the barrier asks for.
MayPass(w) ==
  /\ Bound(w)
  /\ IF active THEN Prior(w) ELSE ~worker[w].normal /\ Authority(worker[w].request)

\* _establish_barrier.
PassBarrier(w) ==
  /\ worker[w].phase = "barrier" /\ MayPass(w)
  /\ active' = FALSE /\ started' = {worker[w].request} \cup started
  /\ worker' = [worker EXCEPT ![w].phase = "clean", ![w].normal = FALSE]
  /\ UNCHANGED <<completed, request, tables, retention, outside, faults>>

\* Actions that nobody has claimed are cancelled and lose their content.
Clean(w) ==
  /\ In(w, "clean")
  /\ rows' = IF execution = "none" THEN rows \ {"content"} ELSE rows
  /\ Enter(w, "reconcile")
  /\ UNCHANGED <<user, request, connected, job, execution, retention, outside, faults>>

\* qualify: the mark of the one read is committed before the read.
Qualify(w) ==
  /\ In(w, "reconcile") /\ execution = "open"
  /\ execution' = "marked"
  /\ Enter(w, "read")
  /\ UNCHANGED <<user, request, rows, connected, job, retention, outside, faults>>

\* read_access goes on only with the mark, a usable token and a connection.
Marked == execution = "marked"

Read(w) ==
  /\ In(w, "read")
  /\ Marked /\ "credential" \in rows
  /\ reads' = reads + 1
  /\ Enter(w, "reconcile")
  /\ UNCHANGED <<user, request, tables, retention, revokes, faults>>

NoRead(w) ==
  /\ In(w, "read")
  /\ Enter(w, "reconcile")
  /\ UNCHANGED <<user, request, tables, retention, outside, faults>>

\* No open action is left.  One whose rows disagree would be passed over, and
\* TrustedAction shows that there is none.
Reconciled(w) ==
  /\ In(w, "reconcile") /\ execution # "open"
  /\ Enter(w, "credentials")
  /\ UNCHANGED <<user, request, tables, retention, outside, faults>>

\* One token is remembered for the revocation.
DropCredential(w) ==
  /\ In(w, "credentials") /\ "credential" \in rows
  /\ rows' = rows \ {"credential"}
  /\ Enter(w, "revoke")
  /\ UNCHANGED <<user, request, connected, job, execution, retention, outside, faults>>

\* After the commit, whatever the provider answers; the token may be unreadable.
Revoke(w) ==
  /\ worker[w].phase = "revoke"
  /\ revokes' \in {revokes, revokes + 1}
  /\ Enter(w, "credentials")
  /\ UNCHANGED <<user, request, tables, retention, reads, faults>>

\* _delete_local_rows: versions, snapshots, sources, messages, sessions and briefs,
\* when no credential is left.
DropRows(w) ==
  /\ In(w, "credentials") /\ "credential" \notin rows
  /\ rows' = rows \ {"data", "content"}
  /\ Enter(w, "graph")
  /\ UNCHANGED <<user, request, connected, job, execution, retention, outside, faults>>

\* clear_thread, in a transaction of the application's role.
DropCheckpoint(w) ==
  /\ In(w, "graph")
  /\ rows' = rows \ {"checkpoint"}
  /\ Enter(w, "tasks")
  /\ UNCHANGED <<user, request, connected, job, execution, retention, outside, faults>>

\* _delete_task_graph: all tasks but that of the winner, the other requests too.
DropTasks(w) ==
  /\ In(w, "tasks")
  /\ job' = "none" /\ execution' = "none"
  /\ request' = [r \in Requests |->
       IF r = worker[w].request THEN request[r] ELSE
         [request[r] EXCEPT !.status = IF @ = "none" THEN @ ELSE "over", !.owner = None]]
  /\ Enter(w, "audits")
  /\ UNCHANGED <<user, rows, connected, retention, outside, faults>>

DropAudits(w) ==
  /\ In(w, "audits")
  /\ rows' = rows \ {"audit"}
  /\ Enter(w, "parents")
  /\ UNCHANGED <<user, request, connected, job, execution, retention, outside, faults>>

DropConnection(w) ==
  /\ In(w, "parents")
  /\ rows' = rows \ {"connection"} /\ connected' = FALSE
  /\ Enter(w, "final")
  /\ UNCHANGED <<user, request, job, execution, retention, outside, faults>>

\* _finalize_deleted_user.
Finalize(w) ==
  /\ In(w, "final") /\ "connection" \notin rows
  /\ rows' = rows \ {"audit"} /\ started' = {} /\ completed' = completed + 1
  /\ request' = [request EXCEPT ![worker[w].request] =
       [@ EXCEPT !.status = "over", !.owner = None]]
  /\ worker' = [worker EXCEPT ![w] = Asleep]
  /\ UNCHANGED <<active, connected, job, execution, retention, outside, faults>>

\* Variant: finish and fail_internal as for every other task.
OwnerOnly(r) == FALSE

\* _protect_inactive_deletion_task.
Protected(r) == ~active /\ Authority(r)

\* The run ends by an error: finish or fail_internal.
End(w) ==
  LET r == worker[w].request IN
  /\ request' = [request EXCEPT ![r] =
       IF Bound(w) /\ ~Protected(r)
       THEN [@ EXCEPT !.status = "over", !.owner = None] ELSE @]
  /\ worker' = [worker EXCEPT ![w] = Asleep]
  /\ UNCHANGED <<user, tables, retention, outside>>

\* A transaction of a phase is refused.
Refused(w) ==
  /\ Unlocked /\ worker[w].phase \notin {"idle", "revoke"}
  /\ IF worker[w].phase = "barrier"
     THEN ~MayPass(w)
     ELSE ~Winner(w)
  /\ End(w) /\ UNCHANGED faults

\* A time limit, a lost answer or a contended table ends the run.
Fail(w) ==
  /\ Unlocked /\ worker[w].phase # "idle" /\ Fault
  /\ End(w)

Crash(w) ==
  /\ worker[w].phase # "idle" /\ Fault
  /\ worker' = [worker EXCEPT ![w] = Asleep]
  /\ UNCHANGED <<user, request, tables, retention, outside>>

-----------------------------------------------------------------------------
(* Retention                                                               *)

\* _clean_action: only the winner touches the actions of an inactive user.
MayClean == active

\* Content that has expired; an open execution is left for somebody to look at.
ExpireContent ==
  /\ retention = "on" /\ Unlocked /\ MayClean
  /\ rows' = rows \ {"content"}
  /\ execution' = IF execution = "marked" THEN "open" ELSE execution
  /\ UNCHANGED <<user, request, connected, job, worker, retention, outside, faults>>

\* _delete_ordinary_audits keeps the authority of a deletion.
KeptFacts == started

\* Aged audits go whether or not the user is still active.
ExpireAudits ==
  /\ retention = "on"
  /\ rows' = rows \ {"audit"} /\ started' = KeptFacts
  /\ UNCHANGED <<active, completed, request, connected, job, execution, worker, retention,
                 outside, faults>>

\* clean_user of the history locks the task and the user; clear_expired_thread
\* commits on a connection of its own.
OpenHistory ==
  /\ retention = "on" /\ active /\ started = {} /\ job = "done"
  /\ retention' = "history" /\ rows' = rows \ {"checkpoint"}
  /\ UNCHANGED <<user, request, connected, job, execution, worker, outside, faults>>

CloseHistory ==
  /\ retention = "history"
  /\ \/ job' = "none" /\ execution' = IF execution = "settled" THEN "none" ELSE execution
     \/ UNCHANGED <<job, execution>>
  /\ retention' = "on"
  /\ UNCHANGED <<user, request, rows, connected, worker, outside, faults>>

\* What a scan finds of an inactive user comes to nothing.
ScanDisconnected ==
  /\ retention = "on" /\ active /\ ~connected /\ "connection" \in rows
  /\ retention' = "scanned"
  /\ UNCHANGED <<user, request, tables, worker, outside, faults>>

\* The status is read again under the lock.
StillDisconnected == ~connected

CleanDisconnected ==
  /\ retention = "scanned"
  /\ rows' = IF active /\ StillDisconnected THEN rows \ {"credential"} ELSE rows
  /\ retention' = "on"
  /\ UNCHANGED <<user, request, connected, job, execution, worker, outside, faults>>

\* _append_cleanup_audit.
RetentionEnds ==
  /\ retention = "on" /\ active
  /\ rows' = rows \cup {"audit"}
  /\ UNCHANGED <<user, request, connected, job, execution, worker, retention, outside, faults>>

-----------------------------------------------------------------------------
Phase(w) ==
  \/ PassBarrier(w) \/ Clean(w) \/ Qualify(w) \/ Read(w) \/ NoRead(w) \/ Reconciled(w)
  \/ DropCredential(w) \/ Revoke(w) \/ DropRows(w) \/ DropCheckpoint(w)
  \/ DropTasks(w) \/ DropAudits(w) \/ DropConnection(w) \/ Finalize(w) \/ Refused(w)

Retain ==
  \/ ExpireContent \/ ExpireAudits
  \/ OpenHistory \/ CloseHistory \/ ScanDisconnected \/ CleanDisconnected \/ RetentionEnds

Use ==
  \/ \E kind \in {"data", "content"} : Write(kind)
  \/ CreateJob \/ SaveCheckpoint \/ JobEnds \/ Claim \/ Settle
  \/ Connect \/ Disconnect \/ Remediate

Next ==
  \/ Use \/ Retain
  \/ \E r \in Requests :
       Ask(r) \/ Expire(r) \/ Lose(r) \/ Recover(r) \/ Ignore(r) \/ Cancel(r)
  \/ \E w \in Workers : Phase(w) \/ Fail(w) \/ Crash(w) \/ \E r \in Requests : Acquire(w, r)

Fairness ==
  /\ \A w \in Workers : WF_vars(Phase(w))
  /\ \A r \in Requests :
       /\ WF_vars(~Attended(r) /\ Expire(r)) /\ WF_vars(Recover(r))
       /\ WF_vars(\E w \in Workers : Acquire(w, r))
  /\ WF_vars(CloseHistory)

Spec == Init /\ [][Next]_vars /\ Fairness

-----------------------------------------------------------------------------
(* Properties                                                              *)

TypeOK ==
  /\ active \in BOOLEAN /\ started \subseteq Requests /\ completed \in Nat
  /\ request \in [Requests ->
       [status : {"none", "queued", "running", "over"},
        owner : Workers \cup {None}, message : BOOLEAN]]
  /\ rows \subseteq RowKinds /\ connected \in BOOLEAN
  /\ job \in {"none", "running", "done"}
  /\ execution \in {"none", "open", "marked", "settled"}
  /\ worker \in [Workers ->
       [phase : Phases, request : Requests \cup {None}, normal : BOOLEAN]]
  /\ retention \in {"on", "history", "scanned"}
  /\ reads \in Nat /\ revokes \in Nat /\ faults \in 0..MaxFaults

\* From the completion of the deletion on nothing of the user is there or comes
\* back, however late a worker, a callback or a checkpoint is.
NothingReturns == completed > 0 => rows = {} /\ job = "none" /\ execution = "none"

\* Whatever becomes of the runs of the requests, the one that has made the user
\* inactive can be taken up again: it stays running until the last transaction,
\* and its authority with it.
WinnerStays ==
  ~active /\ completed = 0 =>
    \E r \in Requests : Authority(r) /\ request[r].status = "running"

\* However often the deletion is taken up again, the provider is asked for an
\* action's result and told to revoke a token at most once, and is told only
\* after the token is gone here.
OutsideOnce ==
  /\ reads <= 1 /\ revokes <= 1
  /\ revokes = 1 => "credential" \notin rows

\* What the rows say about the user.
Stage == IF active THEN "used" ELSE IF completed = 0 THEN "going" ELSE "gone"

Left ==
  rows \cup (IF job = "none" THEN {} ELSE {"job"})
       \cup (IF execution = "none" THEN {} ELSE {"execution"})

Deletion == INSTANCE SafeDeletion WITH
  Kinds <- RowKinds \cup {"job", "execution"},
  stage <- Stage, left <- Left, asked <- reads, told <- revokes

\* The requests, their workers, their recovery and everybody else implement a deletion
\* that begins once, only takes away from then on, and ends with nothing.
ImplementsSafeDeletion == Deletion!Spec

\* A deletion that has begun is completed.
DeletionCompletes == started # {} ~> completed > 0
=============================================================================
