---------------------------- MODULE TrustedAction ----------------------------
(***************************************************************************)
(* One trusted action: an external write (a mail, a calendar change) that  *)
(* the user approves and a worker performs at a provider.  Its state is    *)
(* the TaskRun row, the ApprovalRequest, the ToolExecution and the local   *)
(* draft or proposal; they change together in transactions that lock them  *)
(* in one fixed order, so each transaction is one action here.             *)
(*                                                                         *)
(* Between two transactions anything may happen: the lease runs out and    *)
(* another worker takes over, the process dies, the user or the scheduler  *)
(* decides, the provider acts on a request whose sender is long gone.      *)
(*                                                                         *)
(* The clock is reduced to what the code compares: a lease is live or      *)
(* expired, a reconciliation is due or not, a deadline or a budget is      *)
(* spent or not; each may come at any moment.  The delivery of messages is *)
(* the one of DurableTasks, reduced to the set of unpublished rows and to  *)
(* what the stream holds: a new message, or one whose receiver died and    *)
(* which comes back once that receiver's lease is over.                    *)
(***************************************************************************)
EXTENDS Integers, FiniteSets

CONSTANTS
  Workers,    \* worker processes
  Null,       \* SQL NULL
  Gone,       \* a lease owner whose run has ended
  MaxRetries, \* DEFAULT_RETRY_COUNT
  MaxReads,   \* MAX_RECONCILIATION_ATTEMPTS
  MaxReopens, \* bound: how often the user asks for another reconciliation
  Faults      \* the kinds of trouble that this instance admits

ASSUME ConstantsAssumption ==
  /\ Null \notin Workers /\ Gone \notin Workers /\ Gone # Null
  /\ MaxRetries \in Nat /\ MaxReads \in Nat \ {0} /\ MaxReopens \in Nat
  /\ Faults \subseteq {"loss",       \* Redis loses a message
                       "slow",       \* a run outlasts its lease
                       "read",       \* a read of the outcome raises
                       "database",   \* prepare_retry or acquire raises
                       "budget",     \* task_timeout_seconds runs out
                       "disable",    \* the write capability is taken away
                       "disconnect", \* the provider account is disconnected
                       "cleanup"}    \* the cached content is deleted

VARIABLES
  task,      \* TaskRun.status
  owner,     \* TaskRun.lease_owner
  lease,     \* TaskRun.lease_expires_at: "none", "live" or "expired"
  due,       \* TaskRun.scheduled_for: "none", "later" or "due"
  attempts,  \* TaskRun.attempt_count, saturated just above MaxRetries
  spent,     \* the lifetime budget since started_at is used up
  approval,  \* ApprovalRequest.status
  late,      \* approved_execution_deadline_at has passed
  exec,      \* ToolExecution.status, "none" before the claim
  writes,    \* write_attempt_count; request_started_at is set when it is > 0
  reads,     \* reconciliation_attempt_count
  ready,     \* result_summary.retryable of a RETRYABLE_FAILED execution
  revoked,   \* the revocation reason that error_code holds, or "no"
  manual,    \* manual_resolution
  local,     \* status of the draft or proposal
  content,   \* the frozen command can still be decrypted
  interrupt, \* the graph's interrupt is in the checkpoint tables
  access,    \* what the connection still grants: "full", "read" or "none"
  outbox,    \* unpublished task.execute rows
  stream,    \* messages for the task: "new", "unacked"
  recovered, \* the reconcile-recovery key of this count and instant is taken
  request,   \* what became of the n-th write request at the provider
  worker     \* the run a worker process is in

rowVars == <<task, owner, lease, due>>
factVars == <<approval, exec, writes, reads, ready, revoked, manual, local>>
deliveryVars == <<outbox, stream, recovered>>
restVars == <<attempts, spent, late, content, interrupt, access, request>>
vars == <<rowVars, factVars, deliveryVars, restVars, worker>>

-----------------------------------------------------------------------------
TaskStatuses == {"queued", "running", "waiting_approval", "retry_scheduled",
                 "reconciling", "needs_attention", "succeeded", "failed",
                 "cancelled"}
Approvals == {"pending", "approved", "rejected", "expired", "invalidated"}
Executions == {"none", "claimed", "executing", "retryable_failed",
               "reconciling", "succeeded", "confirmed_failed",
               "needs_attention"}
Locals == {"awaiting_approval", "executing", "needs_attention", "sent",
           "editing", "cancelled"}

\* External conclusions that are only reused, and the two that are final.
Concluded == {"succeeded", "confirmed_failed"}
Reusable == Concluded \cup {"needs_attention"}

MaxWrites == MaxRetries + 2

\* A run: where it is, whether it is the dedicated read-only one, whether
\* this attempt may still be retried, and the counters of its dispatch
\* snapshot.
PCs == {"idle", "received", "prepared", "erring", "leased", "interrupted",
        "reject", "claim", "dispatch", "start", "oauth", "sending", "waiting",
        "reading", "barred", "retrying", "abandoning", "failing",
        "succeeding", "reader", "claiming", "releasing"}
NoRun == [pc |-> "idle", mode |-> "run", may |-> FALSE, writes |-> 0, reads |-> 0]
Runs == [pc : PCs, mode : {"run", "read"}, may : BOOLEAN,
         writes : 0..MaxWrites, reads : 0..(MaxReads + MaxReopens)]

Init ==
  /\ task = "queued" /\ owner = Null /\ lease = "none" /\ due = "none"
  /\ attempts = 0 /\ spent = FALSE
  /\ approval = "pending" /\ late = FALSE
  /\ exec = "none" /\ writes = 0 /\ reads = 0
  /\ ready = FALSE /\ revoked = "no" /\ manual = "none"
  /\ local = "awaiting_approval"
  /\ content = TRUE /\ interrupt = FALSE /\ access = "full"
  /\ outbox = {"initial"} /\ stream = {} /\ recovered = FALSE
  /\ request = [n \in 1..MaxWrites |-> "none"]
  /\ worker = [w \in Workers |-> NoRun]

-----------------------------------------------------------------------------
(* What the transactions are made of.                                      *)

At(w, pc) == worker[w].pc = pc
Goto(w, pc) == worker' = [worker EXCEPT ![w].pc = pc]

\* The owner predicate of every result transaction of the ordinary run.
Holds(w) == task = "running" /\ owner = w /\ lease = "live"

\* A run that is over leaves an owner UUID behind that nobody carries.
Leave(w) == worker' = [worker EXCEPT ![w] = NoRun]
Orphaned(w) == IF owner = w THEN Gone ELSE owner
LeaveAsIs(w) ==
  /\ Leave(w)
  /\ owner' = Orphaned(w)
  /\ UNCHANGED <<task, lease, due, factVars, deliveryVars, restVars>>

\* _clear_task_scheduling together with a new status.
Unscheduled(status) ==
  /\ task' = status /\ owner' = Null /\ lease' = "none" /\ due' = "none"

\* The rows reach one outcome together.
Outcome(taskStatus, execStatus, localStatus) ==
  /\ Unscheduled(taskStatus) /\ exec' = execStatus /\ local' = localStatus

Succeeds == Outcome("succeeded", "succeeded", "sent")
Fails == Outcome("failed", "confirmed_failed", "editing")

\* The outcome stays open and is to be read again, at once or later.
ReadAgain(row) ==
  /\ task' = "reconciling" /\ owner' = Null /\ lease' = "none"
  /\ due' \in {"later", "due"}
  /\ exec' = "reconciling" /\ local' = "needs_attention"
  /\ outbox' = outbox \cup {row}
  /\ recovered' = FALSE

\* Only a local object that still awaits the decision goes back.
BackToEditing ==
  local' = IF local = "awaiting_approval" THEN "editing" ELSE local

Applied == {n \in 1..MaxWrites : request[n] = "applied"}

-----------------------------------------------------------------------------
(* Time, the relay, the stream and the scheduler.                          *)

\* Leases outlast a step; a run that outlasts its lease is a fault.
LeaseExpires ==
  /\ lease = "live"
  /\ "slow" \in Faults \/ owner \notin Workers
  /\ lease' = "expired"
  /\ UNCHANGED <<task, owner, due, factVars, deliveryVars, restVars, worker>>

DeadlinePasses ==
  /\ approval = "approved" /\ exec = "none" /\ ~ late
  /\ late' = TRUE
  /\ UNCHANGED <<rowVars, factVars, deliveryVars, attempts, spent, content,
                 interrupt, access, request, worker>>

BudgetSpent ==
  /\ "budget" \in Faults
  /\ attempts > 0 /\ ~ spent
  /\ spent' = TRUE
  /\ UNCHANGED <<rowVars, factVars, deliveryVars, attempts, late, content,
                 interrupt, access, request, worker>>

ReadDue ==
  /\ due = "later"
  /\ due' = "due"
  /\ UNCHANGED <<task, owner, lease, factVars, deliveryVars, restVars, worker>>

\* A row whose confirmation is lost is delivered again.
Publish(row) ==
  /\ row \in outbox
  /\ row = "reconcile" => due # "later"
  /\ outbox' \in {outbox, outbox \ {row}}
  /\ stream' = stream \cup {"new"}
  /\ UNCHANGED <<rowVars, factVars, recovered, restVars, worker>>

StreamLost ==
  /\ "loss" \in Faults
  /\ stream # {}
  /\ stream' = {}
  /\ UNCHANGED <<rowVars, factVars, outbox, recovered, restVars, worker>>

\* recover_due of the durable task engine.
Recover ==
  /\ outbox = {}
  /\ task \in {"queued", "retry_scheduled"} \/ (task = "running" /\ lease = "expired")
  /\ task' = "queued" /\ owner' = Null /\ lease' = "none"
  /\ outbox' = {"execute"}
  /\ UNCHANGED <<due, factVars, stream, recovered, restVars, worker>>

\* recover_due_reconciliations: the key names the count and the instant, and
\* a key that is taken is skipped in silence.
RecoverRead ==
  /\ task = "reconciling" /\ due = "due" /\ lease # "live"
  /\ outbox = {} /\ ~ recovered
  /\ outbox' = {"execute"}
  /\ recovered' = TRUE
  /\ UNCHANGED <<rowVars, factVars, stream, restVars, worker>>

-----------------------------------------------------------------------------
(* The user and the scheduler decide.                                      *)

\* resolve: only a paused task whose interrupt is durable.
Resolve(decision) ==
  /\ approval = "pending" /\ task = "waiting_approval" /\ interrupt
  /\ access = "full" /\ local = "awaiting_approval"
  /\ approval' = decision
  /\ IF decision = "rejected" THEN BackToEditing ELSE UNCHANGED local
  /\ task' = "queued"
  /\ outbox' = outbox \cup {"execute"}
  /\ UNCHANGED <<owner, lease, due, exec, writes, reads, ready, revoked, manual,
                 stream, recovered, restVars, worker>>

\* expire_overdue: a task that never paused is cancelled, a paused or running
\* one fails.
Expire ==
  /\ approval = "pending"
  /\ approval' = "expired"
  /\ BackToEditing
  /\ \/ /\ task = "queued"
        /\ Unscheduled("cancelled")
        /\ outbox' = outbox \ {"initial"}
     \/ /\ task \in {"waiting_approval", "running"}
        /\ task' = "failed" /\ owner' = Null /\ lease' = "none"
        /\ UNCHANGED <<due, outbox>>
     \/ /\ task \notin {"queued", "waiting_approval", "running"}
        /\ UNCHANGED <<rowVars, outbox>>
  /\ UNCHANGED <<exec, writes, reads, ready, revoked, manual, stream, recovered,
                 restVars, worker>>

\* cancel and _withdraw_trusted_action: only while nobody decided or claimed.
Withdraw ==
  /\ task = "waiting_approval"
  /\ approval = "pending" /\ exec = "none" /\ local = "awaiting_approval"
  /\ approval' = "invalidated" /\ local' = "editing"
  /\ Unscheduled("cancelled")
  /\ UNCHANGED <<exec, writes, reads, ready, revoked, manual, deliveryVars,
                 restVars, worker>>

\* invalidate_unclaimed_actions_for_connection, in the transaction that takes
\* the capability ("read") or the connection ("none") away.  A claimed action
\* is handed over to reconciliation; a live dedicated read keeps its lease
\* and its schedule.  A task that waits for a retry is not selected at all.
IsHandedOver(reason) ==
  /\ task \in {"queued", "running", "reconciling", "needs_attention"}
  /\ approval = "approved"
  /\ exec \in {"claimed", "executing", "reconciling"}
  /\ local \in {"executing", "needs_attention"}
  /\ ~ (exec = "reconciling" /\ task = "reconciling" /\ revoked = reason)

HandOver(reason) ==
  /\ exec' = "reconciling" /\ task' = "reconciling" /\ local' = "needs_attention"
  /\ revoked' = reason
  /\ IF exec = "reconciling" /\ task = "reconciling" /\ writes > 0 /\ lease = "live"
     THEN UNCHANGED <<owner, lease, due, outbox, recovered>>
     ELSE /\ owner' = Null /\ lease' = "none" /\ due' = "due"
          /\ outbox' = {"execute"} /\ recovered' = FALSE
  /\ UNCHANGED approval

IsUnclaimed ==
  /\ task \in {"waiting_approval", "queued", "running"}
  /\ approval \in {"pending", "approved"}
  /\ exec = "none" /\ local = "awaiting_approval"

CancelUnclaimed ==
  /\ approval' = "invalidated" /\ local' = "editing"
  /\ Unscheduled("cancelled")
  /\ outbox' = {}
  /\ UNCHANGED <<exec, revoked, recovered>>

Revoke(reason) ==
  /\ \/ access = "full"
     \/ access = "read" /\ reason = "none"
  /\ access' = reason
  /\ \/ IsHandedOver(reason) /\ HandOver(reason)
     \/ IsUnclaimed /\ CancelUnclaimed
     \/ /\ ~ IsHandedOver(reason) /\ ~ IsUnclaimed
        /\ UNCHANGED <<rowVars, approval, exec, local, revoked, outbox, recovered>>
  /\ UNCHANGED <<writes, reads, ready, manual, stream, attempts, spent, late,
                 content, interrupt, request, worker>>

Revocations == (IF "disable" \in Faults THEN {"read"} ELSE {})
               \cup (IF "disconnect" \in Faults THEN {"none"} ELSE {})

Regrant ==
  /\ access # "full"
  /\ access' = "full"
  /\ UNCHANGED <<rowVars, factVars, deliveryVars, attempts, spent, late,
                 content, interrupt, request, worker>>

\* The rows of an action whose outcome is left to the user, which _lock_context
\* locks together.
IsDisputed ==
  /\ task = "needs_attention" /\ approval = "approved"
  /\ exec = "needs_attention" /\ local = "needs_attention"

\* resolve_manual: the user states what happened.
ManualResolve(resolution) ==
  /\ IsDisputed
  /\ manual = "none" /\ writes > 0
  /\ manual' = resolution
  /\ IF resolution = "confirmed_executed" THEN Succeeds ELSE Fails
  /\ UNCHANGED <<approval, writes, reads, ready, revoked, deliveryVars, restVars,
                 worker>>

\* request_reconciliation: the user asks for one more read.
Reopen ==
  /\ IsDisputed
  /\ manual = "none"
  /\ reads < MaxReads + MaxReopens
  /\ task' = "reconciling" /\ owner' = Null /\ lease' = "none" /\ due' = "due"
  /\ exec' = "reconciling" /\ revoked' = "no"
  /\ outbox' = outbox \cup {"execute"} /\ recovered' = FALSE
  /\ UNCHANGED <<approval, writes, reads, ready, manual, local, stream, restVars,
                 worker>>

\* _converge settles what no provider has answered definitely.
IsOpenAction == exec \notin Concluded \cup {"none"}

\* _clean_action and _converge: the content is deleted when its retention
\* ends, whatever the action is doing.
CleanContent ==
  /\ "cleanup" \in Faults
  /\ content
  /\ content' = FALSE
  /\ \/ /\ exec = "none"
        /\ approval' = "invalidated" /\ local' = "cancelled"
        /\ Unscheduled("cancelled")
        /\ UNCHANGED <<exec, revoked>>
     \/ /\ IsOpenAction
        /\ Outcome("needs_attention", "needs_attention", "needs_attention")
        /\ revoked' = "no"
        /\ UNCHANGED approval
     \/ exec \in Concluded /\ UNCHANGED <<rowVars, approval, exec, local, revoked>>
  /\ UNCHANGED <<writes, reads, ready, manual, deliveryVars, attempts, spent,
                 late, interrupt, access, request, worker>>

-----------------------------------------------------------------------------
(* execute_task and DurableTaskRunner.run up to the graph.                  *)

\* The broker redelivers an unacknowledged message only after longer than any
\* lease of the run that died with it.
Deliverable(m) ==
  /\ m \in stream
  /\ m = "unacked" => ~ (owner = Gone /\ lease = "live")

Route == CASE task \in {"queued", "running", "retry_scheduled"} -> "received"
           [] task = "reconciling" -> "reader"
           [] OTHER -> "idle"

Receive(w, m) ==
  /\ At(w, "idle")
  /\ Deliverable(m)
  /\ Goto(w, Route)
  /\ stream' = stream \ {m}
  /\ UNCHANGED <<rowVars, factVars, outbox, recovered, restVars>>

PrepareRetry(w) ==
  /\ At(w, "received")
  /\ Goto(w, "prepared")
  /\ task' = IF task = "retry_scheduled" /\ outbox = {} THEN "queued" ELSE task
  /\ UNCHANGED <<owner, lease, due, factVars, deliveryVars, restVars>>

Acquirable == task = "queued" \/ (task = "running" /\ lease = "expired")

\* The lease and the attempt that acquire commits.
Lease(w) ==
  /\ task' = "running" /\ owner' = w /\ lease' = "live"
  /\ attempts' = IF attempts > MaxRetries THEN attempts ELSE attempts + 1
  /\ UNCHANGED <<due, factVars, deliveryVars, spent, late, content, interrupt,
                 access, request>>

Acquire(w) ==
  /\ At(w, "prepared")
  /\ Acquirable
  /\ Lease(w)
  /\ worker' = [worker EXCEPT ![w].pc = IF spent THEN "failing" ELSE "leased",
                              ![w].may = attempts' <= MaxRetries]

NotAcquired(w) ==
  /\ At(w, "prepared")
  /\ ~ Acquirable
  /\ LeaveAsIs(w)

\* prepare_retry or acquire raises, before or after its commit.
DatabaseError(w) ==
  /\ "database" \in Faults
  /\ At(w, "received") \/ At(w, "prepared")
  /\ Goto(w, "erring")
  /\ \/ UNCHANGED <<rowVars, factVars, deliveryVars, restVars>>
     \/ At(w, "prepared") /\ Acquirable /\ Lease(w)

\* fail_internal is not overridden for trusted actions: only the TaskRun row
\* is written.
FailInternal(w) ==
  /\ At(w, "erring")
  /\ Leave(w)
  /\ IF Holds(w) \/ (task \in {"queued", "retry_scheduled"} /\ owner = Null)
     THEN task' = "failed" /\ owner' = Null /\ lease' = "none"
     ELSE owner' = Orphaned(w) /\ UNCHANGED <<task, lease>>
  /\ UNCHANGED <<due, factVars, deliveryVars, restVars>>

-----------------------------------------------------------------------------
(* The graph: load_approval, await_approval, claim.                        *)

Decision == CASE approval = "pending" -> "interrupted"
              [] approval = "approved" -> "claim"
              [] approval = "rejected" -> "reject"
              [] OTHER -> "failing"

LoadApproval(w) ==
  /\ At(w, "leased")
  /\ Goto(w, Decision)
  /\ interrupt' = (interrupt \/ approval = "pending")
  /\ UNCHANGED <<rowVars, factVars, deliveryVars, attempts, spent, late, content,
                 access, request>>

\* confirm_approval_checkpoint compares the owner and not the lease.
ConfirmCheckpoint(w) ==
  /\ At(w, "interrupted")
  /\ Leave(w)
  /\ IF task = "running" /\ owner = w
     THEN task' = "waiting_approval" /\ owner' = Null /\ lease' = "none"
     ELSE UNCHANGED <<task, owner, lease>>
  /\ UNCHANGED <<due, factVars, deliveryVars, restVars>>

FinalizeRejected(w) ==
  /\ At(w, "reject")
  /\ IF Holds(w) /\ approval = "rejected"
     THEN Leave(w) /\ Unscheduled("succeeded")
     ELSE Goto(w, "failing") /\ UNCHANGED rowVars
  /\ UNCHANGED <<factVars, deliveryVars, restVars>>

\* claim finds an execution: a settled one is reused, any other needs the lease.
ReuseClaim(w) ==
  /\ At(w, "claim")
  /\ exec # "none"
  /\ Goto(w, IF exec \in Reusable \/ Holds(w) THEN "dispatch" ELSE "failing")
  /\ UNCHANGED <<rowVars, factVars, deliveryVars, restVars>>

MayClaim(w) == Holds(w) /\ approval = "approved" /\ exec = "none"

\* The answer to the commit may be lost.
CreateClaim(w) ==
  /\ At(w, "claim")
  /\ MayClaim(w) /\ ~ late /\ access = "full" /\ local = "awaiting_approval"
  /\ exec' = "claimed" /\ local' = "executing"
  /\ \E pc \in {"dispatch", "failing"} : Goto(w, pc)
  /\ UNCHANGED <<rowVars, approval, writes, reads, ready, revoked, manual,
                 deliveryVars, restVars>>

\* A gate refuses: the deadline, a switch, a capability or the allow-list.
FailUnclaimed(w) ==
  /\ At(w, "claim")
  /\ MayClaim(w) /\ local = "awaiting_approval"
  /\ approval' = "invalidated" /\ local' = "editing"
  /\ Unscheduled("failed")
  /\ Leave(w)
  /\ UNCHANGED <<exec, writes, reads, ready, revoked, manual, deliveryVars,
                 restVars>>

ClaimRefused(w) ==
  /\ At(w, "claim")
  /\ exec = "none"
  /\ ~ MayClaim(w) \/ local # "awaiting_approval"
  /\ Goto(w, "failing")
  /\ UNCHANGED <<rowVars, factVars, deliveryVars, restVars>>

-----------------------------------------------------------------------------
(* execute_or_reconcile: from the dispatch snapshot to the provider.       *)

\* What a run does about trouble with a started attempt, and a reader always.
GiveUp(w) == IF worker[w].mode = "read" THEN "releasing" ELSE "abandoning"

Snapshot(w, pc) ==
  worker' = [worker EXCEPT ![w].pc = pc, ![w].writes = writes, ![w].reads = reads]

\* A started write whose outcome is open is only ever read.
OnlyRead == exec \in {"executing", "reconciling"}

\* Where the state of the execution leads, once its command is at hand.  An
\* OAuth rejection is refreshed first, also one that already was.
DispatchTo(w) ==
  CASE ~ content \/ (access = "none" /\ ~ OnlyRead) ->
         {IF writes > 0 \/ worker[w].mode = "read" THEN GiveUp(w) ELSE "failing"}
    [] OnlyRead -> {IF access = "none" THEN "barred" ELSE "reading"}
    [] worker[w].mode = "read" -> {"releasing"}
    [] exec = "claimed" -> {"start"}
    [] OTHER -> IF ready THEN {"start", "oauth"} ELSE {"oauth"}

Dispatch(w) ==
  /\ At(w, "dispatch")
  /\ exec \notin Reusable
  /\ \E pc \in DispatchTo(w) : Snapshot(w, pc)
  /\ UNCHANGED <<rowVars, factVars, deliveryVars, restVars>>

ReuseOutcome(w) ==
  /\ At(w, "dispatch")
  /\ exec \in Reusable
  /\ IF worker[w].mode = "read"
     THEN LeaveAsIs(w)
     ELSE /\ Goto(w, "succeeding")
          /\ UNCHANGED <<rowVars, factVars, deliveryVars, restVars>>

\* mark_request_started lets one caller through per attempt.
Startable(w) == Holds(w) /\ exec \in {"claimed", "retryable_failed"}

\* The answer may be lost.
Start(w) ==
  /\ At(w, "start")
  /\ Startable(w) /\ access = "full" /\ (exec = "retryable_failed" => ready)
  /\ writes < MaxWrites
  /\ exec' = "executing" /\ writes' = writes + 1
  /\ \E pc \in {"sending", "abandoning"} : Goto(w, pc)
  /\ UNCHANGED <<rowVars, approval, reads, ready, revoked, manual, local,
                 deliveryVars, restVars>>

\* _settle_request_start_failure: a gate refuses between claim and start.
StartRefused(w) ==
  /\ At(w, "start")
  /\ Startable(w) /\ local = "executing"
  /\ Fails /\ approval' = "invalidated"
  /\ Leave(w)
  /\ UNCHANGED <<writes, reads, ready, revoked, manual, deliveryVars, restVars>>

StartAbandoned(w) ==
  /\ At(w, "start")
  /\ ~ Startable(w)
  /\ LeaveAsIs(w)

Send(w) ==
  /\ At(w, "sending")
  /\ request' = [request EXCEPT ![worker[w].writes + 1] = "sent"]
  /\ Goto(w, "waiting")
  /\ UNCHANGED <<rowVars, factVars, deliveryVars, attempts, spent, late, content,
                 interrupt, access>>

\* The provider acts on a request in its own time.
Provider(n) ==
  /\ request[n] = "sent"
  /\ \E fate \in {"applied", "rejected"} : request' = [request EXCEPT ![n] = fate]
  /\ UNCHANGED <<rowVars, factVars, deliveryVars, attempts, spent, late, content,
                 interrupt, access, worker>>

\* A timeout, a cancellation or an exception; the write may have been sent.
Interrupted(w) ==
  /\ \/ worker[w].pc \in {"sending", "waiting", "oauth"}
     \/ "read" \in Faults /\ worker[w].pc \in {"dispatch", "reading", "barred"}
  /\ Goto(w, GiveUp(w))
  /\ UNCHANGED <<rowVars, factVars, deliveryVars, restVars>>

-----------------------------------------------------------------------------
(* persist_provider_outcome and what follows from it.                      *)

\* The answer that an adapter draws from the provider's reply: a conclusion
\* only when the provider gave one, and a true one.  So an action whose Google
\* adapter takes 408 or 425 for a refusal is not of this module.
Answers(n) ==
  {"unknown"} \cup (IF request[n] = "applied" THEN {"applied"} ELSE {})
              \cup (IF request[n] = "rejected"
                   THEN {"rejected", "retryable", "reauthorize"} ELSE {})

\* The locked rows still are the ones that the attempt was started on.
MayPersistWrite(w) ==
  /\ exec = "executing" /\ Holds(w) /\ approval = "approved"
  /\ local = "executing"
  /\ writes = worker[w].writes + 1 /\ reads = worker[w].reads

\* Variant: whatever is not a success is tried again.
RetriesUnlessApplied(w, answer) == answer # "applied" /\ worker[w].may

\* Proven not applied, and the attempt is still within the retry budget.
Retries(w, answer) == answer \in {"retryable", "reauthorize"} /\ worker[w].may

\* The rows one answer to a write leads to.
WriteOutcome(w, answer) ==
  \/ answer = "applied" /\ Succeeds /\ UNCHANGED <<ready, outbox, recovered>>
  \/ answer = "unknown" /\ ReadAgain("reconcile") /\ UNCHANGED ready
  \/ /\ Retries(w, answer)
     /\ exec' = "retryable_failed" /\ ready' = (answer = "retryable")
     /\ UNCHANGED <<rowVars, local, outbox, recovered>>
  \/ /\ answer \notin {"applied", "unknown"} /\ ~ Retries(w, answer)
     /\ Fails /\ UNCHANGED <<ready, outbox, recovered>>

\* The run goes on only to refresh the credential or to schedule the retry;
\* with the answer to the commit lost it gives up.
PersistWrite(w) ==
  /\ At(w, "waiting")
  /\ MayPersistWrite(w)
  /\ \E answer \in Answers(writes) :
       /\ WriteOutcome(w, answer)
       /\ \/ /\ Retries(w, answer)
             /\ Snapshot(w, IF answer = "retryable" THEN "retrying" ELSE "oauth")
          \/ ~ Retries(w, answer) /\ Leave(w)
          \/ Goto(w, "abandoning")
  /\ UNCHANGED <<approval, writes, reads, revoked, manual, stream, restVars>>

\* The read may also find the task in a run that recovery started.
MayPersistRead(w) ==
  /\ exec \in {"executing", "reconciling"} /\ writes > 0
  /\ task \in {"running", "reconciling"} /\ owner = w /\ lease = "live"
  /\ approval = "approved" /\ local \in {"executing", "needs_attention"}
  /\ writes = worker[w].writes /\ reads = worker[w].reads

\* A settled execution is left as it is; any other mismatch raises.
PersistRefused(w) ==
  /\ \/ At(w, "waiting") /\ ~ MayPersistWrite(w)
     \/ worker[w].pc \in {"reading", "barred"} /\ ~ MayPersistRead(w)
  /\ Goto(w, IF exec \notin Concluded THEN GiveUp(w)
             ELSE IF worker[w].mode = "read" THEN "releasing" ELSE "succeeding")
  /\ UNCHANGED <<rowVars, factVars, deliveryVars, restVars>>

\* A read proves that the write took effect or it proves nothing; without a
\* grant it cannot be made.
ReadAnswers(w) ==
  IF At(w, "barred") THEN {"barred"}
  ELSE {"unknown"} \cup (IF access = "none" THEN {"barred"} ELSE {})
                   \cup (IF Applied # {} THEN {"applied"} ELSE {})

IsLastRead(answer) == answer = "barred" \/ reads + 1 >= MaxReads

ReadOutcome(answer) ==
  \/ answer = "applied" /\ Succeeds /\ UNCHANGED <<outbox, recovered>>
  \/ answer # "applied" /\ ~ IsLastRead(answer) /\ ReadAgain("reconcile")
  \/ /\ answer # "applied" /\ IsLastRead(answer)
     /\ Outcome("needs_attention", "needs_attention", "needs_attention")
     /\ UNCHANGED <<outbox, recovered>>

PersistRead(w) ==
  /\ worker[w].pc \in {"reading", "barred"}
  /\ MayPersistRead(w)
  /\ \E answer \in ReadAnswers(w) : ReadOutcome(answer)
  /\ reads' = reads + 1 /\ revoked' = "no"
  /\ Leave(w) \/ Goto(w, GiveUp(w))
  /\ UNCHANGED <<approval, writes, ready, manual, stream, restVars>>

-----------------------------------------------------------------------------
(* The other ways a run ends.                                              *)

\* resolve_oauth_write_retry: only a proved refresh makes the write ready.
MayResolveOAuth(w) ==
  /\ exec = "retryable_failed" /\ writes = worker[w].writes
  /\ Holds(w) /\ approval = "approved" /\ local = "executing"

ResolveOAuth(w) ==
  /\ At(w, "oauth")
  /\ MayResolveOAuth(w)
  /\ \/ /\ Goto(w, IF ready THEN "start" ELSE "retrying")
        /\ ready' = TRUE
        /\ UNCHANGED <<rowVars, exec, local>>
     \/ Fails /\ ready' = FALSE /\ Leave(w)
     \/ /\ Outcome("needs_attention", "needs_attention", "needs_attention")
        /\ ready' = FALSE /\ Leave(w)
  /\ UNCHANGED <<approval, writes, reads, revoked, manual, deliveryVars, restVars>>

OAuthRefused(w) ==
  /\ At(w, "oauth")
  /\ ~ MayResolveOAuth(w)
  /\ Goto(w, "failing")
  /\ UNCHANGED <<rowVars, factVars, deliveryVars, restVars>>

\* A transient error, while attempts are left.
ScheduleRetry(w) ==
  /\ At(w, "retrying")
  /\ worker[w].may /\ Holds(w)
  /\ task' = "retry_scheduled" /\ owner' = Null /\ lease' = "none"
  /\ outbox' = outbox \cup {"execute"}
  /\ Leave(w)
  /\ UNCHANGED <<due, factVars, stream, recovered, restVars>>

RetryRefused(w) ==
  /\ At(w, "retrying")
  /\ ~ (worker[w].may /\ Holds(w))
  /\ IF worker[w].may
     THEN LeaveAsIs(w)
     ELSE Goto(w, "failing") /\ UNCHANGED <<rowVars, factVars, deliveryVars, restVars>>

\* abandon_started_attempt: the lease is over at once, the rows keep the open
\* attempt.
IsUnresolved ==
  /\ task = "running" /\ approval = "approved" /\ local = "executing"
  /\ exec \in {"executing", "reconciling"} /\ writes > 0

Abandon(w) ==
  /\ At(w, "abandoning")
  /\ IsUnresolved /\ Holds(w)
  /\ owner' = Null /\ lease' = "expired"
  /\ Leave(w)
  /\ UNCHANGED <<task, due, factVars, deliveryVars, restVars>>

\* Nothing is left to abandon, and the exception goes on to the runner; or
\* the abandon itself failed.
NotAbandoned(w) ==
  /\ At(w, "abandoning")
  /\ \/ LeaveAsIs(w)
     \/ /\ ~ (IsUnresolved /\ Holds(w))
        /\ \E pc \in {"failing", "retrying"} : Goto(w, pc)
        /\ UNCHANGED <<rowVars, factVars, deliveryVars, restVars>>

\* Variant: an attempt that was started is failed as well.
IsUnfinished ==
  exec \in {"none", "claimed", "executing"} /\ approval \in {"pending", "approved"}

\* _fail_before_request: a failure only while no request can have started.
IsBeforeRequest ==
  \/ exec = "none" /\ local = "awaiting_approval" /\ approval \in {"pending", "approved"}
  \/ exec = "claimed" /\ writes = 0 /\ local = "executing" /\ approval = "approved"

Fail(w) ==
  /\ At(w, "failing")
  /\ Holds(w) /\ IsBeforeRequest
  /\ approval' = "invalidated" /\ local' = "editing"
  /\ Unscheduled("failed")
  /\ exec' = IF exec = "none" THEN "none" ELSE "confirmed_failed"
  /\ Leave(w)
  /\ UNCHANGED <<writes, reads, ready, revoked, manual, deliveryVars, restVars>>

FailRefused(w) ==
  /\ At(w, "failing")
  /\ ~ (Holds(w) /\ IsBeforeRequest)
  /\ LeaveAsIs(w)

\* The generic finish, which a result transaction has mostly forestalled.
Succeed(w) ==
  /\ At(w, "succeeding")
  /\ IF Holds(w)
     THEN /\ task' = "succeeded" /\ owner' = Null /\ lease' = "none"
          /\ Leave(w)
          /\ UNCHANGED <<due, factVars, deliveryVars, restVars>>
     ELSE LeaveAsIs(w)

\* The process dies; its message was not acknowledged.
Crash(w) ==
  /\ ~ At(w, "idle")
  /\ Leave(w)
  /\ owner' = Orphaned(w)
  /\ stream' = stream \cup {"unacked"}
  /\ UNCHANGED <<task, lease, due, factVars, outbox, recovered, restVars>>

-----------------------------------------------------------------------------
(* execute_reconciliation_task: the run that only reads.                   *)

\* Variant: without looking at the count of writes.
IsRevoked ==
  /\ task = "reconciling" /\ exec = "reconciling" /\ approval = "approved"
  /\ revoked # "no" /\ local = "needs_attention" /\ lease # "live"

\* Variant: only the reason of a disconnect counts.
IsDisconnected ==
  /\ task = "reconciling" /\ exec = "reconciling" /\ approval = "approved"
  /\ revoked = "none" /\ writes = 0 /\ local = "needs_attention"
  /\ lease # "live"

\* A claim that never started a request is settled without a read.
IsPreRequest ==
  /\ task = "reconciling" /\ exec = "reconciling" /\ approval = "approved"
  /\ revoked # "no" /\ writes = 0 /\ local = "needs_attention"
  /\ lease # "live"

Converge(w) ==
  /\ At(w, "reader")
  /\ IF IsPreRequest
     THEN Fails /\ outbox' = {} /\ Leave(w)
     ELSE Goto(w, "claiming") /\ UNCHANGED <<rowVars, exec, local, outbox>>
  /\ UNCHANGED <<approval, writes, reads, ready, revoked, manual, stream,
                 recovered, restVars>>

MayClaimRead ==
  /\ task = "reconciling" /\ due = "due" /\ lease # "live"
  /\ approval = "approved" /\ exec = "reconciling" /\ writes > 0

ClaimRead(w) ==
  /\ At(w, "claiming")
  /\ IF MayClaimRead
     THEN /\ owner' = w /\ lease' = "live"
          /\ worker' = [worker EXCEPT ![w].pc = "dispatch", ![w].mode = "read"]
          /\ UNCHANGED <<task, due, factVars, deliveryVars, restVars>>
     ELSE LeaveAsIs(w)

\* release_reconciliation_lease keeps the schedule of a read that is due.
Release(w) ==
  /\ At(w, "releasing")
  /\ IF task = "reconciling" /\ owner = w
     THEN /\ owner' = Null /\ lease' = "none"
          /\ Leave(w)
          /\ UNCHANGED <<task, due, factVars, deliveryVars, restVars>>
     ELSE LeaveAsIs(w)

-----------------------------------------------------------------------------
RunStep(w) ==
  \/ PrepareRetry(w) \/ Acquire(w) \/ NotAcquired(w) \/ FailInternal(w)
  \/ LoadApproval(w) \/ ConfirmCheckpoint(w) \/ FinalizeRejected(w)
  \/ ReuseClaim(w) \/ CreateClaim(w) \/ FailUnclaimed(w) \/ ClaimRefused(w)
  \/ Dispatch(w) \/ ReuseOutcome(w) \/ Start(w) \/ StartRefused(w)
  \/ StartAbandoned(w) \/ Send(w) \/ PersistWrite(w) \/ PersistRefused(w)
  \/ PersistRead(w) \/ ResolveOAuth(w) \/ OAuthRefused(w) \/ ScheduleRetry(w)
  \/ RetryRefused(w) \/ Abandon(w) \/ NotAbandoned(w) \/ Fail(w)
  \/ FailRefused(w) \/ Succeed(w) \/ Converge(w) \/ ClaimRead(w) \/ Release(w)

Trouble(w) == Interrupted(w) \/ DatabaseError(w) \/ Crash(w)

User ==
  \/ \E decision \in {"approved", "rejected"} : Resolve(decision)
  \/ Withdraw
  \/ \E reason \in Revocations : Revoke(reason)
  \/ Regrant
  \/ \E resolution \in {"confirmed_executed", "confirmed_not_executed"} :
       ManualResolve(resolution)
  \/ Reopen

Clock == LeaseExpires \/ DeadlinePasses \/ BudgetSpent \/ ReadDue \/ Expire

Engine ==
  \/ \E row \in outbox : Publish(row)
  \/ StreamLost \/ Recover \/ RecoverRead \/ CleanContent

Next ==
  \/ \E w \in Workers :
       RunStep(w) \/ Trouble(w) \/ \E m \in stream : Receive(w, m)
  \/ \E n \in 1..MaxWrites : Provider(n)
  \/ User \/ Clock \/ Engine

Spec == Init /\ [][Next]_vars

-----------------------------------------------------------------------------
(* Properties.                                                             *)

TypeOK ==
  /\ task \in TaskStatuses /\ owner \in Workers \cup {Null, Gone}
  /\ lease \in {"none", "live", "expired"} /\ due \in {"none", "later", "due"}
  /\ attempts \in 0..(MaxRetries + 1) /\ spent \in BOOLEAN
  /\ approval \in Approvals /\ late \in BOOLEAN
  /\ exec \in Executions /\ writes \in 0..MaxWrites
  /\ reads \in 0..(MaxReads + MaxReopens)
  /\ ready \in BOOLEAN /\ revoked \in {"no", "read", "none"}
  /\ manual \in {"none", "confirmed_executed", "confirmed_not_executed"}
  /\ local \in Locals
  /\ content \in BOOLEAN /\ interrupt \in BOOLEAN
  /\ access \in {"full", "read", "none"}
  /\ outbox \subseteq {"initial", "execute", "reconcile"}
  /\ stream \subseteq {"new", "unacked"} /\ recovered \in BOOLEAN
  /\ request \in [1..MaxWrites -> {"none", "sent", "applied", "rejected"}]
  /\ worker \in [Workers -> Runs]

\* However often the task is delivered, taken over, retried or read again, the
\* provider carries the action out once: mark_request_started together with
\* the read-only handling of every started attempt.
AtMostOneEffect == Cardinality(Applied) <= 1

\* No request is sent while the fate of an earlier one is open: "a write is not
\* sent again during reconciling and needs_attention" (execute_or_reconcile).
NoRetryWhileUnsure ==
  [][\A n \in 1..MaxWrites :
       request[n] = "none" /\ request'[n] = "sent" =>
         \A m \in 1..MaxWrites : m # n => request[m] \in {"none", "rejected"}]_vars

\* The program itself calls the action failed, or gives the draft back for
\* editing, only if no request took effect and none is still on its way
\* (persist_provider_outcome, _fail_before_request, the revocations).
NoFalseFailure ==
  manual = "none" /\ (exec = "confirmed_failed" \/ local \in {"editing", "cancelled"})
    => \A n \in 1..MaxWrites : request[n] \in {"none", "rejected"}

\* The rows of one action never contradict each other, whichever transaction
\* moved them; a TaskRun row alone may have been failed by fail_internal.
RowsAgree ==
  /\ exec = "none" =>
       local \in {"awaiting_approval", "editing", "cancelled"}
  /\ exec \in {"claimed", "executing", "retryable_failed"} =>
       /\ local = "executing" /\ approval = "approved"
       /\ task \in {"running", "queued", "retry_scheduled", "failed"}
  /\ exec \in {"reconciling", "needs_attention"} =>
       task = exec /\ local = "needs_attention" /\ approval = "approved"
  /\ exec = "succeeded" => task = "succeeded" /\ local = "sent"
  /\ exec = "confirmed_failed" => task = "failed" /\ local = "editing"
  /\ task \in {"reconciling", "needs_attention"} => exec = task

ExecIsSettled == exec \in Concluded

\* A settled execution keeps its outcome, whatever late answer, revocation,
\* recovery or delivery comes after it.
OutcomeStands ==
  [][ExecIsSettled => UNCHANGED <<exec, local, task, approval>>]_vars

\* What the rows promise the user, and what really happened.
Verdict ==
  CASE manual # "none" -> "user"
    [] manual = "none" /\ local = "sent" -> "done"
    [] manual = "none" /\ local \in {"editing", "cancelled"} -> "not_done"
    [] manual = "none" /\ local = "needs_attention" -> "unsure"
    [] OTHER -> "open"

Safe == INSTANCE SafeAction WITH
          effects <- Cardinality(Applied),
          verdict <- Verdict,
          consent <- approval = "approved"

\* The four rows and their transactions implement an action that is carried
\* out at most once, only with consent, and that is reported truthfully.
ImplementsSafeAction == Safe!Spec

-----------------------------------------------------------------------------
(* Progress.                                                               *)

\* The broker, the relay, the clock and the scheduler work on and a run takes
\* its steps; from some moment on no process dies, no call is interrupted and
\* the user leaves the connection as it is.
Fairness ==
  /\ \A w \in Workers : WF_vars(RunStep(w))
  /\ \A w \in Workers : WF_vars(\E m \in stream : Receive(w, m))
  /\ WF_vars(\E row \in outbox : Publish(row) /\ outbox' # outbox)
  /\ WF_vars(LeaseExpires) /\ WF_vars(ReadDue)
  /\ WF_vars(Recover) /\ WF_vars(RecoverRead)
  /\ <>[][/\ \A w \in Workers : ~ Crash(w) /\ ~ Interrupted(w)
          /\ access' = access]_vars

FairSpec == Spec /\ Fairness

\* A claimed action reaches an outcome or is put before the user: "the worker
\* recovers from every crash point to success, to a definite failure or to
\* needs_attention".
ClaimedSettles == exec # "none" ~> exec \in Reusable

=============================================================================
