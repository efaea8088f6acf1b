# AIEmployee in TLA+

AIEmployee reads a user's mail and calendar, writes a daily brief, drafts mails and calendar changes, and carries
out the ones that the user approves. This directory holds TLA+ modules of the part of the backend that must not go
wrong (tasks that survive crashes, external writes that happen at most once, tokens, drafts, synchronisation,
deletion, and the operation of the database), the TLC configurations that check them on small instances, and
theorems that TLAPS proves for every instance.

`AE/` below stands for `src/backend/src/ai_employee/`, and `repositories/` for
`AE/infrastructure/db/repositories/`. `PROJECT.json` maps every definition to the lines it models.

## 1. Inventory of the system

PostgreSQL is the only durable store. Redis carries messages and may forget them. Processes: the HTTP API, any
number of workers that consume a Redis stream, a scheduler whose cron jobs run the relay, the recovery scans and
the retention, and the operator's commands for migration, backup and restore. Processes share nothing but the two
stores, and on one host a directory of backups. A worker's step calls providers (Gmail, Microsoft Graph, their
calendars) and a language model outside any transaction.

| Part | State | Operations | What is hard about it | What makes it correct |
|---|---|---|---|---|
| Durable task engine (`repositories/task_execution.py`, `AE/application/use_cases/task_execution.py`, `AE/workers/execute_task.py`) | `TaskRun`: status, lease owner and expiry, attempts, start, recovery instant, result | prepare_retry, acquire, renew, finish, schedule_retry, fail_internal | runs that outlive their lease, commits whose answer is lost, stale clock samples | an overtaken run writes nothing; an ended task stays ended; every task ends |
| Outbox and relay (`repositories/outbox.py`) | `OutboxEvent`: key, available_at (also the claim token), published_at | claim_due, enqueue, mark_published, mark_failed | the broker call is outside both transactions; a confirmation may come after the task went on | nothing that Redis forgets is lost |
| Recovery scan (`repositories/task_retry_recovery.py`) | keys of recovery rows | recover_due | races with workers, relay, and its own earlier keys | each suspect row is recovered |
| Task views (`repositories/task_views.py`) | – | cancel, withdraw | cancellation against the publication of a result | an action that has begun is not taken back |
| Approvals of fake writes (`repositories/approvals.py`, `approval_checkpoint_recovery.py`, `AE/agents/fake_write/graph.py`) | approval, checkpoint with its interrupt, anchor | create, confirm, resolve, expire, recover | the checkpoint is committed apart from the approval | no decision without a durable interrupt; no question that can never be asked |
| Trusted actions (`repositories/trusted_actions.py`, `AE/application/use_cases/trusted_actions.py`, `AE/agents/trusted_actions/`) | `ApprovalRequest`, `ToolExecution`, the draft or proposal, the checkpoint | load, interrupt, claim, start, send, persist, refresh, retry, abandon, fail | a write cannot be undone, and a timeout does not say whether it happened | at most one effect; no retry while the outcome is open; truthful reports |
| Reconciliation (`AE/workers/reconcile_actions.py`) | reconciliation count, schedule, key of the recovered read | converge, claim, read, release, recover | lost messages, users who revoke access while it reads | an open write is read until it is settled or put before the user |
| Action views and content (`repositories/action_views.py`, `AE/workers/action_lifecycle.py`) | manual resolution, encrypted command | resolve_manual, request_reconciliation, clean, converge | races with the reader and with every phase of an action | the user's word settles only what is open |
| Write adapters (`AE/integrations/google/*_write.py`, `AE/integrations/microsoft/*_write.py`) | – (the item is the provider's) | execute, reconcile | a lost answer, somebody else's edit, a repeated request | a definite answer is true and stays true |
| OAuth refresh (`repositories/oauth_refresh_coordinator.py`, `credential_rotation.py`) | session lock, append-only fence, credentials, generation | refresh, confirm, recover, replace | a grant can be used once and its answer can be lost | one grant per fence; no grant with a spent token |
| Connections (`repositories/connections.py`, `oauth_lifecycle.py`) | connection, capabilities, authorisation generation | authorise, enable, disable, disconnect | callbacks that come after the user has decided otherwise | a late callback changes nothing; what is disconnected stays so |
| Mail drafts (`repositories/mail_drafts.py`) | immutable versions, status, generation task | create, edit, generate, cancel, submit, decide, revoke | editing against submitting and generating, revocation against both | exactly the approved version is sent, and no edit is lost |
| Calendar proposals (`AE/application/use_cases/calendar_proposals.py`, `AE/workers/prepare_calendar_restore.py`) | proposal with its confirmations, event copy, restoration task | create, edit, suggest, confirm, submit, execute, restore | the event is edited elsewhere; restorations read outside any transaction | what is confirmed was shown; a write replaces only what its approver saw |
| Synchronisation (`AE/application/use_cases/sync_mail.py`, `sync_calendar.py`, `repositories/calendar.py`) | cursor per scope, messages, events, directory | sync, clear cursor | pages fetched outside a transaction, expired cursors, two syncs of a scope | a cursor never runs ahead of the rows |
| Deletion and retention (`AE/workers/privacy.py`, `AE/workers/retention.py`) | inactive user, started fact, remaining rows | barrier, phases, finalise, clean | restart after each phase, tasks still running | nothing is written behind the barrier; deletion completes |
| Restore and reset (`AE/infrastructure/db/database_maintenance.py`) | gate, authority and completion facts, grants, backend of psql | gate, drain, call, reconcile, verify, reopen | sessions still connected, controllers that die while psql lives on, lost answers of the last commit | nobody else is in a database that is being restored; verdicts are true |
| Backup (`AE/cli/postgres_backup.py`, `AE/infrastructure/db/postgres_backup_manifest.py`) | three files per group, two places, locks | dump, seal, link, copy, check, clean, undo | runs of two hosts, failures between two files | a public manifest marks a whole group |
| Schema revisions 0016 to 0020 (`src/backend/migrations/versions`) | catalogue, grants, rows of two forms | upgrade | autocommit in pieces while the application writes | an upgrade that died is taken up again; no row without identity |
| Calendar AAD rollout (`AE/application/use_cases/calendar_aad_*.py`, `repositories/calendar_aad_recovery.py`) | artifact, marks, recovery tasks, lease | preflight, migrate, recover | commands that lose their lease; calendars that come and go between them | every old calendar is marked until read again |
| Schedules, sessions, conversations, SSE, observability, frontend | – | – | mostly single transactions, or input and output | – |

Interactions. The API creates a task and its first outbox row in one transaction; the relay sends the row to the
stream; a worker leases the task, runs its steps and commits the outcome; the scan makes new outbox rows for rows
that went quiet. A draft or a proposal is submitted by a transaction that creates a trusted action. The action
goes through the engine several times: once up to the interrupt, once after the decision, once per retry, and
then, as a dedicated read-only run, once per read. Before each call a worker asks the refresh coordination for a
token. All transactions on an action lock its rows in the same order (task, user, approval, execution, draft,
connection), which is why one transaction is one action of the model.

Correctness hazards, each at its line and with the properties that cover it, are listed in `PROJECT.json`.

## 2. Modules

| Module | Models | Checked by | Proved in |
|---|---|---|---|
| DurableTasks | the engine, the outbox, the relay, the stream, the recovery scan and cancellation | MCTasks | DurableTasks_proofs |
| SafeTask | what the engine promises of its tasks: of all the runs that believe they hold one, at most one speaks for it | implemented by DurableTasks | DurableTasks_proofs |
| ApprovalCheckpoint | a task that asks its user in the middle: approval, checkpoint and anchor of the fake-write graph | MCTasks | DurableTasks_proofs |
| SafeAction | what a trusted action promises, in three variables: how often it was carried out, what the program says about it, whether the user consents | – | – |
| TrustedAction | the four rows of one trusted action, the transactions on them, the worker runs, the provider, the user and the scheduler | MCTrustedAction | TrustedAction_proofs |
| Connections | one account: capabilities, authorisations with their callbacks, tokens and the refresh fences | MCConnections | Connections_proofs |
| MailSubmission | mail drafts up to the claim of their action | MCSubmissions | Submissions_proofs |
| CalendarProposals | calendar proposals, their execution against the event and their restoration | MCSubmissions, MCCalendarProposals | Submissions_proofs |
| ProviderWrites | the four write adapters against one item of a provider | MCSubmissions | Submissions_proofs |
| SourceSync | two overlapping synchronisations of one account | MCSourceSync | SourceSync_proofs |
| SafeDeletion | what a deletion promises: it begins once, only takes away, asks and tells the provider once at most, and ends with nothing | implemented by UserData | UserData_proofs |
| UserData | the deletion of a user and the retention beside it | MCUserData | UserData_proofs |
| SafeRestore | what a restore promises: behind a closed gate one change per call, judged by the content, and no opening without the whole dump | implemented by DatabaseRestore | DatabaseRestore_proofs |
| DatabaseRestore | the controllers of a restore, the backends of psql, reset, migration and bootstrap | MCDatabaseRestore | DatabaseRestore_proofs |
| SchemaMigration | the upgrade from 0015 to 0020 | MCMaintenance | SchemaMigration_proofs |
| BackupPublication | backup runs on several hosts | MCMaintenance | SchemaMigration_proofs |
| CalendarRollout | preflight, migration and recovery of the calendar AAD | MCMaintenance | SchemaMigration_proofs |

`MCTasks`, `MCSubmissions` and `MCMaintenance` put modules together whose parts share no row but the user's or the
lock of the lifecycle. Their variable `kind` says which part a behaviour is about; the others rest. So one run
explores each part. Theorems about a part that is instanced are stated of the composition that the run checks;
where the composition extends a part, theorems about that part carry over to it (`CompositionIsTheEngine`,
`CompositionMigrates`).

### DurableTasks and the code

A task row is split into one function per column: `status`, `owner`, `lease`, `attempts`, `recoverAt`, `result`.
`budget` is what is left of `task_timeout_seconds` since `started_at`, `quiet` how long until `updated_at` is
stale. `outbox` holds the unpublished `task.execute` rows with the claim token of `claim_due`; `keys` the
deduplication keys that an insert could meet again; `queue` the tasks with a message on the stream. `relay` and
`worker` are program counters between two transactions.

| Action | Code |
|---|---|
| `Claim`, `Enqueue`, `EnqueueError`, `MarkPublished`, `MarkFailed`, `RelayCrash` | `claim_due`, `OutboxRelay._deliver`, `mark_published`, `mark_failed` |
| `Receive`, `PrepareRetry`, `Acquire`, `NotAcquired` | `execute_task`, `DurableTaskRunner.run` up to the lease |
| `DatabaseError`, `AcquireAnswerLost`, `FailInternal` | the `except` branch around `acquire`, with the commit done or not |
| `CommitResult` | the transaction in which a step publishes the result; `UnguardedTasks` are the kinds whose transaction checks no status (`briefs.persist`) |
| `Renew`, `LeaseLost`, `StepsEnd`, `Finish`, `ScheduleRetry`, `EndRefused` | `_run_steps` and the ends of `run`. A task of a trusted action, whose store overrides `finish` and which can give its lease back, is TrustedAction's |
| `WorkerCrash`, `RedisLoss`, `Tick` | the environment |
| `Recover`, `Cancel` | `recover_due`, `task_views.cancel` |

Time is kept as distances: a deadline is the number of ticks until it is reached. A process samples the clock
before its transaction, so a transaction may use a sample up to `MaxAge` ticks old.

`SafeTask` has no time and no messages. `Stage` (waiting, held, or how it ended) is read off the status, `Speaker` off
the owner, unless that owner's run has ended, and `Word`, what a run says of its task, off the run. DurableTasks
implements it under these three. An overtaken run may go on, but the steps with which it would store or settle
something are not in `SafeTask`.

### TrustedAction and the code

`task`, `owner`, `lease`, `due`, `attempts`, `spent` are the task row; `approval`, `late` the approval; `exec`,
`writes`, `reads`, `ready`, `revoked`, `manual` the execution; `local` the draft or proposal; `content` whether
the frozen command can still be decrypted; `interrupt` whether the checkpoint holds the interrupt; `access` what
the connection grants. `outbox`, `stream` and `recovered` are the delivery of DurableTasks, reduced to what an
action can tell apart. `request[n]` is what became of the n-th write at the provider: the program never reads it;
it only receives an answer that is compatible with it (`Answers`, `ReadAnswers`).

| Action | Code |
|---|---|
| `LoadApproval`, `ConfirmCheckpoint`, `FinalizeRejected` | nodes of `agents/trusted_actions/graph.py` and `confirm_approval_checkpoint` |
| `CreateClaim`, `ReuseClaim`, `FailUnclaimed`, `ClaimRefused` | `claim` with its gates |
| `Dispatch`, `ReuseOutcome`, `Start`, `StartRefused`, `StartAbandoned`, `Send`, `Interrupted` | `execute_or_reconcile`, `load_dispatch`, `mark_request_started` |
| `PersistWrite`, `PersistRead`, `PersistRefused` | `persist_provider_outcome` |
| `ResolveOAuth`, `OAuthRefused` | `resolve_oauth_write_retry` |
| `ScheduleRetry`, `RetryRefused`, `Abandon`, `NotAbandoned`, `Fail`, `FailRefused`, `Succeed`, `FailInternal` | the ends of the run, `abandon_started_attempt`, `_fail_before_request`, `fail_internal` |
| `Converge`, `ClaimRead`, `Release`, `RecoverRead` | `execute_reconciliation_task` and the scan for due reads |
| `Resolve`, `Expire`, `Withdraw`, `Revoke`, `Regrant`, `ManualResolve`, `Reopen`, `CleanContent` | the user and the scheduler |

`Start`, `CreateClaim`, `PersistWrite` and `PersistRead` each have a branch in which the commit succeeded and its
answer was lost. The clock is reduced to what the code compares: a lease is live or expired, a read is due or not,
a deadline or a budget is over or not. `Faults` selects the kinds of trouble of an instance: a lost message
(`loss`), a run that outlasts its lease (`slow`), a read that raises (`read`), a database error before the lease
(`database`), a spent lifetime budget (`budget`), a withdrawn write capability (`disable`), a disconnected account
(`disconnect`), a deleted content (`cleanup`). Crashes and interrupted provider calls are always possible,
whatever `Faults` is.

`TrustedAction` implements `SafeAction` under the mapping `Safe`: the effects are the requests the provider
applied, the verdict is what the rows tell the user (`Verdict`), and the consent is an `approved` approval.

### ApprovalCheckpoint and the code

The fake-write graph is the approval protocol without an outside effect. `status`, `owner`, `lapsed`, `anchor` are
the task row, `approval` and `execution` their rows, `interrupt` whether the saved writes of the checkpoint hold
the interrupt, `run[a]` where the a-th attempt is (each attempt has an owner name of its own), `calls` a history
of the tool's calls.

| Action | Code |
|---|---|
| `FindForGraph`, `CreateOnly`, `CreateOrGetPending` | the approval node: an approval that exists, or a new one that gives the lease back |
| `SaveInterrupt`, `ConfirmApprovalCheckpoint` | the checkpointer's own transaction, and the confirmation that removes the anchor |
| `ClaimFakeToolExecution`, `Rejected`, `Call`, `CompleteFakeToolExecution`, `FinishFakeWrite` | the tool node and the final node |
| `Refuse`, `Fail` | the ends of a run that finds its task or approval changed |
| `Resolve`, `Cancel`, `ExpirePending`, `RecoverCheckpoint`, `RecoverTask` | the user and the scanners |
| `Relay`, `Drop`, `Lapse`, `Crash`, `Raise` | the environment; relay and scanners are DurableTasks' reduced to what matters here |

An approval may expire at any moment. Comparisons of hashes and payloads are left out. The branch of
`create_or_get_pending` that finds an approval is unreachable: whoever stores an approval loses the lease with it.
The claim checks the owner of the lease but not its expiry. A claim that was never completed ends as
`tool_execution_outcome_unknown`.

### Connections and the code

`status`, `generation`, `scopes` are the connection, `cap`, `actual` its capabilities, `access`, `refresh` the
token rows (a token is the number under which it was written or minted), `fences` the refresh attempts in the
order of their started events, `attempt` the OAuth attempts with the callbacks they are in, `worker` the
background runs, `lease` the session advisory lock. `minted` and `spent` are the provider's; `drops` is a history.

| Action | Code |
|---|---|
| `Acquire`, `Claim`, `UseCurrent`, `Refused`, `Send`, `Confirm`, `Check`, `End`, `Rejected` | the refresh coordinator: lock, started event, the grant outside any transaction, compare-and-set of the credentials, the confirmed event |
| `MarkExpired`, `MarkActionRequired` | what the readers do to an account or a capability that failed |
| `Start`, `StartCapabilityEnable`, `DisableCapability`, `Disconnect`, `Deactivate` | the user; `Deactivate` is the beginning of a deletion |
| `Callback`, `Exchange`, `ExchangeFails`, `SaveBound`, `SaveTargetless`, `CallbackError`, `ConvergeFailed`, `CallbackEnds` | the callback, from the consumption of the state to the stored tokens |
| `RecoveryLease`, `Freeze`, `RecoveryExchange`, `Replace`, `Unsatisfied`, `CleanRecovery`, `CleanFence` | the recovery of an open fence by a new authorisation, and the cleaning away of closed groups |
| `ProviderGrants`, `LoseLease` | the environment: a sent grant may take effect at any time, or never |

### The modules before and after a trusted action

`MailSubmission` has the draft, the history of which version each version was written from (`source`), the trusted
task with its step summary and approval, the generation task, and the sessions. A session takes its locks in the
code's order (key, scope of the account, tasks, user, draft). Nothing is written before the lock of the user, so
everything after it is one step; what is read and locked before it are steps of their own. New mails only; content
is left out. What became of a closed task is not distinguished, and naming the account a draft already has is
naming none.

`CalendarProposals` has one event at the provider, its cached copy, the proposals with their confirmed fields,
their frozen commands, and the restorations. Edits, suggestions and confirmations read a version without a lock
and save the next one by compare-and-set; a restoration reads the event outside any transaction. Synchronisation
of the copy is one step here. `seen` is a history of what the user was shown when he confirmed a field.

`ProviderWrites` has the item, the request on the wire, and where the adapter is. An answer may be lost, or come
late; others edit or remove the item at any time. 408 and 425 (`AnsweredLate`) say nothing of the request, which
may still be carried out: Microsoft's adapters call that unknown, Google's refused (section 7). Google's conflict
on a creation may be the echo of the adapter's own repeated request; elsewhere a conflict means no effect.
Microsoft leaves no mark on a changed event, so somebody else's identical edit confirms it. `Answers` and
`ReadAnswers` of TrustedAction take a definite answer for true; `DefiniteIsTrue` says that it is, but for 408 and
425 at Google. What is checked and proved of TrustedAction is about actions that meet neither.

### SourceSync, UserData and the code

`SourceSync` numbers the changes at the provider; a cursor is the number up to which a scope has been told. A
session loads its cursor (`LoadFolder`, `LoadCalendar`, `LoadDirectory`), fetches outside any transaction
(`Fetch...`, `Expire...`) and commits rows and cursor together (`Commit...`) if the cursor is still the one it
began with. An account is Gmail, one scope whose history tells no deletion (`TellsRemovals`), a Microsoft mailbox,
whose messages move between folders and get a new version by it, or calendars with their directory. The window of
seven days and the parsing of pages are left out; a run that loses its capability or its user is a `Crash`.

`UserData` has the requests for deletion with their leases, what rows of each kind are left, the connection, one
other task and one execution of the user, the workers and their phase, and the retention. Rows that are deleted in
consecutive batches are one kind. `Clean` to `Finalize` are the phases of `AE/workers/privacy.py`, in whose middle
a worker may crash, lose its lease, or fail at a contended table; `Recover` takes a request up again while its
started fact names it. The age of what retention cleans is a free choice.

`SafeDeletion` knows none of that: a user is in use, going or gone, and something of each kind is left or not.
UserData implements it under the mapping `Stage` (active, inactive, completed) and `Left`.

### The operation of the database

`DatabaseRestore`: `call` holds the three facts (gate, authority, completion), which change with the grants in one
transaction; `ctl` is where each controller is, `backend` what the server process of each psql does, `holder` who
has the lifecycle, target and schema locks. A controller may die or lose its locks anywhere; its backend lives on.
Content is which dump, or what was there before; evidence files are projections of the facts and left out.

`SafeRestore` has none of these actors: a stage, the dump that is wanted, what was there before, the content and
whether anybody is connected. DatabaseRestore implements it under `Stage`, a projection of the call's phase.

`SchemaMigration`: `db` is the committed schema, `work` what the transaction of the upgrade sees. Rows are absent,
without or with the new column; the application writes either form until it is deployed anew. Tables are locked by
a transaction until it commits or the next autocommit block begins. Copies of one message are stored in threads of
their own.

`BackupPublication`: a run locks, dumps, seals, links three files in the local directory, copies three files to
the remote one, checks, and clears old groups; a failure takes back what is its own, as far as its locks are still
there. On the host, taking back goes on past a file that cannot be removed (`Unlink`), and a captured group that
cannot be deleted is put back file by file, in any order and past failures (`CleaningFails`); the history `astray`
has the files that failed. Days stand for the grace time and the retention.

`CalendarRollout`: a pair is a connection with its one calendar. The preflight freezes what is affected in an
artifact, `Migrate`, `Label` and `Commit` are the guarded revision, `Recover` to `Finish` the plan, the tasks and
their step. A guard that reads lease, file, facts and lease again is one step.

## 3. Properties

The run column of section 4 says where each is checked, section 6 which theorem states it.

Tasks:

* `Recoverable` – every unfinished row has a fact of its own from which it is delivered again.
* `OvertakenRunsAreFenced` – a run that a later attempt has overtaken changes neither status, lease nor outbox of
  its task.
* `ImplementsSafeTask` – the refinement: of the runs that leases, recoveries and lost answers start for a task, only
  the one that took it last stores its result and says how it ends; what it asks for or says is what its steps came
  to; and the end stands. `UnguardedTasks` are the kinds whose commit does not check (the daily brief): their result
  may come from any run.
* `QuestionIsOpen` – as long as a question is open, its interrupt is saved or the anchor is there from which it
  will be.
* `DecisionIsCarriedOut` – nothing is called without a yes or twice, and a task that succeeded has done what was
  decided.
* `Settles` – every ordinary task ends. A task with an external write need not (section 7, the spent budget).
* Proved without a run: `TerminalFrozen` (an ended task stays as it ended), `ResultByNewestAttempt` (of a task whose
  commit checks its row, only the newest attempt publishes a result, under its lease).

Trusted actions:

* `AtMostOneEffect` – the provider carries the action out at most once.
* `NoFalseFailure` – the program calls the action failed, or gives the draft back, only when no request took
  effect and none is on its way.
* `ImplementsSafeAction` – the refinement: consent before the effect, one effect, a true report that stands.
* `ClaimedSettles` – a claimed action reaches an outcome or the user.
* Proved without a run: `NoRetryWhileUnsure`, `RowsAgree` (the four rows never contradict each other),
  `OutcomeStands` (a settled execution keeps its outcome).

Connections:

* `DeadTokenFenced` – a refresh token that the provider has rotated away is stored only behind an open fence.
* `NoSpentGrant` – no grant is asked for with a token that the provider has rotated away.
* `StaleCallbackHarmless` – a callback of an older generation changes no row of the connection.
* `NoRevival` – only an authorisation begun after the last disconnection connects the account again.
* Proved without a run: `OneOpenFence`, `NoTokenKept` (a disconnected account keeps no token),
  `DeletedUserUntouched`.

Drafts, proposals and adapters:

* `MailFrozenIsCurrent`, `FrozenIsCurrent` – while a command waits for its decision or is carried out, its draft
  or proposal is what was submitted; no version of a mail is submitted twice.
* `RevocationComplete` – once an account may not send, no submission on it waits, also not one being inserted
  meanwhile.
* `NothingLost` – every version of a mail was written from the one before it.
* `ConfirmedIsShown` – a field of a proposal counts as confirmed only with the value that its user was shown.
* `OverwritesOnlyShown` – a write to an event replaces exactly the content that its approver saw.
* `RestoreStartsFresh` – a restoration starts from the newest event known, and one key gives one proposal.
* Proved without a run: `FrozenIsConfirmed` (a command of a proposal from a conversation carries the calendar, the
  time and the guests that its user was shown and confirmed; of the notification policy finding 1 says the
  opposite), `OutcomeStays` (an applied and a cancelled proposal stay as they are).
* `DefiniteIsTrue` – after "refused" and "again" nothing has happened and nothing is on its way, unless the refusal
  was Google's 408 or 425; after "applied" it was done once.

Synchronisation and deletion:

* `PassedIsStored` – what the cursor of a scope has passed and has not changed since is stored there, in that
  version.
* `RemovedIsGone` – a row leaves with the cursor that has passed its removal, in scopes of Microsoft's mailboxes and
  of calendars that never lost their cursor.
* `DirectoryIsNewest` – a stored list of calendars never goes back.
* `WinnerStays` – the request that has made the user inactive stays running, and its started fact the only one.
* `ImplementsSafeDeletion` – the refinement: from its beginning a deletion only takes away, until nothing is left;
  the provider is asked for a result while there is something to ask about, and told to revoke a token once none is
  left here, each once at most. `NothingReturns` (after the deletion nothing of the user is there, or comes back)
  and `OutsideOnce` follow, and are also proved as invariants of their own.
* `DeletionCompletes` – a deletion that has begun is completed.

The database:

* `RestoresAlone` – while a dump is being fed nobody else is in the database.
* `VerdictsTrue` – what is said of a restore, and of a final commit whose answer was lost, is what happened.
* `OpenIsWhole` – when the runtime roles may connect, nobody restores, and grants and content are known.
* `NextIsLetIn` – however a controller died, the next one is let in.
* `ImplementsSafeRestore` – the refinement: nobody but the server process of the call writes after the gate is
  drained, and that once; the content alone decides what the call is judged to be, and what is so judged stays so;
  the database opens again with the whole dump in it or, where the content is of no known kind, not at all.
* `NextIsAdmitted` – wherever an upgrade dies, the next one is admitted.
* `IdentityHolds` – from 0017 on no message is without its connection, and none is stored twice.
* `NothingLabelled` – no event sealed in the old way is labelled as new without the rollout.
* `MarkerIsWhole` – a public manifest marks a whole group, unless a file of it failed to be removed or put back, or
  its run lost a lock or failed to take its remote files back.
* `NewestStays` – the group of a run that succeeded stays until a later run has published one and clears away.
* `LegacyIsMarked` – what 0019 found sealed in the old way is marked until it has been read again.
* `NextPlanWorks` – a pair has one active task at most, and none that succeeded behind a mark.

## 4. Runs

| Run (`<run>.cfg`) | Instance | Checks | Shows |
|---|---|---|---|
| durable_safety | an ordinary task, 2 workers, 1 relay, clock samples up to 1 tick old; or a question in 3 attempts | Recoverable, OvertakenRunsAreFenced, ImplementsSafeTask, QuestionIsOpen, DecisionIsCarriedOut | leases, takeover, retries, recovery, cancellation and every loss of the stream |
| durable_progress | 1 ordinary task, 1 worker, 1 relay, exact clock | Settles | every ordinary task ends although crashes and losses go on for ever |
| trusted_safety | 1 worker, every fault, 2 retries, 2 reads, 1 reopening | NoFalseFailure, ImplementsSafeAction | the four rows under every kind of trouble |
| trusted_race | 2 workers, `slow` and `disconnect`, 2 retries, 1 read | AtMostOneEffect | two runs of one action at the same time, against the provider and the user |
| trusted_progress | 1 worker, `disable`, 2 retries, 2 reads, 1 reopening | ClaimedSettles | claims settle once crashes cease, also after the capability was withdrawn |
| connections_safety | a reader, a trusted write, 2 authorisations, 2 capabilities, 2 grants, 2 generations | DeadTokenFenced, NoSpentGrant, StaleCallbackHarmless, NoRevival | lost replies and leases, late callbacks, disconnection and deletion |
| submissions | 2 sessions; a draft with 3 versions, 2 accounts, 2 tasks; a proposal and its restoration, 2 versions, 3 versions of the event; 3 requests of an adapter | MailFrozenIsCurrent, RevocationComplete, NothingLost, ConfirmedIsShown, FrozenIsCurrent, OverwritesOnlyShown, RestoreStartsFresh, DefiniteIsTrue | everything before and after a trusted action, in every order of its locks |
| calendar_notification | a proposal with 3 versions | NothingConfirmedUnseen (violated) | finding 1 |
| source_sync | Gmail, a Microsoft mailbox or calendars; 2 sessions, 1 object, 2 scopes, 4 changes | PassedIsStored, RemovedIsGone, DirectoryIsNewest | overlapping synchronisations against moves, lost cursors and a calendar that comes and goes |
| user_data | 2 requests, 2 workers, 1 fault | WinnerStays, ImplementsSafeDeletion, DeletionCompletes | deletion against retention, a running task and a new authorisation |
| database_restore | 2 controllers, 2 dumps, 2 attempts, 2 calls, 2 faults | RestoresAlone, VerdictsTrue, OpenIsWhole, NextIsLetIn, ImplementsSafeRestore | controllers that die, lose their locks or the answer of their last commit |
| maintenance | 2 messages and 2 mishaps; 2 hosts, 2 runs, 2 failures, 2 days; 2 calendars, 2 commands, 2 attempts, 1 mishap | NextIsAdmitted, IdentityHolds, NothingLabelled, MarkerIsWhole, NewestStays, LegacyIsMarked, NextPlanWorks | the operator's commands, each dying at every step |

Type invariants are not checked by a run of their own: they are proved (section 6), and the checks of the
inductive invariants included them.

### Bounds, and why they are enough

* One task in DurableTasks: tasks meet only in the batch of `recover_due`, which the model treats as one
  transaction for all of them; the theorems hold for any number of tasks. Two workers are the fewest that can
  overtake each other. One relay, because a second one adds only claims that a stopped relay's expired claim
  already gives.
* `MaxRetries = 1` gives a first attempt, a retry and an attempt too many. `attempts` saturates one above it,
  where the exact number no longer matters to the code. Times of one to three ticks put every order of lease end,
  claim end, retry delay, recovery delay and bucket boundary within reach; `MaxAge = 1` lets a sample be older
  than a deadline.
* `MaxRuns = 3` lets the question be asked, answered and taken up again after a crash.
* In TrustedAction the run that pauses for the approval uses up the first attempt. So `MaxRetries = 2` is the
  smallest value under which a write is retried, `MaxReads = 2` the smallest with a read that is not the last, and
  `MaxReopens = 1` lets the count pass its limit.
* `MaxReopens` limits how often the user asks for another read. The outbox and the stream are sets: a second equal
  message can only do what a redelivery of the first can.
* Two workers together with every fault exceed what TLC can exhaust in minutes; `trusted_safety` has the faults,
  the second read and the reopening, `trusted_race` the second worker, for which the first read is the last. The
  theorems of section 6 hold for any number of workers together with every fault.
* Connections: two grants, so that one may be spent and the next taken; two authorisations, so that one is
  overtaken; the dependent capability needs the other, so that closures are not trivial.
* Submissions: two sessions are the fewest that race; three mail versions, because an edit is lost only under a
  third one; two tasks of one draft, because a repeated submission is the second.
* SourceSync: four changes let an object come, move, change and go between two reads; the inductive invariant was
  checked with three.
* UserData: with two requests one loses; one fault is a crash, a lost message or a lease that runs out under a
  living worker.
* DatabaseRestore: two of everything, so that every fact meets one of an earlier call, dump or controller.
* The maintenance run: two backups, so that one is cleared away by the other; three were checked once for the
  phases of a run (`Fitting`). Two failures, so that one may follow another: a publication that fails and a file
  that then cannot be removed.
* The configurations with `CHECK_DEADLOCK FALSE` are of systems that stop when everything is settled, or when a
  bound is reached.

Sizes (distinct states): durable_safety 838 thousand, durable_progress 96 thousand, submissions 626 thousand,
source_sync 5.0 million, user_data 474 thousand, database_restore 949 thousand, maintenance 1.1 million.

## 5. Fairness

DurableTasks. The cron jobs keep running and time passes: weak fairness of `Tick`, `Recover` and the relay's
claims. A broker call, a lease and a final transaction that are tried again and again succeed at last: strong
fairness of `Enqueue`, `MarkPublished`, `Receive`, `PrepareRetry`, `Acquire`, `Finish` and `ScheduleRetry`.
Crashes, losses and lost answers have no fairness and may go on for ever. Strong fairness is needed because the
steps are disabled each time a process dies; the code justifies it by retrying without limit (relay backoff,
recovery scan). Progress is asked of tasks without a question, because nobody has to answer one.

TrustedAction. Weak fairness of every step of a run, of the receipt of messages, of the relay's successful
confirmation, of the expiry of leases, of the schedule and of both scans; and from some moment on no process dies,
no call is interrupted and the user leaves the connection as it is. The last condition is an assumption about the
environment: a lease that is interrupted in every run makes no progress in the code either.

UserData. Weak fairness of the phases of a worker, of the expiry of a lease that nobody renews, of the recovery
scan, of the acquisition and of the end of the retention's transaction. Faults are bounded, because a deletion
that is interrupted every time is not completed in the code either.

The other specifications state no fairness, and no liveness is claimed of them.

## 6. Proofs

Every safety property of a passing run has a theorem; so do some properties that no run checks any more. The
theorems hold for all values of the constants that the named assumptions of the modules allow; these say that null
values are no identifiers, that bounds are natural numbers, and (DurableTasks) that a lease lasts longer than the
oldest clock sample. CalendarRollout and MailSubmission need none. Each inductive invariant was checked with TLC
before it was proved.

The proofs share a layout: a lemma per action or per kind of process that says which part of the invariant it
keeps, a lemma `...Next...` that collects them over `Next`, and a theorem that combines it with `Init` by PTL.
Where most actions leave a part of the state alone, one lemma says so (`Calm`, `Quiet`, `Moves`) and the others
cite it.

### DurableTasks_proofs

| Theorem | Statement | Argument |
|---|---|---|
| `TypeCorrect` | `Spec => []TypeOK` | inductive as it stands; lemmas per process kind |
| `CompositionIsTheEngine` | `MCSpec => Spec` | the other part of MCTasks leaves the rows of the engine alone |
| `FinalityHolds` | `Spec => TerminalFrozen` | needs `Ended`: a terminal row has neither owner nor lease. Without it a stale lease could be renewed or acquired |
| `RowsStayRecoverable` | `Spec => []Recoverable` | `Recoverable` is not inductive: `MarkPublished` removes the retry row that made it true. `RInv` adds that a row waiting for its retry still has *its own retry row*, or the instant that the same transaction sets when it removes it, that a created task keeps its initial row, and that a claimed task is no longer created |
| `FencingHolds`, `ResultByNewestAttemptHolds` | `Spec => OvertakenRunsAreFenced`, `Spec => ResultByNewestAttempt` | `OwnerIsNewest`: whoever is the owner of a running row holds an attempt no older than the row's count, and no other worker is named as owner. So a run whose attempt is below the count fails the owner predicate of every conditional update |
| `Refinement` | `Spec => ImplementsSafeTask` | `OwnerWorks`: a worker that a row names is in the run that took that row, and the row is RUNNING. So a worker speaks for one task at most, nobody speaks for a task that waits, and a run that ends leaves no row that still names it. `Acquire`, also with a lost answer, is `Take`; the last transaction of a run is `Publish`, `Conclude` or `Postpone`; whatever else ends a run is `Leave`; the scan is `Recall`; relays, time, renewals and messages stutter |
| `QuestionIsOpenHolds`, `DecisionIsCarriedOutHolds` | of `MCSpec` | `Asked`: whoever is about to store the question and still holds the task finds none there (`Unasked`); an open question has its interrupt or its anchor (`Saved`); one attempt at most is between its claim and the completion of its call (`OneCall`); whoever finishes has done what was decided (`Finished`) |

### TrustedAction_proofs

| Theorem | Statement | Argument |
|---|---|---|
| `TypeCorrect` | `Spec => [](TypeOK /\ ReadsLeft)` | the count of reads stays in its range only because the last read closes the outcome: `ReadsLeft` |
| `EffectHappensOnce` | `Spec => []AtMostOneEffect` | `OneOpen`: attempts later than the count do not exist, earlier ones were refused, and before a retry all were. `OneSender`: at most one run is between the start of an attempt and its answer, its attempt is the newest, and meanwhile the execution is in no status from which another could start |
| `NoRetryWhileUnsureHolds` | `Spec => NoRetryWhileUnsure` | the same invariant: what is sent is the newest attempt, and all the others are refused |
| `RowsAgreeHolds` | `Spec => []RowsAgree` | `Rows` adds that an undecided approval has no execution; `Placed` that a paused run that still owns the task has seen no execution, and that a run about to succeed has seen one that cannot be started again |
| `NoFalseFailureHolds` | `Spec => []NoFalseFailure` | `Truthful`: without the user's word, a failure means that all requests were refused and nobody can send, a success that one took effect |
| `OutcomeStandsHolds` | `Spec => OutcomeStands` | `ExecMoves` and `ConsentMoves`, which list the ways of the execution and of the approval, have none out of a settled execution; the other two rows follow by `Rows` |
| `Refinement` | `Spec => ImplementsSafeAction` | `Invariant`, the conjunction of all of these. A step in which the provider acts is `Perform`; the others are sorted by the execution they start from: unclaimed, claimed, settled |

### Connections_proofs

| Theorem | Statement | Argument |
|---|---|---|
| `TypeCorrect`, `OneOpenFenceHolds` | `[]TypeOK`, `[]OneOpenFence` | the lease is held only inside the block that took it; a fence is opened only where none is open, in the transaction that locks the history |
| `DeadTokenFencedHolds`, `NoSpentGrantHolds` | `[]DeadTokenFenced`, `NoSpentGrant` | `Tokens`, which follows every token: what was issued bounds every number in the database (`Issued`); how far a fence and a callback have come (`Started`); a dead token is fenced by the very fence whose reply replaces it (`Fenced`); a fence whose grant may still take effect has a live token of its own, no longer stored once it is closed (`WaitingAlive`); and what a callback or a refresh is about to store is new to everybody (`CallbackTokensNew`, `RotatedTokensNew`) |
| `NoTokenKeptHolds`, `DeletedUserUntouchedHolds` | `[]NoTokenKept`, `DeletedUserUntouched` | every write of a token goes through a row that is connected and a user who is active, under the locks of both |
| `StaleCallbackHarmlessHolds` | `Spec => StaleCallbackHarmless` | what a step may do to an attempt (`Moves`): a bound attempt writes only through the comparison of its generation |
| `NoRevivalHolds` | `Spec => NoRevival` | `Eras`: an attempt that is bound to no connection and still valid was begun in this era, because a disconnection invalidates the others. The one action that connects demands just that |

### Submissions_proofs

Of `MCSpec` of MCSubmissions, in three invariants:

| Theorem | Argument |
|---|---|
| `MailFrozenIsCurrentHolds`, `RevocationCompleteHolds`, `NothingLostHolds` | `Mailed`: the version of a session is one the draft has had; who is between the lock of a scope and that of the user is alone there (`OneInScope`), so a revocation that has chosen its tasks knows every open one (`RevokersKnow`); each version was written from its predecessor (`Written`) |
| `DefiniteIsTrueHolds` | `LateMeans`: what follows 408 or 425. `Answered`: where the adapter waits, what is on the wire, how often the command was carried out and which request may still arrive agree (`OnItsWay`); the mark and the frozen content have an origin (`Signed`); what the adapter has read is known (`Adapters`) |
| `ConfirmedIsShownHolds`, `FrozenIsCurrentHolds`, `OverwritesOnlyShownHolds`, `RestoreStartsFreshHolds` | `Scheduled`: each status of a proposal with the fields and the command that belong to it (`Proposed`), what sessions and restorations may hold (`Occupations`), a content kept with the version that the event still has is its content (`Dated`), and one restoration per key (`Keyed`) |
| `FrozenIsConfirmedHolds` | `Ripe`, on top of `Scheduled`: what has a command had every field confirmed. A submission asks for it, and no row with a command gets another version (`OwnSteps`) |
| `OutcomeStaysHolds` | `OwnSteps`: a proposal is changed by a version while it is absent or edited, or by one of the seven steps of its command, none of which starts from applied or cancelled |

### UserData_proofs, SourceSync_proofs, DatabaseRestore_proofs

| Theorem | Argument |
|---|---|
| `NothingReturnsHolds`, `WinnerStaysHolds`, `OutsideOnceHolds` | `Kept`: no fact before the deletion and none after it (`Begun`); what a worker has come past is gone for good (`Emptied`); whoever is about to read, or to revoke, is alone, and nobody has done so (`ReadOnce`, `RevokedOnce`) |
| `Refinement` of UserData | `Spec => ImplementsSafeDeletion`, from `Kept`: `PassBarrier` of the winner is `Begin`, a read `Ask`, a revocation `Tell`, `Finalize` is `Finish`; every other step is a `Use` while the user is active, and takes away or stutters afterwards |
| `PassedIsStoredHolds`, `RemovedIsGoneHolds`, `DirectoryIsNewestHolds` | `Kept`: no number is ahead of the provider's (`Numbered`), a row is at most as new as its object, and as new only in the same place (`Behind`), what a session carries is what the provider said then, and still says of whatever has not changed since (`Truthful`), and no row is left of a calendar that is not listed, or of a scope whose cursor is empty and was not lost (`Emptied`) |
| `RestoresAloneHolds`, `VerdictsTrueHolds`, `OpenIsWholeHolds`, `NextIsLetInHolds` | `Kept`: who holds the locks is where one can be with them (`Locked`); one backend lives at most, and feeds only for the call that registered it (`OneProcess`); facts, content and grants agree in each phase (`Agreed`); each invocation is sound where it stands, its gate secure, and a commit in doubt is a past that no later call can look like (`Invoked`) |
| `Refinement` of DatabaseRestore | `Spec => ImplementsSafeRestore`, from `Kept` and `Bound`: until its server process commits a call finds what was there when it began, that is not the dump, and the one process that lives feeds the dump of the gate. Without `Bound` a stray process could commit a second time or something else. Each action of a controller is an abstract one or a stutter, every other operation is a `Use` or leaves the content alone |

Each has its `TypeCorrect`.

### SchemaMigration_proofs

`TypeCorrect` and the first row are about SchemaMigration's own `Spec`, which `CompositionMigrates`
(`MCSpec => Spec`) carries over to MCMaintenance; the others are about `MCSpec`.

| Theorem | Argument |
|---|---|
| `NextIsAdmittedHolds`, `IdentityHoldsAlways`, `NothingLabelledHolds` | what is committed has the indices of its revision and those an interrupted one had finished, each of which the rows satisfy (`Committed`, `Filled`, `Unique`); what the open transaction sees is ahead of it by what the phase has done (`Working`, `Labelled`) |
| `MarkerIsWholeHolds`, `NewestStaysHolds` | `BackupInv`: runs begin one after the other, and the lock is the last one's (`Ordered`); a run that lost its lock knows it when it is over (`Locking`); for each phase, which files may be there, with the lock and without (`Fitting`). `Tidy`, on top of it: as long as no file of a group is in `astray`, what is left of the group on its host is a beginning of it, or what the order of removal leaves. Needs `BackupAssumption`: there is a number of runs |
| `LegacyIsMarkedHolds`, `NextPlanWorksHolds` | `RolloutInv`: the form of artifact, tables and commands; what is in force in each phase of the command that holds the lease (`CommandsWork`); before 0019 nothing is marked (`Before`); one active task per pair, and none that succeeded behind a mark (`OneActive`, `NoneIsDone`) |

### What is only model-checked

Liveness under fairness (`Settles`, `ClaimedSettles`, `DeletionCompletes`): the prover handles neither ENABLED nor
liveness. The models contain no recursion over data, so no induction over data is left unproved.

## 7. Where the code departs from its own documents

1. **A notification policy is confirmed unseen** (run calendar_notification). `_invalidated_confirmations` clears
   the confirmation of the policy only when guests or policy are edited; an edit of the time recomputes the policy
   as long as the user has not set it, and confirming does not mark it as set. The M2 design says that saving
   never confirms implicitly.

Seen while modelling, without a run of its own:

* **A finished task can be cancelled.** `cancel` (`task_views.py:182`) refuses a task with a result only while it
  is RUNNING. The recovery scan may have put it back to QUEUED.
* **A cancelled brief is published.** `briefs.persist` checks neither status nor owner. Such kinds are
  `UnguardedTasks`, which `ResultByNewestAttempt` excludes.
* **The recovery key names a bucket, not an instant.** A trusted action that gives its lease back can come due
  twice in a bucket, and the second recovery rolls back its whole batch until the next bucket. For ordinary tasks
  it cannot happen as long as neither the lease nor the quiet time is shorter than the bucket.
* **A read can be forgotten.** A read that raises keeps count and instant; the recovery key of that pair is taken
  after one recovered delivery, and the task is never delivered again. The same key is taken by a recovered
  message that Redis then loses.
* **A spent budget blocks reconciliation.** A started write whose task has used up its lifetime budget is
  recovered, leased and refused for ever. The same happens to a rejected approval whose budget is spent.
* **The generic failure path bypasses the trusted one.** `fail_internal` (`task_execution.py:515`) fails the task
  row alone.
* **A disconnect does not select an action that waits for a retry**, which then meets the missing connection in
  every run, until the content's retention ends, months later.
* **The deletion of content moves a claim without a request to needs_attention.** `resolve_manual` refuses it
  because nothing was written, and `request_reconciliation` clears the reason under which the convergence would
  settle it, so the reopened action is neither read nor settled. The same deletion overwrites the status of an
  ended task that has no execution with CANCELLED.
* **A pending question of a queued task that expires** leaves the task for its next run to fail; cancelling a task
  leaves its approval pending until it expires.
* **A capability may be left without what it needs.** `mark_mail_capability_action_required` (`email.py:1317`)
  degrades mail.read alone; afterwards every request that validates the closure of capabilities is refused
  (docstring `domain/connections.py:310`).
* **`mark_expired` writes "degraded" over "disconnected"**; a callback without a target does not raise the
  generation; an account disconnected with an open fence cannot be connected again without the operator
  (docs/operations.md); a crash between the commit of a disconnection and the revocation at the provider leaves no
  record of it.
* **A submitted calendar proposal can be deleted** (`calendar_proposals.py:267`), which drafts refuse; its
  approved action can then neither be claimed nor failed (`trusted_actions.py:4018`).
* **Google's 408 and 425 count as refusals.** `gmail_write.py:414` says of them that one cannot infer that nothing was
  created, and answers `confirmed_not_applied` all the same, as `calendar_write.py:982` does; the Microsoft adapters
  answer unknown (`mail_write.py:524`). The caller then settles the action as failed and never reads, and the mail
  may still be sent. `DefiniteIsTrue` names the exception.
* **A full resynchronisation after an expired cursor** keeps rows that were removed meanwhile (the history
  `resynced`). Gmail's history is read for additions and labels only (`google/gmail.py:183`), so a deleted message
  stays after the cursor has passed it (`RemovedIsGone` leaves Gmail out), and a message that is gone when it is
  loaded stops the run.
* **The newest head cannot be restored or backed up**: the head is 20261001_0020, but `database_grants.py:2284`
  and `cli/verify_restored_backup.py:27` accept only 0018 and 0019; the migration command refuses 0020 as well,
  there on purpose (docs/releases/2026-10-01-task-history-evidence.md:73). `needs_attention` of a restore has no
  way out.
* **The branch of 0017 for databases with an old 0016** is refused by its own check of the catalogue; a retried
  0017 whose index is whole refuses to fill a copy until somebody repairs it.
* **A backup that deletes old groups and then fails its last check** takes its own group back as well; a run that
  lost its lock just before a copy can leave a manifest alone when another host clears that prefix.
* **A manifest can be alone on a host.** `discard_backup_publication` (`postgres_backup_manifest.py:563`) begins with
  the manifest but goes on with checksum and dump when that could not be removed. `_capture_cleanup` (line 1088)
  puts captured files back in the order of the directory and past errors, so that the manifest may come back
  without the dump. Its docstring admits that names may be missing; that the marker may be what is left it does not
  say. Such a manifest marks neither a whole nor an incomplete group, and no run clears it away.
* **A rollout whose sealed events lost their text** sees a smaller set when it reads again, and is refused by
  every later guard.

This is why trusted_progress admits only `disable`: under each of the other faults `ClaimedSettles` fails, as
described above: under `loss`, `read` and `slow` through a forgotten read, under `budget` through the spent
budget, under `database` through the generic failure path, and under `disconnect` and `cleanup` through the two
that follow.

## 8. Not modelled

* Tasks: the engine's barrier of inactive users (UserData has it), retry of a failed task by its user, schedules,
  conversations.
* Trusted actions: `fail_claimed_integrity`, the synchronisation queued after a write, AAD binding and encryption
  of commands. `ResolveOAuth` takes its result (refreshed, refused, unknown) as a free choice; Connections has
  where it comes from.
* Connections: the backlog of revocations at the provider and its remediation, the expiry of attempts, other
  accounts of the same provider, the conversion of old capability rows.
* Drafts and proposals: content, recipients, replies, the bindings of historical actions of the calendar.
* Synchronisation: parsing and paging, discovery of mailboxes, which only creates empty cursors, and legacy
  identities.
* Adapters: formats of requests, validation before an approval, the notification policies of Graph, the language
  model.
* Restore: catalogue queries, archive format, identity of processes. Migration: revisions up to 0015. Rollout:
  audits, the sealed backup around it, and the verifiers of a restored database.
* HTTP, SSE, sessions, observability and the frontend, because they hold no state that the properties depend on,
  or are input and output only.

The reasons per component are in `PROJECT.json`.

## 9. Plan

Every safety property of the runs is proved. What would say most next:

1. The composition of ProviderWrites with TrustedAction: that `Answers` and `ReadAnswers` are what the adapters
   give.
2. An abstract specification of a submission (frozen, decided, carried out or given back), implemented by
   MailSubmission and CalendarProposals alike.
3. Action properties over the invariants of the database's operation: what a later command of a rollout may still
   change of an earlier one.
