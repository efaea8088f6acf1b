---------------------------- MODULE DurableTasks ----------------------------
(***************************************************************************)
(* The durable task engine: TaskRun rows and their leases, the             *)
(* transactional Outbox, the relay that hands rows to the Redis stream,    *)
(* the workers that run DurableTaskRunner.run, the recovery scanner and    *)
(* the user's cancellation.                                                *)
(*                                                                         *)
(* Every database transaction of the code is one action, because each      *)
(* locks the TaskRun row it changes; the code between two transactions     *)
(* (broker calls, task steps, a crash) interleaves freely.                 *)
(*                                                                         *)
(* Tasks that carry out a trusted action have a store with a `finish' and  *)
(* outcomes of its own: they are the subject of TrustedAction.             *)
(*                                                                         *)
(* Instants are kept relative to the present: a stored deadline is the     *)
(* number of ticks until it is reached, and Tick brings every deadline     *)
(* one tick nearer.  A process that sampled the clock `age' ticks before   *)
(* its transaction sees a deadline d as passed when d <= -age, and the     *)
(* deadlines it writes are age ticks short.                                *)
(***************************************************************************)
EXTENDS Integers, FiniteSets

CONSTANTS
  Tasks,         \* TaskRun rows
  Workers,       \* worker processes
  Relays,        \* processes that may run the relay (cron job, API dispatch)
  UnguardedTasks,\* tasks whose result commit checks no status (daily_brief)
  Null,          \* SQL NULL
  Gone,          \* a lease owner whose run has ended: owners are fresh UUIDs
  MaxRetries,    \* DEFAULT_RETRY_COUNT
  LeaseTime,     \* task_lease_seconds
  TaskTimeout,   \* task_timeout_seconds
  ClaimTime,     \* outbox claim_ttl
  RelayBackoff,  \* a delay after a failed enqueue
  RetryDelay,    \* the largest delay of a scheduled retry
  RetryRecovery, \* retry_recovery_delay
  StaleQueued,   \* the five minutes after which a QUEUED row is suspect
  Bucket,        \* the five-minute bucket of the recovery key
  MaxAge         \* the oldest clock sample a transaction may use

ASSUME ProcessesAssumption ==
  /\ UnguardedTasks \subseteq Tasks
  /\ Null \notin Int /\ Null \notin Workers /\ Null \notin Relays
  /\ Gone \notin Workers /\ Gone # Null

ASSUME TimesAssumption ==
  /\ MaxRetries \in Nat /\ MaxAge \in Nat
  /\ LeaseTime \in Nat /\ LeaseTime > MaxAge
  /\ TaskTimeout \in Nat \ {0} /\ ClaimTime \in Nat \ {0}
  /\ RelayBackoff \in Nat \ {0} /\ RetryDelay \in Nat \ {0}
  /\ RetryRecovery \in Nat \ {0} /\ StaleQueued \in Nat \ {0}
  /\ Bucket \in Nat \ {0}

VARIABLES
  status,    \* TaskRun.status
  owner,     \* TaskRun.lease_owner
  lease,     \* TaskRun.lease_expires_at
  attempts,  \* TaskRun.attempt_count, saturated just above MaxRetries
  budget,    \* what is left of task_timeout_seconds since started_at
  recoverAt, \* TaskRun.retry_recovery_at
  quiet,     \* ticks until a QUEUED row's updated_at is stale
  result,    \* TaskRun.result_payload is not NULL
  outbox,    \* unpublished task.execute rows
  keys,      \* deduplication keys that a later insert could meet again
  queue,     \* tasks with a message on the Redis stream
  relay,     \* the claim a relay process holds, and how far it got
  worker,    \* the run a worker process is in
  phase      \* position of the present inside the five-minute bucket

taskVars == <<status, owner, lease, attempts, budget, recoverAt, quiet, result>>
vars == <<taskVars, outbox, keys, queue, relay, worker, phase>>

-----------------------------------------------------------------------------
Statuses == {"created", "queued", "running", "retry_scheduled",
             "succeeded", "failed", "cancelled"}
Terminal == {"succeeded", "failed", "cancelled"}

Ages == 0..MaxAge
Attempts == 0..(MaxRetries + 1)
Leases == (0 - MaxAge)..LeaseTime

\* Deduplication keys.  The recovery key names the current bucket, so it is
\* free again in the next one; a retry-recovery key names an instant that is
\* stored once and is never met twice.
Key == [kind : {"initial", "retry", "recovery", "retry-recovery"}, n : Attempts]
InitialKey == [kind |-> "initial", n |-> 0]
RetryKey(n) == [kind |-> "retry", n |-> n]
BucketKey == [kind |-> "recovery", n |-> 0]
RetryRecoveryKey == [kind |-> "retry-recovery", n |-> 0]

\* available_at is also the claim token: `by' is the relay whose claim set it.
MaxAvail == LET Longer(a, b) == IF a > b THEN a ELSE b
            IN  Longer(ClaimTime, Longer(RelayBackoff, RetryDelay))
Row == [key : Key, avail : 0..MaxAvail, by : Relays \cup {Null}]
RowOf(key, delay, relayer) == [key |-> key, avail |-> delay, by |-> relayer]
NewRow(key, delay) == RowOf(key, delay, Null)

NoClaim == [pc |-> "idle", task |-> Null, key |-> InitialKey]
Claims == [pc : {"claimed", "sent", "refused"}, task : Tasks, key : Key]
            \cup {NoClaim}

Verdicts == {"none", "succeeded", "failed", "transient"}
NoRun == [pc |-> "idle", task |-> Null, attempt |-> 0, verdict |-> "none"]
Runs == [pc : {"received", "prepared", "erring", "running", "ending"},
         task : Tasks, attempt : Attempts, verdict : Verdicts]
          \cup {NoRun}

Init ==
  /\ status = [t \in Tasks |-> "created"]
  /\ owner = [t \in Tasks |-> Null]
  /\ lease = [t \in Tasks |-> Null]
  /\ attempts = [t \in Tasks |-> 0]
  /\ budget = [t \in Tasks |-> TaskTimeout]
  /\ recoverAt = [t \in Tasks |-> Null]
  /\ quiet = [t \in Tasks |-> StaleQueued]
  /\ result = [t \in Tasks |-> FALSE]
  /\ outbox = [t \in Tasks |-> {NewRow(InitialKey, 0)}]
  /\ keys = [t \in Tasks |-> {InitialKey}]
  /\ queue = {}
  /\ relay = [r \in Relays |-> NoClaim]
  /\ worker = [w \in Workers |-> NoRun]
  /\ phase = 0

-----------------------------------------------------------------------------
(* The passage of time.                                                    *)

Down(d) == IF d > 0 THEN d - 1 ELSE 0

Tick ==
  /\ lease' = [t \in Tasks |-> IF lease[t] = Null \/ lease[t] = 0 - MaxAge
                               THEN lease[t] ELSE lease[t] - 1]
  /\ budget' = [t \in Tasks |-> IF attempts[t] > 0 /\ status[t] \notin Terminal
                                THEN Down(budget[t])
                                ELSE budget[t]]
  /\ recoverAt' = [t \in Tasks |-> IF recoverAt[t] = Null THEN Null
                                   ELSE Down(recoverAt[t])]
  /\ quiet' = [t \in Tasks |-> IF status[t] = "queued" THEN Down(quiet[t])
                                                       ELSE quiet[t]]
  /\ outbox' = [t \in Tasks |->
                  {RowOf(row.key, Down(row.avail), row.by) : row \in outbox[t]}]
  /\ phase' = (phase + 1) % Bucket
  /\ keys' = IF phase' = 0 THEN [t \in Tasks |-> keys[t] \ {BucketKey}]
                           ELSE keys
  /\ UNCHANGED <<status, owner, attempts, result, queue, relay, worker>>

-----------------------------------------------------------------------------
(* OutboxRelay: claim in one transaction, deliver outside any, confirm in  *)
(* another.  The relay process may stop between any two of them.           *)

\* claim_due: a due row becomes invisible until the claim runs out, and the
\* task's first row turns CREATED into QUEUED in the same transaction.
Claim(r, t) ==
  /\ relay[r] = NoClaim
  /\ \E row \in outbox[t] :
       /\ row.avail = 0
       /\ outbox' = [outbox EXCEPT ![t] =
            (@ \ {row}) \cup {RowOf(row.key, ClaimTime, r)}]
       /\ relay' = [relay EXCEPT ![r] =
            [pc |-> "claimed", task |-> t, key |-> row.key]]
  /\ status' = IF status[t] = "created" THEN [status EXCEPT ![t] = "queued"]
                                        ELSE status
  /\ quiet' = IF status[t] = "created" THEN [quiet EXCEPT ![t] = StaleQueued]
                                       ELSE quiet
  /\ UNCHANGED <<owner, lease, attempts, budget, recoverAt, result, keys,
                 queue, worker, phase>>

Enqueue(r) ==
  /\ relay[r].pc = "claimed"
  /\ queue' = queue \cup {relay[r].task}
  /\ relay' = [relay EXCEPT ![r].pc = "sent"]
  /\ UNCHANGED <<taskVars, outbox, keys, worker, phase>>

\* The broker call raises; whether Redis took the message is not known.
EnqueueError(r) ==
  /\ relay[r].pc = "claimed"
  /\ queue' \in {queue, queue \cup {relay[r].task}}
  /\ relay' = [relay EXCEPT ![r].pc = "refused"]
  /\ UNCHANGED <<taskVars, outbox, keys, worker, phase>>

\* The rows on which relay r's claim token still stands.
Claimed(r) ==
  {row \in outbox[relay[r].task] : row.key = relay[r].key /\ row.by = r}

\* Variant: expects the task to have been queued again already.
HandsOverQueued(r) ==
  /\ Claimed(r) # {}
  /\ relay[r].key.kind = "retry"
  /\ status[relay[r].task] = "queued"

\* The stream now holds the retry of a task that still waits for it: only
\* from here on may the recovery scanner suspect that it was lost.
HandsOverRetry(r) ==
  /\ Claimed(r) # {}
  /\ relay[r].key.kind = "retry"
  /\ status[relay[r].task] = "retry_scheduled"

MarkPublished(r) ==
  /\ relay[r].pc = "sent"
  /\ relay' = [relay EXCEPT ![r] = NoClaim]
  /\ LET t == relay[r].task IN
       /\ outbox' = [outbox EXCEPT ![t] = @ \ Claimed(r)]
       /\ recoverAt' = IF HandsOverRetry(r)
                       THEN [recoverAt EXCEPT ![t] = RetryRecovery]
                       ELSE recoverAt
  /\ UNCHANGED <<status, owner, lease, attempts, budget, quiet, result, keys,
                 queue, worker, phase>>

MarkFailed(r) ==
  /\ relay[r].pc = "refused"
  /\ relay' = [relay EXCEPT ![r] = NoClaim]
  /\ outbox' = [outbox EXCEPT ![relay[r].task] =
       (@ \ Claimed(r)) \cup {NewRow(row.key, RelayBackoff) : row \in Claimed(r)}]
  /\ UNCHANGED <<taskVars, keys, queue, worker, phase>>

RelayCrash(r) ==
  /\ relay[r] # NoClaim
  /\ relay' = [relay EXCEPT ![r] = NoClaim]
  /\ UNCHANGED <<taskVars, outbox, keys, queue, worker, phase>>

-----------------------------------------------------------------------------
(* DurableTaskRunner.run on worker w.                                      *)

\* The message is acknowledged after the run; redelivered, duplicated or
\* unacknowledged, it may be there still.
Ack(w) ==
  /\ worker' = [worker EXCEPT ![w] = NoRun]
  /\ queue' \in {queue, queue \ {worker[w].task}}

\* No later run has the UUID this run wrote as lease owner.
Orphan(w, own) == [t \in Tasks |-> IF own[t] = w THEN Gone ELSE own[t]]

\* The lease predicates of the conditional updates, for a clock sample of
\* that age.
Expired(t, age) == lease[t] # Null /\ lease[t] <= 0 - age
Live(t, age) == lease[t] # Null /\ lease[t] > 0 - age
\* Variant: the conditional update forgets the owner.
HoldsForAnyone(w, t, age) == status[t] = "running" /\ Live(t, age)


Holds(w, t, age) == status[t] = "running" /\ owner[t] = w /\ Live(t, age)

Receive(w, t) ==
  /\ worker[w] = NoRun
  /\ t \in queue
  /\ worker' = [worker EXCEPT ![w] =
       [pc |-> "received", task |-> t, attempt |-> 0, verdict |-> "none"]]
  /\ UNCHANGED <<taskVars, outbox, keys, queue, relay, phase>>

\* prepare_retry: a scheduled retry is queued, unless a task.execute row is
\* still unpublished: then the message is an older one.
RetryDue(t) == status[t] = "retry_scheduled" /\ outbox[t] = {}

PrepareRetry(w) ==
  /\ worker[w].pc = "received"
  /\ worker' = [worker EXCEPT ![w].pc = "prepared"]
  /\ LET t == worker[w].task
         due == RetryDue(t)
     IN  /\ status' = IF due THEN [status EXCEPT ![t] = "queued"] ELSE status
         /\ owner' = IF due THEN [owner EXCEPT ![t] = Null] ELSE owner
         /\ lease' = IF due THEN [lease EXCEPT ![t] = Null] ELSE lease
         /\ recoverAt' = IF due THEN [recoverAt EXCEPT ![t] = Null] ELSE recoverAt
         /\ quiet' = IF due THEN [quiet EXCEPT ![t] = StaleQueued] ELSE quiet
  /\ UNCHANGED <<attempts, budget, result, outbox, keys, queue, relay, phase>>

\* acquire, eligible: QUEUED, or RUNNING with an expired lease.
Acquirable(t, age) ==
  \/ status[t] = "queued" /\ (lease[t] = Null \/ Expired(t, age))
  \/ status[t] = "running" /\ Expired(t, age)

\* attempt_count + 1; beyond MaxRetries the exact number means nothing.
NextAttempt(t) ==
  IF attempts[t] > MaxRetries THEN attempts[t] ELSE attempts[t] + 1

Lease(w, t, age) ==
  /\ Acquirable(t, age)
  /\ status' = [status EXCEPT ![t] = "running"]
  /\ owner' = [owner EXCEPT ![t] = w]
  /\ lease' = [lease EXCEPT ![t] = LeaseTime - age]
  /\ attempts' = [attempts EXCEPT ![t] = NextAttempt(t)]
  /\ quiet' = [quiet EXCEPT ![t] = StaleQueued]
  /\ UNCHANGED <<budget, recoverAt, result, outbox, keys, queue, relay, phase>>

\* A spent lifetime budget ends the attempt before its first step; steps
\* that find the result already published return at once.
Acquire(w) ==
  /\ worker[w].pc = "prepared"
  /\ LET t == worker[w].task
         spent == budget[t] = 0
     IN  \E age \in Ages :
           /\ Lease(w, t, age)
           /\ worker' = [worker EXCEPT ![w] =
                [pc |-> IF spent THEN "ending" ELSE "running",
                 task |-> t,
                 attempt |-> attempts'[t],
                 verdict |-> IF spent THEN "failed"
                             ELSE IF result[t] THEN "succeeded" ELSE "none"]]

NotAcquired(w) ==
  /\ worker[w].pc = "prepared"
  /\ \E age \in Ages : ~ Acquirable(worker[w].task, age)
  /\ Ack(w)
  /\ UNCHANGED <<taskVars, outbox, keys, relay, phase>>

\* prepare_retry or acquire raises: before its transaction committed ...
DatabaseError(w) ==
  /\ worker[w].pc \in {"received", "prepared"}
  /\ worker' = [worker EXCEPT ![w].pc = "erring"]
  /\ UNCHANGED <<taskVars, outbox, keys, queue, relay, phase>>

\* ... or after it, when only the answer was lost.
AcquireAnswerLost(w) ==
  /\ worker[w].pc = "prepared"
  /\ \E age \in Ages : Lease(w, worker[w].task, age)
  /\ worker' = [worker EXCEPT ![w].pc = "erring"]

\* fail_internal: an unowned row that is not running, or this run's own one.
FailInternal(w) ==
  /\ worker[w].pc = "erring"
  /\ Ack(w)
  /\ LET t == worker[w].task IN
     \E age \in Ages :
       LET hit == \/ /\ status[t] \in {"created", "queued", "retry_scheduled"}
                     /\ owner[t] = Null
                  \/ Holds(w, t, age)
       IN  /\ status' = IF hit THEN [status EXCEPT ![t] = "failed"] ELSE status
           /\ owner' = IF hit THEN [owner EXCEPT ![t] = Null] ELSE Orphan(w, owner)
           /\ lease' = IF hit THEN [lease EXCEPT ![t] = Null] ELSE lease
  /\ UNCHANGED <<attempts, budget, recoverAt, quiet, result, outbox, keys,
                 relay, phase>>

\* Variant: the step checks the task but not its owner.
MayPublishWhileRunning(w, t) == status[t] = "running"

\* A step's own final transaction publishes the task's result, once.  The
\* draft and conversation steps require RUNNING and this owner; persist for
\* a daily brief only requires that the row exists.
MayPublish(w, t) ==
  t \in UnguardedTasks \/ (status[t] = "running" /\ owner[t] = w)

CommitResult(w) ==
  /\ worker[w].pc = "running"
  /\ LET t == worker[w].task IN
       /\ ~ result[t]
       /\ MayPublish(w, t)
       /\ result' = [result EXCEPT ![t] = TRUE]
  /\ worker' = [worker EXCEPT ![w].verdict = "succeeded"]
  /\ UNCHANGED <<status, owner, lease, attempts, budget, recoverAt, quiet,
                 outbox, keys, queue, relay, phase>>

\* Between two steps of a run the lease is renewed ...
RenewedLease(t, age) == LeaseTime - age

Renew(w) ==
  /\ worker[w].pc = "running"
  /\ LET t == worker[w].task IN
     \E age \in Ages :
       /\ Holds(w, t, age)
       /\ lease' = [lease EXCEPT ![t] = RenewedLease(t, age)]
  /\ UNCHANGED <<status, owner, attempts, budget, recoverAt, quiet, result,
                 outbox, keys, queue, relay, worker, phase>>

\* ... and a run that cannot renew it stops without a word.
LeaseLost(w) ==
  /\ worker[w].pc = "running"
  /\ \E age \in Ages : ~ Holds(w, worker[w].task, age)
  /\ Ack(w)
  /\ owner' = Orphan(w, owner)
  /\ UNCHANGED <<status, lease, attempts, budget, recoverAt, quiet, result,
                 outbox, keys, relay, phase>>

\* The steps end; once the lifetime budget is spent they can only time out,
\* and publishing the result is the last thing that can fail.
StepsEnd(w) ==
  /\ worker[w].pc = "running"
  /\ \E v \in Verdicts \ {"none"} :
       /\ v # "failed" => budget[worker[w].task] > 0
       /\ v = "transient" => worker[w].verdict = "none"
       /\ worker' = [worker EXCEPT ![w].pc = "ending", ![w].verdict = v]
  /\ UNCHANGED <<taskVars, outbox, keys, queue, relay, phase>>

\* A transient provider error is retried while the attempt count allows it.
Retryable(w) ==
  worker[w].verdict = "transient" /\ worker[w].attempt <= MaxRetries

\* finish: the owner's conditional update.
Finish(w) ==
  /\ worker[w].pc = "ending"
  /\ ~ Retryable(w)
  /\ LET t == worker[w].task
         outcome == IF worker[w].verdict = "succeeded" THEN "succeeded"
                                                       ELSE "failed"
     IN  \E age \in Ages :
           /\ Holds(w, t, age)
           /\ status' = [status EXCEPT ![t] = outcome]
           /\ owner' = [owner EXCEPT ![t] = Null]
           /\ lease' = [lease EXCEPT ![t] = Null]
           /\ recoverAt' = [recoverAt EXCEPT ![t] = Null]
  /\ Ack(w)
  /\ UNCHANGED <<attempts, budget, quiet, result, outbox, keys, relay, phase>>

\* schedule_retry: state, audit and delayed Outbox row in one transaction.
ScheduleRetry(w) ==
  /\ worker[w].pc = "ending"
  /\ Retryable(w)
  /\ LET t == worker[w].task
         key == RetryKey(worker[w].attempt)
     IN  /\ \E age \in Ages : Holds(w, t, age)
         /\ key \notin keys[t]
         /\ status' = [status EXCEPT ![t] = "retry_scheduled"]
         /\ owner' = [owner EXCEPT ![t] = Null]
         /\ lease' = [lease EXCEPT ![t] = Null]
         /\ recoverAt' = [recoverAt EXCEPT ![t] = Null]
         /\ keys' = [keys EXCEPT ![t] = @ \cup {key}]
         /\ \E delay \in 1..RetryDelay :
              outbox' = [outbox EXCEPT ![t] = @ \cup {NewRow(key, delay)}]
  /\ Ack(w)
  /\ UNCHANGED <<attempts, budget, quiet, result, relay, phase>>

\* The conditional update misses: nothing is written.
EndRefused(w) ==
  /\ worker[w].pc = "ending"
  /\ \E age \in Ages : ~ Holds(w, worker[w].task, age)
  /\ Ack(w)
  /\ owner' = Orphan(w, owner)
  /\ UNCHANGED <<status, lease, attempts, budget, recoverAt, quiet, result,
                 outbox, keys, relay, phase>>

WorkerCrash(w) ==
  /\ worker[w] # NoRun
  /\ worker' = [worker EXCEPT ![w] = NoRun]
  /\ owner' = Orphan(w, owner)
  /\ UNCHANGED <<status, lease, attempts, budget, recoverAt, quiet, result,
                 outbox, keys, queue, relay, phase>>

-----------------------------------------------------------------------------
(* Redis, the recovery scanner and the user.                               *)

RedisLoss ==
  /\ queue # {}
  /\ queue' = {}
  /\ UNCHANGED <<taskVars, outbox, keys, relay, worker, phase>>

\* Variants: a QUEUED row is suspect at once; a RUNNING one never is.
SuspectAtOnce(t) ==
  \/ status[t] = "retry_scheduled" /\ recoverAt[t] = 0
  \/ status[t] = "queued"
  \/ status[t] = "running" /\ Expired(t, 0)
SuspectUnlessRunning(t) ==
  \/ status[t] = "retry_scheduled" /\ recoverAt[t] = 0
  \/ status[t] = "queued" /\ quiet[t] = 0

\* The rows recover_due selects for an active user.
Suspect(t) ==
  \/ status[t] = "retry_scheduled" /\ recoverAt[t] = 0
  \/ status[t] = "queued" /\ quiet[t] = 0
  \/ status[t] = "running" /\ Expired(t, 0)

Due == {t \in Tasks : outbox[t] = {} /\ Suspect(t)}

RecoveryKey(t) ==
  IF status[t] = "retry_scheduled" THEN RetryRecoveryKey ELSE BucketKey

\* One transaction for the whole batch: a key that is already taken makes
\* the flush raise and rolls every row of the batch back.
Recover ==
  /\ Due # {}
  /\ \A t \in Due : RecoveryKey(t) \notin keys[t]
  /\ status' = [t \in Tasks |-> IF t \in Due THEN "queued" ELSE status[t]]
  /\ owner' = [t \in Tasks |-> IF t \in Due THEN Null ELSE owner[t]]
  /\ lease' = [t \in Tasks |-> IF t \in Due THEN Null ELSE lease[t]]
  /\ recoverAt' = [t \in Tasks |-> IF t \in Due THEN Null ELSE recoverAt[t]]
  /\ quiet' = [t \in Tasks |-> IF t \in Due THEN StaleQueued ELSE quiet[t]]
  /\ outbox' = [t \in Tasks |->
       IF t \in Due THEN {NewRow(RecoveryKey(t), 0)} ELSE outbox[t]]
  /\ keys' = [t \in Tasks |->
       keys[t] \cup (IF t \in Due THEN {RecoveryKey(t)} \ {RetryRecoveryKey}
                                  ELSE {})]
  /\ UNCHANGED <<attempts, budget, result, queue, relay, worker, phase>>

\* cancel: legal from every state that is not terminal, unless the running
\* task has published its result.  Its Outbox rows stay.
Cancel(t) ==
  /\ status[t] \notin Terminal
  /\ ~ (status[t] = "running" /\ result[t])
  /\ status' = [status EXCEPT ![t] = "cancelled"]
  /\ owner' = [owner EXCEPT ![t] = Null]
  /\ lease' = [lease EXCEPT ![t] = Null]
  /\ UNCHANGED <<attempts, budget, recoverAt, quiet, result, outbox, keys,
                 queue, relay, worker, phase>>

-----------------------------------------------------------------------------
RelayStep(r) ==
  \/ \E t \in Tasks : Claim(r, t)
  \/ Enqueue(r)
  \/ EnqueueError(r)
  \/ MarkPublished(r)
  \/ MarkFailed(r)
  \/ RelayCrash(r)

WorkerStep(w) ==
  \/ \E t \in Tasks : Receive(w, t)
  \/ PrepareRetry(w)
  \/ Acquire(w)
  \/ NotAcquired(w)
  \/ DatabaseError(w)
  \/ AcquireAnswerLost(w)
  \/ FailInternal(w)
  \/ CommitResult(w)
  \/ Renew(w)
  \/ LeaseLost(w)
  \/ StepsEnd(w)
  \/ Finish(w)
  \/ ScheduleRetry(w)
  \/ EndRefused(w)
  \/ WorkerCrash(w)

Next ==
  \/ Tick
  \/ \E r \in Relays : RelayStep(r)
  \/ \E w \in Workers : WorkerStep(w)
  \/ RedisLoss
  \/ Recover
  \/ \E t \in Tasks : Cancel(t)

Spec == Init /\ [][Next]_vars

-----------------------------------------------------------------------------
(* Safety.                                                                 *)

\* Type invariant of the rows, the Outbox, the stream and the processes.
TypeOK ==
  /\ status \in [Tasks -> Statuses]
  /\ owner \in [Tasks -> Workers \cup {Null, Gone}]
  /\ lease \in [Tasks -> Leases \cup {Null}]
  /\ attempts \in [Tasks -> Attempts]
  /\ budget \in [Tasks -> 0..TaskTimeout]
  /\ recoverAt \in [Tasks -> 0..RetryRecovery \cup {Null}]
  /\ quiet \in [Tasks -> 0..StaleQueued]
  /\ result \in [Tasks -> BOOLEAN]
  /\ outbox \in [Tasks -> SUBSET Row]
  /\ keys \in [Tasks -> SUBSET Key]
  /\ queue \in SUBSET Tasks
  /\ relay \in [Relays -> Claims]
  /\ worker \in [Workers -> Runs]
  /\ phase \in 0..(Bucket - 1)

\* Redis holds nothing that PostgreSQL cannot rebuild: whatever messages,
\* claims and runs are lost, every unfinished row has a fact of its own from
\* which the relay or the recovery scanner will deliver it again.
Recoverable ==
  \A t \in Tasks :
    /\ status[t] = "created" => \E row \in outbox[t] : row.key = InitialKey
    /\ status[t] = "queued" => lease[t] = Null
    /\ status[t] = "running" => lease[t] # Null
    /\ status[t] = "retry_scheduled" => outbox[t] # {} \/ recoverAt[t] # Null

\* A task that ended stays as it ended, whatever late messages, late relay
\* confirmations, overtaken runs or recovery scans follow.
TerminalFrozen ==
  [][\A t \in Tasks : status[t] \in Terminal =>
       /\ status'[t] = status[t]
       /\ lease'[t] = Null
       /\ owner'[t] = Null]_vars

\* A run that was overtaken (the row counts a later attempt) changes nothing
\* about the task any more: neither its status nor its lease, and no message of its own.
OvertakenRunsAreFenced ==
  [][\A w \in Workers : \A t \in Tasks :
       (/\ worker[w].pc \in {"running", "ending"}
        /\ worker[w].task = t
        /\ worker[w].attempt < attempts[t]
        /\ worker'[w] # worker[w])
       => /\ status'[t] = status[t]
          /\ lease'[t] = lease[t]
          /\ outbox'[t] = outbox[t]]_vars

\* Of a task whose commit checks its row, only the newest attempt publishes a result,
\* and only while the task runs under its lease.
ResultByNewestAttempt ==
  [][\A t \in Tasks \ UnguardedTasks : result'[t] # result[t] =>
       /\ status[t] = "running"
       /\ \E w \in Workers : /\ owner[t] = w
                             /\ worker[w].pc = "running"
                             /\ worker[w].task = t
                             /\ worker[w].attempt = attempts[t]]_vars

\* What the engine promises, with nothing left of leases, clocks and messages: an
\* owner whose run has ended speaks for nobody.
StageOf(x) == IF x = "running" THEN "held" ELSE IF x \in Terminal THEN x ELSE "waiting"
SpeakerOf(x) == IF x = Gone THEN Null ELSE x
WordOf(x) == IF x.pc \in {"running", "ending"} THEN x.verdict ELSE "silent"

Stage == [t \in Tasks |-> StageOf(status[t])]
Speaker == [t \in Tasks |-> SpeakerOf(owner[t])]
Word == [w \in Workers |-> WordOf(worker[w])]

Safe == INSTANCE SafeTask WITH
  None <- Null, stage <- Stage, speaker <- Speaker, word <- Word

\* Of all the runs that leases, recoveries and lost answers start for a task, only the
\* one that took it last stores its result and says how it ends, and the end stands.
ImplementsSafeTask == Safe!Spec

-----------------------------------------------------------------------------
(* Progress.  The cron jobs keep running and time passes; Redis is not     *)
(* down for ever, and neither are workers always killed, or always slower  *)
(* than their lease, at the same point: what is tried again and again      *)
(* succeeds at last.                                                       *)
Fairness ==
  /\ WF_vars(Tick)
  /\ WF_vars(Recover)
  /\ \A r \in Relays :
       /\ WF_vars(\E t \in Tasks : Claim(r, t))
       /\ SF_vars(Enqueue(r))
       /\ SF_vars(MarkPublished(r) /\ Claimed(r) # {})
       /\ WF_vars(MarkPublished(r) \/ MarkFailed(r))
  /\ \A w \in Workers :
       /\ \A t \in Tasks : SF_vars(Receive(w, t))
       /\ SF_vars(PrepareRetry(w))
       /\ SF_vars(Acquire(w))
       /\ WF_vars(NotAcquired(w))
       /\ WF_vars(FailInternal(w))
       /\ WF_vars(StepsEnd(w))
       /\ SF_vars(Finish(w) \/ ScheduleRetry(w))
       /\ WF_vars(EndRefused(w))

\* Every task ends, whatever is lost, crashes or comes late on the way.
Settles == \A t \in Tasks : <>(status[t] \in Terminal)
=============================================================================
