------------------------ MODULE DurableTasks_proofs ------------------------
(***************************************************************************)
(* What holds of the durable task engine for every number of tasks,        *)
(* workers and relays and every value of its times.                        *)
(***************************************************************************)
EXTENDS MCTasks, SequenceTheorems, TLAPS

LEMMA NoRunType == NoRun \in Runs
  BY DEF NoRun, Runs

LEMMA NoClaimType == NoClaim \in Claims
  BY DEF NoClaim, Claims

LEMMA MaxAvailBounds ==
  /\ MaxAvail \in Nat
  /\ ClaimTime <= MaxAvail /\ RelayBackoff <= MaxAvail /\ RetryDelay <= MaxAvail
  BY TimesAssumption DEF MaxAvail

LEMMA KeyTypes ==
  /\ InitialKey \in Key /\ BucketKey \in Key /\ RetryRecoveryKey \in Key
  /\ \A n \in Attempts : RetryKey(n) \in Key
  BY TimesAssumption DEF Key, InitialKey, BucketKey, RetryRecoveryKey, RetryKey, Attempts

LEMMA RowType ==
  ASSUME NEW key \in Key, NEW delay \in 0..MaxAvail
  PROVE  /\ NewRow(key, delay) \in Row
         /\ \A r \in Relays \cup {Null} : RowOf(key, delay, r) \in Row
  BY DEF NewRow, RowOf, Row

LEMMA RunningTask ==
  ASSUME TypeOK, NEW w \in Workers, worker[w] # NoRun
  PROVE  worker[w].task \in Tasks
  BY DEF TypeOK, Runs

LEMMA ClaimedTask ==
  ASSUME TypeOK, NEW r \in Relays, relay[r] # NoClaim
  PROVE  relay[r].task \in Tasks /\ relay[r].key \in Key
  BY DEF TypeOK, Claims

LEMMA AckType ==
  ASSUME TypeOK, NEW w \in Workers, worker[w] # NoRun, Ack(w)
  PROVE  worker' \in [Workers -> Runs] /\ queue' \in SUBSET Tasks
  BY NoRunType DEF TypeOK, Ack

LEMMA OrphanType ==
  ASSUME TypeOK, NEW w \in Workers
  PROVE  Orphan(w, owner) \in [Tasks -> Workers \cup {Null, Gone}]
  BY DEF TypeOK, Orphan

-----------------------------------------------------------------------------
(* Type correctness.                                                       *)

\* The initial rows, Outbox, stream and processes have their types.
LEMMA InitType == Init => TypeOK
<1> SUFFICES ASSUME Init PROVE TypeOK
  OBVIOUS
<1>1. NewRow(InitialKey, 0) \in Row
  BY RowType, KeyTypes, MaxAvailBounds
<1> QED
  BY <1>1, TimesAssumption, NoRunType, NoClaimType, KeyTypes
  DEF Init, TypeOK, Statuses, Attempts

LEMMA TickType == TypeOK /\ Tick => TypeOK'
<1> SUFFICES ASSUME TypeOK, Tick PROVE TypeOK'
  OBVIOUS
<1>1. \A n \in Nat : \A d \in 0..n : Down(d) \in 0..n
  BY DEF Down
<1>2. lease' \in [Tasks -> Leases \cup {Null}]
  <2>1. \A d \in Leases : d # 0 - MaxAge => d - 1 \in Leases
    BY TimesAssumption DEF Leases
  <2> QED
    BY <2>1 DEF TypeOK, Tick
<1>3. budget' \in [Tasks -> 0..TaskTimeout]
  BY <1>1, TimesAssumption DEF TypeOK, Tick
<1>4. recoverAt' \in [Tasks -> 0..RetryRecovery \cup {Null}]
  BY <1>1, TimesAssumption, ProcessesAssumption DEF TypeOK, Tick
<1>5. quiet' \in [Tasks -> 0..StaleQueued]
  BY <1>1, TimesAssumption DEF TypeOK, Tick
<1>6. outbox' \in [Tasks -> SUBSET Row]
  <2>1. ASSUME NEW row \in Row
        PROVE  RowOf(row.key, Down(row.avail), row.by) \in Row
    BY <1>1, RowType, MaxAvailBounds DEF Row
  <2> QED
    BY <2>1 DEF TypeOK, Tick
<1>7. phase' \in 0..(Bucket - 1)
  BY TimesAssumption DEF TypeOK, Tick
<1>8. keys' \in [Tasks -> SUBSET Key]
  BY DEF TypeOK, Tick
<1> QED
  BY <1>2, <1>3, <1>4, <1>5, <1>6, <1>7, <1>8 DEF TypeOK, Tick

LEMMA RelayType ==
  ASSUME TypeOK, NEW r \in Relays, RelayStep(r)
  PROVE  TypeOK'
<1>1. ASSUME NEW t \in Tasks, Claim(r, t) PROVE TypeOK'
  <2>1. outbox' \in [Tasks -> SUBSET Row]
    <3>1. PICK row \in outbox[t] :
            outbox' = [outbox EXCEPT ![t] =
                         (@ \ {row}) \cup {RowOf(row.key, ClaimTime, r)}]
      BY <1>1 DEF Claim
    <3>2. row.key \in Key
      BY DEF TypeOK, Row
    <3>3. RowOf(row.key, ClaimTime, r) \in Row
      BY <3>2, RowType, MaxAvailBounds, TimesAssumption
    <3> QED
      BY <3>1, <3>3 DEF TypeOK
  <2>2. relay' \in [Relays -> Claims]
    BY <1>1 DEF TypeOK, Claim, Claims, Row
  <2>3. status' \in [Tasks -> Statuses] /\ quiet' \in [Tasks -> 0..StaleQueued]
    BY <1>1, TimesAssumption DEF TypeOK, Claim, Statuses
  <2> QED
    BY <1>1, <2>1, <2>2, <2>3 DEF TypeOK, Claim
<1>2. CASE Enqueue(r)
  BY <1>2, ClaimedTask DEF TypeOK, Enqueue, taskVars, Claims, NoClaim
<1>3. CASE EnqueueError(r)
  BY <1>3, ClaimedTask DEF TypeOK, EnqueueError, taskVars, Claims, NoClaim
<1>4. CASE MarkPublished(r)
  <2>1. relay[r].task \in Tasks
    BY <1>4, ClaimedTask DEF MarkPublished, NoClaim
  <2>2. outbox' \in [Tasks -> SUBSET Row]
    BY <1>4, <2>1 DEF TypeOK, MarkPublished
  <2>3. recoverAt' \in [Tasks -> 0..RetryRecovery \cup {Null}]
    BY <1>4, <2>1, TimesAssumption DEF TypeOK, MarkPublished
  <2>4. relay' \in [Relays -> Claims]
    BY <1>4, NoClaimType DEF TypeOK, MarkPublished
  <2> QED
    BY <1>4, <2>2, <2>3, <2>4 DEF TypeOK, MarkPublished
<1>5. CASE MarkFailed(r)
  <2>1. relay[r].task \in Tasks
    BY <1>5, ClaimedTask DEF MarkFailed, NoClaim
  <2>2. {NewRow(row.key, RelayBackoff) : row \in Claimed(r)} \in SUBSET Row
    BY <2>1, RowType, MaxAvailBounds, TimesAssumption DEF TypeOK, Claimed, Row
  <2>3. outbox' \in [Tasks -> SUBSET Row]
    BY <1>5, <2>1, <2>2 DEF TypeOK, MarkFailed
  <2>4. relay' \in [Relays -> Claims]
    BY <1>5, NoClaimType DEF TypeOK, MarkFailed
  <2> QED
    BY <1>5, <2>3, <2>4 DEF TypeOK, MarkFailed, taskVars
<1>6. CASE RelayCrash(r)
  BY <1>6, NoClaimType DEF TypeOK, RelayCrash, taskVars
<1> QED
  BY <1>1, <1>2, <1>3, <1>4, <1>5, <1>6 DEF RelayStep

-----------------------------------------------------------------------------
LEMMA LeaseType ==
  ASSUME TypeOK, NEW w \in Workers, NEW t \in Tasks, NEW age \in Ages,
         Lease(w, t, age)
  PROVE  /\ status' \in [Tasks -> Statuses]
         /\ owner' \in [Tasks -> Workers \cup {Null, Gone}]
         /\ lease' \in [Tasks -> Leases \cup {Null}]
         /\ attempts' \in [Tasks -> Attempts]
         /\ quiet' \in [Tasks -> 0..StaleQueued]
<1>1. LeaseTime - age \in Leases
  BY TimesAssumption DEF Ages, Leases
<1>2. NextAttempt(t) \in Attempts
  BY TimesAssumption DEF TypeOK, NextAttempt, Attempts
<1>3. attempts' \in [Tasks -> Attempts]
  BY <1>2 DEF TypeOK, Lease
<1>4. lease' \in [Tasks -> Leases \cup {Null}]
  BY <1>1 DEF TypeOK, Lease
<1> QED
  BY <1>3, <1>4, TimesAssumption DEF TypeOK, Lease, Statuses

LEMMA WorkerType ==
  ASSUME TypeOK, NEW w \in Workers, WorkerStep(w)
  PROVE  TypeOK'
<1> USE DEF vars, taskVars
<1>1. ASSUME NEW t \in Tasks, Receive(w, t) PROVE TypeOK'
  BY <1>1, TimesAssumption DEF TypeOK, Receive, Runs, Verdicts, Attempts
<1>2. CASE PrepareRetry(w)
  <2>1. worker[w].task \in Tasks
    BY <1>2, RunningTask DEF PrepareRetry, NoRun
  <2>2. worker' \in [Workers -> Runs]
    BY <1>2, <2>1 DEF TypeOK, PrepareRetry, Runs, NoRun
  <2>3. quiet' \in [Tasks -> 0..StaleQueued]
    BY <1>2, <2>1, TimesAssumption DEF TypeOK, PrepareRetry
  <2> QED
    BY <1>2, <2>1, <2>2, <2>3 DEF TypeOK, PrepareRetry, Statuses
<1>3. CASE Acquire(w)
  <2>1. worker[w].task \in Tasks
    BY <1>3, RunningTask DEF Acquire, NoRun
  <2>2. PICK age \in Ages : Lease(w, worker[w].task, age)
    BY <1>3 DEF Acquire
  <2>3. worker' \in [Workers -> Runs]
    BY <1>3, <2>1, <2>2, LeaseType DEF TypeOK, Acquire, Runs, Verdicts
  <2> QED
    BY <2>1, <2>2, <2>3, LeaseType DEF TypeOK, Lease
<1>4. CASE NotAcquired(w)
  <2>1. worker[w] # NoRun
    BY <1>4 DEF NotAcquired, NoRun
  <2> QED
    BY <1>4, <2>1, AckType DEF TypeOK, NotAcquired
<1>5. CASE DatabaseError(w)
  <2>1. worker[w].task \in Tasks
    BY <1>5, RunningTask DEF DatabaseError, NoRun
  <2> QED
    BY <1>5, <2>1 DEF TypeOK, DatabaseError, Runs, NoRun
<1>6. CASE AcquireAnswerLost(w)
  <2>1. worker[w].task \in Tasks
    BY <1>6, RunningTask DEF AcquireAnswerLost, NoRun
  <2>2. PICK age \in Ages : Lease(w, worker[w].task, age)
    BY <1>6 DEF AcquireAnswerLost
  <2>3. worker' \in [Workers -> Runs]
    BY <1>6, <2>1 DEF TypeOK, AcquireAnswerLost, Runs, NoRun
  <2> QED
    BY <2>1, <2>2, <2>3, LeaseType DEF TypeOK, Lease
<1>7. CASE FailInternal(w)
  <2>1. worker[w] # NoRun
    BY <1>7 DEF FailInternal, NoRun
  <2>2. worker[w].task \in Tasks
    BY <2>1, RunningTask
  <2>3. status' \in [Tasks -> Statuses] /\ lease' \in [Tasks -> Leases \cup {Null}]
    BY <1>7, <2>2 DEF TypeOK, FailInternal, Statuses
  <2>4. owner' \in [Tasks -> Workers \cup {Null, Gone}]
    BY <1>7, <2>2, OrphanType DEF TypeOK, FailInternal
  <2> QED
    BY <1>7, <2>1, <2>3, <2>4, AckType DEF TypeOK, FailInternal
<1>8. CASE CommitResult(w)
  <2>1. worker[w].task \in Tasks
    BY <1>8, RunningTask DEF CommitResult, NoRun
  <2>2. worker' \in [Workers -> Runs]
    BY <1>8, <2>1 DEF TypeOK, CommitResult, Runs, NoRun, Verdicts
  <2> QED
    BY <1>8, <2>1, <2>2 DEF TypeOK, CommitResult
<1>9. CASE Renew(w)
  <2>1. worker[w].task \in Tasks
    BY <1>9, RunningTask DEF Renew, NoRun
  <2>2. \A age \in Ages : RenewedLease(worker[w].task, age) \in Leases
    BY TimesAssumption DEF RenewedLease, Ages, Leases
  <2> QED
    BY <1>9, <2>1, <2>2 DEF TypeOK, Renew
<1>10. CASE LeaseLost(w)
  <2>1. worker[w] # NoRun
    BY <1>10 DEF LeaseLost, NoRun
  <2> QED
    BY <1>10, <2>1, AckType, OrphanType DEF TypeOK, LeaseLost
<1>11. CASE StepsEnd(w)
  <2>1. PICK v \in Verdicts :
          worker' = [worker EXCEPT ![w].pc = "ending", ![w].verdict = v]
    BY <1>11 DEF StepsEnd
  <2>2. worker[w] \in [pc : {"received", "prepared", "erring", "running", "ending"},
                      task : Tasks, attempt : Attempts, verdict : Verdicts]
    BY <1>11 DEF TypeOK, StepsEnd, Runs, NoRun
  <2>3. worker' \in [Workers -> Runs]
    BY <2>1, <2>2 DEF TypeOK, Runs
  <2> QED
    BY <1>11, <2>3 DEF TypeOK, StepsEnd
<1>13. CASE Finish(w)
  <2>1. worker[w] # NoRun
    BY <1>13 DEF Finish, NoRun
  <2>2. worker[w].task \in Tasks
    BY <2>1, RunningTask
  <2>3. status' \in [Tasks -> Statuses]
    BY <1>13, <2>2 DEF TypeOK, Finish, Statuses
  <2> QED
    BY <1>13, <2>1, <2>2, <2>3, AckType DEF TypeOK, Finish
<1>14. CASE ScheduleRetry(w)
  <2>1. worker[w] # NoRun
    BY <1>14 DEF ScheduleRetry, NoRun
  <2>2. worker[w].task \in Tasks /\ worker[w].attempt \in Attempts
    BY <2>1 DEF TypeOK, Runs
  <2>3. RetryKey(worker[w].attempt) \in Key
    BY <2>2, KeyTypes
  <2>4. \A delay \in 1..RetryDelay :
          NewRow(RetryKey(worker[w].attempt), delay) \in Row
    BY <2>3, RowType, MaxAvailBounds, TimesAssumption
  <2>5. outbox' \in [Tasks -> SUBSET Row]
    BY <1>14, <2>2, <2>4 DEF TypeOK, ScheduleRetry
  <2>6. keys' \in [Tasks -> SUBSET Key]
    BY <1>14, <2>2, <2>3 DEF TypeOK, ScheduleRetry
  <2>7. status' \in [Tasks -> Statuses]
    BY <1>14, <2>2 DEF TypeOK, ScheduleRetry, Statuses
  <2> QED
    BY <1>14, <2>1, <2>2, <2>5, <2>6, <2>7, AckType DEF TypeOK, ScheduleRetry
<1>15. CASE EndRefused(w)
  <2>1. worker[w] # NoRun
    BY <1>15 DEF EndRefused, NoRun
  <2> QED
    BY <1>15, <2>1, AckType, OrphanType DEF TypeOK, EndRefused
<1>16. CASE WorkerCrash(w)
  BY <1>16, NoRunType, OrphanType DEF TypeOK, WorkerCrash
<1> QED
  BY <1>1, <1>2, <1>3, <1>4, <1>5, <1>6, <1>7, <1>8, <1>9, <1>10, <1>11,
     <1>13, <1>14, <1>15, <1>16 DEF WorkerStep

\* The stream's loss, the recovery scanner and the user.
LEMMA RestType ==
  ASSUME TypeOK,
         \/ RedisLoss
         \/ Recover
         \/ \E t \in Tasks : Cancel(t)
         \/ UNCHANGED vars
  PROVE  TypeOK'
<1>1. CASE RedisLoss
  BY <1>1 DEF TypeOK, RedisLoss, taskVars
<1>2. CASE Recover
  <2>1. \A t \in Tasks : RecoveryKey(t) \in Key
    BY KeyTypes DEF RecoveryKey
  <2>2. \A t \in Tasks : NewRow(RecoveryKey(t), 0) \in Row
    BY <2>1, RowType, MaxAvailBounds
  <2>3. outbox' \in [Tasks -> SUBSET Row] /\ keys' \in [Tasks -> SUBSET Key]
    BY <1>2, <2>1, <2>2 DEF TypeOK, Recover
  <2>4. quiet' \in [Tasks -> 0..StaleQueued]
    BY <1>2, TimesAssumption DEF TypeOK, Recover
  <2> QED
    BY <1>2, <2>3, <2>4 DEF TypeOK, Recover, Statuses
<1>3. ASSUME NEW t \in Tasks, Cancel(t) PROVE TypeOK'
  BY <1>3 DEF TypeOK, Cancel, Statuses
<1>4. CASE UNCHANGED vars
  BY <1>4 DEF TypeOK, vars, taskVars
<1> QED
  BY <1>1, <1>2, <1>3, <1>4

\* No action of a relay, a worker, the scanner or the user ever stores a
\* value outside its column's type.
THEOREM TypeCorrect == Spec => []TypeOK
<1>1. Init => TypeOK
  BY InitType
<1>2. TypeOK /\ [Next]_vars => TypeOK'
  BY TickType, RelayType, WorkerType, RestType DEF Next
<1> QED
  BY <1>1, <1>2, PTL DEF Spec

-----------------------------------------------------------------------------
(* Finality.  A row that ended carries no lease, so no conditional update   *)
(* and no recovery scan selects it, and no departing run owns it.           *)

Ended == \A t \in Tasks :
           status[t] \in Terminal => owner[t] = Null /\ lease[t] = Null

Frozen == \A t \in Tasks :
            status[t] \in Terminal => /\ status'[t] = status[t]
                                      /\ lease'[t] = Null
                                      /\ owner'[t] = Null

LEMMA FrozenByRelay ==
  ASSUME TypeOK, Ended, NEW r \in Relays, RelayStep(r)
  PROVE  Frozen /\ Ended'
<1> USE DEF Ended, Frozen, Terminal
<1>1. ASSUME NEW t \in Tasks, Claim(r, t) PROVE Frozen /\ Ended'
  BY <1>1 DEF TypeOK, Claim
<1>2. CASE Enqueue(r) \/ EnqueueError(r) \/ MarkFailed(r) \/ RelayCrash(r)
  BY <1>2 DEF Enqueue, EnqueueError, MarkFailed, RelayCrash, taskVars
<1>3. CASE MarkPublished(r)
  BY <1>3 DEF MarkPublished
<1> QED
  BY <1>1, <1>2, <1>3 DEF RelayStep

LEMMA FrozenByWorker ==
  ASSUME TypeOK, Ended, NEW w \in Workers, WorkerStep(w)
  PROVE  Frozen /\ Ended'
<1> USE DEF Ended, Frozen, Terminal
<1>1. Null # w
  BY ProcessesAssumption
<1>2. \A t \in Tasks : status[t] \in Terminal => Orphan(w, owner)[t] = Null
  BY <1>1 DEF Orphan
<1>3. \A t \in Tasks : \A age \in Ages :
        status[t] \in Terminal => ~ Acquirable(t, age) /\ ~ Holds(w, t, age)
  BY DEF Acquirable, Holds
<1>4. worker[w] # NoRun => worker[w].task \in Tasks
  BY RunningTask
<1>5. ASSUME NEW t \in Tasks, Receive(w, t) PROVE Frozen /\ Ended'
  BY <1>5 DEF Receive, taskVars
<1>6. CASE PrepareRetry(w)
  BY <1>6 DEF TypeOK, PrepareRetry, RetryDue
<1>7. CASE Acquire(w) \/ AcquireAnswerLost(w)
  <2>1. worker[w] # NoRun
    BY <1>7 DEF Acquire, AcquireAnswerLost, NoRun
  <2>2. PICK age \in Ages : Lease(w, worker[w].task, age)
    BY <1>7 DEF Acquire, AcquireAnswerLost
  <2>3. status[worker[w].task] \notin Terminal
    BY <2>1, <2>2, <1>3, <1>4 DEF Lease
  <2> QED
    BY <2>1, <2>2, <2>3, <1>4 DEF TypeOK, Lease
<1>8. CASE NotAcquired(w) \/ DatabaseError(w) \/ CommitResult(w) \/ StepsEnd(w)
  BY <1>8 DEF NotAcquired, DatabaseError, CommitResult, StepsEnd, taskVars
<1>9. CASE FailInternal(w)
  <2>1. worker[w] # NoRun
    BY <1>9 DEF FailInternal, NoRun
  <2> QED
    BY <1>9, <2>1, <1>2, <1>3, <1>4 DEF TypeOK, FailInternal
<1>10. CASE Renew(w)
  <2>1. worker[w] # NoRun
    BY <1>10 DEF Renew, NoRun
  <2> QED
    BY <1>10, <2>1, <1>3, <1>4 DEF TypeOK, Renew
<1>11. CASE LeaseLost(w) \/ EndRefused(w) \/ WorkerCrash(w)
  BY <1>11, <1>2 DEF LeaseLost, EndRefused, WorkerCrash
<1>13. CASE Finish(w)
  <2>1. worker[w] # NoRun
    BY <1>13 DEF Finish, NoRun
  <2>2. status[worker[w].task] \notin Terminal
    BY <1>13, <2>1, <1>3, <1>4 DEF Finish
  <2> QED
    BY <1>13, <2>1, <2>2, <1>4 DEF TypeOK, Finish
<1>14. CASE ScheduleRetry(w)
  <2>1. worker[w] # NoRun
    BY <1>14 DEF ScheduleRetry, NoRun
  <2>2. status[worker[w].task] \notin Terminal
    BY <1>14, <2>1, <1>3, <1>4 DEF ScheduleRetry
  <2> QED
    BY <1>14, <2>1, <2>2, <1>4 DEF TypeOK, ScheduleRetry
<1> QED
  BY <1>5, <1>6, <1>7, <1>8, <1>9, <1>10, <1>11, <1>13, <1>14
  DEF WorkerStep

LEMMA FrozenByRest ==
  ASSUME TypeOK, Ended,
         \/ Tick
         \/ RedisLoss
         \/ Recover
         \/ \E t \in Tasks : Cancel(t)
         \/ UNCHANGED vars
  PROVE  Frozen /\ Ended'
<1> USE DEF Ended, Frozen, Terminal
<1>1. CASE Tick
  BY <1>1 DEF TypeOK, Tick
<1>2. CASE RedisLoss \/ UNCHANGED vars
  BY <1>2 DEF RedisLoss, vars, taskVars
<1>3. CASE Recover
  BY <1>3 DEF TypeOK, Recover, Due, Suspect
<1>4. ASSUME NEW t \in Tasks, Cancel(t) PROVE Frozen /\ Ended'
  BY <1>4 DEF TypeOK, Cancel
<1> QED
  BY <1>1, <1>2, <1>3, <1>4

\* A task that ended stays as it ended, for any number of overtaken runs,
\* late confirmations, duplicated messages and recovery scans.
THEOREM FinalityHolds == Spec => TerminalFrozen
<1>1. Init => Ended
  BY DEF Init, Ended
<1>2. TypeOK /\ Ended /\ [Next]_vars => Frozen /\ Ended'
  BY FrozenByRelay, FrozenByWorker, FrozenByRest DEF Next
<1>3. Frozen => \A t \in Tasks : status[t] \in Terminal =>
                  /\ status'[t] = status[t]
                  /\ lease'[t] = Null
                  /\ owner'[t] = Null
  BY DEF Frozen
<1> QED
  BY <1>1, <1>2, <1>3, TypeCorrect, PTL DEF Spec, TerminalFrozen

-----------------------------------------------------------------------------
(* Recovery.  Recoverable is not inductive by itself: a relay that confirms *)
(* a row must not confirm the first row of a CREATED task, and a row that   *)
(* leaves the Outbox of a scheduled retry must leave its recovery instant   *)
(* behind unless the retry row itself is still there.                       *)

RetryRowOrInstant(t) ==
  \/ \E row \in outbox[t] : row.key.kind = "retry"
  \/ recoverAt[t] # Null

RInv ==
  /\ \A t \in Tasks :
       /\ status[t] = "created" => /\ lease[t] = Null
                                   /\ \E row \in outbox[t] : row.key = InitialKey
       /\ status[t] = "queued" => lease[t] = Null
       /\ status[t] = "running" => lease[t] # Null
       /\ status[t] = "retry_scheduled" => RetryRowOrInstant(t)
  /\ \A r \in Relays : relay[r] # NoClaim => status[relay[r].task] # "created"

LEMMA InstantsAreNotNull == \A i \in Int : i # Null
  BY ProcessesAssumption

LEMMA RInvByRelay ==
  ASSUME TypeOK, RInv, NEW r \in Relays, RelayStep(r)
  PROVE  RInv'
<1> USE DEF RInv, RetryRowOrInstant
<1>1. relay[r] # NoClaim => relay[r].task \in Tasks
  BY ClaimedTask
<1>2. ASSUME NEW t \in Tasks, Claim(r, t) PROVE RInv'
  <2>1. PICK row \in outbox[t] :
          outbox' = [outbox EXCEPT ![t] =
                       (@ \ {row}) \cup {RowOf(row.key, ClaimTime, r)}]
    BY <1>2 DEF Claim
  <2>2. RowOf(row.key, ClaimTime, r).key = row.key
    BY DEF RowOf
  <2>3. /\ status'[t] # "created"
        /\ \A u \in Tasks : u # t => status'[u] = status[u]
    BY <1>2 DEF TypeOK, Claim
  <2>4. \A s \in Relays : relay'[s] # NoClaim => status'[relay'[s].task] # "created"
    BY <1>2, <2>3, ClaimedTask DEF TypeOK, Claim
  <2>5. \A u \in Tasks : status'[u] = "queued" => lease'[u] = Null
    BY <1>2 DEF TypeOK, Claim
  <2>6. \A u \in Tasks : status'[u] = "running" => lease'[u] # Null
    BY <1>2 DEF TypeOK, Claim
  <2>7. \A u \in Tasks : status'[u] = "created" =>
          /\ lease'[u] = Null
          /\ \E other \in outbox'[u] : other.key = InitialKey
    BY <1>2, <2>1, <2>3 DEF TypeOK, Claim
  <2>8. \A u \in Tasks : status'[u] = "retry_scheduled" => RetryRowOrInstant(u)'
    BY <1>2, <2>1, <2>2 DEF TypeOK, Claim
  <2> QED
    BY <2>4, <2>5, <2>6, <2>7, <2>8
<1>3. CASE Enqueue(r)
  <2>1. relay[r] # NoClaim
    BY <1>3 DEF Enqueue, NoClaim
  <2>2. \A s \in Relays : relay'[s] # NoClaim =>
          relay[s] # NoClaim /\ relay'[s].task = relay[s].task
    BY <1>3, <2>1 DEF TypeOK, Enqueue
  <2> QED
    BY <1>3, <2>2 DEF Enqueue, taskVars
<1>4. CASE EnqueueError(r)
  <2>1. relay[r] # NoClaim
    BY <1>4 DEF EnqueueError, NoClaim
  <2>2. \A s \in Relays : relay'[s] # NoClaim =>
          relay[s] # NoClaim /\ relay'[s].task = relay[s].task
    BY <1>4, <2>1 DEF TypeOK, EnqueueError
  <2> QED
    BY <1>4, <2>2 DEF EnqueueError, taskVars
<1>5. CASE MarkPublished(r)
  <2>1. relay[r] # NoClaim
    BY <1>5 DEF MarkPublished, NoClaim
  <2>2. PICK t \in Tasks : t = relay[r].task /\ status[t] # "created"
    BY <2>1, <1>1
  <2>3. \A s \in Relays : relay'[s] # NoClaim => relay'[s] = relay[s]
    BY <1>5 DEF TypeOK, MarkPublished
  <2>4. \A u \in Tasks : u # t => outbox'[u] = outbox[u] /\ recoverAt'[u] = recoverAt[u]
    BY <1>5, <2>2 DEF TypeOK, MarkPublished
  <2>5. status[t] = "retry_scheduled" => RetryRowOrInstant(t)'
    <3>1. CASE HandsOverRetry(r)
      BY <1>5, <2>2, <3>1, TimesAssumption, InstantsAreNotNull
      DEF TypeOK, MarkPublished
    <3>2. CASE ~ HandsOverRetry(r)
      <4>1. SUFFICES ASSUME status[t] = "retry_scheduled" PROVE RetryRowOrInstant(t)'
        OBVIOUS
      <4>2. \A row \in Claimed(r) : row.key.kind # "retry"
        BY <2>2, <3>2, <4>1 DEF HandsOverRetry, Claimed
      <4>3. recoverAt' = recoverAt /\ outbox'[t] = outbox[t] \ Claimed(r)
        BY <1>5, <2>2, <3>2 DEF TypeOK, MarkPublished
      <4>4. RetryRowOrInstant(t)
        BY <2>2, <4>1
      <4>5. \A row \in outbox[t] : row.key.kind = "retry" => row \in outbox'[t]
        BY <4>2, <4>3
      <4> QED
        BY <4>3, <4>4, <4>5
    <3> QED
      BY <3>1, <3>2
  <2>6. status' = status /\ lease' = lease
    BY <1>5 DEF MarkPublished
  <2> QED
    BY <2>2, <2>3, <2>4, <2>5, <2>6
<1>6. CASE MarkFailed(r)
  <2>1. relay[r] # NoClaim
    BY <1>6 DEF MarkFailed, NoClaim
  <2>2. PICK t \in Tasks : t = relay[r].task
    BY <2>1, <1>1
  <2>3. \A s \in Relays : relay'[s] # NoClaim => relay'[s] = relay[s]
    BY <1>6 DEF TypeOK, MarkFailed
  <2>4. \A row \in outbox[t] : \E other \in outbox'[t] : other.key = row.key
    <3>1. outbox'[t] = (outbox[t] \ Claimed(r))
                         \cup {NewRow(row.key, RelayBackoff) : row \in Claimed(r)}
      BY <1>6, <2>2 DEF TypeOK, MarkFailed
    <3>2. \A row : NewRow(row.key, RelayBackoff).key = row.key
      BY DEF NewRow, RowOf
    <3> QED
      BY <3>1, <3>2
  <2>5. \A u \in Tasks : u # t => outbox'[u] = outbox[u]
    BY <1>6, <2>2 DEF TypeOK, MarkFailed
  <2>6. status' = status /\ lease' = lease /\ recoverAt' = recoverAt
    BY <1>6 DEF MarkFailed, taskVars
  <2>7. \A u \in Tasks : \A row \in outbox[u] :
          \E other \in outbox'[u] : other.key = row.key
    BY <2>4, <2>5
  <2> QED
    BY <2>3, <2>6, <2>7
<1>7. CASE RelayCrash(r)
  <2>1. \A s \in Relays : relay'[s] # NoClaim => relay'[s] = relay[s]
    BY <1>7 DEF TypeOK, RelayCrash
  <2> QED
    BY <1>7, <2>1 DEF RelayCrash, taskVars
<1> QED
  BY <1>2, <1>3, <1>4, <1>5, <1>6, <1>7 DEF RelayStep

LEMMA RInvByWorker ==
  ASSUME TypeOK, RInv, NEW w \in Workers, WorkerStep(w)
  PROVE  RInv'
<1> USE DEF RInv, RetryRowOrInstant
<1>1. worker[w] # NoRun => worker[w].task \in Tasks
  BY RunningTask
<1>2. ASSUME NEW t \in Tasks, Receive(w, t) PROVE RInv'
  BY <1>2 DEF Receive, taskVars
<1>3. CASE PrepareRetry(w)
  <2>1. worker[w] # NoRun
    BY <1>3 DEF PrepareRetry, NoRun
  <2> QED
    BY <1>3, <2>1, <1>1, ClaimedTask DEF TypeOK, PrepareRetry, RetryDue
<1>4. CASE Acquire(w) \/ AcquireAnswerLost(w)
  <2>1. worker[w] # NoRun
    BY <1>4 DEF Acquire, AcquireAnswerLost, NoRun
  <2>2. PICK t \in Tasks, age \in Ages : Lease(w, t, age)
    BY <1>4, <2>1, <1>1 DEF Acquire, AcquireAnswerLost
  <2>3. LeaseTime - age # Null
    BY InstantsAreNotNull, TimesAssumption DEF Ages
  <2>4. relay' = relay
    BY <2>2 DEF Lease
  <2> QED
    BY <2>2, <2>3, <2>4, ClaimedTask DEF TypeOK, Lease
<1>5. CASE NotAcquired(w) \/ DatabaseError(w) \/ CommitResult(w) \/ StepsEnd(w)
  BY <1>5 DEF NotAcquired, DatabaseError, CommitResult, StepsEnd, taskVars
<1>6. CASE FailInternal(w)
  <2>1. worker[w] # NoRun
    BY <1>6 DEF FailInternal, NoRun
  <2> QED
    BY <1>6, <2>1, <1>1, ClaimedTask DEF TypeOK, FailInternal
<1>7. CASE Renew(w)
  <2>1. worker[w] # NoRun
    BY <1>7 DEF Renew, NoRun
  <2>2. \A age \in Ages : RenewedLease(worker[w].task, age) # Null
    BY InstantsAreNotNull, TimesAssumption DEF RenewedLease, Ages
  <2> QED
    BY <1>7, <2>1, <2>2, <1>1 DEF TypeOK, Renew, Holds
<1>8. CASE LeaseLost(w) \/ EndRefused(w) \/ WorkerCrash(w)
  BY <1>8 DEF LeaseLost, EndRefused, WorkerCrash
<1>10. CASE Finish(w)
  <2>1. worker[w] # NoRun
    BY <1>10 DEF Finish, NoRun
  <2> QED
    BY <1>10, <2>1, <1>1, ClaimedTask DEF TypeOK, Finish
<1>11. CASE ScheduleRetry(w)
  <2>1. worker[w] # NoRun
    BY <1>11 DEF ScheduleRetry, NoRun
  <2>2. PICK t \in Tasks : t = worker[w].task
    BY <2>1, <1>1
  <2>3. PICK delay \in 1..RetryDelay :
          outbox' = [outbox EXCEPT ![t] =
                       @ \cup {NewRow(RetryKey(worker[w].attempt), delay)}]
    BY <1>11, <2>2 DEF ScheduleRetry
  <2>4. NewRow(RetryKey(worker[w].attempt), delay).key.kind = "retry"
    BY DEF NewRow, RowOf, RetryKey
  <2>5. \E row \in outbox'[t] : row.key.kind = "retry"
    BY <2>3, <2>4 DEF TypeOK
  <2>6. \A u \in Tasks : u # t => /\ status'[u] = status[u]
                                  /\ lease'[u] = lease[u]
                                  /\ outbox'[u] = outbox[u]
                                  /\ recoverAt'[u] = recoverAt[u]
    BY <1>11, <2>2, <2>3 DEF TypeOK, ScheduleRetry
  <2>7. status'[t] = "retry_scheduled" /\ relay' = relay
    BY <1>11, <2>2 DEF TypeOK, ScheduleRetry
  <2> QED
    BY <2>5, <2>6, <2>7, ClaimedTask
<1> QED
  BY <1>2, <1>3, <1>4, <1>5, <1>6, <1>7, <1>8, <1>10, <1>11 DEF WorkerStep

LEMMA RInvByRest ==
  ASSUME TypeOK, RInv,
         \/ Tick
         \/ RedisLoss
         \/ Recover
         \/ \E t \in Tasks : Cancel(t)
         \/ UNCHANGED vars
  PROVE  RInv'
<1> USE DEF RInv, RetryRowOrInstant
<1>1. CASE Tick
  <2>1. \A t \in Tasks : \A row \in outbox[t] :
          \E other \in outbox'[t] : other.key = row.key
    <3>1. \A t \in Tasks : outbox'[t] =
            {RowOf(row.key, Down(row.avail), row.by) : row \in outbox[t]}
      BY <1>1 DEF Tick
    <3>2. \A row : RowOf(row.key, Down(row.avail), row.by).key = row.key
      BY DEF RowOf
    <3> QED
      BY <3>1, <3>2
  <2>2. \A t \in Tasks : lease'[t] = Null <=> lease[t] = Null
    BY <1>1, InstantsAreNotNull, TimesAssumption DEF TypeOK, Tick, Leases
  <2>3. \A t \in Tasks : recoverAt[t] # Null => recoverAt'[t] # Null
    BY <1>1, InstantsAreNotNull, TimesAssumption DEF TypeOK, Tick, Down
  <2>4. status' = status /\ relay' = relay
    BY <1>1 DEF Tick
  <2> QED
    BY <2>1, <2>2, <2>3, <2>4
<1>2. CASE RedisLoss \/ UNCHANGED vars
  BY <1>2 DEF RedisLoss, vars, taskVars
<1>3. CASE Recover
  BY <1>3, ClaimedTask DEF TypeOK, Recover
<1>4. ASSUME NEW t \in Tasks, Cancel(t) PROVE RInv'
  BY <1>4, ClaimedTask DEF TypeOK, Cancel
<1> QED
  BY <1>1, <1>2, <1>3, <1>4

\* Whatever is lost, every unfinished row can be delivered again from the
\* database alone, for any number of tasks, workers and relays.
THEOREM RowsStayRecoverable == Spec => []Recoverable
<1>1. Init => RInv
  <2>1. NewRow(InitialKey, 0).key = InitialKey
    BY DEF NewRow, RowOf
  <2> QED
    BY <2>1 DEF Init, RInv
<1>2. TypeOK /\ RInv /\ [Next]_vars => RInv'
  BY RInvByRelay, RInvByWorker, RInvByRest DEF Next
<1>3. RInv => Recoverable
  BY DEF RInv, Recoverable, RetryRowOrInstant
<1> QED
  BY <1>1, <1>2, <1>3, TypeCorrect, PTL DEF Spec

-----------------------------------------------------------------------------
(* Fencing.  The owner a row names is in the newest attempt: acquire writes *)
(* the owner and counts the attempt in one transaction, and an owner UUID   *)
(* that ended names nobody.                                                 *)

OwnerIsNewest ==
  \A w \in Workers : \A t \in Tasks :
    (/\ owner[t] = w
     /\ worker[w].pc \in {"running", "ending"}
     /\ worker[w].task = t)
      => worker[w].attempt = attempts[t]

Fenced ==
  \A w \in Workers : \A t \in Tasks :
    (/\ worker[w].pc \in {"running", "ending"}
     /\ worker[w].task = t
     /\ worker[w].attempt < attempts[t]
     /\ worker'[w] # worker[w])
      => /\ status'[t] = status[t]
         /\ lease'[t] = lease[t]
         /\ outbox'[t] = outbox[t]

LEMMA NewestByWorker ==
  ASSUME TypeOK, OwnerIsNewest, NEW w \in Workers, WorkerStep(w)
  PROVE  OwnerIsNewest'
<1> USE DEF OwnerIsNewest
<1>1. w # Gone /\ w # Null
  BY ProcessesAssumption
<1>2. worker[w] # NoRun => worker[w].task \in Tasks
  BY RunningTask
<1>3. ASSUME NEW t \in Tasks, Receive(w, t) PROVE OwnerIsNewest'
  BY <1>3 DEF TypeOK, Receive, taskVars
<1>4. CASE PrepareRetry(w)
  BY <1>4, ProcessesAssumption, <1>2 DEF TypeOK, PrepareRetry, NoRun
<1>5. CASE Acquire(w)
  <2>1. worker[w] # NoRun
    BY <1>5 DEF Acquire, NoRun
  <2>2. PICK t \in Tasks : t = worker[w].task
    BY <2>1, <1>2
  <2>3. PICK age \in Ages : Lease(w, t, age)
    BY <1>5, <2>2 DEF Acquire
  <2>4. worker'[w].task = t /\ worker'[w].attempt = attempts'[t]
    BY <1>5, <2>2 DEF TypeOK, Acquire
  <2>5. /\ \A v \in Workers : v # w => worker'[v] = worker[v]
        /\ \A u \in Tasks : u # t => owner'[u] = owner[u] /\ attempts'[u] = attempts[u]
        /\ owner'[t] = w
    BY <1>5, <2>2, <2>3 DEF TypeOK, Acquire, Lease
  <2> QED
    BY <2>4, <2>5
<1>6. CASE AcquireAnswerLost(w)
  <2>1. worker[w] # NoRun
    BY <1>6 DEF AcquireAnswerLost, NoRun
  <2>2. PICK t \in Tasks : t = worker[w].task
    BY <2>1, <1>2
  <2>3. PICK age \in Ages : Lease(w, t, age)
    BY <1>6, <2>2 DEF AcquireAnswerLost
  <2>4. /\ \A v \in Workers : v # w => worker'[v] = worker[v]
        /\ worker'[w].pc = "erring"
        /\ \A u \in Tasks : u # t => owner'[u] = owner[u] /\ attempts'[u] = attempts[u]
        /\ owner'[t] = w
    BY <1>6, <2>2, <2>3 DEF TypeOK, AcquireAnswerLost, Lease
  <2> QED
    BY <2>4
<1>7. CASE NotAcquired(w)
  BY <1>7 DEF TypeOK, NotAcquired, Ack, NoRun, taskVars
<1>8. CASE DatabaseError(w)
  BY <1>8 DEF TypeOK, DatabaseError, taskVars
\* A run that goes on keeps its task and its attempt.
<1>9. ASSUME attempts' = attempts, owner' = owner,
              worker[w].pc = "running",
              worker'[w].task = worker[w].task,
              worker'[w].attempt = worker[w].attempt,
              \A v \in Workers : v # w => worker'[v] = worker[v]
       PROVE  OwnerIsNewest'
  BY <1>9
<1>10. CASE CommitResult(w)
  <2>1. worker'[w] = [worker[w] EXCEPT !.verdict = "succeeded"]
    BY <1>10 DEF TypeOK, CommitResult
  <2>2. worker[w] \in [pc : {"received", "prepared", "erring", "running", "ending"},
                      task : Tasks, attempt : Attempts, verdict : Verdicts]
    BY <1>10 DEF TypeOK, CommitResult, Runs, NoRun
  <2>3. worker'[w].task = worker[w].task /\ worker'[w].attempt = worker[w].attempt
    BY <2>1, <2>2
  <2>4. \A v \in Workers : v # w => worker'[v] = worker[v]
    BY <1>10 DEF TypeOK, CommitResult
  <2> QED
    BY <1>10, <1>9, <2>3, <2>4 DEF CommitResult
<1>11. CASE StepsEnd(w)
  <2>1. PICK v \in Verdicts :
          worker' = [worker EXCEPT ![w].pc = "ending", ![w].verdict = v]
    BY <1>11 DEF StepsEnd
  <2>2. worker[w] \in [pc : {"received", "prepared", "erring", "running", "ending"},
                      task : Tasks, attempt : Attempts, verdict : Verdicts]
    BY <1>11 DEF TypeOK, StepsEnd, Runs, NoRun
  <2>3. worker'[w].task = worker[w].task /\ worker'[w].attempt = worker[w].attempt
    BY <2>1, <2>2 DEF TypeOK
  <2>4. \A u \in Workers : u # w => worker'[u] = worker[u]
    BY <2>1 DEF TypeOK
  <2> QED
    BY <1>11, <1>9, <2>3, <2>4 DEF StepsEnd, taskVars
<1>12. CASE Renew(w)
  BY <1>12 DEF Renew
\* The run is over: whatever the row says, this owner is in no attempt.
<1>13. ASSUME worker'[w] = NoRun,
              \A v \in Workers : v # w => worker'[v] = worker[v],
              attempts' = attempts,
              \A t \in Tasks : owner'[t] = owner[t] \/ owner'[t] \in {Null, Gone}
       PROVE  OwnerIsNewest'
  BY <1>13, ProcessesAssumption DEF NoRun
<1>14. CASE FailInternal(w)
  BY <1>14, <1>13 DEF TypeOK, FailInternal, Ack, Orphan
<1>15. CASE LeaseLost(w) \/ EndRefused(w) \/ WorkerCrash(w)
  BY <1>15, <1>13 DEF TypeOK, LeaseLost, EndRefused, WorkerCrash, Ack, Orphan
<1>17. CASE Finish(w) \/ ScheduleRetry(w)
  BY <1>17, <1>13 DEF TypeOK, Finish, ScheduleRetry, Ack
<1> QED
  BY <1>3, <1>4, <1>5, <1>6, <1>7, <1>8, <1>10, <1>11, <1>12, <1>14, <1>15,
     <1>17 DEF WorkerStep

LEMMA NewestByRest ==
  ASSUME TypeOK, OwnerIsNewest,
         \/ Tick
         \/ \E r \in Relays : RelayStep(r)
         \/ RedisLoss
         \/ Recover
         \/ \E t \in Tasks : Cancel(t)
         \/ UNCHANGED vars
  PROVE  OwnerIsNewest' /\ worker' = worker
<1>1. /\ worker' = worker /\ attempts' = attempts
      /\ \A t \in Tasks : owner'[t] = owner[t] \/ owner'[t] = Null
  BY DEF TypeOK, Tick, RelayStep, Claim, Enqueue, EnqueueError, MarkPublished,
         MarkFailed, RelayCrash, RedisLoss, Recover, Cancel, vars, taskVars
<1> QED
  BY <1>1, ProcessesAssumption DEF OwnerIsNewest

\* Every write of a run asks for its own unexpired lease on a RUNNING row.
LEMMA FencedByWorker ==
  ASSUME TypeOK, OwnerIsNewest, NEW w \in Workers, WorkerStep(w)
  PROVE  Fenced
<1> SUFFICES ASSUME NEW v \in Workers, NEW t \in Tasks,
                    worker[v].pc \in {"running", "ending"},
                    worker[v].task = t,
                    worker[v].attempt < attempts[t],
                    worker'[v] # worker[v]
             PROVE  /\ status'[t] = status[t]
                    /\ lease'[t] = lease[t]
                    /\ outbox'[t] = outbox[t]
  BY DEF Fenced
<1>1. v = w
  BY DEF TypeOK, WorkerStep, Receive, PrepareRetry, Acquire, NotAcquired,
         DatabaseError, AcquireAnswerLost, FailInternal, CommitResult, Renew,
         LeaseLost, StepsEnd, Finish, ScheduleRetry, EndRefused,
         WorkerCrash, Ack
<1>2. attempts[t] \in Int /\ worker[v].attempt \in Int
  BY TimesAssumption DEF TypeOK, Runs, Attempts, NoRun
<1>3. owner[t] # w
  BY <1>1, <1>2 DEF OwnerIsNewest
<1>4. CASE Finish(w) \/ ScheduleRetry(w)
  BY <1>1, <1>3, <1>4 DEF Finish, ScheduleRetry, Holds
<1>6. CASE CommitResult(w) \/ StepsEnd(w) \/ LeaseLost(w) \/ EndRefused(w)
             \/ WorkerCrash(w)
  BY <1>6 DEF CommitResult, StepsEnd, LeaseLost, EndRefused, WorkerCrash, taskVars
<1>7. CASE Renew(w)
  BY <1>1, <1>7 DEF Renew
<1> QED
  BY <1>1, <1>4, <1>6, <1>7
  DEF WorkerStep, Receive, PrepareRetry, Acquire, NotAcquired, DatabaseError,
      AcquireAnswerLost, FailInternal, NoRun

\* A run that lost its row to a later attempt changes nothing any more, for
\* any number of workers and whatever clock samples they use.
THEOREM FencingHolds == Spec => OvertakenRunsAreFenced
<1>1. Init => OwnerIsNewest
  BY ProcessesAssumption DEF Init, OwnerIsNewest
<1>2. TypeOK /\ OwnerIsNewest /\ [Next]_vars => OwnerIsNewest' /\ Fenced
  <2> SUFFICES ASSUME TypeOK, OwnerIsNewest, [Next]_vars
               PROVE  OwnerIsNewest' /\ Fenced
    OBVIOUS
  <2>1. ASSUME NEW w \in Workers, WorkerStep(w) PROVE OwnerIsNewest' /\ Fenced
    BY <2>1, NewestByWorker, FencedByWorker
  <2>2. CASE ~ \E w \in Workers : WorkerStep(w)
    <3>1. OwnerIsNewest' /\ worker' = worker
      BY <2>2, NewestByRest DEF Next
    <3> QED
      BY <3>1 DEF Fenced
  <2> QED
    BY <2>1, <2>2
<1>3. Fenced => \A w \in Workers : \A t \in Tasks :
                  (/\ worker[w].pc \in {"running", "ending"}
                   /\ worker[w].task = t
                   /\ worker[w].attempt < attempts[t]
                   /\ worker'[w] # worker[w])
                  => /\ status'[t] = status[t]
                     /\ lease'[t] = lease[t]
                     /\ outbox'[t] = outbox[t]
  BY DEF Fenced
<1> QED
  BY <1>1, <1>2, <1>3, TypeCorrect, PTL DEF Spec, OvertakenRunsAreFenced

\* What changes a result of a task that checks its status.
Published ==
  \A t \in Tasks \ UnguardedTasks : result'[t] # result[t] =>
    /\ status[t] = "running"
    /\ \E w \in Workers : /\ owner[t] = w
                          /\ worker[w].pc = "running"
                          /\ worker[w].task = t
                          /\ worker[w].attempt = attempts[t]

LEMMA PublishedByStep == TypeOK /\ OwnerIsNewest /\ [Next]_vars => Published
<1> SUFFICES ASSUME TypeOK, OwnerIsNewest, [Next]_vars PROVE Published
  OBVIOUS
<1>1. ASSUME NEW w \in Workers, CommitResult(w) PROVE Published
  <2>1. worker[w].task \in Tasks
    BY <1>1, RunningTask DEF CommitResult, NoRun
  <2> QED
    BY <1>1, <2>1 DEF TypeOK, OwnerIsNewest, CommitResult, MayPublish, Published
<1>2. CASE ~ \E w \in Workers : CommitResult(w)
  <2>1. result' = result
    <3>1. ASSUME NEW w \in Workers, WorkerStep(w) PROVE result' = result
      BY <1>2, <3>1 DEF WorkerStep, Receive, PrepareRetry, Acquire, NotAcquired, DatabaseError,
         AcquireAnswerLost, FailInternal, StepsEnd, LeaseLost, EndRefused, WorkerCrash, Renew,
         Finish, ScheduleRetry, taskVars, Lease
    <3>2. CASE Tick \/ RedisLoss \/ Recover \/ UNCHANGED vars
               \/ (\E r \in Relays : RelayStep(r)) \/ (\E t \in Tasks : Cancel(t))
      BY <3>2 DEF Tick, RelayStep, Claim, Enqueue, EnqueueError, MarkPublished, MarkFailed,
         RelayCrash, RedisLoss, Recover, Cancel, vars, taskVars
    <3> QED
      BY <3>1, <3>2 DEF Next
  <2> QED
    BY <2>1 DEF Published
<1> QED
  BY <1>1, <1>2

\* Only the newest attempt publishes a result, and only while the task runs for it, for
\* every task whose commit checks its status and any number of attempts and workers.
THEOREM ResultByNewestAttemptHolds == Spec => ResultByNewestAttempt
<1>1. Init => OwnerIsNewest
  BY ProcessesAssumption DEF Init, OwnerIsNewest
<1>2. TypeOK /\ OwnerIsNewest /\ [Next]_vars => OwnerIsNewest'
  <2> SUFFICES ASSUME TypeOK, OwnerIsNewest, [Next]_vars PROVE OwnerIsNewest'
    OBVIOUS
  <2> QED
    BY NewestByWorker, NewestByRest DEF Next
<1>3. Published => \A t \in Tasks \ UnguardedTasks : result'[t] # result[t] =>
                     /\ status[t] = "running"
                     /\ \E w \in Workers : /\ owner[t] = w
                                           /\ worker[w].pc = "running"
                                           /\ worker[w].task = t
                                           /\ worker[w].attempt = attempts[t]
  BY DEF Published
<1> QED
  BY <1>1, <1>2, <1>3, PublishedByStep, TypeCorrect, PTL DEF Spec, ResultByNewestAttempt

-----------------------------------------------------------------------------
(* The promise.  Who speaks for a task in the abstract engine is the owner  *)
(* of its row, unless that owner's run has ended.                           *)

\* A worker that a row names is in the run that took the row, and the row is RUNNING.
OwnerWorks ==
  \A w \in Workers : \A t \in Tasks : owner[t] = w =>
    /\ status[t] = "running"
    /\ worker[w].task = t /\ worker[w].pc \in {"erring", "running", "ending"}

\* A run that ends, ends for every row it owns.
LEMMA OwnerLeaves ==
  ASSUME TypeOK, OwnerWorks, NEW w \in Workers,
         \A v \in Workers : v # w => worker'[v] = worker[v],
         \A t \in Tasks : \/ owner'[t] \in {Null, Gone}
                          \/ owner'[t] = owner[t] /\ owner[t] # w /\ status'[t] = status[t]
  PROVE  OwnerWorks'
<1> SUFFICES ASSUME NEW v \in Workers, NEW t \in Tasks, owner'[t] = v
             PROVE  /\ status'[t] = "running"
                    /\ worker'[v].task = t /\ worker'[v].pc \in {"erring", "running", "ending"}
  BY DEF OwnerWorks
<1>1. v # Null /\ v # Gone
  BY ProcessesAssumption
<1>2. owner[t] = v /\ v # w /\ status'[t] = status[t]
  BY <1>1
<1> QED
  BY <1>2 DEF OwnerWorks

\* A run that goes on works at the row it owns.
LEMMA OwnerGoesOn ==
  ASSUME TypeOK, OwnerWorks, NEW w \in Workers, owner' = owner, status' = status,
         \A v \in Workers : v # w => worker'[v] = worker[v],
         worker[w].pc \in {"erring", "running", "ending"} =>
           /\ worker'[w].pc \in {"erring", "running", "ending"}
           /\ worker'[w].task = worker[w].task
  PROVE  OwnerWorks'
  BY DEF OwnerWorks

\* What the steps of a worker leave of the other workers, and what its own run is.
LEMMA RunKnown ==
  ASSUME TypeOK, NEW w \in Workers, worker[w] # NoRun
  PROVE  /\ worker[w] \in [pc : {"received", "prepared", "erring", "running", "ending"},
                           task : Tasks, attempt : Attempts, verdict : Verdicts]
         /\ worker[w].task \in Tasks /\ worker[w].verdict \in Verdicts
  BY DEF TypeOK, Runs

LEMMA OwnerWorksByWorker ==
  ASSUME TypeOK, OwnerWorks, NEW w \in Workers, WorkerStep(w)
  PROVE  OwnerWorks'
<1>0. w # Gone /\ w # Null
  BY ProcessesAssumption
<1>1. ASSUME worker[w].pc \notin {"erring", "running", "ending"}
      PROVE  \A t \in Tasks : owner[t] # w
  BY <1>1 DEF OwnerWorks
<1>2. ASSUME worker' = [worker EXCEPT ![w] = NoRun],
             \A t \in Tasks : \/ owner'[t] \in {Null, Gone}
                              \/ owner'[t] = owner[t] /\ owner[t] # w /\ status'[t] = status[t]
      PROVE  OwnerWorks'
  BY <1>2, OwnerLeaves DEF TypeOK
<1>3. ASSUME NEW t \in Tasks, Receive(w, t) PROVE OwnerWorks'
  BY <1>3, OwnerGoesOn DEF TypeOK, Receive, taskVars, NoRun
<1>4. CASE PrepareRetry(w)
  <2>1. \A t \in Tasks : owner[t] # w
    BY <1>1, <1>4 DEF PrepareRetry
  <2>2. worker[w].task \in Tasks
    BY <1>4, RunKnown DEF PrepareRetry, NoRun
  <2>3. \A v \in Workers : v # w => worker'[v] = worker[v]
    BY <1>4 DEF TypeOK, PrepareRetry
  <2>4. \A t \in Tasks : owner'[t] = Null \/ (owner'[t] = owner[t] /\ status'[t] = status[t])
    BY <1>4, <2>2 DEF TypeOK, PrepareRetry
  <2> QED
    BY <2>1, <2>3, <2>4, OwnerLeaves
<1>5. CASE Acquire(w) \/ AcquireAnswerLost(w)
  <2> DEFINE t == worker[w].task
  <2>1. worker[w].pc = "prepared" /\ t \in Tasks
    BY <1>5, RunKnown DEF Acquire, AcquireAnswerLost, NoRun
  <2>2. PICK age \in Ages : Lease(w, t, age)
    BY <1>5 DEF Acquire, AcquireAnswerLost
  <2>3. /\ \A v \in Workers : v # w => worker'[v] = worker[v]
        /\ worker'[w].task = t /\ worker'[w].pc \in {"erring", "running", "ending"}
    <3>1. CASE Acquire(w)
      BY <3>1 DEF TypeOK, Acquire
    <3>2. CASE AcquireAnswerLost(w)
      BY <2>1, <3>2, RunKnown DEF TypeOK, AcquireAnswerLost, NoRun
    <3> QED
      BY <1>5, <3>1, <3>2
  <2> HIDE DEF t
  <2>4. /\ owner'[t] = w /\ status'[t] = "running"
        /\ \A u \in Tasks : u # t => owner'[u] = owner[u] /\ status'[u] = status[u]
    BY <2>1, <2>2 DEF TypeOK, Lease
  <2>5. \A u \in Tasks : owner[u] # w
    BY <1>1, <2>1
  <2> QED
    BY <2>3, <2>4, <2>5 DEF OwnerWorks
<1>6. CASE NotAcquired(w)
  <2>1. \A t \in Tasks : owner[t] # w
    BY <1>1, <1>6 DEF NotAcquired
  <2> QED
    BY <1>2, <1>6, <2>1 DEF NotAcquired, Ack, taskVars
<1>7. CASE DatabaseError(w)
  BY <1>7, OwnerGoesOn DEF TypeOK, DatabaseError, taskVars
<1>8. CASE FailInternal(w)
  <2>1. worker[w].task \in Tasks
    BY <1>8, RunKnown DEF FailInternal, NoRun
  <2>2. \A t \in Tasks : \/ owner'[t] \in {Null, Gone}
                         \/ owner'[t] = owner[t] /\ owner[t] # w /\ status'[t] = status[t]
    <3>1. \A t \in Tasks : owner[t] = w => t = worker[w].task
      BY DEF OwnerWorks
    <3>2. CASE owner' = [owner EXCEPT ![worker[w].task] = Null]
               /\ status' = [status EXCEPT ![worker[w].task] = "failed"]
      BY <2>1, <3>1, <3>2 DEF TypeOK
    <3>3. CASE owner' = Orphan(w, owner) /\ status' = status
      BY <3>3 DEF Orphan
    <3> QED
      BY <1>8, <3>2, <3>3 DEF FailInternal
  <2> QED
    BY <1>2, <1>8, <2>2 DEF FailInternal, Ack
<1>9. CASE CommitResult(w)
  <2>1. worker'[w] = [worker[w] EXCEPT !.verdict = "succeeded"] /\ worker[w] # NoRun
    BY <1>9 DEF TypeOK, CommitResult, NoRun
  <2>2. worker'[w].pc = worker[w].pc /\ worker'[w].task = worker[w].task
    BY <2>1, RunKnown
  <2> QED
    BY <1>9, <2>2, OwnerGoesOn DEF TypeOK, CommitResult
<1>10. CASE Renew(w)
  BY <1>10 DEF Renew, OwnerWorks
<1>11. CASE LeaseLost(w) \/ EndRefused(w) \/ WorkerCrash(w)
  BY <1>2, <1>11 DEF LeaseLost, EndRefused, WorkerCrash, Ack, Orphan
<1>12. CASE StepsEnd(w)
  <2>1. PICK v \in Verdicts : worker' = [worker EXCEPT ![w].pc = "ending", ![w].verdict = v]
    BY <1>12 DEF StepsEnd
  <2>2. worker[w] # NoRun
    BY <1>12 DEF StepsEnd, NoRun
  <2>3. worker'[w].pc = "ending" /\ worker'[w].task = worker[w].task
    BY <2>1, <2>2, RunKnown DEF TypeOK
  <2> QED
    BY <1>12, <2>1, <2>3, OwnerGoesOn DEF TypeOK, StepsEnd, taskVars
<1>14. CASE Finish(w) \/ ScheduleRetry(w)
  <2>1. worker[w].task \in Tasks
    BY <1>14, RunKnown DEF Finish, ScheduleRetry, NoRun
  <2>2. \A t \in Tasks : owner[t] = w => t = worker[w].task
    BY DEF OwnerWorks
  <2> QED
    BY <1>2, <1>14, <2>1, <2>2 DEF TypeOK, Finish, ScheduleRetry, Ack
<1> QED
  BY <1>3, <1>4, <1>5, <1>6, <1>7, <1>8, <1>9, <1>10, <1>11, <1>12, <1>14 DEF WorkerStep

LEMMA OwnerWorksByRest ==
  ASSUME TypeOK, OwnerWorks,
         \/ Tick
         \/ \E r \in Relays : RelayStep(r)
         \/ RedisLoss
         \/ Recover
         \/ \E t \in Tasks : Cancel(t)
         \/ UNCHANGED vars
  PROVE  OwnerWorks'
<1>1. worker' = worker
  BY DEF TypeOK, Tick, RelayStep, Claim, Enqueue, EnqueueError, MarkPublished,
         MarkFailed, RelayCrash, RedisLoss, Recover, Cancel, vars
<1>2. \A t \in Tasks : owner'[t] = Null \/ (owner'[t] = owner[t]
                         /\ (status'[t] = status[t] \/ status[t] = "created"))
  BY DEF TypeOK, Tick, RelayStep, Claim, Enqueue, EnqueueError, MarkPublished,
         MarkFailed, RelayCrash, RedisLoss, Recover, Cancel, vars, taskVars
<1> QED
  BY <1>1, <1>2, ProcessesAssumption DEF OwnerWorks

LEMMA OwnerWorksStep == TypeOK /\ OwnerWorks /\ [Next]_vars => OwnerWorks'
  BY OwnerWorksByWorker, OwnerWorksByRest DEF Next

\* The image of a step, one row and one run at a time.
LEMMA Mapped ==
  ASSUME TypeOK
  PROVE  /\ \A t \in Tasks : Stage[t] = StageOf(status[t]) /\ Speaker[t] = SpeakerOf(owner[t])
         /\ \A w \in Workers : Word[w] = WordOf(worker[w])
  BY DEF Stage, Speaker, Word

LEMMA StageMoves ==
  ASSUME NEW t \in Tasks, \A u \in Tasks : u # t => StageOf(status'[u]) = StageOf(status[u])
  PROVE  Stage' = [Stage EXCEPT ![t] = StageOf(status'[t])]
  BY DEF Stage

LEMMA StageStays ==
  ASSUME \A u \in Tasks : StageOf(status'[u]) = StageOf(status[u])
  PROVE  Stage' = Stage
  BY DEF Stage

LEMMA SpeakerMoves ==
  ASSUME NEW t \in Tasks, \A u \in Tasks : u # t => SpeakerOf(owner'[u]) = SpeakerOf(owner[u])
  PROVE  Speaker' = [Speaker EXCEPT ![t] = SpeakerOf(owner'[t])]
  BY DEF Speaker

LEMMA SpeakerStays ==
  ASSUME \A u \in Tasks : SpeakerOf(owner'[u]) = SpeakerOf(owner[u])
  PROVE  Speaker' = Speaker
  BY DEF Speaker

LEMMA WordMoves ==
  ASSUME NEW w \in Workers, \A v \in Workers : v # w => worker'[v] = worker[v]
  PROVE  Word' = [Word EXCEPT ![w] = WordOf(worker'[w])]
  BY DEF Word

LEMMA WordStays ==
  ASSUME NEW w \in Workers, \A v \in Workers : v # w => worker'[v] = worker[v],
         WordOf(worker'[w]) = WordOf(worker[w])
  PROVE  Word' = Word
  BY DEF Word

LEMMA NobodySpeaks == SpeakerOf(Null) = Null /\ SpeakerOf(Gone) = Null /\ WordOf(NoRun) = "silent"
  BY ProcessesAssumption DEF SpeakerOf, WordOf, NoRun

\* A task that does not run has nobody who speaks for it.
LEMMA WaitingIsSilent ==
  ASSUME TypeOK, OwnerWorks, NEW t \in Tasks, status[t] # "running"
  PROVE  SpeakerOf(owner[t]) = Null
<1>1. owner[t] \in {Null, Gone}
  BY DEF TypeOK, OwnerWorks
<1> QED
  BY <1>1, NobodySpeaks

\* The end of a run that leaves its task alone.
LEMMA LeaveIs ==
  ASSUME TypeOK, OwnerWorks, NEW w \in Workers, worker' = [worker EXCEPT ![w] = NoRun],
         status' = status, result' = result,
         \A t \in Tasks : owner'[t] = IF owner[t] = w THEN owner'[t] ELSE owner[t],
         \A t \in Tasks : owner[t] = w => owner'[t] \in {Null, Gone}
  PROVE  Safe!Leave(w)
<1>0. w # Gone /\ w # Null
  BY ProcessesAssumption
<1>1. Word' = [Word EXCEPT ![w] = "silent"]
  BY WordMoves, NobodySpeaks DEF TypeOK
<1>2. Stage' = Stage
  BY StageStays
<1>3. \A t \in Tasks : SpeakerOf(owner'[t]) = IF Speaker[t] = w THEN Null ELSE Speaker[t]
  <2> SUFFICES ASSUME NEW t \in Tasks
               PROVE  SpeakerOf(owner'[t]) = IF Speaker[t] = w THEN Null ELSE Speaker[t]
    OBVIOUS
  <2>1. Speaker[t] = SpeakerOf(owner[t])
    BY Mapped
  <2>2. CASE owner[t] = w
    BY <1>0, <2>1, <2>2, NobodySpeaks DEF SpeakerOf
  <2>3. CASE owner[t] # w
    <3>1. owner'[t] = owner[t]
      BY <2>3
    <3>2. SpeakerOf(owner[t]) # w
      BY <1>0, <2>3 DEF SpeakerOf
    <3> QED
      BY <2>1, <3>1, <3>2
  <2> QED
    BY <2>2, <2>3
<1>4. Speaker' = [t \in Tasks |-> IF Speaker[t] = w THEN Null ELSE Speaker[t]]
  BY <1>3 DEF Speaker
<1> QED
  BY <1>1, <1>2, <1>4 DEF Safe!Leave

LEMMA SafeByWorker ==
  ASSUME TypeOK, OwnerWorks, NEW w \in Workers, WorkerStep(w)
  PROVE  Safe!Next \/ UNCHANGED Safe!vars
<1> DEFINE Stutter == Stage' = Stage /\ Speaker' = Speaker /\ result' = result /\ Word' = Word
           Goal == Safe!Next \/ Stutter
           u == worker[w].task
<1> SUFFICES Goal
  BY DEF Safe!vars
<1>0. w # Gone /\ w # Null /\ SpeakerOf(w) = w
  BY ProcessesAssumption DEF SpeakerOf
<1>1. worker[w] # NoRun => u \in Tasks /\ worker[w].verdict \in Verdicts
  BY RunKnown
\* A step that moves neither the task nor what anybody says of it.
<1>2. ASSUME status' = status, owner' = owner, result' = result,
             \A v \in Workers : v # w => worker'[v] = worker[v],
             WordOf(worker'[w]) = WordOf(worker[w])
      PROVE  Stutter
  BY <1>2, StageStays, SpeakerStays, WordStays
<1>3. ASSUME NEW t \in Tasks, Receive(w, t) PROVE Goal
  <2>1. WordOf(worker'[w]) = WordOf(worker[w]) /\ \A v \in Workers : v # w => worker'[v] = worker[v]
    BY <1>3, NobodySpeaks DEF TypeOK, Receive, WordOf
  <2> QED
    BY <1>2, <1>3, <2>1 DEF Receive, taskVars
<1>4. CASE PrepareRetry(w)
  <2>0. u \in Tasks /\ worker[w] # NoRun
    BY <1>1, <1>4 DEF PrepareRetry, NoRun
  <2>1. Word' = Word
    <3>1. worker'[w].pc = "prepared" /\ worker[w].pc = "received"
      BY <1>4, <2>0, RunKnown DEF TypeOK, PrepareRetry
    <3>2. \A v \in Workers : v # w => worker'[v] = worker[v]
      BY <1>4 DEF TypeOK, PrepareRetry
    <3> QED
      BY <3>1, <3>2, WordStays DEF WordOf
  <2>2. CASE RetryDue(u)
    <3>1. status[u] = "retry_scheduled" /\ status'[u] = "queued" /\ owner'[u] = Null
          /\ \A t \in Tasks : t # u => status'[t] = status[t] /\ owner'[t] = owner[t]
      BY <1>4, <2>0, <2>2 DEF TypeOK, PrepareRetry, RetryDue
    <3>2. Stage' = Stage
      BY <3>1, StageStays DEF StageOf, Terminal
    <3>3. Speaker' = Speaker
      BY <2>0, <3>1, SpeakerStays, WaitingIsSilent, NobodySpeaks
    <3> QED
      BY <1>4, <2>1, <3>2, <3>3 DEF PrepareRetry
  <2>3. CASE ~ RetryDue(u)
    <3>1. status' = status /\ owner' = owner
      BY <1>4, <2>3 DEF PrepareRetry
    <3> QED
      BY <1>4, <2>1, <3>1, StageStays, SpeakerStays DEF PrepareRetry
  <2> QED
    BY <2>2, <2>3
<1>5. CASE Acquire(w) \/ AcquireAnswerLost(w)
  <2>1. worker[w].pc = "prepared" /\ u \in Tasks
    BY <1>1, <1>5 DEF Acquire, AcquireAnswerLost, NoRun
  <2>2. PICK age \in Ages : Lease(w, u, age)
    BY <1>5 DEF Acquire, AcquireAnswerLost
  <2>3. /\ \A v \in Workers : v # w => worker'[v] = worker[v]
        /\ WordOf(worker'[w]) \in {"silent", "none", "failed"}
                                  \cup (IF result[u] THEN {"succeeded"} ELSE {})
    <3>1. CASE Acquire(w)
      BY <3>1 DEF TypeOK, Acquire, WordOf
    <3>2. CASE AcquireAnswerLost(w)
      <4>1. worker'[w].pc = "erring"
        BY <2>1, <3>2, RunKnown DEF TypeOK, AcquireAnswerLost, NoRun
      <4> QED
        BY <3>2, <4>1 DEF TypeOK, AcquireAnswerLost, WordOf
    <3> QED
      BY <1>5, <3>1, <3>2
  <2>4. /\ status[u] \in {"queued", "running"} /\ status'[u] = "running" /\ owner'[u] = w
        /\ \A t \in Tasks : t # u => status'[t] = status[t] /\ owner'[t] = owner[t]
        /\ result' = result
    BY <2>1, <2>2 DEF TypeOK, Lease, Acquirable
  <2>5. Stage' = [Stage EXCEPT ![u] = "held"] /\ Stage[u] \in {"waiting", "held"}
    <3>1. StageOf(status'[u]) = "held" /\ StageOf(status[u]) \in {"waiting", "held"}
      BY <2>4 DEF StageOf, Terminal
    <3> QED
      BY <2>1, <2>4, <3>1, StageMoves, Mapped
  <2>6. Speaker' = [Speaker EXCEPT ![u] = w]
    BY <1>0, <2>1, <2>4, SpeakerMoves
  <2>7. Word' = [Word EXCEPT ![w] = WordOf(worker'[w])]
    BY <2>3, WordMoves
  <2>8. Word[w] = "silent" /\ \A t \in Tasks : Speaker[t] # w
    <3>1. \A t \in Tasks : owner[t] # w
      BY <2>1 DEF OwnerWorks
    <3>2. \A t \in Tasks : SpeakerOf(owner[t]) # w
      BY <1>0, <3>1 DEF SpeakerOf
    <3> QED
      BY <2>1, <3>2, Mapped DEF WordOf
  <2>9. Safe!Take(w, u)
    BY <2>3, <2>4, <2>5, <2>6, <2>7, <2>8 DEF Safe!Take
  <2> QED
    BY <2>1, <2>9 DEF Safe!Next
<1>6. CASE NotAcquired(w)
  <2>1. WordOf(worker'[w]) = WordOf(worker[w]) /\ \A v \in Workers : v # w => worker'[v] = worker[v]
    BY <1>6, NobodySpeaks DEF TypeOK, NotAcquired, Ack, WordOf
  <2> QED
    BY <1>2, <1>6, <2>1 DEF NotAcquired, taskVars
<1>7. CASE DatabaseError(w)
  <2>1. worker[w].pc \in {"received", "prepared"} /\ worker[w] # NoRun
    BY <1>7 DEF DatabaseError, NoRun
  <2>2. worker'[w].pc = "erring" /\ \A v \in Workers : v # w => worker'[v] = worker[v]
    BY <1>7, <2>1, RunKnown DEF TypeOK, DatabaseError
  <2> QED
    BY <1>2, <1>7, <2>1, <2>2 DEF DatabaseError, taskVars, WordOf
<1>8. CASE FailInternal(w)
  <2>0. u \in Tasks /\ worker[w].pc = "erring"
    BY <1>1, <1>8 DEF FailInternal, NoRun
  <2>1. worker' = [worker EXCEPT ![w] = NoRun] /\ result' = result
    BY <1>8 DEF FailInternal, Ack
  <2>2. Word' = [Word EXCEPT ![w] = "silent"] /\ Word[w] = "silent" /\ Word' = Word
    <3>1. WordOf(worker[w]) = "silent"
      BY <2>0 DEF WordOf
    <3> QED
      BY <2>1, <3>1, WordMoves, WordStays, NobodySpeaks, Mapped DEF TypeOK
  <2>3. CASE /\ owner' = [owner EXCEPT ![u] = Null] /\ status' = [status EXCEPT ![u] = "failed"]
             /\ \/ status[u] \in {"created", "queued", "retry_scheduled"} /\ owner[u] = Null
                \/ \E age \in Ages : Holds(w, u, age)
    <3>1. /\ status'[u] = "failed" /\ owner'[u] = Null
          /\ \A t \in Tasks : t # u => status'[t] = status[t] /\ owner'[t] = owner[t]
      BY <2>0, <2>3 DEF TypeOK
    <3>2. Stage' = [Stage EXCEPT ![u] = "failed"]
      BY <2>0, <3>1, StageMoves DEF StageOf, Terminal
    <3>3. Speaker' = [Speaker EXCEPT ![u] = Null]
      BY <2>0, <3>1, SpeakerMoves, NobodySpeaks
    <3>4. CASE status[u] \in {"created", "queued", "retry_scheduled"} /\ owner[u] = Null
      <4>1. Stage[u] = "waiting"
        BY <2>0, <3>4, Mapped DEF StageOf, Terminal
      <4>2. Speaker' = Speaker
        BY <3>1, <3>4, SpeakerStays
      <4>3. Safe!Refuse(u)
        BY <2>1, <2>2, <3>2, <4>1, <4>2 DEF Safe!Refuse
      <4> QED
        BY <2>0, <4>3 DEF Safe!Next
    <3>5. CASE \E age \in Ages : Holds(w, u, age)
      <4>1. Stage[u] = "held" /\ Speaker[u] = w
        BY <1>0, <2>0, <3>5, Mapped DEF Holds, StageOf
      <4>2. Safe!Conclude(w, u)
        BY <2>1, <2>2, <3>2, <3>3, <4>1 DEF Safe!Conclude, Safe!Speaks
      <4> QED
        BY <2>0, <4>2 DEF Safe!Next
    <3> QED
      BY <2>3, <3>4, <3>5
  <2>4. CASE owner' = Orphan(w, owner) /\ status' = status
    <3>1. Safe!Leave(w)
      BY <2>1, <2>4, LeaveIs DEF Orphan
    <3> QED
      BY <3>1 DEF Safe!Next
  <2> QED
    BY <1>8, <2>3, <2>4 DEF FailInternal
<1>9. CASE CommitResult(w)
  <2>0. u \in Tasks /\ worker[w].pc = "running" /\ worker[w] # NoRun
    BY <1>1, <1>9 DEF CommitResult, NoRun
  <2>1. worker'[w] = [worker[w] EXCEPT !.verdict = "succeeded"]
        /\ \A v \in Workers : v # w => worker'[v] = worker[v]
    BY <1>9 DEF TypeOK, CommitResult
  <2>2. WordOf(worker'[w]) = "succeeded" /\ WordOf(worker[w]) # "silent"
    <3>1. worker'[w].pc = "running" /\ worker'[w].verdict = "succeeded"
      BY <2>0, <2>1, RunKnown
    <3> QED
      BY <1>1, <2>0, <3>1 DEF WordOf, Verdicts
  <2>3. Word' = [Word EXCEPT ![w] = "succeeded"] /\ Word[w] # "silent"
    BY <2>1, <2>2, WordMoves, Mapped
  <2>4. Stage' = Stage /\ Speaker' = Speaker
    BY <1>9, StageStays, SpeakerStays DEF CommitResult
  <2>5. Safe!Speaks(w, u) \/ u \in UnguardedTasks
    BY <1>0, <1>9, <2>0, Mapped DEF CommitResult, MayPublish, Safe!Speaks, StageOf
  <2>6. Safe!Publish(w, u)
    BY <1>9, <2>3, <2>4, <2>5 DEF CommitResult, Safe!Publish
  <2> QED
    BY <2>0, <2>6 DEF Safe!Next
<1>10. CASE Renew(w)
  BY <1>2, <1>10 DEF Renew
<1>11. CASE LeaseLost(w) \/ EndRefused(w) \/ WorkerCrash(w)
  <2>1. Safe!Leave(w)
    BY <1>11, LeaveIs DEF LeaseLost, EndRefused, WorkerCrash, Ack, Orphan
  <2> QED
    BY <2>1 DEF Safe!Next
<1>12. CASE StepsEnd(w)
  <2>1. PICK said \in Verdicts \ {"none"} :
          /\ said = "transient" => worker[w].verdict = "none"
          /\ worker' = [worker EXCEPT ![w].pc = "ending", ![w].verdict = said]
    BY <1>12 DEF StepsEnd
  <2>2. worker[w].pc = "running" /\ worker[w] # NoRun
    BY <1>12 DEF StepsEnd, NoRun
  <2>3. worker'[w].pc = "ending" /\ worker'[w].verdict = said
        /\ \A v \in Workers : v # w => worker'[v] = worker[v]
    BY <2>1, <2>2, RunKnown DEF TypeOK
  <2>4. Word' = [Word EXCEPT ![w] = said] /\ Word[w] = worker[w].verdict
    <3>1. WordOf(worker'[w]) = said /\ WordOf(worker[w]) = worker[w].verdict
      BY <2>2, <2>3 DEF WordOf
    <3> QED
      BY <2>3, <3>1, WordMoves, Mapped
  <2>5. Stage' = Stage /\ Speaker' = Speaker /\ result' = result
    BY <1>12, StageStays, SpeakerStays DEF StepsEnd, taskVars
  <2>6. Safe!Decide(w)
    BY <1>1, <2>1, <2>2, <2>4, <2>5 DEF Safe!Decide, Safe!Words, Verdicts
  <2> QED
    BY <2>6 DEF Safe!Next
<1>14. CASE Finish(w) \/ ScheduleRetry(w)
  <2>0. u \in Tasks /\ worker[w].pc = "ending"
    BY <1>1, <1>14 DEF Finish, ScheduleRetry, NoRun
  <2>1. /\ worker' = [worker EXCEPT ![w] = NoRun] /\ result' = result
        /\ status[u] = "running" /\ owner[u] = w
    BY <1>14 DEF Finish, ScheduleRetry, Ack, Holds
  <2>2. /\ owner'[u] = Null
        /\ \A t \in Tasks : t # u => status'[t] = status[t] /\ owner'[t] = owner[t]
    BY <1>14, <2>0 DEF TypeOK, Finish, ScheduleRetry
  <2>3. Word' = [Word EXCEPT ![w] = "silent"] /\ Word[w] = worker[w].verdict
    <3>1. WordOf(worker[w]) = worker[w].verdict
      BY <2>0 DEF WordOf
    <3> QED
      BY <2>1, <3>1, WordMoves, NobodySpeaks, Mapped DEF TypeOK
  <2>4. Speaker' = [Speaker EXCEPT ![u] = Null] /\ Safe!Speaks(w, u)
    <3>1. Speaker[u] = w /\ Stage[u] = "held"
      BY <1>0, <2>0, <2>1, Mapped DEF StageOf
    <3> QED
      BY <2>0, <2>2, <3>1, SpeakerMoves, NobodySpeaks DEF Safe!Speaks
  <2>5. Stage' = [Stage EXCEPT ![u] = StageOf(status'[u])]
    BY <2>0, <2>2, StageMoves
  <2>6. CASE Finish(w)
    <3>1. status'[u] = IF worker[w].verdict = "succeeded" THEN "succeeded" ELSE "failed"
      BY <2>0, <2>6 DEF TypeOK, Finish
    <3>2. StageOf(status'[u]) = IF Word[w] = "succeeded" THEN "succeeded" ELSE "failed"
      BY <2>3, <3>1 DEF StageOf, Terminal
    <3>3. Safe!Conclude(w, u)
      BY <2>1, <2>3, <2>4, <2>5, <3>2 DEF Safe!Conclude
    <3> QED
      BY <2>0, <3>3 DEF Safe!Next
  <2>7. CASE ScheduleRetry(w)
    <3>1. status'[u] = "retry_scheduled" /\ worker[w].verdict = "transient"
      BY <2>0, <2>7 DEF TypeOK, ScheduleRetry, Retryable
    <3>2. StageOf(status'[u]) = "waiting"
      BY <3>1 DEF StageOf, Terminal
    <3>3. Safe!Postpone(w, u)
      BY <2>1, <2>3, <2>4, <2>5, <3>1, <3>2 DEF Safe!Postpone
    <3> QED
      BY <2>0, <3>3 DEF Safe!Next
  <2> QED
    BY <1>14, <2>6, <2>7
<1> HIDE DEF Goal
<1> QED
  BY <1>3, <1>4, <1>5, <1>6, <1>7, <1>8, <1>9, <1>10, <1>11, <1>12, <1>14 DEF WorkerStep

LEMMA SafeByRest ==
  ASSUME TypeOK, OwnerWorks,
         \/ Tick
         \/ \E r \in Relays : RelayStep(r)
         \/ RedisLoss
         \/ Recover
         \/ \E t \in Tasks : Cancel(t)
         \/ UNCHANGED vars
  PROVE  Safe!Next \/ UNCHANGED Safe!vars
<1>1. Word' = Word /\ result' = result
  <2>1. worker' = worker /\ result' = result
    BY DEF Tick, RelayStep, Claim, Enqueue, EnqueueError, MarkPublished,
           MarkFailed, RelayCrash, RedisLoss, Recover, Cancel, vars, taskVars
  <2> QED
    BY <2>1 DEF Word
<1>2. CASE Tick \/ RedisLoss \/ UNCHANGED vars \/ \E r \in Relays : RelayStep(r)
  <2>1. owner' = owner
    BY <1>2 DEF Tick, RelayStep, Claim, Enqueue, EnqueueError, MarkPublished,
           MarkFailed, RelayCrash, RedisLoss, vars, taskVars
  <2>2. \A t \in Tasks : status'[t] = status[t] \/ (status[t] = "created" /\ status'[t] = "queued")
    <3>1. CASE \E r \in Relays, t \in Tasks : Claim(r, t)
      BY <3>1 DEF TypeOK, Claim
    <3>2. CASE status' = status
      BY <3>2
    <3> QED
      BY <1>2, <3>1, <3>2 DEF Tick, RelayStep, Enqueue, EnqueueError, MarkPublished,
         MarkFailed, RelayCrash, RedisLoss, vars, taskVars
  <2>3. Stage' = Stage
    BY <2>2, StageStays DEF StageOf, Terminal
  <2>4. Speaker' = Speaker
    BY <2>1, SpeakerStays
  <2> QED
    BY <1>1, <2>3, <2>4 DEF Safe!vars
<1>3. CASE Recover
  <2> DEFINE late == {t \in Due : status[t] = "running"}
  <2>1. \A t \in Tasks : /\ (t \notin Due => status'[t] = status[t] /\ owner'[t] = owner[t])
                          /\ (t \in Due => /\ status'[t] = "queued" /\ owner'[t] = Null
                                            /\ status[t] \in {"retry_scheduled", "queued", "running"})
    BY <1>3 DEF Recover, Due, Suspect
  <2>2. late \in SUBSET {t \in Tasks : Stage[t] = "held"}
    BY Mapped DEF Due, StageOf
  <2>3. \A t \in Tasks : StageOf(status'[t]) = IF t \in late THEN "waiting" ELSE Stage[t]
    BY <2>1, Mapped DEF StageOf, Terminal
  <2>4. \A t \in Tasks : SpeakerOf(owner'[t]) = IF t \in late THEN Null ELSE Speaker[t]
    BY <2>1, Mapped, WaitingIsSilent, NobodySpeaks
  <2> HIDE DEF late
  <2>5. Stage' = [t \in Tasks |-> IF t \in late THEN "waiting" ELSE Stage[t]]
    BY <2>3 DEF Stage
  <2>6. Speaker' = [t \in Tasks |-> IF t \in late THEN Null ELSE Speaker[t]]
    BY <2>4 DEF Speaker
  <2>7. Safe!Recall
    BY <1>1, <2>2, <2>5, <2>6 DEF Safe!Recall
  <2> QED
    BY <2>7 DEF Safe!Next
<1>4. ASSUME NEW t \in Tasks, Cancel(t) PROVE Safe!Next
  <2>1. /\ status'[t] = "cancelled" /\ owner'[t] = Null
        /\ \A u \in Tasks : u # t => status'[u] = status[u] /\ owner'[u] = owner[u]
        /\ status[t] \notin Terminal /\ ~ (status[t] = "running" /\ result[t])
    BY <1>4 DEF TypeOK, Cancel
  <2>2. Stage' = [Stage EXCEPT ![t] = "cancelled"]
    BY <2>1, StageMoves DEF StageOf, Terminal
  <2>3. Speaker' = [Speaker EXCEPT ![t] = Null]
    BY <2>1, SpeakerMoves, NobodySpeaks
  <2>4. Stage[t] = "waiting" \/ (Stage[t] = "held" /\ ~ result[t])
    BY <2>1, Mapped DEF StageOf
  <2>5. Safe!Cancel(t)
    BY <1>1, <2>2, <2>3, <2>4 DEF Safe!Cancel
  <2> QED
    BY <2>5 DEF Safe!Next
<1> QED
  BY <1>2, <1>3, <1>4

\* The engine keeps the promise of its tasks: of all the runs that leases, recoveries and
\* lost answers start for a task, the one that took it last stores its result and says
\* how it ends, and the end stands.
THEOREM Refinement == Spec => ImplementsSafeTask
<1>1. Init => OwnerWorks /\ Safe!Init
  <2> SUFFICES ASSUME Init PROVE OwnerWorks /\ Safe!Init
    OBVIOUS
  <2>1. OwnerWorks
    BY ProcessesAssumption DEF Init, OwnerWorks
  <2>2. Stage = [t \in Tasks |-> "waiting"]
    BY DEF Init, Stage, StageOf, Terminal
  <2>3. Speaker = [t \in Tasks |-> Null] /\ Word = [w \in Workers |-> "silent"]
    BY NobodySpeaks DEF Init, Speaker, Word
  <2> QED
    BY <2>1, <2>2, <2>3 DEF Init, Safe!Init
<1>2. TypeOK /\ OwnerWorks /\ [Next]_vars => [Safe!Next]_(Safe!vars)
  BY SafeByWorker, SafeByRest DEF Next
<1> QED
  BY <1>1, <1>2, OwnerWorksStep, TypeCorrect, PTL DEF Spec, ImplementsSafeTask, Safe!Spec

-----------------------------------------------------------------------------
(* The task that asks.                                                     *)

Places == {"find", "create", "interrupt", "confirm", "execute", "call", "complete",
           "finish", "fail", "over"}

\* Whoever is about to store the question, and still holds the task, finds none there.
Unasked == \A a \in DOMAIN run : run[a] = "create" /\ Question!Owns(a) => approval = "absent"

\* An open question has its interrupt, or the anchor from which it will be saved.
Saved == approval = "pending" => interrupt \/ anchor

\* The tool is called by one attempt, which was allowed to and has told so before.
OneCall ==
  /\ approval \in {"absent", "pending", "approved", "rejected", "expired"}
  /\ calls \in {0, 1} /\ execution \in {"absent", "claimed", "succeeded"}
  /\ execution # "absent" => approval = "approved"
  /\ execution = "absent" => calls = 0
  /\ execution = "succeeded" => calls = 1
  /\ \A a \in DOMAIN run :
       run[a] \in {"call", "complete"} =>
         /\ execution = "claimed" /\ calls = (IF run[a] = "call" THEN 0 ELSE 1)
         /\ \A b \in DOMAIN run : run[b] \in {"call", "complete"} => b = a

CarriedOut ==
  \/ approval = "approved" /\ calls = 1 /\ execution = "succeeded"
  \/ approval = "rejected" /\ execution = "absent"

\* Who finishes has done what was decided.
Finished ==
  /\ \A a \in DOMAIN run : run[a] = "finish" => CarriedOut
  /\ state = "succeeded" => CarriedOut

Asked ==
  /\ run \in Seq(Places) /\ holder \in 0..Len(run)
  /\ Unasked /\ Saved /\ OneCall /\ Finished

\* An attempt that moves leaves the others where they are.
LEMMA MovesOne ==
  ASSUME run \in Seq(Places), NEW a \in DOMAIN run, NEW to \in Places, Question!Moves(a, to)
  PROVE  /\ run' \in Seq(Places) /\ Len(run') = Len(run) /\ DOMAIN run' = DOMAIN run
         /\ run'[a] = to
         /\ \A b \in DOMAIN run : b # a => run'[b] = run[b]
<1>1. a \in 1..Len(run) /\ DOMAIN run = 1..Len(run)
  OBVIOUS
<1>2. run' = [run EXCEPT ![a] = to]
  BY DEF Question!Moves
<1> QED
  BY <1>1, <1>2, ExceptSeq

\* A message begins one attempt more, which looks for the question first.
LEMMA BeginsOne ==
  ASSUME run \in Seq(Places), run' = Append(run, "find")
  PROVE  /\ run' \in Seq(Places) /\ Len(run') = Len(run) + 1
         /\ DOMAIN run' = DOMAIN run \cup {Len(run) + 1}
         /\ run'[Len(run) + 1] = "find"
         /\ \A b \in DOMAIN run : b # Len(run) + 1 /\ run'[b] = run[b]
<1>1. "find" \in Places /\ DOMAIN run = 1..Len(run) /\ Len(run) \in Nat
  BY DEF Places
<1> QED
  BY <1>1, AppendProperties

\* What the attempts leave alone stays as it is.
LEMMA AskedByRest ==
  ASSUME Asked,
         \/ Question!Lapse \/ Question!Cancel \/ Question!ExpirePending
         \/ Question!RecoverCheckpoint \/ Question!RecoverTask
         \/ \E m \in Question!Messages : Question!Relay(m) \/ Question!Drop(m)
         \/ \E d \in {"approved", "rejected"} : Question!Resolve(d)
         \/ UNCHANGED question
  PROVE  Asked'
<1>1. run' = run /\ execution' = execution /\ calls' = calls
  BY DEF Question!Lapse, Question!Cancel, Question!ExpirePending, Question!RecoverCheckpoint,
     Question!RecoverTask, Question!Relay, Question!Drop, Question!Resolve, question
<1>2. holder' \in {0, holder}
  BY DEF Question!Lapse, Question!Cancel, Question!ExpirePending, Question!RecoverCheckpoint,
     Question!RecoverTask, Question!Relay, Question!Drop, Question!Resolve, question,
     Question!row, Question!Become
<1>3. \/ approval' = approval
      \/ approval = "pending" /\ approval' \in {"approved", "rejected", "expired"}
  BY DEF Question!Lapse, Question!Cancel, Question!ExpirePending, Question!RecoverCheckpoint,
     Question!RecoverTask, Question!Relay, Question!Drop, Question!Resolve, question
<1>4. \A a \in DOMAIN run : Question!Owns(a)' => Question!Owns(a)
  BY DEF Asked, Question!Lapse, Question!Cancel, Question!ExpirePending,
     Question!RecoverCheckpoint, Question!RecoverTask, Question!Relay, Question!Drop,
     Question!Resolve, question, Question!row, Question!Become, Question!Owns
<1>5. state' = "succeeded" => state = "succeeded"
  BY DEF Question!Lapse, Question!Cancel, Question!ExpirePending, Question!RecoverCheckpoint,
     Question!RecoverTask, Question!Relay, Question!Drop, Question!Resolve, question,
     Question!row, Question!Become
<1>6. Saved'
  BY DEF Asked, Saved, Question!Lapse, Question!Cancel, Question!ExpirePending,
     Question!RecoverCheckpoint, Question!RecoverTask, Question!Relay, Question!Drop,
     Question!Resolve, question, Question!row
<1>7. Unasked'
  BY <1>1, <1>3, <1>4 DEF Asked, Unasked
<1>8. OneCall' /\ Finished'
  BY <1>1, <1>3, <1>5 DEF Asked, OneCall, Finished, CarriedOut
<1> QED
  BY <1>1, <1>2, <1>6, <1>7, <1>8 DEF Asked

LEMMA AskedByAcquire ==
  ASSUME Asked, NEW m \in Question!Messages, Question!Acquire(m)
  PROVE  Asked'
<1>1. /\ run \in Seq(Places) /\ run' = Append(run, "find")
      /\ UNCHANGED <<anchor, approval, interrupt, execution, calls>>
      /\ state' = "running" /\ holder' = Len(run) + 1
  BY DEF Asked, Question!Acquire
<1>2. Len(run) \in Nat /\ holder' \in 0..Len(run')
  BY <1>1, BeginsOne
<1>3. \A a \in DOMAIN run' : run'[a] = "find" \/ (a \in DOMAIN run /\ run'[a] = run[a] /\ a # holder')
  BY <1>1, BeginsOne
<1>4. Unasked' /\ Saved'
  BY <1>1, <1>3 DEF Asked, Unasked, Saved, Question!Owns
<1>5. OneCall'
  BY <1>1, <1>3 DEF Asked, OneCall
<1>6. Finished'
  BY <1>1, <1>3 DEF Asked, Finished, CarriedOut
<1> QED
  BY <1>1, <1>2, <1>4, <1>5, <1>6, BeginsOne DEF Asked

\* What an attempt does.
LEMMA AskedByAttempt ==
  ASSUME Asked, NEW a \in DOMAIN run,
         \/ Question!Crash(a)
         \/ Question!Raise(a)
         \/ Question!FindForGraph(a)
         \/ Question!CreateOrGetPending(a)
         \/ Question!SaveInterrupt(a)
         \/ Question!ConfirmApprovalCheckpoint(a)
         \/ Question!ClaimFakeToolExecution(a)
         \/ Question!Rejected(a)
         \/ Question!Call(a)
         \/ Question!CompleteFakeToolExecution(a)
         \/ Question!FinishFakeWrite(a)
         \/ Question!Refuse(a)
         \/ Question!Fail(a)
  PROVE  Asked'
<1> USE DEF Question!Owns, Question!row
<1>1. ASSUME NEW to \in Places, Question!Moves(a, to)
      PROVE  /\ run' \in Seq(Places) /\ Len(run') = Len(run) /\ DOMAIN run' = DOMAIN run
             /\ run'[a] = to
             /\ \A b \in DOMAIN run : b # a => run'[b] = run[b]
  BY <1>1, MovesOne DEF Asked
<1>2. CASE Question!Crash(a)
  <2>1. "over" \in Places /\ Question!Moves(a, "over")
    BY <1>2 DEF Question!Crash, Places, Asked, OneCall
  <2>2. Unasked' /\ Saved'
    BY <1>1, <1>2, <2>1 DEF Asked, Unasked, Saved, Question!Crash
  <2>3. OneCall' /\ Finished' /\ holder' \in 0..Len(run')
    BY <1>1, <1>2, <2>1 DEF Asked, OneCall, Finished, CarriedOut, Question!Crash
  <2> QED
    BY <1>1, <2>1, <2>2, <2>3 DEF Asked
<1>3. CASE Question!Raise(a)
  <2>1. "fail" \in Places /\ Question!Moves(a, "fail")
    BY <1>3 DEF Question!Raise, Places, Asked, OneCall
  <2>2. Unasked' /\ Saved'
    BY <1>1, <1>3, <2>1 DEF Asked, Unasked, Saved, Question!Raise
  <2>3. OneCall' /\ Finished' /\ holder' \in 0..Len(run')
    BY <1>1, <1>3, <2>1 DEF Asked, OneCall, Finished, CarriedOut, Question!Raise
  <2> QED
    BY <1>1, <2>1, <2>2, <2>3 DEF Asked
<1>4. CASE Question!FindForGraph(a)
  <2>1. Question!Found \in Places /\ Question!Moves(a, Question!Found)
    BY <1>4 DEF Question!FindForGraph, Places, Asked, OneCall, Question!Found
  <2>2. Unasked' /\ Saved'
    BY <1>1, <1>4, <2>1 DEF Asked, Unasked, Saved, OneCall, Question!FindForGraph, Question!Found
  <2>3. OneCall' /\ Finished' /\ holder' \in 0..Len(run')
    BY <1>1, <1>4, <2>1 DEF Asked, OneCall, Finished, CarriedOut, Question!FindForGraph, Question!Found
  <2> QED
    BY <1>1, <2>1, <2>2, <2>3 DEF Asked
<1>5. CASE Question!CreateOrGetPending(a)
  <2>1. "interrupt" \in Places /\ Question!Moves(a, "interrupt")
    BY <1>5 DEF Question!CreateOrGetPending, Places, Asked, OneCall
  <2>2. Unasked' /\ Saved'
    BY <1>1, <1>5, <2>1 DEF Asked, Unasked, Saved, Question!CreateOrGetPending, Question!Become, Question!Owns
  <2>3. OneCall' /\ Finished' /\ holder' \in 0..Len(run')
    BY <1>1, <1>5, <2>1 DEF Asked, Unasked, OneCall, Finished, CarriedOut, Question!CreateOrGetPending, Question!Become, Question!Owns
  <2> QED
    BY <1>1, <2>1, <2>2, <2>3 DEF Asked
<1>6. CASE Question!SaveInterrupt(a)
  <2>1. "confirm" \in Places /\ Question!Moves(a, "confirm")
    BY <1>6 DEF Question!SaveInterrupt, Places, Asked, OneCall
  <2>2. Unasked' /\ Saved'
    BY <1>1, <1>6, <2>1 DEF Asked, Unasked, Saved, Question!SaveInterrupt
  <2>3. OneCall' /\ Finished' /\ holder' \in 0..Len(run')
    BY <1>1, <1>6, <2>1 DEF Asked, OneCall, Finished, CarriedOut, Question!SaveInterrupt
  <2> QED
    BY <1>1, <2>1, <2>2, <2>3 DEF Asked
<1>7. CASE Question!ConfirmApprovalCheckpoint(a)
  <2>1. "over" \in Places /\ Question!Moves(a, "over")
    BY <1>7 DEF Question!ConfirmApprovalCheckpoint, Places, Asked, OneCall
  <2>2. Unasked' /\ Saved'
    BY <1>1, <1>7, <2>1 DEF Asked, Unasked, Saved, Question!ConfirmApprovalCheckpoint, Question!Become, Question!Owns
  <2>3. OneCall' /\ Finished' /\ holder' \in 0..Len(run')
    BY <1>1, <1>7, <2>1 DEF Asked, OneCall, Finished, CarriedOut, Question!ConfirmApprovalCheckpoint, Question!Become, Question!Owns
  <2> QED
    BY <1>1, <2>1, <2>2, <2>3 DEF Asked
<1>8. CASE Question!Rejected(a)
  <2>1. "finish" \in Places /\ Question!Moves(a, "finish")
    BY <1>8 DEF Question!Rejected, Places, Asked, OneCall
  <2>2. Unasked' /\ Saved'
    BY <1>1, <1>8, <2>1 DEF Asked, Unasked, Saved, Question!Rejected
  <2>3. OneCall' /\ Finished' /\ holder' \in 0..Len(run')
    BY <1>1, <1>8, <2>1 DEF Asked, OneCall, Finished, CarriedOut, Question!Rejected
  <2> QED
    BY <1>1, <2>1, <2>2, <2>3 DEF Asked
<1>9. CASE Question!Call(a)
  <2>1. "complete" \in Places /\ Question!Moves(a, "complete")
    BY <1>9 DEF Question!Call, Places, Asked, OneCall
  <2>2. Unasked' /\ Saved'
    BY <1>1, <1>9, <2>1 DEF Asked, Unasked, Saved, Question!Call
  <2>3. OneCall' /\ Finished' /\ holder' \in 0..Len(run')
    BY <1>1, <1>9, <2>1 DEF Asked, OneCall, Finished, CarriedOut, Question!Call
  <2> QED
    BY <1>1, <2>1, <2>2, <2>3 DEF Asked
<1>10. CASE Question!CompleteFakeToolExecution(a)
  <2>1. "finish" \in Places /\ Question!Moves(a, "finish")
    BY <1>10 DEF Question!CompleteFakeToolExecution, Places, Asked, OneCall
  <2>2. Unasked' /\ Saved'
    BY <1>1, <1>10, <2>1 DEF Asked, Unasked, Saved, Question!CompleteFakeToolExecution
  <2>3. OneCall' /\ Finished' /\ holder' \in 0..Len(run')
    BY <1>1, <1>10, <2>1 DEF Asked, OneCall, Finished, CarriedOut, Question!CompleteFakeToolExecution
  <2> QED
    BY <1>1, <2>1, <2>2, <2>3 DEF Asked
<1>11. CASE Question!FinishFakeWrite(a)
  <2>1. "over" \in Places /\ Question!Moves(a, "over")
    BY <1>11 DEF Question!FinishFakeWrite, Places, Asked, OneCall
  <2>2. Unasked' /\ Saved'
    BY <1>1, <1>11, <2>1 DEF Asked, Unasked, Saved, Question!FinishFakeWrite, Question!Become, Question!Owns
  <2>3. OneCall' /\ Finished' /\ holder' \in 0..Len(run')
    BY <1>1, <1>11, <2>1 DEF Asked, OneCall, Finished, CarriedOut, Question!FinishFakeWrite, Question!Become, Question!Owns
  <2> QED
    BY <1>1, <2>1, <2>2, <2>3 DEF Asked
<1>12. CASE Question!Refuse(a)
  <2>1. "fail" \in Places /\ Question!Moves(a, "fail")
    BY <1>12 DEF Question!Refuse, Places, Asked, OneCall
  <2>2. Unasked' /\ Saved'
    BY <1>1, <1>12, <2>1 DEF Asked, Unasked, Saved, Question!Refuse
  <2>3. OneCall' /\ Finished' /\ holder' \in 0..Len(run')
    BY <1>1, <1>12, <2>1 DEF Asked, OneCall, Finished, CarriedOut, Question!Refuse
  <2> QED
    BY <1>1, <2>1, <2>2, <2>3 DEF Asked
<1>13. CASE Question!Fail(a)
  <2>1. "over" \in Places /\ Question!Moves(a, "over")
    BY <1>13 DEF Question!Fail, Places, Asked, OneCall
  <2>2. Unasked' /\ Saved'
    BY <1>1, <1>13, <2>1 DEF Asked, Unasked, Saved, Question!Fail, Question!Become, Question!Owns
  <2>3. OneCall' /\ Finished' /\ holder' \in 0..Len(run')
    BY <1>1, <1>13, <2>1 DEF Asked, OneCall, Finished, CarriedOut, Question!Fail, Question!Become, Question!Owns
  <2> QED
    BY <1>1, <2>1, <2>2, <2>3 DEF Asked
<1>14. CASE Question!ClaimFakeToolExecution(a)
  <2>1. PICK to \in {"call", "finish"} :
          /\ Question!Moves(a, to)
          /\ IF to = "call" THEN execution = "absent" /\ execution' = "claimed"
             ELSE execution = "succeeded" /\ UNCHANGED execution
    BY <1>14 DEF Question!ClaimFakeToolExecution, Question!Unclaimed
  <2>2. to \in Places /\ approval = "approved"
        /\ UNCHANGED <<state, holder, lapsed, anchor, approval, interrupt, calls>>
    BY <1>14, <2>1 DEF Question!ClaimFakeToolExecution, Places
  <2>3. Unasked' /\ Saved'
    BY <1>1, <2>1, <2>2 DEF Asked, Unasked, Saved
  <2>4. OneCall' /\ Finished' /\ holder' \in 0..Len(run')
    BY <1>1, <2>1, <2>2 DEF Asked, OneCall, Finished, CarriedOut
  <2> QED
    BY <1>1, <2>1, <2>2, <2>3, <2>4 DEF Asked
<1> QED
  BY <1>2, <1>3, <1>4, <1>5, <1>6, <1>7, <1>8, <1>9, <1>10, <1>11, <1>12, <1>13, <1>14

LEMMA AskedStep == Asked /\ [Question!Next]_question => Asked'
<1> SUFFICES ASSUME Asked, [Question!Next]_question PROVE Asked'
  OBVIOUS
<1> QED
  BY AskedByRest, AskedByAcquire, AskedByAttempt DEF Question!Next

LEMMA AskedInit == Question!Init => Asked
<1> SUFFICES ASSUME Question!Init PROVE Asked
  OBVIOUS
<1>1. run = <<>> /\ Len(run) = 0 /\ run \in Seq(Places) /\ DOMAIN run = {}
  BY DEF Question!Init
<1> QED
  BY <1>1 DEF Question!Init, Asked, Unasked, Saved, OneCall, Finished

\* As a task is of one kind, the other kind's steps leave it alone.
LEMMA QuestionOrRest == [MCNext]_<<vars, question, kind>> => [Question!Next]_question
  BY DEF MCNext

LEMMA AskedHolds == MCSpec => []Asked
<1>1. MCInit => Asked
  BY AskedInit DEF MCInit
<1>2. Asked /\ [MCNext]_<<vars, question, kind>> => Asked'
  BY AskedStep, QuestionOrRest
<1> QED
  BY <1>1, <1>2, PTL DEF MCSpec

\* A question is never stuck without its interrupt and without its anchor, for any
\* number of attempts.
THEOREM QuestionIsOpenHolds == MCSpec => []QuestionIsOpen
<1>1. Asked => QuestionIsOpen
  BY DEF Asked, Saved, QuestionIsOpen, Question!QuestionIsOpen
<1> QED
  BY <1>1, AskedHolds, PTL

\* The tool is called once at most, only with consent, and a task that succeeded has
\* done what was decided, for any number of attempts.
THEOREM DecisionIsCarriedOutHolds == MCSpec => []DecisionIsCarriedOut
<1>1. Asked => DecisionIsCarriedOut
  BY DEF Asked, OneCall, Finished, CarriedOut, DecisionIsCarriedOut,
     Question!DecisionIsCarriedOut
<1> QED
  BY <1>1, AskedHolds, PTL

\* Whatever kind of task a behaviour of the composition is about, its rows, messages and
\* processes behave as the engine does, so that the engine's theorems hold of it.
THEOREM CompositionIsTheEngine == MCSpec => Spec
<1>1. MCInit => Init
  BY DEF MCInit
<1>2. [MCNext]_<<vars, question, kind>> => [Next]_vars
  BY Zenon DEF MCNext
<1> QED
  BY <1>1, <1>2, PTL DEF MCSpec, Spec
=============================================================================
