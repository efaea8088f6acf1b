------------------------ MODULE TrustedAction_proofs ------------------------
(***************************************************************************)
(* Proofs about TrustedAction, for any number of workers, any values of    *)
(* the limits and any set of faults.                                       *)
(***************************************************************************)
EXTENDS TrustedAction, FiniteSetTheorems, TLAPS

-----------------------------------------------------------------------------
(* What a step does to the run of a worker.                                *)

LEMMA NoRunType == NoRun \in Runs
  BY ConstantsAssumption DEF NoRun, Runs, PCs, MaxWrites

\* Goto moves one worker and keeps the rest of its run.
LEMMA GotoMoves ==
  ASSUME worker \in [Workers -> Runs], NEW w \in Workers, NEW pc \in PCs,
         Goto(w, pc)
  PROVE  /\ worker' \in [Workers -> Runs]
         /\ worker'[w].pc = pc
         /\ worker'[w].writes = worker[w].writes
         /\ \A v \in Workers \ {w} : worker'[v] = worker[v]
  BY DEF Goto, Runs

\* Leave ends the run of one worker.
LEMMA LeaveMoves ==
  ASSUME worker \in [Workers -> Runs], NEW w \in Workers, Leave(w)
  PROVE  /\ worker' \in [Workers -> Runs]
         /\ worker'[w].pc = "idle"
         /\ \A v \in Workers \ {w} : worker'[v] = worker[v]
  BY NoRunType DEF Leave, NoRun

\* Snapshot also takes the counters of the rows.
LEMMA SnapshotMoves ==
  ASSUME worker \in [Workers -> Runs], writes \in 0..MaxWrites,
         reads \in 0..(MaxReads + MaxReopens),
         NEW w \in Workers, NEW pc \in PCs, Snapshot(w, pc)
  PROVE  /\ worker' \in [Workers -> Runs]
         /\ worker'[w].pc = pc
         /\ worker'[w].writes = writes
         /\ \A v \in Workers \ {w} : worker'[v] = worker[v]
<1> DEFINE r == [worker[w] EXCEPT !.pc = pc, !.writes = writes, !.reads = reads]
<1>1. r \in Runs /\ r.pc = pc /\ r.writes = writes
  <2>1. worker[w] \in Runs
    OBVIOUS
  <2> QED
    BY <2>1 DEF Runs
<1>2. worker' = [worker EXCEPT ![w] = r]
  BY DEF Snapshot
<1> QED
  BY <1>1, <1>2

\* While the outcome of the execution is open there is a read left: the last
\* one closes it.
ReadsLeft == exec \notin Reusable => reads < MaxReads + MaxReopens

\* A step of a run that leaves the rows as they are.
LEMMA SameRowsType ==
  ASSUME TypeOK, ReadsLeft, worker' \in [Workers -> Runs],
         UNCHANGED <<rowVars, factVars, deliveryVars, restVars>>
  PROVE  TypeOK' /\ ReadsLeft'
  BY DEF TypeOK, ReadsLeft, rowVars, factVars, deliveryVars, restVars

LEMMA LeaveAsIsType ==
  ASSUME TypeOK, ReadsLeft, NEW w \in Workers, LeaveAsIs(w)
  PROVE  TypeOK' /\ ReadsLeft'
<1>1. worker' \in [Workers -> Runs]
  BY LeaveMoves DEF LeaveAsIs, TypeOK
<1> QED
  BY <1>1 DEF LeaveAsIs, Orphaned, TypeOK, ReadsLeft, factVars, deliveryVars, restVars

\* The transactions that move the rows together.
LEMMA OutcomeType ==
  ASSUME NEW t \in TaskStatuses, NEW e \in Reusable, NEW l \in Locals, Outcome(t, e, l)
  PROVE  /\ task' \in TaskStatuses /\ owner' = Null /\ lease' = "none" /\ due' = "none"
         /\ exec' \in Reusable /\ exec' \in Executions /\ local' \in Locals
  BY DEF Outcome, Unscheduled, Reusable, Concluded, Executions

LEMMA ReadAgainType ==
  ASSUME ReadAgain("reconcile"), TypeOK
  PROVE  /\ task' \in TaskStatuses /\ owner' = Null /\ lease' = "none"
         /\ due' \in {"none", "later", "due"}
         /\ exec' = "reconciling" /\ exec' \in Executions /\ local' \in Locals
         /\ outbox' \subseteq {"initial", "execute", "reconcile"} /\ recovered' \in BOOLEAN
  BY DEF ReadAgain, TypeOK, TaskStatuses, Executions, Locals

\* An answer to a write, and what a read found out.
LEMMA WriteOutcomeType ==
  ASSUME TypeOK, ReadsLeft, NEW w \in Workers, NEW answer \in Answers(writes),
         exec = "executing", WriteOutcome(w, answer),
         worker' \in [Workers -> Runs],
         UNCHANGED <<approval, writes, reads, revoked, manual, stream, restVars>>
  PROVE  TypeOK' /\ ReadsLeft'
<1>1. CASE answer = "unknown"
  BY <1>1, ReadAgainType
  DEF WriteOutcome, Retries, ReadsLeft, TypeOK, restVars, Reusable, Concluded
<1>2. CASE Succeeds /\ UNCHANGED <<ready, outbox, recovered>>
  BY <1>2 DEF Succeeds, Outcome, Unscheduled, ReadsLeft, TypeOK, restVars, Reusable,
              Concluded, TaskStatuses, Executions, Locals
<1>3. CASE Fails /\ UNCHANGED <<ready, outbox, recovered>>
  BY <1>3 DEF Fails, Outcome, Unscheduled, ReadsLeft, TypeOK, restVars, Reusable,
              Concluded, TaskStatuses, Executions, Locals
<1>4. CASE /\ exec' = "retryable_failed" /\ ready' = (answer = "retryable")
           /\ UNCHANGED <<rowVars, local, outbox, recovered>>
  BY <1>4 DEF ReadsLeft, TypeOK, rowVars, restVars, Reusable, Concluded, Executions
<1> QED
  BY <1>1, <1>2, <1>3, <1>4 DEF WriteOutcome

LEMMA ReadOutcomeType ==
  ASSUME TypeOK, ReadsLeft, NEW answer, ReadOutcome(answer), exec \notin Reusable,
         reads' = reads + 1, revoked' = "no", worker' \in [Workers -> Runs],
         UNCHANGED <<approval, writes, ready, manual, stream, restVars>>
  PROVE  TypeOK' /\ ReadsLeft'
<1> USE ConstantsAssumption
<1>0. reads' \in 0..(MaxReads + MaxReopens)
  BY DEF TypeOK, ReadsLeft
<1>1. CASE ~ IsLastRead(answer) /\ ReadAgain("reconcile")
  <2>1. reads' < MaxReads + MaxReopens
    BY <1>1 DEF IsLastRead, TypeOK
  <2> QED
    BY <1>0, <1>1, <2>1, ReadAgainType DEF ReadsLeft, TypeOK, restVars
<1>2. CASE Succeeds /\ UNCHANGED <<outbox, recovered>>
  BY <1>0, <1>2 DEF Succeeds, Outcome, Unscheduled, ReadsLeft, TypeOK, restVars, Reusable,
                    Concluded, TaskStatuses, Executions, Locals
<1>3. CASE /\ Outcome("needs_attention", "needs_attention", "needs_attention")
           /\ UNCHANGED <<outbox, recovered>>
  BY <1>0, <1>3 DEF Outcome, Unscheduled, ReadsLeft, TypeOK, restVars, Reusable,
                    Concluded, TaskStatuses, Executions, Locals
<1> QED
  BY <1>1, <1>2, <1>3 DEF ReadOutcome

LEMMA RunStepType ==
  ASSUME TypeOK, ReadsLeft, NEW w \in Workers, RunStep(w)
  PROVE  TypeOK' /\ ReadsLeft'
<1> USE ConstantsAssumption
<1>0. worker \in [Workers -> Runs]
  BY DEF TypeOK
<1>1. CASE PrepareRetry(w)
  <2>1. worker' \in [Workers -> Runs]
    BY <1>1, <1>0, GotoMoves DEF PrepareRetry, PCs
  <2> QED
    BY <1>1, <2>1
    DEF PrepareRetry, TypeOK, ReadsLeft, rowVars, factVars, deliveryVars, restVars, TaskStatuses
<1>2. CASE Acquire(w)
  <2>1. DEFINE r == [worker[w] EXCEPT !.pc = IF spent THEN "failing" ELSE "leased",
                                      !.may = attempts' <= MaxRetries]
  <2>2. worker' = [worker EXCEPT ![w] = r]
    BY <1>2 DEF Acquire
  <2>3. r \in Runs
    <3>1. (attempts' <= MaxRetries) \in BOOLEAN
      OBVIOUS
    <3>2. (IF spent THEN "failing" ELSE "leased") \in PCs
      BY DEF PCs
    <3> QED
      BY <1>0, <3>1, <3>2 DEF Runs
  <2>4. worker' \in [Workers -> Runs]
    BY <1>0, <2>2, <2>3
  <2> QED
    BY <1>2, <2>4 DEF Acquire, Lease, TypeOK, ReadsLeft, factVars, deliveryVars, TaskStatuses
<1>3. CASE NotAcquired(w)
  BY <1>3, LeaveAsIsType DEF NotAcquired
<1>4. CASE FailInternal(w)
  <2>1. worker' \in [Workers -> Runs]
    BY <1>4, <1>0, LeaveMoves DEF FailInternal, PCs
  <2> QED
    BY <1>4, <2>1
    DEF FailInternal, TypeOK, ReadsLeft, rowVars, factVars, deliveryVars, restVars, Orphaned,
        TaskStatuses
<1>5. CASE LoadApproval(w)
  <2>1. worker' \in [Workers -> Runs]
    BY <1>5, <1>0, GotoMoves DEF LoadApproval, PCs, Decision
  <2> QED
    BY <1>5, <2>1 DEF LoadApproval, TypeOK, ReadsLeft, rowVars, factVars, deliveryVars, restVars
<1>6. CASE ConfirmCheckpoint(w)
  <2>1. worker' \in [Workers -> Runs]
    BY <1>6, <1>0, LeaveMoves DEF ConfirmCheckpoint, PCs
  <2> QED
    BY <1>6, <2>1
    DEF ConfirmCheckpoint, TypeOK, ReadsLeft, rowVars, factVars, deliveryVars, restVars,
        TaskStatuses
<1>7. CASE FinalizeRejected(w)
  <2>1. worker' \in [Workers -> Runs]
    BY <1>7, <1>0, GotoMoves, LeaveMoves DEF FinalizeRejected, PCs
  <2> QED
    BY <1>7, <2>1
    DEF FinalizeRejected, TypeOK, ReadsLeft, rowVars, factVars, deliveryVars, restVars,
        Unscheduled, TaskStatuses
<1>8. CASE ReuseClaim(w)
  <2>1. worker' \in [Workers -> Runs]
    BY <1>8, <1>0, GotoMoves DEF ReuseClaim, PCs
  <2> QED
    BY <1>8, <2>1, SameRowsType DEF ReuseClaim
<1>9. CASE CreateClaim(w)
  <2>1. worker' \in [Workers -> Runs]
    BY <1>9, <1>0, GotoMoves DEF CreateClaim, PCs
  <2> QED
    BY <1>9, <2>1
    DEF CreateClaim, TypeOK, ReadsLeft, rowVars, factVars, deliveryVars, restVars, MayClaim,
        Executions, Locals, Reusable, Concluded
<1>10. CASE FailUnclaimed(w)
  <2>1. worker' \in [Workers -> Runs]
    BY <1>10, <1>0, LeaveMoves DEF FailUnclaimed, PCs
  <2> QED
    BY <1>10, <2>1
    DEF FailUnclaimed, TypeOK, ReadsLeft, rowVars, factVars, deliveryVars, restVars,
        Unscheduled, TaskStatuses, Approvals, Locals
<1>11. CASE ClaimRefused(w)
  <2>1. worker' \in [Workers -> Runs]
    BY <1>11, <1>0, GotoMoves DEF ClaimRefused, PCs
  <2> QED
    BY <1>11, <2>1, SameRowsType DEF ClaimRefused
<1>12. CASE Dispatch(w)
  <2>1. worker' \in [Workers -> Runs]
    BY <1>12, <1>0, SnapshotMoves DEF Dispatch, PCs, DispatchTo, GiveUp, TypeOK
  <2> QED
    BY <1>12, <2>1, SameRowsType DEF Dispatch
<1>13. CASE ReuseOutcome(w)
  <2>1. worker' \in [Workers -> Runs]
    BY <1>13, <1>0, GotoMoves, LeaveMoves DEF ReuseOutcome, PCs, LeaveAsIs
  <2> QED
    BY <1>13, <2>1, SameRowsType, LeaveAsIsType DEF ReuseOutcome
<1>14. CASE Start(w)
  <2>1. worker' \in [Workers -> Runs]
    BY <1>14, <1>0, GotoMoves DEF Start, PCs
  <2> QED
    BY <1>14, <2>1
    DEF Start, TypeOK, ReadsLeft, rowVars, factVars, deliveryVars, restVars, Executions,
        Reusable, Concluded, Startable, MaxWrites
<1>15. CASE StartRefused(w)
  <2>1. worker' \in [Workers -> Runs]
    BY <1>15, <1>0, LeaveMoves DEF StartRefused, PCs
  <2> QED
    BY <1>15, <2>1
    DEF StartRefused, TypeOK, ReadsLeft, rowVars, factVars, deliveryVars, restVars, Fails,
        Outcome, Unscheduled, TaskStatuses, Executions, Locals, Approvals, Reusable, Concluded
<1>16. CASE StartAbandoned(w)
  BY <1>16, LeaveAsIsType DEF StartAbandoned
<1>17. CASE Send(w)
  <2>1. worker' \in [Workers -> Runs]
    BY <1>17, <1>0, GotoMoves DEF Send, PCs
  <2>2. request' \in [1..MaxWrites -> {"none", "sent", "applied", "rejected"}]
    BY <1>17 DEF Send, TypeOK
  <2> QED
    BY <1>17, <2>1, <2>2 DEF Send, TypeOK, ReadsLeft, rowVars, factVars, deliveryVars
<1>18. CASE PersistWrite(w)
  <2>1. worker' \in [Workers -> Runs]
    BY <1>18, <1>0, GotoMoves, LeaveMoves, SnapshotMoves DEF PersistWrite, PCs, TypeOK
  <2>2. PICK answer \in Answers(writes) : WriteOutcome(w, answer)
    BY <1>18 DEF PersistWrite
  <2> QED
    BY <1>18, <2>1, <2>2, WriteOutcomeType DEF PersistWrite, MayPersistWrite
<1>19. CASE PersistRefused(w)
  <2>1. worker' \in [Workers -> Runs]
    BY <1>19, <1>0, GotoMoves DEF PersistRefused, PCs, GiveUp
  <2> QED
    BY <1>19, <2>1, SameRowsType DEF PersistRefused
<1>20. CASE PersistRead(w)
  <2>1. worker' \in [Workers -> Runs]
    BY <1>20, <1>0, GotoMoves, LeaveMoves DEF PersistRead, PCs, GiveUp
  <2>2. PICK answer \in ReadAnswers(w) : ReadOutcome(answer)
    BY <1>20 DEF PersistRead
  <2>3. exec \notin Reusable
    BY <1>20 DEF PersistRead, MayPersistRead, Reusable, Concluded
  <2> QED
    BY <1>20, <2>1, <2>2, <2>3, ReadOutcomeType DEF PersistRead
<1>21. CASE ResolveOAuth(w)
  <2>1. worker' \in [Workers -> Runs]
    BY <1>21, <1>0, GotoMoves, LeaveMoves DEF ResolveOAuth, PCs
  <2>2. ready' \in BOOLEAN /\ UNCHANGED <<approval, writes, reads, revoked, manual>>
        /\ UNCHANGED <<deliveryVars, restVars>>
    BY <1>21 DEF ResolveOAuth
  <2>3. CASE UNCHANGED <<rowVars, exec, local>>
    BY <2>1, <2>2, <2>3 DEF TypeOK, ReadsLeft, rowVars, deliveryVars, restVars
  <2>4. CASE /\ task' \in TaskStatuses /\ owner' = Null /\ lease' = "none" /\ due' = "none"
             /\ exec' \in Reusable /\ exec' \in Executions /\ local' \in Locals
    <3>1. ReadsLeft'
      BY <2>4 DEF ReadsLeft
    <3>2. TypeOK'
      BY <2>1, <2>2, <2>4 DEF TypeOK, deliveryVars, restVars
    <3> QED
      BY <3>1, <3>2
  <2>5. Fails \/ Outcome("needs_attention", "needs_attention", "needs_attention")
          => /\ task' \in TaskStatuses /\ owner' = Null /\ lease' = "none" /\ due' = "none"
             /\ exec' \in Reusable /\ exec' \in Executions /\ local' \in Locals
    BY DEF Fails, Outcome, Unscheduled, TaskStatuses, Executions, Locals, Reusable, Concluded
  <2> QED
    BY <1>21, <2>3, <2>4, <2>5 DEF ResolveOAuth
<1>22. CASE OAuthRefused(w)
  <2>1. worker' \in [Workers -> Runs]
    BY <1>22, <1>0, GotoMoves DEF OAuthRefused, PCs
  <2> QED
    BY <1>22, <2>1, SameRowsType DEF OAuthRefused
<1>23. CASE ScheduleRetry(w)
  <2>1. worker' \in [Workers -> Runs]
    BY <1>23, <1>0, LeaveMoves DEF ScheduleRetry, PCs
  <2> QED
    BY <1>23, <2>1
    DEF ScheduleRetry, TypeOK, ReadsLeft, rowVars, factVars, deliveryVars, restVars, TaskStatuses
<1>24. CASE RetryRefused(w)
  <2>1. worker' \in [Workers -> Runs]
    BY <1>24, <1>0, GotoMoves, LeaveMoves DEF RetryRefused, PCs, LeaveAsIs
  <2> QED
    BY <1>24, <2>1, SameRowsType, LeaveAsIsType DEF RetryRefused
<1>25. CASE Abandon(w)
  <2>1. worker' \in [Workers -> Runs]
    BY <1>25, <1>0, LeaveMoves DEF Abandon, PCs
  <2> QED
    BY <1>25, <2>1 DEF Abandon, TypeOK, ReadsLeft, rowVars, factVars, deliveryVars, restVars
<1>26. CASE NotAbandoned(w)
  <2>1. worker' \in [Workers -> Runs]
    BY <1>26, <1>0, GotoMoves, LeaveMoves DEF NotAbandoned, PCs, LeaveAsIs
  <2> QED
    BY <1>26, <2>1, SameRowsType, LeaveAsIsType DEF NotAbandoned
<1>27. CASE Fail(w)
  <2>1. worker' \in [Workers -> Runs]
    BY <1>27, <1>0, LeaveMoves DEF Fail, PCs
  <2> QED
    BY <1>27, <2>1
    DEF Fail, TypeOK, ReadsLeft, rowVars, factVars, deliveryVars, restVars, Unscheduled,
        IsBeforeRequest, TaskStatuses, Executions, Locals, Approvals, Reusable, Concluded
<1>28. CASE FailRefused(w)
  BY <1>28, LeaveAsIsType DEF FailRefused
<1>29. CASE Succeed(w)
  <2>1. worker' \in [Workers -> Runs]
    BY <1>29, <1>0, LeaveMoves DEF Succeed, PCs, LeaveAsIs
  <2>2. CASE Holds(w)
    <3>1. /\ task' = "succeeded" /\ owner' = Null /\ lease' = "none"
          /\ UNCHANGED <<due, factVars, deliveryVars, restVars>>
      BY <1>29, <2>2 DEF Succeed
    <3> QED
      BY <2>1, <3>1 DEF TypeOK, ReadsLeft, factVars, deliveryVars, restVars, TaskStatuses
  <2>3. CASE ~ Holds(w)
    BY <1>29, <2>3, LeaveAsIsType DEF Succeed
  <2> QED
    BY <2>2, <2>3
<1>30. CASE Converge(w)
  <2>1. worker' \in [Workers -> Runs]
    BY <1>30, <1>0, GotoMoves, LeaveMoves DEF Converge, PCs
  <2>2. CASE IsPreRequest
    BY <1>30, <2>1, <2>2
    DEF Converge, Fails, Outcome, Unscheduled, TypeOK, ReadsLeft, restVars,
        TaskStatuses, Executions, Locals, Reusable, Concluded
  <2>3. CASE ~ IsPreRequest
    <3>1. UNCHANGED <<rowVars, factVars, deliveryVars, restVars>>
      BY <1>30, <2>3 DEF Converge, rowVars, factVars, deliveryVars
    <3> QED
      BY <2>1, <3>1, SameRowsType
  <2> QED
    BY <2>2, <2>3
<1>31. CASE ClaimRead(w)
  <2>1. CASE MayClaimRead
    <3>1. DEFINE r == [worker[w] EXCEPT !.pc = "dispatch", !.mode = "read"]
    <3>2. worker' = [worker EXCEPT ![w] = r]
      BY <1>31, <2>1 DEF ClaimRead
    <3>3. r \in Runs
      <4>1. worker[w] \in Runs
        BY <1>0
      <4> QED
        BY <4>1 DEF Runs, PCs
    <3>4. worker' \in [Workers -> Runs]
      BY <1>0, <3>2, <3>3
    <3> QED
      BY <1>31, <2>1, <3>4 DEF ClaimRead, TypeOK, ReadsLeft, factVars, deliveryVars, restVars
  <2>2. CASE ~ MayClaimRead
    BY <1>31, <2>2, LeaveAsIsType DEF ClaimRead
  <2> QED
    BY <2>1, <2>2
<1>32. CASE Release(w)
  <2>1. worker' \in [Workers -> Runs]
    BY <1>32, <1>0, LeaveMoves DEF Release, PCs, LeaveAsIs
  <2>2. CASE task = "reconciling" /\ owner = w
    <3>1. /\ owner' = Null /\ lease' = "none"
          /\ UNCHANGED <<task, due, factVars, deliveryVars, restVars>>
      BY <1>32, <2>2 DEF Release
    <3> QED
      BY <2>1, <3>1 DEF TypeOK, ReadsLeft, factVars, deliveryVars, restVars
  <2>3. CASE ~ (task = "reconciling" /\ owner = w)
    BY <1>32, <2>3, LeaveAsIsType DEF Release
  <2> QED
    BY <2>2, <2>3
<1> QED
  BY <1>1, <1>2, <1>3, <1>4, <1>5, <1>6, <1>7, <1>8, <1>9, <1>10, <1>11, <1>12, <1>13,
     <1>14, <1>15, <1>16, <1>17, <1>18, <1>19, <1>20, <1>21, <1>22, <1>23, <1>24, <1>25,
     <1>26, <1>27, <1>28, <1>29, <1>30, <1>31, <1>32
  DEF RunStep

LEMMA TroubleType ==
  ASSUME TypeOK, ReadsLeft, NEW w \in Workers, Trouble(w)
  PROVE  TypeOK' /\ ReadsLeft'
<1> USE ConstantsAssumption
<1>0. worker \in [Workers -> Runs]
  BY DEF TypeOK
<1>1. CASE Interrupted(w)
  <2>1. worker' \in [Workers -> Runs]
    BY <1>0, <1>1, GotoMoves DEF Interrupted, GiveUp, PCs
  <2> QED
    BY <1>1, <2>1, SameRowsType DEF Interrupted
<1>2. CASE DatabaseError(w)
  <2>1. worker' \in [Workers -> Runs]
    BY <1>0, <1>2, GotoMoves DEF DatabaseError, PCs
  <2>2. CASE Lease(w)
    BY <2>1, <2>2 DEF Lease, TypeOK, ReadsLeft, factVars, deliveryVars, TaskStatuses
  <2> QED
    BY <1>2, <2>1, <2>2, SameRowsType DEF DatabaseError
<1>3. CASE Crash(w)
  <2>1. worker' \in [Workers -> Runs]
    BY <1>0, <1>3, LeaveMoves DEF Crash
  <2> QED
    BY <1>3, <2>1 DEF Crash, Orphaned, TypeOK, ReadsLeft, factVars, restVars
<1> QED
  BY <1>1, <1>2, <1>3 DEF Trouble

LEMMA ReceiveType ==
  ASSUME TypeOK, ReadsLeft, NEW w \in Workers, NEW m \in stream, Receive(w, m)
  PROVE  TypeOK' /\ ReadsLeft'
<1>1. worker' \in [Workers -> Runs]
  BY GotoMoves DEF Receive, Route, PCs, TypeOK
<1> QED
  BY <1>1 DEF Receive, TypeOK, ReadsLeft, rowVars, factVars, restVars

LEMMA ProviderType ==
  ASSUME TypeOK, ReadsLeft, NEW n \in 1..MaxWrites, Provider(n)
  PROVE  TypeOK' /\ ReadsLeft'
<1>1. request' \in [1..MaxWrites -> {"none", "sent", "applied", "rejected"}]
  BY DEF Provider, TypeOK
<1> QED
  BY <1>1 DEF Provider, TypeOK, ReadsLeft, rowVars, factVars, deliveryVars

LEMMA RevokeType ==
  ASSUME TypeOK, ReadsLeft, NEW reason \in {"read", "none"}, Revoke(reason)
  PROVE  TypeOK' /\ ReadsLeft'
<1>0. /\ access' = reason
      /\ UNCHANGED <<writes, reads, ready, manual, stream, attempts, spent, late,
                     content, interrupt, request, worker>>
  BY DEF Revoke
<1>1. CASE IsHandedOver(reason) /\ HandOver(reason)
  <2>1. /\ exec' = "reconciling" /\ task' = "reconciling" /\ local' = "needs_attention"
        /\ revoked' = reason /\ approval' = approval
    BY <1>1 DEF HandOver
  <2>3. /\ owner' \in {owner, Null} /\ lease' \in {lease, "none"} /\ due' \in {due, "due"}
        /\ outbox' \in {outbox, {"execute"}} /\ recovered' \in {recovered, FALSE}
    BY <1>1 DEF HandOver
  <2>2. exec \notin Reusable
    BY <1>1 DEF IsHandedOver, Reusable, Concluded
  <2>4. TypeOK'
    <3>1. /\ task' \in TaskStatuses /\ exec' \in Executions /\ local' \in Locals
          /\ approval' \in Approvals /\ revoked' \in {"no", "read", "none"}
          /\ access' \in {"full", "read", "none"}
      BY <1>0, <2>1 DEF TypeOK, TaskStatuses, Executions, Locals
    <3>2. /\ owner' \in Workers \cup {Null, Gone} /\ lease' \in {"none", "live", "expired"}
          /\ due' \in {"none", "later", "due"}
          /\ outbox' \subseteq {"initial", "execute", "reconcile"} /\ recovered' \in BOOLEAN
      BY <2>3 DEF TypeOK
    <3> QED
      BY <1>0, <3>1, <3>2 DEF TypeOK
  <2>5. ReadsLeft'
    BY <1>0, <2>2 DEF ReadsLeft
  <2> QED
    BY <2>4, <2>5
<1>2. CASE CancelUnclaimed
  BY <1>0, <1>2 DEF CancelUnclaimed, Unscheduled, TypeOK, ReadsLeft, TaskStatuses,
              Approvals, Locals
<1>3. CASE UNCHANGED <<rowVars, approval, exec, local, revoked, outbox, recovered>>
  BY <1>0, <1>3 DEF TypeOK, ReadsLeft, rowVars
<1> QED
  BY <1>1, <1>2, <1>3 DEF Revoke

LEMMA UserType ==
  ASSUME TypeOK, ReadsLeft, User
  PROVE  TypeOK' /\ ReadsLeft'
<1> USE ConstantsAssumption
<1>1. ASSUME NEW decision \in {"approved", "rejected"}, Resolve(decision)
      PROVE  TypeOK' /\ ReadsLeft'
  <2>1. local' \in Locals
    BY <1>1 DEF Resolve, BackToEditing, TypeOK, Locals
  <2> QED
    BY <1>1, <2>1 DEF Resolve, TypeOK, ReadsLeft, restVars, TaskStatuses, Approvals
<1>2. CASE Withdraw
  BY <1>2 DEF Withdraw, Unscheduled, TypeOK, ReadsLeft, deliveryVars, restVars,
              TaskStatuses, Approvals, Locals
<1>3. ASSUME NEW reason \in Revocations, Revoke(reason)
      PROVE  TypeOK' /\ ReadsLeft'
  BY <1>3, RevokeType DEF Revocations
<1>4. CASE Regrant
  BY <1>4 DEF Regrant, TypeOK, ReadsLeft, rowVars, factVars, deliveryVars
<1>5. ASSUME NEW resolution \in {"confirmed_executed", "confirmed_not_executed"},
             ManualResolve(resolution)
      PROVE  TypeOK' /\ ReadsLeft'
  <2>1. Succeeds \/ Fails
    BY <1>5 DEF ManualResolve, IsDisputed
  <2>2. /\ task' \in TaskStatuses /\ owner' = Null /\ lease' = "none" /\ due' = "none"
        /\ exec' \in Reusable /\ exec' \in Executions /\ local' \in Locals
    BY <2>1 DEF Succeeds, Fails, Outcome, Unscheduled, TaskStatuses, Reusable, Concluded,
                Executions, Locals
  <2> QED
    BY <1>5, <2>2 DEF ManualResolve, TypeOK, ReadsLeft, deliveryVars, restVars, IsDisputed
<1>6. CASE Reopen
  BY <1>6 DEF Reopen, TypeOK, ReadsLeft, restVars, TaskStatuses, Executions, IsDisputed
<1> QED
  BY <1>1, <1>2, <1>3, <1>4, <1>5, <1>6 DEF User

LEMMA ClockType ==
  ASSUME TypeOK, ReadsLeft, Clock
  PROVE  TypeOK' /\ ReadsLeft'
<1>1. CASE LeaseExpires
  BY <1>1 DEF LeaseExpires, TypeOK, ReadsLeft, factVars, deliveryVars, restVars
<1>2. CASE DeadlinePasses
  BY <1>2 DEF DeadlinePasses, TypeOK, ReadsLeft, rowVars, factVars, deliveryVars
<1>3. CASE BudgetSpent
  BY <1>3 DEF BudgetSpent, TypeOK, ReadsLeft, rowVars, factVars, deliveryVars
<1>4. CASE ReadDue
  BY <1>4 DEF ReadDue, TypeOK, ReadsLeft, factVars, deliveryVars, restVars
<1>5. CASE Expire
  <2>1. local' \in Locals
    BY <1>5 DEF Expire, BackToEditing, TypeOK, Locals
  <2>2. /\ task' \in TaskStatuses /\ owner' \in Workers \cup {Null, Gone}
        /\ lease' \in {"none", "live", "expired"} /\ due' \in {"none", "later", "due"}
        /\ outbox' \subseteq {"initial", "execute", "reconcile"}
    BY <1>5 DEF Expire, Unscheduled, TypeOK, TaskStatuses, rowVars
  <2> QED
    BY <1>5, <2>1, <2>2 DEF Expire, TypeOK, ReadsLeft, restVars, Approvals
<1> QED
  BY <1>1, <1>2, <1>3, <1>4, <1>5 DEF Clock

LEMMA EngineType ==
  ASSUME TypeOK, ReadsLeft, Engine
  PROVE  TypeOK' /\ ReadsLeft'
<1>1. ASSUME NEW row \in outbox, Publish(row)
      PROVE  TypeOK' /\ ReadsLeft'
  BY <1>1 DEF Publish, TypeOK, ReadsLeft, rowVars, factVars, restVars
<1>2. CASE StreamLost
  BY <1>2 DEF StreamLost, TypeOK, ReadsLeft, rowVars, factVars, restVars
<1>3. CASE Recover
  BY <1>3 DEF Recover, TypeOK, ReadsLeft, factVars, restVars, TaskStatuses
<1>4. CASE RecoverRead
  BY <1>4 DEF RecoverRead, TypeOK, ReadsLeft, rowVars, factVars, restVars
<1>5. CASE CleanContent
  <2>0. /\ content' = FALSE
        /\ UNCHANGED <<writes, reads, ready, manual, deliveryVars, attempts, spent,
                       late, interrupt, access, request, worker>>
    BY <1>5 DEF CleanContent
  <2>1. CASE /\ exec = "none"
             /\ approval' = "invalidated" /\ local' = "cancelled"
             /\ Unscheduled("cancelled")
             /\ UNCHANGED <<exec, revoked>>
    <3>1. /\ task' \in TaskStatuses /\ owner' = Null /\ lease' = "none" /\ due' = "none"
          /\ approval' \in Approvals /\ local' \in Locals /\ UNCHANGED <<exec, revoked>>
      BY <2>1 DEF Unscheduled, TaskStatuses, Approvals, Locals
    <3>2. ReadsLeft'
      BY <2>0, <3>1 DEF ReadsLeft
    <3>3. TypeOK'
      <4>1. /\ owner' \in Workers \cup {Null, Gone} /\ exec' \in Executions
            /\ revoked' \in {"no", "read", "none"} /\ content' \in BOOLEAN
        BY <2>0, <3>1 DEF TypeOK
      <4> QED
        BY <2>0, <3>1, <4>1 DEF TypeOK, deliveryVars
    <3> QED
      BY <3>2, <3>3
  <2>2. CASE /\ Outcome("needs_attention", "needs_attention", "needs_attention")
             /\ revoked' = "no"
             /\ UNCHANGED approval
    BY <2>0, <2>2 DEF Outcome, Unscheduled, TypeOK, ReadsLeft, deliveryVars,
                      TaskStatuses, Executions, Locals, Reusable, Concluded
  <2>3. CASE UNCHANGED <<rowVars, approval, exec, local, revoked>>
    <3>1. /\ UNCHANGED <<task, owner, lease, due>>
          /\ UNCHANGED <<approval, exec, local, revoked>>
      BY <2>3 DEF rowVars
    <3>2. TypeOK'
      <4>1. /\ task' \in TaskStatuses /\ owner' \in Workers \cup {Null, Gone}
            /\ lease' \in {"none", "live", "expired"} /\ due' \in {"none", "later", "due"}
            /\ approval' \in Approvals /\ exec' \in Executions /\ local' \in Locals
            /\ revoked' \in {"no", "read", "none"} /\ content' \in BOOLEAN
        BY <2>0, <3>1 DEF TypeOK
      <4> QED
        BY <2>0, <4>1 DEF TypeOK, deliveryVars
    <3>3. ReadsLeft'
      BY <2>0, <3>1 DEF ReadsLeft
    <3> QED
      BY <3>2, <3>3
  <2> QED
    BY <1>5, <2>1, <2>2, <2>3 DEF CleanContent
<1> QED
  BY <1>1, <1>2, <1>3, <1>4, <1>5 DEF Engine

\* Every variable of the action keeps its type in every reachable state; the
\* counter of the reads stays within its budget because the last read closes
\* the outcome (ReadsLeft).
THEOREM TypeCorrect == Spec => [](TypeOK /\ ReadsLeft)
<1>1. Init => TypeOK /\ ReadsLeft
  <2> SUFFICES ASSUME Init
               PROVE  TypeOK /\ ReadsLeft
    OBVIOUS
  <2>1. worker \in [Workers -> Runs]
    BY NoRunType DEF Init
  <2>2. request \in [1..MaxWrites -> {"none", "sent", "applied", "rejected"}]
    BY DEF Init
  <2>3. /\ attempts \in 0..(MaxRetries + 1) /\ writes \in 0..MaxWrites
        /\ reads \in 0..(MaxReads + MaxReopens) /\ reads < MaxReads + MaxReopens
    BY ConstantsAssumption DEF Init, MaxWrites
  <2> QED
    BY <2>1, <2>2, <2>3
    DEF Init, TypeOK, ReadsLeft, TaskStatuses, Approvals, Executions, Locals
<1>2. TypeOK /\ ReadsLeft /\ [Next]_vars => TypeOK' /\ ReadsLeft'
  <2> SUFFICES ASSUME TypeOK, ReadsLeft, [Next]_vars
               PROVE  TypeOK' /\ ReadsLeft'
    OBVIOUS
  <2>1. CASE UNCHANGED vars
    BY <2>1 DEF vars, TypeOK, ReadsLeft, rowVars, factVars, deliveryVars, restVars
  <2> QED
    BY <2>1, RunStepType, TroubleType, ReceiveType, ProviderType, UserType, ClockType,
       EngineType DEF Next
<1> QED
  BY <1>1, <1>2, PTL DEF Spec

-----------------------------------------------------------------------------
(* One open attempt: the row counts the attempts, and a run sends the      *)
(* request of an attempt that it has counted itself.                       *)

InFlight(w) == worker[w].pc \in {"sending", "waiting"}
Refused(n) == request[n] \in {"none", "rejected"}

\* The statuses from which an attempt may be started, or that come before it.
Startables == {"none", "claimed", "retryable_failed"}

\* Only the newest attempt may have had an effect: what is later does not
\* exist, what is earlier was refused, and so was everything before a retry.
OneOpen ==
  /\ \A n \in 1..MaxWrites : n > writes => request[n] = "none"
  /\ \A n \in 1..MaxWrites : n < writes => Refused(n)
  /\ exec \in {"none", "claimed"} => writes = 0
  /\ exec = "retryable_failed" => \A n \in 1..MaxWrites : Refused(n)

\* At most one run is between the start of an attempt and its answer; its
\* attempt is the newest one, and no other can be started meanwhile.
OneSender ==
  /\ \A w \in Workers : InFlight(w) => worker[w].writes + 1 = writes /\ exec \notin Startables
  /\ \A w \in Workers : At(w, "sending") => request[writes] = "none"
  /\ \A v, w \in Workers : InFlight(v) /\ InFlight(w) => v = w
  /\ \A w \in Workers : At(w, "start") /\ owner = w => worker[w].writes = writes

\* A step that starts nothing, sends nothing and answers nothing.
Calm ==
  /\ writes' = writes /\ request' = request
  /\ exec' = exec \/ exec' \notin Startables
  /\ \A v \in Workers :
       worker'[v] = worker[v] \/ worker'[v].pc \notin {"start", "sending", "waiting"}
  /\ \A v \in Workers : owner' = v => owner = v \/ worker'[v].pc # "start"

LEMMA CalmKeeps ==
  ASSUME OneOpen, OneSender, Calm
  PROVE  OneOpen' /\ OneSender'
<1>1. OneOpen'
  BY DEF OneOpen, Calm, Refused, Startables
<1>2. \A w \in Workers : InFlight(w)' => InFlight(w) /\ worker'[w] = worker[w]
  BY DEF Calm, InFlight
<1>3. \A w \in Workers : At(w, "sending")' => At(w, "sending")
  BY DEF Calm, At
<1>4. \A w \in Workers : At(w, "start")' /\ owner' = w =>
                           At(w, "start") /\ owner = w /\ worker'[w] = worker[w]
  BY DEF Calm, At
<1>5. exec \notin Startables => exec' \notin Startables
  BY DEF Calm
<1>6. writes' = writes /\ request' = request
  BY DEF Calm
<1>7. \A w \in Workers : InFlight(w)' =>
        worker'[w].writes + 1 = writes' /\ exec' \notin Startables
  BY <1>2, <1>5, <1>6 DEF OneSender
<1>8. \A w \in Workers : At(w, "sending")' => request'[writes'] = "none"
  BY <1>3, <1>6 DEF OneSender
<1>9. \A v, w \in Workers : InFlight(v)' /\ InFlight(w)' => v = w
  BY <1>2 DEF OneSender
<1>10. \A w \in Workers : At(w, "start")' /\ owner' = w => worker'[w].writes = writes'
  BY <1>4, <1>6 DEF OneSender
<1> QED
  BY <1>1, <1>7, <1>8, <1>9, <1>10 DEF OneSender

\* The three ways a calm step treats the workers.
LEMMA StillCalm ==
  ASSUME worker' = worker, writes' = writes, request' = request,
         exec' = exec \/ exec' \notin Startables,
         owner' \in {owner, Null, Gone}
  PROVE  Calm
  BY ConstantsAssumption DEF Calm

LEMMA GotoCalm ==
  ASSUME worker \in [Workers -> Runs], NEW w \in Workers,
         NEW pc \in PCs \ {"start", "sending", "waiting"}, Goto(w, pc),
         writes' = writes, request' = request,
         exec' = exec \/ exec' \notin Startables,
         owner' \in {owner, Null, Gone, w}
  PROVE  Calm
<1>1. worker'[w].pc = pc /\ \A v \in Workers \ {w} : worker'[v] = worker[v]
  BY GotoMoves
<1> QED
  BY <1>1, ConstantsAssumption DEF Calm

LEMMA LeaveCalm ==
  ASSUME worker \in [Workers -> Runs], NEW w \in Workers, Leave(w),
         writes' = writes, request' = request,
         exec' = exec \/ exec' \notin Startables,
         owner' \in {owner, Null, Gone}
  PROVE  Calm
<1>1. worker'[w].pc = "idle" /\ \A v \in Workers \ {w} : worker'[v] = worker[v]
  BY LeaveMoves
<1> QED
  BY <1>1, ConstantsAssumption DEF Calm

LEMMA LeaveAsIsCalm ==
  ASSUME worker \in [Workers -> Runs], NEW w \in Workers, LeaveAsIs(w)
  PROVE  Calm
  BY LeaveCalm DEF LeaveAsIs, Orphaned, factVars, restVars

\* What the run steps do that neither start, send nor answer a write.
QuietStep(w) ==
  \/ PrepareRetry(w) \/ Acquire(w) \/ NotAcquired(w) \/ FailInternal(w)
  \/ LoadApproval(w) \/ ConfirmCheckpoint(w) \/ FinalizeRejected(w) \/ ReuseClaim(w)
  \/ FailUnclaimed(w) \/ ClaimRefused(w) \/ ReuseOutcome(w) \/ StartRefused(w)
  \/ StartAbandoned(w) \/ PersistRefused(w) \/ PersistRead(w) \/ OAuthRefused(w)
  \/ ScheduleRetry(w) \/ RetryRefused(w) \/ Abandon(w) \/ NotAbandoned(w)
  \/ Fail(w) \/ FailRefused(w) \/ Succeed(w) \/ Converge(w)
  \/ ClaimRead(w) \/ Release(w)

LEMMA QuietStepCalm ==
  ASSUME TypeOK, NEW w \in Workers, QuietStep(w)
  PROVE  Calm
<1>0. worker \in [Workers -> Runs]
  BY DEF TypeOK
<1>1. CASE PrepareRetry(w)
  BY <1>1, <1>0, GotoCalm DEF PrepareRetry, PCs, factVars, restVars
<1>2. CASE Acquire(w)
  <2>1. worker'[w].pc # "start" /\ \A v \in Workers \ {w} : worker'[v] = worker[v]
    BY <1>2, <1>0 DEF Acquire, Runs
  <2>2. worker'[w].pc \notin {"start", "sending", "waiting"}
    BY <1>2, <1>0 DEF Acquire, Runs
  <2>3. owner' = w /\ writes' = writes /\ request' = request /\ exec' = exec
    BY <1>2 DEF Acquire, Lease, factVars
  <2> QED
    BY <2>1, <2>2, <2>3 DEF Calm
<1>3. CASE NotAcquired(w)
  BY <1>3, <1>0, LeaveAsIsCalm DEF NotAcquired
<1>4. CASE FailInternal(w)
  BY <1>4, <1>0, LeaveCalm DEF FailInternal, Orphaned, factVars, restVars
<1>5. CASE LoadApproval(w)
  BY <1>5, <1>0, GotoCalm DEF LoadApproval, PCs, Decision, rowVars, factVars
<1>6. CASE ConfirmCheckpoint(w)
  BY <1>6, <1>0, LeaveCalm DEF ConfirmCheckpoint, factVars, restVars
<1>7. CASE FinalizeRejected(w)
  BY <1>7, <1>0, GotoCalm, LeaveCalm
  DEF FinalizeRejected, PCs, Unscheduled, rowVars, factVars, restVars
<1>8. CASE ReuseClaim(w)
  BY <1>8, <1>0, GotoCalm DEF ReuseClaim, PCs, rowVars, factVars, restVars
<1>9. CASE FailUnclaimed(w)
  BY <1>9, <1>0, LeaveCalm DEF FailUnclaimed, Unscheduled, restVars
<1>10. CASE ClaimRefused(w)
  BY <1>10, <1>0, GotoCalm DEF ClaimRefused, PCs, rowVars, factVars, restVars
<1>11. CASE ReuseOutcome(w)
  BY <1>11, <1>0, GotoCalm, LeaveAsIsCalm DEF ReuseOutcome, PCs, rowVars, factVars, restVars
<1>12. CASE StartRefused(w)
  BY <1>12, <1>0, LeaveCalm DEF StartRefused, Fails, Outcome, Unscheduled, Startables, restVars
<1>13. CASE StartAbandoned(w)
  BY <1>13, <1>0, LeaveAsIsCalm DEF StartAbandoned
<1>14. CASE PersistRefused(w)
  BY <1>14, <1>0, GotoCalm DEF PersistRefused, PCs, GiveUp, rowVars, factVars, restVars
<1>15. CASE PersistRead(w)
  <2>1. writes' = writes /\ request' = request
    BY <1>15 DEF PersistRead, restVars
  <2>2. exec' \notin Startables /\ owner' = Null
    BY <1>15 DEF PersistRead, ReadOutcome, Succeeds, ReadAgain, Outcome, Unscheduled, Startables
  <2>3. CASE Leave(w)
    BY <1>0, <2>1, <2>2, <2>3, LeaveCalm
  <2>4. CASE Goto(w, GiveUp(w))
    BY <1>0, <2>1, <2>2, <2>4, GotoCalm DEF GiveUp, PCs
  <2> QED
    BY <1>15, <2>3, <2>4 DEF PersistRead
<1>16. CASE OAuthRefused(w)
  BY <1>16, <1>0, GotoCalm DEF OAuthRefused, PCs, rowVars, factVars, restVars
<1>17. CASE ScheduleRetry(w)
  BY <1>17, <1>0, LeaveCalm DEF ScheduleRetry, factVars, restVars
<1>18. CASE RetryRefused(w)
  BY <1>18, <1>0, GotoCalm, LeaveAsIsCalm DEF RetryRefused, PCs, rowVars, factVars, restVars
<1>19. CASE Abandon(w)
  BY <1>19, <1>0, LeaveCalm DEF Abandon, factVars, restVars
<1>20. CASE NotAbandoned(w)
  BY <1>20, <1>0, GotoCalm, LeaveAsIsCalm DEF NotAbandoned, PCs, rowVars, factVars, restVars
<1>21. CASE Fail(w)
  BY <1>21, <1>0, LeaveCalm DEF Fail, Unscheduled, Startables, restVars
<1>22. CASE FailRefused(w)
  BY <1>22, <1>0, LeaveAsIsCalm DEF FailRefused
<1>23. CASE Succeed(w)
  <2>1. CASE Holds(w)
    <3>1. Leave(w) /\ owner' = Null /\ UNCHANGED <<factVars, restVars>>
      BY <1>23, <2>1 DEF Succeed
    <3> QED
      BY <1>0, <3>1, LeaveCalm DEF factVars, restVars
  <2>2. CASE ~ Holds(w)
    BY <1>23, <1>0, <2>2, LeaveAsIsCalm DEF Succeed
  <2> QED
    BY <2>1, <2>2
<1>24. CASE Converge(w)
  BY <1>24, <1>0, GotoCalm, LeaveCalm
  DEF Converge, PCs, Fails, Outcome, Unscheduled, Startables, rowVars, factVars, restVars
<1>25. CASE ClaimRead(w)
  <2>1. CASE MayClaimRead
    <3>1. worker'[w].pc = "dispatch" /\ \A v \in Workers \ {w} : worker'[v] = worker[v]
      BY <1>25, <1>0, <2>1 DEF ClaimRead, Runs
    <3>2. owner' = w /\ UNCHANGED <<factVars, restVars>>
      BY <1>25, <2>1 DEF ClaimRead
    <3> QED
      BY <3>1, <3>2 DEF Calm, factVars, restVars
  <2>2. CASE ~ MayClaimRead
    BY <1>25, <1>0, <2>2, LeaveAsIsCalm DEF ClaimRead
  <2> QED
    BY <2>1, <2>2
<1>26. CASE Release(w)
  <2>1. CASE task = "reconciling" /\ owner = w
    <3>1. Leave(w) /\ owner' = Null /\ UNCHANGED <<factVars, restVars>>
      BY <1>26, <2>1 DEF Release
    <3> QED
      BY <1>0, <3>1, LeaveCalm DEF factVars, restVars
  <2>2. CASE ~ (task = "reconciling" /\ owner = w)
    BY <1>26, <1>0, <2>2, LeaveAsIsCalm DEF Release
  <2> QED
    BY <2>1, <2>2
<1> QED
  BY <1>1, <1>2, <1>3, <1>4, <1>5, <1>6, <1>7, <1>8, <1>9, <1>10, <1>11, <1>12, <1>13,
     <1>14, <1>15, <1>16, <1>17, <1>18, <1>19, <1>20, <1>21, <1>22, <1>23, <1>24, <1>25,
     <1>26
  DEF QuietStep

LEMMA TroubleCalm ==
  ASSUME TypeOK, NEW w \in Workers, Trouble(w)
  PROVE  Calm
<1>0. worker \in [Workers -> Runs]
  BY DEF TypeOK
<1>1. CASE Interrupted(w)
  BY <1>1, <1>0, GotoCalm DEF Interrupted, GiveUp, PCs, rowVars, factVars, restVars
<1>2. CASE DatabaseError(w)
  <2>1. /\ owner' \in {owner, w} /\ writes' = writes /\ request' = request /\ exec' = exec
        /\ Goto(w, "erring")
    BY <1>2 DEF DatabaseError, Lease, rowVars, factVars, restVars
  <2> QED
    BY <1>0, <2>1, GotoCalm DEF PCs
<1>3. CASE Crash(w)
  BY <1>3, <1>0, LeaveCalm DEF Crash, Orphaned, factVars, restVars
<1> QED
  BY <1>1, <1>2, <1>3 DEF Trouble

LEMMA ReceiveCalm ==
  ASSUME TypeOK, NEW w \in Workers, NEW m \in stream, Receive(w, m)
  PROVE  Calm
<1>0. worker \in [Workers -> Runs]
  BY DEF TypeOK
<1> QED
  BY <1>0, GotoCalm DEF Receive, Route, PCs, rowVars, factVars, restVars

LEMMA UserCalm ==
  ASSUME User
  PROVE  Calm
<1>1. ASSUME NEW decision \in {"approved", "rejected"}, Resolve(decision)
      PROVE  Calm
  BY <1>1, StillCalm DEF Resolve, restVars
<1>2. CASE Withdraw
  BY <1>2, StillCalm DEF Withdraw, Unscheduled, restVars
<1>3. ASSUME NEW reason \in Revocations, Revoke(reason)
      PROVE  Calm
  <2>0. writes' = writes /\ request' = request /\ worker' = worker
    BY <1>3 DEF Revoke
  <2>1. CASE HandOver(reason)
    BY <2>0, <2>1, StillCalm DEF HandOver, Startables
  <2>2. CASE CancelUnclaimed
    BY <2>0, <2>2, StillCalm DEF CancelUnclaimed, Unscheduled
  <2>3. CASE UNCHANGED <<rowVars, approval, exec, local, revoked, outbox, recovered>>
    BY <2>0, <2>3, StillCalm DEF rowVars
  <2> QED
    BY <1>3, <2>1, <2>2, <2>3 DEF Revoke
<1>4. CASE Regrant
  BY <1>4, StillCalm DEF Regrant, rowVars, factVars
<1>5. ASSUME NEW resolution \in {"confirmed_executed", "confirmed_not_executed"},
             ManualResolve(resolution)
      PROVE  Calm
  <2>1. Succeeds \/ Fails
    BY <1>5 DEF ManualResolve, IsDisputed
  <2> QED
    BY <1>5, <2>1, StillCalm
    DEF ManualResolve, Succeeds, Fails, Outcome, Unscheduled, Startables, restVars, IsDisputed
<1>6. CASE Reopen
  BY <1>6, StillCalm DEF Reopen, Startables, restVars, IsDisputed
<1> QED
  BY <1>1, <1>2, <1>3, <1>4, <1>5, <1>6 DEF User

LEMMA ClockCalm ==
  ASSUME Clock
  PROVE  Calm
<1>1. CASE LeaseExpires
  BY <1>1, StillCalm DEF LeaseExpires, factVars, restVars
<1>2. CASE DeadlinePasses
  BY <1>2, StillCalm DEF DeadlinePasses, rowVars, factVars
<1>3. CASE BudgetSpent
  BY <1>3, StillCalm DEF BudgetSpent, rowVars, factVars
<1>4. CASE ReadDue
  BY <1>4, StillCalm DEF ReadDue, factVars, restVars
<1>5. CASE Expire
  <2>1. owner' \in {owner, Null}
    BY <1>5 DEF Expire, Unscheduled, rowVars
  <2> QED
    BY <1>5, <2>1, StillCalm DEF Expire, restVars
<1> QED
  BY <1>1, <1>2, <1>3, <1>4, <1>5 DEF Clock

LEMMA EngineCalm ==
  ASSUME Engine
  PROVE  Calm
<1>1. ASSUME NEW row \in outbox, Publish(row)
      PROVE  Calm
  BY <1>1, StillCalm DEF Publish, rowVars, factVars, restVars
<1>2. CASE StreamLost
  BY <1>2, StillCalm DEF StreamLost, rowVars, factVars, restVars
<1>3. CASE Recover
  BY <1>3, StillCalm DEF Recover, factVars, restVars
<1>4. CASE RecoverRead
  BY <1>4, StillCalm DEF RecoverRead, rowVars, factVars, restVars
<1>5. CASE CleanContent
  <2>1. exec' = exec \/ exec' \notin Startables
    BY <1>5 DEF CleanContent, Outcome, Startables
  <2>2. owner' \in {owner, Null}
    BY <1>5 DEF CleanContent, Outcome, Unscheduled, rowVars
  <2> QED
    BY <1>5, <2>1, <2>2, StillCalm DEF CleanContent
<1> QED
  BY <1>1, <1>2, <1>3, <1>4, <1>5 DEF Engine

-----------------------------------------------------------------------------
(* The steps that start, send and answer a write.                          *)

LEMMA CreateClaimKeeps ==
  ASSUME TypeOK, OneOpen, OneSender, NEW w \in Workers, CreateClaim(w)
  PROVE  OneOpen' /\ OneSender'
<1>0. worker \in [Workers -> Runs]
  BY DEF TypeOK
<1>1. exec = "none" /\ writes = 0 /\ exec' = "claimed"
      /\ UNCHANGED <<writes, request, owner>>
  BY DEF CreateClaim, MayClaim, OneOpen, rowVars, restVars
<1>2. \A v \in Workers : ~ InFlight(v)
  BY <1>1 DEF OneSender, Startables
<1>3. \A v \in Workers : worker'[v] = worker[v] \/ worker'[v].pc \in {"dispatch", "failing"}
  BY <1>0, GotoMoves DEF CreateClaim, PCs
<1>4. OneOpen'
  BY <1>1 DEF OneOpen, Refused
<1>5. \A v \in Workers : ~ InFlight(v)' /\ ~ At(v, "sending")'
  BY <1>2, <1>3 DEF InFlight, At
<1>6. \A v \in Workers : At(v, "start")' /\ owner' = v => worker'[v].writes = writes'
  BY <1>1, <1>3 DEF At, OneSender
<1> QED
  BY <1>4, <1>5, <1>6 DEF OneSender

\* A run may start only what it has seen in its snapshot.
LEMMA DispatchKeeps ==
  ASSUME TypeOK, OneOpen, OneSender, NEW w \in Workers, Dispatch(w)
  PROVE  OneOpen' /\ OneSender'
<1>0. worker \in [Workers -> Runs]
  BY DEF TypeOK
<1>1. UNCHANGED <<exec, writes, request, owner>>
  BY DEF Dispatch, rowVars, factVars, restVars
<1>2. PICK pc \in DispatchTo(w) : Snapshot(w, pc)
  BY DEF Dispatch
<1>3. pc \in PCs \ {"sending", "waiting"}
  BY <1>2 DEF DispatchTo, GiveUp, PCs
<1>4. /\ worker'[w].pc = pc /\ worker'[w].writes = writes
      /\ \A v \in Workers \ {w} : worker'[v] = worker[v]
  BY <1>2, <1>3, SnapshotMoves DEF TypeOK
<1>5. OneOpen'
  BY <1>1 DEF OneOpen, Refused
<1>6. \A v \in Workers : InFlight(v)' => InFlight(v) /\ worker'[v] = worker[v]
  BY <1>3, <1>4 DEF InFlight
<1>7. \A v \in Workers : At(v, "sending")' => At(v, "sending")
  BY <1>3, <1>4 DEF At
<1>8. \A v \in Workers : At(v, "start")' /\ owner' = v => worker'[v].writes = writes'
  BY <1>1, <1>4 DEF At, OneSender
<1> QED
  BY <1>1, <1>5, <1>6, <1>7, <1>8 DEF OneSender

\* The one step that opens an attempt: nothing was open, and nobody sends.
LEMMA StartKeeps ==
  ASSUME TypeOK, OneOpen, OneSender, NEW w \in Workers, Start(w)
  PROVE  OneOpen' /\ OneSender'
<1>0. worker \in [Workers -> Runs] /\ writes \in Nat
  BY ConstantsAssumption DEF TypeOK, MaxWrites
<1>1. /\ exec \in {"claimed", "retryable_failed"} /\ owner = w /\ exec' = "executing"
      /\ writes' = writes + 1 /\ writes < MaxWrites /\ UNCHANGED <<request, owner>>
  BY DEF Start, Startable, Holds, rowVars, restVars
<1>2. \A v \in Workers : ~ InFlight(v)
  BY <1>1 DEF OneSender, Startables
<1>3. worker[w].writes = writes
  BY <1>1 DEF Start, OneSender
<1>4. /\ worker'[w].pc \in {"sending", "abandoning"} /\ worker'[w].writes = writes
      /\ \A v \in Workers \ {w} : worker'[v] = worker[v]
  BY <1>0, <1>3, GotoMoves DEF Start, PCs
<1>5. \A n \in 1..MaxWrites : Refused(n)
  BY <1>0, <1>1 DEF OneOpen, Refused
<1>6. \A n \in 1..MaxWrites : n > writes => request[n] = "none"
  BY DEF OneOpen
<1>7. OneOpen'
  BY <1>0, <1>1, <1>5, <1>6 DEF OneOpen, Refused
<1>8. \A v \in Workers : InFlight(v)' => v = w
  BY <1>2, <1>4 DEF InFlight
<1>9. worker'[w].writes + 1 = writes' /\ exec' \notin Startables
  BY <1>1, <1>4 DEF Startables
<1>10. request'[writes'] = "none"
  BY <1>0, <1>1, <1>6, ConstantsAssumption DEF MaxWrites
<1>11. \A v \in Workers : At(v, "start")' /\ owner' = v => worker'[v].writes = writes'
  BY <1>1, <1>4 DEF At
<1> QED
  BY <1>7, <1>8, <1>9, <1>10, <1>11 DEF OneSender

\* What is sent is the newest attempt, which was never sent before.
LEMMA SendsNewest ==
  ASSUME TypeOK, OneOpen, OneSender, NEW w \in Workers, Send(w)
  PROVE  /\ worker[w].writes + 1 = writes
         /\ request' = [request EXCEPT ![writes] = "sent"]
         /\ request[writes] = "none"
         /\ \A n \in 1..MaxWrites : Refused(n)
<1>0. writes \in 0..MaxWrites
  BY DEF TypeOK
<1>1. At(w, "sending") /\ InFlight(w)
  BY DEF Send, At, InFlight
<1>2. worker[w].writes + 1 = writes /\ request[writes] = "none"
  BY <1>1 DEF OneSender
<1>3. \A n \in 1..MaxWrites : Refused(n)
  BY <1>0, <1>2, ConstantsAssumption DEF OneOpen, Refused, MaxWrites
<1> QED
  BY <1>2, <1>3 DEF Send

LEMMA SendKeeps ==
  ASSUME TypeOK, OneOpen, OneSender, NEW w \in Workers, Send(w)
  PROVE  OneOpen' /\ OneSender'
<1>0. /\ worker \in [Workers -> Runs] /\ writes \in 0..MaxWrites
      /\ request \in [1..MaxWrites -> {"none", "sent", "applied", "rejected"}]
  BY DEF TypeOK
<1>1. /\ worker[w].writes + 1 = writes
      /\ request' = [request EXCEPT ![writes] = "sent"]
  BY SendsNewest
<1>2. UNCHANGED <<exec, writes, owner>> /\ InFlight(w) /\ At(w, "sending")
  BY DEF Send, rowVars, factVars, At, InFlight
<1>3. /\ worker'[w].pc = "waiting" /\ worker'[w].writes = worker[w].writes
      /\ \A v \in Workers \ {w} : worker'[v] = worker[v]
  BY <1>0, GotoMoves DEF Send, PCs
<1>4. \A v \in Workers : InFlight(v) => v = w
  BY <1>2 DEF OneSender
<1>5. exec \notin Startables
  BY <1>2 DEF OneSender
<1>6. OneOpen'
  BY <1>0, <1>1, <1>2, <1>5 DEF OneOpen, Refused, Startables
<1>7. \A v \in Workers : InFlight(v)' => v = w
  BY <1>3, <1>4 DEF InFlight
<1>8. \A v \in Workers : ~ At(v, "sending")'
  BY <1>3, <1>4 DEF At, InFlight
<1>9. \A v \in Workers : At(v, "start")' /\ owner' = v => worker'[v].writes = writes'
  BY <1>2, <1>3 DEF At, OneSender
<1> QED
  BY <1>1, <1>2, <1>3, <1>5, <1>6, <1>7, <1>8, <1>9 DEF OneSender

LEMMA ProviderKeeps ==
  ASSUME TypeOK, OneOpen, OneSender, NEW n \in 1..MaxWrites, Provider(n)
  PROVE  OneOpen' /\ OneSender'
<1>0. request \in [1..MaxWrites -> {"none", "sent", "applied", "rejected"}]
  BY DEF TypeOK
<1>1. UNCHANGED <<exec, writes, owner, worker>> /\ request[n] = "sent"
  BY DEF Provider, rowVars, factVars
<1>2. \A m \in 1..MaxWrites : m # n => request'[m] = request[m]
  BY <1>0 DEF Provider
<1>3. n = writes /\ exec # "retryable_failed" /\ exec \notin {"none", "claimed"}
  BY <1>1, ConstantsAssumption DEF OneOpen, Refused, TypeOK, MaxWrites
<1>4. \A v \in Workers : ~ At(v, "sending")
  BY <1>1, <1>3 DEF OneSender
<1>5. OneOpen'
  BY <1>1, <1>2, <1>3 DEF OneOpen, Refused
<1> QED
  BY <1>1, <1>4, <1>5 DEF OneSender, InFlight, At

\* A retry is granted only for an answer that proves the refusal.
LEMMA PersistWriteKeeps ==
  ASSUME TypeOK, OneOpen, OneSender, NEW w \in Workers, PersistWrite(w)
  PROVE  OneOpen' /\ OneSender'
<1>0. worker \in [Workers -> Runs] /\ writes \in 0..MaxWrites
  BY DEF TypeOK
<1>1. UNCHANGED <<writes, request>> /\ InFlight(w)
  BY DEF PersistWrite, restVars, At, InFlight
<1>2. PICK answer \in Answers(writes) :
        /\ WriteOutcome(w, answer)
        /\ \/ /\ Retries(w, answer)
              /\ Snapshot(w, IF answer = "retryable" THEN "retrying" ELSE "oauth")
           \/ ~ Retries(w, answer) /\ Leave(w)
           \/ Goto(w, "abandoning")
  BY DEF PersistWrite
<1>3. /\ worker'[w].pc \in {"retrying", "oauth", "idle", "abandoning"}
      /\ \A v \in Workers \ {w} : worker'[v] = worker[v]
  <2>1. CASE Snapshot(w, IF answer = "retryable" THEN "retrying" ELSE "oauth")
    <3> DEFINE pc == IF answer = "retryable" THEN "retrying" ELSE "oauth"
    <3>1. pc \in {"retrying", "oauth"} /\ pc \in PCs
      BY DEF PCs
    <3>2. reads \in 0..(MaxReads + MaxReopens)
      BY DEF TypeOK
    <3>3. /\ worker'[w].pc = pc
          /\ \A v \in Workers \ {w} : worker'[v] = worker[v]
      BY <1>0, <2>1, <3>1, <3>2, SnapshotMoves
    <3> QED
      BY <3>1, <3>3
  <2>2. CASE Leave(w)
    BY <1>0, <2>2, LeaveMoves
  <2>3. CASE Goto(w, "abandoning")
    BY <1>0, <2>3, GotoMoves DEF PCs
  <2> QED
    BY <1>2, <2>1, <2>2, <2>3
<1>4. \A v \in Workers : ~ InFlight(v)' /\ ~ At(v, "sending")'
  BY <1>1, <1>3 DEF OneSender, InFlight, At
<1>5. owner' = owner \/ owner' = Null
  BY <1>2 DEF WriteOutcome, Succeeds, Fails, ReadAgain, Outcome, Unscheduled, rowVars
<1>6. \A v \in Workers : At(v, "start")' /\ owner' = v => worker'[v].writes = writes'
  BY <1>1, <1>3, <1>5, ConstantsAssumption DEF At, OneSender
<1>7. exec' \notin Startables \/ (exec' = "retryable_failed" /\ Retries(w, answer))
  BY <1>2 DEF WriteOutcome, Succeeds, Fails, ReadAgain, Outcome, Startables
<1>8. Retries(w, answer) => request[writes] = "rejected"
  BY <1>2 DEF Retries, Answers
<1>9. exec' = "retryable_failed" => \A n \in 1..MaxWrites : Refused(n)
  BY <1>0, <1>7, <1>8, ConstantsAssumption DEF OneOpen, Refused, Startables, MaxWrites
<1>10. OneOpen'
  BY <1>1, <1>7, <1>9 DEF OneOpen, Refused, Startables
<1> QED
  BY <1>4, <1>6, <1>10 DEF OneSender

LEMMA ResolveOAuthKeeps ==
  ASSUME TypeOK, OneOpen, OneSender, NEW w \in Workers, ResolveOAuth(w)
  PROVE  OneOpen' /\ OneSender'
<1>0. worker \in [Workers -> Runs]
  BY DEF TypeOK
<1>1. /\ UNCHANGED <<writes, request>> /\ exec = "retryable_failed"
      /\ writes = worker[w].writes
  BY DEF ResolveOAuth, MayResolveOAuth, restVars
<1>2. CASE Leave(w) /\ owner' = Null /\ exec' \notin Startables
  <2>1. Calm
    BY <1>0, <1>1, <1>2, LeaveCalm
  <2> QED
    BY <2>1, CalmKeeps
<1>3. CASE /\ Goto(w, IF ready THEN "start" ELSE "retrying")
           /\ UNCHANGED <<rowVars, exec, local>>
  <2> DEFINE pc == IF ready THEN "start" ELSE "retrying"
  <2>1. pc \in {"start", "retrying"} /\ pc \in PCs
    BY DEF PCs
  <2>2. /\ worker'[w].pc = pc /\ worker'[w].writes = writes
        /\ \A v \in Workers \ {w} : worker'[v] = worker[v]
    BY <1>0, <1>1, <1>3, <2>1, GotoMoves
  <2>3. UNCHANGED <<exec, owner>>
    BY <1>3 DEF rowVars
  <2>4. \A v \in Workers : ~ InFlight(v)
    BY <1>1 DEF OneSender, Startables
  <2>5. \A v \in Workers : ~ InFlight(v)' /\ ~ At(v, "sending")'
    BY <2>1, <2>2, <2>4 DEF InFlight, At
  <2>6. \A v \in Workers : At(v, "start")' /\ owner' = v => worker'[v].writes = writes'
    BY <1>1, <2>2, <2>3 DEF At, OneSender
  <2>7. OneOpen'
    BY <1>1, <2>3 DEF OneOpen, Refused
  <2> QED
    BY <2>5, <2>6, <2>7 DEF OneSender
<1>4. \/ Leave(w) /\ owner' = Null /\ exec' \notin Startables
      \/ /\ Goto(w, IF ready THEN "start" ELSE "retrying")
         /\ UNCHANGED <<rowVars, exec, local>>
  BY DEF ResolveOAuth, Fails, Outcome, Unscheduled, Startables
<1> QED
  BY <1>2, <1>3, <1>4

LEMMA RunStepKeeps ==
  ASSUME TypeOK, OneOpen, OneSender, NEW w \in Workers, RunStep(w)
  PROVE  OneOpen' /\ OneSender'
<1>1. CASE QuietStep(w)
  BY <1>1, QuietStepCalm, CalmKeeps
<1>2. \/ QuietStep(w) \/ CreateClaim(w) \/ Dispatch(w) \/ Start(w) \/ Send(w)
      \/ PersistWrite(w) \/ ResolveOAuth(w)
  BY DEF RunStep, QuietStep
<1> QED
  BY <1>1, <1>2, CreateClaimKeeps, DispatchKeeps, StartKeeps, SendKeeps,
     PersistWriteKeeps, ResolveOAuthKeeps

\* The inductive invariant behind the two properties of the writes.
LEMMA WritesInvariant == Spec => [](TypeOK /\ OneOpen /\ OneSender)
<1>1. Init => OneOpen /\ OneSender
  <2> SUFFICES ASSUME Init
               PROVE  OneOpen /\ OneSender
    OBVIOUS
  <2>1. \A w \in Workers : worker[w].pc = "idle"
    BY DEF Init, NoRun
  <2>2. OneSender
    BY <2>1 DEF OneSender, InFlight, At
  <2>3. OneOpen
    BY DEF Init, OneOpen, Refused
  <2> QED
    BY <2>2, <2>3
<1>2. TypeOK /\ OneOpen /\ OneSender /\ [Next]_vars => OneOpen' /\ OneSender'
  <2> SUFFICES ASSUME TypeOK, OneOpen, OneSender, [Next]_vars
               PROVE  OneOpen' /\ OneSender'
    OBVIOUS
  <2>1. CASE UNCHANGED vars
    <3>1. Calm
      BY <2>1, StillCalm DEF vars, rowVars, factVars, restVars
    <3> QED
      BY <3>1, CalmKeeps
  <2>2. ASSUME NEW w \in Workers, RunStep(w)
        PROVE  OneOpen' /\ OneSender'
    BY <2>2, RunStepKeeps
  <2>3. ASSUME NEW n \in 1..MaxWrites, Provider(n)
        PROVE  OneOpen' /\ OneSender'
    BY <2>3, ProviderKeeps
  <2>4. CASE Calm
    BY <2>4, CalmKeeps
  <2>5. ASSUME NEW w \in Workers, Trouble(w) \/ \E m \in stream : Receive(w, m)
        PROVE  Calm
    BY <2>5, TroubleCalm, ReceiveCalm
  <2>6. ASSUME User \/ Clock \/ Engine
        PROVE  Calm
    BY <2>6, UserCalm, ClockCalm, EngineCalm
  <2> QED
    BY <2>1, <2>2, <2>3, <2>4, <2>5, <2>6 DEF Next
<1> QED
  BY <1>1, <1>2, TypeCorrect, PTL DEF Spec

\* However many workers take the action up, however often its message, its
\* lease or its process is lost, and whatever the provider answers or does
\* not answer: it acts at most once.
THEOREM EffectHappensOnce == Spec => []AtMostOneEffect
<1>1. TypeOK /\ OneOpen => AtMostOneEffect
  <2> SUFFICES ASSUME TypeOK, OneOpen
               PROVE  Cardinality(Applied) <= 1
    BY DEF AtMostOneEffect
  <2>1. Applied \subseteq {writes}
    BY ConstantsAssumption DEF Applied, OneOpen, Refused, TypeOK, MaxWrites
  <2>2. Applied = {} \/ Applied = {writes}
    BY <2>1
  <2>3. Cardinality({}) = 0 /\ Cardinality({writes}) = 1
    BY FS_EmptySet, FS_Singleton
  <2> QED
    BY <2>2, <2>3
<1> QED
  BY <1>1, WritesInvariant, PTL

\* A request leaves the worker only when every other one was refused or was
\* never sent.
THEOREM NoRetryWhileUnsureHolds == Spec => NoRetryWhileUnsure
<1> DEFINE OnlyWhenSure ==
      \A n \in 1..MaxWrites :
        request[n] = "none" /\ request'[n] = "sent" =>
          \A m \in 1..MaxWrites : m # n => request[m] \in {"none", "rejected"}
<1>1. TypeOK /\ OneOpen /\ OneSender /\ [Next]_vars => [OnlyWhenSure]_vars
  <2> SUFFICES ASSUME TypeOK, OneOpen, OneSender, Next
               PROVE  OnlyWhenSure
    OBVIOUS
  <2>1. ASSUME NEW w \in Workers, Send(w)
        PROVE  OnlyWhenSure
    BY <2>1, SendsNewest DEF Refused
  <2>2. CASE request' = request
    BY <2>2
  <2>3. ASSUME NEW n \in 1..MaxWrites, Provider(n)
        PROVE  OnlyWhenSure
    <3>1. request[n] = "sent" /\ \A m \in 1..MaxWrites : m # n => request'[m] = request[m]
      BY <2>3 DEF Provider, TypeOK
    <3> QED
      BY <3>1
  <2>4. ASSUME NEW w \in Workers, RunStep(w), ~ Send(w)
        PROVE  request' = request
    <3>1. CASE QuietStep(w)
      BY <3>1, QuietStepCalm DEF Calm
    <3>2. CASE CreateClaim(w) \/ Dispatch(w) \/ Start(w) \/ PersistWrite(w) \/ ResolveOAuth(w)
      BY <3>2 DEF CreateClaim, Dispatch, Start, PersistWrite, ResolveOAuth, restVars
    <3> QED
      BY <2>4, <3>1, <3>2 DEF RunStep, QuietStep
  <2>5. ASSUME NEW w \in Workers, Trouble(w) \/ \E m \in stream : Receive(w, m)
        PROVE  request' = request
    BY <2>5, TroubleCalm, ReceiveCalm DEF Calm
  <2>6. ASSUME User \/ Clock \/ Engine
        PROVE  request' = request
    BY <2>6, UserCalm, ClockCalm, EngineCalm DEF Calm
  <2> QED
    BY <2>1, <2>2, <2>3, <2>4, <2>5, <2>6 DEF Next
<1> QED
  BY <1>1, WritesInvariant, PTL DEF Spec, NoRetryWhileUnsure

-----------------------------------------------------------------------------
(* The rows of an action.                                                  *)

Rows == RowsAgree /\ (approval = "pending" => exec = "none")

\* Where a run is tells what it has seen: an undecided approval, or an
\* execution that will not be started again.
Placed ==
  /\ \A w \in Workers : At(w, "interrupted") /\ owner = w => exec = "none"
  /\ \A w \in Workers : At(w, "succeeding") => exec \in Reusable \cup {"reconciling"}

AllRefused ==
  /\ \A n \in 1..MaxWrites : Refused(n)
  /\ \A w \in Workers : ~ InFlight(w)

\* The ways of an execution.  Without the user it succeeds only when a write
\* took effect, and it fails only when every request was refused and no other
\* can follow.
ExecMoves ==
  \/ exec' = exec
  \/ exec = "none" /\ exec' = "claimed"
  \/ exec \in {"claimed", "retryable_failed"} /\ exec' = "executing"
  \/ exec = "executing" /\ exec' = "retryable_failed"
  \/ /\ exec \notin Concluded \cup {"none"}
     /\ exec' \in {"reconciling", "needs_attention"}
  \/ /\ exec \notin Startables \cup Concluded /\ exec' = "succeeded"
     /\ manual' # "none" \/ Applied # {}
  \/ /\ exec \notin Concluded \cup {"none"} /\ exec' = "confirmed_failed"
     /\ manual' # "none" \/ AllRefused'

\* The user settles only what needs attention.
ManualMoves ==
  \/ manual' = manual
  \/ manual' # "none" /\ exec = "needs_attention" /\ exec' \in Concluded

\* The approval is given while the action awaits it, and it is taken back only
\* together with the action.
ConsentMoves ==
  \/ /\ approval' = approval
     /\ exec = "none" => local' = local \/ (exec' = "claimed" /\ local = "awaiting_approval")
  \/ /\ exec = "none" /\ exec' = "none"
     /\ approval = "pending" /\ approval' = "approved"
     /\ local = "awaiting_approval" /\ local' = local
  \/ /\ exec = "none" /\ exec' = "none"
     /\ approval' # "approved" /\ local' \in {"editing", "cancelled"}
  \/ /\ exec \in {"claimed", "retryable_failed"} /\ exec' = "confirmed_failed"
     /\ approval' # "approved"

RowStep == Rows' /\ ExecMoves /\ ManualMoves /\ ConsentMoves

LEMMA SameRows ==
  ASSUME Rows, UNCHANGED <<task, approval, exec, local, manual>>
  PROVE  RowStep
  BY DEF RowStep, Rows, RowsAgree, ExecMoves, ManualMoves, ConsentMoves

LEMMA CalmRefused ==
  ASSUME Calm, AllRefused
  PROVE  AllRefused'
  BY DEF Calm, AllRefused, Refused, InFlight

\* Before an attempt everything is refused.
LEMMA StartableRefused ==
  ASSUME TypeOK, OneOpen, OneSender, exec \in Startables
  PROVE  AllRefused
<1>1. \A w \in Workers : ~ InFlight(w)
  BY DEF OneSender
<1>2. \A n \in 1..MaxWrites : Refused(n)
  BY ConstantsAssumption DEF OneOpen, Startables, Refused, TypeOK, MaxWrites
<1> QED
  BY <1>1, <1>2 DEF AllRefused

LEMMA NoWriteRefused ==
  ASSUME TypeOK, OneOpen, OneSender, writes = 0
  PROVE  AllRefused
<1>1. \A w \in Workers : ~ InFlight(w)
  BY ConstantsAssumption DEF OneSender, TypeOK, Runs, MaxWrites
<1>2. \A n \in 1..MaxWrites : Refused(n)
  BY ConstantsAssumption DEF OneOpen, Refused, MaxWrites
<1> QED
  BY <1>1, <1>2 DEF AllRefused

LEMMA RunStepRows ==
  ASSUME TypeOK, OneOpen, OneSender, Rows, Placed, NEW w \in Workers, RunStep(w)
  PROVE  RowStep
<1>0. worker \in [Workers -> Runs]
  BY DEF TypeOK
<1>1. CASE PrepareRetry(w)
  BY <1>1
  DEF PrepareRetry, RowStep, Rows, RowsAgree, ExecMoves, ManualMoves, ConsentMoves, factVars
<1>2. CASE Acquire(w)
  BY <1>2
  DEF Acquire, RowStep, Rows, RowsAgree, ExecMoves, ManualMoves, ConsentMoves, Acquirable,
      Lease, factVars
<1>3. CASE NotAcquired(w)
  BY <1>3, SameRows DEF NotAcquired, LeaveAsIs, factVars
<1>4. CASE FailInternal(w)
  BY <1>4
  DEF FailInternal, RowStep, Rows, RowsAgree, ExecMoves, ManualMoves, ConsentMoves, Holds,
      factVars
<1>5. CASE LoadApproval(w)
  BY <1>5, SameRows DEF LoadApproval, rowVars, factVars
<1>6. CASE ConfirmCheckpoint(w)
  <2>1. At(w, "interrupted") /\ UNCHANGED factVars
        /\ IF task = "running" /\ owner = w THEN task' = "waiting_approval" ELSE task' = task
    BY <1>6 DEF ConfirmCheckpoint
  <2> QED
    BY <2>1 DEF Placed, RowStep, Rows, RowsAgree, ExecMoves, ManualMoves, ConsentMoves, factVars
<1>7. CASE FinalizeRejected(w)
  BY <1>7
  DEF FinalizeRejected, RowStep, Rows, RowsAgree, ExecMoves, ManualMoves, ConsentMoves, Holds,
      Unscheduled, rowVars, factVars
<1>8. CASE ReuseClaim(w)
  BY <1>8, SameRows DEF ReuseClaim, rowVars, factVars
<1>9. CASE CreateClaim(w)
  BY <1>9
  DEF CreateClaim, RowStep, Rows, RowsAgree, ExecMoves, ManualMoves, ConsentMoves, MayClaim,
      Holds, rowVars
<1>10. CASE FailUnclaimed(w)
  BY <1>10
  DEF FailUnclaimed, RowStep, Rows, RowsAgree, ExecMoves, ManualMoves, ConsentMoves, MayClaim,
      Holds, Unscheduled
<1>11. CASE ClaimRefused(w)
  BY <1>11, SameRows DEF ClaimRefused, rowVars, factVars
<1>12. CASE Dispatch(w)
  BY <1>12, SameRows DEF Dispatch, rowVars, factVars
<1>13. CASE ReuseOutcome(w)
  BY <1>13, SameRows DEF ReuseOutcome, LeaveAsIs, rowVars, factVars
<1>14. CASE Start(w)
  BY <1>14
  DEF Start, RowStep, Rows, RowsAgree, ExecMoves, ManualMoves, ConsentMoves, Startable, Holds,
      rowVars
<1>15. CASE StartRefused(w)
  <2>1. QuietStep(w) /\ exec \in Startables
    BY <1>15 DEF QuietStep, StartRefused, Startable, Startables
  <2>2. AllRefused'
    BY <2>1, QuietStepCalm, StartableRefused, CalmRefused
  <2> QED
    BY <1>15, <2>2
   
    DEF StartRefused, Startable, Fails, RowStep, Rows, RowsAgree, ExecMoves, ManualMoves,
        ConsentMoves, Outcome, Unscheduled, Concluded
<1>16. CASE StartAbandoned(w)
  BY <1>16, SameRows DEF StartAbandoned, LeaveAsIs, factVars
<1>17. CASE Send(w)
  BY <1>17, SameRows DEF Send, rowVars, factVars
<1>18. CASE PersistWrite(w)
  <2>1. /\ exec = "executing" /\ approval = "approved" /\ local = "executing" /\ task = "running"
        /\ approval' = approval /\ manual' = manual
    BY <1>18 DEF PersistWrite, MayPersistWrite, Holds
  <2>2. PICK answer \in Answers(writes) :
          /\ WriteOutcome(w, answer)
          /\ \/ Retries(w, answer)
             \/ ~ Retries(w, answer) /\ Leave(w)
             \/ Goto(w, "abandoning")
    BY <1>18 DEF PersistWrite
  <2>3. answer = "applied" => Applied # {}
    <3>1. InFlight(w)
      BY <1>18 DEF PersistWrite, At, InFlight
    <3>2. writes \in 1..MaxWrites
      BY <1>0, <3>1, ConstantsAssumption DEF OneSender, TypeOK, Runs, MaxWrites
    <3> QED
      BY <2>2, <3>2 DEF Answers, Applied
  <2>4. CASE answer = "applied" /\ Succeeds
    BY <2>1, <2>4, <2>3
    DEF Startables, Succeeds, RowStep, Rows, RowsAgree, ExecMoves, ManualMoves, ConsentMoves,
        Outcome, Unscheduled, Concluded
  <2>5. CASE ReadAgain("reconcile")
    BY <2>1, <2>5
    DEF ReadAgain, RowStep, Rows, RowsAgree, ExecMoves, ManualMoves, ConsentMoves, Concluded
  <2>6. CASE exec' = "retryable_failed" /\ UNCHANGED <<rowVars, local>>
    BY <2>1, <2>6 DEF RowStep, Rows, RowsAgree, ExecMoves, ManualMoves, ConsentMoves, rowVars
  <2>7. CASE answer \notin {"applied", "unknown"} /\ ~ Retries(w, answer) /\ Fails
    <3>1. request[writes] = "rejected" /\ UNCHANGED request
      BY <1>18, <2>2, <2>7 DEF PersistWrite, Answers, restVars
    <3>2. \A n \in 1..MaxWrites : Refused(n)'
      BY <3>1, ConstantsAssumption DEF OneOpen, Refused, TypeOK, MaxWrites
    <3>3. InFlight(w)
      BY <1>18 DEF PersistWrite, At, InFlight
    <3>4. /\ worker'[w].pc \in {"idle", "abandoning"}
          /\ \A v \in Workers \ {w} : worker'[v] = worker[v]
      BY <2>2, <2>7, <1>0, LeaveMoves, GotoMoves DEF PCs
    <3>5. \A v \in Workers : ~ InFlight(v)'
      BY <3>3, <3>4 DEF OneSender, InFlight
    <3>6. AllRefused'
      BY <3>2, <3>5 DEF AllRefused
    <3> QED
      BY <2>1, <2>7, <3>6
      DEF Fails, RowStep, Rows, RowsAgree, ExecMoves, ManualMoves, ConsentMoves, Outcome,
          Unscheduled, Concluded
  <2> QED
    BY <2>2, <2>4, <2>5, <2>6, <2>7 DEF WriteOutcome
<1>19. CASE PersistRefused(w)
  BY <1>19, SameRows DEF PersistRefused, rowVars, factVars
<1>20. CASE PersistRead(w)
  <2>1. /\ exec \in {"executing", "reconciling"} /\ approval = "approved"
        /\ approval' = approval /\ manual' = manual
    BY <1>20 DEF PersistRead, MayPersistRead
  <2>2. PICK answer \in ReadAnswers(w) : ReadOutcome(answer)
    BY <1>20 DEF PersistRead
  <2>3. answer = "applied" => Applied # {}
    BY <2>2 DEF ReadAnswers
  <2>4. CASE answer = "applied" /\ Succeeds
    BY <2>1, <2>4, <2>3
    DEF Startables, Succeeds, RowStep, Rows, RowsAgree, ExecMoves, ManualMoves, ConsentMoves,
        Outcome, Unscheduled, Concluded
  <2>5. CASE ReadAgain("reconcile")
    BY <2>1, <2>5
    DEF ReadAgain, RowStep, Rows, RowsAgree, ExecMoves, ManualMoves, ConsentMoves, Concluded
  <2>6. CASE Outcome("needs_attention", "needs_attention", "needs_attention")
    BY <2>1, <2>6
    DEF RowStep, Rows, RowsAgree, ExecMoves, ManualMoves, ConsentMoves, Outcome, Unscheduled,
        Concluded
  <2> QED
    BY <2>2, <2>4, <2>5, <2>6 DEF ReadOutcome
<1>21. CASE ResolveOAuth(w)
  <2>1. /\ exec = "retryable_failed" /\ approval = "approved"
        /\ approval' = approval /\ manual' = manual /\ UNCHANGED <<writes, request>>
    BY <1>21 DEF ResolveOAuth, MayResolveOAuth, restVars
  <2>2. AllRefused
    BY <2>1, StartableRefused DEF Startables
  <2>3. CASE UNCHANGED <<rowVars, exec, local>>
    BY <2>1, <2>3, SameRows DEF rowVars
  <2>4. CASE Fails /\ Leave(w)
    <3>1. exec' \notin Startables /\ owner' = Null
      BY <2>4 DEF Fails, Outcome, Unscheduled, Startables
    <3>2. AllRefused'
      BY <1>0, <2>1, <2>2, <2>4, <3>1, LeaveCalm, CalmRefused
    <3> QED
      BY <2>1, <2>4, <3>2
      DEF Fails, RowStep, Rows, RowsAgree, ExecMoves, ManualMoves, ConsentMoves, Outcome,
          Unscheduled, Concluded
  <2>5. CASE Outcome("needs_attention", "needs_attention", "needs_attention")
    BY <2>1, <2>5
    DEF RowStep, Rows, RowsAgree, ExecMoves, ManualMoves, ConsentMoves, Outcome, Unscheduled,
        Concluded
  <2> QED
    BY <1>21, <2>3, <2>4, <2>5 DEF ResolveOAuth
<1>22. CASE OAuthRefused(w)
  BY <1>22, SameRows DEF OAuthRefused, rowVars, factVars
<1>23. CASE ScheduleRetry(w)
  BY <1>23
  DEF ScheduleRetry, RowStep, Rows, RowsAgree, ExecMoves, ManualMoves, ConsentMoves, Holds,
      factVars
<1>24. CASE RetryRefused(w)
  BY <1>24, SameRows DEF RetryRefused, LeaveAsIs, rowVars, factVars
<1>25. CASE Abandon(w)
  BY <1>25, SameRows DEF Abandon, rowVars, factVars
<1>26. CASE NotAbandoned(w)
  BY <1>26, SameRows DEF NotAbandoned, LeaveAsIs, rowVars, factVars
<1>27. CASE Fail(w)
  <2>1. QuietStep(w) /\ exec \in Startables
    BY <1>27 DEF QuietStep, Fail, IsBeforeRequest, Startables
  <2>2. AllRefused'
    BY <2>1, QuietStepCalm, StartableRefused, CalmRefused
  <2> QED
    BY <1>27, <2>2
   
    DEF Fail, IsBeforeRequest, Unscheduled, Concluded, RowStep, Rows, RowsAgree, ExecMoves,
        ManualMoves, ConsentMoves
<1>28. CASE FailRefused(w)
  BY <1>28, SameRows DEF FailRefused, LeaveAsIs, factVars
<1>29. CASE Succeed(w)
  <2>1. ~ Holds(w)
    BY <1>29 DEF Succeed, Holds, Placed, Rows, RowsAgree, Reusable, Concluded
  <2> QED
    BY <1>29, <2>1, SameRows DEF Succeed, LeaveAsIs, factVars
<1>30. CASE Converge(w)
  <2>1. CASE IsPreRequest
    <3>1. QuietStep(w) /\ writes = 0
      BY <1>30, <2>1 DEF QuietStep, IsPreRequest
    <3>2. AllRefused'
      BY <3>1, QuietStepCalm, NoWriteRefused, CalmRefused
    <3>3. Fails /\ UNCHANGED <<approval, manual>>
      BY <1>30, <2>1 DEF Converge
    <3>4. exec = "reconciling"
      BY <2>1 DEF IsPreRequest
    <3> QED
      BY <3>2, <3>3, <3>4
      DEF Fails, RowStep, Rows, RowsAgree, ExecMoves, ManualMoves, ConsentMoves, Outcome,
          Unscheduled, Concluded
  <2>2. CASE ~ IsPreRequest
    BY <1>30, <2>2, SameRows DEF Converge, rowVars
  <2> QED
    BY <2>1, <2>2
<1>31. CASE ClaimRead(w)
  <2>1. UNCHANGED <<task, factVars>>
    BY <1>31 DEF ClaimRead, LeaveAsIs
  <2> QED
    BY <2>1, SameRows DEF factVars
<1>32. CASE Release(w)
  <2>1. UNCHANGED <<task, factVars>>
    BY <1>32 DEF Release, LeaveAsIs
  <2> QED
    BY <2>1, SameRows DEF factVars
<1> QED
  BY <1>1, <1>2, <1>3, <1>4, <1>5, <1>6, <1>7, <1>8, <1>9, <1>10, <1>11, <1>12, <1>13,
     <1>14, <1>15, <1>16, <1>17, <1>18, <1>19, <1>20, <1>21, <1>22, <1>23, <1>24, <1>25,
     <1>26, <1>27, <1>28, <1>29, <1>30, <1>31, <1>32
  DEF RunStep

LEMMA OtherStepRows ==
  ASSUME TypeOK, OneOpen, OneSender, Rows, Next,
         ~ \E w \in Workers : RunStep(w)
  PROVE  RowStep
<1>1. ASSUME NEW w \in Workers, Trouble(w)
      PROVE  RowStep
  <2>1. CASE Interrupted(w)
    BY <2>1, SameRows DEF Interrupted, rowVars, factVars
  <2>2. CASE DatabaseError(w)
    <3>1. CASE UNCHANGED <<rowVars, factVars>>
      BY <3>1, SameRows DEF rowVars, factVars
    <3>2. CASE Acquirable /\ Lease(w)
      BY <3>2
      DEF Acquirable, Lease, RowStep, Rows, RowsAgree, ExecMoves, ManualMoves, ConsentMoves,
          factVars
    <3> QED
      BY <2>2, <3>1, <3>2 DEF DatabaseError
  <2>3. CASE Crash(w)
    BY <2>3, SameRows DEF Crash, factVars
  <2> QED
    BY <1>1, <2>1, <2>2, <2>3 DEF Trouble
<1>2. ASSUME NEW w \in Workers, NEW m \in stream, Receive(w, m)
      PROVE  RowStep
  BY <1>2, SameRows DEF Receive, rowVars, factVars
<1>3. ASSUME NEW n \in 1..MaxWrites, Provider(n)
      PROVE  RowStep
  BY <1>3, SameRows DEF Provider, rowVars, factVars
<1>4. CASE User
  <2>1. ASSUME NEW decision \in {"approved", "rejected"}, Resolve(decision)
        PROVE  RowStep
    BY <2>1
    DEF Resolve, BackToEditing, RowStep, Rows, RowsAgree, ExecMoves, ManualMoves, ConsentMoves
  <2>2. CASE Withdraw
    BY <2>2
    DEF Withdraw, Unscheduled, RowStep, Rows, RowsAgree, ExecMoves, ManualMoves, ConsentMoves
  <2>3. ASSUME NEW reason \in Revocations, Revoke(reason)
        PROVE  RowStep
    <3>1. manual' = manual
      BY <2>3 DEF Revoke
    <3>2. CASE IsHandedOver(reason) /\ HandOver(reason)
      BY <3>1, <3>2
      DEF IsHandedOver, HandOver, RowStep, Rows, RowsAgree, ExecMoves, ManualMoves,
          ConsentMoves, Concluded
    <3>3. CASE IsUnclaimed /\ CancelUnclaimed
      BY <3>1, <3>3
     
      DEF IsUnclaimed, CancelUnclaimed, Unscheduled, RowStep, Rows, RowsAgree, ExecMoves,
          ManualMoves, ConsentMoves
    <3>4. CASE UNCHANGED <<rowVars, approval, exec, local, revoked, outbox, recovered>>
      BY <3>1, <3>4, SameRows DEF rowVars
    <3> QED
      BY <2>3, <3>2, <3>3, <3>4 DEF Revoke
  <2>4. CASE Regrant
    BY <2>4, SameRows DEF Regrant, rowVars, factVars
  <2>5. ASSUME NEW resolution \in {"confirmed_executed", "confirmed_not_executed"},
               ManualResolve(resolution)
        PROVE  RowStep
    <3>1. /\ exec = "needs_attention" /\ manual' # "none" /\ approval' = approval
          /\ approval = "approved"
      BY <2>5 DEF ManualResolve, IsDisputed
    <3>2. Succeeds \/ Fails
      BY <2>5 DEF ManualResolve, IsDisputed
    <3> QED
      BY <3>1, <3>2
     
      DEF Succeeds, Fails, Outcome, Unscheduled, Concluded, Startables, RowStep, Rows,
          RowsAgree, ExecMoves, ManualMoves, ConsentMoves
  <2>6. CASE Reopen
    BY <2>6 DEF Reopen, RowStep, Rows, RowsAgree, ExecMoves, ManualMoves, ConsentMoves, Concluded, IsDisputed
  <2> QED
    BY <1>4, <2>1, <2>2, <2>3, <2>4, <2>5, <2>6 DEF User
<1>5. CASE Clock
  <2>1. CASE LeaseExpires \/ DeadlinePasses \/ BudgetSpent \/ ReadDue
    BY <2>1, SameRows DEF LeaseExpires, DeadlinePasses, BudgetSpent, ReadDue, rowVars, factVars
  <2>2. CASE Expire
    <3>1. /\ approval = "pending" /\ exec = "none" /\ approval' = "expired"
          /\ UNCHANGED <<exec, manual>>
      BY <2>2 DEF Expire, Rows
    <3>2. local' = IF local = "awaiting_approval" THEN "editing" ELSE local
      BY <2>2 DEF Expire, BackToEditing
    <3>3. task' \in {task, "cancelled", "failed"}
      BY <2>2 DEF Expire, Unscheduled, rowVars
    <3> QED
      BY <3>1, <3>2, <3>3 DEF RowStep, Rows, RowsAgree, ExecMoves, ManualMoves, ConsentMoves
  <2> QED
    BY <1>5, <2>1, <2>2 DEF Clock
<1>6. CASE Engine
  <2>1. ASSUME NEW row \in outbox, Publish(row)
        PROVE  RowStep
    BY <2>1, SameRows DEF Publish, rowVars, factVars
  <2>2. CASE StreamLost \/ RecoverRead
    BY <2>2, SameRows DEF StreamLost, RecoverRead, rowVars, factVars
  <2>3. CASE Recover
    BY <2>3 DEF Recover, RowStep, Rows, RowsAgree, ExecMoves, ManualMoves, ConsentMoves, factVars
  <2>4. CASE CleanContent
    <3>1. manual' = manual
      BY <2>4 DEF CleanContent
    <3>2. CASE /\ exec = "none"
               /\ approval' = "invalidated" /\ local' = "cancelled"
               /\ Unscheduled("cancelled")
               /\ UNCHANGED <<exec, revoked>>
      BY <3>1, <3>2
      DEF Unscheduled, RowStep, Rows, RowsAgree, ExecMoves, ManualMoves, ConsentMoves
    <3>3. CASE /\ IsOpenAction
               /\ Outcome("needs_attention", "needs_attention", "needs_attention")
               /\ revoked' = "no"
               /\ UNCHANGED approval
      BY <3>1, <3>3
     
      DEF TypeOK, Executions, IsOpenAction, Outcome, Unscheduled, Concluded, RowStep, Rows,
          RowsAgree, ExecMoves, ManualMoves, ConsentMoves
    <3>4. CASE UNCHANGED <<rowVars, approval, exec, local, revoked>>
      BY <3>1, <3>4, SameRows DEF rowVars
    <3> QED
      BY <2>4, <3>2, <3>3, <3>4 DEF CleanContent
  <2> QED
    BY <1>6, <2>1, <2>2, <2>3, <2>4 DEF Engine
<1> QED
  BY <1>1, <1>2, <1>3, <1>4, <1>5, <1>6 DEF Next

-----------------------------------------------------------------------------
(* Where the runs are.                                                     *)

\* A step of a run that neither pauses for the approval nor goes on with an
\* outcome that is not its own.
Onward(w) ==
  /\ \A v \in Workers \ {w} : worker'[v] = worker[v]
  /\ worker'[w].pc \notin {"interrupted", "succeeding"}
  /\ owner' \in {owner, Null, Gone, w}

LEMMA OnwardKeeps ==
  ASSUME Placed, ExecMoves, NEW w \in Workers, Onward(w),
         exec = "none" => exec' = "none" \/ owner = w
  PROVE  Placed'
<1>1. \A v \in Workers : At(v, "interrupted")' /\ owner' = v => v # w /\ owner = v
  BY ConstantsAssumption DEF Onward, At
<1>2. \A v \in Workers : At(v, "interrupted")' /\ owner' = v => exec' = "none"
  BY <1>1 DEF Onward, Placed, At
<1>3. \A v \in Workers : At(v, "succeeding")' => At(v, "succeeding")
  BY DEF Onward, At
<1>4. exec \in Reusable \cup {"reconciling"} => exec' \in Reusable \cup {"reconciling"}
  BY DEF ExecMoves, Reusable, Concluded
<1> QED
  BY <1>2, <1>3, <1>4 DEF Placed

LEMMA StillKeeps ==
  ASSUME Placed, ExecMoves, worker' = worker, owner' \in {owner, Null, Gone},
         exec = "none" => exec' = "none"
  PROVE  Placed'
<1>1. exec \in Reusable \cup {"reconciling"} => exec' \in Reusable \cup {"reconciling"}
  BY DEF ExecMoves, Reusable, Concluded
<1> QED
  BY <1>1, ConstantsAssumption DEF Placed, At

LEMMA GotoOnward ==
  ASSUME worker \in [Workers -> Runs], NEW w \in Workers,
         NEW pc \in PCs \ {"interrupted", "succeeding"}, Goto(w, pc),
         owner' \in {owner, Null, Gone, w}
  PROVE  Onward(w)
  BY GotoMoves DEF Onward

LEMMA SnapshotOnward ==
  ASSUME TypeOK, NEW w \in Workers, NEW pc \in PCs \ {"interrupted", "succeeding"},
         Snapshot(w, pc), owner' \in {owner, Null, Gone, w}
  PROVE  Onward(w)
  BY SnapshotMoves DEF Onward, TypeOK

LEMMA LeaveOnward ==
  ASSUME worker \in [Workers -> Runs], NEW w \in Workers, Leave(w),
         owner' \in {owner, Null, Gone, w}
  PROVE  Onward(w)
  BY LeaveMoves DEF Onward

LEMMA LeaveAsIsOnward ==
  ASSUME worker \in [Workers -> Runs], NEW w \in Workers, LeaveAsIs(w)
  PROVE  Onward(w)
  BY LeaveOnward DEF LeaveAsIs, Orphaned

LEMMA RunStepOnward ==
  ASSUME TypeOK, NEW w \in Workers, RunStep(w),
         ~ LoadApproval(w), ~ ReuseOutcome(w), ~ PersistRefused(w)
  PROVE  Onward(w)
<1>0. worker \in [Workers -> Runs]
  BY DEF TypeOK
<1>1. CASE PrepareRetry(w)
  BY <1>1, <1>0, GotoOnward DEF PrepareRetry, PCs
<1>2. CASE Acquire(w)
  <2>1. worker'[w].pc \in {"failing", "leased"} /\ \A v \in Workers \ {w} : worker'[v] = worker[v]
    BY <1>2, <1>0 DEF Acquire, Runs
  <2>2. owner' = w
    BY <1>2 DEF Acquire, Lease
  <2> QED
    BY <2>1, <2>2 DEF Onward
<1>3. CASE NotAcquired(w)
  BY <1>3, <1>0, LeaveAsIsOnward DEF NotAcquired
<1>4. CASE FailInternal(w)
  BY <1>4, <1>0, LeaveOnward DEF FailInternal, Orphaned
<1>5. CASE ConfirmCheckpoint(w)
  BY <1>5, <1>0, LeaveOnward DEF ConfirmCheckpoint
<1>6. CASE FinalizeRejected(w)
  BY <1>6, <1>0, GotoOnward, LeaveOnward DEF FinalizeRejected, PCs, Unscheduled, rowVars
<1>7. CASE ReuseClaim(w)
  BY <1>7, <1>0, GotoOnward DEF ReuseClaim, PCs, rowVars
<1>8. CASE CreateClaim(w)
  BY <1>8, <1>0, GotoOnward DEF CreateClaim, PCs, rowVars
<1>9. CASE FailUnclaimed(w)
  BY <1>9, <1>0, LeaveOnward DEF FailUnclaimed, Unscheduled
<1>10. CASE ClaimRefused(w)
  BY <1>10, <1>0, GotoOnward DEF ClaimRefused, PCs, rowVars
<1>11. CASE Dispatch(w)
  <2>1. PICK pc \in DispatchTo(w) : Snapshot(w, pc)
    BY <1>11 DEF Dispatch
  <2>2. pc \in PCs \ {"interrupted", "succeeding"}
    BY <2>1 DEF DispatchTo, GiveUp, PCs
  <2>3. owner' = owner
    BY <1>11 DEF Dispatch, rowVars
  <2> QED
    BY <2>1, <2>2, <2>3, SnapshotOnward
<1>12. CASE Start(w)
  BY <1>12, <1>0, GotoOnward DEF Start, PCs, rowVars
<1>13. CASE StartRefused(w)
  BY <1>13, <1>0, LeaveOnward DEF StartRefused, Fails, Outcome, Unscheduled
<1>14. CASE StartAbandoned(w)
  BY <1>14, <1>0, LeaveAsIsOnward DEF StartAbandoned
<1>15. CASE Send(w)
  BY <1>15, <1>0, GotoOnward DEF Send, PCs, rowVars
<1>16. CASE PersistWrite(w)
  <2>1. owner' \in {owner, Null}
    BY <1>16
    DEF PersistWrite, WriteOutcome, Succeeds, Fails, ReadAgain, Outcome, Unscheduled, rowVars
  <2>2. \/ Snapshot(w, "retrying") \/ Snapshot(w, "oauth")
        \/ Leave(w) \/ Goto(w, "abandoning")
    BY <1>16 DEF PersistWrite
  <2> QED
    BY <1>0, <2>1, <2>2, SnapshotOnward, LeaveOnward, GotoOnward DEF PCs
<1>17. CASE PersistRead(w)
  <2>1. owner' = Null
    BY <1>17 DEF PersistRead, ReadOutcome, Succeeds, ReadAgain, Outcome, Unscheduled
  <2>2. Leave(w) \/ Goto(w, "releasing") \/ Goto(w, "abandoning")
    BY <1>17 DEF PersistRead, GiveUp
  <2> QED
    BY <1>0, <2>1, <2>2, LeaveOnward, GotoOnward DEF PCs
<1>18. CASE ResolveOAuth(w)
  <2>1. owner' \in {owner, Null}
    BY <1>18 DEF ResolveOAuth, Fails, Outcome, Unscheduled, rowVars
  <2>2. Leave(w) \/ Goto(w, "start") \/ Goto(w, "retrying")
    BY <1>18 DEF ResolveOAuth
  <2> QED
    BY <1>0, <2>1, <2>2, LeaveOnward, GotoOnward DEF PCs
<1>19. CASE OAuthRefused(w)
  BY <1>19, <1>0, GotoOnward DEF OAuthRefused, PCs, rowVars
<1>20. CASE ScheduleRetry(w)
  BY <1>20, <1>0, LeaveOnward DEF ScheduleRetry
<1>21. CASE RetryRefused(w)
  BY <1>21, <1>0, GotoOnward, LeaveAsIsOnward DEF RetryRefused, PCs, rowVars
<1>22. CASE Abandon(w)
  BY <1>22, <1>0, LeaveOnward DEF Abandon
<1>23. CASE NotAbandoned(w)
  BY <1>23, <1>0, GotoOnward, LeaveAsIsOnward DEF NotAbandoned, PCs, rowVars
<1>24. CASE Fail(w)
  BY <1>24, <1>0, LeaveOnward DEF Fail, Unscheduled
<1>25. CASE FailRefused(w)
  BY <1>25, <1>0, LeaveAsIsOnward DEF FailRefused
<1>26. CASE Succeed(w)
  <2>1. Leave(w) /\ owner' \in {owner, Null, Gone}
    BY <1>26 DEF Succeed, LeaveAsIs, Orphaned
  <2> QED
    BY <1>0, <2>1, LeaveOnward
<1>27. CASE Converge(w)
  <2>1. owner' \in {owner, Null}
    BY <1>27 DEF Converge, Fails, Outcome, Unscheduled, rowVars
  <2>2. Leave(w) \/ Goto(w, "claiming")
    BY <1>27 DEF Converge
  <2> QED
    BY <1>0, <2>1, <2>2, LeaveOnward, GotoOnward DEF PCs
<1>28. CASE ClaimRead(w)
  <2>1. CASE MayClaimRead
    <3>1. worker'[w].pc = "dispatch" /\ \A v \in Workers \ {w} : worker'[v] = worker[v]
      BY <1>28, <1>0, <2>1 DEF ClaimRead, Runs
    <3>2. owner' = w
      BY <1>28, <2>1 DEF ClaimRead
    <3> QED
      BY <3>1, <3>2 DEF Onward
  <2>2. CASE ~ MayClaimRead
    BY <1>28, <1>0, <2>2, LeaveAsIsOnward DEF ClaimRead
  <2> QED
    BY <2>1, <2>2
<1>29. CASE Release(w)
  <2>1. Leave(w) /\ owner' \in {owner, Null, Gone}
    BY <1>29 DEF Release, LeaveAsIs, Orphaned
  <2> QED
    BY <1>0, <2>1, LeaveOnward
<1> QED
  BY <1>1, <1>2, <1>3, <1>4, <1>5, <1>6, <1>7, <1>8, <1>9, <1>10, <1>11, <1>12, <1>13,
     <1>14, <1>15, <1>16, <1>17, <1>18, <1>19, <1>20, <1>21, <1>22, <1>23, <1>24, <1>25,
     <1>26, <1>27, <1>28, <1>29
  DEF RunStep

LEMMA RunStepPlaced ==
  ASSUME TypeOK, OneOpen, OneSender, Rows, Placed, NEW w \in Workers, RunStep(w)
  PROVE  Placed'
<1>0. worker \in [Workers -> Runs]
  BY DEF TypeOK
<1>1. ExecMoves
  BY RunStepRows DEF RowStep
<1>2. CASE LoadApproval(w)
  <2>1. exec' = exec /\ owner' = owner
    BY <1>2 DEF LoadApproval, rowVars, factVars
  <2>2. Goto(w, Decision)
    BY <1>2 DEF LoadApproval
  <2>3. CASE approval = "pending"
    <3>1. exec = "none" /\ Goto(w, "interrupted")
      BY <2>2, <2>3 DEF Rows, Decision
    <3>2. worker'[w].pc = "interrupted" /\ \A v \in Workers \ {w} : worker'[v] = worker[v]
      BY <1>0, <3>1, GotoMoves DEF PCs
    <3> QED
      BY <2>1, <3>1, <3>2 DEF Placed, At
  <2>4. CASE approval # "pending"
    <3>1. Onward(w)
      BY <1>0, <2>1, <2>2, <2>4, GotoOnward DEF Decision, PCs
    <3> QED
      BY <1>1, <2>1, <3>1, OnwardKeeps
  <2> QED
    BY <2>3, <2>4
<1>3. CASE ReuseOutcome(w) \/ PersistRefused(w)
  <2>1. exec' = exec
    BY <1>3 DEF ReuseOutcome, PersistRefused, LeaveAsIs, factVars
  <2>2. owner' \in {owner, Gone}
    BY <1>3 DEF ReuseOutcome, PersistRefused, LeaveAsIs, Orphaned, rowVars
  <2>3. \/ Leave(w) \/ Goto(w, "abandoning") \/ Goto(w, "releasing")
        \/ Goto(w, "succeeding") /\ exec \in Reusable
    BY <1>3 DEF ReuseOutcome, PersistRefused, LeaveAsIs, GiveUp, Reusable
  <2>4. CASE Onward(w)
    BY <1>1, <2>1, <2>4, OnwardKeeps
  <2>5. CASE Goto(w, "succeeding") /\ exec \in Reusable
    <3>1. worker'[w].pc = "succeeding" /\ \A v \in Workers \ {w} : worker'[v] = worker[v]
      BY <1>0, <2>5, GotoMoves DEF PCs
    <3> QED
      BY <2>1, <2>2, <2>5, <3>1, ConstantsAssumption DEF Placed, At
  <2> QED
    BY <1>0, <2>2, <2>3, <2>4, <2>5, LeaveOnward, GotoOnward DEF PCs
<1>4. CASE ~ LoadApproval(w) /\ ~ ReuseOutcome(w) /\ ~ PersistRefused(w)
  <2>1. Onward(w)
    BY <1>4, RunStepOnward
  <2>2. exec = "none" => exec' = "none" \/ owner = w
    <3>1. CASE CreateClaim(w)
      BY <3>1 DEF CreateClaim, MayClaim, Holds
    <3>2. CASE exec = "none" /\ exec' # "none"
      <4>1. CreateClaim(w) \/ Calm \/ exec' = exec
        BY <1>4, QuietStepCalm, <3>2
        DEF RunStep, QuietStep, Dispatch, Start, Startable, Send, PersistWrite, MayPersistWrite,
            ResolveOAuth, MayResolveOAuth, factVars
      <4>2. ~ Calm
        BY <1>1, <3>2 DEF Calm, ExecMoves, Startables
      <4> QED
        BY <3>1, <3>2, <4>1, <4>2
    <3> QED
      BY <3>2
  <2> QED
    BY <1>1, <2>1, <2>2, OnwardKeeps
<1> QED
  BY <1>2, <1>3, <1>4

LEMMA OtherStepPlaced ==
  ASSUME TypeOK, OneOpen, OneSender, Rows, Placed, Next,
         ~ \E w \in Workers : RunStep(w)
  PROVE  Placed'
<1>0. worker \in [Workers -> Runs]
  BY DEF TypeOK
<1>1. ExecMoves
  BY OtherStepRows DEF RowStep
<1>2. Calm \/ \E n \in 1..MaxWrites : Provider(n)
  BY TroubleCalm, ReceiveCalm, UserCalm, ClockCalm, EngineCalm DEF Next
<1>3. exec = "none" => exec' = "none"
  <2>1. CASE Calm
    BY <1>1, <2>1 DEF Calm, ExecMoves, Startables
  <2>2. CASE \E n \in 1..MaxWrites : Provider(n)
    BY <2>2 DEF Provider, factVars
  <2> QED
    BY <1>2, <2>1, <2>2
<1>4. ASSUME NEW w \in Workers, Trouble(w)
      PROVE  Onward(w)
  <2>1. CASE Interrupted(w)
    BY <1>0, <2>1, GotoOnward DEF Interrupted, GiveUp, PCs, rowVars
  <2>2. CASE DatabaseError(w)
    <3>1. Goto(w, "erring") /\ owner' \in {owner, w}
      BY <2>2 DEF DatabaseError, Lease, rowVars
    <3> QED
      BY <1>0, <3>1, GotoOnward DEF PCs
  <2>3. CASE Crash(w)
    BY <1>0, <2>3, LeaveOnward DEF Crash, Orphaned
  <2> QED
    BY <1>4, <2>1, <2>2, <2>3 DEF Trouble
<1>5. ASSUME NEW w \in Workers, NEW m \in stream, Receive(w, m)
      PROVE  Onward(w)
  BY <1>0, <1>5, GotoOnward DEF Receive, Route, PCs, rowVars
<1>6. \/ \E w \in Workers : Onward(w)
      \/ worker' = worker /\ owner' \in {owner, Null, Gone}
  <2>1. ASSUME NEW n \in 1..MaxWrites, Provider(n)
        PROVE  worker' = worker /\ owner' \in {owner, Null, Gone}
    BY <2>1 DEF Provider, rowVars
  <2>2. CASE User
    <3>1. ASSUME NEW decision \in {"approved", "rejected"}, Resolve(decision)
          PROVE  worker' = worker /\ owner' = owner
      BY <3>1 DEF Resolve
    <3>2. CASE Withdraw \/ Regrant \/ Reopen
      BY <3>2 DEF Withdraw, Regrant, Reopen, Unscheduled, rowVars, IsDisputed
    <3>3. ASSUME NEW reason \in Revocations, Revoke(reason)
          PROVE  worker' = worker /\ owner' \in {owner, Null}
      <4>1. HandOver(reason) => owner' \in {owner, Null}
        BY DEF HandOver
      <4>2. CancelUnclaimed => owner' = Null
        BY DEF CancelUnclaimed, Unscheduled
      <4> QED
        BY <3>3, <4>1, <4>2 DEF Revoke, rowVars
    <3>4. ASSUME NEW resolution \in {"confirmed_executed", "confirmed_not_executed"},
                 ManualResolve(resolution)
          PROVE  worker' = worker /\ owner' = Null
      BY <3>4 DEF ManualResolve, Succeeds, Fails, Outcome, Unscheduled, IsDisputed
    <3> QED
      BY <2>2, <3>1, <3>2, <3>3, <3>4 DEF User
  <2>3. CASE Clock
    BY <2>3
    DEF Clock, LeaseExpires, DeadlinePasses, BudgetSpent, ReadDue, Expire, Unscheduled, rowVars
  <2>4. CASE Engine
    BY <2>4
    DEF Engine, Publish, StreamLost, Recover, RecoverRead, CleanContent, Outcome, Unscheduled,
        rowVars
  <2> QED
    BY <1>4, <1>5, <2>1, <2>2, <2>3, <2>4 DEF Next
<1> QED
  BY <1>1, <1>3, <1>6, OnwardKeeps, StillKeeps

-----------------------------------------------------------------------------
(* What the rows say is true.                                              *)

\* The verdict of the program agrees with what happened at the provider; only
\* a user who settles by hand may be mistaken.
Truthful ==
  /\ manual # "none" => exec \in Concluded
  /\ exec = "confirmed_failed" /\ manual = "none" => AllRefused
  /\ exec = "succeeded" /\ manual = "none" => Applied # {}
  /\ exec \in Concluded => approval = "approved" \/ AllRefused

LEMMA RefusedStays ==
  ASSUME TypeOK, OneOpen, OneSender, Next, exec \in Concluded, AllRefused
  PROVE  AllRefused'
<1> SUFFICES ASSUME ~ AllRefused'
             PROVE  FALSE
  OBVIOUS
<1>1. ~ Calm
  BY CalmRefused
<1>2. ASSUME NEW n \in 1..MaxWrites, Provider(n)
      PROVE  FALSE
  BY <1>2 DEF Provider, AllRefused, Refused
<1>3. ASSUME NEW w \in Workers, RunStep(w)
      PROVE  FALSE
  <2>1. ~ QuietStep(w)
    BY <1>1, QuietStepCalm
  <2>2. ~ Send(w) /\ ~ PersistWrite(w)
    BY DEF Send, PersistWrite, AllRefused, InFlight, At
  <2>3. ~ CreateClaim(w) /\ ~ Dispatch(w) /\ ~ Start(w) /\ ~ ResolveOAuth(w)
    BY DEF CreateClaim, MayClaim, Dispatch, Start, Startable, ResolveOAuth, MayResolveOAuth,
           Reusable, Concluded
  <2> QED
    BY <1>3, <2>1, <2>2, <2>3 DEF RunStep, QuietStep
<1> QED
  BY <1>1, <1>2, <1>3, TroubleCalm, ReceiveCalm, UserCalm, ClockCalm, EngineCalm DEF Next

\* The provider alone brings an effect about, with the newest attempt.
LEMMA AppliedMoves ==
  ASSUME TypeOK, OneOpen, OneSender, Next
  PROVE  \/ Applied' = Applied
         \/ /\ Applied = {} /\ Applied' = {writes} /\ ~ AllRefused
            /\ exec \notin Startables /\ UNCHANGED <<exec, manual, approval, local>>
<1>0. request \in [1..MaxWrites -> {"none", "sent", "applied", "rejected"}]
  BY DEF TypeOK
<1>1. CASE request' = request
  BY <1>1 DEF Applied
<1>2. ASSUME NEW w \in Workers, Send(w)
      PROVE  Applied' = Applied
  <2>1. request' = [request EXCEPT ![writes] = "sent"] /\ request[writes] = "none"
    BY <1>2, SendsNewest
  <2> QED
    BY <1>0, <2>1 DEF Applied
<1>3. ASSUME NEW n \in 1..MaxWrites, Provider(n)
      PROVE  \/ Applied' = Applied
             \/ /\ Applied = {} /\ Applied' = {writes} /\ ~ AllRefused
                /\ exec \notin Startables /\ UNCHANGED <<exec, manual, approval, local>>
  <2>1. request[n] = "sent" /\ UNCHANGED <<exec, manual, approval, local>>
    BY <1>3 DEF Provider, factVars
  <2>2. PICK fate \in {"applied", "rejected"} : request' = [request EXCEPT ![n] = fate]
    BY <1>3 DEF Provider
  <2>3. n = writes /\ exec \notin Startables
    BY <2>1, ConstantsAssumption DEF OneOpen, Refused, Startables, TypeOK, MaxWrites
  <2>4. Applied = {}
    BY <2>1, <2>3, ConstantsAssumption DEF OneOpen, Refused, Applied, TypeOK, MaxWrites
  <2>5. \A m \in 1..MaxWrites : m # n => request'[m] = request[m]
    BY <1>0, <2>2
  <2>6. request'[n] = fate
    BY <1>0, <2>2
  <2>7. CASE fate = "rejected"
    <3>1. Applied' = {}
      BY <2>4, <2>5, <2>6, <2>7 DEF Applied
    <3> QED
      BY <2>4, <3>1
  <2>8. CASE fate = "applied"
    <3>1. Applied' = {n}
      BY <2>4, <2>5, <2>6, <2>8 DEF Applied
    <3>2. ~ AllRefused
      BY <2>1 DEF AllRefused, Refused
    <3> QED
      BY <2>1, <2>3, <2>4, <3>1, <3>2
  <2> QED
    BY <2>7, <2>8
<1>4. ASSUME NEW w \in Workers, RunStep(w), ~ Send(w)
      PROVE  request' = request
  <2>1. CASE QuietStep(w)
    BY <2>1, QuietStepCalm DEF Calm
  <2>2. CASE CreateClaim(w) \/ Dispatch(w) \/ Start(w) \/ PersistWrite(w) \/ ResolveOAuth(w)
    BY <2>2 DEF CreateClaim, Dispatch, Start, PersistWrite, ResolveOAuth, restVars
  <2> QED
    BY <1>4, <2>1, <2>2 DEF RunStep, QuietStep
<1>5. ASSUME NEW w \in Workers, Trouble(w) \/ \E m \in stream : Receive(w, m)
      PROVE  request' = request
  BY <1>5, TroubleCalm, ReceiveCalm DEF Calm
<1>6. ASSUME User \/ Clock \/ Engine
      PROVE  request' = request
  BY <1>6, UserCalm, ClockCalm, EngineCalm DEF Calm
<1> QED
  BY <1>1, <1>2, <1>3, <1>4, <1>5, <1>6 DEF Next

LEMMA TruthKeeps ==
  ASSUME TypeOK, OneOpen, OneSender, Rows, Truthful, RowStep, Next
  PROVE  Truthful'
<1>1. exec \in Concluded => exec' = exec /\ manual' = manual /\ approval' = approval
  BY DEF RowStep, ExecMoves, ManualMoves, ConsentMoves, Concluded, Startables
<1>2. manual' # "none" => exec' \in Concluded
  BY <1>1 DEF Truthful, RowStep, ManualMoves
<1>3. exec' = "confirmed_failed" /\ manual' = "none" => AllRefused'
  BY <1>1, RefusedStays DEF Truthful, RowStep, ExecMoves, Concluded
<1>4. Applied # {} => Applied' # {}
  BY AppliedMoves
<1>5. exec' = "succeeded" /\ manual' = "none" => Applied' # {}
  BY <1>1, <1>4 DEF Truthful, RowStep, ExecMoves, Concluded
<1>6. exec' \in Concluded => approval' = "approved" \/ AllRefused'
  <2>1. CASE exec \in Concluded
    BY <1>1, <2>1, RefusedStays DEF Truthful
  <2>2. CASE exec \notin Concluded /\ exec' \in Concluded
    <3>1. exec # "none" /\ approval = "approved"
      BY <2>2 DEF RowStep, ExecMoves, Rows, RowsAgree, TypeOK, Executions, Concluded, Startables
    <3>2. CASE exec \notin Startables
      BY <3>1, <3>2 DEF RowStep, ConsentMoves, Startables
    <3>3. CASE exec \in Startables
      <4>1. exec' = "confirmed_failed" /\ manual' = manual
        BY <2>2, <3>3
        DEF RowStep, ExecMoves, ManualMoves, Concluded, Startables
      <4> QED
        BY <1>3, <2>2, <3>1, <4>1 DEF Truthful
    <3> QED
      BY <3>2, <3>3
  <2> QED
    BY <2>1, <2>2
<1> QED
  BY <1>2, <1>3, <1>5, <1>6 DEF Truthful

\* The whole inductive invariant.
Invariant == TypeOK /\ OneOpen /\ OneSender /\ Rows /\ Placed /\ Truthful

LEMMA NextRows ==
  ASSUME Invariant, Next
  PROVE  RowStep /\ Placed' /\ Truthful'
<1>1. RowStep
  BY RunStepRows, OtherStepRows DEF Invariant
<1>2. Placed'
  BY RunStepPlaced, OtherStepPlaced DEF Invariant
<1>3. Truthful'
  BY <1>1, TruthKeeps DEF Invariant
<1> QED
  BY <1>1, <1>2, <1>3

LEMMA InvariantHolds == Spec => []Invariant
<1>1. Init => Rows /\ Placed /\ Truthful
  <2> SUFFICES ASSUME Init
               PROVE  Rows /\ Placed /\ Truthful
    OBVIOUS
  <2>1. Rows /\ Truthful
    BY DEF Init, Rows, RowsAgree, Truthful, Concluded
  <2>2. \A w \in Workers : worker[w].pc = "idle"
    BY DEF Init, NoRun
  <2> QED
    BY <2>1, <2>2 DEF Placed, At
<1>2. Invariant /\ [Next]_vars => Rows' /\ Placed' /\ Truthful'
  <2> SUFFICES ASSUME Invariant, [Next]_vars
               PROVE  Rows' /\ Placed' /\ Truthful'
    OBVIOUS
  <2>1. CASE Next
    BY <2>1, NextRows DEF RowStep
  <2>2. CASE UNCHANGED vars
    <3>1. UNCHANGED <<task, approval, exec, local, manual, owner, request, worker>>
      BY <2>2 DEF vars, rowVars, factVars, restVars
    <3> QED
      BY <3>1
      DEF Invariant, Rows, RowsAgree, Placed, Truthful, AllRefused, Applied, Refused,
          InFlight, At
  <2> QED
    BY <2>1, <2>2
<1> QED
  BY <1>1, <1>2, WritesInvariant, PTL DEF Invariant, Spec

\* The four rows of an action never contradict each other, however the
\* transactions of several workers, of the user and of the scheduler follow
\* one another.
THEOREM RowsAgreeHolds == Spec => []RowsAgree
<1>1. Invariant => RowsAgree
  BY DEF Invariant, Rows
<1> QED
  BY <1>1, InvariantHolds, PTL

\* The program calls an action failed, or gives the draft back, only if the
\* provider carried nothing out and nothing is on its way.
THEOREM NoFalseFailureHolds == Spec => []NoFalseFailure
<1>1. Invariant => NoFalseFailure
  <2> SUFFICES ASSUME Invariant, manual = "none",
                      exec = "confirmed_failed" \/ local \in {"editing", "cancelled"}
               PROVE  AllRefused
    BY DEF NoFalseFailure, AllRefused, Refused
  <2>1. exec \in {"none", "confirmed_failed"}
    BY DEF Invariant, Rows, RowsAgree, TypeOK, Executions
  <2> QED
    BY <2>1, StartableRefused DEF Invariant, Truthful, Startables
<1> QED
  BY <1>1, InvariantHolds, PTL

\* A settled execution keeps its outcome, its draft, its task and its approval
\* under every later step.
THEOREM OutcomeStandsHolds == Spec => OutcomeStands
<1>1. Invariant /\ [Next]_vars =>
        [ExecIsSettled => UNCHANGED <<exec, local, task, approval>>]_vars
  <2> SUFFICES ASSUME Invariant, Next, exec \in Concluded
               PROVE  UNCHANGED <<exec, local, task, approval>>
    BY DEF ExecIsSettled
  <2>1. RowStep
    BY NextRows
  <2>2. exec' = exec /\ approval' = approval
    BY <2>1 DEF RowStep, ExecMoves, ConsentMoves, Concluded, Startables
  <2>3. task' = task /\ local' = local
    BY <2>1, <2>2 DEF Invariant, RowStep, Rows, RowsAgree, Concluded
  <2> QED
    BY <2>2, <2>3
<1> QED
  BY <1>1, InvariantHolds, PTL DEF Spec, OutcomeStands

-----------------------------------------------------------------------------
(* The refinement.                                                         *)

\* The verdict in the terms of the execution.
VerdictOfExec ==
  /\ manual # "none" => Verdict = "user"
  /\ manual = "none" =>
       /\ exec = "none" =>
            Verdict = IF local = "awaiting_approval" THEN "open" ELSE "not_done"
       /\ exec \in {"claimed", "executing", "retryable_failed"} => Verdict = "open"
       /\ exec \in {"reconciling", "needs_attention"} => Verdict = "unsure"
       /\ exec = "succeeded" => Verdict = "done"
       /\ exec = "confirmed_failed" => Verdict = "not_done"

LEMMA VerdictOf == Invariant => VerdictOfExec
<1>1. CASE manual # "none"
  BY <1>1 DEF Verdict, VerdictOfExec
<1>2. CASE manual = "none"
  BY <1>2 DEF Verdict, VerdictOfExec, Invariant, Rows, RowsAgree
<1> QED
  BY <1>1, <1>2

LEMMA VerdictOfNext == Invariant' => VerdictOfExec'
  BY VerdictOf, PTL

LEMMA EffectsCount ==
  ASSUME TypeOK, OneOpen
  PROVE  /\ Applied = {} => Cardinality(Applied) = 0
         /\ Applied # {} => Cardinality(Applied) = 1
<1>1. Applied \subseteq {writes}
  BY ConstantsAssumption DEF Applied, OneOpen, Refused, TypeOK, MaxWrites
<1> QED
  BY <1>1, FS_EmptySet, FS_Singleton

LEMMA RefusedHasNoEffect == AllRefused => Applied = {}
  BY DEF AllRefused, Refused, Applied

LEMMA RefusedHasNoEffectNext == AllRefused' => Applied' = {}
  BY DEF AllRefused, Refused, Applied

\* A step in which the provider acts.
LEMMA EffectRefines ==
  ASSUME Invariant, Invariant', Next, Applied' # Applied
  PROVE  Safe!Perform
<1>1. /\ Applied = {} /\ Applied' = {writes} /\ ~ AllRefused
      /\ exec \notin Startables /\ UNCHANGED <<exec, manual, approval, local>>
  BY AppliedMoves DEF Invariant
<1>2. Cardinality(Applied) = 0 /\ Cardinality(Applied') = 1
  BY <1>1, EffectsCount, FS_Singleton DEF Invariant
<1>3. approval = "approved"
  BY <1>1 DEF Invariant, Rows, RowsAgree, Truthful, TypeOK, Executions, Startables, Concluded
<1>4. Verdict \notin {"done", "not_done"}
  BY <1>1, VerdictOf DEF VerdictOfExec, Invariant, Truthful, TypeOK, Executions, Startables
<1>5. Verdict' = Verdict
  BY <1>1 DEF Verdict
<1> QED
  BY <1>1, <1>2, <1>3, <1>4, <1>5 DEF Safe!Perform

\* Before the claim: the user agrees, or the action is given up.
LEMMA DraftRefines ==
  ASSUME Invariant, Invariant', Next, Applied' = Applied, exec = "none"
  PROVE  Safe!Next \/ UNCHANGED Safe!vars
<1>1. RowStep
  BY NextRows
<1>2. manual = "none" /\ manual' = "none"
  BY <1>1 DEF Invariant, Truthful, Concluded, RowStep, ManualMoves
<1>3. exec' \in {"none", "claimed"}
  BY <1>1 DEF RowStep, ExecMoves, Startables
<1>4. Applied = {} /\ Cardinality(Applied) = 0 /\ Cardinality(Applied') = 0
  BY StartableRefused, RefusedHasNoEffect, EffectsCount DEF Invariant, Startables
<1>5. local \in {"awaiting_approval", "editing", "cancelled"}
  BY DEF Invariant, Rows, RowsAgree
<1>6. Verdict = IF local = "awaiting_approval" THEN "open" ELSE "not_done"
  BY <1>2, VerdictOf DEF VerdictOfExec
<1>7. /\ exec' = "none" =>
           Verdict' = IF local' = "awaiting_approval" THEN "open" ELSE "not_done"
      /\ exec' = "claimed" => Verdict' = "open"
  BY <1>2, VerdictOfNext DEF VerdictOfExec
<1>8. local' \in {"awaiting_approval", "editing", "cancelled"} \/ exec' = "claimed"
  BY <1>3 DEF Invariant, Rows, RowsAgree
<1>9. CASE /\ approval' = approval
           /\ local' = local \/ (exec' = "claimed" /\ local = "awaiting_approval")
  <2>1. local' = local => exec' = "none"
    BY <1>3, <1>5 DEF Invariant, Rows, RowsAgree
  <2>2. Verdict' = Verdict
    BY <1>3, <1>6, <1>7, <1>9, <2>1
  <2> QED
    BY <1>9, <2>2 DEF Safe!vars
<1>10. CASE /\ exec' = "none" /\ approval = "pending" /\ approval' = "approved"
            /\ local = "awaiting_approval" /\ local' = local
  BY <1>6, <1>7, <1>10 DEF Safe!Next, Safe!Agree
<1>11. CASE /\ exec' = "none" /\ approval' # "approved" /\ local' \in {"editing", "cancelled"}
  <2>1. Verdict' = "not_done"
    BY <1>7, <1>11
  <2>2. CASE local = "awaiting_approval"
    BY <1>4, <1>6, <1>11, <2>1, <2>2 DEF Safe!Next, Safe!NotDone, Safe!Undecided
  <2>3. CASE local # "awaiting_approval"
    BY <1>6, <1>11, <2>1, <2>3 DEF Safe!Next, Safe!Revoke, Safe!vars
  <2> QED
    BY <2>2, <2>3
<1> QED
  BY <1>1, <1>9, <1>10, <1>11 DEF RowStep, ConsentMoves

\* From the claim on: the program doubts, settles, or leaves it to the user.
LEMMA ClaimRefines ==
  ASSUME Invariant, Invariant', Next, Applied' = Applied,
         exec \notin Concluded \cup {"none"}
  PROVE  Safe!Next \/ UNCHANGED Safe!vars
<1>1. RowStep
  BY NextRows
<1>2. exec \in {"claimed", "executing", "retryable_failed", "reconciling", "needs_attention"}
  BY DEF Invariant, TypeOK, Executions, Concluded
<1>3. manual = "none"
  BY DEF Invariant, Truthful
<1>4. Verdict = IF exec \in {"reconciling", "needs_attention"} THEN "unsure" ELSE "open"
  BY <1>2, <1>3, VerdictOf DEF VerdictOfExec
<1>5. CASE manual' # "none"
  <2>1. exec = "needs_attention" /\ approval' = approval
    BY <1>1, <1>3, <1>5 DEF RowStep, ManualMoves, ConsentMoves
  <2>2. Verdict = "unsure" /\ Verdict' = "user"
    BY <1>4, <1>5, <2>1, VerdictOfNext DEF VerdictOfExec
  <2> QED
    BY <2>1, <2>2 DEF Safe!Next, Safe!Decide
<1>6. CASE manual' = "none" /\ exec' = "succeeded"
  <2>1. approval' = approval /\ Applied # {}
    BY <1>1, <1>2, <1>6 DEF RowStep, ConsentMoves, ExecMoves
  <2>2. Cardinality(Applied) = 1
    BY <2>1, EffectsCount DEF Invariant
  <2>3. Verdict' = "done"
    BY <1>6, VerdictOfNext DEF VerdictOfExec
  <2> QED
    BY <1>4, <2>1, <2>2, <2>3 DEF Safe!Next, Safe!Done, Safe!Undecided
<1>7. CASE manual' = "none" /\ exec' = "confirmed_failed"
  <2>1. Applied' = {}
    BY <1>1, <1>2, <1>7, RefusedHasNoEffectNext DEF RowStep, ExecMoves
  <2>2. Cardinality(Applied) = 0
    BY <2>1, EffectsCount DEF Invariant
  <2>3. Verdict' = "not_done"
    BY <1>7, VerdictOfNext DEF VerdictOfExec
  <2>4. approval' = approval \/ approval' # "approved"
    BY <1>1, <1>2 DEF RowStep, ConsentMoves
  <2> QED
    BY <1>4, <2>2, <2>3, <2>4 DEF Safe!Next, Safe!NotDone, Safe!Undecided
<1>8. CASE manual' = "none" /\ exec' \notin Concluded
  <2>1. approval' = approval
    BY <1>1, <1>2, <1>8 DEF RowStep, ConsentMoves, Concluded
  <2>2. /\ exec' \in {"claimed", "executing", "retryable_failed", "reconciling",
                      "needs_attention"}
        /\ exec \in {"reconciling", "needs_attention"} =>
             exec' \in {"reconciling", "needs_attention"}
    BY <1>1, <1>2, <1>8 DEF RowStep, ExecMoves, Concluded
  <2>3. Verdict' = IF exec' \in {"reconciling", "needs_attention"} THEN "unsure" ELSE "open"
    BY <1>8, <2>2, VerdictOfNext DEF VerdictOfExec
  <2> QED
    BY <1>4, <2>1, <2>2, <2>3 DEF Safe!Next, Safe!Doubt, Safe!vars
<1> QED
  BY <1>5, <1>6, <1>7, <1>8 DEF Concluded

\* A settled action only stays what it is.
LEMMA SettledRefines ==
  ASSUME Invariant, Invariant', Next, Applied' = Applied, exec \in Concluded
  PROVE  UNCHANGED Safe!vars
<1>1. RowStep
  BY NextRows
<1>2. exec' = exec /\ manual' = manual /\ approval' = approval
  BY <1>1 DEF RowStep, ExecMoves, ManualMoves, ConsentMoves, Concluded, Startables
<1>3. local' = local
  BY <1>2 DEF Invariant, Rows, RowsAgree, Concluded
<1> QED
  BY <1>2, <1>3 DEF Safe!vars, Verdict

\* The rows, the workers and the messages of one trusted action implement an
\* action that the user agrees to, that is carried out at most once, and whose
\* report is true and stands.
THEOREM Refinement == Spec => ImplementsSafeAction
<1>1. Init => Safe!Init
  <2> SUFFICES ASSUME Init
               PROVE  Safe!Init
    OBVIOUS
  <2>1. Applied = {}
    BY DEF Init, Applied
  <2>2. Cardinality(Applied) = 0
    BY <2>1, FS_EmptySet
  <2>3. Verdict = "open" /\ approval # "approved"
    BY DEF Init, Verdict
  <2> QED
    BY <2>2, <2>3 DEF Safe!Init
<1>2. Invariant /\ Invariant' /\ [Next]_vars => [Safe!Next]_(Safe!vars)
  <2> SUFFICES ASSUME Invariant, Invariant', [Next]_vars
               PROVE  Safe!Next \/ UNCHANGED Safe!vars
    OBVIOUS
  <2>1. CASE UNCHANGED vars
    <3>1. UNCHANGED <<manual, local, approval, request>>
      BY <2>1 DEF vars, factVars, restVars
    <3> QED
      BY <3>1 DEF Safe!vars, Verdict, Applied
  <2>2. CASE Next /\ Applied' # Applied
    BY <2>2, EffectRefines DEF Safe!Next
  <2>3. CASE Next /\ Applied' = Applied
    BY <2>3, DraftRefines, ClaimRefines, SettledRefines
  <2> QED
    BY <2>1, <2>2, <2>3
<1> QED
  BY <1>1, <1>2, InvariantHolds, PTL DEF Spec, ImplementsSafeAction, Safe!Spec

=============================================================================
