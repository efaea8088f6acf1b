------------------------ MODULE ApprovalCheckpoint ------------------------
(***************************************************************************)
(* A task that asks its user before it calls a tool: the fake-write graph, *)
(* which stands for the protocol without touching anything outside.        *)
(*                                                                         *)
(* The graph has three nodes and saves a checkpoint after each; its        *)
(* approval node asks by an interrupt, which is saved by a transaction of  *)
(* the checkpointer, after the one that stores the approval and gives the  *)
(* lease back.  Between the two nobody runs, nobody may decide, and the    *)
(* message that began it may be gone; what remains is the anchor on the    *)
(* task, from which a scanner sends the task in again.                     *)
(*                                                                         *)
(* Every attempt has an owner name of its own, so an attempt is a number.  *)
(* Every run that resumes, restarts or repeats the graph comes through the *)
(* approval node again and takes the decision from the database.           *)
(***************************************************************************)
EXTENDS Integers, Sequences

CONSTANT MaxRuns \* bound: attempts

VARIABLES
  status,    \* TaskRunModel.status
  owner,     \* lease_owner, 0 for none
  lapsed,    \* the lease of the owner has expired
  anchor,    \* approval_checkpoint_recovery_at is set
  approval,  \* ApprovalRequestModel.status
  interrupt, \* __interrupt__ is among the saved checkpoint writes
  execution, \* ToolExecutionModel.status
  outbox,    \* unpublished rows of task.execute
  stream,    \* messages that may be delivered, any number of times
  run,       \* where each attempt is
  calls      \* history: calls of the tool

row == <<status, owner, lapsed, anchor>>
vars == <<row, approval, interrupt, execution, outbox, stream, run, calls>>

Messages == {"execute", "resume", "checkpoint"}

\* The submission has stored the task and its first message.
Init ==
  /\ status = "queued" /\ owner = 0 /\ lapsed = FALSE /\ anchor = FALSE
  /\ approval = "absent" /\ interrupt = FALSE /\ execution = "absent"
  /\ outbox = {"execute"} /\ stream = {} /\ run = <<>> /\ calls = 0

-----------------------------------------------------------------------------
(* Messages, time and loss                                                 *)

Relay(m) ==
  /\ m \in outbox
  /\ outbox' = outbox \ {m} /\ stream' = stream \cup {m}
  /\ UNCHANGED <<row, approval, interrupt, execution, run, calls>>

\* A message is confirmed, or the stream forgets it.
Drop(m) ==
  /\ m \in stream /\ stream' = stream \ {m}
  /\ UNCHANGED <<row, approval, interrupt, execution, outbox, run, calls>>

Lapse ==
  /\ owner # 0 /\ ~lapsed /\ lapsed' = TRUE
  /\ UNCHANGED <<status, owner, anchor, approval, interrupt, execution, outbox, stream, run, calls>>

Moves(a, to) == run' = [run EXCEPT ![a] = to]

Crash(a) ==
  /\ run[a] # "over" /\ Moves(a, "over")
  /\ UNCHANGED <<row, approval, interrupt, execution, outbox, stream, calls>>

\* A database error or the limit of a step or of the task.
Raise(a) ==
  /\ run[a] \notin {"fail", "over"} /\ Moves(a, "fail")
  /\ UNCHANGED <<row, approval, interrupt, execution, outbox, stream, calls>>

-----------------------------------------------------------------------------
(* The attempts                                                            *)

Eligible(m) ==
  \/ status = "queued"
  \/ status = "running" /\ lapsed
  \/ status = "waiting_approval" /\ anchor /\ m = "checkpoint"

\* acquire: the anchor stays.
Acquire(m) ==
  /\ m \in stream /\ Eligible(m) /\ Len(run) < MaxRuns
  /\ run' = Append(run, "find")
  /\ status' = "running" /\ owner' = Len(run) + 1 /\ lapsed' = FALSE
  /\ UNCHANGED <<anchor, approval, interrupt, execution, outbox, stream, calls>>

Owns(a) == status = "running" /\ owner = a
\* The task leaves its owner.
Become(new) == status' = new /\ owner' = 0 /\ lapsed' = FALSE

\* Nodes prepare and approval: what is already stored.
Found ==
  CASE approval = "absent" -> "create"
    [] approval = "pending" -> "interrupt"
    [] approval \in {"approved", "rejected"} -> "execute"
    [] approval = "expired" -> "fail"

FindForGraph(a) ==
  /\ run[a] = "find" /\ Moves(a, Found)
  /\ UNCHANGED <<row, approval, interrupt, execution, outbox, stream, calls>>

\* Variant: the anchor is left to the worker, after the checkpoint.
CreateOnly(a) ==
  /\ run[a] = "create" /\ Owns(a) /\ Moves(a, "interrupt")
  /\ approval' = "pending" /\ Become("waiting_approval")
  /\ UNCHANGED <<anchor, interrupt, execution, outbox, stream, calls>>

\* An owner never meets an approval here: whoever stores one loses the lease with it.
CreateOrGetPending(a) ==
  /\ run[a] = "create" /\ Owns(a) /\ Moves(a, "interrupt")
  /\ approval' = "pending" /\ Become("waiting_approval") /\ anchor' = TRUE
  /\ UNCHANGED <<interrupt, execution, outbox, stream, calls>>

SaveInterrupt(a) ==
  /\ run[a] = "interrupt" /\ Moves(a, "confirm") /\ interrupt' = TRUE
  /\ UNCHANGED <<row, approval, execution, outbox, stream, calls>>

\* TaskWaitingApproval then ends the run without finish.
ConfirmApprovalCheckpoint(a) ==
  /\ run[a] = "confirm" /\ Moves(a, "over")
  /\ IF interrupt /\ (status = "waiting_approval" \/ Owns(a))
     THEN anchor' = FALSE /\ Become("waiting_approval")
     ELSE UNCHANGED row
  /\ UNCHANGED <<approval, interrupt, execution, outbox, stream, calls>>

\* Variant: an execution whose end is unknown is called again.
ClaimAgain == execution # "succeeded"

\* What was claimed and is not known to have succeeded is never called again.
Unclaimed == execution = "absent"

ClaimFakeToolExecution(a) ==
  /\ run[a] = "execute" /\ Owns(a) /\ approval = "approved"
  /\ \/ Unclaimed /\ execution' = "claimed" /\ Moves(a, "call")
     \/ execution = "succeeded" /\ Moves(a, "finish") /\ UNCHANGED execution
  /\ UNCHANGED <<row, approval, interrupt, outbox, stream, calls>>

Rejected(a) ==
  /\ run[a] = "execute" /\ approval = "rejected" /\ Moves(a, "finish")
  /\ UNCHANGED <<row, approval, interrupt, execution, outbox, stream, calls>>

Call(a) ==
  /\ run[a] = "call" /\ Moves(a, "complete") /\ calls' = calls + 1
  /\ UNCHANGED <<row, approval, interrupt, execution, outbox, stream>>

CompleteFakeToolExecution(a) ==
  /\ run[a] = "complete" /\ Owns(a) /\ Moves(a, "finish")
  /\ execution' = "succeeded"
  /\ UNCHANGED <<row, approval, interrupt, outbox, stream, calls>>

\* The finish of the runner that follows finds the task ended.
FinishFakeWrite(a) ==
  /\ run[a] = "finish" /\ Owns(a) /\ Moves(a, "over") /\ Become("succeeded")
  /\ UNCHANGED <<anchor, approval, interrupt, execution, outbox, stream, calls>>

\* task_conflict, and tool_execution_outcome_unknown.
Refuse(a) ==
  /\ \/ run[a] \in {"create", "complete", "finish"} /\ ~Owns(a)
     \/ /\ run[a] = "execute" /\ approval = "approved"
        /\ ~Owns(a) \/ execution = "claimed"
  /\ Moves(a, "fail")
  /\ UNCHANGED <<row, approval, interrupt, execution, outbox, stream, calls>>

\* The runner's finish with an error code: only the owner of a live lease.
Fail(a) ==
  /\ run[a] = "fail" /\ Moves(a, "over")
  /\ IF Owns(a) /\ ~lapsed THEN Become("failed") /\ UNCHANGED anchor ELSE UNCHANGED row
  /\ UNCHANGED <<approval, interrupt, execution, outbox, stream, calls>>

-----------------------------------------------------------------------------
(* The user and the scanners                                               *)

Resolve(decision) ==
  /\ approval = "pending" /\ status = "waiting_approval" /\ interrupt
  /\ approval' = decision /\ status' = "queued"
  /\ outbox' = outbox \cup {"resume"}
  /\ UNCHANGED <<owner, lapsed, anchor, interrupt, execution, stream, run, calls>>

\* cancel of an ordinary task: the approval stays as it is.
Cancel ==
  /\ status \in {"queued", "running", "waiting_approval"} /\ Become("cancelled")
  /\ UNCHANGED <<anchor, approval, interrupt, execution, outbox, stream, run, calls>>

\* expires_at may come at any moment.  A task that is queued then is left for its next
\* run to fail.
ExpirePending ==
  /\ approval = "pending" /\ approval' = "expired"
  /\ IF status \in {"waiting_approval", "running"}
     THEN Become("failed") /\ anchor' = FALSE
     ELSE UNCHANGED row
  /\ UNCHANGED <<interrupt, execution, outbox, stream, run, calls>>

RecoverCheckpoint ==
  /\ status = "waiting_approval" /\ anchor
  /\ \/ interrupt /\ anchor' = FALSE /\ UNCHANGED outbox
     \/ /\ ~interrupt /\ "checkpoint" \notin outbox
        /\ outbox' = outbox \cup {"checkpoint"} /\ UNCHANGED anchor
  /\ UNCHANGED <<status, owner, lapsed, approval, interrupt, execution, stream, run, calls>>

\* The recovery of tasks: a queued row grows stale, a lease expires.
RecoverTask ==
  /\ status = "queued" \/ (status = "running" /\ lapsed)
  /\ outbox = {} /\ outbox' = {"execute"} /\ Become("queued")
  /\ UNCHANGED <<anchor, approval, interrupt, execution, stream, run, calls>>

-----------------------------------------------------------------------------
Next ==
  \/ \E m \in Messages : Relay(m) \/ Drop(m) \/ Acquire(m)
  \/ Lapse
  \/ \E a \in DOMAIN run :
       \/ Crash(a) \/ Raise(a) \/ FindForGraph(a) \/ CreateOrGetPending(a)
       \/ SaveInterrupt(a) \/ ConfirmApprovalCheckpoint(a)
       \/ ClaimFakeToolExecution(a) \/ Rejected(a) \/ Call(a)
       \/ CompleteFakeToolExecution(a) \/ FinishFakeWrite(a) \/ Refuse(a) \/ Fail(a)
  \/ \E decision \in {"approved", "rejected"} : Resolve(decision)
  \/ Cancel \/ ExpirePending \/ RecoverCheckpoint \/ RecoverTask

Spec == Init /\ [][Next]_vars

-----------------------------------------------------------------------------
(* Properties                                                              *)

TypeOK ==
  /\ status \in {"queued", "running", "waiting_approval", "succeeded", "failed", "cancelled"}
  /\ owner \in 0..Len(run) /\ (owner # 0 <=> status = "running")
  /\ approval \in {"absent", "pending", "approved", "rejected", "expired"}
  /\ execution \in {"absent", "claimed", "succeeded"}
  /\ outbox \subseteq Messages /\ stream \subseteq Messages
  /\ Len(run) <= MaxRuns /\ calls \in Nat

\* A question is never stuck: as long as it is open and its task is not over, its
\* interrupt is saved, or the anchor is there from which it will be.
QuestionIsOpen ==
  approval = "pending" /\ status \in {"queued", "running", "waiting_approval"}
    => interrupt \/ anchor

\* The decision is carried out, once: nothing is called without it, nothing twice, and
\* a task that succeeded has done what was decided.
DecisionIsCarriedOut ==
  /\ calls <= 1 /\ (calls > 0 => approval = "approved")
  /\ status = "succeeded" =>
       \/ approval = "approved" /\ calls = 1 /\ execution = "succeeded"
       \/ approval = "rejected" /\ execution = "absent"
=============================================================================
