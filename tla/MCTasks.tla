------------------------------ MODULE MCTasks ------------------------------
(***************************************************************************)
(* The task engine, and the one kind of task that stops in the middle to   *)
(* ask its user.  The second takes the first for granted: of its leases,   *)
(* messages and recovery only what the question meets is left.  Each       *)
(* behaviour is of one of them.                                            *)
(***************************************************************************)
EXTENDS MCDurableTasks

CONSTANT MaxRuns \* bound: attempts at the task that asks

VARIABLES
  state, holder, lapsed, anchor, approval, interrupt, execution, rows, messages, run, calls,
  kind \* what the task does

question == <<state, holder, lapsed, anchor, approval, interrupt, execution,
              rows, messages, run, calls>>

Question == INSTANCE ApprovalCheckpoint WITH
  status <- state, owner <- holder, outbox <- rows, stream <- messages

MCInit == kind \in {"ordinary", "question"} /\ Init /\ Question!Init

\* A question may be at its end; an ordinary task must not stop before.
MCNext ==
  \/ kind = "ordinary" /\ Next /\ UNCHANGED <<question, kind>>
  \/ kind = "question" /\ Question!Next /\ UNCHANGED <<vars, kind>>
  \/ kind = "question" /\ UNCHANGED <<vars, question, kind>>

MCSpec == MCInit /\ [][MCNext]_<<vars, question, kind>>

\* Progress is asked of the ordinary tasks.
MCFairInit == MCInit /\ kind = "ordinary"
MCFairSpec == MCFairInit /\ [][MCNext]_<<vars, question, kind>> /\ Fairness

\* An open question of a graph can be answered, or its interrupt will still be saved.
QuestionIsOpen == Question!QuestionIsOpen

\* What the user decided about a question is carried out, once.
DecisionIsCarriedOut == Question!DecisionIsCarriedOut
=============================================================================
