------------------------------- MODULE SafeTask -------------------------------
(***************************************************************************)
(* What the durable engine promises of its tasks, without leases, clocks,  *)
(* messages or outbox rows.  A task waits, is held, or has ended.  Of the  *)
(* runs that believe they hold it at most one speaks for it: the one that  *)
(* took it last.  Only that one stores its result and says how it ended;   *)
(* what the others still say is heard by nobody.                           *)
(***************************************************************************)
CONSTANTS
  Tasks, Workers, None,
  UnguardedTasks \* tasks whose result is stored by whoever comes first

VARIABLES
  stage,   \* of a task: waiting, held, or how it ended
  speaker, \* of a task: the worker whose run speaks for it, or None
  result,  \* of a task: its result is stored
  word     \* of a worker: what its run says of the task, or silent

vars == <<stage, speaker, result, word>>

Words == {"none", "succeeded", "failed", "transient"}

Init ==
  /\ stage = [t \in Tasks |-> "waiting"]
  /\ speaker = [t \in Tasks |-> None]
  /\ result = [t \in Tasks |-> FALSE]
  /\ word = [w \in Workers |-> "silent"]

Speaks(w, t) == stage[t] = "held" /\ speaker[t] = w

\* A run starts, speaks for the task from now on, and has something to say at once
\* only if the task ran out of time or its result is there; or it never learns of it.
Take(w, t) ==
  /\ stage[t] \in {"waiting", "held"}
  /\ word[w] = "silent" /\ \A u \in Tasks : speaker[u] # w
  /\ stage' = [stage EXCEPT ![t] = "held"]
  /\ speaker' = [speaker EXCEPT ![t] = w]
  /\ \E said \in {"silent", "none", "failed"} \cup (IF result[t] THEN {"succeeded"} ELSE {}) :
       word' = [word EXCEPT ![w] = said]
  /\ UNCHANGED result

\* The result, once, from the run that speaks for the task.
Publish(w, t) ==
  /\ word[w] # "silent" /\ ~ result[t]
  /\ Speaks(w, t) \/ t \in UnguardedTasks
  /\ result' = [result EXCEPT ![t] = TRUE]
  /\ word' = [word EXCEPT ![w] = "succeeded"]
  /\ UNCHANGED <<stage, speaker>>

\* A run makes up its mind; one that has stored its result asks for no retry.
Decide(w) ==
  /\ word[w] # "silent"
  /\ \E said \in Words \ {"none"} :
       /\ said = "transient" => word[w] = "none"
       /\ word' = [word EXCEPT ![w] = said]
  /\ UNCHANGED <<stage, speaker, result>>

\* The task ends as the run says that speaks for it.
Conclude(w, t) ==
  /\ Speaks(w, t)
  /\ stage' = [stage EXCEPT ![t] = IF word[w] = "succeeded" THEN "succeeded" ELSE "failed"]
  /\ speaker' = [speaker EXCEPT ![t] = None]
  /\ word' = [word EXCEPT ![w] = "silent"]
  /\ UNCHANGED result

\* It waits for another run, because this one asks for it.
Postpone(w, t) ==
  /\ Speaks(w, t) /\ word[w] = "transient"
  /\ stage' = [stage EXCEPT ![t] = "waiting"]
  /\ speaker' = [speaker EXCEPT ![t] = None]
  /\ word' = [word EXCEPT ![w] = "silent"]
  /\ UNCHANGED result

\* A run is gone; a task that it spoke for is held by nobody.
Leave(w) ==
  /\ word' = [word EXCEPT ![w] = "silent"]
  /\ speaker' = [t \in Tasks |-> IF speaker[t] = w THEN None ELSE speaker[t]]
  /\ UNCHANGED <<stage, result>>

\* Held tasks wait again, although their runs may go on.
Recall ==
  \E late \in SUBSET {t \in Tasks : stage[t] = "held"} :
    /\ stage' = [t \in Tasks |-> IF t \in late THEN "waiting" ELSE stage[t]]
    /\ speaker' = [t \in Tasks |-> IF t \in late THEN None ELSE speaker[t]]
    /\ UNCHANGED <<result, word>>

\* A task that waits fails, because it cannot be started.
Refuse(t) ==
  /\ stage[t] = "waiting"
  /\ stage' = [stage EXCEPT ![t] = "failed"]
  /\ UNCHANGED <<speaker, result, word>>

\* The user cancels, unless the result of a held task is there.
Cancel(t) ==
  /\ stage[t] = "waiting" \/ (stage[t] = "held" /\ ~ result[t])
  /\ stage' = [stage EXCEPT ![t] = "cancelled"]
  /\ speaker' = [speaker EXCEPT ![t] = None]
  /\ UNCHANGED <<result, word>>

Next ==
  \/ \E w \in Workers : Decide(w) \/ Leave(w)
  \/ \E w \in Workers, t \in Tasks :
       Take(w, t) \/ Publish(w, t) \/ Conclude(w, t) \/ Postpone(w, t)
  \/ Recall
  \/ \E t \in Tasks : Refuse(t) \/ Cancel(t)

Spec == Init /\ [][Next]_vars
=============================================================================
