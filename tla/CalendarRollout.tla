-------------------------- MODULE CalendarRollout --------------------------
(***************************************************************************)
(* The sealed window in which calendar events go from 0018 to 0019.        *)
(*                                                                         *)
(* 0019 names how the fields of an event are sealed.  What was sealed      *)
(* before cannot be opened any more, so its calendars lose their cursors   *)
(* and are marked, and are read again from the provider.  Three commands   *)
(* do this: the preflight refreshes every credential, proves that every    *)
(* calendar can be read and freezes the set and a deadline in a file; the  *)
(* migration names and marks; the recovery makes a task of every mark and  *)
(* runs it.  Each holds the lease of the rollout on a session of its own,  *)
(* and asks its guard again before whatever it leaves behind.              *)
(***************************************************************************)
EXTENDS Integers, Sequences, FiniteSets

CONSTANTS
  Pairs,    \* calendars, each of a connection of its own
  Commands,
  None,
  Life,     \* of an access token
  Margin,   \* before it runs out
  MaxTime, MaxAttempts, \* bounds: the clock, tasks for a pair
  MaxMishaps \* bound: commands that die and leases that are lost

VARIABLES
  now,
  head,      \* the revision
  fields,    \* how the fields of the pair's events are sealed
  cursor,    \* of the pair
  expiry,    \* of the access token of its connection
  refreshed, \* pairs whose one refresh for this rollout is spent
  attempts,  \* the tasks that are to read a pair again, by their ordinal
  file,      \* the artifact of the preflight
  lease,     \* which command has the lease of the rollout
  command,
  mishaps

tokens == <<expiry, refreshed>>
events == <<fields, cursor>>
rolloutVars == <<now, head, events, tokens, attempts, file, lease, command, mishaps>>

-----------------------------------------------------------------------------
Idle == [at |-> "idle", art |-> None, todo |-> {}, ordinal |-> [p \in Pairs |-> 0],
         pair |-> None]

Init ==
  /\ now = 0 /\ head = 18
  /\ fields \in [Pairs -> {"empty", "unnamed"}] /\ cursor \in [Pairs -> {"none", "live"}]
  /\ expiry = [p \in Pairs |-> Life] /\ refreshed = {}
  /\ attempts = [p \in Pairs |-> <<>>]
  /\ file = None /\ lease = None
  /\ command = [c \in Commands |-> Idle] /\ mishaps = 0

Affected == {p \in Pairs : fields[p] # "empty"}
Marked == {p \in Pairs : cursor[p] = "marked"}

\* Variant: the facts are the sealed events alone.
AnyCursor == TRUE

\* read_calendar_aad_facts refuses a pair that could not be read again.
Recoverable == \A p \in Affected : cursor[p] # "none"

\* verify_rollout: the set of the artifact, and time left by the artifact and by every
\* token as it is now.
Holds(art) ==
  /\ art.pairs = Affected
  /\ \A p \in Affected : now < art.deadline /\ now < expiry[p] - Margin

Owned(c) == lease = c
Published == IF file = None THEN None ELSE file.art

\* The guard of preflight and recovery: the lease, the file, the facts.
Verified(c, revision) ==
  /\ Owned(c) /\ head = revision /\ Recoverable
  /\ Published = command[c].art /\ Holds(command[c].art)

Move(c, at) == command' = [command EXCEPT ![c].at = at]

\* The command ends and closes the session of its lease.
Exit(c) ==
  /\ command' = [command EXCEPT ![c] = Idle]
  /\ lease' = IF Owned(c) THEN None ELSE lease

-----------------------------------------------------------------------------
(* Around the window                                                       *)

Tick ==
  /\ now < MaxTime /\ now' = now + 1
  /\ UNCHANGED <<head, events, tokens, attempts, file, lease, command, mishaps>>

\* The application synchronises, unless a migration has locked the events.
Synchronise(p) ==
  /\ head = 18 /\ \A c \in Commands : command[c].at # "commit"
  /\ fields' \in {[fields EXCEPT ![p] = f] : f \in {"empty", "unnamed"}}
  /\ cursor' = [cursor EXCEPT ![p] = "live"]
  /\ UNCHANGED <<now, head, tokens, attempts, file, lease, command, mishaps>>

Mishap == mishaps < MaxMishaps /\ mishaps' = mishaps + 1

\* The session of the lease is gone, and the command does not know.
LoseLease(c) ==
  /\ Owned(c) /\ lease' = None /\ Mishap
  /\ UNCHANGED <<now, head, events, tokens, attempts, file, command>>

Crash(c) ==
  /\ command[c] # Idle /\ Exit(c) /\ Mishap
  /\ UNCHANGED <<now, head, events, tokens, attempts, file>>

-----------------------------------------------------------------------------
(* Preflight                                                               *)

Starts(c, at, art, todo) ==
  /\ command[c] = Idle /\ lease = None /\ lease' = c
  /\ command' = [command EXCEPT ![c] = [Idle EXCEPT !.at = at, !.art = art, !.todo = todo]]

Preflight(c) ==
  /\ head = 18 /\ Recoverable /\ (file # None => Holds(file.art))
  /\ Starts(c, "refresh", Published, Affected)
  /\ UNCHANGED <<now, head, events, tokens, attempts, file, mishaps>>

\* One active refresh for a connection; another preflight of the same rollout finds it.
Refresh(c, p) ==
  /\ command[c].at = "refresh" /\ p \in command[c].todo \ refreshed /\ Owned(c)
  /\ expiry' = [expiry EXCEPT ![p] = now + Life] /\ refreshed' = refreshed \cup {p}
  /\ UNCHANGED <<now, head, events, attempts, file, lease, command, mishaps>>

\* create_rollout_artifact: the deadline is that of the token that runs out first.
Artifact ==
  [pairs |-> Affected,
   deadline |-> IF Affected = {} THEN 0
                ELSE CHOOSE d \in {expiry[p] - Margin : p \in Affected} :
                       \A p \in Affected : d <= expiry[p] - Margin]

\* The facts are read again; a published artifact is never made anew.
Freeze(c) ==
  /\ command[c].at = "refresh" /\ command[c].todo \subseteq refreshed
  /\ head = 18 /\ Recoverable /\ Affected = command[c].todo
  /\ LET art == IF command[c].art # None THEN command[c].art ELSE Artifact
     IN  /\ Holds(art)
         /\ command' = [command EXCEPT ![c].at = "probe", ![c].art = art]
  /\ UNCHANGED <<now, head, events, tokens, attempts, file, lease, mishaps>>

\* Every page of every pair is fetched under the same proof, which stands for the next.
Probe(c, p) ==
  /\ command[c].at = "probe" /\ p \in command[c].todo
  /\ head = 18 /\ Recoverable /\ Owned(c) /\ Holds(command[c].art)
  /\ command' = [command EXCEPT ![c].todo = @ \ {p}]
  /\ UNCHANGED <<now, head, events, tokens, attempts, file, lease, mishaps>>

\* The artifact is staged, and the guard asked.
Stage(c) ==
  /\ command[c].at = "probe" /\ command[c].todo = {}
  /\ head = 18 /\ Recoverable /\ Owned(c) /\ Holds(command[c].art)
  /\ Published \in {None, command[c].art} /\ Move(c, "publish")
  /\ UNCHANGED <<now, head, events, tokens, attempts, file, lease, mishaps>>

Reuse(c) ==
  /\ command[c].at = "publish" /\ Published = command[c].art /\ Exit(c)
  /\ UNCHANGED <<now, head, events, tokens, attempts, file, mishaps>>

\* Nothing was there ...
Missing(c) ==
  /\ command[c].at = "publish" /\ file = None /\ Move(c, "rename")
  /\ UNCHANGED <<now, head, events, tokens, attempts, file, lease, mishaps>>

\* ... when it looked.
Rename(c) ==
  /\ command[c].at = "rename" /\ file' = [art |-> command[c].art, by |-> c]
  /\ Move(c, "leave")
  /\ UNCHANGED <<now, head, events, tokens, attempts, lease, mishaps>>

\* If something fails from here on, the command takes back its own file and no other.
Leave(c) ==
  /\ command[c].at = "leave" /\ Exit(c)
  /\ \/ UNCHANGED file
     \/ file # None /\ file.by = c /\ file' = None
  /\ UNCHANGED <<now, head, events, tokens, attempts, mishaps>>

-----------------------------------------------------------------------------
(* Migration                                                               *)

\* The guard asks before the first change.
Migrate(c) ==
  /\ file # None /\ head = 18 /\ Recoverable /\ Holds(file.art)
  /\ \A o \in Commands : command[o].at \notin {"label", "commit"}
  /\ Starts(c, "label", file.art, {})
  /\ UNCHANGED <<now, head, events, tokens, attempts, file, mishaps>>

\* The events are locked; cursors that are there are marked.
Label(c) ==
  /\ command[c].at = "label"
  /\ command' = [command EXCEPT ![c].at = "commit",
                                ![c].todo = {p \in Affected : cursor[p] = "live"}]
  /\ UNCHANGED <<now, head, events, tokens, attempts, file, lease, mishaps>>

\* The guard asks again, of the rows as they will be.
Commit(c) ==
  /\ command[c].at = "commit" /\ Verified(c, 18)
  /\ head' = 19
  /\ fields' = [p \in Pairs |-> IF p \in Affected THEN "v1" ELSE fields[p]]
  /\ cursor' = [p \in Pairs |-> IF p \in command[c].todo THEN "marked" ELSE cursor[p]]
  /\ Exit(c)
  /\ UNCHANGED <<now, tokens, attempts, file, mishaps>>

-----------------------------------------------------------------------------
(* Recovery                                                                *)

Active == {"open", "running", "retry", "lapsed"}

ActiveAttempts(p) == {i \in DOMAIN attempts[p] : attempts[p][i].status \in Active}

Recover(c) ==
  /\ file # None /\ head = 19 /\ Recoverable /\ Holds(file.art)
  /\ Starts(c, "plan", file.art, {})
  /\ UNCHANGED <<now, head, events, tokens, attempts, file, mishaps>>

\* One transaction, with the guard at both ends: what is active is taken up, and only
\* what has failed is followed by another ordinal.
Plan(c) ==
  /\ command[c].at = "plan" /\ Verified(c, 19) /\ Marked \subseteq command[c].art.pairs
  /\ \A p \in Marked :
       /\ Cardinality(ActiveAttempts(p)) <= 1
       /\ \A i \in DOMAIN attempts[p] : attempts[p][i].status \in Active \cup {"failed"}
       /\ ActiveAttempts(p) = {} => Len(attempts[p]) < MaxAttempts
  /\ attempts' = [p \in Pairs |->
       IF p \in Marked /\ ActiveAttempts(p) = {}
         THEN Append(attempts[p], [status |-> "open", owner |-> None])
         ELSE attempts[p]]
  /\ command' = [command EXCEPT
       ![c].at = "run", ![c].todo = Marked,
       ![c].ordinal = [p \in Pairs |->
         IF p \notin Marked THEN 0
         ELSE IF ActiveAttempts(p) = {} THEN Len(attempts[p]) + 1
         ELSE CHOOSE i \in ActiveAttempts(p) : TRUE]]
  /\ UNCHANGED <<now, head, events, tokens, file, lease, mishaps>>

Attempt(c) == attempts[command[c].pair][command[c].ordinal[command[c].pair]]
SetAttempt(p, i, status, owner) ==
  attempts' = [attempts EXCEPT ![p][i] = [status |-> status, owner |-> owner]]

\* Variant: a runner knows that it has taken the task.
Taken(c) == TRUE

\* require_calendar_aad_task, and the comparison with which a runner ends a task.
Mine(c) == Attempt(c) = [status |-> "running", owner |-> c]

\* The task of the plan is dispatched and acquired.
Take(c, p) ==
  LET i == command[c].ordinal[p]
  IN /\ command[c].at = "run" /\ p \in command[c].todo /\ Verified(c, 19)
     /\ attempts[p][i].status \in {"open", "retry", "lapsed"}
     /\ SetAttempt(p, i, "running", c)
     /\ command' = [command EXCEPT ![c].at = "step", ![c].todo = @ \ {p}, ![c].pair = p]
     /\ UNCHANGED <<now, head, events, tokens, file, lease, mishaps>>

\* Its message or its retry is not due, or another owner has it.
Pass(c, p) ==
  /\ command[c].at = "run" /\ p \in command[c].todo /\ Verified(c, 19)
  /\ command' = [command EXCEPT ![c].todo = @ \ {p}]
  /\ UNCHANGED <<now, head, events, tokens, attempts, file, lease, mishaps>>

\* The runner writes down how the task has ended, if it still is its own.
Ends(c, status) ==
  /\ IF Mine(c)
       THEN SetAttempt(command[c].pair, command[c].ordinal[command[c].pair], status, None)
       ELSE UNCHANGED attempts
  /\ command' = [command EXCEPT ![c].at = "run", ![c].pair = None]
  /\ UNCHANGED <<now, head, events, tokens, file, lease, mishaps>>

\* get_marked_state.
Look(c) ==
  /\ command[c].at = "step" /\ Verified(c, 19) /\ Mine(c)
  /\ command[c].pair \in Marked /\ Move(c, "read")
  /\ UNCHANGED <<now, head, events, tokens, attempts, file, lease, mishaps>>

Read(c) ==
  /\ command[c].at = "read" /\ Verified(c, 19)
  /\ Move(c, "store")
  /\ UNCHANGED <<now, head, events, tokens, attempts, file, lease, mishaps>>

\* finish_marked_scope: the mark and the task are still the same, and the guard is last.
\* The events may have lost their texts.
Store(c) ==
  LET p == command[c].pair
  IN /\ command[c].at = "store" /\ p \in Marked /\ Mine(c) /\ Verified(c, 19)
     /\ \E sealing \in {"v2", "empty"} : fields' = [fields EXCEPT ![p] = sealing]
     /\ cursor' = [cursor EXCEPT ![p] = "live"]
     /\ Move(c, "settle")
     /\ UNCHANGED <<now, head, tokens, attempts, file, lease, mishaps>>

Settle(c) == command[c].at = "settle" /\ Ends(c, "succeeded")

\* A guard, a comparison or the provider fails the task, which may be tried again later;
\* where the mark was gone from the start there was nothing to do.
Verdicts(c) ==
  {"failed", "retry"} \cup
  (IF command[c].at = "step" /\ command[c].pair \notin Marked THEN {"succeeded"} ELSE {})

StepEnds(c) ==
  /\ command[c].at \in {"step", "read", "store"}
  /\ \E status \in Verdicts(c) : Ends(c, status)

\* The lease of a task runs out, whether its owner is gone or only slow.
Lapse(p, i) ==
  /\ i \in DOMAIN attempts[p] /\ attempts[p][i].status = "running"
  /\ SetAttempt(p, i, "lapsed", attempts[p][i].owner)
  /\ UNCHANGED <<now, head, events, tokens, file, lease, command, mishaps>>

\* Everything else ends a command: it is done, or a guard, the provider or a limit of
\* time has ended it.  What a migration had not committed goes.
Finish(c) ==
  /\ command[c].at \in {"refresh", "probe", "publish", "label", "commit", "plan", "run"}
  /\ Exit(c)
  /\ UNCHANGED <<now, head, events, tokens, attempts, file, mishaps>>

-----------------------------------------------------------------------------
Preflights(c) ==
  \/ Preflight(c) \/ Freeze(c) \/ Stage(c) \/ Reuse(c) \/ Missing(c) \/ Rename(c) \/ Leave(c)
  \/ \E p \in Pairs : Refresh(c, p) \/ Probe(c, p)

Migrations(c) == Migrate(c) \/ Label(c) \/ Commit(c)

Recoveries(c) ==
  \/ Recover(c) \/ Plan(c) \/ Look(c) \/ Read(c) \/ Store(c) \/ Settle(c)
  \/ StepEnds(c) \/ \E p \in Pairs : Take(c, p) \/ Pass(c, p)

Next ==
  \/ Tick
  \/ \E p \in Pairs : Synchronise(p) \/ \E i \in 1..MaxAttempts : Lapse(p, i)
  \/ \E c \in Commands :
       LoseLease(c) \/ Crash(c) \/ Finish(c) \/ Preflights(c) \/ Migrations(c) \/ Recoveries(c)

Spec == Init /\ [][Next]_rolloutVars

-----------------------------------------------------------------------------
(* Properties                                                              *)

Arts == [pairs : SUBSET Pairs, deadline : 0..(MaxTime + Life)]

TypeOK ==
  /\ now \in 0..MaxTime /\ head \in {18, 19}
  /\ fields \in [Pairs -> {"empty", "unnamed", "v1", "v2"}]
  /\ cursor \in [Pairs -> {"none", "live", "marked"}]
  /\ file = None \/ file \in [art : Arts, by : Commands]
  /\ lease \in Commands \cup {None} /\ refreshed \subseteq Pairs

\* At 0019 whatever was sealed before has a mark until it has been read again: there is
\* no calendar whose events nobody can open and nobody will fetch.
LegacyIsMarked ==
  /\ head = 19 => \A p \in Pairs : fields[p] # "unnamed"
  /\ \A p \in Pairs : fields[p] = "v1" => cursor[p] = "marked"

\* Whatever dies, lapses or loses its lease, a pair has one active task at most, and
\* none of a pair that is still marked has succeeded: the next plan never refuses a mark.
NextPlanWorks ==
  \A p \in Pairs :
    /\ Cardinality(ActiveAttempts(p)) <= 1
    /\ p \in Marked => \A i \in DOMAIN attempts[p] : attempts[p][i].status # "succeeded"
=============================================================================
