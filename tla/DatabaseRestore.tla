-------------------------- MODULE DatabaseRestore --------------------------
(***************************************************************************)
(* The restore of a database from a dump, and who else works on it.        *)
(*                                                                         *)
(* A restore is an operation of many transactions, streams and processes   *)
(* that must survive the death of its controller.  What it has come to is  *)
(* kept in three settings of the database: the gate, the authority of the  *)
(* call and, at the end, the completion; they change in one transaction    *)
(* with the access of the runtime roles, so that they are one record here. *)
(* While the gate is set the runtime roles may not connect.                *)
(*                                                                         *)
(* The dump itself runs through a psql with a server process of its own.   *)
(* It is one transaction, committed by the last bytes of the stream, and   *)
(* it may outlive the controller that has fed it.                          *)
(*                                                                         *)
(* Controllers, migrations, resets and backups exclude each other by the   *)
(* advisory locks of a target.  The lock that counts is held on the very   *)
(* connection that writes; who has lost it can only feed what it has begun *)
(* to feed.                                                                *)
(***************************************************************************)
EXTENDS Integers

CONSTANTS
  None, Maint,
  Controllers, \* invocations of the restore that may be at work at one time
  Dumps,       \* what the claim of an invocation binds: a dump and its fingerprint
  MaxAttempts, \* bound: gates that are established
  MaxCalls,    \* bound: psql processes
  MaxReopens,  \* bound: final commits of one attempt
  MaxFaults \* bound: lost connections, crashes and answers that fail

ASSUME ConstantsAssumption ==
  /\ {MaxAttempts, MaxCalls, MaxReopens, MaxFaults} \subseteq Nat
  /\ None \notin Controllers \cup Dumps \cup {Maint, "old", "edited", "other",
                                             "completed", "reopen_not_applied"}
  /\ Maint \notin Controllers /\ Dumps \cap {"old", "edited", "other"} = {}

Backends == 1..MaxCalls

\* What is in the database: as at first, as the application or a migration has left
\* it, as a dump leaves it, or what no fingerprint knows.
Contents == {"old", "edited", "other"} \cup Dumps

\* The grants of the objects: those of the runtime roles, those under a gate, and those
\* that a dump leaves, which has none of the runtime roles.
GrantPhases == {"baseline", "active", "bare"}

Verdicts == {"restore_succeeded", "grants_succeeded", "verified", "reopen_committing",
             "reopen_not_applied"}

VARIABLES
  call,     \* gate, authority and completion; phase "none" before the first gate
  content,
  grants,   \* of the objects
  session,  \* a runtime role is connected
  backend,  \* the server processes of psql
  spawned,  \* how many there were
  ctl,      \* the controllers
  holder,   \* of the locks
  maint,    \* the other operations
  target,   \* "ready", or amid a reset "absent" or a "candidate"
  faults

database == <<call, content, grants>>
vars == <<database, session, backend, spawned, ctl, holder, maint, target, faults>>

-----------------------------------------------------------------------------
NoCall == [phase |-> "none", attempt |-> 0, dump |-> None, ordinal |-> 0, reopen |-> 0,
           pre |-> None, backend |-> 0, observed |-> None]

\* approves: the ordinal that the operator has approved, of the call or of the final
\* commit that waits; own: the psql; unknown, took and told: of a commit in doubt.
Away == [at |-> "idle", claim |-> None, approves |-> 0, own |-> 0,
         unknown |-> NoCall, took |-> FALSE, told |-> None]

Init ==
  /\ call = NoCall /\ content = "old" /\ grants = "baseline" /\ session = FALSE
  /\ backend = [b \in Backends |-> [state |-> "none", dump |-> None]] /\ spawned = 0
  /\ ctl = [c \in Controllers |-> Away]
  /\ holder = None /\ maint = "idle" /\ target = "ready" /\ faults = 0

Fault == faults < MaxFaults /\ faults' = faults + 1

\* The gate and the call without the completion: runtime roles have no CONNECT.
Active == call.phase \notin {"none", "completed"}

\* _validate_restore_call_phase_shape: which facts a call of a phase has.  A dump that
\* was there before the first call is observed without any.
Shaped(k) ==
  LET called == k.ordinal > 0 /\ k.pre # None
      starting == called /\ k.backend = 0 /\ k.observed = None /\ k.reopen = 0
      running == called /\ k.backend # 0 /\ k.observed = None /\ k.reopen = 0
      observed == /\ k.observed # None
                  /\ (k.ordinal = 0) = (k.pre = None) /\ (k.ordinal = 0) = (k.backend = 0)
  IN CASE k.phase = "gate_established" -> k = [NoCall EXCEPT !.phase = k.phase,
                                               !.attempt = k.attempt, !.dump = k.dump]
       [] k.phase = "restore_backend_starting" -> starting
       [] k.phase \in {"restore_backend_ready", "restore_started", "restore_not_applied"} ->
            running
       [] k.phase \in {"restore_succeeded", "grants_succeeded", "verified"} ->
            observed /\ k.reopen = 0
       [] k.phase \in {"reopen_committing", "reopen_not_applied", "completed"} ->
            observed /\ k.reopen > 0
       [] k.phase = "needs_attention" -> starting \/ running \/ (observed /\ k.reopen > 0)

\* _RESTORE_PHASE_EDGES.
Edges ==
  {<<"gate_established", "restore_backend_starting">>, <<"gate_established", "restore_succeeded">>,
   <<"restore_backend_starting", "restore_backend_ready">>,
   <<"restore_backend_ready", "restore_started">>, <<"restore_backend_ready", "restore_not_applied">>,
   <<"restore_started", "restore_succeeded">>, <<"restore_started", "restore_not_applied">>,
   <<"restore_not_applied", "restore_backend_starting">>,
   <<"restore_succeeded", "grants_succeeded">>, <<"grants_succeeded", "verified">>,
   <<"verified", "reopen_committing">>, <<"reopen_committing", "completed">>,
   <<"reopen_committing", "reopen_not_applied">>, <<"reopen_not_applied", "reopen_committing">>}
  \cup ({"restore_backend_starting", "restore_backend_ready", "restore_started",
         "reopen_committing"} \X {"needs_attention"})

\* validate_restore_call_transition.
Follows(old, new) ==
  LET starts == new.phase = "restore_backend_starting"
  IN /\ Shaped(new) /\ <<old.phase, new.phase>> \in Edges
     /\ new.attempt = old.attempt /\ new.dump = old.dump
     /\ new.ordinal = old.ordinal + (IF starts THEN 1 ELSE 0)
     /\ new.reopen = old.reopen + (IF new.phase = "reopen_committing" THEN 1 ELSE 0)
     /\ starts => new.pre # new.dump /\ (old.pre # None => new.pre = old.pre)
     /\ ~starts => new.pre = old.pre
     /\ IF new.phase = "restore_backend_ready" THEN old.backend = 0
        ELSE starts \/ new.backend = old.backend
     /\ IF new.phase = "restore_succeeded" THEN old.observed = None /\ new.observed = new.dump
        ELSE new.observed = old.observed

Alive(b) == backend[b].state \in {"unfed", "fed", "whole"}

\* Somebody else is connected as the owner.
ForeignOwner == \E b \in Backends : Alive(b)

\* Variant: the grants of a call under way are those of the gate.
FitsGate(phase) ==
  CASE phase \in {"none", "completed"} -> grants = "baseline"
    [] phase = "restore_succeeded" -> grants = IF call.ordinal > 0 THEN "bare" ELSE "active"
    [] OTHER -> grants = "active"

\* _verify_inventory: what a phase asks of the grants of the objects.
Fits(phase) ==
  CASE phase \in {"none", "completed"} -> grants = "baseline"
    [] phase = "restore_succeeded" -> grants = IF call.ordinal > 0 THEN "bare" ELSE "active"
    [] phase \in {"restore_started", "needs_attention"} -> grants \in {"active", "bare"}
    [] OTHER -> grants = "active"

-----------------------------------------------------------------------------
(* The runtime roles                                                       *)

\* The privileges of the database: with the gate the runtime roles lose CONNECT.
MayConnect == target = "ready" /\ ~Active

Connect ==
  /\ ~session /\ MayConnect
  /\ session' = TRUE
  /\ UNCHANGED <<database, backend, spawned, ctl, holder, maint, target, faults>>

Disconnect ==
  /\ session /\ session' = FALSE
  /\ UNCHANGED <<database, backend, spawned, ctl, holder, maint, target, faults>>

\* The gate does not touch a session that is there.  What it writes may happen to be
\* what a dump holds.
Edit ==
  /\ session /\ content' \in {"edited"} \cup Dumps
  /\ UNCHANGED <<call, grants, session, backend, spawned, ctl, holder, maint, target, faults>>

-----------------------------------------------------------------------------
(* psql and its server process                                             *)

BackendRollsBack(b) ==
  /\ Alive(b)
  /\ backend' = [backend EXCEPT ![b].state = "gone"]
  /\ UNCHANGED <<database, session, spawned, ctl, holder, maint, target, faults>>

\* The trailer lets the transaction commit.
BackendCommits(b) ==
  /\ backend[b].state = "whole"
  /\ backend' = [backend EXCEPT ![b].state = "gone"]
  /\ content' \in {backend[b].dump, "other"} /\ grants' = "bare"
  /\ UNCHANGED <<call, session, spawned, ctl, holder, maint, target, faults>>

-----------------------------------------------------------------------------
(* The controller                                                          *)

Live(c) == holder = c

Go(c, at) == ctl' = [ctl EXCEPT ![c].at = at]

\* The invocation ends, and its locks with it.
Leave(c, told) ==
  /\ ctl' = [ctl EXCEPT ![c] =
       [Away EXCEPT !.told = told, !.took = told # None /\ ctl[c].took]]
  /\ holder' = IF Live(c) THEN None ELSE holder

CtlOnly == UNCHANGED <<database, session, backend, spawned, maint, target>>

Quiet == UNCHANGED <<content, grants, session, backend, spawned, maint, target>>

\* _acquire_management_lifecycle_lock, target and schema lock, each of them tried
\* once; the operator names the claim and approves what the evidence has shown.
Begin(c, dump, n) ==
  /\ ctl[c].at = "idle" /\ holder = None /\ target = "ready"
  /\ holder' = c
  /\ ctl' = [ctl EXCEPT ![c] =
       [Away EXCEPT !.at = "enter", !.claim = dump, !.approves = n]]
  /\ CtlOnly /\ UNCHANGED faults

\* read_facts: an active gate is that of this claim.
Claimed(c) == Active => Shaped(call) /\ call.dump = ctl[c].claim

In(c, phase) == Live(c) /\ Claimed(c) /\ call.phase = phase

\* admit, of an invocation that has found no server process alive.
Admitted(c) == ctl[c].at = "enter" /\ Live(c) /\ Claimed(c) /\ Fits(call.phase)

Becomes(next) == Follows(call, next) /\ call' = next

\* _advance and _transition.
To(phase) ==
  Becomes([call EXCEPT !.phase = phase,
                       !.observed = IF phase = "restore_succeeded" THEN content ELSE @])

\* A new controller cannot know what became of a psql that nobody has registered.
FindStarting(c) ==
  /\ Admitted(c) /\ call.phase = "restore_backend_starting"
  /\ To("needs_attention") /\ Leave(c, None) /\ Quiet /\ UNCHANGED faults

\* Variant: a server process is as good as gone when its controller is.
Orphaned(b) == \A c \in Controllers : ctl[c].own # b

\* _backend_exited.
Exited(b) == ~Alive(b)

\* restore_outcome_unknown: nothing is read while the server process lives.
FindAlive(c) ==
  /\ ctl[c].at \in {"enter", "reconcile"} /\ Live(c) /\ Claimed(c)
  /\ call.phase \in {"restore_backend_ready", "restore_started"} /\ ~Exited(call.backend)
  /\ Leave(c, None) /\ CtlOnly /\ UNCHANGED faults

\* The database is what the claim wants.
AlreadyApplied(c) ==
  /\ Admitted(c) /\ ~Active /\ ~ForeignOwner /\ content = ctl[c].claim
  /\ Leave(c, None) /\ CtlOnly /\ UNCHANGED faults

\* _establish_gate, up to its commit.
EstablishGate(c) ==
  /\ Admitted(c) /\ ~Active /\ ~ForeignOwner
  /\ content # ctl[c].claim /\ call.attempt < MaxAttempts
  /\ call' = [NoCall EXCEPT !.phase = "gate_established", !.attempt = call.attempt + 1,
                            !.dump = ctl[c].claim]
  /\ grants' = "active"
  /\ Go(c, "drain")
  /\ UNCHANGED <<content, session, backend, spawned, holder, maint, target, faults>>

\* _drain_gate_sessions, of the first controller and of every other that finds the
\* gate without a call.
Drain(c) ==
  /\ \/ ctl[c].at = "drain" /\ Live(c)
     \/ Admitted(c) /\ call.phase = "gate_established"
  /\ session' = FALSE /\ Go(c, "gated")
  /\ UNCHANGED <<database, backend, spawned, holder, maint, target, faults>>

\* Variant: the phase says that the sessions are gone.
GateStands(c) == ctl[c].at \in {"enter", "drain", "gated"}

\* This invocation has drained the sessions itself.
Drained(c) == ctl[c].at = "gated"

\* The dump is there though nobody has called for it.
SucceedDirectly(c) ==
  /\ In(c, "gate_established") /\ Drained(c) /\ content = ctl[c].claim
  /\ To("restore_succeeded") /\ Go(c, "run")
  /\ UNCHANGED <<content, grants, session, backend, spawned, holder, maint, target, faults>>

\* _start_call: the first call, or the next one of a call that was not applied.
StartCall(c) ==
  /\ \/ In(c, "gate_established") /\ Drained(c)
     \/ /\ In(c, "restore_not_applied") /\ ctl[c].at \in {"enter", "run"} /\ ctl[c].own = 0
        /\ ctl[c].approves = call.ordinal + 1 /\ content = call.pre
  /\ Fits(call.phase) /\ ~ForeignOwner /\ content # ctl[c].claim /\ spawned < MaxCalls
  /\ Becomes([call EXCEPT !.phase = "restore_backend_starting", !.ordinal = @ + 1,
                           !.pre = content, !.backend = 0])
  /\ Go(c, "spawn") /\ Quiet /\ UNCHANGED <<holder, faults>>

\* psql connects; nothing is fed yet.
Spawn(c) ==
  /\ ctl[c].at = "spawn" /\ Live(c)
  /\ spawned' = spawned + 1
  /\ backend' = [backend EXCEPT ![spawned + 1] = [state |-> "unfed", dump |-> ctl[c].claim]]
  /\ ctl' = [ctl EXCEPT ![c].at = "register", ![c].own = spawned + 1]
  /\ UNCHANGED <<database, session, holder, maint, target, faults>>

\* _register_and_start, in two commits: who the server process is, then that it starts.
Register(c) ==
  /\ In(c, "restore_backend_starting") /\ ctl[c].at = "register"
  /\ backend[ctl[c].own].state = "unfed" /\ Fits(call.phase)
  /\ Becomes([call EXCEPT !.phase = "restore_backend_ready", !.backend = ctl[c].own])
  /\ Quiet /\ UNCHANGED <<ctl, holder, faults>>

RegisterStarted(c) ==
  /\ In(c, "restore_backend_ready") /\ ctl[c].at = "register"
  /\ backend[ctl[c].own].state = "unfed"
  /\ \A b \in Backends : Alive(b) => b = ctl[c].own
  /\ To("restore_started") /\ Go(c, "feed") /\ Quiet /\ UNCHANGED <<holder, faults>>

\* assert_control_live, before the dump and once more before the trailer.
CheckControl(c) ==
  /\ ctl[c].at \in {"feed", "trail"} /\ Live(c)
  /\ Go(c, IF ctl[c].at = "feed" THEN "feeding" ELSE "trailing")
  /\ CtlOnly /\ UNCHANGED <<holder, faults>>

\* _write.  The locks may be lost since they were looked at.
Feed(c) ==
  /\ ctl[c].at = "feeding" /\ Alive(ctl[c].own)
  /\ backend' = [backend EXCEPT ![ctl[c].own].state = "fed"]
  /\ Go(c, "trail")
  /\ UNCHANGED <<database, session, spawned, holder, maint, target, faults>>

\* The trailer, when pg_restore has come to its end.
Trail(c) ==
  /\ ctl[c].at = "trailing" /\ Alive(ctl[c].own)
  /\ backend' = [backend EXCEPT ![ctl[c].own].state = "whole"]
  /\ Go(c, "reconcile")
  /\ UNCHANGED <<database, session, spawned, holder, maint, target, faults>>

\* A broken pipe or a pg_restore that fails: the children are stopped.
StreamBreaks(c) ==
  /\ ctl[c].at \in {"feed", "feeding", "trail", "trailing"} /\ Live(c)
  /\ Go(c, "reconcile")
  /\ CtlOnly /\ UNCHANGED <<holder, faults>>

\* _reconcile_stream: the exact fingerprints decide, whatever the processes said.
Reconcile(c) ==
  /\ \/ ctl[c].at = "reconcile" /\ Live(c) /\ Claimed(c)
     \/ Admitted(c)
  /\ call.phase \in {"restore_backend_ready", "restore_started"} /\ Exited(call.backend)
  /\ \/ content = ctl[c].claim /\ To("restore_succeeded")
     \/ content = call.pre /\ To("restore_not_applied")
     \/ content \notin {ctl[c].claim, call.pre} /\ To("needs_attention")
  /\ Fits(call.phase) /\ Fits(call'.phase)
  /\ Go(c, "run") /\ Quiet /\ UNCHANGED <<holder, faults>>

\* The fingerprint cannot be read.
Unreadable(c) ==
  /\ \/ ctl[c].at = "reconcile" /\ Live(c) /\ Claimed(c)
     \/ Admitted(c)
  /\ call.phase \in {"restore_backend_ready", "restore_started"} /\ Exited(call.backend)
  /\ Fault
  /\ To("needs_attention") /\ Leave(c, None) /\ Quiet

At(c, phase) ==
  /\ In(c, phase)
  /\ ctl[c].at = "run" \/ Admitted(c)

\* apply_restore_object_grants: only what a dump leaves, or what the gate has left
\* alone, becomes the grants of the gate.
Regranted(before) == IF before \in {"bare", "active"} THEN "active" ELSE before

\* _grant_restored.
GrantRestored(c) ==
  /\ At(c, "restore_succeeded") /\ Fits(call.phase)
  /\ To("grants_succeeded") /\ grants' = Regranted(grants) /\ Go(c, "run")
  /\ UNCHANGED <<content, session, backend, spawned, holder, maint, target, faults>>

\* _verify_as_app.
Verify(c) ==
  /\ At(c, "grants_succeeded") /\ Fits(call.phase) /\ content = ctl[c].claim
  /\ To("verified") /\ Go(c, "run") /\ Quiet /\ UNCHANGED <<holder, faults>>

\* A new invocation that finds the last commit announced knows that it was not made.
FindReopening(c) ==
  /\ Admitted(c) /\ call.phase = "reopen_committing"
  /\ To("reopen_not_applied") /\ Go(c, "run") /\ Quiet /\ UNCHANGED <<holder, faults>>

\* The last commit is announced, and each after the first is approved.
StartReopen(c) ==
  /\ \/ At(c, "verified")
     \/ At(c, "reopen_not_applied") /\ ctl[c].approves = call.reopen + 1
  /\ Fits(call.phase) /\ call.reopen < MaxReopens
  /\ Becomes([call EXCEPT !.phase = "reopen_committing", !.reopen = @ + 1])
  /\ Go(c, "complete") /\ Quiet /\ UNCHANGED <<holder, faults>>

\* Variant: the runtime roles may connect and keep the grants of the gate.
StillActive == "active"

\* apply_restore_phase_grants of the last commit.
Reopened == "baseline"

\* The audit of a completion says what was expected and what was observed.
Auditable(k) == k.phase = "completed" /\ k.reopen >= 1 /\ k.observed = k.dump

\* The call is completed, and the runtime roles have CONNECT and their grants again.
Completed ==
  /\ Auditable([call EXCEPT !.phase = "completed"])
  /\ To("completed") /\ grants' = Reopened

\* _complete: one commit.
Complete(c) ==
  /\ In(c, "reopen_committing") /\ ctl[c].at = "complete" /\ Fits(call.phase)
  /\ Completed /\ Leave(c, None)
  /\ UNCHANGED <<content, session, backend, spawned, maint, target, faults>>

\* _commit_completion: the connection dies with the commit, and the server ends it
\* one way or the other before it lets go of the locks.
CompleteInDoubt(c) ==
  /\ In(c, "reopen_committing") /\ ctl[c].at = "complete" /\ Fits(call.phase) /\ Fault
  /\ \E took \in BOOLEAN :
       /\ IF took THEN Completed ELSE UNCHANGED <<call, grants>>
       /\ ctl' = [ctl EXCEPT ![c].at = "doubt", ![c].unknown = call, ![c].took = took]
  /\ holder' = None
  /\ UNCHANGED <<content, session, backend, spawned, maint, target>>

\* The exact tuple before or after the commit in doubt.
SameFacts(c, phase) == call = [ctl[c].unknown EXCEPT !.phase = phase]

Doubtful(c) == ctl[c].at = "doubt" /\ holder = None /\ target = "ready"

\* reconcile_completion_ack, on connections of its own.
AckCompleted(c) ==
  /\ Doubtful(c) /\ SameFacts(c, "completed")
  /\ Leave(c, "completed") /\ CtlOnly /\ UNCHANGED faults

AckNotApplied(c) ==
  /\ Doubtful(c) /\ SameFacts(c, "reopen_committing")
  /\ To("reopen_not_applied") /\ Leave(c, "reopen_not_applied") /\ Quiet /\ UNCHANGED faults

\* Something else has happened since.
AckElse(c) ==
  /\ Doubtful(c) /\ ~SameFacts(c, "completed") /\ ~SameFacts(c, "reopen_committing")
  /\ Leave(c, None) /\ CtlOnly /\ UNCHANGED faults

\* Whatever is asked for is not the case, or the rest of a call waits for an approval.
GiveUp(c) ==
  /\ ctl[c].at \notin {"idle", "doubt"} /\ Live(c)
  /\ \/ call.phase \in {"restore_not_applied", "reopen_not_applied", "needs_attention"}
     \/ ctl[c].at = "enter" /\ ~(Claimed(c) /\ Fits(call.phase) /\ (~Active => ~ForeignOwner))
     \/ ctl[c].at \in {"register", "reconcile"}
  /\ Leave(c, None) /\ CtlOnly /\ UNCHANGED faults

\* A physical connection dies: the locks are gone, the controller goes on until it
\* looks at them.
LoseLocks(c) ==
  /\ Live(c) /\ Fault
  /\ holder' = None
  /\ CtlOnly /\ UNCHANGED ctl

Stop(c) ==
  /\ ctl[c].at \notin {"idle", "doubt"} /\ ~Live(c)
  /\ Leave(c, None) /\ CtlOnly /\ UNCHANGED faults

Crash(c) ==
  /\ ctl[c].at # "idle" /\ Fault
  /\ Leave(c, None) /\ CtlOnly

-----------------------------------------------------------------------------
(* The other operations                                                    *)

\* Variant: a call that needs attention is over.
OverIsIdle == call.phase \in {"none", "completed", "needs_attention"} /\ Fits(call.phase)

\* classify_database_admission, of whoever is not the restore: pristine or completed.
Idle == ~Active /\ Fits(call.phase)

Rest == UNCHANGED <<call, session, backend, spawned, ctl, faults>>

\* assert_migration_allowed and assert_reset_allowed, which want no runtime session;
\* backups go well with those.
Admit(what) ==
  /\ holder = None /\ maint = "idle" /\ target = "ready" /\ Idle
  /\ what # "backup" => ~session
  /\ holder' = Maint /\ maint' = what
  /\ UNCHANGED <<content, grants, target>> /\ Rest

\* run_typed_migration asks again, under the schema lock.
Migrate ==
  /\ maint = "migrate" /\ Idle /\ ~session
  /\ content' = "edited" /\ holder' = None /\ maint' = "idle"
  /\ UNCHANGED <<grants, target>> /\ Rest

\* A database that is new gets its roles and their grants.
BootstrapCandidate ==
  /\ holder = None /\ maint = "idle" /\ ~session /\ target = "candidate"
  /\ target' = "ready" /\ grants' = "baseline"
  /\ UNCHANGED <<content, holder, maint>> /\ Rest

\* The passwords are replaced, and the grants there should be are granted again.
ReassertRoles ==
  /\ holder = None /\ maint = "idle" /\ ~session /\ target = "ready" /\ Idle
  /\ grants' = "baseline"
  /\ UNCHANGED <<content, holder, maint, target>> /\ Rest

\* drop_and_create_target: the settings of the database go with it.
DropTarget ==
  /\ maint = "reset" /\ target = "ready" /\ ~session /\ ~ForeignOwner
  /\ call' = [NoCall EXCEPT !.attempt = call.attempt] /\ target' = "absent"
  /\ UNCHANGED <<content, grants, session, backend, spawned, ctl, holder, maint, faults>>

\* A reset may begin with the target gone.
ResetAbsent ==
  /\ holder = None /\ maint = "idle" /\ target = "absent"
  /\ holder' = Maint /\ maint' = "reset"
  /\ UNCHANGED <<content, grants, target>> /\ Rest

CreateTarget ==
  /\ maint = "reset" /\ target = "absent"
  /\ target' = "candidate" /\ content' = "old" /\ grants' = "bare"
  /\ UNCHANGED <<holder, maint>> /\ Rest

\* bootstrap_new_target.  The reset goes on with a migration.
BootstrapTarget ==
  /\ maint = "reset" /\ target = "candidate"
  /\ target' = "ready" /\ grants' = "baseline" /\ maint' = "migrate"
  /\ UNCHANGED <<content, holder>> /\ Rest

\* The backup is done, or the operation is refused or dies on its way.
MaintEnds ==
  /\ maint # "idle"
  /\ holder' = None /\ maint' = "idle"
  /\ UNCHANGED <<content, grants, target>> /\ Rest

-----------------------------------------------------------------------------
Step(c) ==
  \/ FindStarting(c) \/ FindAlive(c) \/ AlreadyApplied(c) \/ EstablishGate(c) \/ Drain(c)
  \/ SucceedDirectly(c) \/ StartCall(c) \/ Spawn(c) \/ Register(c) \/ RegisterStarted(c)
  \/ CheckControl(c) \/ Feed(c) \/ Trail(c) \/ StreamBreaks(c) \/ Reconcile(c)
  \/ Unreadable(c) \/ GrantRestored(c) \/ Verify(c) \/ FindReopening(c) \/ StartReopen(c)
  \/ Complete(c) \/ CompleteInDoubt(c) \/ AckCompleted(c) \/ AckNotApplied(c) \/ AckElse(c)
  \/ GiveUp(c) \/ LoseLocks(c) \/ Stop(c) \/ Crash(c)

Maintain ==
  \/ \E what \in {"migrate", "reset", "backup"} : Admit(what)
  \/ Migrate \/ BootstrapCandidate \/ ReassertRoles \/ DropTarget \/ ResetAbsent \/ CreateTarget
  \/ BootstrapTarget \/ MaintEnds

Next ==
  \/ Connect \/ Disconnect \/ Edit \/ Maintain
  \/ \E b \in Backends : BackendRollsBack(b) \/ BackendCommits(b)
  \/ \E c \in Controllers :
       \/ Step(c)
       \/ \E dump \in Dumps, n \in {0} \cup (2..MaxCalls) : Begin(c, dump, n)

Spec == Init /\ [][Next]_vars

-----------------------------------------------------------------------------
(* Properties                                                              *)

TypeOK ==
  /\ content \in Contents /\ grants \in GrantPhases
  /\ session \in BOOLEAN /\ holder \in Controllers \cup {None, Maint}
  /\ call.dump \in Dumps \cup {None} /\ call.pre \in Contents \cup {None}
  /\ spawned \in 0..MaxCalls /\ faults \in 0..MaxFaults

\* A dump that is being fed is alone in the database: no runtime role, no migration,
\* backup or reset, and no other psql, whoever died on the way.
RestoresAlone ==
  \A b \in Backends : backend[b].state \in {"fed", "whole"} =>
    /\ ~session /\ maint = "idle"
    /\ \A other \in Backends : Alive(other) => other = b

\* A verdict stands: what is said not to be applied is not applied and never will be,
\* what is said to be restored is the dump of the gate, and what an invocation says of
\* a final commit whose answer it never had is what happened.
VerdictsTrue ==
  /\ call.phase = "restore_not_applied" =>
       content = call.pre /\ ~(\E b \in Backends : backend[b].state \in {"fed", "whole"})
  /\ call.phase \in Verdicts => content = call.dump
  /\ \A c \in Controllers :
       /\ ctl[c].told = "completed" => ctl[c].took
       /\ ctl[c].told = "reopen_not_applied" => ~ctl[c].took

\* Whenever the runtime roles may connect, the database is whole: nobody restores it,
\* its grants are the ordinary ones and its content is known.
OpenIsWhole ==
  ~Active /\ target = "ready" =>
    grants = "baseline" /\ content # "other" /\ ~ForeignOwner

\* However a controller died, the next one is let in: the grants and the call are what
\* the phase asks for, and what it will observe has an edge to lead to.
NextIsLetIn ==
  holder = None /\ target = "ready" /\ (call.backend # 0 => Exited(call.backend)) =>
    /\ Fits(call.phase) /\ (Active => Shaped(call))
    /\ call.phase = "restore_backend_ready" => content # call.dump

\* What the facts say about the restore.
Stage ==
  CASE ~Active -> "open"
    [] call.phase = "gate_established" -> "closing"
    [] call.phase \in {"restore_backend_starting", "restore_backend_ready", "restore_started"} ->
         "restoring"
    [] call.phase = "restore_not_applied" -> "unapplied"
    [] call.phase = "needs_attention" -> "stuck"
    [] OTHER -> "restored"

Restore == INSTANCE SafeRestore WITH
  Known <- Contents \ {"other"}, Unknown <- "other",
  stage <- Stage, data <- content, connected <- session,
  goal <- IF Active THEN call.dump ELSE None,
  before <- IF Stage \in {"restoring", "unapplied"} THEN call.pre ELSE None

\* Controllers that die, lose their locks or the answer of their last commit, with
\* everybody else who works on the database, implement a restore that changes the
\* content once per call at most, behind a closed gate, and opens it again on the
\* whole dump only.
ImplementsSafeRestore == Restore!Spec
=============================================================================
