----------------------- MODULE DatabaseRestore_proofs -----------------------
(***************************************************************************)
(* Proofs about DatabaseRestore, for any controllers and dumps and any     *)
(* bounds.                                                                 *)
(*                                                                         *)
(* The invariant says who holds the locks and what he may count on; that   *)
(* one server process lives at most, begotten by the call that is active;  *)
(* that content, grants and facts agree in every phase; and of a commit in *)
(* doubt that it is a past which no later call can look like.              *)
(***************************************************************************)
EXTENDS DatabaseRestore, TLAPS

-----------------------------------------------------------------------------
(* The invariant                                                           *)

Phases == {"none", "gate_established", "restore_backend_starting", "restore_backend_ready",
           "restore_started", "restore_not_applied", "restore_succeeded", "grants_succeeded",
           "verified", "reopen_committing", "reopen_not_applied", "completed",
           "needs_attention"}
Places == {"idle", "enter", "drain", "gated", "run", "spawn", "register", "feed", "feeding",
           "trail", "trailing", "reconcile", "complete", "doubt"}
Calls == [phase : Phases, attempt : Nat, dump : Dumps \cup {None}, ordinal : Nat, reopen : Nat,
          pre : Contents \cup {None}, backend : 0..MaxCalls, observed : Contents \cup {None}]
Invocations == [at : Places, claim : Dumps \cup {None}, approves : Nat, own : 0..MaxCalls,
                unknown : Calls, took : BOOLEAN,
                told : {None, "completed", "reopen_not_applied"}]
Processes == [state : {"none", "unfed", "fed", "whole", "gone"}, dump : Dumps \cup {None}]

Typed ==
  /\ call \in Calls /\ content \in Contents /\ grants \in GrantPhases /\ session \in BOOLEAN
  /\ backend \in [Backends -> Processes] /\ spawned \in 0..MaxCalls
  /\ ctl \in [Controllers -> Invocations] /\ holder \in Controllers \cup {None, Maint}
  /\ maint \in {"idle", "migrate", "reset", "backup"}
  /\ target \in {"ready", "absent", "candidate"} /\ faults \in 0..MaxFaults

\* Who holds the locks: a maintenance that is under way, and no controller while the
\* target is away.  Neither is a call active then.
Locked ==
  /\ (holder = Maint) = (maint # "idle")
  /\ holder = Maint => ~Active
  /\ target # "ready" => ~Active /\ holder \notin Controllers

\* The server processes: those that live are one, begotten by the call that is active,
\* and what is fed belongs to a call that has started.
OneProcess ==
  /\ \A b \in Backends : backend[b].state # "none" => b <= spawned /\ backend[b].dump \in Dumps
  /\ \A b \in Backends : Alive(b) =>
       /\ call.phase \in {"restore_backend_starting", "restore_backend_ready", "restore_started",
                          "needs_attention"}
       /\ call.phase \in {"restore_backend_ready", "restore_started"} => b = call.backend
       /\ \A other \in Backends : Alive(other) => other = b
  /\ \A b \in Backends : backend[b].state \in {"fed", "whole"} => call.phase = "restore_started"

\* The facts, the content and the grants agree.
Agreed ==
  /\ Active => Shaped(call) /\ Fits(call.phase) /\ call.dump \in Dumps
  /\ ~Active /\ target = "ready" => grants = "baseline"
  /\ Active /\ call.phase # "gate_established" => ~session
  /\ content = "other" => call.phase \in {"restore_started", "needs_attention"}
  /\ call.pre # "other"
  /\ call.phase \in {"restore_backend_starting", "restore_backend_ready"} => content # call.dump
  /\ call.phase = "restore_not_applied" => content = call.pre
  /\ call.phase \in Verdicts => content = call.dump

\* The call as it was when a commit was sent, and whether that commit was made: nothing
\* that came later looks like the other outcome.
Past(k, took) ==
  /\ k.phase = "reopen_committing" /\ k.attempt <= call.attempt
  /\ call.attempt = k.attempt /\ took => call.phase \in {"none", "completed"}
  /\ call.attempt = k.attempt /\ ~took =>
       \/ call.phase = "none" \/ call.reopen > k.reopen
       \/ call.reopen = k.reopen /\ call.phase \in {"reopen_committing", "reopen_not_applied"}

Feeds == {"feed", "feeding", "trail", "trailing"}

\* What holds of an invocation, whether it has the locks still or not.
Sound(r) ==
  /\ r.at # "idle" => r.claim \in Dumps /\ r.told = None
  /\ r.told = "completed" => r.took
  /\ r.told = "reopen_not_applied" => ~r.took
  /\ r.at \in Feeds \cup {"register"} => r.own \in 1..spawned
  /\ r.at \in Feeds /\ Alive(r.own) => call.phase = "restore_started"
  /\ r.at = "doubt" => Past(r.unknown, r.took)

\* What whoever has the locks may count on.
Secure(r) ==
  /\ r.at \in {"drain", "gated"} => call.phase = "gate_established"
  /\ r.at = "gated" => ~session
  /\ r.at = "spawn" => /\ call.phase = "restore_backend_starting"
                       /\ spawned < MaxCalls /\ ~ForeignOwner
  /\ r.at = "complete" /\ call.phase = "reopen_committing" =>
       \A d \in Controllers :
         ctl[d].at = "doubt" /\ call.attempt = ctl[d].unknown.attempt =>
           call.reopen > ctl[d].unknown.reopen

Invoked ==
  \A c \in Controllers : Sound(ctl[c]) /\ (holder = c => Secure(ctl[c]))

Kept == Typed /\ Locked /\ OneProcess /\ Agreed /\ Invoked

-----------------------------------------------------------------------------
(* What steps have in common                                               *)

LEMMA ConstantsApart ==
  /\ MaxAttempts \in Nat /\ MaxCalls \in Nat /\ MaxReopens \in Nat /\ MaxFaults \in Nat
  /\ None \notin Controllers /\ None \notin Dumps /\ None # Maint /\ None # "other"
  /\ None # "completed" /\ None # "reopen_not_applied" /\ Maint \notin Controllers
  /\ "other" \notin Dumps /\ "old" \notin Dumps /\ "edited" \notin Dumps
  BY ConstantsAssumption

LEMMA InitKept == Init => Kept
<1> SUFFICES ASSUME Init PROVE Kept
  OBVIOUS
<1> USE DEF Init
<1>1. NoCall \in Calls
  BY ConstantsApart DEF NoCall, Calls, Phases, Contents
<1>2. Away \in Invocations
  BY <1>1, ConstantsApart DEF Away, Invocations, Places
<1>3. [state |-> "none", dump |-> None] \in Processes
  BY DEF Processes
<1>4. Typed
  <2>1. backend \in [Backends -> Processes] /\ ctl \in [Controllers -> Invocations]
    BY <1>2, <1>3
  <2>2. content \in Contents /\ grants \in GrantPhases /\ 0 \in 0..MaxCalls /\ 0 \in 0..MaxFaults
    BY ConstantsApart DEF Contents, GrantPhases
  <2> QED
    BY <1>1, <2>1, <2>2 DEF Typed
<1>5. call.phase = "none" /\ call.pre = None /\ \A b \in Backends : backend[b].state = "none"
  BY DEF NoCall
<1>6. Locked
  BY <1>5, ConstantsApart DEF Locked, Active
<1>7. OneProcess
  BY <1>5 DEF OneProcess, Alive
<1>8. Agreed
  BY <1>5, ConstantsApart DEF Agreed, Active, Verdicts
<1>9. \A c \in Controllers : Sound(ctl[c]) /\ holder # c
  BY ConstantsApart DEF Sound, Away, Feeds
<1> QED
  BY <1>4, <1>6, <1>7, <1>8, <1>9 DEF Kept, Invoked

\* A row of ctl that is exchanged.
LEMMA Exchanged ==
  ASSUME Typed, NEW c \in Controllers, NEW row \in Invocations,
         ctl' = [ctl EXCEPT ![c] = row]
  PROVE  /\ ctl' \in [Controllers -> Invocations] /\ ctl'[c] = row
         /\ \A d \in Controllers : d # c => ctl'[d] = ctl[d]
  BY DEF Typed

LEMMA AtMeans ==
  ASSUME NEW r \in Invocations, NEW p \in Places
  PROVE  LET q == [r EXCEPT !.at = p]
         IN /\ q \in Invocations /\ q.at = p /\ q.claim = r.claim /\ q.own = r.own
            /\ q.told = r.told /\ q.took = r.took /\ q.unknown = r.unknown
  BY DEF Invocations

LEMMA GoMeans ==
  ASSUME Typed, NEW c \in Controllers, NEW p \in Places, Go(c, p)
  PROVE  \E row \in Invocations :
           /\ ctl' = [ctl EXCEPT ![c] = row] /\ row.at = p /\ row.claim = ctl[c].claim
           /\ row.own = ctl[c].own /\ row.told = ctl[c].told /\ row.took = ctl[c].took
           /\ row.unknown = ctl[c].unknown
<1> DEFINE row == [ctl[c] EXCEPT !.at = p]
<1>1. ctl[c] \in Invocations
  BY DEF Typed
<1>2. ctl' = [ctl EXCEPT ![c] = row]
  BY DEF Go
<1>3. /\ row \in Invocations /\ row.at = p /\ row.claim = ctl[c].claim
      /\ row.own = ctl[c].own /\ row.told = ctl[c].told /\ row.took = ctl[c].took
      /\ row.unknown = ctl[c].unknown
  BY <1>1, AtMeans
<1> HIDE DEF row
<1> QED
  BY <1>2, <1>3

LEMMA LeaveMeans ==
  ASSUME Typed, NEW c \in Controllers, NEW t \in {None, "completed", "reopen_not_applied"},
         Leave(c, t)
  PROVE  /\ \E row \in Invocations :
              /\ ctl' = [ctl EXCEPT ![c] = row] /\ row.at = "idle" /\ row.told = t
              /\ row.took = (t # None /\ ctl[c].took)
         /\ holder' \in {None, holder} /\ holder' # c
<1> DEFINE took == t # None /\ ctl[c].took
           row == [Away EXCEPT !.told = t, !.took = took]
<1>1. ctl' = [ctl EXCEPT ![c] = row] /\ holder' = IF holder = c THEN None ELSE holder
  BY DEF Leave, Live
<1>2. took \in BOOLEAN
  BY DEF Typed, Invocations
<1>3. NoCall \in Calls
  BY ConstantsApart DEF NoCall, Calls, Phases, Contents
<1>4. Away \in Invocations /\ Away.at = "idle"
  BY <1>3, ConstantsApart DEF Away, Invocations, Places
<1> HIDE DEF took
<1>5. row \in Invocations /\ row.at = "idle" /\ row.told = t /\ row.took = took
  BY <1>2, <1>4 DEF Invocations
<1>6. holder' \in {None, holder} /\ holder' # c
  BY <1>1, ConstantsApart
<1> HIDE DEF row
<1> QED
  BY <1>1, <1>5, <1>6 DEF took

\* A step that changes a row of an invocation, and at most who holds the locks.
LEMMA CtlKeeps ==
  ASSUME Kept, NEW c \in Controllers, NEW row \in Invocations,
         ctl' = [ctl EXCEPT ![c] = row],
         UNCHANGED <<call, content, grants, session, backend, spawned, maint, target>>,
         faults' \in 0..MaxFaults,
         \/ holder' = holder
         \/ holder' = None /\ holder \in Controllers
         \/ holder' = c /\ holder = None /\ target = "ready",
         Sound(row), holder' = c => Secure(row), row.at # "doubt" \/ holder' = None
  PROVE  Kept'
<1>1. Typed /\ Locked /\ OneProcess /\ Agreed /\ Invoked
  BY DEF Kept
<1>2. /\ ctl' \in [Controllers -> Invocations] /\ ctl'[c] = row
      /\ \A d \in Controllers : d # c => ctl'[d] = ctl[d]
  BY <1>1, Exchanged
<1>3. Typed'
  BY <1>1, <1>2 DEF Typed
<1>4. Locked'
  BY <1>1, ConstantsApart DEF Locked, Active
<1>5. OneProcess'
  BY <1>1 DEF OneProcess, Alive
<1>6. Agreed'
  BY <1>1 DEF Agreed, Active, Fits
<1>7. ASSUME NEW d \in Controllers PROVE Sound(ctl[d])'
  <2>1. PICK r \in Invocations : r = ctl'[d]
    BY <1>2
  <2>2. Sound(r)
    BY <1>1, <1>2, <2>1 DEF Invoked
  <2> QED
    BY <2>1, <2>2 DEF Sound, Past, Alive
<1>8. ASSUME NEW d \in Controllers, holder' = d PROVE Secure(ctl[d])'
  <2>3. PICK r \in Invocations : r = ctl'[d]
    BY <1>2
  <2>1. Secure(r)
    BY <1>1, <1>2, <1>8, <2>3, ConstantsApart DEF Invoked
  <2>2. \A x \in Controllers : ctl'[x].at = "doubt" => ctl'[x] = ctl[x]
    BY <1>2, <1>8, ConstantsApart
  <2> QED
    BY <2>1, <2>2, <2>3 DEF Secure, ForeignOwner, Alive
<1> QED
  BY <1>3, <1>4, <1>5, <1>6, <1>7, <1>8 DEF Kept, Invoked

\* What validate_restore_call_transition lets through.
LEMMA FollowsMeans ==
  ASSUME Typed, NEW k \in Calls, Follows(call, k)
  PROVE  /\ Shaped(k) /\ <<call.phase, k.phase>> \in Edges
         /\ k.attempt = call.attempt /\ k.dump = call.dump
         /\ k.reopen = call.reopen + (IF k.phase = "reopen_committing" THEN 1 ELSE 0)
  BY DEF Follows

LEMMA EdgesMean ==
  ASSUME NEW p, NEW q, <<p, q>> \in Edges
  PROVE  /\ p \notin {"none", "completed", "needs_attention"}
         /\ q \notin {"none", "gate_established"}
         /\ q = "completed" => p = "reopen_committing"
         /\ q = "restore_started" => p = "restore_backend_ready"
         /\ p = "reopen_committing" =>
              q \in {"completed", "reopen_not_applied", "needs_attention"}
         /\ p = "reopen_not_applied" => q = "reopen_committing"
  BY DEF Edges

\* What a commit in doubt has left behind stays behind.
LEMMA PastStays ==
  ASSUME Typed, NEW k \in Calls, call' = k, Follows(call, k),
         call.phase = "reopen_committing" => k.phase # "needs_attention",
         NEW past \in Calls, NEW took \in BOOLEAN, Past(past, took),
         k.phase = "completed" /\ call.attempt = past.attempt => call.reopen > past.reopen
  PROVE  Past(past, took)'
<1>1. /\ <<call.phase, k.phase>> \in Edges
      /\ k.attempt = call.attempt
      /\ k.reopen = call.reopen + (IF k.phase = "reopen_committing" THEN 1 ELSE 0)
  BY FollowsMeans
<1>2. /\ call.phase \notin {"none", "completed", "needs_attention"}
      /\ k.phase \notin {"none", "gate_established"}
      /\ k.phase = "completed" => call.phase = "reopen_committing"
      /\ call.phase = "reopen_committing" =>
           k.phase \in {"completed", "reopen_not_applied", "needs_attention"}
      /\ call.phase = "reopen_not_applied" => k.phase = "reopen_committing"
  BY <1>1, EdgesMean
<1>3. call.reopen \in Nat /\ past.reopen \in Nat /\ call.attempt \in Nat /\ past.attempt \in Nat
  BY DEF Typed, Calls
<1> QED
  BY <1>1, <1>2, <1>3 DEF Past

\* A step that moves the call on.
LEMMA CallKeeps ==
  ASSUME Kept, NEW c \in Controllers, NEW row \in Invocations, NEW k \in Calls,
         ctl' = [ctl EXCEPT ![c] = row], call' = k, Follows(call, k),
         UNCHANGED <<content, session, backend, spawned, maint, target>>,
         faults' \in 0..MaxFaults, grants' \in GrantPhases, Fits(call.phase)',
         holder = c \/ (holder = None /\ target = "ready"),
         (holder' = c /\ holder = c) \/ holder' = None,
         call.phase = "gate_established" => ~session,
         call.phase = "reopen_committing" => k.phase # "needs_attention",
         call.phase = "restore_started" => ~ForeignOwner,
         \A b \in Backends : Alive(b) =>
           \/ k.phase = "needs_attention"
           \/ k.phase \in {"restore_backend_ready", "restore_started"} /\ b = k.backend,
         content = "other" => k.phase = "needs_attention",
         k.pre # "other",
         k.phase \in {"restore_backend_starting", "restore_backend_ready"} => content # k.dump,
         k.phase = "restore_not_applied" => content = k.pre,
         k.phase \in Verdicts => content = k.dump,
         k.phase = "completed" => holder = c /\ ctl[c].at = "complete",
         row.at # "idle" => row.claim \in Dumps /\ row.told = None,
         row.told = "completed" => row.took, row.told = "reopen_not_applied" => ~row.took,
         row.at \in Feeds \cup {"register"} => row.own \in 1..spawned,
         row.at \in Feeds /\ Alive(row.own) => k.phase = "restore_started",
         row.at = "doubt" => /\ holder' = None /\ row.took /\ row.unknown = call
                             /\ k.phase = "completed",
         holder' = c =>
           /\ row.at \notin {"drain", "gated"}
           /\ row.at = "spawn" => k.phase = "restore_backend_starting" /\ spawned < MaxCalls
                                  /\ ~ForeignOwner
           /\ row.at = "complete" => k.phase = "reopen_committing"
  PROVE  Kept'
<1>1. Typed /\ Locked /\ OneProcess /\ Agreed /\ Invoked
  BY DEF Kept
<1>2. /\ ctl' \in [Controllers -> Invocations] /\ ctl'[c] = row
      /\ \A d \in Controllers : d # c => ctl'[d] = ctl[d]
  BY <1>1, Exchanged
<1>3. /\ Shaped(k) /\ <<call.phase, k.phase>> \in Edges
      /\ k.attempt = call.attempt /\ k.dump = call.dump
      /\ k.reopen = call.reopen + (IF k.phase = "reopen_committing" THEN 1 ELSE 0)
  BY <1>1, FollowsMeans
<1>4. /\ call.phase \notin {"none", "completed", "needs_attention"}
      /\ k.phase \notin {"none", "gate_established"}
      /\ k.phase = "completed" => call.phase = "reopen_committing"
      /\ k.phase = "restore_started" => call.phase = "restore_backend_ready"
  BY <1>3, EdgesMean
<1>5. Active /\ target = "ready" /\ holder # Maint /\ holder' # Maint /\ maint = "idle"
      /\ call.dump \in Dumps /\ ~session
  BY <1>1, <1>4, ConstantsApart DEF Locked, Active, Agreed
<1>6. Typed'
  BY <1>1, <1>2, ConstantsApart DEF Typed
<1>7. Locked'
  BY <1>5 DEF Locked
<1>8. \A b \in Backends : Alive(b)' = Alive(b)
  BY DEF Alive
<1>9. OneProcess'
  <2>1. \A b \in Backends : backend[b].state \in {"fed", "whole"} => Alive(b)
    BY DEF Alive
  <2>2. \A b \in Backends : backend[b].state \notin {"fed", "whole"}
    BY <1>1, <2>1 DEF OneProcess, ForeignOwner
  <2> QED
    BY <1>1, <1>8, <2>2 DEF OneProcess
<1>10. Agreed'
  <2>1. Shaped(call)' /\ call'.dump \in Dumps
    BY <1>3, <1>5 DEF Shaped
  <2>2. (~Active)' => grants' = "baseline"
    BY <1>4 DEF Active, Fits
  <2> QED
    BY <1>4, <1>5, <2>1, <2>2 DEF Agreed
<1>11. ASSUME NEW d \in Controllers, d # c PROVE Sound(ctl[d])'
  <2>1. PICK r \in Invocations : r = ctl[d] /\ r = ctl'[d]
    BY <1>1, <1>2, <1>11 DEF Typed
  <2>2. Sound(r)
    BY <1>1, <2>1 DEF Invoked
  <2>3. r.at = "doubt" => Past(r.unknown, r.took)'
    <3> SUFFICES ASSUME r.at = "doubt" PROVE Past(r.unknown, r.took)'
      OBVIOUS
    <3>1. r.unknown \in Calls /\ r.took \in BOOLEAN /\ Past(r.unknown, r.took)
      BY <2>2 DEF Invocations, Sound
    <3>2. k.phase = "completed" /\ call.attempt = r.unknown.attempt =>
            call.reopen > r.unknown.reopen
      BY <1>1, <1>4, <2>1 DEF Invoked, Secure
    <3> QED
      BY <1>1, <3>1, <3>2, PastStays
  <2>4. r.at \in Feeds => ~Alive(r.own)
    <3>1. r.at \in Feeds => r.own \in Backends
      BY <1>1, <2>2, ConstantsApart DEF Sound, Backends, Typed
    <3> QED
      BY <2>2, <3>1 DEF Sound, ForeignOwner
  <2>5. r.at \in Feeds => ~Alive(r.own)'
    BY <2>4 DEF Alive
  <2>6. Sound(r)'
    BY <2>2, <2>3, <2>5 DEF Sound
  <2> QED
    BY <2>1, <2>6 DEF Sound
<1>12. Sound(ctl[c])'
  <2>1. row.at = "doubt" => Past(row.unknown, row.took)'
    BY <1>1, <1>3, <1>4 DEF Past, Typed, Calls
  <2>2. Alive(row.own)' = Alive(row.own)
    BY DEF Alive
  <2>3. Sound(row)'
    BY <2>1, <2>2 DEF Sound
  <2> QED
    BY <1>2, <2>3 DEF Sound
<1>13. ASSUME holder' = c PROVE Secure(ctl[c])'
  <2>1. ForeignOwner' = ForeignOwner
    BY <1>8 DEF ForeignOwner
  <2>2. ASSUME row.at = "complete", NEW d \in Controllers, ctl'[d].at = "doubt",
               call'.attempt = ctl'[d].unknown.attempt
        PROVE  call'.reopen > ctl'[d].unknown.reopen
    <3>1. k.phase = "reopen_committing"
      BY <1>13, <2>2
    <3>2. d # c
      BY <1>2, <2>2
    <3>3. ctl'[d] = ctl[d] /\ ctl[d] \in Invocations
      BY <1>1, <1>2, <3>2 DEF Typed
    <3>4. Past(ctl[d].unknown, ctl[d].took)
      BY <1>1, <2>2, <3>3 DEF Invoked, Sound
    <3>5. call.reopen \in Nat /\ ctl[d].unknown.reopen \in Nat
      BY <1>1, <3>3 DEF Typed, Calls, Invocations
    <3>6. ctl[d].took \in BOOLEAN /\ call.attempt = ctl[d].unknown.attempt
      BY <1>3, <2>2, <3>3 DEF Invocations
    <3>7. call.phase \notin {"none", "completed"}
      BY <1>4
    <3>8. call.reopen >= ctl[d].unknown.reopen
      BY <3>4, <3>5, <3>6, <3>7 DEF Past
    <3> QED
      BY <1>3, <3>1, <3>3, <3>5, <3>8
  <2>3. Secure(row)'
    BY <1>13, <2>1, <2>2 DEF Secure
  <2> QED
    BY <1>2, <2>3 DEF Secure
<1>14. \A d \in Controllers : holder' = d => d = c
  BY ConstantsApart
<1> QED
  BY <1>6, <1>7, <1>9, <1>10, <1>11, <1>12, <1>13, <1>14 DEF Kept, Invoked

\* What _advance leaves of the call.
LEMMA ToMeans ==
  ASSUME Typed, NEW p \in Phases, To(p)
  PROVE  /\ call' \in Calls /\ Follows(call, call') /\ call'.phase = p
         /\ call'.attempt = call.attempt /\ call'.dump = call.dump
         /\ call'.ordinal = call.ordinal /\ call'.reopen = call.reopen /\ call'.pre = call.pre
         /\ call'.backend = call.backend
<1> DEFINE o == IF p = "restore_succeeded" THEN content ELSE call.observed
           k == [call EXCEPT !.phase = p, !.observed = o]
<1>1. Follows(call, k) /\ call' = k
  BY DEF To, Becomes
<1>2. o \in Contents \cup {None}
  BY DEF Typed, Calls
<1> HIDE DEF o
<1>3. /\ k \in Calls /\ k.phase = p /\ k.attempt = call.attempt /\ k.dump = call.dump
      /\ k.ordinal = call.ordinal /\ k.reopen = call.reopen /\ k.pre = call.pre
      /\ k.backend = call.backend
  BY <1>2 DEF Typed, Calls
<1> HIDE DEF k
<1> QED
  BY <1>1, <1>3

LEMMA FitsStays ==
  ASSUME NEW p, call'.phase = p, call'.ordinal = call.ordinal, grants' = grants, Fits(p)
  PROVE  Fits(call.phase)'
  BY DEF Fits

LEMMA Parts == Kept => Typed /\ Locked /\ OneProcess /\ Agreed /\ Invoked
  BY DEF Kept

\* What an invocation that holds the locks knows.
LEMMA HolderKnows ==
  ASSUME Kept, NEW c \in Controllers, Live(c)
  PROVE  /\ holder = c /\ target = "ready" /\ maint = "idle" /\ holder # Maint
         /\ ctl[c] \in Invocations /\ Sound(ctl[c]) /\ Secure(ctl[c])
         /\ call \in Calls /\ faults \in 0..MaxFaults
         /\ Claimed(c) /\ Active => call.dump = ctl[c].claim
  BY Parts, ConstantsApart DEF Live, Locked, Typed, Invoked, Claimed

\* No server process lives in most phases.
LEMMA NoProcess ==
  ASSUME Kept,
         \/ call.phase \notin {"restore_backend_starting", "restore_backend_ready",
                               "restore_started", "needs_attention"}
         \/ /\ call.phase \in {"restore_backend_ready", "restore_started"}
            /\ Exited(call.backend)
  PROVE  ~ForeignOwner /\ \A b \in Backends : ~Alive(b)
  BY Parts DEF OneProcess, ForeignOwner, Exited

LEMMA NoneFed ==
  ASSUME Kept, call.phase # "restore_started"
  PROVE  \A b \in Backends : Alive(b) => backend[b].state = "unfed"
  BY Parts DEF OneProcess, Alive

LEMMA FaultMeans ==
  ASSUME Typed, Fault
  PROVE  faults' \in 0..MaxFaults
  BY ConstantsApart DEF Typed, Fault

-----------------------------------------------------------------------------
(* The steps of a controller that leave the database alone                 *)

LEMMA LeaveKeeps ==
  ASSUME Kept, NEW c \in Controllers, Leave(c, None), CtlOnly, faults' \in 0..MaxFaults
  PROVE  Kept'
<1>1. PICK row \in Invocations :
        ctl' = [ctl EXCEPT ![c] = row] /\ row.at = "idle" /\ row.told = None
  BY Parts, LeaveMeans
<1>2. holder' \in {None, holder} /\ holder' # c
  BY Parts, LeaveMeans
<1>3. holder' = holder \/ (holder' = None /\ holder \in Controllers)
  BY <1>2, Parts DEF Leave, Live, Typed
<1>4. Sound(row)
  BY <1>1, ConstantsApart DEF Sound, Feeds
<1> QED
  BY <1>1, <1>2, <1>3, <1>4, CtlKeeps DEF CtlOnly, database

LEMMA BeginKeeps ==
  ASSUME Kept, NEW c \in Controllers, NEW dump \in Dumps, NEW n \in Nat, Begin(c, dump, n)
  PROVE  Kept'
<1> DEFINE row == [Away EXCEPT !.at = "enter", !.claim = dump, !.approves = n]
<1>1. NoCall \in Calls
  BY ConstantsApart DEF NoCall, Calls, Phases, Contents
<1>2. row \in Invocations /\ row.at = "enter" /\ row.claim = dump /\ row.told = None
  <2>1. Away \in Invocations /\ Away.told = None
    BY <1>1, ConstantsApart DEF Away, Invocations, Places
  <2> QED
    BY <2>1 DEF Invocations, Places
<1>3. /\ holder = None /\ target = "ready" /\ holder' = c
      /\ ctl' = [ctl EXCEPT ![c] = row]
  BY DEF Begin
<1> HIDE DEF row
<1>4. Sound(row) /\ Secure(row)
  BY <1>2, ConstantsApart DEF Sound, Secure, Feeds
<1> QED
  BY <1>2, <1>3, <1>4, CtlKeeps, Parts DEF Begin, CtlOnly, database, Typed

\* Going on to a place where nothing is asked of the state.
LEMMA GoKeeps ==
  ASSUME Kept, NEW c \in Controllers, NEW p \in {"run", "reconcile", "feeding", "trailing"},
         Go(c, p), CtlOnly, UNCHANGED <<holder, faults>>,
         ctl[c].at \notin {"idle", "doubt"}, p \in Feeds => ctl[c].at \in Feeds
  PROVE  Kept'
<1>1. PICK row \in Invocations :
           /\ ctl' = [ctl EXCEPT ![c] = row] /\ row.at = p /\ row.claim = ctl[c].claim
           /\ row.own = ctl[c].own /\ row.told = ctl[c].told /\ row.took = ctl[c].took
  BY Parts, GoMeans DEF Places
<1>2. Sound(ctl[c])
  BY Parts DEF Invoked
<1>3. Sound(row) /\ Secure(row)
  BY <1>1, <1>2 DEF Sound, Secure, Feeds
<1> QED
  BY <1>1, <1>3, CtlKeeps, Parts DEF CtlOnly, database, Typed

LEMMA AckCompletedKeeps ==
  ASSUME Kept, NEW c \in Controllers, AckCompleted(c)
  PROVE  Kept'
<1>0. ctl[c].at = "doubt" /\ holder = None /\ Sound(ctl[c]) /\ ctl[c] \in Invocations
      /\ call = [ctl[c].unknown EXCEPT !.phase = "completed"] /\ Leave(c, "completed") /\ CtlOnly
      /\ faults' = faults
  BY Parts DEF AckCompleted, Doubtful, Invoked, SameFacts, Typed
<1>1. PICK row \in Invocations :
        /\ ctl' = [ctl EXCEPT ![c] = row] /\ row.at = "idle" /\ row.told = "completed"
        /\ row.took = ("completed" # None /\ ctl[c].took)
  BY <1>0, Parts, LeaveMeans
<1>2. ctl[c].took
  <2>1. ctl[c].unknown \in Calls /\ Past(ctl[c].unknown, ctl[c].took)
    BY <1>0 DEF Sound, Invocations
  <2>2. /\ call.attempt = ctl[c].unknown.attempt /\ call.reopen = ctl[c].unknown.reopen
        /\ call.phase = "completed"
    BY <1>0, <2>1 DEF Calls
  <2>3. ctl[c].took \in BOOLEAN /\ call.reopen \in Nat
    BY <1>0, Parts DEF Invocations, Typed, Calls
  <2> QED
    BY <2>1, <2>2, <2>3 DEF Past
<1>3. Sound(row)
  BY <1>1, <1>2, ConstantsApart DEF Sound, Feeds
<1>4. holder' = None
  BY <1>0, Parts, LeaveMeans
<1> QED
  BY <1>0, <1>1, <1>3, <1>4, CtlKeeps, Parts, ConstantsApart DEF CtlOnly, database, Typed

\* The locks are lost.
LEMMA LoseLocksKeeps ==
  ASSUME Kept, NEW c \in Controllers, LoseLocks(c)
  PROVE  Kept'
<1>1. ctl[c] \in Invocations /\ Sound(ctl[c]) /\ ctl' = [ctl EXCEPT ![c] = ctl[c]]
  BY Parts DEF LoseLocks, Invoked, Typed
<1>2. faults' \in 0..MaxFaults /\ holder' = None /\ holder \in Controllers
  BY Parts, FaultMeans DEF LoseLocks, Live
<1> QED
  BY <1>1, <1>2, CtlKeeps, ConstantsApart DEF LoseLocks, CtlOnly, database

-----------------------------------------------------------------------------
(* The steps of a call                                                     *)

LEMMA FindStartingKeeps ==
  ASSUME Kept, NEW c \in Controllers, FindStarting(c)
  PROVE  Kept'
<1>1. /\ Live(c) /\ call.phase = "restore_backend_starting" /\ To("needs_attention")
      /\ Leave(c, None) /\ Fits(call.phase) /\ faults' = faults
      /\ UNCHANGED <<content, grants, session, backend, spawned, maint, target>>
  BY DEF FindStarting, Admitted, Quiet
<1>2. PICK row \in Invocations :
        ctl' = [ctl EXCEPT ![c] = row] /\ row.at = "idle" /\ row.told = None
  BY <1>1, Parts, LeaveMeans
<1>3. holder' \in {None, holder} /\ holder' # c
  BY <1>1, Parts, LeaveMeans
<1>4. /\ call' \in Calls /\ Follows(call, call') /\ call'.phase = "needs_attention"
      /\ call'.ordinal = call.ordinal /\ call'.pre = call.pre
  BY <1>1, Parts, ToMeans DEF Phases
<1>5. Fits(call.phase)'
  BY <1>1, <1>4 DEF Fits
<1>6. content # "other" /\ call.pre # "other" /\ grants \in GrantPhases
  BY <1>1, Parts DEF Agreed, Typed
<1> QED
  BY <1>1, <1>2, <1>3, <1>4, <1>5, <1>6, HolderKnows, CallKeeps, ConstantsApart
     DEF Feeds, Verdicts

LEMMA UnreadableKeeps ==
  ASSUME Kept, NEW c \in Controllers, Unreadable(c)
  PROVE  Kept'
<1>1. /\ Live(c) /\ call.phase \in {"restore_backend_ready", "restore_started"}
      /\ Exited(call.backend) /\ To("needs_attention")
      /\ Leave(c, None) /\ Claimed(c) /\ Fault
      /\ UNCHANGED <<content, grants, session, backend, spawned, maint, target>>
  BY DEF Unreadable, Admitted, Quiet
<1>2. PICK row \in Invocations :
        ctl' = [ctl EXCEPT ![c] = row] /\ row.at = "idle" /\ row.told = None
  BY <1>1, Parts, LeaveMeans
<1>3. holder' \in {None, holder} /\ holder' # c
  BY <1>1, Parts, LeaveMeans
<1>4. /\ call' \in Calls /\ Follows(call, call') /\ call'.phase = "needs_attention"
      /\ call'.ordinal = call.ordinal /\ call'.pre = call.pre
  BY <1>1, Parts, ToMeans DEF Phases
<1>5. Fits(call.phase)'
  <2>1. grants \in {"active", "bare"}
    BY <1>1, Parts DEF Agreed, Active, Fits
  <2> QED
    BY <1>1, <1>4, <2>1 DEF Fits
<1>6. call.pre # "other" /\ grants \in GrantPhases
  BY Parts DEF Agreed, Typed
<1>7. ~ForeignOwner /\ \A b \in Backends : ~Alive(b)
  BY <1>1, NoProcess
<1>8. faults' \in 0..MaxFaults
  BY <1>1, Parts, FaultMeans
<1> QED
  BY <1>1, <1>2, <1>3, <1>4, <1>5, <1>6, <1>7, <1>8, HolderKnows, CallKeeps, ConstantsApart
     DEF Feeds, Verdicts

\* A step to the next phase after which the invocation goes on.
LEMMA OnwardKeeps ==
  ASSUME Kept, NEW c \in Controllers, NEW p \in Phases, Live(c), To(p), Go(c, "run"),
         UNCHANGED <<content, session, backend, spawned, holder, maint, target, faults>>,
         grants' \in GrantPhases, Fits(call.phase)',
         ctl[c].at \notin {"idle", "doubt"},
         call.phase = "gate_established" => ~session,
         call.phase = "reopen_committing" => p # "needs_attention",
         ~ForeignOwner,
         content = "other" => p = "needs_attention",
         p \notin {"restore_backend_starting", "restore_backend_ready", "completed"},
         p = "restore_not_applied" => content = call.pre,
         p \in Verdicts => content = call.dump
  PROVE  Kept'
<1>1. PICK row \in Invocations :
           /\ ctl' = [ctl EXCEPT ![c] = row] /\ row.at = "run" /\ row.claim = ctl[c].claim
           /\ row.own = ctl[c].own /\ row.told = ctl[c].told /\ row.took = ctl[c].took
  BY Parts, GoMeans DEF Places
<1>2. /\ call' \in Calls /\ Follows(call, call') /\ call'.phase = p
      /\ call'.dump = call.dump /\ call'.pre = call.pre
  BY Parts, ToMeans
<1>3. Sound(ctl[c]) /\ holder = c /\ faults \in 0..MaxFaults
  BY HolderKnows
<1>4. row.claim \in Dumps /\ row.told = None
  BY <1>1, <1>3 DEF Sound
<1>5. call.pre # "other" /\ \A b \in Backends : ~Alive(b)
  BY Parts DEF Agreed, ForeignOwner
<1> QED
  BY <1>1, <1>2, <1>3, <1>4, <1>5, CallKeeps, ConstantsApart DEF Feeds

LEMMA SucceedDirectlyKeeps ==
  ASSUME Kept, NEW c \in Controllers, SucceedDirectly(c)
  PROVE  Kept'
<1>1. /\ Live(c) /\ Claimed(c) /\ call.phase = "gate_established" /\ ctl[c].at = "gated"
      /\ content = ctl[c].claim /\ To("restore_succeeded") /\ Go(c, "run")
      /\ UNCHANGED <<content, grants, session, backend, spawned, holder, maint, target, faults>>
  BY DEF SucceedDirectly, In, Drained
<1>2. /\ Shaped(call) /\ Fits(call.phase) /\ ~session /\ call.dump = ctl[c].claim
      /\ grants \in GrantPhases /\ content # "other"
  BY <1>1, Parts, HolderKnows DEF Agreed, Active, Secure, Typed
<1>3. call.ordinal = 0 /\ grants = "active"
  BY <1>1, <1>2 DEF Shaped, NoCall, Fits
<1>4. /\ call'.phase = "restore_succeeded" /\ call'.ordinal = call.ordinal
  BY <1>1, Parts, ToMeans DEF Phases
<1>5. Fits(call.phase)'
  BY <1>1, <1>3, <1>4 DEF Fits
<1>6. ~ForeignOwner
  BY <1>1, NoProcess
<1> QED
  BY <1>1, <1>2, <1>5, <1>6, OnwardKeeps DEF Phases

LEMMA ReconcileKeeps ==
  ASSUME Kept, NEW c \in Controllers, Reconcile(c)
  PROVE  Kept'
<1>1. /\ Live(c) /\ Claimed(c) /\ call.phase \in {"restore_backend_ready", "restore_started"}
      /\ Exited(call.backend) /\ ctl[c].at \in {"reconcile", "enter"} /\ Go(c, "run")
      /\ Fits(call'.phase)
      /\ UNCHANGED <<content, grants, session, backend, spawned, holder, maint, target, faults>>
  BY DEF Reconcile, Admitted, Quiet
<1>2. ~ForeignOwner
  BY <1>1, NoProcess
<1>3. /\ grants \in GrantPhases /\ call.pre # "other" /\ call.dump = ctl[c].claim
      /\ call.dump \in Dumps
  BY <1>1, Parts, HolderKnows DEF Agreed, Typed, Active
<1>4. ASSUME NEW p \in {"restore_succeeded", "restore_not_applied", "needs_attention"}, To(p)
      PROVE  Fits(call.phase)'
  <2>1. call'.phase = p /\ call'.ordinal = call.ordinal
    BY <1>4, Parts, ToMeans DEF Phases
  <2> QED
    BY <1>1, <2>1, FitsStays
<1>5. CASE content = ctl[c].claim /\ To("restore_succeeded")
  BY <1>1, <1>2, <1>3, <1>4, <1>5, ConstantsApart, OnwardKeeps DEF Phases
<1>6. CASE content = call.pre /\ To("restore_not_applied")
  BY <1>1, <1>2, <1>3, <1>4, <1>6, OnwardKeeps DEF Phases, Verdicts
<1>7. CASE content \notin {ctl[c].claim, call.pre} /\ To("needs_attention")
  BY <1>1, <1>2, <1>3, <1>4, <1>7, OnwardKeeps DEF Phases, Verdicts
<1> QED
  BY <1>5, <1>6, <1>7 DEF Reconcile

LEMMA GrantRestoredKeeps ==
  ASSUME Kept, NEW c \in Controllers, GrantRestored(c)
  PROVE  Kept'
<1>1. /\ Live(c) /\ call.phase = "restore_succeeded" /\ ctl[c].at \in {"run", "enter"}
      /\ Go(c, "run") /\ To("grants_succeeded") /\ Fits(call.phase) /\ grants' = Regranted(grants)
      /\ UNCHANGED <<content, session, backend, spawned, holder, maint, target, faults>>
  BY DEF GrantRestored, Admitted, At, In
<1>2. grants' = "active"
  BY <1>1 DEF Regranted, Fits
<1>3. call'.phase = "grants_succeeded"
  BY <1>1, Parts, ToMeans DEF Phases
<1>4. Fits(call.phase)'
  BY <1>2, <1>3 DEF Fits
<1>5. content = call.dump /\ content # "other"
  BY <1>1, Parts DEF Agreed, Verdicts
<1>6. ~ForeignOwner
  BY <1>1, NoProcess
<1> QED
  BY <1>1, <1>2, <1>4, <1>5, <1>6, OnwardKeeps DEF Phases, GrantPhases

LEMMA VerifyKeeps ==
  ASSUME Kept, NEW c \in Controllers, Verify(c) \/ FindReopening(c)
  PROVE  Kept'
<1>1. /\ Live(c) /\ ctl[c].at \in {"run", "enter"} /\ Go(c, "run")
      /\ \/ call.phase = "grants_succeeded" /\ To("verified")
         \/ call.phase = "reopen_committing" /\ To("reopen_not_applied")
      /\ UNCHANGED <<content, grants, session, backend, spawned, holder, maint, target, faults>>
  BY DEF Verify, FindReopening, Admitted, At, In, Quiet
<1>2. /\ content = call.dump /\ content # "other" /\ grants = "active"
      /\ grants \in GrantPhases
  BY <1>1, Parts DEF Agreed, Verdicts, Active, Fits, Typed
<1>3. ~ForeignOwner
  BY <1>1, NoProcess
<1>4. \A p \in {"verified", "reopen_not_applied"} : To(p) => Fits(call.phase)'
  <2> SUFFICES ASSUME NEW p \in {"verified", "reopen_not_applied"}, To(p)
               PROVE  Fits(call.phase)'
    OBVIOUS
  <2>1. call'.phase = p
    BY Parts, ToMeans DEF Phases
  <2> QED
    BY <1>1, <1>2, <2>1 DEF Fits
<1>5. CASE call.phase = "grants_succeeded" /\ To("verified")
  BY <1>1, <1>2, <1>3, <1>4, <1>5, OnwardKeeps DEF Phases
<1>6. CASE call.phase = "reopen_committing" /\ To("reopen_not_applied")
  BY <1>1, <1>2, <1>3, <1>4, <1>6, OnwardKeeps DEF Phases
<1> QED
  BY <1>1, <1>5, <1>6

LEMMA StartCallKeeps ==
  ASSUME Kept, NEW c \in Controllers, StartCall(c)
  PROVE  Kept'
<1> DEFINE n == call.ordinal + 1
           k == [call EXCEPT !.phase = "restore_backend_starting", !.ordinal = n,
                             !.pre = content, !.backend = 0]
<1>1. /\ Live(c) /\ Claimed(c) /\ call.phase \in {"gate_established", "restore_not_applied"}
      /\ call.phase = "gate_established" => ctl[c].at = "gated"
      /\ ctl[c].at \in {"gated", "enter", "run"} /\ Fits(call.phase) /\ ~ForeignOwner
      /\ content # ctl[c].claim /\ spawned < MaxCalls /\ Go(c, "spawn")
      /\ UNCHANGED <<content, grants, session, backend, spawned, holder, maint, target, faults>>
  BY DEF StartCall, In, Drained, Quiet
<1>2. call' = k /\ Follows(call, k)
  BY DEF StartCall, Becomes
<1>3. /\ call \in Calls /\ content \in Contents /\ grants \in GrantPhases /\ 0 \in 0..MaxCalls
  BY Parts, ConstantsApart DEF Typed
<1>4. n \in Nat
  BY <1>3 DEF Calls
<1> HIDE DEF n
<1>5. /\ k \in Calls /\ k.phase = "restore_backend_starting" /\ k.pre = content
      /\ k.dump = call.dump
  BY <1>3, <1>4 DEF Calls, Phases
<1> HIDE DEF k
<1>6. PICK row \in Invocations :
           /\ ctl' = [ctl EXCEPT ![c] = row] /\ row.at = "spawn" /\ row.claim = ctl[c].claim
           /\ row.told = ctl[c].told /\ row.took = ctl[c].took
  BY <1>1, Parts, GoMeans DEF Places
<1>7. Sound(ctl[c]) /\ Secure(ctl[c]) /\ holder = c /\ faults \in 0..MaxFaults
      /\ call.dump = ctl[c].claim
  BY <1>1, HolderKnows DEF Active
<1>8. row.claim \in Dumps /\ row.told = None /\ (call.phase = "gate_established" => ~session)
  BY <1>1, <1>6, <1>7 DEF Sound, Secure
<1>9. content # "other" /\ \A b \in Backends : ~Alive(b)
  BY <1>1, Parts DEF Agreed, ForeignOwner
<1>10. Fits(call.phase)'
  BY <1>1, <1>2, <1>5 DEF Fits
<1> QED
  BY <1>1, <1>2, <1>3, <1>5, <1>6, <1>7, <1>8, <1>9, <1>10, CallKeeps, ConstantsApart
     DEF Feeds, Verdicts

LEMMA RegisterKeeps ==
  ASSUME Kept, NEW c \in Controllers, Register(c)
  PROVE  Kept'
<1> DEFINE own == ctl[c].own
           k == [call EXCEPT !.phase = "restore_backend_ready", !.backend = own]
<1>1. /\ Live(c) /\ Claimed(c) /\ call.phase = "restore_backend_starting"
      /\ ctl[c].at = "register" /\ backend[own].state = "unfed" /\ Fits(call.phase)
      /\ UNCHANGED <<content, grants, session, backend, spawned, maint, target>>
      /\ ctl' = ctl /\ holder' = holder /\ faults' = faults
  BY DEF Register, In, Quiet
<1>2. call' = k /\ Follows(call, k)
  BY DEF Register, Becomes
<1>3. /\ call \in Calls /\ grants \in GrantPhases /\ ctl[c] \in Invocations
      /\ ctl' = [ctl EXCEPT ![c] = ctl[c]]
  BY <1>1, Parts DEF Typed
<1>4. own \in 0..MaxCalls
  BY <1>3 DEF Invocations
<1>5. /\ Sound(ctl[c]) /\ holder = c /\ faults \in 0..MaxFaults
      /\ ctl[c].told = None /\ ctl[c].claim \in Dumps /\ own \in 1..spawned
  BY <1>1, HolderKnows DEF Sound
<1>6. own \in Backends /\ Alive(own)
  BY <1>1, <1>5, Parts, ConstantsApart DEF Typed, Backends, Alive
<1>7. \A b \in Backends : Alive(b) => b = own
  BY <1>6, Parts DEF OneProcess
<1> HIDE DEF own
<1>8. /\ k \in Calls /\ k.phase = "restore_backend_ready" /\ k.pre = call.pre
      /\ k.dump = call.dump /\ k.backend = own /\ k.ordinal = call.ordinal
  BY <1>3, <1>4 DEF Calls, Phases
<1> HIDE DEF k
<1>9. content # "other" /\ call.pre # "other" /\ content # call.dump
  BY <1>1, Parts DEF Agreed
<1>10. Fits(call.phase)'
  BY <1>1, <1>2, <1>8 DEF Fits
<1>11. PICK row \in Invocations : row = ctl[c]
  BY <1>3
<1>12. /\ ctl' = [ctl EXCEPT ![c] = row] /\ row.at = "register" /\ row.told = None
       /\ row.claim \in Dumps /\ row.own \in 1..spawned
  BY <1>1, <1>3, <1>5, <1>11 DEF own
<1>13. /\ call' = k /\ holder' = c /\ holder = c /\ faults' \in 0..MaxFaults
       /\ UNCHANGED <<content, session, backend, spawned, maint, target>>
       /\ grants' \in GrantPhases
  BY <1>1, <1>2, <1>3, <1>5
<1>14. \A b \in Backends : Alive(b) => b = k.backend
  BY <1>7, <1>8
<1> QED
  BY <1>1, <1>2, <1>8, <1>9, <1>10, <1>12, <1>13, <1>14, CallKeeps, ConstantsApart
     DEF Feeds, Verdicts

LEMMA RegisterStartedKeeps ==
  ASSUME Kept, NEW c \in Controllers, RegisterStarted(c)
  PROVE  Kept'
<1>1. /\ Live(c) /\ Claimed(c) /\ call.phase = "restore_backend_ready"
      /\ ctl[c].at = "register" /\ To("restore_started") /\ Go(c, "feed")
      /\ UNCHANGED <<content, grants, session, backend, spawned, holder, maint, target, faults>>
  BY DEF RegisterStarted, In, Quiet
<1>2. PICK row \in Invocations :
           /\ ctl' = [ctl EXCEPT ![c] = row] /\ row.at = "feed" /\ row.claim = ctl[c].claim
           /\ row.own = ctl[c].own /\ row.told = ctl[c].told /\ row.took = ctl[c].took
  BY <1>1, Parts, GoMeans DEF Places
<1>3. /\ Sound(ctl[c]) /\ holder = c /\ faults \in 0..MaxFaults /\ ctl[c].told = None
      /\ ctl[c].claim \in Dumps /\ ctl[c].own \in 1..spawned /\ grants \in GrantPhases
  BY <1>1, Parts, HolderKnows DEF Sound, Typed
<1>4. /\ call' \in Calls /\ Follows(call, call') /\ call'.phase = "restore_started"
      /\ call'.ordinal = call.ordinal /\ call'.pre = call.pre /\ call'.backend = call.backend
  BY <1>1, Parts, ToMeans DEF Phases
<1>5. Fits(call.phase)'
  <2>1. grants = "active"
    BY <1>1, Parts DEF Agreed, Active, Fits
  <2> QED
    BY <1>1, <1>4, <2>1 DEF Fits
<1>6. /\ content # "other" /\ call.pre # "other"
      /\ \A b \in Backends : Alive(b) => b = call.backend
  BY <1>1, Parts DEF Agreed, OneProcess
<1> QED
  BY <1>1, <1>2, <1>3, <1>4, <1>5, <1>6, CallKeeps, ConstantsApart DEF Feeds, Verdicts

LEMMA StartReopenKeeps ==
  ASSUME Kept, NEW c \in Controllers, StartReopen(c)
  PROVE  Kept'
<1> DEFINE n == call.reopen + 1
           k == [call EXCEPT !.phase = "reopen_committing", !.reopen = n]
<1>1. /\ Live(c) /\ call.phase \in {"verified", "reopen_not_applied"}
      /\ ctl[c].at \in {"run", "enter"} /\ Fits(call.phase) /\ Go(c, "complete")
      /\ UNCHANGED <<content, grants, session, backend, spawned, holder, maint, target, faults>>
  BY DEF StartReopen, In, At, Admitted, Quiet
<1>2. call' = k /\ Follows(call, k)
  BY DEF StartReopen, Becomes
<1>3. call \in Calls /\ grants \in GrantPhases
  BY Parts DEF Typed
<1>4. n \in Nat
  BY <1>3 DEF Calls
<1> HIDE DEF n
<1>5. /\ k \in Calls /\ k.phase = "reopen_committing" /\ k.pre = call.pre
      /\ k.dump = call.dump
  BY <1>3, <1>4 DEF Calls, Phases
<1> HIDE DEF k
<1>6. PICK row \in Invocations :
           /\ ctl' = [ctl EXCEPT ![c] = row] /\ row.at = "complete" /\ row.claim = ctl[c].claim
           /\ row.told = ctl[c].told /\ row.took = ctl[c].took
  BY <1>1, Parts, GoMeans DEF Places
<1>7. Sound(ctl[c]) /\ holder = c /\ faults \in 0..MaxFaults
  BY <1>1, HolderKnows
<1>8. row.claim \in Dumps /\ row.told = None
  BY <1>1, <1>6, <1>7 DEF Sound
<1>9. /\ content # "other" /\ call.pre # "other" /\ content = call.dump
  BY <1>1, Parts DEF Agreed, Verdicts
<1>10. Fits(call.phase)'
  BY <1>1, <1>2, <1>5 DEF Fits
<1>11. \A b \in Backends : ~Alive(b)
  BY <1>1, NoProcess
<1> QED
  BY <1>1, <1>2, <1>3, <1>5, <1>6, <1>7, <1>8, <1>9, <1>10, <1>11, CallKeeps, ConstantsApart
     DEF Feeds, Verdicts

\* The last commit, as far as the rows of the database go.
LEMMA CompletedMeans ==
  ASSUME Kept, call.phase = "reopen_committing", Completed
  PROVE  /\ call' \in Calls /\ Follows(call, call') /\ call'.phase = "completed"
         /\ call'.dump = call.dump /\ call'.pre = call.pre /\ grants' \in GrantPhases
         /\ Fits(call.phase)' /\ content # "other" /\ call.pre # "other"
         /\ \A b \in Backends : ~Alive(b)
<1>1. /\ call' \in Calls /\ Follows(call, call') /\ call'.phase = "completed"
      /\ call'.dump = call.dump /\ call'.pre = call.pre
  BY Parts, ToMeans DEF Completed, Phases
<1>2. grants' = "baseline"
  BY DEF Completed, Reopened
<1>3. Fits(call.phase)'
  BY <1>1, <1>2 DEF Fits
<1> QED
  BY <1>1, <1>2, <1>3, NoProcess, Parts DEF Agreed, GrantPhases

LEMMA CompleteKeeps ==
  ASSUME Kept, NEW c \in Controllers, Complete(c)
  PROVE  Kept'
<1>1. /\ Live(c) /\ call.phase = "reopen_committing" /\ ctl[c].at = "complete"
      /\ Completed /\ Leave(c, None) /\ faults' = faults
      /\ UNCHANGED <<content, session, backend, spawned, maint, target>>
  BY DEF Complete, In
<1>2. PICK row \in Invocations :
        ctl' = [ctl EXCEPT ![c] = row] /\ row.at = "idle" /\ row.told = None
  BY <1>1, Parts, LeaveMeans
<1>3. holder' = None
  BY <1>1, Parts, LeaveMeans DEF Leave
<1>4. holder = c /\ faults \in 0..MaxFaults
  BY <1>1, HolderKnows
<1> QED
  BY <1>1, <1>2, <1>3, <1>4, CompletedMeans, CallKeeps, ConstantsApart DEF Feeds, Verdicts

LEMMA CompleteInDoubtKeeps ==
  ASSUME Kept, NEW c \in Controllers, CompleteInDoubt(c)
  PROVE  Kept'
<1>1. PICK took \in BOOLEAN :
        /\ IF took THEN Completed ELSE UNCHANGED <<call, grants>>
        /\ ctl' = [ctl EXCEPT ![c].at = "doubt", ![c].unknown = call, ![c].took = took]
  BY DEF CompleteInDoubt
<1>2. /\ Live(c) /\ call.phase = "reopen_committing" /\ ctl[c].at = "complete"
      /\ Fault /\ holder' = None
      /\ UNCHANGED <<content, session, backend, spawned, maint, target>>
  BY DEF CompleteInDoubt, In
<1>3. /\ holder = c /\ faults' \in 0..MaxFaults /\ Sound(ctl[c]) /\ ctl[c] \in Invocations
      /\ call \in Calls
  BY <1>2, HolderKnows, FaultMeans, Parts
<1> DEFINE row == [ctl[c] EXCEPT !.at = "doubt", !.unknown = call, !.took = took]
<1>4. ctl' = [ctl EXCEPT ![c] = row]
  BY <1>1, Parts DEF Typed
<1>5. /\ row \in Invocations /\ row.at = "doubt" /\ row.unknown = call /\ row.took = took
      /\ row.told = ctl[c].told /\ row.claim = ctl[c].claim
  BY <1>3 DEF Invocations, Places
<1> HIDE DEF row
<1>6. row.told = None /\ row.claim \in Dumps
  BY <1>2, <1>3, <1>5 DEF Sound
<1>7. CASE took = TRUE
  <2>1. Completed
    BY <1>1, <1>7
  <2>2. /\ call' \in Calls /\ Follows(call, call') /\ call'.phase = "completed"
        /\ call'.dump = call.dump /\ call'.pre = call.pre /\ grants' \in GrantPhases
        /\ Fits(call.phase)' /\ content # "other" /\ call.pre # "other"
        /\ \A b \in Backends : ~Alive(b)
    BY <1>2, <2>1, CompletedMeans
  <2> QED
    BY <1>2, <1>3, <1>4, <1>5, <1>6, <1>7, <2>2, CallKeeps, ConstantsApart DEF Feeds, Verdicts
<1>8. CASE took = FALSE
  <2>1. UNCHANGED <<call, content, grants, session, backend, spawned, maint, target>>
    BY <1>1, <1>2, <1>8
  <2>2. Past(call, took)
    BY <1>2, <1>3, <1>8 DEF Past, Calls
  <2>3. Sound(row)
    BY <1>5, <1>6, <2>2, ConstantsApart DEF Sound, Feeds
  <2> QED
    BY <1>2, <1>3, <1>4, <1>5, <2>1, <2>3, CtlKeeps, ConstantsApart
<1> QED
  BY <1>7, <1>8

LEMMA AckNotAppliedKeeps ==
  ASSUME Kept, NEW c \in Controllers, AckNotApplied(c)
  PROVE  Kept'
<1>1. /\ ctl[c].at = "doubt" /\ holder = None /\ target = "ready"
      /\ call = [ctl[c].unknown EXCEPT !.phase = "reopen_committing"]
      /\ To("reopen_not_applied") /\ Leave(c, "reopen_not_applied") /\ faults' = faults
      /\ UNCHANGED <<content, grants, session, backend, spawned, maint, target>>
  BY DEF AckNotApplied, Doubtful, SameFacts, Quiet
<1>2. ctl[c] \in Invocations /\ Sound(ctl[c]) /\ call \in Calls /\ faults \in 0..MaxFaults
      /\ grants \in GrantPhases
  BY Parts DEF Typed, Invoked
<1>3. PICK row \in Invocations :
        /\ ctl' = [ctl EXCEPT ![c] = row] /\ row.at = "idle" /\ row.told = "reopen_not_applied"
        /\ row.took = ("reopen_not_applied" # None /\ ctl[c].took)
  BY <1>1, Parts, LeaveMeans
<1>4. holder' = None
  BY <1>1, Parts, LeaveMeans
<1>5. call.phase = "reopen_committing" /\ call.attempt = ctl[c].unknown.attempt
  BY <1>1, <1>2 DEF Calls, Invocations
<1>6. ~ctl[c].took
  BY <1>1, <1>2, <1>5 DEF Sound, Past, Invocations
<1>7. /\ call' \in Calls /\ Follows(call, call') /\ call'.phase = "reopen_not_applied"
      /\ call'.pre = call.pre /\ call'.dump = call.dump
  BY <1>1, Parts, ToMeans DEF Phases
<1>8. /\ content = call.dump /\ content # "other" /\ grants = "active" /\ call.pre # "other"
  BY <1>5, Parts DEF Agreed, Verdicts, Active, Fits
<1>9. Fits(call.phase)'
  BY <1>1, <1>7, <1>8 DEF Fits
<1>10. \A b \in Backends : ~Alive(b)
  BY <1>5, NoProcess
<1> QED
  BY <1>1, <1>2, <1>3, <1>4, <1>5, <1>6, <1>7, <1>8, <1>9, <1>10, CallKeeps, ConstantsApart
     DEF Feeds

LEMMA EstablishGateKeeps ==
  ASSUME Kept, NEW c \in Controllers, EstablishGate(c)
  PROVE  Kept'
<1> DEFINE n == call.attempt + 1
           dump == ctl[c].claim
           k == [NoCall EXCEPT !.phase = "gate_established", !.attempt = n, !.dump = dump]
<1>1. /\ Live(c) /\ ~Active /\ ctl[c].at = "enter" /\ call' = k /\ grants' = "active"
      /\ Go(c, "drain")
      /\ UNCHANGED <<content, session, backend, spawned, holder, maint, target, faults>>
  BY DEF EstablishGate, Admitted
<1>2. /\ holder = c /\ target = "ready" /\ holder # Maint /\ maint = "idle" /\ Sound(ctl[c])
      /\ ctl[c] \in Invocations /\ call \in Calls
  BY <1>1, HolderKnows
<1>3. n \in Nat /\ n > call.attempt /\ call.attempt \in Nat
  BY <1>2 DEF Calls
<1>4. dump \in Dumps /\ ctl[c].told = None
  BY <1>1, <1>2 DEF Sound
<1>5. PICK row \in Invocations :
           /\ ctl' = [ctl EXCEPT ![c] = row] /\ row.at = "drain" /\ row.claim = ctl[c].claim
           /\ row.told = ctl[c].told
  BY <1>1, Parts, GoMeans DEF Places
<1>6. /\ ctl' \in [Controllers -> Invocations] /\ ctl'[c] = row
      /\ \A d \in Controllers : d # c => ctl'[d] = ctl[d]
  BY <1>5, Parts, Exchanged
<1> HIDE DEF n, dump
<1>7. /\ k \in Calls /\ k.phase = "gate_established" /\ k.attempt = n /\ k.dump = dump
      /\ k.pre = None
  <2>1. NoCall \in Calls /\ NoCall.pre = None
    BY ConstantsApart DEF NoCall, Calls, Phases
  <2> QED
    BY <1>3, <1>4, <2>1 DEF Calls, Phases
<1>8. Shaped(k)
  BY <1>7 DEF Shaped
<1> HIDE DEF k
<1>9. call.phase \in {"none", "completed"}
  BY <1>1 DEF Active
<1>10. \A b \in Backends : ~Alive(b) /\ ~Alive(b)'
  BY <1>1, <1>9, NoProcess DEF Alive
<1>11. Typed'
  BY <1>1, <1>6, <1>7, Parts DEF Typed, GrantPhases
<1>12. Locked'
  BY <1>1, <1>2 DEF Locked
<1>13. OneProcess'
  BY <1>1, <1>10, Parts DEF OneProcess, Alive
<1>14. Agreed'
  <2>1. content # "other"
    BY <1>9, Parts DEF Agreed
  <2>2. Shaped(call)' /\ Fits(call.phase)' /\ call'.dump \in Dumps
    BY <1>1, <1>4, <1>7, <1>8 DEF Shaped, Fits
  <2>3. Active'
    BY <1>1, <1>7 DEF Active
  <2> QED
    BY <1>1, <1>7, <2>1, <2>2, <2>3, ConstantsApart DEF Agreed, Verdicts
<1>15. ASSUME NEW d \in Controllers, d # c PROVE Sound(ctl[d])'
  <2>1. PICK r \in Invocations : r = ctl[d] /\ r = ctl'[d]
    BY <1>6, <1>15, Parts DEF Typed
  <2>2. Sound(r)
    BY <2>1, Parts DEF Invoked
  <2>3. r.at = "doubt" => Past(r.unknown, r.took)'
    BY <1>1, <1>3, <1>7, <2>2 DEF Sound, Past, Invocations, Calls
  <2>4. r.at \in Feeds => ~Alive(r.own)'
    <3>1. r.at \in Feeds => r.own \in Backends
      BY <2>2, Parts, ConstantsApart DEF Sound, Backends, Typed
    <3> QED
      BY <1>10, <3>1
  <2>5. Sound(r)'
    BY <1>1, <2>2, <2>3, <2>4 DEF Sound
  <2> QED
    BY <2>1, <2>5 DEF Sound
<1>16. Sound(ctl[c])' /\ Secure(ctl[c])'
  <2>1. Sound(row)' /\ Secure(row)'
    BY <1>1, <1>4, <1>5, <1>7, ConstantsApart DEF Sound, Secure, Feeds, dump
  <2> QED
    BY <1>6, <2>1 DEF Sound, Secure
<1> QED
  BY <1>1, <1>2, <1>11, <1>12, <1>13, <1>14, <1>15, <1>16 DEF Kept, Invoked

LEMMA DrainKeeps ==
  ASSUME Kept, NEW c \in Controllers, Drain(c)
  PROVE  Kept'
<1>1. /\ Live(c) /\ ctl[c].at \in {"drain", "enter"} /\ Go(c, "gated") /\ session' = FALSE
      /\ ctl[c].at = "enter" => call.phase = "gate_established"
      /\ UNCHANGED <<call, content, grants, backend, spawned, holder, maint, target, faults>>
  BY DEF Drain, Admitted, database
<1>2. holder = c /\ Sound(ctl[c]) /\ Secure(ctl[c])
  BY <1>1, HolderKnows
<1>3. call.phase = "gate_established"
  BY <1>1, <1>2 DEF Secure
<1>4. PICK row \in Invocations :
           /\ ctl' = [ctl EXCEPT ![c] = row] /\ row.at = "gated" /\ row.claim = ctl[c].claim
           /\ row.told = ctl[c].told
  BY <1>1, Parts, GoMeans DEF Places
<1>5. /\ ctl' \in [Controllers -> Invocations] /\ ctl'[c] = row
      /\ \A d \in Controllers : d # c => ctl'[d] = ctl[d]
  BY <1>4, Parts, Exchanged
<1>6. Typed'
  BY <1>1, <1>5, Parts DEF Typed
<1>7. Locked' /\ OneProcess'
  BY <1>1, Parts DEF Locked, OneProcess, Active, Alive
<1>8. Agreed'
  BY <1>1, Parts DEF Agreed, Active, Fits
<1>9. ASSUME NEW d \in Controllers, d # c PROVE Sound(ctl[d])'
  BY <1>1, <1>5, <1>9, Parts DEF Invoked, Sound, Past, Alive
<1>10. Sound(ctl[c])' /\ Secure(ctl[c])'
  <2>1. Sound(row)' /\ Secure(row)'
    BY <1>1, <1>2, <1>3, <1>4, ConstantsApart DEF Sound, Secure, Feeds
  <2> QED
    BY <1>5, <2>1 DEF Sound, Secure
<1> QED
  BY <1>1, <1>2, <1>6, <1>7, <1>8, <1>9, <1>10 DEF Kept, Invoked

\* A step of a server process that an invocation feeds, or of its birth.
LEMMA ProcessKeeps ==
  ASSUME Kept, NEW c \in Controllers, NEW b \in Backends, NEW row \in Invocations,
         NEW process \in Processes, NEW n \in 0..MaxCalls,
         ctl' = [ctl EXCEPT ![c] = row], backend' = [backend EXCEPT ![b] = process],
         spawned' = n, n >= spawned, b <= n,
         UNCHANGED <<call, content, grants, session, holder, maint, target, faults>>,
         process.state \in {"unfed", "fed", "whole"}, process.dump \in Dumps,
         process.state # "unfed" => Alive(b) /\ call.phase = "restore_started",
         ~Alive(b) => call.phase = "restore_backend_starting" /\ ~ForeignOwner,
         \A d \in Controllers : d # c /\ ctl[d].own = b /\ ~Alive(b) => ctl[d].at \notin Feeds,
         \A d \in Controllers : d # c /\ holder = d => Alive(b),
         row.at \in {"register", "trail", "reconcile"}, row.claim \in Dumps, row.told = None,
         row.at = "trail" => call.phase = "restore_started",
         row.at \in {"register", "trail"} => row.own \in 1..n
  PROVE  Kept'
<1>1. /\ ctl' \in [Controllers -> Invocations] /\ ctl'[c] = row
      /\ \A d \in Controllers : d # c => ctl'[d] = ctl[d]
  BY Parts, Exchanged
<1>2. /\ backend' \in [Backends -> Processes] /\ backend'[b] = process
      /\ \A x \in Backends : x # b => backend'[x] = backend[x]
  BY Parts DEF Typed
<1>3. /\ Alive(b)' /\ \A x \in Backends : x # b => Alive(x)' = Alive(x)
  BY <1>2 DEF Alive
<1>4. \A x \in Backends : Alive(x)' => x = b
  BY <1>3, Parts DEF OneProcess, ForeignOwner
<1>5. Typed'
  BY <1>1, <1>2, Parts DEF Typed
<1>6. Locked' /\ Agreed'
  BY Parts DEF Locked, Agreed, Active, Fits
<1>7. spawned \in Nat /\ n \in Nat
  BY Parts, ConstantsApart DEF Typed
<1>8. OneProcess'
  <2>1. \A x \in Backends : backend'[x].state # "none" => x <= n /\ backend'[x].dump \in Dumps
    BY <1>2, <1>7, Parts DEF OneProcess, Backends
  <2>2. \A x \in Backends : backend'[x].state \in {"fed", "whole"} => call.phase = "restore_started"
    BY <1>2, Parts DEF OneProcess
  <2>3. /\ call.phase \in {"restore_backend_starting", "restore_backend_ready",
                           "restore_started", "needs_attention"}
        /\ call.phase \in {"restore_backend_ready", "restore_started"} => b = call.backend
    BY Parts DEF OneProcess
  <2> QED
    BY <1>4, <2>1, <2>2, <2>3 DEF OneProcess
<1>9. ASSUME NEW d \in Controllers, d # c PROVE Sound(ctl[d])'
  <2>1. PICK r \in Invocations : r = ctl[d] /\ r = ctl'[d]
    BY <1>1, <1>9, Parts DEF Typed
  <2>2. Sound(r)
    BY <2>1, Parts DEF Invoked
  <2>3. r.at \in Feeds /\ Alive(r.own)' => call.phase = "restore_started"
    <3>1. r.at \in Feeds => r.own \in Backends
      BY <2>2, Parts, ConstantsApart DEF Sound, Backends, Typed
    <3>2. r.at \in Feeds /\ Alive(r.own)' => Alive(r.own)
      BY <1>3, <1>9, <2>1, <3>1
    <3> QED
      BY <2>2, <3>2 DEF Sound
  <2>4. r.at \in Feeds \cup {"register"} => r.own \in 1..n
    BY <1>7, <2>2 DEF Sound
  <2>5. Sound(r)'
    BY <2>2, <2>3, <2>4 DEF Sound, Past
  <2> QED
    BY <2>1, <2>5 DEF Sound
<1>10. Sound(ctl[c])' /\ Secure(ctl[c])'
  <2>1. Sound(row)' /\ Secure(row)'
    BY ConstantsApart DEF Sound, Secure, Feeds
  <2> QED
    BY <1>1, <2>1 DEF Sound, Secure
<1>11. ASSUME NEW d \in Controllers, d # c, holder = d PROVE Secure(ctl[d])'
  <2>1. PICK r \in Invocations : r = ctl[d] /\ r = ctl'[d]
    BY <1>1, <1>11, Parts DEF Typed
  <2>2. Secure(r) /\ Alive(b)
    BY <1>11, <2>1, Parts DEF Invoked
  <2>3. r.at # "spawn"
    BY <2>2 DEF Secure, ForeignOwner
  <2>4. \A x \in Controllers : ctl'[x].at = "doubt" => ctl'[x] = ctl[x]
    BY <1>1
  <2>5. Secure(r)'
    BY <2>2, <2>3, <2>4 DEF Secure
  <2> QED
    BY <2>1, <2>5 DEF Secure
<1> QED
  BY <1>5, <1>6, <1>8, <1>9, <1>10, <1>11 DEF Kept, Invoked

LEMMA SpawnKeeps ==
  ASSUME Kept, NEW c \in Controllers, Spawn(c)
  PROVE  Kept'
<1> DEFINE b == spawned + 1
           process == [state |-> "unfed", dump |-> ctl[c].claim]
           row == [ctl[c] EXCEPT !.at = "register", !.own = b]
<1>1. /\ Live(c) /\ ctl[c].at = "spawn" /\ spawned' = b
      /\ backend' = [backend EXCEPT ![b] = process]
      /\ ctl' = [ctl EXCEPT ![c].at = "register", ![c].own = b]
      /\ UNCHANGED <<call, content, grants, session, holder, maint, target, faults>>
  BY DEF Spawn, database
<1>2. /\ holder = c /\ ctl[c] \in Invocations /\ ctl[c].claim \in Dumps /\ ctl[c].told = None
      /\ call.phase = "restore_backend_starting" /\ spawned < MaxCalls /\ ~ForeignOwner
  BY <1>1, HolderKnows DEF Sound, Secure
<1>3. /\ b \in Backends /\ b \in 0..MaxCalls /\ b >= spawned /\ b <= b /\ b \in 1..b
      /\ b > spawned /\ spawned \in Nat
  BY <1>2, Parts, ConstantsApart DEF Typed, Backends
<1>4. process \in Processes /\ process.state = "unfed" /\ process.dump \in Dumps
  BY <1>2 DEF Processes
<1>5. ctl' = [ctl EXCEPT ![c] = row]
  BY <1>1, Parts DEF Typed
<1> HIDE DEF b, process
<1>6. /\ row \in Invocations /\ row.at = "register" /\ row.own = b /\ row.claim \in Dumps
      /\ row.told = None
  BY <1>2, <1>3 DEF Invocations, Places
<1> HIDE DEF row
<1>7. ASSUME NEW d \in Controllers, ctl[d].at \in Feeds PROVE ctl[d].own # b
  <2>1. ctl[d].own \in 1..spawned
    BY <1>7, Parts DEF Invoked, Sound
  <2> QED
    BY <1>3, <2>1
<1>8. ~Alive(b)
  BY <1>2, <1>3 DEF ForeignOwner
<1>9. \A d \in Controllers : d # c /\ ctl[d].own = b /\ ~Alive(b) => ctl[d].at \notin Feeds
  BY <1>7
<1>10. \A d \in Controllers : d # c /\ holder = d => Alive(b)
  BY <1>2
<1>11. row.own \in 1..b /\ row.at \in {"register", "trail", "reconcile"} /\ row.at # "trail"
  BY <1>3, <1>6
<1>12. /\ UNCHANGED <<call, content, grants, session, holder, maint, target, faults>>
       /\ backend' = [backend EXCEPT ![b] = process] /\ spawned' = b
  BY <1>1
<1>13. /\ ~Alive(b) => call.phase = "restore_backend_starting" /\ ~ForeignOwner
       /\ process.state # "unfed" => Alive(b) /\ call.phase = "restore_started"
       /\ row.at = "trail" => call.phase = "restore_started"
       /\ row.at \in {"register", "trail"} => row.own \in 1..b
  BY <1>2, <1>4, <1>11
<1>14. /\ b \in Backends /\ b \in 0..MaxCalls /\ b >= spawned /\ b <= b
       /\ process \in Processes /\ process.state \in {"unfed", "fed", "whole"}
       /\ process.dump \in Dumps
       /\ row \in Invocations /\ row.claim \in Dumps /\ row.told = None
       /\ row.at \in {"register", "trail", "reconcile"}
  BY <1>3, <1>4, <1>6, <1>11
<1> QED
  BY <1>5, <1>9, <1>10, <1>12, <1>13, <1>14, ProcessKeeps

LEMMA FeedKeeps ==
  ASSUME Kept, NEW c \in Controllers, Feed(c) \/ Trail(c)
  PROVE  Kept'
<1> DEFINE b == ctl[c].own
<1>1. PICK s \in {"fed", "whole"}, p \in {"trail", "reconcile"} :
        /\ ctl[c].at \in {"feeding", "trailing"} /\ Alive(b) /\ Go(c, p)
        /\ backend' = [backend EXCEPT ![b].state = s]
        /\ UNCHANGED <<call, content, grants, session, spawned, holder, maint, target, faults>>
  BY DEF Feed, Trail, database
<1>2. /\ Sound(ctl[c]) /\ ctl[c].claim \in Dumps /\ ctl[c].told = None /\ b \in 1..spawned
      /\ call.phase = "restore_started" /\ spawned \in 0..MaxCalls
  BY <1>1, Parts DEF Invoked, Sound, Feeds, Typed
<1>3. b \in Backends /\ spawned >= spawned /\ b <= spawned
  BY <1>2, ConstantsApart DEF Backends
<1>4. PICK row \in Invocations :
           /\ ctl' = [ctl EXCEPT ![c] = row] /\ row.at = p /\ row.claim = ctl[c].claim
           /\ row.own = b /\ row.told = ctl[c].told
  BY <1>1, Parts, GoMeans DEF Places
<1> HIDE DEF b
<1> DEFINE process == [backend[b] EXCEPT !.state = s]
<1>5. backend[b] \in Processes /\ backend[b].dump \in Dumps
  BY <1>1, <1>3, Parts DEF Typed, OneProcess, Alive
<1>6. backend' = [backend EXCEPT ![b] = process]
  BY <1>1, <1>3, Parts DEF Typed
<1>7. process \in Processes /\ process.state = s /\ process.dump \in Dumps
  BY <1>5 DEF Processes
<1> HIDE DEF process
<1>8. spawned' = spawned /\ UNCHANGED <<call, content, grants, session, holder, maint, target, faults>>
  BY <1>1
<1> QED
  BY <1>1, <1>2, <1>3, <1>4, <1>6, <1>7, <1>8, ProcessKeeps

-----------------------------------------------------------------------------
(* The steps of everybody else                                             *)

\* A step of a runtime role or of a server process, which no invocation takes.
LEMMA OutsideKeeps ==
  ASSUME Kept, UNCHANGED <<call, spawned, ctl, holder, maint, target, faults>>,
         content' \in Contents, grants' \in GrantPhases, session' \in BOOLEAN,
         backend' \in [Backends -> Processes],
         \A b \in Backends :
           /\ Alive(b)' => Alive(b)
           /\ backend'[b].state # "none" => /\ backend[b].state # "none"
                                            /\ backend'[b].dump = backend[b].dump
           /\ backend'[b].state \in {"fed", "whole"} => backend[b].state \in {"fed", "whole"},
         session' = session \/ session' = FALSE \/ ~Active,
         \/ content' = content
         \/ (content' # "other" /\ call.phase \in {"none", "completed", "gate_established"})
         \/ call.phase = "restore_started",
         \/ grants' = grants
         \/ (call.phase = "restore_started" /\ grants' = "bare")
         \/ (~Active /\ grants' = "baseline")
  PROVE  Kept'
<1>1. Typed'
  BY Parts DEF Typed
<1>2. Locked' /\ (Active' <=> Active)
  BY Parts DEF Locked, Active
<1>3. OneProcess'
  BY Parts DEF OneProcess
<1>4. Agreed'
  <2>1. ASSUME Active PROVE Fits(call.phase)'
    BY <2>1, Parts DEF Agreed, Fits, Active
  <2>2. Shaped(call)' <=> Shaped(call)
    BY DEF Shaped
  <2>3. ~Active /\ target = "ready" => grants' = "baseline"
    BY Parts DEF Agreed, Active
  <2>4. Active /\ call.phase # "gate_established" => ~session'
    BY Parts DEF Agreed
  <2> QED
    BY <1>2, <2>1, <2>2, <2>3, <2>4, Parts DEF Agreed, Verdicts
<1>5. ASSUME NEW c \in Controllers PROVE Sound(ctl[c])'
  <2>1. PICK r \in Invocations : r = ctl[c] /\ r = ctl'[c]
    BY Parts DEF Typed
  <2>2. Sound(r)
    BY <2>1, Parts DEF Invoked
  <2>3. r.at \in Feeds => r.own \in Backends
    BY <2>2, Parts, ConstantsApart DEF Sound, Backends, Typed
  <2>4. Sound(r)'
    BY <2>2, <2>3 DEF Sound, Past
  <2> QED
    BY <2>1, <2>4 DEF Sound
<1>6. ASSUME NEW c \in Controllers, holder = c PROVE Secure(ctl[c])'
  <2>1. Secure(ctl[c])
    BY <1>6, Parts DEF Invoked
  <2>2. call.phase = "gate_established" /\ ~session => ~session'
    BY DEF Active
  <2>3. ForeignOwner' => ForeignOwner
    BY DEF ForeignOwner
  <2> QED
    BY <2>1, <2>2, <2>3 DEF Secure
<1> QED
  BY <1>1, <1>2, <1>3, <1>4, <1>5, <1>6 DEF Kept, Invoked

LEMMA RolesKeep ==
  ASSUME Kept, Connect \/ Disconnect \/ Edit \/ ReassertRoles
  PROVE  Kept'
<1>0. /\ call \in Calls /\ content \in Contents /\ grants \in GrantPhases
      /\ session \in BOOLEAN /\ backend \in [Backends -> Processes]
  BY Parts DEF Typed
<1>1. /\ UNCHANGED <<call, backend, spawned, ctl, holder, maint, target, faults>>
      /\ session' \in BOOLEAN /\ (session' = session \/ session' = FALSE \/ ~Active)
      /\ (content' = content \/ (session /\ content' \in {"edited"} \cup Dumps))
      /\ (grants' = grants \/ (~Active /\ grants' = "baseline"))
  BY <1>0 DEF Connect, Disconnect, Edit, ReassertRoles, MayConnect, database, Rest, Idle
<1>2. /\ content' \in Contents
      /\ (content' = content \/ (session /\ content' # "other"))
      /\ grants' \in GrantPhases
  BY <1>0, <1>1, ConstantsApart DEF Contents, GrantPhases
<1>3. session => call.phase \in {"none", "completed", "gate_established"}
  BY Parts DEF Agreed, Active
<1>4. \A b \in Backends : Alive(b)' => Alive(b)
  BY <1>1 DEF Alive
<1> QED
  BY <1>0, <1>1, <1>2, <1>3, <1>4, OutsideKeeps

LEMMA BackendKeeps ==
  ASSUME Kept, NEW b \in Backends, BackendRollsBack(b) \/ BackendCommits(b)
  PROVE  Kept'
<1>0. /\ content \in Contents /\ grants \in GrantPhases /\ session \in BOOLEAN
      /\ backend \in [Backends -> Processes] /\ backend[b] \in Processes
  BY Parts DEF Typed
<1>1. /\ UNCHANGED <<call, session, spawned, ctl, holder, maint, target, faults>>
      /\ Alive(b) /\ backend' = [backend EXCEPT ![b].state = "gone"]
      /\ \/ UNCHANGED <<content, grants>>
         \/ /\ backend[b].state = "whole" /\ content' \in {backend[b].dump, "other"}
            /\ grants' = "bare"
  BY DEF BackendRollsBack, BackendCommits, database, Alive
<1>2. backend[b].dump \in Dumps /\ (backend[b].state = "whole" => call.phase = "restore_started")
  BY <1>1, Parts DEF OneProcess, Alive
<1>3. content' \in Contents /\ grants' \in GrantPhases
  BY <1>0, <1>1, <1>2 DEF Contents, GrantPhases
<1>4. /\ backend' \in [Backends -> Processes]
      /\ backend'[b].state = "gone" /\ backend'[b].dump = backend[b].dump
      /\ \A x \in Backends : x # b => backend'[x] = backend[x]
  BY <1>0, <1>1 DEF Processes
<1>5. \A x \in Backends :
           /\ Alive(x)' => Alive(x)
           /\ backend'[x].state # "none" => /\ backend[x].state # "none"
                                            /\ backend'[x].dump = backend[x].dump
           /\ backend'[x].state \in {"fed", "whole"} => backend[x].state \in {"fed", "whole"}
  BY <1>1, <1>4 DEF Alive
<1> QED
  BY <1>0, <1>1, <1>2, <1>3, <1>4, <1>5, OutsideKeeps

\* A step of a migration, a backup, a reset or a bootstrap.
LEMMA OthersKeep ==
  ASSUME Kept, UNCHANGED <<session, backend, spawned, ctl, faults>>,
         ~Active, holder \in {None, Maint}, holder' \in {None, Maint},
         NEW k \in Calls, call' = k, k.phase \in {"none", call.phase}, k.attempt = call.attempt,
         k.phase # "none" => k = call, k.pre # "other",
         content' \in {content, "old", "edited"}, grants' \in GrantPhases,
         maint' \in {"idle", "migrate", "reset", "backup"},
         target' \in {"ready", "absent", "candidate"},
         (holder' = Maint) = (maint' # "idle"), target' = "ready" => grants' = "baseline"
  PROVE  Kept'
<1>0. call.phase \in {"none", "completed"} /\ k.phase \in {"none", "completed"}
  BY DEF Active
<1>1. Typed'
  BY Parts, ConstantsApart DEF Typed, Contents
<1>2. ~Active'
  BY <1>0 DEF Active
<1>3. Locked'
  BY <1>2, ConstantsApart DEF Locked
<1>4. \A b \in Backends : ~Alive(b) /\ ~Alive(b)'
  BY <1>0, NoProcess DEF Alive
<1>5. OneProcess'
  BY <1>4, Parts DEF OneProcess, Alive
<1>6. Agreed'
  <2>1. content' # "other"
    BY <1>0, Parts DEF Agreed
  <2> QED
    BY <1>0, <1>2, <2>1 DEF Agreed, Verdicts
<1>7. ASSUME NEW c \in Controllers PROVE Sound(ctl[c])'
  <2>1. PICK r \in Invocations : r = ctl[c] /\ r = ctl'[c]
    BY Parts DEF Typed
  <2>2. Sound(r)
    BY <2>1, Parts DEF Invoked
  <2>3. r.at \in Feeds => r.own \in Backends
    BY <2>2, Parts, ConstantsApart DEF Sound, Backends, Typed
  <2>4. r.at = "doubt" => Past(r.unknown, r.took)'
    BY <1>0, <2>2 DEF Sound, Past
  <2>5. Sound(r)'
    BY <1>4, <2>2, <2>3, <2>4 DEF Sound
  <2> QED
    BY <2>1, <2>5 DEF Sound
<1> QED
  BY <1>1, <1>3, <1>5, <1>6, <1>7, ConstantsApart DEF Kept, Invoked

LEMMA MaintainKeeps ==
  ASSUME Kept, Maintain
  PROVE  Kept'
<1>1. /\ (holder = Maint) = (maint # "idle") /\ (holder = Maint => ~Active)
      /\ (target # "ready" => ~Active) /\ call \in Calls /\ grants \in GrantPhases
      /\ maint \in {"idle", "migrate", "reset", "backup"}
      /\ target \in {"ready", "absent", "candidate"} /\ None # Maint /\ call.pre # "other"
      /\ (~Active /\ target = "ready" => grants = "baseline")
      /\ "bare" \in GrantPhases /\ "baseline" \in GrantPhases
  BY Parts, ConstantsApart DEF Locked, Typed, Agreed, GrantPhases
<1>2. ASSUME NEW what \in {"migrate", "reset", "backup"}, Admit(what) PROVE Kept'
  BY <1>1, <1>2, OthersKeep DEF Admit, Idle, Rest
<1>3. CASE Migrate
  BY <1>1, <1>3, OthersKeep DEF Migrate, Idle, Rest
<1>4. CASE BootstrapCandidate
  BY <1>1, <1>4, OthersKeep DEF BootstrapCandidate, Rest
<1>5. CASE ReassertRoles
  BY <1>5, RolesKeep
<1>6. CASE DropTarget
  <2>1. PICK n \in Nat : n = call.attempt
    BY <1>1 DEF Calls
  <2> DEFINE k == [NoCall EXCEPT !.attempt = n]
  <2>2. call' = k
    BY <1>6, <2>1 DEF DropTarget
  <2>3. k \in Calls /\ k.phase = "none" /\ k.pre = None /\ k.attempt = call.attempt
    <3>1. NoCall \in Calls /\ NoCall.phase = "none" /\ NoCall.pre = None
      BY ConstantsApart DEF NoCall, Calls, Phases
    <3> QED
      BY <2>1, <3>1 DEF Calls
  <2> HIDE DEF k
  <2>4. /\ maint = "reset" /\ target' = "absent"
        /\ UNCHANGED <<content, grants, session, backend, spawned, ctl, holder, maint, faults>>
    BY <1>6 DEF DropTarget
  <2> QED
    BY <1>1, <2>2, <2>3, <2>4, OthersKeep, ConstantsApart
<1>7. CASE ResetAbsent
  BY <1>1, <1>7, OthersKeep DEF ResetAbsent, Rest
<1>8. CASE CreateTarget
  BY <1>1, <1>8, OthersKeep DEF CreateTarget, Rest
<1>9. CASE BootstrapTarget
  BY <1>1, <1>9, OthersKeep DEF BootstrapTarget, Rest
<1>10. CASE MaintEnds
  BY <1>1, <1>10, OthersKeep DEF MaintEnds, Rest
<1> QED
  BY <1>2, <1>3, <1>4, <1>5, <1>6, <1>7, <1>8, <1>9, <1>10 DEF Maintain


-----------------------------------------------------------------------------
(* All steps together                                                      *)

LEMMA StepKeeps ==
  ASSUME Kept, NEW c \in Controllers, Step(c)
  PROVE  Kept'
<1>0. faults \in 0..MaxFaults
  BY Parts DEF Typed
<1>1. CASE FindAlive(c) \/ AlreadyApplied(c) \/ AckElse(c) \/ GiveUp(c) \/ Stop(c)
  BY <1>0, <1>1, LeaveKeeps DEF FindAlive, AlreadyApplied, AckElse, GiveUp, Stop
<1>2. CASE Crash(c)
  BY <1>0, <1>2, FaultMeans, Parts, LeaveKeeps DEF Crash
<1>3. CASE CheckControl(c)
  BY <1>3, GoKeeps DEF CheckControl, Feeds
<1>4. CASE StreamBreaks(c)
  BY <1>4, GoKeeps DEF StreamBreaks, Feeds
<1>5. CASE FindStarting(c) \/ Unreadable(c) \/ LoseLocks(c) \/ AckCompleted(c) \/ AckNotApplied(c)
  BY <1>5, FindStartingKeeps, UnreadableKeeps, LoseLocksKeeps, AckCompletedKeeps,
     AckNotAppliedKeeps
<1>6. CASE EstablishGate(c) \/ Drain(c) \/ SucceedDirectly(c) \/ StartCall(c)
  BY <1>6, EstablishGateKeeps, DrainKeeps, SucceedDirectlyKeeps, StartCallKeeps
<1>7. CASE Spawn(c) \/ Register(c) \/ RegisterStarted(c) \/ Feed(c) \/ Trail(c)
  BY <1>7, SpawnKeeps, RegisterKeeps, RegisterStartedKeeps, FeedKeeps
<1>8. CASE Reconcile(c) \/ GrantRestored(c) \/ Verify(c) \/ FindReopening(c)
  BY <1>8, ReconcileKeeps, GrantRestoredKeeps, VerifyKeeps
<1>9. CASE StartReopen(c) \/ Complete(c) \/ CompleteInDoubt(c)
  BY <1>9, StartReopenKeeps, CompleteKeeps, CompleteInDoubtKeeps
<1> QED
  BY <1>1, <1>2, <1>3, <1>4, <1>5, <1>6, <1>7, <1>8, <1>9 DEF Step

LEMMA NextKept == Kept /\ [Next]_vars => Kept'
<1> SUFFICES ASSUME Kept, [Next]_vars PROVE Kept'
  OBVIOUS
<1>1. CASE Connect \/ Disconnect \/ Edit
  BY <1>1, RolesKeep
<1>2. CASE Maintain
  BY <1>2, MaintainKeeps
<1>3. ASSUME NEW b \in Backends, BackendRollsBack(b) \/ BackendCommits(b) PROVE Kept'
  BY <1>3, BackendKeeps
<1>4. ASSUME NEW c \in Controllers, Step(c) PROVE Kept'
  BY <1>4, StepKeeps
<1>5. ASSUME NEW c \in Controllers, NEW dump \in Dumps, NEW n \in {0} \cup (2..MaxCalls),
             Begin(c, dump, n)
      PROVE  Kept'
  <2>1. n \in Nat
    BY ConstantsAssumption
  <2> QED
    BY <1>5, <2>1, BeginKeeps
<1>6. CASE UNCHANGED vars
  BY <1>6 DEF vars, database, Kept, Typed, Locked, OneProcess, Agreed, Invoked, Sound, Secure,
              Past, Active, Fits, Alive, ForeignOwner
<1> QED
  BY <1>1, <1>2, <1>3, <1>4, <1>5, <1>6 DEF Next

LEMMA Invariance == Spec => []Kept
<1>1. Init => Kept
  BY InitKept
<1> QED
  BY <1>1, NextKept, PTL DEF Spec

-----------------------------------------------------------------------------
(* The theorems                                                            *)

\* The database, the locks and the bounds are of their types.
THEOREM TypeCorrect == Spec => []TypeOK
<1>1. Kept => TypeOK
  BY DEF Kept, Typed, TypeOK, Calls
<1> QED
  BY <1>1, Invariance, PTL

\* A dump that is being fed is alone in the database: no runtime role, no migration,
\* backup or reset, and no other psql, whoever died on the way.
THEOREM RestoresAloneHolds == Spec => []RestoresAlone
<1>1. Kept => RestoresAlone
  <2> SUFFICES ASSUME Kept, NEW b \in Backends, backend[b].state \in {"fed", "whole"}
               PROVE  /\ ~session /\ maint = "idle"
                      /\ \A other \in Backends : Alive(other) => other = b
    BY DEF RestoresAlone
  <2>1. call.phase = "restore_started" /\ Alive(b)
    BY Parts DEF OneProcess, Alive
  <2>2. Active
    BY <2>1 DEF Active
  <2> QED
    BY <2>1, <2>2, Parts DEF OneProcess, Agreed, Locked
<1> QED
  BY <1>1, Invariance, PTL

\* A verdict stands: what is said not to be applied never will be, what is said to be
\* restored is the dump, and what is said of a final commit is what happened.
THEOREM VerdictsTrueHolds == Spec => []VerdictsTrue
<1>1. Kept => VerdictsTrue
  BY Parts DEF VerdictsTrue, OneProcess, Agreed, Invoked, Sound
<1> QED
  BY <1>1, Invariance, PTL

\* Whenever the runtime roles may connect, the database is whole, its grants are the
\* ordinary ones and nobody else is connected as the owner.
THEOREM OpenIsWholeHolds == Spec => []OpenIsWhole
<1>1. Kept => OpenIsWhole
  <2> SUFFICES ASSUME Kept, ~Active, target = "ready"
               PROVE  grants = "baseline" /\ content # "other" /\ ~ForeignOwner
    BY DEF OpenIsWhole
  <2>1. call.phase \in {"none", "completed"}
    BY DEF Active
  <2> QED
    BY <2>1, Parts DEF OneProcess, Agreed, ForeignOwner
<1> QED
  BY <1>1, Invariance, PTL

\* However a controller died, the next one is let in: grants and facts are what the
\* phase asks for, and what it will observe has an edge to lead to.
THEOREM NextIsLetInHolds == Spec => []NextIsLetIn
<1>1. Kept => NextIsLetIn
  <2> SUFFICES ASSUME Kept, target = "ready"
               PROVE  /\ Fits(call.phase) /\ (Active => Shaped(call))
                      /\ call.phase = "restore_backend_ready" => content # call.dump
    BY DEF NextIsLetIn
  <2>1. ~Active => Fits(call.phase)
    BY Parts DEF Agreed, Active, Fits
  <2> QED
    BY <2>1, Parts DEF Agreed
<1> QED
  BY <1>1, Invariance, PTL

-----------------------------------------------------------------------------
(* The refinement                                                          *)

Calling == {"restore_backend_starting", "restore_backend_ready", "restore_started",
            "restore_not_applied"}

\* A call finds its origin untouched until its server process commits, and that feeds
\* the dump of the gate.
Bound ==
  /\ call.phase \in Calling => call.pre # call.dump
  /\ call.phase \in {"restore_backend_starting", "restore_backend_ready"} => content = call.pre
  /\ \A b \in Backends : Alive(b) =>
       /\ backend[b].dump = call.dump
       /\ call.phase # "needs_attention" => content = call.pre
  /\ \A c \in Controllers :
       holder = c /\ ctl[c].at = "spawn" => ctl[c].claim = call.dump

\* Outside a call there is nothing to be bound.
LEMMA BoundElsewhere ==
  ASSUME Kept', call'.phase \notin Calling \cup {"needs_attention"}
  PROVE  Bound'
<1>1. OneProcess' /\ Invoked'
  BY DEF Kept
<1>2. \A b \in Backends : ~Alive(b)'
  BY <1>1 DEF OneProcess, Calling
<1>3. \A c \in Controllers : ~(holder' = c /\ ctl'[c].at = "spawn")
  BY <1>1 DEF Invoked, Secure, Calling
<1> QED
  BY <1>2, <1>3 DEF Bound, Calling

\* A step that leaves the call alone, begets no process and begins no call.
LEMMA BoundStays ==
  ASSUME Bound, UNCHANGED <<call, content>>,
         \A b \in Backends : Alive(b)' => Alive(b) /\ backend'[b].dump = backend[b].dump,
         \A c \in Controllers :
           holder' = c /\ ctl'[c].at = "spawn" => holder = c /\ ctl'[c] = ctl[c]
  PROVE  Bound'
  BY DEF Bound

\* A step that moves a call on.
LEMMA BoundMoves ==
  ASSUME Kept, Kept', Bound, Follows(call, call'), call'.phase # "restore_backend_starting",
         UNCHANGED <<content, backend>>
  PROVE  Bound'
<1>1. /\ <<call.phase, call'.phase>> \in Edges /\ call'.dump = call.dump
      /\ call'.pre = call.pre
  BY DEF Follows
<1>2. /\ call.phase # "needs_attention"
      /\ call'.phase \in Calling => call.phase \in Calling
      /\ call'.phase = "restore_backend_ready" => call.phase = "restore_backend_starting"
  BY <1>1 DEF Edges, Calling
<1>3. \A c \in Controllers : ~(holder' = c /\ ctl'[c].at = "spawn")
  BY DEF Kept, Invoked, Secure
<1> QED
  BY <1>1, <1>2, <1>3 DEF Bound, Alive

LEMMA GoBound ==
  ASSUME Kept, Bound, NEW c \in Controllers, NEW p \in Places, p # "spawn", Go(c, p),
         UNCHANGED <<call, content, holder>>,
         \A b \in Backends : Alive(b)' => Alive(b) /\ backend'[b].dump = backend[b].dump
  PROVE  Bound'
<1>1. PICK row \in Invocations : ctl' = [ctl EXCEPT ![c] = row] /\ row.at = p
  BY Parts, GoMeans
<1>2. ctl'[c] = row /\ \A d \in Controllers : d # c => ctl'[d] = ctl[d]
  BY <1>1, Parts, Exchanged
<1> QED
  BY <1>1, <1>2, BoundStays

LEMMA LeaveBound ==
  ASSUME Kept, Bound, NEW c \in Controllers,
         NEW t \in {None, "completed", "reopen_not_applied"}, Leave(c, t), CtlOnly
  PROVE  Bound'
<1>1. PICK row \in Invocations : ctl' = [ctl EXCEPT ![c] = row]
  BY Parts, LeaveMeans
<1>2. holder' \in {None, holder} /\ holder' # c
  BY Parts, LeaveMeans
<1>3. \A d \in Controllers : d # c => ctl'[d] = ctl[d]
  BY <1>1, Parts, Exchanged
<1> QED
  BY <1>2, <1>3, BoundStays, ConstantsApart DEF CtlOnly, database, Alive

LEMMA BeginBound ==
  ASSUME Kept, Bound, NEW c \in Controllers, NEW dump \in Dumps, NEW n, Begin(c, dump, n)
  PROVE  Bound'
<1>1. /\ holder' = c /\ UNCHANGED <<call, content, backend>>
      /\ ctl' = [ctl EXCEPT ![c] = [Away EXCEPT !.at = "enter", !.claim = dump, !.approves = n]]
  BY DEF Begin, CtlOnly, database
<1>2. ctl'[c].at = "enter"
  BY <1>1, Parts DEF Typed, Away
<1> QED
  BY <1>1, <1>2, BoundStays DEF Alive

LEMMA StartCallBound ==
  ASSUME Kept, Bound, NEW c \in Controllers, StartCall(c)
  PROVE  Bound'
<1> DEFINE n == call.ordinal + 1
           k == [call EXCEPT !.phase = "restore_backend_starting", !.ordinal = n,
                             !.pre = content, !.backend = 0]
<1>1. /\ Live(c) /\ Claimed(c) /\ call.phase \in {"gate_established", "restore_not_applied"}
      /\ ~ForeignOwner /\ content # ctl[c].claim /\ Go(c, "spawn")
      /\ UNCHANGED <<content, backend, holder>>
  BY DEF StartCall, In, Quiet
<1>2. call' = k
  BY DEF StartCall, Becomes
<1>3. call \in Calls
  BY Parts DEF Typed
<1> HIDE DEF n
<1>4. /\ k.phase = "restore_backend_starting" /\ k.pre = content /\ k.dump = call.dump
  BY <1>3 DEF Calls
<1> HIDE DEF k
<1>5. PICK row \in Invocations : ctl' = [ctl EXCEPT ![c] = row] /\ row.claim = ctl[c].claim
  BY <1>1, Parts, GoMeans DEF Places
<1>6. ctl'[c] = row /\ holder = c /\ call.dump = ctl[c].claim
  BY <1>1, <1>5, Parts, Exchanged, HolderKnows DEF Active
<1>7. \A b \in Backends : ~Alive(b)'
  BY <1>1 DEF ForeignOwner, Alive
<1> QED
  BY <1>1, <1>2, <1>4, <1>5, <1>6, <1>7 DEF Bound

LEMMA SpawnBound ==
  ASSUME Kept, Bound, NEW c \in Controllers, Spawn(c)
  PROVE  Bound'
<1>1. /\ ctl[c].at = "spawn" /\ Live(c) /\ UNCHANGED <<call, content, holder>>
      /\ backend' = [backend EXCEPT ![spawned + 1] =
                       [state |-> "unfed", dump |-> ctl[c].claim]]
      /\ ctl' = [ctl EXCEPT ![c].at = "register", ![c].own = spawned + 1]
  BY DEF Spawn, database
<1>2. /\ holder = c /\ call.phase = "restore_backend_starting" /\ ~ForeignOwner
      /\ spawned < MaxCalls
  BY <1>1, HolderKnows DEF Secure
<1>3. ctl[c].claim = call.dump /\ content = call.pre
  BY <1>1, <1>2 DEF Bound
<1>4. ctl'[c].at # "spawn" /\ \A d \in Controllers : d # c => ctl'[d] = ctl[d]
  BY <1>1, Parts DEF Typed
<1>5. spawned + 1 \in Backends /\ backend \in [Backends -> Processes]
  BY <1>2, Parts, ConstantsApart DEF Typed, Backends
<1>6. ASSUME NEW b \in Backends, Alive(b)'
      PROVE  backend'[b].dump = call.dump
  BY <1>1, <1>2, <1>3, <1>5, <1>6 DEF ForeignOwner, Alive
<1> QED
  BY <1>1, <1>2, <1>3, <1>4, <1>6 DEF Bound

LEMMA FeedBound ==
  ASSUME Kept, Bound, NEW c \in Controllers, Feed(c) \/ Trail(c)
  PROVE  Bound'
<1>1. /\ Alive(ctl[c].own) /\ UNCHANGED <<call, content, holder>>
      /\ \E s \in {"fed", "whole"} : backend' = [backend EXCEPT ![ctl[c].own].state = s]
      /\ \E p \in {"trail", "reconcile"} : Go(c, p)
  BY DEF Feed, Trail, database
<1>2. backend \in [Backends -> Processes]
  BY Parts DEF Typed
<1>3. \A b \in Backends : Alive(b)' => Alive(b) /\ backend'[b].dump = backend[b].dump
  BY <1>1, <1>2 DEF Alive, Processes
<1> QED
  BY <1>1, <1>3, GoBound DEF Places

LEMMA BackendBound ==
  ASSUME Kept, Kept', Bound, NEW b \in Backends, BackendRollsBack(b) \/ BackendCommits(b)
  PROVE  Bound'
<1>1. /\ Alive(b) /\ backend' = [backend EXCEPT ![b].state = "gone"]
      /\ UNCHANGED <<call, ctl, holder>>
  BY DEF BackendRollsBack, BackendCommits, database, Alive
<1>2. backend \in [Backends -> Processes]
  BY Parts DEF Typed
<1>3. \A other \in Backends : Alive(other) => other = b
  BY <1>1, Parts DEF OneProcess
<1>4. \A other \in Backends : ~Alive(other)'
  BY <1>1, <1>2, <1>3 DEF Alive, Processes
<1>5. CASE BackendRollsBack(b)
  BY <1>1, <1>4, <1>5, BoundStays DEF BackendRollsBack, database
<1>6. CASE BackendCommits(b)
  <2>1. call.phase = "restore_started"
    BY <1>6, Parts DEF BackendCommits, OneProcess
  <2> QED
    BY <1>1, <1>4, <2>1 DEF Bound
<1> QED
  BY <1>5, <1>6

\* A verdict of the content, or an attention.
LEMMA ToBound ==
  ASSUME Kept, Kept', Bound, NEW p \in Phases \ {"restore_backend_starting"}, To(p),
         UNCHANGED <<content, backend>>
  PROVE  Bound'
<1>1. Follows(call, call') /\ call'.phase = p
  BY Parts, ToMeans
<1> QED
  BY <1>1, BoundMoves

LEMMA RegisterBound ==
  ASSUME Kept, Kept', Bound, NEW c \in Controllers, Register(c)
  PROVE  Bound'
<1> DEFINE k == [call EXCEPT !.phase = "restore_backend_ready", !.backend = ctl[c].own]
<1>1. call' = k /\ Follows(call, k) /\ UNCHANGED <<content, backend>>
  BY DEF Register, Becomes, Quiet
<1>2. k.phase = "restore_backend_ready"
  BY Parts DEF Typed, Calls
<1> HIDE DEF k
<1> QED
  BY <1>1, <1>2, BoundMoves

LEMMA StartReopenBound ==
  ASSUME Kept', NEW c \in Controllers, StartReopen(c)
  PROVE  Bound'
<1>1. Follows(call, call') /\ call' = [call EXCEPT !.phase = "reopen_committing", !.reopen = @ + 1]
  BY DEF StartReopen, Becomes
<1>2. call'.phase = "reopen_committing"
  BY <1>1 DEF Kept, Typed, Calls, StartReopen
<1> QED
  BY <1>2, BoundElsewhere DEF Calling

LEMMA StepBound ==
  ASSUME Kept, Kept', Bound, NEW c \in Controllers, Step(c)
  PROVE  Bound'
<1>1. CASE FindAlive(c) \/ AlreadyApplied(c) \/ AckElse(c) \/ GiveUp(c) \/ Stop(c) \/ Crash(c)
  <2>1. Leave(c, None) /\ CtlOnly
    BY <1>1 DEF FindAlive, AlreadyApplied, AckElse, GiveUp, Stop, Crash
  <2> QED
    BY <2>1, LeaveBound
<1>2. CASE AckCompleted(c)
  BY <1>2, LeaveBound DEF AckCompleted
<1>3. CASE CheckControl(c) \/ StreamBreaks(c)
  <2>1. /\ \E p \in {"feeding", "trailing", "reconcile"} : Go(c, p)
        /\ UNCHANGED <<call, content, holder, backend>>
    BY <1>3 DEF CheckControl, StreamBreaks, CtlOnly, database
  <2> QED
    BY <2>1, GoBound DEF Places, Alive
<1>4. CASE LoseLocks(c)
  <2>1. /\ ctl' = ctl /\ holder' = None /\ UNCHANGED <<call, content, backend>>
    BY <1>4 DEF LoseLocks, CtlOnly, database
  <2> QED
    BY <2>1, BoundStays, ConstantsApart DEF Alive
<1>5. CASE Drain(c)
  BY <1>5, GoBound DEF Drain, database, Places, Alive
<1>6. CASE EstablishGate(c)
  <2>1. call' = [NoCall EXCEPT !.phase = "gate_established", !.attempt = call.attempt + 1,
                               !.dump = ctl[c].claim]
    BY <1>6 DEF EstablishGate
  <2>2. call'.phase = "gate_established"
    BY <2>1 DEF NoCall
  <2> QED
    BY <2>2, BoundElsewhere DEF Calling
<1>7. CASE FindStarting(c) \/ Unreadable(c) \/ RegisterStarted(c) \/ SucceedDirectly(c)
           \/ Reconcile(c) \/ GrantRestored(c) \/ Verify(c) \/ FindReopening(c)
           \/ Complete(c) \/ AckNotApplied(c)
  <2>1. /\ \E p \in {"needs_attention", "restore_started", "restore_succeeded",
                     "restore_not_applied", "grants_succeeded", "verified",
                     "reopen_not_applied", "completed"} : To(p)
        /\ UNCHANGED <<content, backend>>
    BY <1>7 DEF FindStarting, Unreadable, RegisterStarted, SucceedDirectly, Reconcile,
                GrantRestored, Verify, FindReopening, Complete, Completed, AckNotApplied, Quiet
  <2> QED
    BY <2>1, ToBound DEF Phases
<1>8. CASE CompleteInDoubt(c)
  <2>1. /\ call.phase = "reopen_committing" /\ UNCHANGED <<content, backend>>
        /\ call' = call \/ To("completed")
    BY <1>8 DEF CompleteInDoubt, Completed, In
  <2>2. CASE call' = call
    BY <2>1, <2>2, BoundElsewhere DEF Calling
  <2>3. CASE To("completed")
    BY <2>1, <2>3, ToBound DEF Phases
  <2> QED
    BY <2>1, <2>2, <2>3
<1>9. CASE StartCall(c) \/ Spawn(c) \/ Register(c) \/ Feed(c) \/ Trail(c) \/ StartReopen(c)
  BY <1>9, StartCallBound, SpawnBound, RegisterBound, FeedBound, StartReopenBound
<1> QED
  BY <1>1, <1>2, <1>3, <1>4, <1>5, <1>6, <1>7, <1>8, <1>9 DEF Step

\* The other operations wait until no restore is under way, or leave the content alone.
LEMMA MaintainMeans ==
  ASSUME Kept, Maintain
  PROVE  /\ UNCHANGED <<session, backend, ctl>>
         /\ holder' \in {holder, None, Maint}
         /\ \/ UNCHANGED <<call, content>>
            \/ /\ call.phase \in {"none", "completed"}
               /\ call'.phase \in {"none", "completed"}
<1>1. maint # "idle" => ~Active
  BY Parts DEF Locked
<1>2. CASE \E what \in {"migrate", "reset", "backup"} : Admit(what)
  BY <1>2 DEF Admit, Rest
<1>3. CASE Migrate
  BY <1>3 DEF Migrate, Idle, Active, Rest
<1>4. CASE DropTarget
  <2>1. ~Active /\ call' = [NoCall EXCEPT !.attempt = call.attempt]
        /\ UNCHANGED <<session, backend, ctl, holder>>
    BY <1>1, <1>4 DEF DropTarget
  <2>2. call'.phase = "none"
    BY <2>1 DEF NoCall
  <2> QED
    BY <2>1, <2>2 DEF Active
<1>5. CASE CreateTarget
  BY <1>1, <1>5 DEF CreateTarget, Active, Rest
<1>6. CASE BootstrapCandidate \/ ReassertRoles \/ ResetAbsent \/ BootstrapTarget \/ MaintEnds
  BY <1>6 DEF BootstrapCandidate, ReassertRoles, ResetAbsent, BootstrapTarget, MaintEnds, Rest
<1> QED
  BY <1>2, <1>3, <1>4, <1>5, <1>6 DEF Maintain

\* Neither do the runtime roles write in a call.
LEMMA RolesMean ==
  ASSUME Kept, Connect \/ Disconnect \/ Edit
  PROVE  /\ UNCHANGED <<call, backend, ctl, holder>>
         /\ \/ call.phase \in {"none", "completed"}
            \/ call.phase = "gate_established" /\ session
            \/ content' = content /\ session' = session
<1>1. session => call.phase \in {"none", "completed", "gate_established"}
  BY Parts DEF Agreed, Active
<1> QED
  BY <1>1 DEF Connect, Disconnect, Edit, MayConnect, Active, database

LEMMA NextBound == Kept /\ Kept' /\ Bound /\ [Next]_vars => Bound'
<1> SUFFICES ASSUME Kept, Kept', Bound, [Next]_vars PROVE Bound'
  OBVIOUS
<1>1. CASE Connect \/ Disconnect \/ Edit
  BY <1>1, RolesMean, BoundElsewhere, BoundStays DEF Calling, Alive
<1>2. CASE Maintain
  BY <1>2, MaintainMeans, BoundElsewhere, BoundStays, ConstantsApart DEF Calling, Alive
<1>3. ASSUME NEW b \in Backends, BackendRollsBack(b) \/ BackendCommits(b) PROVE Bound'
  BY <1>3, BackendBound
<1>4. ASSUME NEW c \in Controllers, Step(c) PROVE Bound'
  BY <1>4, StepBound
<1>5. ASSUME NEW c \in Controllers, NEW dump \in Dumps, NEW n, Begin(c, dump, n) PROVE Bound'
  BY <1>5, BeginBound
<1>6. CASE UNCHANGED vars
  BY <1>6, BoundStays DEF vars, database, Alive
<1> QED
  BY <1>1, <1>2, <1>3, <1>4, <1>5, <1>6 DEF Next

LEMMA InitBound == Init => Bound
<1> SUFFICES ASSUME Init PROVE Bound
  OBVIOUS
<1>1. call.phase = "none"
  BY DEF Init, NoCall
<1>2. \A b \in Backends : ~Alive(b)
  BY DEF Init, Alive
<1>3. \A c \in Controllers : holder # c
  BY ConstantsApart DEF Init
<1> QED
  BY <1>1, <1>2, <1>3 DEF Bound, Calling

LEMMA StageMeans ==
  /\ call.phase \in {"none", "completed"} <=> ~Active
  /\ ~Active => Stage = "open"
  /\ call.phase = "gate_established" => Stage = "closing"
  /\ call.phase \in {"restore_backend_starting", "restore_backend_ready", "restore_started"} =>
       Stage = "restoring"
  /\ call.phase = "restore_not_applied" => Stage = "unapplied"
  /\ call.phase = "needs_attention" => Stage = "stuck"
  /\ call.phase \in Verdicts => Stage = "restored"
  BY DEF Stage, Active, Verdicts

LEMMA StageMeansNext ==
  /\ call'.phase \in {"none", "completed"} <=> ~Active'
  /\ ~Active' => Stage' = "open"
  /\ call'.phase = "gate_established" => Stage' = "closing"
  /\ call'.phase \in {"restore_backend_starting", "restore_backend_ready", "restore_started"} =>
       Stage' = "restoring"
  /\ call'.phase = "restore_not_applied" => Stage' = "unapplied"
  /\ call'.phase = "needs_attention" => Stage' = "stuck"
  /\ call'.phase \in Verdicts => Stage' = "restored"
  BY DEF Stage, Active, Verdicts

\* Whoever dies, waits, looks or locks does nothing to the restore.
LEMMA NothingHappens ==
  ASSUME UNCHANGED <<call, content, session>>
  PROVE  UNCHANGED Restore!vars
  BY DEF Restore!vars, Stage, Active

\* A call that only comes further is the same restore.
LEMMA ComesFurther ==
  ASSUME UNCHANGED <<content, session>>, Stage' = Stage, Active, Active',
         call'.dump = call.dump, call'.pre = call.pre
  PROVE  UNCHANGED Restore!vars
  BY DEF Restore!vars

\* While no restore is under way anything may be done.
LEMMA UseMaps ==
  ASSUME Kept', call.phase \in {"none", "completed"}, call'.phase \in {"none", "completed"}
  PROVE  Restore!Use
<1>1. Stage = "open" /\ Stage' = "open" /\ ~Active /\ ~Active'
  BY StageMeans, StageMeansNext
<1>2. content' \in Contents \ {"other"} /\ session' \in BOOLEAN
  BY DEF Kept, Typed, Agreed
<1> QED
  BY <1>1, <1>2 DEF Restore!Use

LEMMA RolesMap ==
  ASSUME Kept, Kept', Connect \/ Disconnect \/ Edit
  PROVE  Restore!Next \/ UNCHANGED Restore!vars
<1>1. /\ UNCHANGED <<call, backend, ctl, holder>>
      /\ \/ call.phase \in {"none", "completed"}
         \/ call.phase = "gate_established" /\ session
         \/ content' = content /\ session' = session
  BY RolesMean
<1>2. CASE call.phase \in {"none", "completed"}
  BY <1>1, <1>2, UseMaps DEF Restore!Next
<1>3. CASE call.phase = "gate_established" /\ session
  <2>1. content' \in Contents \ {"other"} /\ session' \in BOOLEAN
    BY <1>1, <1>3 DEF Kept, Typed, Agreed
  <2>2. Stage = "closing" /\ Stage' = "closing" /\ Active /\ Active'
    BY <1>1, <1>3, StageMeans, StageMeansNext
  <2> QED
    BY <1>1, <1>3, <2>1, <2>2 DEF Restore!Next, Restore!Linger
<1>4. CASE content' = content /\ session' = session
  BY <1>1, <1>4, NothingHappens
<1> QED
  BY <1>1, <1>2, <1>3, <1>4

LEMMA MaintainMaps ==
  ASSUME Kept, Kept', Maintain
  PROVE  Restore!Next \/ UNCHANGED Restore!vars
  BY MaintainMeans, UseMaps, NothingHappens DEF Restore!Next

\* The commit of the server process is the one change of a call.
LEMMA BackendMaps ==
  ASSUME Kept, Bound, NEW b \in Backends, BackendRollsBack(b) \/ BackendCommits(b)
  PROVE  Restore!Next \/ UNCHANGED Restore!vars
<1>1. CASE BackendRollsBack(b)
  BY <1>1, NothingHappens DEF BackendRollsBack, database
<1>2. CASE BackendCommits(b)
  <2>1. /\ backend[b].state = "whole" /\ content' \in {backend[b].dump, "other"}
        /\ UNCHANGED <<call, session>>
    BY <1>2 DEF BackendCommits
  <2>2. call.phase = "restore_started" /\ Alive(b)
    BY <2>1, Parts DEF OneProcess, Alive
  <2>3. backend[b].dump = call.dump /\ content = call.pre
    BY <2>2 DEF Bound
  <2>4. Stage = "restoring" /\ Stage' = Stage /\ Active /\ Active'
    BY <2>1, <2>2, StageMeans, StageMeansNext
  <2> QED
    BY <2>1, <2>3, <2>4 DEF Restore!Next, Restore!Apply
<1> QED
  BY <1>1, <1>2

LEMMA EstablishGateMaps ==
  ASSUME Kept, NEW c \in Controllers, EstablishGate(c)
  PROVE  Restore!Close
<1>1. /\ ctl[c].at = "enter" /\ Live(c) /\ ~Active /\ content # ctl[c].claim
      /\ call' = [NoCall EXCEPT !.phase = "gate_established", !.attempt = call.attempt + 1,
                                !.dump = ctl[c].claim]
      /\ UNCHANGED <<content, session>>
  BY DEF EstablishGate, Admitted
<1>2. call'.phase = "gate_established" /\ call'.dump = ctl[c].claim
  BY <1>1 DEF NoCall
<1>3. ctl[c].claim \in Dumps
  BY <1>1, HolderKnows DEF Sound
<1>4. Stage = "open" /\ Stage' = "closing" /\ Active'
  BY <1>1, <1>2, StageMeans, StageMeansNext
<1> QED
  BY <1>1, <1>2, <1>3, <1>4 DEF Restore!Close

LEMMA DrainMaps ==
  ASSUME Kept, NEW c \in Controllers, Drain(c)
  PROVE  Restore!Next \/ UNCHANGED Restore!vars
<1>1. /\ Live(c) /\ (ctl[c].at = "drain" \/ call.phase = "gate_established")
      /\ session' = FALSE /\ UNCHANGED <<call, content>>
  BY DEF Drain, Admitted, database
<1>2. call.phase = "gate_established"
  BY <1>1, HolderKnows DEF Secure
<1>3. Stage = "closing" /\ Stage' = "closing" /\ Active /\ Active'
  BY <1>1, <1>2, StageMeans, StageMeansNext
<1>4. content \in Contents \ {"other"} /\ session \in BOOLEAN
  BY <1>2, Parts DEF Typed, Agreed
<1>5. CASE session
  BY <1>1, <1>3, <1>4, <1>5 DEF Restore!Next, Restore!Linger
<1>6. CASE ~session
  BY <1>1, <1>4, <1>6, NothingHappens
<1> QED
  BY <1>5, <1>6

LEMMA SucceedDirectlyMaps ==
  ASSUME Kept, NEW c \in Controllers, SucceedDirectly(c)
  PROVE  Restore!Find
<1>1. /\ Live(c) /\ Claimed(c) /\ call.phase = "gate_established" /\ ctl[c].at = "gated"
      /\ content = ctl[c].claim /\ To("restore_succeeded") /\ UNCHANGED <<content, session>>
  BY DEF SucceedDirectly, In, Drained
<1>2. ~session /\ call.dump = ctl[c].claim
  <2>1. Active /\ Secure(ctl[c]) /\ call.dump = ctl[c].claim
    BY <1>1, HolderKnows DEF Active
  <2> QED
    BY <1>1, <2>1 DEF Secure
<1>3. call'.phase = "restore_succeeded" /\ call'.dump = call.dump
  BY <1>1, Parts, ToMeans DEF Phases
<1>4. Stage = "closing" /\ Stage' = "restored" /\ Active /\ Active'
  BY <1>1, <1>3, StageMeans, StageMeansNext DEF Verdicts
<1> QED
  BY <1>1, <1>2, <1>3, <1>4 DEF Restore!Find

LEMMA StartCallMaps ==
  ASSUME Kept, NEW c \in Controllers, StartCall(c)
  PROVE  Restore!Call
<1> DEFINE n == call.ordinal + 1
           k == [call EXCEPT !.phase = "restore_backend_starting", !.ordinal = n,
                             !.pre = content, !.backend = 0]
<1>1. /\ Live(c) /\ Claimed(c) /\ call.phase \in {"gate_established", "restore_not_applied"}
      /\ call.phase = "gate_established" => ctl[c].at = "gated"
      /\ content # ctl[c].claim /\ UNCHANGED <<content, session>>
  BY DEF StartCall, In, Drained, Quiet
<1>2. call' = k
  BY DEF StartCall, Becomes
<1>3. call \in Calls
  BY Parts DEF Typed
<1> HIDE DEF n
<1>4. k.phase = "restore_backend_starting" /\ k.pre = content /\ k.dump = call.dump
  BY <1>3 DEF Calls
<1> HIDE DEF k
<1>5. call.dump = ctl[c].claim /\ ~session
  <2>1. Active /\ Secure(ctl[c]) /\ call.dump = ctl[c].claim
    BY <1>1, HolderKnows DEF Active
  <2> QED
    BY <1>1, <2>1, Parts DEF Secure, Agreed
<1>6. Stage \in {"closing", "unapplied"} /\ Stage' = "restoring" /\ Active /\ Active'
  BY <1>1, <1>2, <1>4, StageMeans, StageMeansNext
<1> QED
  BY <1>1, <1>2, <1>4, <1>5, <1>6 DEF Restore!Call

\* What a call has come to is judged by the content.
LEMMA JudgeMaps ==
  ASSUME Kept, NEW c \in Controllers, FindStarting(c) \/ Reconcile(c) \/ Unreadable(c)
  PROVE  Restore!Judge
<1>1. /\ Live(c) /\ Claimed(c) /\ UNCHANGED <<content, session>>
      /\ call.phase \in {"restore_backend_starting", "restore_backend_ready",
                         "restore_started"}
      /\ \/ content = ctl[c].claim /\ To("restore_succeeded")
         \/ content = call.pre /\ To("restore_not_applied")
         \/ To("needs_attention")
  BY DEF FindStarting, Reconcile, Unreadable, Admitted, Quiet
<1>2. call.dump = ctl[c].claim /\ Stage = "restoring" /\ Active
  <2>1. Active /\ call.dump = ctl[c].claim
    BY <1>1, HolderKnows DEF Active
  <2> QED
    BY <1>1, <2>1, StageMeans
<1>3. ASSUME NEW p \in {"restore_succeeded", "restore_not_applied", "needs_attention"}, To(p)
      PROVE  call'.phase = p /\ call'.dump = call.dump /\ call'.pre = call.pre
  BY <1>3, Parts, ToMeans DEF Phases
<1>4. CASE content = ctl[c].claim /\ To("restore_succeeded")
  <2>1. Stage' = "restored" /\ Active'
    BY <1>3, <1>4, StageMeansNext DEF Verdicts
  <2> QED
    BY <1>1, <1>2, <1>3, <1>4, <2>1 DEF Restore!Judge
<1>5. CASE content = call.pre /\ To("restore_not_applied")
  <2>1. Stage' = "unapplied" /\ Active'
    BY <1>3, <1>5, StageMeansNext
  <2> QED
    BY <1>1, <1>2, <1>3, <1>5, <2>1 DEF Restore!Judge
<1>6. CASE To("needs_attention")
  <2>1. Stage' = "stuck" /\ Active'
    BY <1>3, <1>6, StageMeansNext
  <2> QED
    BY <1>1, <1>2, <1>3, <1>6, <2>1 DEF Restore!Judge
<1> QED
  BY <1>1, <1>4, <1>5, <1>6

\* The last commit opens the database, its answer lost or not.
LEMMA CompleteMaps ==
  ASSUME Kept, NEW c \in Controllers, Complete(c) \/ CompleteInDoubt(c)
  PROVE  Restore!Next \/ UNCHANGED Restore!vars
<1>1. /\ call.phase = "reopen_committing" /\ UNCHANGED <<content, session>>
      /\ call' = call \/ To("completed")
  BY DEF Complete, CompleteInDoubt, Completed, In
<1>2. CASE call' = call
  BY <1>1, <1>2, NothingHappens
<1>3. CASE To("completed")
  <2>1. call'.phase = "completed"
    BY <1>3, Parts, ToMeans DEF Phases
  <2>2. Stage = "restored" /\ Stage' = "open" /\ Active /\ ~Active'
    BY <1>1, <2>1, StageMeans, StageMeansNext DEF Verdicts
  <2> QED
    BY <1>1, <2>2 DEF Restore!Next, Restore!Reopen
<1> QED
  BY <1>1, <1>2, <1>3

\* The steps between two stages.
LEMMA OnwardMaps ==
  ASSUME Kept, NEW c \in Controllers,
         Register(c) \/ RegisterStarted(c) \/ GrantRestored(c) \/ Verify(c)
           \/ FindReopening(c) \/ StartReopen(c) \/ AckNotApplied(c)
  PROVE  UNCHANGED Restore!vars
<1>1. call \in Calls
  BY Parts DEF Typed
<1>2. CASE RegisterStarted(c) \/ GrantRestored(c) \/ Verify(c) \/ FindReopening(c)
             \/ AckNotApplied(c)
  <2>1. /\ UNCHANGED <<content, session>>
        /\ \/ call.phase = "restore_backend_ready" /\ To("restore_started")
           \/ call.phase = "restore_succeeded" /\ To("grants_succeeded")
           \/ call.phase = "grants_succeeded" /\ To("verified")
           \/ call.phase = "reopen_committing" /\ To("reopen_not_applied")
    <3>1. AckNotApplied(c) => call.phase = "reopen_committing"
      <4>1. SameFacts(c, "reopen_committing") => call.phase = "reopen_committing"
        BY Parts DEF SameFacts, Typed, Invocations, Calls
      <4> QED
        BY <4>1 DEF AckNotApplied
    <3> QED
      BY <1>2, <3>1 DEF RegisterStarted, GrantRestored, Verify, FindReopening, AckNotApplied,
                        At, In, Quiet
  <2>2. ASSUME NEW p \in {"restore_started", "grants_succeeded", "verified",
                          "reopen_not_applied"}, To(p)
        PROVE  call'.phase = p /\ call'.dump = call.dump /\ call'.pre = call.pre
    BY <2>2, Parts, ToMeans DEF Phases
  <2>3. Stage' = Stage /\ Active /\ Active'
    BY <2>1, <2>2, StageMeans, StageMeansNext DEF Verdicts
  <2> QED
    BY <2>1, <2>2, <2>3, ComesFurther
<1>3. CASE Register(c)
  <2> DEFINE k == [call EXCEPT !.phase = "restore_backend_ready", !.backend = ctl[c].own]
  <2>1. /\ call' = k /\ call.phase = "restore_backend_starting"
        /\ UNCHANGED <<content, session>>
    BY <1>3 DEF Register, Becomes, In, Quiet
  <2>2. k.phase = "restore_backend_ready" /\ k.dump = call.dump /\ k.pre = call.pre
    BY <1>1 DEF Calls
  <2> HIDE DEF k
  <2>3. Stage' = Stage /\ Active /\ Active'
    BY <2>1, <2>2, StageMeans, StageMeansNext
  <2> QED
    BY <2>1, <2>2, <2>3, ComesFurther
<1>4. CASE StartReopen(c)
  <2> DEFINE n == call.reopen + 1
             k == [call EXCEPT !.phase = "reopen_committing", !.reopen = n]
  <2>1. /\ call' = k /\ call.phase \in {"verified", "reopen_not_applied"}
        /\ UNCHANGED <<content, session>>
    BY <1>4 DEF StartReopen, Becomes, At, In, Quiet
  <2> HIDE DEF n
  <2>2. k.phase = "reopen_committing" /\ k.dump = call.dump /\ k.pre = call.pre
    BY <1>1 DEF Calls
  <2> HIDE DEF k
  <2>3. Stage' = Stage /\ Active /\ Active'
    BY <2>1, <2>2, StageMeans, StageMeansNext DEF Verdicts
  <2> QED
    BY <2>1, <2>2, <2>3, ComesFurther
<1> QED
  BY <1>2, <1>3, <1>4

LEMMA StepMaps ==
  ASSUME Kept, NEW c \in Controllers, Step(c)
  PROVE  Restore!Next \/ UNCHANGED Restore!vars
<1>1. CASE FindAlive(c) \/ AlreadyApplied(c) \/ AckElse(c) \/ AckCompleted(c) \/ GiveUp(c)
           \/ Stop(c) \/ Crash(c) \/ CheckControl(c) \/ StreamBreaks(c) \/ LoseLocks(c)
           \/ Spawn(c) \/ Feed(c) \/ Trail(c)
  BY <1>1, NothingHappens
     DEF FindAlive, AlreadyApplied, AckElse, AckCompleted, GiveUp, Stop, Crash, CheckControl,
         StreamBreaks, LoseLocks, Spawn, Feed, Trail, CtlOnly, database
<1>2. CASE EstablishGate(c) \/ SucceedDirectly(c) \/ StartCall(c) \/ FindStarting(c)
           \/ Reconcile(c) \/ Unreadable(c)
  BY <1>2, EstablishGateMaps, SucceedDirectlyMaps, StartCallMaps, JudgeMaps DEF Restore!Next
<1>3. CASE Drain(c) \/ Complete(c) \/ CompleteInDoubt(c)
  BY <1>3, DrainMaps, CompleteMaps
<1>4. CASE Register(c) \/ RegisterStarted(c) \/ GrantRestored(c) \/ Verify(c)
           \/ FindReopening(c) \/ StartReopen(c) \/ AckNotApplied(c)
  BY <1>4, OnwardMaps
<1> QED
  BY <1>1, <1>2, <1>3, <1>4 DEF Step

LEMMA NextMaps ==
  Kept /\ Kept' /\ Bound /\ [Next]_vars => [Restore!Next]_(Restore!vars)
<1> SUFFICES ASSUME Kept, Kept', Bound, [Next]_vars
             PROVE  Restore!Next \/ UNCHANGED Restore!vars
  OBVIOUS
<1>1. CASE Connect \/ Disconnect \/ Edit
  BY <1>1, RolesMap
<1>2. CASE Maintain
  BY <1>2, MaintainMaps
<1>3. ASSUME NEW b \in Backends, BackendRollsBack(b) \/ BackendCommits(b)
      PROVE  Restore!Next \/ UNCHANGED Restore!vars
  BY <1>3, BackendMaps
<1>4. ASSUME NEW c \in Controllers, Step(c) PROVE Restore!Next \/ UNCHANGED Restore!vars
  BY <1>4, StepMaps
<1>5. ASSUME NEW c \in Controllers, NEW dump \in Dumps, NEW n, Begin(c, dump, n)
      PROVE  UNCHANGED Restore!vars
  BY <1>5, NothingHappens DEF Begin, CtlOnly, database
<1>6. CASE UNCHANGED vars
  BY <1>6, NothingHappens DEF vars, database
<1> QED
  BY <1>1, <1>2, <1>3, <1>4, <1>5, <1>6 DEF Next

LEMMA InitMaps == Init => Restore!Init
<1> SUFFICES ASSUME Init PROVE Restore!Init
  OBVIOUS
<1>1. call.phase = "none" /\ ~Active /\ Stage = "open"
  BY StageMeans DEF Init, NoCall
<1>2. content \in Contents \ {"other"} /\ session \in BOOLEAN
  BY DEF Init, Contents
<1> QED
  BY <1>1, <1>2 DEF Restore!Init

\* Controllers that die, lose their locks or the answer of their last commit, with
\* everybody else who works on the database, implement a restore that changes the
\* content once per call at most, behind a closed gate, and opens it again on the
\* whole dump only.
THEOREM Refinement == Spec => ImplementsSafeRestore
<1>1. Init => Kept /\ Bound
  BY InitKept, InitBound
<1>2. (Kept /\ Bound) /\ [Next]_vars => (Kept /\ Bound)'
  BY NextKept, NextBound
<1>3. Kept /\ Bound /\ Kept' /\ [Next]_vars => [Restore!Next]_(Restore!vars)
  BY NextMaps
<1> QED
  BY <1>1, <1>2, <1>3, InitMaps, PTL DEF Spec, ImplementsSafeRestore, Restore!Spec
=============================================================================
