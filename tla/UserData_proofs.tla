-------------------------- MODULE UserData_proofs --------------------------
(***************************************************************************)
(* Proofs about UserData, for any numbers of requests, workers and faults. *)
(*                                                                         *)
(* An inactive user never gets a row back, so what a phase has deleted is  *)
(* gone for every worker that comes later: the invariant says of each      *)
(* phase what a worker that has reached it, with its lease or without,     *)
(* may count on, and of the two calls to the outside that whoever may make *)
(* one still is the only one and that nobody has made it.                  *)
(***************************************************************************)
EXTENDS UserData, TLAPS

-----------------------------------------------------------------------------
(* The invariant                                                           *)

\* What the deletion has done of the user.
Begun ==
  /\ active => started = {} /\ completed = 0
  /\ completed > 0 => started = {}

AfterRows == {"graph", "tasks", "audits", "parents", "final"}
AfterCheckpoint == {"tasks", "audits", "parents", "final"}
AfterTasks == {"audits", "parents", "final"}

\* What a worker has come past is gone for good.
Emptied ==
  \A w \in Workers :
    /\ worker[w].phase # "idle" => worker[w].request \in Requests
    /\ worker[w].phase \notin {"idle", "barrier"} => ~active
    /\ worker[w].phase \in AfterRows => {"data", "content", "credential"} \cap rows = {}
    /\ worker[w].phase \in AfterCheckpoint => "checkpoint" \notin rows
    /\ worker[w].phase \in AfterTasks => job = "none" /\ execution = "none"
    /\ worker[w].phase = "final" => "connection" \notin rows

\* Whoever is about to read is alone, and nobody has read.
ReadOnce ==
  /\ reads <= 1
  /\ execution = "marked" \/ reads = 1 => ~active
  /\ reads = 1 => execution \in {"marked", "none"}
  /\ \A w \in Workers : worker[w].phase = "read" =>
       /\ reads = 0 /\ execution \in {"marked", "none"}
       /\ \A v \in Workers : worker[v].phase = "read" => v = w

\* The same of the revocation.
RevokedOnce ==
  /\ revokes <= 1
  /\ revokes = 1 => "credential" \notin rows /\ ~active
  /\ \A w \in Workers : worker[w].phase = "revoke" =>
       /\ revokes = 0 /\ "credential" \notin rows
       /\ \A v \in Workers : worker[v].phase = "revoke" => v = w

Kept ==
  /\ TypeOK /\ Begun /\ Emptied /\ ReadOnce /\ RevokedOnce
  /\ NothingReturns /\ WinnerStays

-----------------------------------------------------------------------------
(* What the steps mean                                                     *)

LEMMA Parts == Kept => /\ TypeOK /\ Begun /\ Emptied /\ ReadOnce /\ RevokedOnce
                       /\ NothingReturns /\ WinnerStays
  BY DEF Kept

LEMMA InitKept == Init => Kept
<1> SUFFICES ASSUME Init PROVE Kept
  OBVIOUS
<1>1. \A w \in Workers : worker[w].phase = "idle"
  BY DEF Init, Asleep
<1>2. TypeOK
  <2>1. Asleep \in [phase : Phases, request : Requests \cup {None}, normal : BOOLEAN]
    BY DEF Asleep, Phases
  <2>2. faults \in 0..MaxFaults
    BY ConstantsAssumption DEF Init
  <2>3. [status |-> "none", owner |-> None, message |-> FALSE] \in
          [status : {"none", "queued", "running", "over"}, owner : Workers \cup {None},
           message : BOOLEAN]
    OBVIOUS
  <2> QED
    BY <2>1, <2>2, <2>3 DEF Init, TypeOK, RowKinds
<1> QED
  BY <1>1, <1>2 DEF Init, Kept, Begun, Emptied, AfterRows, AfterCheckpoint, AfterTasks, ReadOnce,
                    RevokedOnce, NothingReturns, WinnerStays

WorkerRows == [phase : Phases, request : Requests \cup {None}, normal : BOOLEAN]

LEMMA Exchanged ==
  ASSUME TypeOK, NEW w \in Workers, NEW row \in WorkerRows, worker' = [worker EXCEPT ![w] = row]
  PROVE  /\ worker' \in [Workers -> WorkerRows] /\ worker'[w] = row
         /\ \A v \in Workers : v # w => worker'[v] = worker[v]
  BY DEF TypeOK, WorkerRows

LEMMA EnterMeans ==
  ASSUME TypeOK, NEW w \in Workers, NEW p \in Phases, Enter(w, p)
  PROVE  /\ worker' \in [Workers -> WorkerRows] /\ worker'[w].phase = p
         /\ worker'[w].request = worker[w].request
         /\ \A v \in Workers : v # w => worker'[v] = worker[v]
<1> DEFINE row == [worker[w] EXCEPT !.phase = p]
<1>1. worker \in [Workers -> WorkerRows] /\ worker[w] \in WorkerRows
  BY DEF TypeOK, WorkerRows
<1>2. row \in WorkerRows /\ row.phase = p /\ row.request = worker[w].request
  BY <1>1 DEF WorkerRows
<1>3. worker' = [worker EXCEPT ![w] = row]
  BY <1>1 DEF Enter
<1> HIDE DEF row
<1> QED
  BY <1>2, <1>3, Exchanged

LEMMA SleepMeans ==
  ASSUME TypeOK, NEW w \in Workers, worker' = [worker EXCEPT ![w] = Asleep]
  PROVE  /\ worker' \in [Workers -> WorkerRows] /\ worker'[w].phase = "idle"
         /\ \A v \in Workers : v # w => worker'[v] = worker[v]
<1>1. Asleep \in WorkerRows /\ Asleep.phase = "idle"
  BY DEF Asleep, WorkerRows, Phases
<1> QED
  BY <1>1, Exchanged

\* Whoever wins is a worker of the only request that counts, and nothing is completed.
LEMMA WinnerMeans ==
  ASSUME Kept, NEW w \in Workers, Winner(w)
  PROVE  /\ ~active /\ completed = 0 /\ worker[w].request \in Requests
         /\ started = {worker[w].request} /\ request[worker[w].request].status = "running"
<1>1. ~active /\ started = {worker[w].request} /\ request[worker[w].request].status = "running"
  BY DEF Winner, Authority, Bound
<1>2. completed = 0
  <2>1. completed \in Nat /\ (completed > 0 => started = {})
    BY Parts DEF Begun, TypeOK
  <2> QED
    BY <1>1, <2>1
<1>3. worker[w].request \in Requests
  BY <1>1, Parts DEF TypeOK
<1> QED
  BY <1>1, <1>2, <1>3

-----------------------------------------------------------------------------
(* Everybody but the workers                                               *)

\* What a use or a step of retention does: to an inactive user nothing is added but
\* an audit, and that only by a task or a connection that is there.
LEMMA UseMeans ==
  ASSUME TypeOK, Use \/ Retain
  PROVE  /\ UNCHANGED <<active, started, completed, request, worker, reads, revokes, faults>>
         /\ rows' \subseteq RowKinds /\ connected' \in BOOLEAN
         /\ job' \in {"none", "running", "done"}
         /\ execution' \in {"none", "open", "marked", "settled"}
         /\ retention' \in {"on", "history", "scanned"}
         /\ execution' = "marked" => execution = "marked"
         /\ ~active => /\ rows' \subseteq rows \cup {"audit"}
                       /\ job = "none" => job' = "none"
                       /\ job = "none" /\ "connection" \notin rows => rows' \subseteq rows
                       /\ execution' = execution \/ execution' = "none"
                          \/ (execution = "open" /\ execution' = "settled")
<1> USE DEF TypeOK, RowKinds, user, tables, outside, LockActive
<1>1. ASSUME NEW kind \in {"data", "content"}, Write(kind) PROVE UNCHANGED execution /\ active
  BY <1>1 DEF Write
<1>2. CASE Use
  BY <1>2 DEF Use, Write, CreateJob, SaveCheckpoint, MaySave, JobEnds, Claim, Settle, Connect,
     Disconnect, Remediate
<1>3. CASE Retain
  BY <1>3 DEF Retain, ExpireContent, MayClean, ExpireAudits, KeptFacts, OpenHistory, CloseHistory,
     ScanDisconnected, CleanDisconnected, RetentionEnds
<1> QED
  BY <1>2, <1>3

LEMMA UseKeeps ==
  ASSUME Kept, Use \/ Retain
  PROVE  Kept'
<1>1. TypeOK'
  BY UseMeans, Parts DEF TypeOK
<1>2. Begun' /\ WinnerStays'
  BY UseMeans, Parts DEF Begun, WinnerStays, Authority
<1>3. Emptied'
  <2> SUFFICES ASSUME NEW w \in Workers, worker[w].phase \notin {"idle", "barrier"}
               PROVE  /\ ~active'
                      /\ worker[w].phase \in AfterRows =>
                           {"data", "content", "credential"} \cap rows' = {}
                      /\ worker[w].phase \in AfterCheckpoint => "checkpoint" \notin rows'
                      /\ worker[w].phase \in AfterTasks => job' = "none" /\ execution' = "none"
                      /\ worker[w].phase = "final" => "connection" \notin rows'
    BY UseMeans, Parts DEF Emptied, AfterRows, AfterCheckpoint, AfterTasks
  <2>1. ~active
    BY Parts DEF Emptied
  <2> QED
    BY <2>1, UseMeans, Parts DEF Emptied, AfterTasks
<1>4. ReadOnce'
  <2>1. ASSUME NEW w \in Workers, worker[w].phase = "read" PROVE ~active
    BY <2>1, Parts DEF Emptied
  <2> QED
    BY <2>1, UseMeans, Parts DEF ReadOnce
<1>5. RevokedOnce'
  <2>1. ASSUME NEW w \in Workers, worker[w].phase = "revoke" PROVE ~active
    BY <2>1, Parts DEF Emptied
  <2> QED
    BY <2>1, UseMeans, Parts DEF RevokedOnce
<1>6. NothingReturns'
  BY UseMeans, Parts DEF NothingReturns, Begun
<1> QED
  BY <1>1, <1>2, <1>3, <1>4, <1>5, <1>6 DEF Kept

RequestRows == [status : {"none", "queued", "running", "over"},
                owner : Workers \cup {None}, message : BOOLEAN]

\* The steps of a request leave alone what an inactive user's winner is.
LEMMA RequestMeans ==
  ASSUME TypeOK, NEW r \in Requests,
         Ask(r) \/ Expire(r) \/ Lose(r) \/ Recover(r) \/ Ignore(r) \/ Cancel(r)
  PROVE  /\ UNCHANGED <<user, tables, worker, retention, outside>>
         /\ request' \in [Requests -> RequestRows] /\ faults' \in 0..MaxFaults
         /\ ~active => \A q \in Requests : request'[q].status = request[q].status
<1>0. /\ request \in [Requests -> RequestRows] /\ request[r] \in RequestRows
      /\ faults \in 0..MaxFaults /\ MaxFaults \in Nat
  BY ConstantsAssumption DEF TypeOK, RequestRows
<1>1. faults' \in 0..MaxFaults
  BY <1>0 DEF Ask, Expire, Lose, Recover, Ignore, Cancel, Fault
<1>2. CASE Ask(r) \/ Cancel(r)
  BY <1>0, <1>1, <1>2 DEF Ask, Cancel, LockActive, RequestRows
<1>3. CASE Expire(r)
  BY <1>0, <1>1, <1>3 DEF Expire, RequestRows
<1>5. CASE Lose(r) \/ Ignore(r)
  <2> DEFINE quiet == [request[r] EXCEPT !.message = FALSE]
  <2>1. request' = [request EXCEPT ![r] = quiet]
    BY <1>5, <1>0 DEF Lose, Ignore
  <2>2. quiet \in RequestRows /\ quiet.status = request[r].status
    BY <1>0 DEF RequestRows
  <2> HIDE DEF quiet
  <2>3. UNCHANGED <<user, tables, worker, retention, outside>>
    BY <1>5 DEF Lose, Ignore
  <2> QED
    BY <1>0, <1>1, <2>1, <2>2, <2>3
<1>4. CASE Recover(r)
  BY <1>0, <1>1, <1>4 DEF Recover, RequestRows
<1> QED
  BY <1>2, <1>3, <1>4, <1>5

LEMMA RequestKeeps ==
  ASSUME Kept, NEW r \in Requests,
         Ask(r) \/ Expire(r) \/ Lose(r) \/ Recover(r) \/ Ignore(r) \/ Cancel(r)
  PROVE  Kept'
<1>1. /\ UNCHANGED <<active, started, completed, rows, connected, job, execution, worker,
                     retention, reads, revokes>>
      /\ request' \in [Requests -> RequestRows] /\ faults' \in 0..MaxFaults
      /\ ~active => \A q \in Requests : request'[q].status = request[q].status
  BY RequestMeans, Parts DEF user, tables, outside
<1>2. TypeOK'
  BY <1>1, Parts DEF TypeOK, RequestRows
<1>3. WinnerStays'
  BY <1>1, Parts DEF WinnerStays, Authority
<1> QED
  BY <1>1, <1>2, <1>3, Parts
     DEF Kept, Begun, Emptied, ReadOnce, RevokedOnce, NothingReturns

-----------------------------------------------------------------------------
(* The workers                                                             *)

\* A step that reads nothing and adds no reader keeps what is said of the read.
LEMMA ReadStays ==
  ASSUME Kept, UNCHANGED <<active, reads>>, NEW w \in Workers,
         \A v \in Workers : v # w => worker'[v] = worker[v], worker'[w].phase # "read",
         execution' = execution \/ (execution' = "none" /\ ~active)
  PROVE  ReadOnce'
  BY Parts DEF ReadOnce

\* The same of the revocation.
LEMMA RevokeStays ==
  ASSUME Kept, UNCHANGED <<active, revokes>>, NEW w \in Workers,
         \A v \in Workers : v # w => worker'[v] = worker[v], worker'[w].phase # "revoke",
         rows' \subseteq rows
  PROVE  RevokedOnce'
  BY Parts DEF RevokedOnce

\* A phase of the winner takes rows away and leaves the requests alone.
LEMMA PhaseKeeps ==
  ASSUME Kept, NEW w \in Workers, Winner(w), NEW p \in Phases \ {"idle", "barrier"}, Enter(w, p),
         UNCHANGED <<active, started, completed, request, job, retention, faults>>,
         rows' \subseteq rows, connected' \in BOOLEAN,
         execution' \in {"none", "open", "marked", "settled"},
         execution = "none" => execution' = "none",
         reads' \in Nat, revokes' \in Nat, ReadOnce', RevokedOnce',
         p \in AfterRows => worker[w].phase \in AfterRows
                            \/ {"data", "content", "credential"} \cap rows' = {},
         p \in AfterCheckpoint => worker[w].phase \in AfterCheckpoint \/ "checkpoint" \notin rows',
         p \in AfterTasks => worker[w].phase \in AfterTasks,
         p = "final" => "connection" \notin rows'
  PROVE  Kept'
<1>1. /\ worker' \in [Workers -> WorkerRows] /\ worker'[w].phase = p
      /\ worker'[w].request = worker[w].request
      /\ \A v \in Workers : v # w => worker'[v] = worker[v]
  BY EnterMeans, Parts
<1>2. ~active /\ completed = 0 /\ worker[w].request \in Requests
  BY WinnerMeans
<1>3. TypeOK'
  BY <1>1, Parts DEF TypeOK, WorkerRows
<1>4. Begun' /\ WinnerStays' /\ NothingReturns'
  BY <1>2, Parts DEF Begun, WinnerStays, NothingReturns, Authority
<1>5. Emptied'
  <2>0. ASSUME NEW v \in Workers, worker'[v].phase # "idle" PROVE worker'[v].request \in Requests
    BY <1>1, <1>2, <2>0, Parts DEF Emptied
  <2> SUFFICES ASSUME NEW v \in Workers, worker'[v].phase \notin {"idle", "barrier"}
               PROVE  /\ worker'[v].phase \in AfterRows =>
                           {"data", "content", "credential"} \cap rows' = {}
                      /\ worker'[v].phase \in AfterCheckpoint => "checkpoint" \notin rows'
                      /\ worker'[v].phase \in AfterTasks => job' = "none" /\ execution' = "none"
                      /\ worker'[v].phase = "final" => "connection" \notin rows'
    BY <1>2, <2>0 DEF Emptied, AfterRows, AfterCheckpoint, AfterTasks
  <2>1. CASE v = w
    BY <1>1, <2>1, Parts DEF Emptied
  <2>2. CASE v # w
    BY <1>1, <2>2, Parts DEF Emptied
  <2> QED
    BY <2>1, <2>2
<1> QED
  BY <1>3, <1>4, <1>5 DEF Kept

LEMMA PhasesKeep ==
  ASSUME Kept, NEW w \in Workers,
         \/ Clean(w) \/ Reconciled(w) \/ NoRead(w) \/ DropRows(w) \/ DropCheckpoint(w)
         \/ DropAudits(w) \/ DropConnection(w)
  PROVE  Kept'
<1>1. PICK p \in {"reconcile", "credentials", "graph", "tasks", "parents", "final"} :
        /\ Winner(w) /\ Enter(w, p)
        /\ UNCHANGED <<active, started, completed, request, job, execution, retention, reads,
                       revokes, faults>>
        /\ rows' \subseteq rows /\ connected' \in BOOLEAN
        /\ p = "graph" => {"data", "content", "credential"} \cap rows' = {}
        /\ p = "tasks" => worker[w].phase = "graph" /\ "checkpoint" \notin rows'
        /\ p = "parents" => worker[w].phase = "audits"
        /\ p = "final" => worker[w].phase = "parents" /\ "connection" \notin rows'
  BY Parts DEF Clean, Reconciled, NoRead, DropRows, DropCheckpoint, DropAudits, DropConnection,
               In, user, outside, tables, TypeOK
<1>2. p \in Phases /\ p \notin {"idle", "barrier", "read", "revoke"}
  BY DEF Phases
<1>3. /\ worker'[w].phase = p /\ \A v \in Workers : v # w => worker'[v] = worker[v]
  BY <1>1, <1>2, EnterMeans, Parts
<1>4. ReadOnce' /\ RevokedOnce'
  BY <1>1, <1>2, <1>3, ReadStays, RevokeStays
<1>5. /\ execution' \in {"none", "open", "marked", "settled"} /\ reads' \in Nat /\ revokes' \in Nat
  BY <1>1, Parts DEF TypeOK
<1>6. /\ p \in AfterRows => \/ worker[w].phase \in AfterRows
                            \/ {"data", "content", "credential"} \cap rows' = {}
      /\ p \in AfterCheckpoint => worker[w].phase \in AfterCheckpoint \/ "checkpoint" \notin rows'
      /\ p \in AfterTasks => worker[w].phase \in AfterTasks
  BY <1>1 DEF AfterRows, AfterCheckpoint, AfterTasks
<1> QED
  BY <1>1, <1>2, <1>4, <1>5, <1>6, PhaseKeeps

LEMMA QualifyKeeps ==
  ASSUME Kept, NEW w \in Workers, Qualify(w)
  PROVE  Kept'
<1>1. /\ Winner(w) /\ Enter(w, "read") /\ execution = "open" /\ execution' = "marked"
      /\ UNCHANGED <<active, started, completed, request, rows, connected, job, retention, reads,
                     revokes, faults>>
  BY DEF Qualify, In, user, outside
<1>2. "read" \in Phases /\ "read" \notin AfterRows
  BY DEF Phases, AfterRows
<1>3. /\ worker'[w].phase = "read" /\ \A v \in Workers : v # w => worker'[v] = worker[v]
  BY <1>1, <1>2, EnterMeans, Parts
<1>4. ~active
  BY <1>1, WinnerMeans
<1>5. ReadOnce'
  <2>1. reads \in Nat /\ reads # 1 /\ reads <= 1
    BY <1>1, Parts DEF ReadOnce, TypeOK
  <2>2. \A v \in Workers : worker[v].phase # "read"
    BY <1>1, Parts DEF ReadOnce
  <2> QED
    BY <1>1, <1>3, <1>4, <2>1, <2>2 DEF ReadOnce
<1>6. RevokedOnce'
  BY <1>1, <1>3, RevokeStays
<1>7. reads' \in Nat /\ revokes' \in Nat /\ connected' \in BOOLEAN
  BY <1>1, Parts DEF TypeOK
<1> QED
  BY <1>1, <1>2, <1>5, <1>6, <1>7, PhaseKeeps DEF AfterCheckpoint, AfterTasks, AfterRows

LEMMA ReadKeeps ==
  ASSUME Kept, NEW w \in Workers, Read(w)
  PROVE  Kept'
<1>1. /\ Winner(w) /\ worker[w].phase = "read" /\ Enter(w, "reconcile") /\ reads' = reads + 1
      /\ UNCHANGED <<active, started, completed, request, rows, connected, job, execution,
                     retention, revokes, faults>>
  BY DEF Read, In, user, tables
<1>2. "reconcile" \in Phases /\ "reconcile" \notin AfterRows
  BY DEF Phases, AfterRows
<1>3. /\ worker'[w].phase = "reconcile" /\ \A v \in Workers : v # w => worker'[v] = worker[v]
  BY <1>1, <1>2, EnterMeans, Parts
<1>4. ~active
  BY <1>1, WinnerMeans
<1>5. ReadOnce'
  <2>1. /\ reads = 0 /\ execution \in {"marked", "none"}
        /\ \A v \in Workers : worker[v].phase = "read" => v = w
    BY <1>1, Parts DEF ReadOnce
  <2>2. reads' = 1
    BY <1>1, <2>1
  <2> QED
    BY <1>1, <1>3, <1>4, <2>1, <2>2 DEF ReadOnce
<1>6. RevokedOnce'
  BY <1>1, <1>3, RevokeStays
<1>7. /\ reads' \in Nat /\ revokes' \in Nat /\ connected' \in BOOLEAN
      /\ execution' \in {"none", "open", "marked", "settled"}
  BY <1>1, Parts DEF TypeOK
<1> QED
  BY <1>1, <1>2, <1>5, <1>6, <1>7, PhaseKeeps DEF AfterCheckpoint, AfterTasks, AfterRows

LEMMA DropCredentialKeeps ==
  ASSUME Kept, NEW w \in Workers, DropCredential(w)
  PROVE  Kept'
<1>1. /\ Winner(w) /\ Enter(w, "revoke") /\ "credential" \in rows /\ rows' = rows \ {"credential"}
      /\ UNCHANGED <<active, started, completed, request, connected, job, execution,
                     retention, reads, revokes, faults>>
  BY DEF DropCredential, In, user, outside
<1>2. "revoke" \in Phases /\ "revoke" \notin AfterRows
  BY DEF Phases, AfterRows
<1>3. /\ worker'[w].phase = "revoke" /\ \A v \in Workers : v # w => worker'[v] = worker[v]
  BY <1>1, <1>2, EnterMeans, Parts
<1>4. ~active
  BY <1>1, WinnerMeans
<1>5. ReadOnce'
  BY <1>1, <1>3, ReadStays
<1>6. RevokedOnce'
  <2>1. revokes \in Nat /\ revokes # 1 /\ revokes <= 1
    BY <1>1, Parts DEF RevokedOnce, TypeOK
  <2>2. \A v \in Workers : worker[v].phase # "revoke"
    BY <1>1, Parts DEF RevokedOnce
  <2> QED
    BY <1>1, <1>3, <1>4, <2>1, <2>2 DEF RevokedOnce
<1>7. /\ reads' \in Nat /\ revokes' \in Nat /\ connected' \in BOOLEAN
      /\ execution' \in {"none", "open", "marked", "settled"}
  BY <1>1, Parts DEF TypeOK
<1> QED
  BY <1>1, <1>2, <1>5, <1>6, <1>7, PhaseKeeps DEF AfterCheckpoint, AfterTasks, AfterRows

\* A worker that goes to sleep, or to the barrier, counts on nothing.
LEMMA SleepKeeps ==
  ASSUME Kept, NEW w \in Workers,
         worker' \in [Workers -> WorkerRows], worker'[w].phase \in {"idle", "barrier"},
         worker'[w].phase # "idle" => worker'[w].request \in Requests,
         \A v \in Workers : v # w => worker'[v] = worker[v],
         UNCHANGED <<active, started, completed, rows, connected, job, execution, retention,
                     reads, revokes>>,
         request' \in [Requests -> RequestRows], faults' \in 0..MaxFaults,
         \A r \in Requests : ~active /\ Authority(r) =>
           (request[r].status = "running" => request'[r].status = "running")
  PROVE  Kept'
<1>1. TypeOK'
  BY Parts DEF TypeOK, WorkerRows, RequestRows
<1>2. Begun' /\ NothingReturns'
  BY Parts DEF Begun, NothingReturns
<1>3. WinnerStays'
  BY Parts DEF WinnerStays, Authority
<1>4. Emptied'
  BY Parts DEF Emptied, AfterRows, AfterCheckpoint, AfterTasks
<1>5. ReadOnce' /\ RevokedOnce'
  BY Parts, ReadStays, RevokeStays
<1> QED
  BY <1>1, <1>2, <1>3, <1>4, <1>5 DEF Kept

\* A run that ends takes its request with it, unless that is the winner.
LEMMA EndKeeps ==
  ASSUME Kept, NEW w \in Workers, worker[w].phase # "idle", End(w), faults' \in 0..MaxFaults
  PROVE  Kept'
<1> DEFINE q == worker[w].request
           row == [request[q] EXCEPT !.status = "over", !.owner = None]
<1>1. /\ UNCHANGED <<active, started, completed, rows, connected, job, execution, retention,
                     reads, revokes>>
      /\ worker' = [worker EXCEPT ![w] = Asleep]
      /\ request' = [request EXCEPT ![q] = IF Bound(w) /\ ~Protected(q) THEN row ELSE @]
  BY DEF End, user, tables, outside
<1>2. /\ worker' \in [Workers -> WorkerRows] /\ worker'[w].phase = "idle"
      /\ \A v \in Workers : v # w => worker'[v] = worker[v]
  BY <1>1, SleepMeans, Parts
<1>3. request \in [Requests -> RequestRows] /\ q \in Requests \cup {None}
  BY Parts DEF TypeOK, RequestRows
<1>4. None \notin Requests
  BY ConstantsAssumption DEF Requests
<1>5. CASE q = None
  <2>1. request' = request
    BY <1>1, <1>3, <1>4, <1>5
  <2> QED
    BY <1>1, <1>2, <1>3, <2>1, SleepKeeps
<1>6. CASE q \in Requests
  <2>1. row \in RequestRows
    BY <1>3, <1>6 DEF RequestRows
  <2> HIDE DEF row
  <2>2. request' \in [Requests -> RequestRows]
    BY <1>1, <1>3, <1>6, <2>1
  <2>3. \A r \in Requests : ~active /\ Authority(r) => request'[r] = request[r]
    BY <1>1, <1>3, <1>6 DEF Protected
  <2> QED
    BY <1>1, <1>2, <2>2, <2>3, SleepKeeps
<1> QED
  BY <1>3, <1>5, <1>6

LEMMA FaultMeans ==
  ASSUME TypeOK, Fault
  PROVE  faults' \in 0..MaxFaults
  BY ConstantsAssumption DEF TypeOK, Fault

LEMMA OutOfWorkKeeps ==
  ASSUME Kept, NEW w \in Workers, Refused(w) \/ Fail(w) \/ Crash(w)
  PROVE  Kept'
<1>1. CASE Refused(w)
  <2>1. faults' \in 0..MaxFaults
    BY <1>1, Parts DEF Refused, TypeOK
  <2> QED
    BY <1>1, <2>1, EndKeeps DEF Refused
<1>2. CASE Fail(w)
  BY <1>2, Parts, FaultMeans, EndKeeps DEF Fail
<1>3. CASE Crash(w)
  <2>1. /\ worker' \in [Workers -> WorkerRows] /\ worker'[w].phase = "idle"
        /\ \A v \in Workers : v # w => worker'[v] = worker[v]
    BY <1>3, SleepMeans, Parts DEF Crash
  <2>2. faults' \in 0..MaxFaults
    BY <1>3, Parts, FaultMeans DEF Crash
  <2>3. UNCHANGED <<active, started, completed, request, rows, connected, job, execution,
                    retention, reads, revokes>>
    BY <1>3 DEF Crash, user, tables, outside
  <2>4. request' \in [Requests -> RequestRows]
    BY <2>3, Parts DEF TypeOK, RequestRows
  <2> QED
    BY <2>1, <2>2, <2>3, <2>4, SleepKeeps
<1> QED
  BY <1>1, <1>2, <1>3

LEMMA AcquireKeeps ==
  ASSUME Kept, NEW w \in Workers, NEW r \in Requests, Acquire(w, r)
  PROVE  Kept'
<1> DEFINE row == [phase |-> "barrier", request |-> r, normal |-> active]
           taken == [status |-> "running", owner |-> w, message |-> FALSE]
<1>1. /\ worker' = [worker EXCEPT ![w] = row] /\ request' = [request EXCEPT ![r] = taken]
      /\ UNCHANGED <<active, started, completed, rows, connected, job, execution, retention,
                     reads, revokes, faults>>
  BY DEF Acquire, user, tables, outside
<1>2. row \in WorkerRows /\ row.phase = "barrier" /\ row.request = r
  BY Parts DEF WorkerRows, Phases, TypeOK
<1>3. taken \in RequestRows /\ taken.status = "running"
  BY DEF RequestRows
<1> HIDE DEF row, taken
<1>4. /\ worker' \in [Workers -> WorkerRows] /\ worker'[w].phase = "barrier"
      /\ worker'[w].request = r
      /\ \A v \in Workers : v # w => worker'[v] = worker[v]
  BY <1>1, <1>2, Exchanged, Parts
<1>5. /\ request' \in [Requests -> RequestRows]
      /\ \A q \in Requests : request[q].status = "running" => request'[q].status = "running"
  BY <1>1, <1>3, Parts DEF TypeOK, RequestRows
<1>6. faults' \in 0..MaxFaults
  BY <1>1, Parts DEF TypeOK
<1> QED
  BY <1>1, <1>4, <1>5, <1>6, SleepKeeps

\* The revocation, which asks for no lease.
LEMMA RevokeKeeps ==
  ASSUME Kept, NEW w \in Workers, Revoke(w)
  PROVE  Kept'
<1>1. /\ worker[w].phase = "revoke" /\ Enter(w, "credentials") /\ revokes' \in {revokes, revokes + 1}
      /\ UNCHANGED <<active, started, completed, request, rows, connected, job, execution,
                     retention, reads, faults>>
  BY DEF Revoke, user, tables
<1>2. /\ worker' \in [Workers -> WorkerRows] /\ worker'[w].phase = "credentials"
      /\ worker'[w].request = worker[w].request
      /\ \A v \in Workers : v # w => worker'[v] = worker[v]
  BY <1>1, EnterMeans, Parts DEF Phases
<1>3. ~active
  BY <1>1, Parts DEF Emptied
<1>4. TypeOK'
  BY <1>1, <1>2, Parts DEF TypeOK, WorkerRows
<1>5. Begun' /\ NothingReturns' /\ WinnerStays'
  BY <1>1, Parts DEF Begun, NothingReturns, WinnerStays, Authority
<1>6. Emptied'
  BY <1>1, <1>2, <1>3, Parts DEF Emptied, AfterRows, AfterCheckpoint, AfterTasks
<1>7. ReadOnce'
  BY <1>1, <1>2, ReadStays
<1>8. RevokedOnce'
  <2>1. /\ revokes = 0 /\ "credential" \notin rows
        /\ \A v \in Workers : worker[v].phase = "revoke" => v = w
    BY <1>1, Parts DEF RevokedOnce
  <2>2. revokes' \in {0, 1}
    BY <1>1, <2>1
  <2> QED
    BY <1>1, <1>2, <1>3, <2>1, <2>2 DEF RevokedOnce
<1> QED
  BY <1>4, <1>5, <1>6, <1>7, <1>8 DEF Kept

\* The first of the requests makes the user inactive.
LEMMA PassBarrierKeeps ==
  ASSUME Kept, NEW w \in Workers, PassBarrier(w)
  PROVE  Kept'
<1> DEFINE q == worker[w].request
           row == [worker[w] EXCEPT !.phase = "clean", !.normal = FALSE]
<1>1. /\ worker[w].phase = "barrier" /\ MayPass(w)
      /\ active' = FALSE /\ started' = {q} \cup started
      /\ worker' = [worker EXCEPT ![w].phase = "clean", ![w].normal = FALSE]
      /\ UNCHANGED <<completed, request, rows, connected, job, execution, retention, reads,
                     revokes, faults>>
  BY DEF PassBarrier, tables, outside
<1>2. request[q].status = "running" /\ q \in Requests
  BY <1>1, Parts DEF MayPass, Bound, Emptied
<1>3. started' = {q}
  BY <1>1 DEF MayPass, Prior, Authority
<1>4. completed = 0
  <2>1. completed \in Nat /\ (active => completed = 0) /\ (completed > 0 => started = {})
    BY Parts DEF Begun, TypeOK
  <2>2. ~active => started = {q}
    BY <1>1 DEF MayPass, Authority
  <2> QED
    BY <2>1, <2>2
<1>5. /\ row \in WorkerRows /\ row.phase = "clean" /\ row.request = q
      /\ worker' = [worker EXCEPT ![w] = row]
  BY <1>1, Parts DEF TypeOK, WorkerRows, Phases
<1> HIDE DEF row
<1>6. /\ worker' \in [Workers -> WorkerRows] /\ worker'[w].phase = "clean"
      /\ worker'[w].request = q /\ \A v \in Workers : v # w => worker'[v] = worker[v]
  BY <1>5, Exchanged, Parts
<1> HIDE DEF q
<1>7. TypeOK'
  BY <1>1, <1>2, <1>3, <1>6, Parts DEF TypeOK, WorkerRows
<1>8. Begun' /\ NothingReturns'
  BY <1>1, <1>4 DEF Begun, NothingReturns
<1>9. WinnerStays'
  BY <1>1, <1>2, <1>3 DEF WinnerStays, Authority
<1>10. Emptied'
  BY <1>1, <1>2, <1>6, Parts DEF Emptied, AfterRows, AfterCheckpoint, AfterTasks
<1>11. ReadOnce'
  BY <1>1, <1>6, Parts DEF ReadOnce
<1>12. RevokedOnce'
  BY <1>1, <1>6, Parts DEF RevokedOnce
<1> QED
  BY <1>7, <1>8, <1>9, <1>10, <1>11, <1>12 DEF Kept

LEMMA DropTasksKeeps ==
  ASSUME Kept, NEW w \in Workers, DropTasks(w)
  PROVE  Kept'
<1> DEFINE q == worker[w].request
           row(r) == [request[r] EXCEPT !.status = IF @ = "none" THEN @ ELSE "over", !.owner = None]
<1>1. /\ worker[w].phase = "tasks" /\ Winner(w) /\ Enter(w, "audits")
      /\ job' = "none" /\ execution' = "none"
      /\ request' = [r \in Requests |-> IF r = q THEN request[r] ELSE row(r)]
      /\ UNCHANGED <<active, started, completed, rows, connected, retention, reads, revokes, faults>>
  BY DEF DropTasks, In, user, outside
<1>2. /\ worker' \in [Workers -> WorkerRows] /\ worker'[w].phase = "audits"
      /\ worker'[w].request = worker[w].request
      /\ \A v \in Workers : v # w => worker'[v] = worker[v]
  BY <1>1, EnterMeans, Parts DEF Phases
<1>3. /\ ~active /\ completed = 0 /\ q \in Requests
      /\ started = {q} /\ request[q].status = "running"
  BY <1>1, WinnerMeans
<1>4. ASSUME NEW r \in Requests PROVE row(r) \in RequestRows
  <2>1. request[r] \in RequestRows
    BY Parts DEF TypeOK, RequestRows
  <2>2. PICK s \in {"none", "over"} : row(r) = [request[r] EXCEPT !.status = s, !.owner = None]
    BY <2>1 DEF RequestRows
  <2> QED
    BY <2>1, <2>2 DEF RequestRows
<1> HIDE DEF row
<1>5. request' \in [Requests -> RequestRows] /\ request'[q].status = "running"
  BY <1>1, <1>3, <1>4, Parts DEF TypeOK, RequestRows
<1> HIDE DEF q
<1>6. TypeOK'
  BY <1>1, <1>2, <1>5, Parts DEF TypeOK, WorkerRows, RequestRows
<1>7. Begun' /\ NothingReturns'
  BY <1>1, <1>3, Parts DEF Begun, NothingReturns
<1>8. WinnerStays'
  BY <1>1, <1>3, <1>5 DEF WinnerStays, Authority
<1>9. Emptied'
  BY <1>1, <1>2, <1>3, Parts DEF Emptied, AfterRows, AfterCheckpoint, AfterTasks
<1>10. ReadOnce' /\ RevokedOnce'
  BY <1>1, <1>2, <1>3, ReadStays, RevokeStays
<1> QED
  BY <1>6, <1>7, <1>8, <1>9, <1>10 DEF Kept

\* The last transaction finds only audits left.
LEMMA FinalizeKeeps ==
  ASSUME Kept, NEW w \in Workers, Finalize(w)
  PROVE  Kept'
<1> DEFINE q == worker[w].request
           row == [request[q] EXCEPT !.status = "over", !.owner = None]
<1>1. /\ worker[w].phase = "final" /\ Winner(w)
      /\ rows' = rows \ {"audit"} /\ started' = {} /\ completed' = completed + 1
      /\ request' = [request EXCEPT ![q] = [@ EXCEPT !.status = "over", !.owner = None]]
      /\ worker' = [worker EXCEPT ![w] = Asleep]
      /\ UNCHANGED <<active, connected, job, execution, retention, reads, revokes, faults>>
  BY DEF Finalize, In, outside
<1>2. /\ worker' \in [Workers -> WorkerRows] /\ worker'[w].phase = "idle"
      /\ \A v \in Workers : v # w => worker'[v] = worker[v]
  BY <1>1, SleepMeans, Parts
<1>3. ~active /\ completed = 0 /\ q \in Requests
  BY <1>1, WinnerMeans
<1>4. row \in RequestRows /\ request' = [request EXCEPT ![q] = row]
  <2>1. request \in [Requests -> RequestRows]
    BY Parts DEF TypeOK, RequestRows
  <2>2. request[q] \in RequestRows
    BY <1>3, <2>1
  <2>3. row \in RequestRows
    BY <2>2 DEF RequestRows
  <2> QED
    BY <1>1, <2>1, <2>3
<1> HIDE DEF row
<1>5. request' \in [Requests -> RequestRows]
  BY <1>3, <1>4, Parts DEF TypeOK, RequestRows
<1>6. rows' = {} /\ job' = "none" /\ execution' = "none"
  <2>1. /\ {"data", "content", "credential"} \cap rows = {} /\ "checkpoint" \notin rows
        /\ "connection" \notin rows /\ job = "none" /\ execution = "none"
    BY <1>1, Parts DEF Emptied, AfterRows, AfterCheckpoint, AfterTasks
  <2> QED
    BY <1>1, <2>1, Parts DEF TypeOK, RowKinds
<1>7. TypeOK'
  BY <1>1, <1>2, <1>3, <1>5, <1>6, Parts DEF TypeOK, WorkerRows, RequestRows
<1>8. Begun' /\ NothingReturns' /\ WinnerStays'
  BY <1>1, <1>3, <1>6 DEF Begun, NothingReturns, WinnerStays
<1>9. Emptied'
  BY <1>1, <1>2, <1>3, <1>6, Parts DEF Emptied
<1>10. ReadOnce' /\ RevokedOnce'
  BY <1>1, <1>2, ReadStays, RevokeStays
<1> QED
  BY <1>7, <1>8, <1>9, <1>10 DEF Kept

-----------------------------------------------------------------------------
(* All steps together                                                      *)

LEMMA NextKept == Kept /\ [Next]_vars => Kept'
<1> SUFFICES ASSUME Kept, [Next]_vars PROVE Kept'
  OBVIOUS
<1>1. CASE Use \/ Retain
  BY <1>1, UseKeeps
<1>2. ASSUME NEW r \in Requests,
             Ask(r) \/ Expire(r) \/ Lose(r) \/ Recover(r) \/ Ignore(r) \/ Cancel(r)
      PROVE  Kept'
  BY <1>2, RequestKeeps
<1>3. ASSUME NEW w \in Workers, Phase(w) PROVE Kept'
  <2>1. CASE PassBarrier(w) \/ Refused(w) \/ Revoke(w)
    BY <2>1, PassBarrierKeeps, OutOfWorkKeeps, RevokeKeeps
  <2>2. CASE Clean(w) \/ Reconciled(w) \/ NoRead(w) \/ DropRows(w) \/ DropCheckpoint(w)
             \/ DropAudits(w) \/ DropConnection(w)
    BY <2>2, PhasesKeep
  <2>3. CASE Qualify(w) \/ Read(w) \/ DropCredential(w) \/ DropTasks(w) \/ Finalize(w)
    BY <2>3, QualifyKeeps, ReadKeeps, DropCredentialKeeps, DropTasksKeeps, FinalizeKeeps
  <2> QED
    BY <1>3, <2>1, <2>2, <2>3 DEF Phase
<1>4. ASSUME NEW w \in Workers, Fail(w) \/ Crash(w) PROVE Kept'
  BY <1>4, OutOfWorkKeeps
<1>5. ASSUME NEW w \in Workers, NEW r \in Requests, Acquire(w, r) PROVE Kept'
  BY <1>5, AcquireKeeps
<1>6. CASE UNCHANGED vars
  BY <1>6 DEF vars, user, tables, outside, Kept, TypeOK, Begun, Emptied, ReadOnce, RevokedOnce,
              NothingReturns, WinnerStays, Authority
<1> QED
  BY <1>1, <1>2, <1>3, <1>4, <1>5, <1>6 DEF Next

LEMMA Invariance == Spec => []Kept
<1>1. Init => Kept
  BY InitKept
<1> QED
  BY <1>1, NextKept, PTL DEF Spec

-----------------------------------------------------------------------------
(* The theorems                                                            *)

\* Users, requests, workers, rows and counts are of their types.
THEOREM TypeCorrect == Spec => []TypeOK
<1>1. Kept => TypeOK
  BY Parts
<1> QED
  BY <1>1, Invariance, PTL

\* From the completion of the deletion on nothing of the user is there or comes back,
\* however late a worker, a callback or a checkpoint is.
THEOREM NothingReturnsHolds == Spec => []NothingReturns
<1>1. Kept => NothingReturns
  BY Parts
<1> QED
  BY <1>1, Invariance, PTL

\* The request that has made the user inactive can be taken up again until the last
\* transaction: it is running, and the only started fact is its own.
THEOREM WinnerStaysHolds == Spec => []WinnerStays
<1>1. Kept => WinnerStays
  BY Parts
<1> QED
  BY <1>1, Invariance, PTL

\* The provider is asked for an action's result once at most, and told to revoke a
\* token once at most and after the token is gone here.
THEOREM OutsideOnceHolds == Spec => []OutsideOnce
<1>1. Kept => OutsideOnce
  BY Parts DEF ReadOnce, RevokedOnce, OutsideOnce
<1> QED
  BY <1>1, Invariance, PTL

-----------------------------------------------------------------------------
(* The refinement                                                          *)

\* What is left, member by member, before and after a step.
LEMMA LeftMeans ==
  /\ "job" \in Left <=> ("job" \in rows \/ job # "none")
  /\ "execution" \in Left <=> ("execution" \in rows \/ execution # "none")
  /\ \A x : x \notin {"job", "execution"} => (x \in Left <=> x \in rows)
  BY DEF Left

LEMMA LeftMeansNext ==
  /\ "job" \in Left' <=> ("job" \in rows' \/ job' # "none")
  /\ "execution" \in Left' <=> ("execution" \in rows' \/ execution' # "none")
  /\ \A x : x \notin {"job", "execution"} => (x \in Left' <=> x \in rows')
  BY DEF Left

\* A step that writes nothing of the user is none.
LEMMA NothingHappens ==
  ASSUME UNCHANGED <<active, completed, rows, job, execution, reads, revokes>>
  PROVE  UNCHANGED Deletion!vars
  BY DEF Deletion!vars, Stage, Left

\* A step that only takes away is a Dwindle.
LEMMA TakesAway ==
  ASSUME UNCHANGED <<active, completed, reads, revokes>>, ~active, completed = 0,
         rows' \subseteq rows, job = "none" => job' = "none",
         execution = "none" => execution' = "none"
  PROVE  Deletion!Next
<1>1. Left' \subseteq Left
  BY LeftMeans, LeftMeansNext
<1>2. Stage = "going" /\ Stage' = Stage
  BY DEF Stage
<1> QED
  BY <1>1, <1>2 DEF Deletion!Next, Deletion!Dwindle

LEMMA InitMaps == Init => Deletion!Init
<1> SUFFICES ASSUME Init PROVE Deletion!Init
  OBVIOUS
<1>1. Stage = "used"
  BY DEF Init, Stage
<1>2. Left \subseteq RowKinds \cup {"job", "execution"}
  BY DEF Init, Left, RowKinds
<1> QED
  BY <1>1, <1>2 DEF Init, Deletion!Init

\* The user and the retention: as they like before the deletion, never against it.
LEMMA UseMaps ==
  ASSUME Kept, Use \/ Retain
  PROVE  Deletion!Next \/ UNCHANGED Deletion!vars
<1>1. /\ UNCHANGED <<active, completed, reads, revokes>> /\ rows' \subseteq RowKinds
      /\ ~active => /\ rows' \subseteq rows \cup {"audit"}
                    /\ job = "none" => job' = "none"
                    /\ job = "none" /\ "connection" \notin rows => rows' \subseteq rows
                    /\ execution = "none" => execution' = "none"
  BY UseMeans, Parts
<1>2. Stage' = Stage
  BY <1>1 DEF Stage
<1>3. CASE active
  <2>1. Left' \subseteq RowKinds \cup {"job", "execution"}
    BY <1>1, LeftMeansNext
  <2>2. Stage = "used"
    BY <1>3 DEF Stage
  <2> QED
    BY <1>1, <1>2, <2>1, <2>2 DEF Deletion!Next, Deletion!Use
<1>4. CASE ~active /\ completed = 0
  <2>1. Deletion!Witnesses = {} => job = "none" /\ "connection" \notin rows
    BY LeftMeans DEF Deletion!Witnesses
  <2>2. Left' \subseteq Left \cup (IF Deletion!Witnesses = {} THEN {} ELSE {"audit"})
    BY <1>1, <1>4, <2>1, LeftMeans, LeftMeansNext
  <2>3. Stage = "going"
    BY <1>4 DEF Stage
  <2> QED
    BY <1>1, <1>2, <2>2, <2>3 DEF Deletion!Next, Deletion!Dwindle
<1>5. CASE ~active /\ completed # 0
  <2>1. rows = {} /\ job = "none" /\ execution = "none"
    BY <1>5, Parts DEF NothingReturns, TypeOK
  <2> QED
    BY <1>1, <1>5, <2>1, NothingHappens
<1> QED
  BY <1>3, <1>4, <1>5

\* The barrier is the beginning; whoever comes again finds it there.
LEMMA BarrierMaps ==
  ASSUME Kept, NEW w \in Workers, PassBarrier(w)
  PROVE  Deletion!Next \/ UNCHANGED Deletion!vars
<1>1. active' = FALSE /\ UNCHANGED <<completed, rows, job, execution, reads, revokes>>
  BY DEF PassBarrier, tables, outside
<1>2. CASE active
  <2>1. Stage = "used" /\ Stage' = "going"
    BY <1>1, <1>2, Parts DEF Stage, Begun
  <2> QED
    BY <1>1, <2>1 DEF Deletion!Next, Deletion!Begin, Left
<1>3. CASE ~active
  <2>1. active' = active
    BY <1>1, <1>3, Parts DEF TypeOK
  <2> QED
    BY <1>1, <2>1, NothingHappens
<1> QED
  BY <1>2, <1>3

\* A phase of the winner that takes away, or only goes on.
LEMMA PhaseMaps ==
  ASSUME Kept, NEW w \in Workers,
         Clean(w) \/ Qualify(w) \/ NoRead(w) \/ Reconciled(w) \/ DropCredential(w)
           \/ DropRows(w) \/ DropCheckpoint(w) \/ DropTasks(w) \/ DropAudits(w)
           \/ DropConnection(w)
  PROVE  Deletion!Next
<1>1. Winner(w)
  BY DEF Clean, Qualify, NoRead, Reconciled, DropCredential, DropRows, DropCheckpoint, DropTasks,
         DropAudits, DropConnection, In
<1>2. ~active /\ completed = 0
  BY <1>1, WinnerMeans
<1>3. UNCHANGED <<active, completed, reads, revokes>> /\ rows' \subseteq rows
  BY DEF Clean, Qualify, NoRead, Reconciled, DropCredential, DropRows, DropCheckpoint, DropTasks,
         DropAudits, DropConnection, user, tables, outside
<1>4. (job = "none" => job' = "none") /\ (execution = "none" => execution' = "none")
  BY DEF Clean, Qualify, NoRead, Reconciled, DropCredential, DropRows, DropCheckpoint, DropTasks,
         DropAudits, DropConnection, tables
<1> QED
  BY <1>2, <1>3, <1>4, TakesAway

\* The one read, of an action that is there, with a token that is there.
LEMMA ReadMaps ==
  ASSUME Kept, NEW w \in Workers, Read(w)
  PROVE  Deletion!Next
<1>1. /\ Winner(w) /\ worker[w].phase = "read" /\ execution = "marked" /\ "credential" \in rows
      /\ reads' = reads + 1 /\ UNCHANGED <<active, completed, rows, job, execution, revokes>>
  BY DEF Read, In, Marked, user, tables
<1>2. ~active /\ completed = 0
  BY <1>1, WinnerMeans
<1>3. reads = 0
  BY <1>1, Parts DEF ReadOnce
<1>4. Stage = "going" /\ Stage' = Stage /\ Left' = Left
  BY <1>1, <1>2 DEF Stage, Left
<1>5. {"execution", "credential"} \subseteq Left
  BY <1>1, LeftMeans
<1> QED
  BY <1>1, <1>3, <1>4, <1>5 DEF Deletion!Next, Deletion!Ask

\* The one revocation, also of a worker whose lease is gone, when no token is left.
LEMMA RevokeMaps ==
  ASSUME Kept, NEW w \in Workers, Revoke(w)
  PROVE  Deletion!Next \/ UNCHANGED Deletion!vars
<1>1. /\ worker[w].phase = "revoke" /\ revokes' \in {revokes, revokes + 1}
      /\ UNCHANGED <<active, completed, rows, job, execution, reads>>
  BY DEF Revoke, user, tables
<1>2. revokes = 0 /\ "credential" \notin rows
  BY <1>1, Parts DEF RevokedOnce
<1>3. ~active
  BY <1>1, Parts DEF Emptied
<1>4. Stage # "used" /\ Stage' = Stage /\ Left' = Left
  BY <1>1, <1>3 DEF Stage, Left
<1>5. "credential" \notin Left
  BY <1>2, LeftMeans
<1>6. revokes' = 0 \/ revokes' = 1
  BY <1>1, <1>2
<1>7. CASE revokes' = 0
  BY <1>1, <1>2, <1>7, NothingHappens
<1>8. CASE revokes' = 1
  BY <1>1, <1>2, <1>4, <1>5, <1>8 DEF Deletion!Next, Deletion!Tell
<1> QED
  BY <1>6, <1>7, <1>8

\* The last transaction takes the audits with it; everything else is gone before.
LEMMA FinalizeMaps ==
  ASSUME Kept, NEW w \in Workers, Finalize(w)
  PROVE  Deletion!Next
<1>1. /\ Winner(w) /\ worker[w].phase = "final" /\ "connection" \notin rows
      /\ rows' = rows \ {"audit"} /\ completed' = completed + 1
      /\ UNCHANGED <<active, job, execution, reads, revokes>>
  BY DEF Finalize, In, outside
<1>2. ~active /\ completed = 0
  BY <1>1, WinnerMeans
<1>3. /\ {"data", "content", "credential"} \cap rows = {} /\ "checkpoint" \notin rows
      /\ job = "none" /\ execution = "none" /\ rows \subseteq RowKinds
  BY <1>1, Parts DEF Emptied, AfterRows, AfterCheckpoint, AfterTasks, TypeOK
<1>4. rows \subseteq {"audit"}
  BY <1>1, <1>3 DEF RowKinds
<1>5. Left \subseteq {"audit"} /\ Left' = {}
  BY <1>1, <1>3, <1>4 DEF Left
<1>6. Stage = "going" /\ Stage' = "gone"
  BY <1>1, <1>2 DEF Stage
<1> QED
  BY <1>1, <1>5, <1>6 DEF Deletion!Next, Deletion!Finish

\* Who fails, is refused or dies writes nothing of the user.
LEMMA OutOfWorkMaps ==
  ASSUME NEW w \in Workers, Refused(w) \/ Fail(w) \/ Crash(w)
  PROVE  UNCHANGED Deletion!vars
<1>1. UNCHANGED <<active, completed, rows, job, execution, reads, revokes>>
  BY DEF Refused, Fail, Crash, End, user, tables, outside
<1> QED
  BY <1>1, NothingHappens

LEMMA NextMaps == Kept /\ [Next]_vars => [Deletion!Next]_(Deletion!vars)
<1> SUFFICES ASSUME Kept, [Next]_vars PROVE Deletion!Next \/ UNCHANGED Deletion!vars
  OBVIOUS
<1>1. CASE Use \/ Retain
  BY <1>1, UseMaps
<1>2. ASSUME NEW r \in Requests,
             Ask(r) \/ Expire(r) \/ Lose(r) \/ Recover(r) \/ Ignore(r) \/ Cancel(r)
      PROVE  UNCHANGED Deletion!vars
  <2>1. UNCHANGED <<user, tables, worker, retention, outside>>
    BY <1>2, RequestMeans, Parts
  <2> QED
    BY <2>1, NothingHappens DEF user, tables, outside
<1>3. ASSUME NEW w \in Workers, Phase(w)
      PROVE  Deletion!Next \/ UNCHANGED Deletion!vars
  BY <1>3, BarrierMaps, PhaseMaps, ReadMaps, RevokeMaps, FinalizeMaps, OutOfWorkMaps DEF Phase
<1>4. ASSUME NEW w \in Workers, Fail(w) \/ Crash(w) PROVE UNCHANGED Deletion!vars
  BY <1>4, OutOfWorkMaps
<1>5. ASSUME NEW w \in Workers, NEW r \in Requests, Acquire(w, r)
      PROVE  UNCHANGED Deletion!vars
  <2>1. UNCHANGED <<user, tables, outside>>
    BY <1>5 DEF Acquire
  <2> QED
    BY <2>1, NothingHappens DEF user, tables, outside
<1>6. CASE UNCHANGED vars
  BY <1>6, NothingHappens DEF vars, user, tables, outside
<1> QED
  BY <1>1, <1>2, <1>3, <1>4, <1>5, <1>6 DEF Next

\* However often the deletion is interrupted and taken up again, and whoever else is still
\* at work, it implements a deletion that begins once, only takes away from then on, asks
\* and tells the provider once at most, and ends with nothing.
THEOREM Refinement == Spec => ImplementsSafeDeletion
<1>1. Kept /\ [Next]_vars => [Deletion!Next]_(Deletion!vars)
  BY NextMaps
<1> QED
  BY <1>1, InitMaps, Invariance, PTL DEF Spec, ImplementsSafeDeletion, Deletion!Spec
=============================================================================
