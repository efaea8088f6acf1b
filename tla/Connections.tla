----------------------------- MODULE Connections -----------------------------
(***************************************************************************)
(* One account of one user at a provider: its connection row, its          *)
(* capabilities, its two encrypted tokens, the audit events that fence     *)
(* every refresh grant, and the OAuth attempts by which the user connects, *)
(* extends or recovers it.                                                 *)
(*                                                                         *)
(* Background workers refresh the tokens; browser callbacks replace them;  *)
(* the user disconnects.  All of them exchange something with the provider *)
(* outside any transaction, and the process, the reply or the advisory     *)
(* lease may be lost in between.  A provider that rotates a refresh token  *)
(* stops accepting the old one at once, so a grant whose reply is lost     *)
(* leaves a dead token in the database: the "started" event, committed     *)
(* before the grant, is the fence that keeps everyone from using it again. *)
(*                                                                         *)
(* A token is the number under which the provider minted it, 0 being none; *)
(* the access row is the number of the write that stored it.  A scope is   *)
(* named after the capability that needs it.                               *)
(***************************************************************************)
EXTENDS Integers, FiniteSets

CONSTANTS
  Workers,      \* runs of background tasks that may find the token rejected
  Writers,      \* those of them that refresh for a trusted write
  Attempts,     \* OAuth attempts the user may start
  Capabilities, \* ConnectionCapability
  Reads,        \* the read capabilities
  Needs,        \* CAPABILITY_DEPENDENCIES
  Uses,         \* the capability that a worker's run works with
  Nobody,       \* the refresh lease is free
  MaxGrants,    \* bound: refresh fences
  MaxGeneration \* bound: how often the user changes the authorisation

ASSUME ConstantsAssumption ==
  /\ Writers \subseteq Workers /\ Reads \subseteq Capabilities
  /\ Workers \cap Attempts = {} /\ Nobody \notin Workers \cup Attempts
  /\ Needs \in [Capabilities -> SUBSET Capabilities]
  /\ Uses \in [Workers -> Capabilities]
  /\ MaxGrants \in Nat /\ MaxGeneration \in Nat

VARIABLES
  active,     \* UserModel.is_active
  status,     \* OAuthConnectionModel.status, "absent" before the first insert
  generation, \* authorization_generation
  scopes,     \* OAuthConnectionModel.scopes
  cap,        \* ConnectionCapabilityModel.status
  actual,     \* actual_scopes; not empty exactly when last_verified_at is set
  access,     \* the access token row
  refresh,    \* the refresh token row
  stored,     \* credential writes so far
  fences,     \* refresh attempts, by the order of their started events
  attempt,    \* OAuth attempts and the callbacks they are in
  worker,     \* what a background run is doing
  lease,      \* who holds the session advisory lock of the connection
  minted,     \* refresh tokens the provider has issued
  spent,      \* those it has rotated away
  drops       \* history: disconnections so far

connectionVars == <<active, status, generation, scopes, drops>>
capabilityVars == <<cap, actual>>
tokenVars == <<access, refresh, stored>>
providerVars == <<minted, spent>>
vars == <<connectionVars, capabilityVars, tokenVars, fences, attempt, worker,
          lease, providerVars>>

-----------------------------------------------------------------------------
Statuses == {"absent", "connected", "degraded", "disconnected"}
CapabilityStatuses == {"disabled", "authorizing", "enabled",
                       "action_required", "revoked"}
FenceStates == {"none", "open", "confirmed", "replaced", "cleaned"}
RecoveryStates == {"none", "open", "unsatisfied", "replaced", "cleaned"}
WorkerPCs == {"idle", "read", "fresh", "leased", "granting", "sent"}
CallbackPCs == {"none", "offered", "exchanging", "granted", "failing",
                "recovering", "leased", "frozen", "replacing", "refusing",
                "denied", "done"}

Fences == 1..MaxGrants
NoFence == [state |-> "none", by |-> Nobody, gen |-> 0, old |-> 0, access |-> 0,
            scopes |-> {}, sent |-> FALSE, reply |-> 0]
NoAttempt == [pc |-> "none", bound |-> FALSE, gen |-> 0, caps |-> {}, fence |-> 0,
              recovery |-> "none", invalid |-> FALSE, granted |-> {}, token |-> 0,
              access |-> 0, era |-> 0]
NoRun == [pc |-> "idle", seen |-> 0, fence |-> 0]

Init ==
  /\ active = TRUE /\ status = "absent" /\ generation = 0 /\ scopes = {}
  /\ cap = [c \in Capabilities |-> "disabled"]
  /\ actual = [c \in Capabilities |-> {}]
  /\ access = 0 /\ refresh = 0 /\ stored = 0
  /\ fences = [f \in Fences |-> NoFence]
  /\ attempt = [a \in Attempts |-> NoAttempt]
  /\ worker = [w \in Workers |-> NoRun]
  /\ lease = Nobody /\ minted = 0 /\ spent = {} /\ drops = 0

-----------------------------------------------------------------------------
(* What the transactions read and write.                                   *)

Connected == status = "connected"
Enabled == {c \in Capabilities : cap[c] = "enabled"}
Closure(c) == {c} \cup Needs[c]
ClosedSet(cs) == \A c \in cs : Needs[c] \subseteq cs

\* _unresolved_fences: only a confirmed or a replaced result closes a fence.
Closed == {"confirmed", "replaced"}
Open(f) == f \in Fences /\ fences[f].state = "open"
Unfenced == \A f \in Fences : ~Open(f)
History == \E f \in Fences : fences[f].state \notin {"none", "cleaned"}

\* load_refresh_snapshot, and what it adds for an automatic refresh.
Complete == active /\ Connected /\ scopes # {} /\ access # 0 /\ refresh # 0
Refreshable(c) == Complete /\ cap[c] = "enabled" /\ actual[c] \subseteq scopes

\* Variant: the history of refresh events is not looked at.
ReadableAnyway(c) == Refreshable(c)

\* read_current, whose history check refuses an open fence.
Readable(c) == Refreshable(c) /\ Unfenced

\* Variant: a refresh token that is there already is kept.
StoreFirstToken(token) ==
  /\ stored' = stored + 1 /\ access' = stored + 1
  /\ refresh' = IF refresh = 0 THEN token ELSE refresh

\* _write_credentials: without a refresh token the old one stays.
Store(token) ==
  /\ stored' = stored + 1 /\ access' = stored + 1
  /\ refresh' = IF token = 0 THEN refresh ELSE token

\* _save_actual_capabilities.
Grant(requested, granted) ==
  /\ cap' = [c \in Capabilities |->
       IF c \notin requested THEN cap[c]
       ELSE IF Closure(c) \subseteq granted THEN "enabled" ELSE "action_required"]
  /\ actual' = [c \in Capabilities |->
       IF c \in requested THEN granted ELSE actual[c]]

\* save_connection_tokens, of the callbacks that are no recovery.
SaveTokens(token) == active /\ Unfenced /\ Store(token)

\* Variant: the generation is not compared.
CurrentConnection(a) == active /\ Connected

\* mark_progressive_authorization_failed: a late callback changes nothing.
Current(a) == active /\ Connected /\ generation = attempt[a].gen
Converge(a) ==
  /\ cap' = [c \in Capabilities |->
       IF Current(a) /\ c \in attempt[a].caps /\ cap[c] = "authorizing"
       THEN "action_required" ELSE cap[c]]
  /\ UNCHANGED actual

Goto(w, pc) == worker' = [worker EXCEPT ![w].pc = pc]
Step(a, pc) == attempt' = [attempt EXCEPT ![a].pc = pc]
\* A consumed attempt whose callback is over is only read as recovery history.
Over(a) == [NoAttempt EXCEPT !.pc = "done", !.fence = attempt[a].fence,
                             !.recovery = attempt[a].recovery]
Finish(a) == attempt' = [attempt EXCEPT ![a] = Over(a)]
\* The lease context manager releases on the way out what it still holds.
Release(x) == lease' = IF lease = x THEN Nobody ELSE lease

-----------------------------------------------------------------------------
(* The automatic refresh.                                                  *)

\* A run loads the connection's access token; the resource answers 401.
Rejected(w) ==
  /\ worker[w].pc = "idle"
  /\ active /\ Connected /\ cap[Uses[w]] = "enabled" /\ access # 0
  /\ worker' = [worker EXCEPT ![w] = [NoRun EXCEPT !.pc = "read", !.seen = access]]
  /\ UNCHANGED <<connectionVars, capabilityVars, tokenVars, fences, attempt,
                 lease, providerVars>>

\* PostgreSQLOAuthRefreshLease.acquire does not wait.
Acquire(w) ==
  /\ worker[w].pc \in {"read", "fresh"} /\ lease = Nobody
  /\ lease' = w /\ Goto(w, "leased")
  /\ UNCHANGED <<connectionVars, capabilityVars, tokenVars, fences, attempt,
                 providerVars>>

\* The stable attempt of a trusted write that has a fence already.
OwnFence(w) == {f \in Fences : fences[f].by = w /\ fences[f].state \in Closed}
Superseded(w) ==
  \/ w \in Writers /\ OwnFence(w) # {}
  \/ w \notin Writers /\ worker[w].seen # access

\* The claim transaction commits the started event before any grant.
Claim(w) ==
  /\ worker[w].pc = "leased" /\ lease = w
  /\ Readable(Uses[w]) /\ ~Superseded(w)
  /\ \E f \in Fences :
       /\ fences[f].state = "none" /\ \A g \in Fences : g < f => fences[g].state # "none"
       /\ fences' = [fences EXCEPT ![f] =
            [state |-> "open", by |-> IF w \in Writers THEN w ELSE Nobody,
             gen |-> generation, old |-> refresh, access |-> access,
             scopes |-> scopes, sent |-> FALSE, reply |-> 0]]
       /\ worker' = [worker EXCEPT ![w].pc = "granting", ![w].fence = f]
  /\ UNCHANGED <<connectionVars, capabilityVars, tokenVars, attempt, lease,
                 providerVars>>

\* Someone else's newer credentials are used without another grant.
UseCurrent(w) ==
  /\ worker[w].pc = "leased" /\ lease = w
  /\ Readable(Uses[w]) /\ Superseded(w)
  /\ worker' = [worker EXCEPT ![w] = [NoRun EXCEPT !.pc = "fresh", !.seen = access]]
  /\ Release(w)
  /\ UNCHANGED <<connectionVars, capabilityVars, tokenVars, fences, attempt,
                 providerVars>>

\* Anything the claim transaction refuses, a lost lease included.
Refused(w) ==
  /\ \/ worker[w].pc = "leased" /\ (lease # w \/ ~Readable(Uses[w]))
     \/ worker[w].pc \in {"read", "fresh"} /\ lease # Nobody
  /\ worker' = [worker EXCEPT ![w] = NoRun] /\ Release(w)
  /\ UNCHANGED <<connectionVars, capabilityVars, tokenVars, fences, attempt,
                 providerVars>>

Send(w) ==
  /\ worker[w].pc = "granting" /\ lease = w
  /\ fences' = [fences EXCEPT ![worker[w].fence].sent = TRUE]
  /\ Goto(w, "sent")
  /\ UNCHANGED <<connectionVars, capabilityVars, tokenVars, attempt, lease,
                 providerVars>>

\* The provider keeps the token or rotates it, whoever still waits for it.
ProviderGrants(f) ==
  /\ fences[f].sent /\ fences[f].reply = 0 /\ fences[f].old \notin spent
  /\ \/ /\ fences' = [fences EXCEPT ![f].reply = fences[f].old]
        /\ UNCHANGED providerVars
     \/ /\ minted' = minted + 1 /\ spent' = spent \cup {fences[f].old}
        /\ fences' = [fences EXCEPT ![f].reply = minted + 1]
  /\ UNCHANGED <<connectionVars, capabilityVars, tokenVars, attempt, worker, lease>>

\* The complete snapshot of the claim, generation and scopes included.
Unchanged(w) ==
  LET f == fences[worker[w].fence]
  IN /\ Refreshable(Uses[w]) /\ f.gen = generation /\ f.scopes = scopes
     /\ f.access = access /\ f.old = refresh

\* A reply whose scopes cover the connection's and the capability's: the
\* tokens and the confirmed event are one transaction.
Confirm(w) ==
  LET f == worker[w].fence
  IN /\ worker[w].pc = "sent" /\ fences[f].reply # 0
     /\ lease = w /\ Unchanged(w) /\ Open(f)
     /\ Store(fences[f].reply)
     /\ fences' = [fences EXCEPT ![f].state = "confirmed"]
     /\ UNCHANGED <<connectionVars, capabilityVars, attempt, worker, lease, providerVars>>

\* After the commit, and after any exception since the started event (a lost
\* lease, no reply or a narrower one): read_result in a new session, then
\* read_current; never another grant.
Check(w) ==
  /\ worker[w].pc \in {"granting", "sent"}
  /\ worker' = [worker EXCEPT ![w] =
       IF fences[worker[w].fence].state \in Closed /\ Readable(Uses[w])
       THEN [NoRun EXCEPT !.pc = "fresh", !.seen = access] ELSE NoRun]
  /\ Release(w)
  /\ UNCHANGED <<connectionVars, capabilityVars, tokenVars, fences, attempt,
                 providerVars>>

\* The token works, or the worker dies: the run is over either way.
End(w) ==
  /\ worker[w].pc # "idle" /\ worker' = [worker EXCEPT ![w] = NoRun] /\ Release(w)
  /\ UNCHANGED <<connectionVars, capabilityVars, tokenVars, fences, attempt,
                 providerVars>>

\* The database session that holds the advisory lock is gone.
LoseLease ==
  /\ lease # Nobody /\ lease' = Nobody
  /\ UNCHANGED <<connectionVars, capabilityVars, tokenVars, fences, attempt,
                 worker, providerVars>>

\* A second 401 with the token in hand, and a 403 on the capability.
MarkExpired(w) ==
  /\ worker[w].pc = "fresh" /\ w \notin Writers /\ active
  /\ status' = "degraded"
  /\ worker' = [worker EXCEPT ![w] = NoRun]
  /\ UNCHANGED <<active, generation, scopes, drops, capabilityVars, tokenVars,
                 fences, attempt, lease, providerVars>>

MarkActionRequired(w) ==
  /\ worker[w].pc \in {"read", "fresh"} /\ w \notin Writers /\ active /\ Connected
  /\ cap' = [cap EXCEPT ![Uses[w]] = "action_required"]
  /\ worker' = [worker EXCEPT ![w] = NoRun]
  /\ UNCHANGED <<connectionVars, actual, tokenVars, fences, attempt, lease,
                 providerVars>>

-----------------------------------------------------------------------------
(* The user's requests.                                                    *)

\* start_recovery binds the new attempt to the fence that it is to close, and
\* recovery_authorization finds it by that until it has its result.
Purpose(f) == IF f = 0 THEN "none" ELSE "open"
Unanswered(a) == attempt[a].recovery = "open"

\* create_attempt; only the first authorisation, which names no connection,
\* looks at the user.
Offer(a, cs, gen, f) ==
  /\ attempt[a].pc = "none" /\ (gen = 0 => active)
  /\ attempt' = [attempt EXCEPT ![a] =
       [NoAttempt EXCEPT !.pc = "offered", !.bound = gen # 0, !.gen = gen,
        !.caps = cs, !.fence = f, !.era = drops,
        !.recovery = Purpose(f)]]

Start(a, cs) ==
  /\ cs # {} /\ cs \subseteq Reads /\ Offer(a, cs, 0, 0)
  /\ UNCHANGED <<connectionVars, capabilityVars, tokenVars, fences, worker,
                 lease, providerVars>>

\* Pending capabilities whose earlier proof still holds are kept.
Pending == {c \in Capabilities : /\ cap[c] = "authorizing" /\ actual[c] # {}
                                 /\ Closure(c) \subseteq actual[c] \cap scopes}
Preserved == {c \in Pending : Closure(c) \subseteq Enabled \cup Pending}
Requested(c) == Enabled \cup Preserved \cup Closure(c)

\* recovery_candidate: the one open fence, whose old token is still stored.
Candidate(f) ==
  /\ Open(f) /\ \A g \in Fences : Open(g) => g = f
  /\ Complete /\ refresh = fences[f].old
  /\ generation >= fences[f].gen

\* set_capabilities_authorizing begins a generation.
Authorize(cs) ==
  /\ Connected /\ generation < MaxGeneration /\ generation' = generation + 1
  /\ cap' = [c \in Capabilities |-> IF c \in cs THEN "authorizing" ELSE cap[c]]

\* With refresh events on record the credentials are verified; with an open
\* fence among them the attempt becomes its recovery.
StartCapabilityEnable(a, c) ==
  /\ ClosedSet(Enabled \cup Preserved)
  /\ \/ Unfenced /\ (History => Complete) /\ Offer(a, Requested(c), generation + 1, 0)
     \/ \E f \in Fences : Candidate(f) /\ Offer(a, Requested(c), generation + 1, f)
  /\ Authorize(Requested(c))
  /\ UNCHANGED <<active, status, scopes, drops, actual, tokenVars, fences,
                 worker, lease, providerVars>>

\* validate_capability_disable.
Dispensable(c) == ClosedSet(Enabled) /\ \A d \in Enabled \ {c} : c \notin Needs[d]

DisableCapability(c) ==
  /\ active /\ status # "absent" /\ generation < MaxGeneration
  /\ Dispensable(c)
  /\ generation' = generation + 1
  /\ cap' = [cap EXCEPT ![c] = "disabled"]
  /\ UNCHANGED <<active, status, scopes, drops, actual, tokenVars, fences, attempt,
                 worker, lease, providerVars>>

\* Variant: attempts under way stay valid.
StillValid(a) == attempt[a]

\* A first authorisation under way, consumed or not, is void from now on.
Invalidated(a) ==
  [attempt[a] EXCEPT !.invalid = @ \/ (attempt[a].pc \notin {"none", "done"} /\ ~attempt[a].bound)]

Disconnect ==
  /\ active /\ status # "absent" /\ generation < MaxGeneration
  /\ attempt' = [a \in Attempts |-> Invalidated(a)]
  /\ cap' = [c \in Capabilities |-> "revoked"]
  /\ access' = 0 /\ refresh' = 0
  /\ generation' = generation + 1 /\ status' = "disconnected" /\ drops' = drops + 1
  /\ UNCHANGED <<active, scopes, actual, stored, fences, worker, lease, providerVars>>

\* The deletion of the user's data begins.
Deactivate ==
  /\ active /\ active' = FALSE
  /\ UNCHANGED <<status, generation, scopes, drops, capabilityVars, tokenVars,
                 fences, attempt, worker, lease, providerVars>>

-----------------------------------------------------------------------------
(* Callbacks.                                                              *)

\* consume_attempt takes the state once, before anything else is done.
Consumable(a) == attempt[a].pc = "offered" /\ active /\ ~attempt[a].invalid

Callback(a) ==
  /\ Consumable(a)
  /\ Step(a, IF Unanswered(a) THEN "recovering" ELSE "exchanging")
  /\ UNCHANGED <<connectionVars, capabilityVars, tokenVars, fences, worker,
                 lease, providerVars>>

CallbackError(a) ==
  /\ Consumable(a)
  /\ IF Unanswered(a)
     THEN Step(a, "denied") /\ UNCHANGED capabilityVars
     ELSE /\ Finish(a)
          /\ IF attempt[a].bound THEN Converge(a) ELSE UNCHANGED capabilityVars
  /\ UNCHANGED <<connectionVars, tokenVars, fences, worker, lease, providerVars>>

\* exchange_code and fetch_account: the user grants some of what is asked for
\* and what was granted before; a new refresh token may be left out.
Grants(a, granted, pc) ==
  /\ granted # {} /\ granted \subseteq attempt[a].caps \cup scopes
  /\ \/ /\ attempt' = [attempt EXCEPT ![a].granted = granted, ![a].pc = pc]
        /\ UNCHANGED providerVars
     \/ /\ minted' = minted + 1 /\ UNCHANGED spent
        /\ attempt' = [attempt EXCEPT ![a].granted = granted, ![a].pc = pc,
                                      ![a].token = minted + 1]

Exchange(a, granted) ==
  /\ attempt[a].pc = "exchanging" /\ Grants(a, granted, "granted")
  /\ UNCHANGED <<connectionVars, capabilityVars, tokenVars, fences, worker, lease>>

\* A classified answer of the provider; a recovery keeps its lease.
ExchangeFails(a) ==
  /\ \/ attempt[a].pc = "exchanging" /\ Step(a, "failing")
     \/ attempt[a].pc = "frozen" /\ Step(a, "refusing")
  /\ UNCHANGED <<connectionVars, capabilityVars, tokenVars, fences, worker,
                 lease, providerVars>>

ConvergeFailed(a) ==
  /\ attempt[a].pc = "failing" /\ Finish(a)
  /\ IF attempt[a].bound THEN Converge(a) ELSE UNCHANGED capabilityVars
  /\ UNCHANGED <<connectionVars, tokenVars, fences, worker, lease, providerVars>>

\* ensure_bound_connection_for_callback.
BoundTarget(a) == Connected /\ generation = attempt[a].gen /\ Unfenced

SaveBound(a) ==
  /\ attempt[a].pc = "granted" /\ attempt[a].bound
  /\ BoundTarget(a) /\ scopes' = attempt[a].granted
  /\ SaveTokens(attempt[a].token) /\ Grant(attempt[a].caps, attempt[a].granted)
  /\ Finish(a)
  /\ UNCHANGED <<active, status, generation, drops, fences, worker, lease, providerVars>>

\* validate_unbound_attempt_for_callback and _unfenced_identity_.
UnboundTarget(a) == ~attempt[a].invalid /\ (Connected => Unfenced)

\* ensure_connection: a connected account may only gain scopes, any other
\* starts again from what this token grants.
EnsureConnection(granted) ==
  /\ Connected => Unfenced /\ scopes \subseteq granted
  /\ status' = "connected" /\ scopes' = granted

SaveTargetless(a) ==
  /\ attempt[a].pc = "granted" /\ ~attempt[a].bound
  /\ UnboundTarget(a) /\ EnsureConnection(attempt[a].granted)
  /\ SaveTokens(attempt[a].token) /\ Finish(a)
  /\ IF Connected THEN Grant(attempt[a].caps, attempt[a].granted)
     ELSE LET new(c) == c \in attempt[a].caps
          IN /\ cap' = [c \in Capabilities |-> IF ~new(c) THEN "disabled"
                          ELSE IF Closure(c) \subseteq attempt[a].granted
                          THEN "enabled" ELSE "action_required"]
             /\ actual' = [c \in Capabilities |-> IF new(c) THEN attempt[a].granted ELSE {}]
  /\ UNCHANGED <<active, generation, drops, fences, worker, lease, providerVars>>

\* explicit_recovery_lease.
RecoveryLease(a) ==
  /\ attempt[a].pc = "recovering" /\ lease = Nobody /\ Connected
  /\ lease' = a /\ Step(a, "leased")
  /\ UNCHANGED <<connectionVars, capabilityVars, tokenVars, fences, worker, providerVars>>

\* freeze_recovery, unless the target generation is gone.
Freeze(a) ==
  /\ attempt[a].pc = "leased" /\ lease = a
  /\ IF Connected /\ generation = attempt[a].gen
     THEN /\ Candidate(attempt[a].fence)
          /\ attempt' = [attempt EXCEPT ![a].pc = "frozen", ![a].access = access]
     ELSE Step(a, "refusing")
  /\ UNCHANGED <<connectionVars, capabilityVars, tokenVars, fences, worker,
                 lease, providerVars>>

\* _recovery_response_valid: the answer must cover what is stored and what was
\* requested, and bring a new refresh token.
RecoveryValid(a, granted) ==
  attempt'[a].token # 0 /\ scopes \cup attempt[a].caps \subseteq granted

RecoveryExchange(a, granted) ==
  /\ attempt[a].pc = "frozen" /\ lease = a
  /\ \/ Grants(a, granted, "refusing") /\ ~RecoveryValid(a, granted)
     \/ Grants(a, granted, "replacing") /\ RecoveryValid(a, granted)
  /\ UNCHANGED <<connectionVars, capabilityVars, tokenVars, fences, worker, lease>>

\* The replacement, its scopes and its capabilities are one transaction.  The
\* frozen rows are compared; scopes do not change under an open fence.
Replace(a) ==
  LET f == attempt[a].fence
  IN /\ attempt[a].pc = "replacing" /\ lease = a
     /\ Current(a) /\ access = attempt[a].access /\ refresh = fences[f].old
     /\ Open(f) /\ Unanswered(a)
     /\ Store(attempt[a].token) /\ scopes' = attempt[a].granted
     /\ Grant(attempt[a].caps, attempt[a].granted)
     /\ fences' = [fences EXCEPT ![f].state = "replaced"]
     /\ attempt' = [attempt EXCEPT ![a].recovery = "replaced"]
     /\ UNCHANGED <<active, status, generation, drops, worker, lease, providerVars>>

\* unsatisfied closes this recovery and leaves the fence open; the rows must
\* agree with it, or the transaction raises and nothing is written.
Unsatisfied(a) ==
  /\ \/ attempt[a].pc = "refusing" /\ lease = a
     \/ attempt[a].pc = "denied"
  /\ active /\ Unanswered(a)
  /\ Current(a) => \A c \in attempt[a].caps : cap[c] = "authorizing"
  /\ Converge(a)
  /\ attempt' = [attempt EXCEPT ![a].recovery = "unsatisfied"]
  /\ UNCHANGED <<connectionVars, tokenVars, fences, worker, lease, providerVars>>

\* After the result, and after a save that raised, an unknown exchange or a
\* lost lease: read_result only reports what is stored.  Or the process dies.
CallbackEnds(a) ==
  /\ attempt[a].pc \notin {"none", "offered", "done"}
  /\ Finish(a) /\ Release(a)
  /\ UNCHANGED <<connectionVars, capabilityVars, tokenVars, fences, worker, providerVars>>

-----------------------------------------------------------------------------
(* OAuthLifecycleCleanup: whole closed groups, long after the last run.    *)

Recoveries(f) == {a \in Attempts : attempt[a].fence = f /\ attempt[a].recovery \notin {"none", "cleaned"}}

CleanRecovery(a) ==
  /\ attempt[a].recovery = "unsatisfied" /\ attempt[a].pc = "done"
  /\ attempt' = [attempt EXCEPT ![a].recovery = "cleaned"]
  /\ UNCHANGED <<connectionVars, capabilityVars, tokenVars, fences, worker,
                 lease, providerVars>>

CleanFence(f) ==
  /\ \/ fences[f].state = "confirmed" /\ Recoveries(f) = {}
     \/ fences[f].state = "replaced" /\ Cardinality(Recoveries(f)) = 1
  /\ \A w \in Workers : worker[w].fence # f
  /\ \A a \in Recoveries(f) : attempt[a].pc = "done"
  /\ fences' = [fences EXCEPT ![f].state = "cleaned"]
  /\ attempt' = [a \in Attempts |-> IF a \in Recoveries(f)
                   THEN [attempt[a] EXCEPT !.recovery = "cleaned"] ELSE attempt[a]]
  /\ UNCHANGED <<connectionVars, capabilityVars, tokenVars, worker, lease, providerVars>>

-----------------------------------------------------------------------------
WorkerStep(w) ==
  \/ Rejected(w) \/ Acquire(w) \/ Claim(w) \/ UseCurrent(w) \/ Refused(w)
  \/ Send(w) \/ Confirm(w) \/ Check(w) \/ End(w)
  \/ MarkExpired(w) \/ MarkActionRequired(w)

CallbackStep(a) ==
  \/ Callback(a) \/ CallbackError(a) \/ ExchangeFails(a) \/ ConvergeFailed(a)
  \/ SaveBound(a) \/ SaveTargetless(a)
  \/ RecoveryLease(a) \/ Freeze(a) \/ Replace(a) \/ Unsatisfied(a)
  \/ CallbackEnds(a) \/ CleanRecovery(a)
  \/ \E granted \in SUBSET Capabilities : Exchange(a, granted) \/ RecoveryExchange(a, granted)

UserStep ==
  \/ \E a \in Attempts, cs \in SUBSET Capabilities : Start(a, cs)
  \/ \E a \in Attempts, c \in Capabilities : StartCapabilityEnable(a, c)
  \/ \E c \in Capabilities : DisableCapability(c)
  \/ Disconnect \/ Deactivate

Next ==
  \/ \E w \in Workers : WorkerStep(w)
  \/ \E a \in Attempts : CallbackStep(a)
  \/ \E f \in Fences : ProviderGrants(f) \/ CleanFence(f)
  \/ UserStep \/ LoseLease

Spec == Init /\ [][Next]_vars

-----------------------------------------------------------------------------
(* Properties.                                                             *)

FenceRows == [state : FenceStates, by : Writers \cup {Nobody}, gen : Nat,
              old : Nat, access : Nat, scopes : SUBSET Capabilities,
              sent : BOOLEAN, reply : Nat]
AttemptRows == [pc : CallbackPCs, bound : BOOLEAN, gen : Nat,
                caps : SUBSET Capabilities, fence : Fences \cup {0},
                recovery : RecoveryStates, invalid : BOOLEAN,
                granted : SUBSET Capabilities, token : Nat, access : Nat, era : Nat]
Runs == [pc : WorkerPCs, seen : Nat, fence : Fences \cup {0}]

\* The advisory lock is held only inside the block that took it.
HeldInside ==
  /\ \A w \in Workers : lease = w => worker[w].pc \in {"leased", "granting", "sent"}
  /\ \A a \in Attempts : lease = a =>
       attempt[a].pc \in {"leased", "frozen", "replacing", "refusing"}

\* Types; and no run that is over keeps everybody else away from the connection
\* by the refresh lease that it forgot (PostgreSQLOAuthRefreshLease.release).
TypeOK ==
  /\ active \in BOOLEAN /\ status \in Statuses /\ generation \in Nat
  /\ scopes \subseteq Capabilities /\ drops \in Nat
  /\ cap \in [Capabilities -> CapabilityStatuses]
  /\ actual \in [Capabilities -> SUBSET Capabilities]
  /\ access \in Nat /\ refresh \in Nat /\ stored \in Nat
  /\ fences \in [Fences -> FenceRows]
  /\ attempt \in [Attempts -> AttemptRows]
  /\ worker \in [Workers -> Runs]
  /\ \A w \in Workers : worker[w].pc \in {"granting", "sent"} => worker[w].fence # 0
  /\ lease \in Workers \cup Attempts \cup {Nobody} /\ HeldInside
  /\ minted \in Nat /\ spent \subseteq Nat

\* However leases are lost and replies delayed, a connection never has two
\* unresolved refresh attempts: recovery would not know which one to close.
OneOpenFence == \A f, g \in Fences : Open(f) /\ Open(g) => f = g

\* A refresh token that the provider has already rotated away stays in the
\* database only behind an open fence, so that nobody takes the connection
\* for healthy: crashes, lost replies and lost leases are all covered.
DeadTokenFenced ==
  refresh \in spent => \E f \in Fences : Open(f) /\ fences[f].old = refresh

\* No grant is ever asked for with a token the provider has rotated away:
\* a worker with a stale snapshot uses what the winner stored, and a lost
\* reply is never retried.
NoSpentGrant ==
  [][\A f \in Fences : fences'[f].sent /\ ~fences[f].sent => fences[f].old \notin spent]_vars

\* A callback of an older generation (the user has since asked again, taken
\* a capability away or disconnected) changes no row of the connection.
StaleCallbackHarmless ==
  [][\A a \in Attempts :
       attempt[a].bound /\ attempt[a].gen # generation /\ attempt'[a] # attempt[a]
         => UNCHANGED <<connectionVars, capabilityVars, tokenVars>>]_vars

\* Only an authorisation begun after the last disconnection connects the
\* account again, although its callback may have been under way meanwhile.
NoRevival ==
  [][status # "connected" /\ status' = "connected" =>
       \E a \in Attempts : attempt'[a] # attempt[a] /\ attempt[a].era = drops]_vars

\* A disconnected account keeps no token.
NoTokenKept == status = "disconnected" => access = 0 /\ refresh = 0

\* Once the deletion of the user's data has begun, no callback or refresh
\* that was already at the provider writes tokens or revives a connection.
DeletedUserUntouched ==
  [][~active => UNCHANGED <<tokenVars, scopes, status, actual>>]_vars

=============================================================================
