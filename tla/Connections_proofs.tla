------------------------- MODULE Connections_proofs -------------------------
(***************************************************************************)
(* Theorems about Connections, for any workers, attempts, capabilities,    *)
(* dependencies and bounds that ConstantsAssumption allows.                *)
(***************************************************************************)
EXTENDS Connections, TLAPS

-----------------------------------------------------------------------------
(* Rows that the actions write are of their types.                         *)

LEMMA NoRows == NoFence \in FenceRows /\ NoAttempt \in AttemptRows /\ NoRun \in Runs
  BY DEF NoFence, NoAttempt, NoRun, FenceRows, AttemptRows, Runs, FenceStates,
         CallbackPCs, RecoveryStates, WorkerPCs

LEMMA InitTypeOK == Init => TypeOK
  <1> SUFFICES ASSUME Init PROVE TypeOK
    OBVIOUS
  <1>1. HeldInside
    BY ConstantsAssumption DEF Init, HeldInside
  <1>2. /\ fences \in [Fences -> FenceRows] /\ attempt \in [Attempts -> AttemptRows]
        /\ worker \in [Workers -> Runs]
    BY NoRows DEF Init
  <1>3. \A w \in Workers : worker[w].pc = "idle"
    BY DEF Init, NoRun
  <1> QED
    BY <1>1, <1>2, <1>3 DEF Init, TypeOK, Statuses, CapabilityStatuses

\* The parts that an action writes, by the operator that writes them.
LEMMA StepTyped ==
  ASSUME TypeOK, NEW a \in Attempts, NEW pc \in CallbackPCs, Step(a, pc)
  PROVE  attempt' \in [Attempts -> AttemptRows]
  <1>1. [attempt[a] EXCEPT !.pc = pc] \in AttemptRows
    BY DEF TypeOK, AttemptRows
  <1> QED
    BY <1>1 DEF TypeOK, Step

LEMMA FinishTyped ==
  ASSUME TypeOK, NEW a \in Attempts, Finish(a)
  PROVE  attempt' \in [Attempts -> AttemptRows]
  <1>1. Over(a) \in AttemptRows
    BY DEF TypeOK, AttemptRows, Over, NoAttempt, CallbackPCs
  <1> QED
    BY <1>1 DEF TypeOK, Finish

LEMMA StoreTyped ==
  ASSUME TypeOK, NEW token \in Nat, Store(token)
  PROVE  access' \in Nat /\ refresh' \in Nat /\ stored' \in Nat
  BY DEF TypeOK, Store

LEMMA GrantTyped ==
  ASSUME TypeOK, NEW requested, NEW granted \in SUBSET Capabilities, Grant(requested, granted)
  PROVE  /\ cap' \in [Capabilities -> CapabilityStatuses]
         /\ actual' \in [Capabilities -> SUBSET Capabilities]
  BY DEF TypeOK, Grant, CapabilityStatuses

LEMMA ConvergeTyped ==
  ASSUME TypeOK, NEW a \in Attempts, Converge(a)
  PROVE  /\ cap' \in [Capabilities -> CapabilityStatuses]
         /\ actual' \in [Capabilities -> SUBSET Capabilities]
  BY DEF TypeOK, Converge, CapabilityStatuses

LEMMA GotoTyped ==
  ASSUME TypeOK, NEW w \in Workers, NEW pc \in WorkerPCs, Goto(w, pc)
  PROVE  worker' \in [Workers -> Runs]
  <1>1. [worker[w] EXCEPT !.pc = pc] \in Runs
    BY DEF TypeOK, Runs
  <1> QED
    BY <1>1 DEF TypeOK, Goto

-----------------------------------------------------------------------------
(* Every action keeps the types.                                           *)

LEMMA CallbackTyped == ASSUME TypeOK, NEW a \in Attempts, Callback(a) PROVE TypeOK'
  <1>1. attempt' \in [Attempts -> AttemptRows]
    BY StepTyped, FinishTyped DEF Callback, CallbackPCs, Unanswered
  <1>2. HeldInside'
    BY ConstantsAssumption DEF TypeOK, HeldInside, Callback, Step, Finish, Over, NoAttempt,
       AttemptRows, Consumable, Unanswered
  <1> QED
    BY <1>1, <1>2 DEF TypeOK, Callback, connectionVars, capabilityVars,
       tokenVars, providerVars, Unanswered

LEMMA CallbackErrorTyped == ASSUME TypeOK, NEW a \in Attempts, CallbackError(a) PROVE TypeOK'
  <1>1. attempt' \in [Attempts -> AttemptRows]
    BY StepTyped, FinishTyped DEF CallbackError, CallbackPCs, Unanswered
  <1>2. HeldInside'
    BY ConstantsAssumption DEF TypeOK, HeldInside, CallbackError, Step, Finish, Over, NoAttempt,
       AttemptRows, Consumable, Unanswered
  <1> QED
    BY <1>1, <1>2, ConvergeTyped DEF TypeOK, CallbackError, connectionVars, capabilityVars,
       tokenVars, providerVars, Unanswered

LEMMA ExchangeFailsTyped == ASSUME TypeOK, NEW a \in Attempts, ExchangeFails(a) PROVE TypeOK'
  <1>1. attempt' \in [Attempts -> AttemptRows]
    BY StepTyped, FinishTyped DEF ExchangeFails, CallbackPCs
  <1>2. HeldInside'
    BY ConstantsAssumption DEF TypeOK, HeldInside, ExchangeFails, Step, Finish, Over, NoAttempt,
       AttemptRows
  <1> QED
    BY <1>1, <1>2 DEF TypeOK, ExchangeFails, connectionVars, capabilityVars,
       tokenVars, providerVars

LEMMA ConvergeFailedTyped == ASSUME TypeOK, NEW a \in Attempts, ConvergeFailed(a) PROVE TypeOK'
  <1>1. attempt' \in [Attempts -> AttemptRows]
    BY StepTyped, FinishTyped DEF ConvergeFailed, CallbackPCs
  <1>2. HeldInside'
    BY ConstantsAssumption DEF TypeOK, HeldInside, ConvergeFailed, Step, Finish, Over, NoAttempt,
       AttemptRows
  <1> QED
    BY <1>1, <1>2, ConvergeTyped DEF TypeOK, ConvergeFailed, connectionVars, capabilityVars,
       tokenVars, providerVars

LEMMA SaveBoundTyped == ASSUME TypeOK, NEW a \in Attempts, SaveBound(a) PROVE TypeOK'
  <1>1. attempt' \in [Attempts -> AttemptRows]
    BY StepTyped, FinishTyped DEF SaveBound, CallbackPCs
  <1>2. HeldInside'
    BY ConstantsAssumption DEF TypeOK, HeldInside, SaveBound, Step, Finish, Over, NoAttempt,
       AttemptRows
  <1>3. attempt[a].token \in Nat /\ attempt[a].granted \in SUBSET Capabilities
    BY DEF TypeOK, AttemptRows
  <1> QED
    BY <1>1, <1>2, <1>3, StoreTyped, GrantTyped DEF TypeOK, SaveBound, connectionVars, capabilityVars,
       tokenVars, providerVars, SaveTokens

LEMMA SaveTargetlessTyped == ASSUME TypeOK, NEW a \in Attempts, SaveTargetless(a) PROVE TypeOK'
  <1>1. attempt' \in [Attempts -> AttemptRows]
    BY StepTyped, FinishTyped DEF SaveTargetless, CallbackPCs
  <1>2. HeldInside'
    BY ConstantsAssumption DEF TypeOK, HeldInside, SaveTargetless, Step, Finish, Over, NoAttempt,
       AttemptRows
  <1>3. attempt[a].token \in Nat /\ attempt[a].granted \in SUBSET Capabilities
    BY DEF TypeOK, AttemptRows
  <1>4. /\ cap' \in [Capabilities -> CapabilityStatuses]
        /\ actual' \in [Capabilities -> SUBSET Capabilities]
    BY <1>3, GrantTyped DEF TypeOK, SaveTargetless, CapabilityStatuses
  <1> QED
    BY <1>1, <1>2, <1>3, <1>4, StoreTyped DEF TypeOK, SaveTargetless, connectionVars, capabilityVars,
       tokenVars, providerVars, SaveTokens, EnsureConnection, Statuses

LEMMA RecoveryLeaseTyped == ASSUME TypeOK, NEW a \in Attempts, RecoveryLease(a) PROVE TypeOK'
  <1>1. attempt' \in [Attempts -> AttemptRows]
    BY StepTyped, FinishTyped DEF RecoveryLease, CallbackPCs
  <1>2. HeldInside'
    BY ConstantsAssumption DEF TypeOK, HeldInside, RecoveryLease, Step, Finish, Over, NoAttempt,
       AttemptRows
  <1> QED
    BY <1>1, <1>2 DEF TypeOK, RecoveryLease, connectionVars, capabilityVars,
       tokenVars, providerVars

LEMMA CallbackEndsTyped == ASSUME TypeOK, NEW a \in Attempts, CallbackEnds(a) PROVE TypeOK'
  <1>1. attempt' \in [Attempts -> AttemptRows]
    BY StepTyped, FinishTyped DEF CallbackEnds, CallbackPCs
  <1>2. HeldInside'
    BY ConstantsAssumption DEF TypeOK, HeldInside, CallbackEnds, Step, Finish, Over, NoAttempt,
       AttemptRows, Consumable, Release
  <1> QED
    BY <1>1, <1>2 DEF TypeOK, CallbackEnds, connectionVars, capabilityVars,
       tokenVars, providerVars, Release

LEMMA RejectedTyped == ASSUME TypeOK, NEW w \in Workers, Rejected(w) PROVE TypeOK'
  <1>1. worker' \in [Workers -> Runs]
    BY NoRows DEF TypeOK, Rejected, Runs, NoRun, WorkerPCs
  <1>2. /\ HeldInside'
        /\ \A v \in Workers : worker'[v].pc \in {"granting", "sent"} => worker'[v].fence # 0
    BY ConstantsAssumption DEF TypeOK, HeldInside, Rejected, Runs, NoRun
  <1> QED
    BY <1>1, <1>2 DEF TypeOK, Rejected, connectionVars, capabilityVars,
       tokenVars, providerVars

LEMMA AcquireTyped == ASSUME TypeOK, NEW w \in Workers, Acquire(w) PROVE TypeOK'
  <1>1. worker' \in [Workers -> Runs]
    BY GotoTyped DEF Acquire, WorkerPCs
  <1>2. /\ HeldInside'
        /\ \A v \in Workers : worker'[v].pc \in {"granting", "sent"} => worker'[v].fence # 0
    BY ConstantsAssumption DEF TypeOK, HeldInside, Acquire, Runs, NoRun, Goto
  <1> QED
    BY <1>1, <1>2 DEF TypeOK, Acquire, connectionVars, capabilityVars,
       tokenVars, providerVars

LEMMA UseCurrentTyped == ASSUME TypeOK, NEW w \in Workers, UseCurrent(w) PROVE TypeOK'
  <1>1. worker' \in [Workers -> Runs]
    BY NoRows DEF TypeOK, UseCurrent, Runs, NoRun, WorkerPCs
  <1>2. /\ HeldInside'
        /\ \A v \in Workers : worker'[v].pc \in {"granting", "sent"} => worker'[v].fence # 0
    BY ConstantsAssumption DEF TypeOK, HeldInside, UseCurrent, Runs, NoRun, Release
  <1> QED
    BY <1>1, <1>2 DEF TypeOK, UseCurrent, connectionVars, capabilityVars,
       tokenVars, providerVars, Release

LEMMA RefusedTyped == ASSUME TypeOK, NEW w \in Workers, Refused(w) PROVE TypeOK'
  <1>1. worker' \in [Workers -> Runs]
    BY NoRows DEF TypeOK, Refused, Runs, NoRun, WorkerPCs
  <1>2. /\ HeldInside'
        /\ \A v \in Workers : worker'[v].pc \in {"granting", "sent"} => worker'[v].fence # 0
    BY ConstantsAssumption DEF TypeOK, HeldInside, Refused, Runs, NoRun, Release
  <1> QED
    BY <1>1, <1>2 DEF TypeOK, Refused, connectionVars, capabilityVars,
       tokenVars, providerVars, Release

LEMMA SendTyped == ASSUME TypeOK, NEW w \in Workers, Send(w) PROVE TypeOK'
  <1>1. worker' \in [Workers -> Runs]
    BY GotoTyped DEF Send, WorkerPCs
  <1>2. /\ HeldInside'
        /\ \A v \in Workers : worker'[v].pc \in {"granting", "sent"} => worker'[v].fence # 0
    BY ConstantsAssumption DEF TypeOK, HeldInside, Send, Runs, NoRun, Goto
  <1>3. fences' \in [Fences -> FenceRows]
    <2>1. \A f \in Fences : [fences[f] EXCEPT !.sent = TRUE] \in FenceRows
      BY DEF TypeOK, FenceRows
    <2> QED
      BY <2>1 DEF TypeOK, Send
  <1> QED
    BY <1>1, <1>2, <1>3 DEF TypeOK, Send, connectionVars, capabilityVars,
       tokenVars, providerVars

LEMMA ClaimTyped == ASSUME TypeOK, NEW w \in Workers, Claim(w) PROVE TypeOK'
  <1>1. worker' \in [Workers -> Runs]
    <2>1. PICK f \in Fences :
            worker' = [worker EXCEPT ![w].pc = "granting", ![w].fence = f]
      BY DEF Claim
    <2>2. [worker[w] EXCEPT !.pc = "granting", !.fence = f] \in Runs
      BY DEF TypeOK, Runs, WorkerPCs
    <2> QED
      BY <2>1, <2>2 DEF TypeOK
  <1>2. /\ HeldInside'
        /\ \A v \in Workers : worker'[v].pc \in {"granting", "sent"} => worker'[v].fence # 0
    BY ConstantsAssumption DEF TypeOK, HeldInside, Claim, Runs, NoRun, Fences
  <1>3. fences' \in [Fences -> FenceRows]
    <2>1. PICK f \in Fences :
            fences' = [fences EXCEPT ![f] =
              [state |-> "open", by |-> IF w \in Writers THEN w ELSE Nobody,
               gen |-> generation, old |-> refresh, access |-> access,
               scopes |-> scopes, sent |-> FALSE, reply |-> 0]]
      BY DEF Claim
    <2>2. [state |-> "open", by |-> IF w \in Writers THEN w ELSE Nobody,
           gen |-> generation, old |-> refresh, access |-> access,
           scopes |-> scopes, sent |-> FALSE, reply |-> 0] \in FenceRows
      BY DEF TypeOK, FenceRows, FenceStates
    <2> QED
      BY <2>1, <2>2 DEF TypeOK
  <1> QED
    BY <1>1, <1>2, <1>3 DEF TypeOK, Claim, connectionVars, capabilityVars,
       tokenVars, providerVars

LEMMA ConfirmTyped == ASSUME TypeOK, NEW w \in Workers, Confirm(w) PROVE TypeOK'
  <1>1. worker' \in [Workers -> Runs]
    BY DEF TypeOK, Confirm
  <1>2. /\ HeldInside'
        /\ \A v \in Workers : worker'[v].pc \in {"granting", "sent"} => worker'[v].fence # 0
    BY ConstantsAssumption DEF TypeOK, HeldInside, Confirm, Runs, NoRun
  <1>3. fences' \in [Fences -> FenceRows]
    <2>1. [fences[worker[w].fence] EXCEPT !.state = "confirmed"] \in FenceRows
      <3>1. worker[w].fence \in Fences
        BY DEF TypeOK, Confirm, Runs
      <3> QED
        BY <3>1 DEF TypeOK, FenceRows, FenceStates
    <2> QED
      BY <2>1 DEF TypeOK, Confirm
  <1>4. worker[w].fence \in Fences
    BY DEF TypeOK, Confirm, Runs
  <1>5. fences[worker[w].fence].reply \in Nat
    BY <1>4 DEF TypeOK, FenceRows
  <1> QED
    BY <1>1, <1>2, <1>3, <1>5, StoreTyped DEF TypeOK, Confirm, connectionVars, capabilityVars,
       tokenVars, providerVars

LEMMA CheckTyped == ASSUME TypeOK, NEW w \in Workers, Check(w) PROVE TypeOK'
  <1>1. worker' \in [Workers -> Runs]
    BY NoRows DEF TypeOK, Check, Runs, NoRun, WorkerPCs
  <1>2. /\ HeldInside'
        /\ \A v \in Workers : worker'[v].pc \in {"granting", "sent"} => worker'[v].fence # 0
    BY ConstantsAssumption DEF TypeOK, HeldInside, Check, Runs, NoRun, Release
  <1> QED
    BY <1>1, <1>2 DEF TypeOK, Check, connectionVars, capabilityVars,
       tokenVars, providerVars, Release

LEMMA EndTyped == ASSUME TypeOK, NEW w \in Workers, End(w) PROVE TypeOK'
  <1>1. worker' \in [Workers -> Runs]
    BY NoRows DEF TypeOK, End, Runs, NoRun, WorkerPCs
  <1>2. /\ HeldInside'
        /\ \A v \in Workers : worker'[v].pc \in {"granting", "sent"} => worker'[v].fence # 0
    BY ConstantsAssumption DEF TypeOK, HeldInside, End, Runs, NoRun, Release
  <1> QED
    BY <1>1, <1>2 DEF TypeOK, End, connectionVars, capabilityVars,
       tokenVars, providerVars, Release

LEMMA MarkExpiredTyped == ASSUME TypeOK, NEW w \in Workers, MarkExpired(w) PROVE TypeOK'
  <1>1. worker' \in [Workers -> Runs]
    BY NoRows DEF TypeOK, MarkExpired, Runs, NoRun, WorkerPCs
  <1>2. /\ HeldInside'
        /\ \A v \in Workers : worker'[v].pc \in {"granting", "sent"} => worker'[v].fence # 0
    BY ConstantsAssumption DEF TypeOK, HeldInside, MarkExpired, Runs, NoRun
  <1> QED
    BY <1>1, <1>2 DEF TypeOK, MarkExpired, connectionVars, capabilityVars,
       tokenVars, providerVars, Statuses

LEMMA MarkActionRequiredTyped == ASSUME TypeOK, NEW w \in Workers, MarkActionRequired(w) PROVE TypeOK'
  <1>1. worker' \in [Workers -> Runs]
    BY NoRows DEF TypeOK, MarkActionRequired, Runs, NoRun, WorkerPCs
  <1>2. /\ HeldInside'
        /\ \A v \in Workers : worker'[v].pc \in {"granting", "sent"} => worker'[v].fence # 0
    BY ConstantsAssumption DEF TypeOK, HeldInside, MarkActionRequired, Runs, NoRun
  <1> QED
    BY <1>1, <1>2 DEF TypeOK, MarkActionRequired, connectionVars, capabilityVars,
       tokenVars, providerVars, CapabilityStatuses

LEMMA FreezeTyped == ASSUME TypeOK, NEW a \in Attempts, Freeze(a) PROVE TypeOK'
  <1>1. attempt' \in [Attempts -> AttemptRows]
    <2>1. attempt[a] \in AttemptRows /\ access \in Nat
      BY DEF TypeOK
    <2>2. [attempt[a] EXCEPT !.pc = "frozen", !.access = access] \in AttemptRows
      BY <2>1 DEF AttemptRows, CallbackPCs
    <2> QED
      BY <2>2, StepTyped DEF TypeOK, Freeze, CallbackPCs
  <1>2. HeldInside'
    BY ConstantsAssumption DEF TypeOK, HeldInside, Freeze, Step, AttemptRows
  <1> QED
    BY <1>1, <1>2 DEF TypeOK, Freeze, connectionVars, capabilityVars,
       tokenVars, providerVars

LEMMA ReplaceTyped == ASSUME TypeOK, NEW a \in Attempts, Replace(a) PROVE TypeOK'
  <1>1. attempt' \in [Attempts -> AttemptRows]
    <2>1. [attempt[a] EXCEPT !.recovery = "replaced"] \in AttemptRows
      BY DEF TypeOK, AttemptRows, RecoveryStates
    <2> QED
      BY <2>1 DEF TypeOK, Replace, Unanswered
  <1>2. HeldInside'
    BY ConstantsAssumption DEF TypeOK, HeldInside, Replace, Step, AttemptRows, Unanswered
  <1>3. attempt[a].token \in Nat /\ attempt[a].granted \in SUBSET Capabilities
    BY DEF TypeOK, AttemptRows
  <1>4. fences' \in [Fences -> FenceRows]
    <2>1. \A f \in Fences : [fences[f] EXCEPT !.state = "replaced"] \in FenceRows
      BY DEF TypeOK, FenceRows, FenceStates
    <2> QED
      BY <2>1 DEF TypeOK, Replace, Unanswered
  <1> QED
    BY <1>1, <1>2, <1>3, <1>4, StoreTyped, GrantTyped
    DEF TypeOK, Replace, connectionVars, capabilityVars,
       tokenVars, providerVars, Unanswered

LEMMA UnsatisfiedTyped == ASSUME TypeOK, NEW a \in Attempts, Unsatisfied(a) PROVE TypeOK'
  <1>1. attempt' \in [Attempts -> AttemptRows]
    <2>1. [attempt[a] EXCEPT !.recovery = "unsatisfied"] \in AttemptRows
      BY DEF TypeOK, AttemptRows, RecoveryStates
    <2> QED
      BY <2>1 DEF TypeOK, Unsatisfied, Unanswered
  <1>2. HeldInside'
    BY ConstantsAssumption DEF TypeOK, HeldInside, Unsatisfied, Step, AttemptRows, Unanswered
  <1> QED
    BY <1>1, <1>2, ConvergeTyped DEF TypeOK, Unsatisfied, connectionVars, capabilityVars,
       tokenVars, providerVars, Unanswered

LEMMA CleanRecoveryTyped == ASSUME TypeOK, NEW a \in Attempts, CleanRecovery(a) PROVE TypeOK'
  <1>1. attempt' \in [Attempts -> AttemptRows]
    <2>1. [attempt[a] EXCEPT !.recovery = "cleaned"] \in AttemptRows
      BY DEF TypeOK, AttemptRows, RecoveryStates
    <2> QED
      BY <2>1 DEF TypeOK, CleanRecovery
  <1>2. HeldInside'
    BY ConstantsAssumption DEF TypeOK, HeldInside, CleanRecovery, Step, AttemptRows
  <1> QED
    BY <1>1, <1>2 DEF TypeOK, CleanRecovery, connectionVars, capabilityVars,
       tokenVars, providerVars

LEMMA GrantsTyped ==
  ASSUME TypeOK, NEW a \in Attempts, NEW granted \in SUBSET Capabilities,
         NEW pc \in CallbackPCs, Grants(a, granted, pc)
  PROVE  /\ attempt' \in [Attempts -> AttemptRows] /\ attempt'[a].pc = pc
         /\ \A b \in Attempts : b # a => attempt'[b] = attempt[b]
         /\ minted' \in Nat /\ spent' \subseteq Nat
  <1>1. \A n \in Nat : /\ [attempt[a] EXCEPT !.granted = granted, !.pc = pc] \in AttemptRows
                       /\ [attempt[a] EXCEPT !.granted = granted, !.pc = pc,
                                            !.token = n] \in AttemptRows
    <2>1. attempt[a] \in AttemptRows
      BY DEF TypeOK
    <2>2. [attempt[a] EXCEPT !.granted = granted, !.pc = pc] \in AttemptRows
      BY <2>1 DEF AttemptRows
    <2>3. \A n \in Nat : [attempt[a] EXCEPT !.granted = granted, !.pc = pc,
                                           !.token = n] \in AttemptRows
      BY <2>1 DEF AttemptRows
    <2> QED
      BY <2>2, <2>3
  <1>2. CASE /\ attempt' = [attempt EXCEPT ![a].granted = granted, ![a].pc = pc]
             /\ UNCHANGED providerVars
    <2>1. minted' \in Nat /\ spent' \subseteq Nat
      BY <1>2 DEF TypeOK, providerVars
    <2>2. attempt' = [attempt EXCEPT ![a] = [attempt[a] EXCEPT !.granted = granted, !.pc = pc]]
      BY <1>2 DEF TypeOK, AttemptRows
    <2>3. attempt'[a] = [attempt[a] EXCEPT !.granted = granted, !.pc = pc]
      BY <2>2 DEF TypeOK
    <2>4. attempt'[a].pc = pc
      BY <2>3 DEF TypeOK, AttemptRows
    <2>5. [attempt[a] EXCEPT !.granted = granted, !.pc = pc] \in AttemptRows
      BY <1>1
    <2> QED
      BY <2>1, <2>2, <2>4, <2>5 DEF TypeOK
  <1>3. CASE /\ minted' = minted + 1 /\ UNCHANGED spent
             /\ attempt' = [attempt EXCEPT ![a].granted = granted, ![a].pc = pc,
                                           ![a].token = minted + 1]
    <2>1. minted' \in Nat /\ spent' \subseteq Nat
      BY <1>3 DEF TypeOK
    <2>2. attempt' = [attempt EXCEPT ![a] = [attempt[a] EXCEPT
            !.granted = granted, !.pc = pc, !.token = minted + 1]]
      BY <1>3 DEF TypeOK, AttemptRows
    <2>3. attempt'[a] = [attempt[a] EXCEPT !.granted = granted, !.pc = pc, !.token = minted + 1]
      BY <2>2 DEF TypeOK
    <2>4. attempt'[a].pc = pc
      BY <2>3 DEF TypeOK, AttemptRows
    <2>5. [attempt[a] EXCEPT !.granted = granted, !.pc = pc, !.token = minted + 1] \in AttemptRows
      <3>1. minted + 1 \in Nat
        BY DEF TypeOK
      <3> QED
        BY <1>1, <3>1
    <2> QED
      BY <2>1, <2>2, <2>4, <2>5 DEF TypeOK
  <1> QED
    BY <1>2, <1>3 DEF Grants

LEMMA ExchangeTyped ==
  ASSUME TypeOK, NEW a \in Attempts, NEW granted \in SUBSET Capabilities, Exchange(a, granted)
  PROVE  TypeOK'
  <1>1. "granted" \in CallbackPCs
    BY DEF CallbackPCs
  <1>2. /\ attempt' \in [Attempts -> AttemptRows] /\ attempt'[a].pc = "granted"
        /\ \A b \in Attempts : b # a => attempt'[b] = attempt[b]
        /\ minted' \in Nat /\ spent' \subseteq Nat
    BY <1>1, GrantsTyped DEF Exchange
  <1>3. HeldInside'
    BY <1>2, ConstantsAssumption DEF TypeOK, HeldInside, Exchange, AttemptRows
  <1> QED
    BY <1>2, <1>3 DEF TypeOK, Exchange, connectionVars, capabilityVars, tokenVars

LEMMA RecoveryExchangeTyped ==
  ASSUME TypeOK, NEW a \in Attempts, NEW granted \in SUBSET Capabilities,
         RecoveryExchange(a, granted)
  PROVE  TypeOK'
  <1>1. PICK pc \in {"refusing", "replacing"} : Grants(a, granted, pc)
    BY DEF RecoveryExchange
  <1>2. /\ attempt' \in [Attempts -> AttemptRows] /\ attempt'[a].pc = pc
        /\ \A b \in Attempts : b # a => attempt'[b] = attempt[b]
        /\ minted' \in Nat /\ spent' \subseteq Nat
    BY <1>1, GrantsTyped DEF CallbackPCs
  <1>3. HeldInside'
    BY <1>1, <1>2, ConstantsAssumption DEF TypeOK, HeldInside, RecoveryExchange
  <1> QED
    BY <1>2, <1>3 DEF TypeOK, RecoveryExchange, connectionVars, capabilityVars, tokenVars

LEMMA ProviderGrantsTyped == ASSUME TypeOK, NEW f \in Fences, ProviderGrants(f) PROVE TypeOK'
  <1>1. \A n \in Nat : [fences[f] EXCEPT !.reply = n] \in FenceRows
    BY DEF TypeOK, FenceRows
  <1>2. fences[f].old \in Nat
    BY DEF TypeOK, FenceRows
  <1>3. /\ fences' \in [Fences -> FenceRows]
        /\ minted' \in Nat /\ spent' \subseteq Nat
    <2>1. CASE fences' = [fences EXCEPT ![f].reply = fences[f].old] /\ UNCHANGED providerVars
      BY <1>1, <1>2, <2>1 DEF TypeOK, providerVars
    <2>2. CASE /\ minted' = minted + 1 /\ spent' = spent \cup {fences[f].old}
               /\ fences' = [fences EXCEPT ![f].reply = minted + 1]
      BY <1>1, <1>2, <2>2 DEF TypeOK
    <2> QED
      BY <2>1, <2>2 DEF ProviderGrants
  <1> QED
    BY <1>3 DEF TypeOK, HeldInside, ProviderGrants, connectionVars, capabilityVars, tokenVars

LEMMA CleanFenceTyped == ASSUME TypeOK, NEW f \in Fences, CleanFence(f) PROVE TypeOK'
  <1>1. [fences[f] EXCEPT !.state = "cleaned"] \in FenceRows
    BY DEF TypeOK, FenceRows, FenceStates
  <1>2. \A a \in Attempts : [attempt[a] EXCEPT !.recovery = "cleaned"] \in AttemptRows
    BY DEF TypeOK, AttemptRows, RecoveryStates
  <1>3. /\ fences' \in [Fences -> FenceRows] /\ attempt' \in [Attempts -> AttemptRows]
    BY <1>1, <1>2 DEF TypeOK, CleanFence
  <1>4. \A a \in Attempts : attempt'[a].pc = attempt[a].pc
    BY DEF TypeOK, CleanFence, AttemptRows
  <1> QED
    BY <1>3, <1>4 DEF TypeOK, HeldInside, CleanFence, connectionVars, capabilityVars,
       tokenVars, providerVars

LEMMA OfferTyped ==
  ASSUME TypeOK, NEW a \in Attempts, NEW cs \in SUBSET Capabilities, NEW gen \in Nat,
         NEW f \in Fences \cup {0}, Offer(a, cs, gen, f)
  PROVE  /\ attempt' \in [Attempts -> AttemptRows]
         /\ UNCHANGED lease => \A b \in Attempts : lease' = b =>
              attempt'[b].pc \in {"leased", "frozen", "replacing", "refusing"}
  <1>1. [NoAttempt EXCEPT !.pc = "offered", !.bound = gen # 0, !.gen = gen,
           !.caps = cs, !.fence = f, !.era = drops,
           !.recovery = IF f = 0 THEN "none" ELSE "open"] \in AttemptRows
    BY DEF TypeOK, NoAttempt, AttemptRows, CallbackPCs, RecoveryStates
  <1> QED
    BY <1>1 DEF TypeOK, Offer, HeldInside, Purpose

LEMMA RequestedTyped == ASSUME TypeOK, NEW c \in Capabilities
                        PROVE  Requested(c) \in SUBSET Capabilities
  BY ConstantsAssumption DEF Requested, Enabled, Preserved, Pending, Closure

LEMMA StartCapabilityEnableTyped ==
  ASSUME TypeOK, NEW a \in Attempts, NEW c \in Capabilities, StartCapabilityEnable(a, c)
  PROVE  TypeOK'
  <1>1. generation + 1 \in Nat /\ Requested(c) \in SUBSET Capabilities
    BY RequestedTyped DEF TypeOK
  <1>2. PICK f \in Fences \cup {0} : Offer(a, Requested(c), generation + 1, f)
    BY DEF StartCapabilityEnable
  <1>3. /\ attempt' \in [Attempts -> AttemptRows]
        /\ UNCHANGED lease => \A b \in Attempts : lease' = b =>
             attempt'[b].pc \in {"leased", "frozen", "replacing", "refusing"}
    BY <1>1, <1>2, OfferTyped
  <1>4. /\ generation' \in Nat /\ cap' \in [Capabilities -> CapabilityStatuses]
    BY DEF TypeOK, StartCapabilityEnable, Authorize, CapabilityStatuses
  <1> QED
    BY <1>3, <1>4 DEF TypeOK, HeldInside, StartCapabilityEnable, connectionVars,
       capabilityVars, tokenVars, providerVars

LEMMA StartTyped ==
  ASSUME TypeOK, NEW a \in Attempts, NEW cs \in SUBSET Capabilities, Start(a, cs)
  PROVE  TypeOK'
  <1>1. /\ attempt' \in [Attempts -> AttemptRows]
        /\ UNCHANGED lease => \A b \in Attempts : lease' = b =>
             attempt'[b].pc \in {"leased", "frozen", "replacing", "refusing"}
    BY OfferTyped DEF Start
  <1> QED
    BY <1>1 DEF TypeOK, HeldInside, Start, connectionVars, capabilityVars,
       tokenVars, providerVars

LEMMA UserTyped == ASSUME TypeOK, UserStep PROVE TypeOK'
  <1>1. ASSUME NEW c \in Capabilities, DisableCapability(c) PROVE TypeOK'
    BY <1>1 DEF TypeOK, HeldInside, DisableCapability, CapabilityStatuses, tokenVars, providerVars
  <1>2. CASE Disconnect
    <2>1. \A a \in Attempts : Invalidated(a) \in AttemptRows /\ Invalidated(a).pc = attempt[a].pc
      <3>1. \A a \in Attempts : attempt[a] \in AttemptRows
        BY DEF TypeOK
      <3> QED
        BY <3>1 DEF Invalidated, AttemptRows
    <2>2. /\ attempt' \in [Attempts -> AttemptRows]
          /\ \A a \in Attempts : attempt'[a].pc = attempt[a].pc
      BY <1>2, <2>1 DEF Disconnect
    <2> QED
      BY <1>2, <2>2 DEF TypeOK, HeldInside, Disconnect, Statuses, CapabilityStatuses, providerVars
  <1>3. CASE Deactivate
    BY <1>3 DEF TypeOK, HeldInside, Deactivate, capabilityVars, tokenVars, providerVars
  <1> QED
    BY <1>1, <1>2, <1>3, StartTyped, StartCapabilityEnableTyped DEF UserStep

LEMMA NextTypeOK == TypeOK /\ [Next]_vars => TypeOK'
  <1> SUFFICES ASSUME TypeOK, [Next]_vars PROVE TypeOK'
    OBVIOUS
  <1>1. ASSUME NEW w \in Workers, WorkerStep(w) PROVE TypeOK'
    BY <1>1, RejectedTyped, AcquireTyped, ClaimTyped, UseCurrentTyped, RefusedTyped,
       SendTyped, ConfirmTyped, CheckTyped, EndTyped, MarkExpiredTyped,
       MarkActionRequiredTyped DEF WorkerStep
  <1>2. ASSUME NEW a \in Attempts, CallbackStep(a) PROVE TypeOK'
    BY <1>2, CallbackTyped, CallbackErrorTyped, ExchangeFailsTyped, ConvergeFailedTyped,
       SaveBoundTyped, SaveTargetlessTyped, RecoveryLeaseTyped, FreezeTyped, ReplaceTyped,
       UnsatisfiedTyped, CallbackEndsTyped, CleanRecoveryTyped, ExchangeTyped,
       RecoveryExchangeTyped DEF CallbackStep
  <1>3. ASSUME NEW f \in Fences, ProviderGrants(f) \/ CleanFence(f) PROVE TypeOK'
    BY <1>3, ProviderGrantsTyped, CleanFenceTyped
  <1>4. CASE LoseLease
    BY <1>4, ConstantsAssumption DEF TypeOK, HeldInside, LoseLease, connectionVars,
       capabilityVars, tokenVars, providerVars
  <1>5. CASE UNCHANGED vars
    BY <1>5 DEF TypeOK, HeldInside, vars, connectionVars, capabilityVars, tokenVars, providerVars
  <1> QED
    BY <1>1, <1>2, <1>3, <1>4, <1>5, UserTyped DEF Next

\* Every reachable state has the declared types, and the refresh lease is held
\* by nobody who has left the block that took it.
THEOREM TypeCorrect == Spec => []TypeOK
  BY InitTypeOK, NextTypeOK, PTL DEF Spec

-----------------------------------------------------------------------------
(* The history of the refresh tokens.                                      *)

\* A fence whose grant the provider may still carry out.
Waiting(f) == fences[f].state # "none" /\ fences[f].reply = 0
\* A token of a callback that has not been stored.
Unstored(a) == attempt[a].token # 0 /\ attempt[a].recovery # "replaced"
\* The rotated token that an open fence is about to store.
Rotated(f) == Open(f) /\ fences[f].reply \notin {0, fences[f].old}

\* What the provider has issued bounds every number in the database.
Issued ==
  /\ refresh <= minted /\ spent \subseteq 1..minted
  /\ \A f \in Fences : fences[f].old <= minted /\ fences[f].reply <= minted
  /\ \A a \in Attempts : attempt[a].token <= minted

\* How far a fence and a callback have come.
Started ==
  /\ \A f \in Fences : /\ fences[f].state = "none" => ~fences[f].sent
                       /\ fences[f].state # "none" => fences[f].old # 0
                       /\ ~fences[f].sent => fences[f].reply = 0
  /\ \A w \in Workers : worker[w].pc = "granting" => fences[worker[w].fence].state # "none"
  /\ \A a \in Attempts : /\ attempt[a].pc = "replacing" => attempt[a].token # 0
                         /\ attempt[a].pc = "done" => attempt[a].token = 0
                         /\ attempt[a].recovery = "replaced"
                              => attempt[a].pc \in {"replacing", "done"}

\* A dead token is fenced, by the very fence whose reply replaces it.
Fenced == refresh \in spent => \E f \in Fences : Rotated(f) /\ fences[f].old = refresh

\* A waiting fence has a live token of its own, and once it is closed that
\* token is no longer in the database.
WaitingAlive ==
  \A f \in Fences : Waiting(f) =>
    /\ fences[f].old \notin spent
    /\ ~Open(f) => fences[f].old # refresh
    /\ \A g \in Fences : g # f /\ Waiting(g) => fences[g].old # fences[f].old

\* What a callback is about to store is new to everybody.
CallbackTokensNew ==
  \A a \in Attempts : Unstored(a) =>
    /\ attempt[a].token \notin spent /\ attempt[a].token # refresh
    /\ \A f \in Fences : fences[f].old # attempt[a].token /\ fences[f].reply # attempt[a].token
    /\ \A b \in Attempts : b # a => attempt[b].token # attempt[a].token

\* So is what a refresh is about to store.
RotatedTokensNew ==
  \A f \in Fences : Rotated(f) =>
    /\ fences[f].reply \notin spent /\ fences[f].reply # refresh
    /\ \A g \in Fences : fences[g].old # fences[f].reply

Tokens == /\ Issued /\ Started /\ OneOpenFence /\ Fenced /\ WaitingAlive
          /\ CallbackTokensNew /\ RotatedTokensNew

LEMMA InitTokens == Init => Tokens
  <1> SUFFICES ASSUME Init PROVE Tokens
    OBVIOUS
  <1>1. /\ \A f \in Fences : /\ fences[f].state = "none" /\ fences[f].old = 0
                             /\ fences[f].reply = 0 /\ ~fences[f].sent
        /\ \A a \in Attempts : attempt[a].token = 0 /\ attempt[a].pc = "none"
        /\ \A w \in Workers : worker[w].pc = "idle"
    BY DEF Init, NoFence, NoAttempt, NoRun
  <1> QED
    BY <1>1 DEF Init, NoAttempt, Tokens, Issued, Started, OneOpenFence, Fenced, WaitingAlive, Waiting,
       CallbackTokensNew, Unstored, RotatedTokensNew, Rotated, Open

-----------------------------------------------------------------------------
(* Most actions store, mint and spend no token, and open or close no fence. *)

Quiet ==
  /\ refresh' = refresh /\ minted' = minted /\ spent' = spent
  /\ \A f \in Fences : /\ fences'[f].old = fences[f].old /\ fences'[f].reply = fences[f].reply
                       /\ fences'[f].state = "none" <=> fences[f].state = "none"
                       /\ fences'[f].state = "open" <=> fences[f].state = "open"
  /\ \A a \in Attempts : /\ attempt'[a].token \in {0, attempt[a].token}
                         /\ attempt'[a].recovery # "replaced" /\ attempt'[a].token # 0
                              => attempt[a].recovery # "replaced"

LEMMA QuietKeeps == ASSUME TypeOK, Tokens, Quiet, Started' PROVE Tokens'
  <1>1. Issued'
    BY DEF TypeOK, Tokens, Quiet, Issued, AttemptRows
  <1>2. OneOpenFence'
    BY DEF Tokens, OneOpenFence, Quiet, Open
  <1>3. Fenced'
    BY DEF Tokens, Fenced, Quiet, Rotated, Open
  <1>4. WaitingAlive'
    BY DEF Tokens, WaitingAlive, Quiet, Waiting, Open
  <1>5. CallbackTokensNew'
    BY DEF Tokens, CallbackTokensNew, Quiet, Unstored
  <1>6. RotatedTokensNew'
    BY DEF Tokens, RotatedTokensNew, Quiet, Rotated, Open
  <1> QED
    BY <1>1, <1>2, <1>3, <1>4, <1>5, <1>6 DEF Tokens

LEMMA QuietRuns ==
  ASSUME TypeOK, Tokens, NEW w \in Workers,
         \/ Rejected(w) \/ Acquire(w) \/ UseCurrent(w) \/ Refused(w) \/ Send(w)
         \/ Check(w) \/ End(w) \/ MarkExpired(w) \/ MarkActionRequired(w)
  PROVE  Quiet /\ Started'
  <1>1. CASE Send(w)
    <2>1. worker[w].fence \in Fences
      BY <1>1 DEF TypeOK, Send, Runs
    <2>2. Quiet
      BY <1>1, <2>1 DEF TypeOK, Send, Quiet, FenceRows, connectionVars, tokenVars, providerVars
    <2>3. /\ \A v \in Workers : worker'[v].pc = "granting" => v # w /\ worker'[v] = worker[v]
          /\ \A f \in Fences : /\ fences'[f].state = fences[f].state
                               /\ fences'[f].old = fences[f].old
                               /\ fences'[f].reply = fences[f].reply
                               /\ fences'[f].sent => fences[f].sent \/ f = worker[w].fence
          /\ fences'[worker[w].fence].sent /\ attempt' = attempt
      BY <1>1, <2>1 DEF TypeOK, Send, Goto, FenceRows, Runs
    <2>4. \A f \in Fences : fences[f].sent => fences'[f].sent
      BY <1>1, <2>1 DEF TypeOK, Send, FenceRows
    <2>5. /\ fences[worker[w].fence].state # "none"
          /\ \A v \in Workers : worker[v].pc = "granting" => worker[v].fence \in Fences
      BY <1>1, <2>1 DEF Send, Tokens, Started, TypeOK, Runs
    <2>6. Started'
      BY <2>3, <2>4, <2>5 DEF Tokens, Started
    <2> QED
      BY <2>2, <2>6
  <1>2. CASE \/ Rejected(w) \/ Acquire(w) \/ UseCurrent(w) \/ Refused(w) \/ Check(w)
             \/ End(w) \/ MarkExpired(w) \/ MarkActionRequired(w)
    <2>1. /\ UNCHANGED <<fences, attempt, refresh, minted, spent>>
          /\ \A v \in Workers : worker'[v].pc = "granting" => worker'[v] = worker[v]
      <3>1. UNCHANGED <<fences, attempt, refresh, minted, spent>>
        BY <1>2 DEF Rejected, Acquire, UseCurrent, Refused, Check, End, MarkExpired,
           MarkActionRequired, tokenVars, providerVars
      <3>2. PICK r \in Runs : worker' = [worker EXCEPT ![w] = r] /\ r.pc # "granting"
        <4>1. CASE Acquire(w)
          <5>1. [worker[w] EXCEPT !.pc = "leased"] \in Runs
            BY DEF TypeOK, Runs, WorkerPCs
          <5>2. [worker[w] EXCEPT !.pc = "leased"].pc = "leased"
            BY DEF TypeOK, Runs
          <5> QED
            BY <4>1, <5>1, <5>2 DEF TypeOK, Acquire, Goto
        <4> DEFINE run(pc) == [NoRun EXCEPT !.pc = pc, !.seen = access]
        <4>5. /\ run("fresh") \in Runs /\ run("fresh").pc = "fresh"
              /\ run("read") \in Runs /\ run("read").pc = "read"
              /\ NoRun \in Runs /\ NoRun.pc = "idle"
          BY NoRows DEF TypeOK, NoRun, Runs, WorkerPCs
        <4> HIDE DEF run
        <4>2. CASE Check(w)
          <5>1. worker' = [worker EXCEPT ![w] = run("fresh")] \/ worker' = [worker EXCEPT ![w] = NoRun]
            BY <4>2 DEF Check, run
          <5> QED
            BY <4>5, <5>1
        <4>3. CASE Rejected(w) \/ UseCurrent(w)
          <5>1. worker' = [worker EXCEPT ![w] = run("fresh")] \/ worker' = [worker EXCEPT ![w] = run("read")]
            BY <4>3 DEF Rejected, UseCurrent, run
          <5> QED
            BY <4>5, <5>1
        <4>4. CASE Refused(w) \/ End(w) \/ MarkExpired(w) \/ MarkActionRequired(w)
          BY <4>4, NoRows DEF Refused, End, MarkExpired, MarkActionRequired, NoRun
        <4> QED
          BY <1>2, <4>1, <4>2, <4>3, <4>4
      <3> QED
        BY <3>1, <3>2 DEF TypeOK
    <2>2. Quiet
      BY <2>1 DEF Quiet
    <2>3. Started'
      BY <2>1 DEF Tokens, Started
    <2> QED
      BY <2>2, <2>3
  <1> QED
    BY <1>1, <1>2

LEMMA QuietCallbacks ==
  ASSUME TypeOK, Tokens, NEW a \in Attempts,
         \/ Callback(a) \/ CallbackError(a) \/ ExchangeFails(a) \/ ConvergeFailed(a)
         \/ RecoveryLease(a) \/ Freeze(a) \/ Unsatisfied(a) \/ CallbackEnds(a)
         \/ CleanRecovery(a)
  PROVE  Quiet /\ Started'
  <1>1. UNCHANGED <<fences, worker, refresh, minted, spent>>
    BY DEF Callback, CallbackError, ExchangeFails, ConvergeFailed, RecoveryLease, Freeze,
       Unsatisfied, CallbackEnds, CleanRecovery, tokenVars, providerVars, Unanswered
  <1>2. /\ \A b \in Attempts : b # a => attempt'[b] = attempt[b]
        /\ attempt'[a].token \in {0, attempt[a].token}
        /\ attempt'[a].recovery # "replaced" /\ attempt'[a].token # 0
             => attempt[a].recovery # "replaced"
        /\ attempt'[a].pc = "done" => attempt'[a].token = 0
        /\ attempt'[a].pc = "replacing"
             => attempt[a].pc = "replacing" /\ attempt'[a].token = attempt[a].token
        /\ attempt'[a].recovery = "replaced" => attempt'[a].pc = "done"
    <2>1. /\ attempt \in [Attempts -> AttemptRows]
          /\ attempt[a].pc = "done" => attempt[a].token = 0
          /\ attempt[a].recovery = "replaced" => attempt[a].pc \in {"replacing", "done"}
      BY DEF TypeOK, Tokens, Started
    <2>2. ASSUME NEW pc \in CallbackPCs \ {"done", "replacing"}, Step(a, pc)
          PROVE  /\ \A b \in Attempts : b # a => attempt'[b] = attempt[b]
                 /\ attempt'[a] = [attempt[a] EXCEPT !.pc = pc] /\ attempt[a] \in AttemptRows
      BY <2>1, <2>2 DEF Step
    <2>3. ASSUME Finish(a)
          PROVE  /\ \A b \in Attempts : b # a => attempt'[b] = attempt[b]
                 /\ attempt'[a].token = 0 /\ attempt'[a].pc = "done"
      BY <2>1, <2>3 DEF Finish, Over, NoAttempt
    <2>4. CASE \/ Callback(a) \/ CallbackError(a) \/ ExchangeFails(a) \/ ConvergeFailed(a)
               \/ RecoveryLease(a) \/ CallbackEnds(a)
      <3>1. \/ Finish(a)
            \/ /\ attempt[a].pc \notin {"done", "replacing"}
               /\ \E pc \in CallbackPCs \ {"done", "replacing"} : Step(a, pc)
        BY <2>4 DEF Callback, Consumable, CallbackError, ExchangeFails, ConvergeFailed,
           RecoveryLease, CallbackEnds, CallbackPCs, Unanswered
      <3>2. CASE Finish(a)
        BY <2>3, <3>2
      <3>3. ASSUME NEW pc \in CallbackPCs \ {"done", "replacing"}, Step(a, pc)
            PROVE  /\ \A b \in Attempts : b # a => attempt'[b] = attempt[b]
                   /\ attempt'[a].pc = pc /\ attempt'[a].token = attempt[a].token
                   /\ attempt'[a].recovery = attempt[a].recovery
        BY <2>2, <3>3 DEF AttemptRows
      <3> QED
        BY <2>1, <3>1, <3>2, <3>3
    <2>5. CASE Freeze(a)
      <3>1. "refusing" \in CallbackPCs \ {"done", "replacing"}
        BY DEF CallbackPCs
      <3>2. CASE Step(a, "refusing")
        BY <2>1, <2>2, <2>5, <3>1, <3>2 DEF AttemptRows, Freeze
      <3>3. CASE attempt' = [attempt EXCEPT ![a].pc = "frozen", ![a].access = access]
        <4>1. /\ \A b \in Attempts : b # a => attempt'[b] = attempt[b]
              /\ attempt'[a] = [attempt[a] EXCEPT !.pc = "frozen", !.access = access]
              /\ attempt[a] \in AttemptRows
          BY <2>1, <3>3
        <4> QED
          BY <2>1, <2>5, <4>1 DEF AttemptRows, Freeze
      <3> QED
        BY <2>1, <2>5, <3>2, <3>3 DEF Freeze
    <2>6. CASE Unsatisfied(a) \/ CleanRecovery(a)
      BY <2>1, <2>6 DEF AttemptRows, Unsatisfied, CleanRecovery, Unanswered
    <2> QED
      BY <2>4, <2>5, <2>6
  <1>3. Quiet
    BY <1>1, <1>2 DEF Quiet
  <1>4. Started'
    BY <1>1, <1>2 DEF Tokens, Started
  <1> QED
    BY <1>3, <1>4

LEMMA QuietRest ==
  ASSUME TypeOK, Tokens,
         \/ LoseLease \/ Deactivate \/ \E c \in Capabilities : DisableCapability(c)
         \/ \E a \in Attempts, cs \in SUBSET Capabilities : Start(a, cs)
         \/ \E a \in Attempts, c \in Capabilities : StartCapabilityEnable(a, c)
         \/ \E f \in Fences : CleanFence(f)
         \/ UNCHANGED vars
  PROVE  Quiet /\ Started'
  <1>1. CASE \/ LoseLease \/ Deactivate \/ \E c \in Capabilities : DisableCapability(c)
             \/ UNCHANGED vars
    <2>1. UNCHANGED <<fences, attempt, worker, refresh, minted, spent>>
      BY <1>1 DEF LoseLease, Deactivate, DisableCapability, vars, tokenVars, providerVars
    <2> QED
      BY <2>1 DEF Quiet, Tokens, Started
  <1>2. ASSUME NEW a \in Attempts, NEW cs, NEW gen, NEW f, Offer(a, cs, gen, f),
               UNCHANGED <<fences, worker, refresh, minted, spent>>
        PROVE  Quiet /\ Started'
    <2>1. /\ \A b \in Attempts : b # a => attempt'[b] = attempt[b]
          /\ attempt'[a].token = 0 /\ attempt'[a].pc = "offered"
          /\ attempt'[a].recovery # "replaced"
      BY <1>2 DEF TypeOK, Offer, NoAttempt, Purpose
    <2>2. Quiet
      BY <1>2, <2>1 DEF Quiet
    <2>3. Started'
      BY <1>2, <2>1 DEF Tokens, Started
    <2> QED
      BY <2>2, <2>3
  <1>3. ASSUME NEW a \in Attempts, NEW cs \in SUBSET Capabilities, Start(a, cs)
        PROVE  Quiet /\ Started'
    BY <1>2, <1>3 DEF Start, tokenVars, providerVars
  <1>4. ASSUME NEW a \in Attempts, NEW c \in Capabilities, StartCapabilityEnable(a, c)
        PROVE  Quiet /\ Started'
    BY <1>2, <1>4 DEF StartCapabilityEnable, tokenVars, providerVars
  <1>5. ASSUME NEW f \in Fences, CleanFence(f) PROVE Quiet /\ Started'
    <2>1. /\ UNCHANGED <<worker, refresh, minted, spent>>
          /\ \A g \in Fences : g # f => fences'[g] = fences[g]
          /\ fences[f].state \in {"confirmed", "replaced"} /\ fences'[f].state = "cleaned"
          /\ fences'[f].old = fences[f].old /\ fences'[f].reply = fences[f].reply
          /\ fences'[f].sent = fences[f].sent
      BY <1>5 DEF TypeOK, CleanFence, FenceRows, tokenVars, providerVars
    <2>2. \A a \in Attempts :
            \/ attempt'[a] = attempt[a]
            \/ /\ attempt[a].pc = "done" /\ attempt'[a].pc = "done"
               /\ attempt'[a].token = attempt[a].token
      BY <1>5 DEF TypeOK, CleanFence, Recoveries, AttemptRows
    <2>3. \A a \in Attempts : attempt[a].pc = "done" => attempt[a].token = 0
      BY DEF Tokens, Started
    <2>4. Quiet
      BY <2>1, <2>2, <2>3 DEF Quiet
    <2>5. Started'
      BY <2>1, <2>2 DEF Tokens, Started, TypeOK, Runs
    <2> QED
      BY <2>4, <2>5
  <1> QED
    BY <1>1, <1>3, <1>4, <1>5

-----------------------------------------------------------------------------
(* The others: a claim, the provider, and whoever stores a token.          *)

LEMMA ClaimTokens == ASSUME TypeOK, Tokens, NEW w \in Workers, Claim(w) PROVE Tokens'
  <1>1. PICK f \in Fences :
          /\ fences[f].state = "none"
          /\ fences' = [fences EXCEPT ![f] =
               [state |-> "open", by |-> IF w \in Writers THEN w ELSE Nobody,
                gen |-> generation, old |-> refresh, access |-> access,
                scopes |-> scopes, sent |-> FALSE, reply |-> 0]]
          /\ worker' = [worker EXCEPT ![w].pc = "granting", ![w].fence = f]
    BY DEF Claim
  <1>2. /\ refresh # 0 /\ (\A g \in Fences : fences[g].state # "open")
        /\ UNCHANGED <<refresh, minted, spent, attempt>>
    BY DEF Claim, Readable, Refreshable, Complete, Unfenced, Open, tokenVars, providerVars
  <1>3. /\ fences'[f].state = "open" /\ fences'[f].old = refresh
        /\ fences'[f].reply = 0 /\ fences'[f].sent = FALSE
        /\ \A g \in Fences : g # f => fences'[g] = fences[g]
    BY <1>1 DEF TypeOK
  <1>4. /\ worker'[w].fence = f
        /\ \A v \in Workers : v # w => worker'[v] = worker[v]
    BY <1>1 DEF TypeOK, Runs
  <1>5. Issued'
    BY <1>2, <1>3, <1>4 DEF Tokens, Issued, TypeOK, FenceRows, AttemptRows
  <1>6. Started'
    <2>1. /\ \A g \in Fences : fences'[g].state # "none" => fences'[g].old # 0
          /\ \A g \in Fences : /\ fences'[g].state = "none" => ~fences'[g].sent
                               /\ ~fences'[g].sent => fences'[g].reply = 0
      BY <1>2, <1>3 DEF Tokens, Started
    <2>2. \A v \in Workers : worker'[v].pc = "granting" => fences'[worker'[v].fence].state # "none"
      <3>1. \A v \in Workers : v # w /\ worker'[v].pc = "granting"
              => fences[worker[v].fence].state # "none" /\ worker[v].fence \in Fences
        BY <1>4 DEF Tokens, Started, TypeOK, Runs
      <3> QED
        BY <1>3, <1>4, <3>1
    <2> QED
      <3>1. \A a \in Attempts : /\ attempt[a].pc = "replacing" => attempt[a].token # 0
                                /\ attempt[a].pc = "done" => attempt[a].token = 0
                                /\ attempt[a].recovery = "replaced"
                                     => attempt[a].pc \in {"replacing", "done"}
        BY DEF Tokens, Started
      <3> QED
        BY <1>2, <2>1, <2>2, <3>1 DEF Started
  <1>7. OneOpenFence'
    BY <1>2, <1>3, <1>4 DEF Tokens, OneOpenFence, Open
  <1>8. Fenced'
    BY <1>2, <1>3, <1>4 DEF Tokens, Fenced, Rotated, OneOpenFence, Open
  <1>9. WaitingAlive'
    BY <1>2, <1>3, <1>4 DEF Tokens, WaitingAlive, Waiting, Open, Fenced, Rotated, Issued, Started, TypeOK, FenceRows
  <1>10. CallbackTokensNew'
    BY <1>2, <1>3, <1>4 DEF Tokens, CallbackTokensNew, Unstored, Issued, TypeOK, AttemptRows, FenceRows
  <1>11. RotatedTokensNew'
    BY <1>2, <1>3 DEF RotatedTokensNew, Rotated, Open
  <1> QED
    BY <1>5, <1>6, <1>7, <1>8, <1>9, <1>10, <1>11 DEF Tokens

LEMMA ProviderGrantsTokens == ASSUME TypeOK, Tokens, NEW f \in Fences, ProviderGrants(f) PROVE Tokens'
  <1>1. /\ fences[f].sent /\ fences[f].reply = 0 /\ fences[f].state # "none"
        /\ fences[f].old # 0 /\ fences[f].old \in Nat
        /\ UNCHANGED <<refresh, attempt, worker>>
    BY DEF ProviderGrants, Tokens, Started, TypeOK, FenceRows, tokenVars
  <1>2. PICK reply \in Nat :
          /\ fences' = [fences EXCEPT ![f].reply = reply]
          /\ \/ reply = fences[f].old /\ minted' = minted /\ spent' = spent
             \/ reply = minted + 1 /\ minted' = minted + 1 /\ spent' = spent \cup {fences[f].old}
    <2>1. fences[f].old \in Nat /\ minted + 1 \in Nat
      BY <1>1 DEF TypeOK
    <2> QED
      BY <2>1 DEF ProviderGrants, providerVars
  <1>3. /\ fences'[f].reply = reply /\ fences'[f].old = fences[f].old
        /\ fences'[f].state = fences[f].state /\ fences'[f].sent
        /\ \A g \in Fences : g # f => fences'[g] = fences[g]
    BY <1>1, <1>2 DEF TypeOK, FenceRows
  <1>4. Issued'
    BY <1>1, <1>2, <1>3 DEF Tokens, Issued, TypeOK, FenceRows, AttemptRows
  <1>5. Started'
    BY <1>1, <1>2, <1>3 DEF Tokens, Started, TypeOK, Runs
  <1>6. OneOpenFence'
    BY <1>1, <1>2, <1>3 DEF Tokens, OneOpenFence, Open
  <1>7. Fenced'
    <2>1. refresh = fences[f].old => Open(f)
      BY <1>1 DEF Tokens, WaitingAlive, Waiting
    <2>2. \A g \in Fences : Rotated(g) => g # f /\ fences'[g] = fences[g]
      BY <1>1, <1>3 DEF Rotated
    <2>3. fences[f].old \in Nat /\ fences[f].old <= minted /\ minted \in Nat
      BY DEF Tokens, Issued, TypeOK, FenceRows
    <2> QED
      BY <1>1, <1>2, <1>3, <2>1, <2>2, <2>3 DEF Tokens, Fenced, Rotated, Open
  <1>8. WaitingAlive'
    BY <1>1, <1>2, <1>3 DEF Tokens, WaitingAlive, Waiting, Open, Fenced, Rotated, Issued, Started, TypeOK, FenceRows
  <1>9. CallbackTokensNew'
    BY <1>1, <1>2, <1>3 DEF Tokens, CallbackTokensNew, Unstored, Issued, TypeOK, AttemptRows, FenceRows
  <1>10. RotatedTokensNew'
    BY <1>1, <1>2, <1>3 DEF Tokens, RotatedTokensNew, Rotated, Open, OneOpenFence, Issued, TypeOK, FenceRows
  <1> QED
    BY <1>4, <1>5, <1>6, <1>7, <1>8, <1>9, <1>10 DEF Tokens

LEMMA ConfirmTokens == ASSUME TypeOK, Tokens, NEW w \in Workers, Confirm(w) PROVE Tokens'
  <1>1. PICK f \in Fences :
          /\ fences[f].reply # 0 /\ fences[f].state = "open" /\ fences[f].old = refresh
          /\ fences' = [fences EXCEPT ![f].state = "confirmed"]
          /\ refresh' = fences[f].reply
    BY DEF Confirm, TypeOK, Runs, Open, Unchanged, Store
  <1>2. UNCHANGED <<attempt, worker, minted, spent>>
    BY DEF Confirm, providerVars
  <1>3. /\ fences'[f].reply = fences[f].reply /\ fences'[f].old = fences[f].old
        /\ fences'[f].state = "confirmed" /\ fences'[f].sent = fences[f].sent
        /\ \A g \in Fences : g # f => fences'[g] = fences[g] /\ fences[g].state # "open"
    BY <1>1 DEF TypeOK, FenceRows, Tokens, OneOpenFence, Open
  <1>4. Issued'
    BY <1>1, <1>2, <1>3 DEF Tokens, Issued, TypeOK, FenceRows, AttemptRows
  <1>5. Started'
    BY <1>1, <1>2, <1>3 DEF Tokens, Started, TypeOK, Runs
  <1>6. OneOpenFence'
    BY <1>1, <1>2, <1>3 DEF Tokens, OneOpenFence, Open
  <1>7. Fenced'
    <2>1. fences[f].reply \notin spent
      <3>1. CASE fences[f].reply = fences[f].old
        BY <1>1, <1>3, <3>1 DEF Tokens, Fenced, Rotated, Open
      <3>2. CASE fences[f].reply # fences[f].old
        BY <1>1, <3>2 DEF Tokens, RotatedTokensNew, Rotated, Open
      <3> QED
        BY <3>1, <3>2
    <2> QED
      BY <1>1, <1>2, <2>1 DEF Fenced
  <1>8. WaitingAlive'
    <2>1. \A g \in Fences : Waiting(g) => g # f /\ ~Open(g) /\ fences'[g] = fences[g]
      BY <1>1, <1>3 DEF Waiting, Open
    <2>2. \A g \in Fences : Waiting(g) => fences[g].old # refresh /\ fences[g].old # fences[f].reply
      <3>1. CASE fences[f].reply = fences[f].old
        BY <1>1, <2>1, <3>1 DEF Tokens, WaitingAlive
      <3>2. CASE fences[f].reply # fences[f].old
        BY <1>1, <2>1, <3>2 DEF Tokens, WaitingAlive, RotatedTokensNew, Rotated, Open
      <3> QED
        BY <3>1, <3>2
    <2>3. \A g \in Fences : fences'[g].state # "none" /\ fences'[g].reply = 0 => Waiting(g)
      BY <1>1, <1>3 DEF Waiting
    <2> QED
      BY <1>1, <1>2, <2>1, <2>2, <2>3 DEF Tokens, WaitingAlive, Waiting, Open
  <1>9. CallbackTokensNew'
    BY <1>1, <1>2, <1>3 DEF Tokens, CallbackTokensNew, Unstored, Issued, TypeOK, AttemptRows, FenceRows
  <1>10. RotatedTokensNew'
    BY <1>1, <1>2, <1>3 DEF Tokens, RotatedTokensNew, Rotated, Open, OneOpenFence, Issued, TypeOK, FenceRows
  <1> QED
    BY <1>4, <1>5, <1>6, <1>7, <1>8, <1>9, <1>10 DEF Tokens

LEMMA SaveTokensTokens ==
  ASSUME TypeOK, Tokens, NEW a \in Attempts, SaveBound(a) \/ SaveTargetless(a)
  PROVE  Tokens'
  <1>1. /\ attempt[a].pc = "granted"
        /\ refresh' = IF attempt[a].token = 0 THEN refresh ELSE attempt[a].token
        /\ \A f \in Fences : fences[f].state # "open"
        /\ UNCHANGED <<fences, worker, minted, spent>> /\ Finish(a)
    BY DEF SaveBound, SaveTargetless, SaveTokens, Store, Unfenced, Open, providerVars
  <1>2. /\ attempt'[a].token = 0 /\ attempt'[a].pc = "done"
        /\ \A b \in Attempts : b # a => attempt'[b] = attempt[b]
    BY <1>1 DEF Finish, Over, NoAttempt, TypeOK
  <1>0. attempt[a].token # 0 => Unstored(a)
    BY <1>1 DEF Unstored, Tokens, Started
  <1>3. Issued'
    BY <1>1, <1>2 DEF Tokens, Issued, TypeOK, FenceRows, AttemptRows
  <1>4. Started'
    BY <1>1, <1>2 DEF Tokens, Started, TypeOK, Runs
  <1>5. OneOpenFence'
    BY <1>1, <1>2 DEF Tokens, OneOpenFence, Open
  <1>6. Fenced'
    BY <1>0, <1>1 DEF Tokens, Fenced, Rotated, Open, CallbackTokensNew
  <1>7. WaitingAlive'
    BY <1>0, <1>1 DEF Tokens, WaitingAlive, Waiting, Open, CallbackTokensNew
  <1>8. CallbackTokensNew'
    <2>1. \A b \in Attempts : attempt'[b].token # 0 => b # a /\ attempt'[b] = attempt[b]
      BY <1>2
    <2>2. \A b \in Attempts : b # a /\ Unstored(b) => attempt[b].token # refresh'
      BY <1>0, <1>1 DEF Tokens, CallbackTokensNew
    <2>3. \A b \in Attempts : attempt'[b].token # 0 /\ attempt'[b].recovery # "replaced"
            => b # a /\ attempt'[b] = attempt[b] /\ Unstored(b)
      BY <2>1 DEF Unstored
    <2>4. \A b, c \in Attempts : Unstored(b) /\ c # b => attempt'[c].token # attempt[b].token
      BY <1>2 DEF Tokens, CallbackTokensNew, Unstored
    <2> QED
      BY <1>1, <2>2, <2>3, <2>4 DEF Tokens, CallbackTokensNew, Unstored
  <1>9. RotatedTokensNew'
    BY <1>1, <1>2 DEF Tokens, RotatedTokensNew, Rotated, Open, OneOpenFence, Issued, TypeOK, FenceRows
  <1> QED
    BY <1>3, <1>4, <1>5, <1>6, <1>7, <1>8, <1>9 DEF Tokens

LEMMA GrantsTokens ==
  ASSUME TypeOK, Tokens, NEW a \in Attempts, NEW granted, NEW pc, Grants(a, granted, pc),
         attempt[a].pc \notin {"replacing", "done"}, pc # "done", pc = "replacing" => attempt'[a].token # 0,
         UNCHANGED <<refresh, fences, worker>>
  PROVE  Tokens'
  <1>1. /\ spent' = spent /\ attempt'[a].pc = pc
        /\ \/ attempt'[a].token = attempt[a].token /\ minted' = minted
           \/ attempt'[a].token = minted + 1 /\ minted' = minted + 1
        /\ attempt'[a].recovery = attempt[a].recovery
        /\ \A b \in Attempts : b # a => attempt'[b] = attempt[b]
    BY DEF Grants, TypeOK, AttemptRows, providerVars
  <1>2. Issued'
    BY <1>1 DEF Tokens, Issued, TypeOK, FenceRows, AttemptRows
  <1>3. Started'
    BY <1>1 DEF Tokens, Started, TypeOK, Runs
  <1>4. OneOpenFence'
    BY <1>1 DEF Tokens, OneOpenFence, Open
  <1>5. Fenced'
    BY <1>1 DEF Tokens, Fenced, Rotated, OneOpenFence, Open
  <1>6. WaitingAlive'
    BY <1>1 DEF Tokens, WaitingAlive, Waiting, Open, Fenced, Rotated, Issued, Started, TypeOK, FenceRows
  <1>7. CallbackTokensNew'
    BY <1>1 DEF Tokens, CallbackTokensNew, Unstored, Issued, TypeOK, AttemptRows, FenceRows
  <1>8. RotatedTokensNew'
    BY <1>1 DEF Tokens, RotatedTokensNew, Rotated, Open, OneOpenFence, Issued, TypeOK, FenceRows
  <1> QED
    BY <1>2, <1>3, <1>4, <1>5, <1>6, <1>7, <1>8 DEF Tokens

LEMMA ReplaceTokens == ASSUME TypeOK, Tokens, NEW a \in Attempts, Replace(a) PROVE Tokens'
  <1>1. /\ attempt[a].token # 0 /\ refresh' = attempt[a].token
        /\ UNCHANGED <<worker, minted, spent>>
        /\ attempt[a].pc = "replacing" /\ attempt[a].recovery = "open" /\ Unstored(a)
    BY DEF Replace, Store, Tokens, Started, providerVars, Unstored, Unanswered
  <1>2. /\ attempt'[a].token = attempt[a].token /\ attempt'[a].pc = attempt[a].pc
        /\ attempt'[a].recovery = "replaced"
        /\ \A b \in Attempts : b # a => attempt'[b] = attempt[b]
    BY DEF Replace, TypeOK, AttemptRows, Unanswered
  <1>3. \A f \in Fences : /\ fences'[f].old = fences[f].old /\ fences'[f].reply = fences[f].reply
                          /\ fences'[f].sent = fences[f].sent /\ fences'[f].state # "open"
                          /\ fences'[f].state = "none" <=> fences[f].state = "none"
    <2>1. PICK f \in Fences : fences[f].state = "open"
                             /\ fences' = [fences EXCEPT ![f].state = "replaced"]
      BY DEF Replace, Open, Unanswered
    <2>2. /\ fences'[f] = [fences[f] EXCEPT !.state = "replaced"] /\ fences[f] \in FenceRows
          /\ \A g \in Fences : g # f => fences'[g] = fences[g] /\ fences[g].state # "open"
      BY <2>1 DEF TypeOK, Tokens, OneOpenFence, Open
    <2> QED
      BY <2>1, <2>2 DEF FenceRows
  <1>4. Issued'
    BY <1>1, <1>2, <1>3 DEF Tokens, Issued, TypeOK, FenceRows, AttemptRows
  <1>5. Started'
    BY <1>1, <1>2, <1>3 DEF Tokens, Started, TypeOK, Runs
  <1>6. OneOpenFence'
    BY <1>1, <1>2, <1>3 DEF Tokens, OneOpenFence, Open
  <1>7. Fenced'
    BY <1>1, <1>2, <1>3 DEF Tokens, Fenced, CallbackTokensNew
  <1>8. WaitingAlive'
    BY <1>1, <1>2, <1>3 DEF Tokens, WaitingAlive, Waiting, Open, CallbackTokensNew
  <1>9. CallbackTokensNew'
    <2>1. \A b \in Attempts : attempt'[b].token # 0 /\ attempt'[b].recovery # "replaced"
            => b # a /\ attempt'[b] = attempt[b] /\ Unstored(b)
      BY <1>2 DEF Unstored
    <2>2. \A b \in Attempts : b # a => attempt[b].token # attempt[a].token
      BY <1>1 DEF Tokens, CallbackTokensNew
    <2>3. \A b \in Attempts : attempt'[b].token = attempt[b].token
      BY <1>2
    <2> QED
      BY <1>1, <1>3, <2>1, <2>2, <2>3 DEF Tokens, CallbackTokensNew, Unstored
  <1>10. RotatedTokensNew'
    BY <1>1, <1>2, <1>3 DEF Tokens, RotatedTokensNew, Rotated, Open, OneOpenFence, Issued, TypeOK, FenceRows
  <1> QED
    BY <1>4, <1>5, <1>6, <1>7, <1>8, <1>9, <1>10 DEF Tokens

LEMMA DisconnectTokens == ASSUME TypeOK, Tokens, Disconnect PROVE Tokens'
  <1>1. refresh' = 0 /\ UNCHANGED <<fences, worker, minted, spent>>
    BY DEF Disconnect, providerVars
  <1>2. \A a \in Attempts : /\ attempt'[a].token = attempt[a].token /\ attempt'[a].pc = attempt[a].pc
                            /\ attempt'[a].recovery = attempt[a].recovery
    BY DEF Disconnect, Invalidated, TypeOK, AttemptRows
  <1>3. Issued'
    BY <1>1, <1>2 DEF Tokens, Issued, TypeOK, FenceRows, AttemptRows
  <1>4. Started'
    BY <1>1, <1>2 DEF Tokens, Started, TypeOK, Runs
  <1>5. OneOpenFence'
    BY <1>1, <1>2 DEF Tokens, OneOpenFence, Open
  <1>6. Fenced'
    BY <1>1, <1>2 DEF Tokens, Fenced, Issued
  <1>7. WaitingAlive'
    BY <1>1, <1>2 DEF Tokens, WaitingAlive, Waiting, Open, Fenced, Rotated, Issued, Started, TypeOK, FenceRows
  <1>8. CallbackTokensNew'
    BY <1>1, <1>2 DEF Tokens, CallbackTokensNew, Unstored, Issued, TypeOK, AttemptRows, FenceRows
  <1>9. RotatedTokensNew'
    BY <1>1, <1>2 DEF Tokens, RotatedTokensNew, Rotated, Open, OneOpenFence, Issued, TypeOK, FenceRows
  <1> QED
    BY <1>3, <1>4, <1>5, <1>6, <1>7, <1>8, <1>9 DEF Tokens

LEMMA NextTokens == ASSUME TypeOK, Tokens, [Next]_vars PROVE Tokens'
  <1>1. ASSUME NEW w \in Workers, WorkerStep(w) PROVE Tokens'
    BY <1>1, QuietRuns, QuietKeeps, ClaimTokens, ConfirmTokens DEF WorkerStep
  <1>2. ASSUME NEW a \in Attempts, CallbackStep(a) PROVE Tokens'
    <2>1. ASSUME NEW granted \in SUBSET Capabilities, Exchange(a, granted) PROVE Tokens'
      BY <2>1, GrantsTokens DEF Exchange, tokenVars
    <2>2. ASSUME NEW granted \in SUBSET Capabilities, RecoveryExchange(a, granted) PROVE Tokens'
      <3>1. /\ UNCHANGED <<refresh, fences, worker>> /\ attempt[a].pc = "frozen"
            /\ \/ Grants(a, granted, "refusing")
               \/ Grants(a, granted, "replacing") /\ attempt'[a].token # 0
        BY <2>2 DEF RecoveryExchange, RecoveryValid, tokenVars
      <3> QED
        BY <3>1, GrantsTokens
    <2> QED
      BY <1>2, <2>1, <2>2, QuietCallbacks, QuietKeeps, SaveTokensTokens, ReplaceTokens
         DEF CallbackStep
  <1>3. ASSUME NEW f \in Fences, ProviderGrants(f) \/ CleanFence(f) PROVE Tokens'
    BY <1>3, QuietRest, QuietKeeps, ProviderGrantsTokens
  <1>4. CASE UserStep \/ LoseLease \/ UNCHANGED vars
    BY <1>4, QuietRest, QuietKeeps, DisconnectTokens DEF UserStep
  <1> QED
    BY <1>1, <1>2, <1>3, <1>4 DEF Next

LEMMA TokensHold == Spec => [](TypeOK /\ Tokens)
  <1>1. TypeOK /\ Tokens /\ [Next]_vars => (TypeOK /\ Tokens)'
    BY NextTypeOK, NextTokens
  <1> QED
    BY <1>1, InitTypeOK, InitTokens, PTL DEF Spec

\* A connection never has two unresolved refresh attempts, whatever leases are
\* lost: the claim transaction looks at the history under the lock.
THEOREM OneOpenFenceHolds == Spec => []OneOpenFence
  <1>1. Tokens => OneOpenFence
    BY DEF Tokens
  <1> QED
    BY <1>1, TokensHold, PTL

\* A refresh token that the provider has rotated away is in the database only
\* behind an open fence, the one whose reply replaces it.
THEOREM DeadTokenFencedHolds == Spec => []DeadTokenFenced
  <1>1. Tokens => DeadTokenFenced
    BY DEF Tokens, Fenced, Rotated, DeadTokenFenced
  <1> QED
    BY <1>1, TokensHold, PTL

\* Only Send asks the provider for anything.
LEMMA OnlySend ==
  ASSUME TypeOK, Tokens, [Next]_vars, NEW f \in Fences, fences'[f].sent, ~fences[f].sent
  PROVE  fences[f].old \notin spent
  <1>1. fences' # fences
    OBVIOUS
  <1>2. ASSUME NEW w \in Workers, Send(w) PROVE fences[f].old \notin spent
    <2>1. worker[w].fence = f /\ worker[w].pc = "granting"
      BY <1>2 DEF Send, TypeOK, FenceRows
    <2>2. fences[f].state # "none" /\ fences[f].reply = 0
      BY <2>1 DEF Tokens, Started
    <2> QED
      BY <2>2 DEF Tokens, WaitingAlive, Waiting
  <1>3. ASSUME NEW w \in Workers, Claim(w) PROVE FALSE
    <2>1. PICK g \in Fences : fences' = [fences EXCEPT ![g] =
            [state |-> "open", by |-> IF w \in Writers THEN w ELSE Nobody,
             gen |-> generation, old |-> refresh, access |-> access,
             scopes |-> scopes, sent |-> FALSE, reply |-> 0]]
      BY <1>3 DEF Claim
    <2>2. fences'[g].sent = FALSE /\ (g # f => fences'[f] = fences[f])
      BY <2>1 DEF TypeOK
    <2> QED
      BY <2>2
  <1>4. ASSUME NEW w \in Workers, Confirm(w) PROVE FALSE
    BY <1>4 DEF Confirm, TypeOK, FenceRows
  <1>5. ASSUME NEW a \in Attempts, Replace(a) PROVE FALSE
    BY <1>5 DEF Replace, TypeOK, FenceRows, Unanswered
  <1>6. ASSUME NEW g \in Fences, ProviderGrants(g) PROVE FALSE
    <2>1. fences[g].sent /\ \E reply : fences' = [fences EXCEPT ![g].reply = reply]
      BY <1>6 DEF ProviderGrants
    <2> QED
      BY <2>1 DEF TypeOK, FenceRows
  <1>7. ASSUME NEW g \in Fences, CleanFence(g) PROVE FALSE
    BY <1>7 DEF CleanFence, TypeOK, FenceRows
  <1>8. ASSUME NEW w \in Workers,
               \/ Rejected(w) \/ Acquire(w) \/ UseCurrent(w) \/ Refused(w) \/ Check(w)
               \/ End(w) \/ MarkExpired(w) \/ MarkActionRequired(w)
        PROVE  FALSE
    BY <1>1, <1>8 DEF Rejected, Acquire, UseCurrent, Refused, Check, End, MarkExpired,
       MarkActionRequired
  <1>9. ASSUME NEW a \in Attempts, CallbackStep(a), ~Replace(a) PROVE FALSE
    <2>1. ASSUME NEW granted \in SUBSET Capabilities,
                 Exchange(a, granted) \/ RecoveryExchange(a, granted)
          PROVE  fences' = fences
      BY <2>1 DEF Exchange, RecoveryExchange
    <2>2. ASSUME \/ Callback(a) \/ CallbackError(a) \/ ExchangeFails(a) \/ ConvergeFailed(a)
                 \/ SaveBound(a) \/ SaveTargetless(a) \/ RecoveryLease(a) \/ Freeze(a)
                 \/ Unsatisfied(a) \/ CallbackEnds(a) \/ CleanRecovery(a)
          PROVE  fences' = fences
      BY <2>2 DEF Callback, CallbackError, ExchangeFails, ConvergeFailed, SaveBound,
         SaveTargetless, RecoveryLease, Freeze, Unsatisfied, CallbackEnds, CleanRecovery, Unanswered
    <2> QED
      BY <1>1, <1>9, <2>1, <2>2 DEF CallbackStep
  <1>10. CASE UserStep \/ LoseLease \/ UNCHANGED vars
    BY <1>1, <1>10 DEF UserStep, Start, StartCapabilityEnable, DisableCapability, Disconnect,
       Deactivate, LoseLease, vars
  <1> QED
    BY <1>2, <1>3, <1>4, <1>5, <1>6, <1>7, <1>8, <1>9, <1>10 DEF Next, WorkerStep

\* No grant is asked for with a token the provider has rotated away: the stale
\* snapshots of other workers and the retries after a lost reply are covered.
THEOREM NoSpentGrantHolds == Spec => NoSpentGrant
  <1>1. TypeOK /\ Tokens /\ [Next]_vars =>
          [\A f \in Fences : fences'[f].sent /\ ~fences[f].sent => fences[f].old \notin spent]_vars
    BY OnlySend
  <1> QED
    BY <1>1, TokensHold, PTL DEF Spec, NoSpentGrant

-----------------------------------------------------------------------------
(* The connection row and its tokens.                                      *)

\* What a step does to the credentials: only four actions store them, all with
\* the user active and the connection connected, before or after.
LEMMA Credentials ==
  ASSUME [Next]_vars
  PROVE  \/ UNCHANGED <<access, refresh, stored, scopes, actual, status>>
         \/ Disconnect
         \/ active /\ status' = "degraded" /\ UNCHANGED <<access, refresh>>
         \/ active /\ status' = "connected"
  <1> DEFINE same == UNCHANGED <<access, refresh, stored, scopes, actual, status>>
             goal == \/ same \/ Disconnect
                     \/ active /\ status' = "degraded" /\ UNCHANGED <<access, refresh>>
                     \/ active /\ status' = "connected"
  <1>1. ASSUME NEW w \in Workers, WorkerStep(w) PROVE goal
    <2>1. CASE \/ Rejected(w) \/ Acquire(w) \/ Claim(w) \/ UseCurrent(w) \/ Refused(w)
               \/ Send(w) \/ Check(w) \/ End(w) \/ MarkActionRequired(w)
      BY <2>1 DEF Rejected, Acquire, Claim, UseCurrent, Refused, Send, Check, End,
         MarkActionRequired, connectionVars, capabilityVars, tokenVars
    <2>2. CASE Confirm(w)
      BY <2>2 DEF Confirm, Unchanged, Refreshable, Complete, Connected, connectionVars
    <2>3. CASE MarkExpired(w)
      BY <2>3 DEF MarkExpired, tokenVars
    <2> QED
      BY <1>1, <2>1, <2>2, <2>3 DEF WorkerStep
  <1>2. ASSUME NEW a \in Attempts, CallbackStep(a) PROVE goal
    <2>1. CASE \/ Callback(a) \/ CallbackError(a) \/ ExchangeFails(a) \/ ConvergeFailed(a)
               \/ RecoveryLease(a) \/ Freeze(a) \/ Unsatisfied(a) \/ CallbackEnds(a)
               \/ CleanRecovery(a)
      BY <2>1 DEF Callback, CallbackError, ExchangeFails, ConvergeFailed, RecoveryLease,
         Freeze, Unsatisfied, CallbackEnds, CleanRecovery, Converge,
         connectionVars, capabilityVars, tokenVars, Unanswered
    <2>2. ASSUME NEW granted \in SUBSET Capabilities,
                 Exchange(a, granted) \/ RecoveryExchange(a, granted)
          PROVE  same
      BY <2>2 DEF Exchange, RecoveryExchange, connectionVars, capabilityVars, tokenVars
    <2>3. CASE SaveBound(a)
      BY <2>3 DEF SaveBound, SaveTokens, BoundTarget, Connected
    <2>4. CASE SaveTargetless(a)
      BY <2>4 DEF SaveTargetless, SaveTokens, EnsureConnection
    <2>5. CASE Replace(a)
      BY <2>5 DEF Replace, Current, Connected, Unanswered
    <2> QED
      BY <1>2, <2>1, <2>2, <2>3, <2>4, <2>5 DEF CallbackStep
  <1>3. ASSUME NEW f \in Fences, ProviderGrants(f) \/ CleanFence(f) PROVE goal
    BY <1>3 DEF ProviderGrants, CleanFence, connectionVars, capabilityVars, tokenVars
  <1>4. CASE UserStep \/ LoseLease \/ UNCHANGED vars
    BY <1>4 DEF UserStep, Start, StartCapabilityEnable, Authorize, DisableCapability, Deactivate,
       LoseLease, vars, connectionVars, capabilityVars, tokenVars
  <1> QED
    BY <1>1, <1>2, <1>3, <1>4 DEF Next

\* A disconnected account keeps no token, however late a refresh or a callback
\* comes back from the provider.
THEOREM NoTokenKeptHolds == Spec => []NoTokenKept
  <1>1. Init => NoTokenKept
    BY DEF Init, NoTokenKept
  <1>2. NoTokenKept /\ [Next]_vars => NoTokenKept'
    BY Credentials DEF NoTokenKept, Disconnect
  <1> QED
    BY <1>1, <1>2, PTL DEF Spec

\* From the moment the deletion of the user's data has begun, no token, scope
\* or status of the connection is written any more.
THEOREM DeletedUserUntouchedHolds == Spec => DeletedUserUntouched
  <1>1. [Next]_vars => [~active => UNCHANGED <<tokenVars, scopes, status, actual>>]_vars
    BY Credentials DEF Disconnect, tokenVars
  <1> QED
    BY <1>1, PTL DEF Spec, DeletedUserUntouched

-----------------------------------------------------------------------------
(* Attempts and what they may still do.                                    *)

\* Nobody's first authorisation outlives a disconnection.
Eras ==
  \A a \in Attempts :
    /\ attempt[a].pc = "none" => ~attempt[a].bound
    /\ attempt[a].pc \notin {"none", "done"} /\ ~attempt[a].bound /\ ~attempt[a].invalid =>
         attempt[a].era = drops

\* An attempt under way keeps what it was made for until it is over.
Moves(a) ==
  /\ attempt[a].pc \notin {"none", "done"}
  /\ \/ attempt'[a].pc = "done"
     \/ /\ attempt'[a].pc # "none" /\ attempt'[a].bound = attempt[a].bound
        /\ attempt'[a].invalid = attempt[a].invalid /\ attempt'[a].era = attempt[a].era

LEMMA StepMoves ==
  ASSUME TypeOK, NEW a \in Attempts, attempt[a].pc \notin {"none", "done"},
         NEW pc \in CallbackPCs \ {"none"}, Step(a, pc)
  PROVE  Moves(a) /\ \A b \in Attempts \ {a} : attempt'[b] = attempt[b]
  BY DEF TypeOK, AttemptRows, Step, Moves

LEMMA FinishMoves ==
  ASSUME TypeOK, NEW a \in Attempts, attempt[a].pc \notin {"none", "done"}, Finish(a)
  PROVE  Moves(a) /\ \A b \in Attempts \ {a} : attempt'[b] = attempt[b]
  BY DEF TypeOK, Finish, Over, NoAttempt, Moves

LEMMA GrantsMoves ==
  ASSUME TypeOK, NEW a \in Attempts, attempt[a].pc \notin {"none", "done"},
         NEW granted, NEW pc \in CallbackPCs \ {"none"}, Grants(a, granted, pc)
  PROVE  Moves(a) /\ \A b \in Attempts \ {a} : attempt'[b] = attempt[b]
  BY DEF TypeOK, AttemptRows, Grants, Moves

\* A callback moves its own attempt.
LEMMA CallbackMoves ==
  ASSUME TypeOK, NEW a \in Attempts, CallbackStep(a)
  PROVE  /\ drops' = drops /\ \A b \in Attempts \ {a} : attempt'[b] = attempt[b]
         /\ Moves(a) \/ (attempt[a].pc = "done" /\ attempt'[a].pc = "done")
  <1> DEFINE mine == Moves(a) /\ \A b \in Attempts \ {a} : attempt'[b] = attempt[b]
  <1>1. drops' = drops
    BY DEF CallbackStep, Callback, CallbackError, ExchangeFails, ConvergeFailed, SaveBound,
       SaveTargetless, RecoveryLease, Freeze, Replace, Unsatisfied, CallbackEnds, CleanRecovery,
       Exchange, RecoveryExchange, connectionVars
  <1>2. CASE Callback(a)
    <2>1. PICK pc \in {"recovering", "exchanging"} : Step(a, pc)
      BY <1>2 DEF Callback
    <2> QED
      BY <1>1, <1>2, <2>1, StepMoves DEF Callback, Consumable, CallbackPCs
  <1>3. CASE CallbackError(a)
    BY <1>1, <1>3, StepMoves, FinishMoves DEF CallbackError, Consumable, CallbackPCs
  <1>4. CASE ExchangeFails(a)
    BY <1>1, <1>4, StepMoves DEF ExchangeFails, CallbackPCs
  <1>5. CASE ConvergeFailed(a) \/ SaveBound(a) \/ SaveTargetless(a) \/ CallbackEnds(a)
    BY <1>1, <1>5, FinishMoves DEF ConvergeFailed, SaveBound, SaveTargetless, CallbackEnds
  <1>6. CASE RecoveryLease(a)
    BY <1>1, <1>6, StepMoves DEF RecoveryLease, CallbackPCs
  <1>7. CASE Freeze(a)
    <2>1. CASE Step(a, "refusing")
      BY <1>1, <1>7, <2>1, StepMoves DEF Freeze, CallbackPCs
    <2>2. CASE attempt' = [attempt EXCEPT ![a].pc = "frozen", ![a].access = access]
      <3>1. attempt[a].pc = "leased" /\ attempt[a] \in AttemptRows
        BY <1>7 DEF Freeze, TypeOK
      <3>2. /\ attempt'[a] = [attempt[a] EXCEPT !.pc = "frozen", !.access = access]
            /\ \A b \in Attempts \ {a} : attempt'[b] = attempt[b]
        BY <2>2 DEF TypeOK
      <3> QED
        BY <1>1, <3>1, <3>2 DEF AttemptRows, Moves
    <2> QED
      BY <1>7, <2>1, <2>2 DEF Freeze
  <1>8. CASE Replace(a) \/ Unsatisfied(a)
    <2>1. attempt[a].pc \in {"replacing", "refusing", "denied"} /\ attempt[a] \in AttemptRows
      BY <1>8 DEF Replace, Unsatisfied, TypeOK
    <2>2. PICK r \in {"replaced", "unsatisfied"} : attempt' = [attempt EXCEPT ![a].recovery = r]
      BY <1>8 DEF Replace, Unsatisfied
    <2>3. /\ attempt'[a] = [attempt[a] EXCEPT !.recovery = r]
          /\ \A b \in Attempts \ {a} : attempt'[b] = attempt[b]
      BY <2>2 DEF TypeOK
    <2> QED
      BY <1>1, <2>1, <2>3 DEF AttemptRows, Moves
  <1>9. CASE CleanRecovery(a)
    <2>1. /\ attempt[a].pc = "done" /\ attempt[a] \in AttemptRows
          /\ attempt' = [attempt EXCEPT ![a].recovery = "cleaned"]
      BY <1>9 DEF CleanRecovery, TypeOK
    <2> QED
      BY <1>1, <2>1 DEF TypeOK, AttemptRows
  <1>10. ASSUME NEW granted \in SUBSET Capabilities,
                Exchange(a, granted) \/ RecoveryExchange(a, granted)
         PROVE  mine
    BY <1>10, GrantsMoves DEF Exchange, RecoveryExchange, CallbackPCs
  <1> QED
    BY <1>1, <1>2, <1>3, <1>4, <1>5, <1>6, <1>7, <1>8, <1>9, <1>10 DEF CallbackStep

\* A new attempt belongs to the time since the last disconnection.
LEMMA OfferMoves ==
  ASSUME TypeOK, NEW a \in Attempts, NEW cs, NEW gen, NEW f, Offer(a, cs, gen, f)
  PROVE  /\ attempt[a].pc = "none" /\ attempt'[a].pc = "offered" /\ attempt'[a].era = drops
         /\ \A b \in Attempts \ {a} : attempt'[b] = attempt[b]
  BY DEF Offer, NoAttempt, TypeOK

LEMMA InvalidatedMeans ==
  ASSUME TypeOK, NEW a \in Attempts
  PROVE  /\ Invalidated(a).pc = attempt[a].pc /\ Invalidated(a).bound = attempt[a].bound
         /\ attempt[a].pc \notin {"none", "done"} /\ ~attempt[a].bound => Invalidated(a).invalid
         /\ attempt[a].bound => Invalidated(a) = attempt[a]
  <1>1. attempt[a] \in AttemptRows
    BY DEF TypeOK
  <1>2. PICK e \in BOOLEAN : e = (attempt[a].invalid \/ (attempt[a].pc \notin {"none", "done"} /\ ~attempt[a].bound))
    OBVIOUS
  <1> DEFINE k == [attempt[a] EXCEPT !.invalid = e]
  <1>3. Invalidated(a) = k
    BY <1>2 DEF Invalidated
  <1>4. k.pc = attempt[a].pc /\ k.bound = attempt[a].bound
    BY <1>1 DEF AttemptRows
  <1>5. k.invalid = e
    BY <1>1 DEF AttemptRows
  <1>6. attempt[a].bound => e = attempt[a].invalid
    BY <1>1, <1>2 DEF AttemptRows
  <1>7. e = attempt[a].invalid => k = attempt[a]
    BY <1>1 DEF AttemptRows
  <1> QED
    BY <1>2, <1>3, <1>4, <1>5, <1>6, <1>7

LEMMA InitEras == Init => Eras
  BY DEF Init, Eras, NoAttempt

LEMMA NextEras == ASSUME TypeOK, Eras, [Next]_vars PROVE Eras'
  <1>1. CASE UNCHANGED <<attempt, drops>>
    BY <1>1 DEF Eras
  <1>2. ASSUME NEW a \in Attempts, CallbackStep(a) PROVE Eras'
    BY <1>2, CallbackMoves DEF Eras, Moves
  <1>3. ASSUME NEW w \in Workers, WorkerStep(w) PROVE UNCHANGED <<attempt, drops>>
    BY <1>3 DEF WorkerStep, Rejected, Acquire, Claim, UseCurrent, Refused, Send, Confirm, Check,
       End, MarkExpired, MarkActionRequired, connectionVars
  <1>4. ASSUME NEW f \in Fences, CleanFence(f) PROVE Eras'
    <2>1. /\ drops' = drops
          /\ \A a \in Attempts : \/ attempt'[a] = attempt[a]
                                 \/ /\ attempt[a].pc = "done"
                                    /\ attempt'[a] = [attempt[a] EXCEPT !.recovery = "cleaned"]
      BY <1>4 DEF CleanFence, Recoveries, connectionVars
    <2>2. ASSUME NEW a \in Attempts
          PROVE  attempt'[a] = attempt[a] \/ attempt'[a].pc = "done"
      <3> DEFINE old == attempt[a]
                 k == [old EXCEPT !.recovery = "cleaned"]
      <3>1. old \in AttemptRows
        BY DEF TypeOK
      <3>2. k.pc = old.pc
        BY <3>1 DEF AttemptRows
      <3>3. attempt'[a] = old \/ (old.pc = "done" /\ attempt'[a] = k)
        BY <2>1
      <3> QED
        BY <3>2, <3>3
    <2> QED
      BY <2>1, <2>2 DEF Eras
  <1>5. ASSUME NEW f \in Fences, ProviderGrants(f) PROVE UNCHANGED <<attempt, drops>>
    BY <1>5 DEF ProviderGrants, connectionVars
  <1>6. ASSUME NEW a \in Attempts, NEW cs, NEW gen, NEW f, Offer(a, cs, gen, f), drops' = drops
        PROVE  Eras'
    BY <1>6, OfferMoves DEF Eras
  <1>7. CASE Disconnect
    <2>1. \A a \in Attempts : attempt'[a] = Invalidated(a)
      BY <1>7 DEF Disconnect
    <2> QED
      BY <2>1, InvalidatedMeans DEF Eras
  <1>8. CASE UserStep
    <2>1. ASSUME NEW a \in Attempts, NEW cs \in SUBSET Capabilities, Start(a, cs) PROVE Eras'
      BY <1>6, <2>1 DEF Start, connectionVars
    <2>2. ASSUME NEW a \in Attempts, NEW c \in Capabilities, StartCapabilityEnable(a, c)
          PROVE  Eras'
      BY <1>6, <2>2 DEF StartCapabilityEnable
    <2>3. ASSUME NEW c \in Capabilities, DisableCapability(c) PROVE UNCHANGED <<attempt, drops>>
      BY <2>3 DEF DisableCapability
    <2>4. Deactivate => UNCHANGED <<attempt, drops>>
      BY DEF Deactivate
    <2> QED
      BY <1>1, <1>7, <1>8, <2>1, <2>2, <2>3, <2>4 DEF UserStep
  <1>9. LoseLease \/ UNCHANGED vars => UNCHANGED <<attempt, drops>>
    BY DEF LoseLease, vars, connectionVars
  <1> QED
    BY <1>1, <1>2, <1>3, <1>4, <1>5, <1>8, <1>9 DEF Next

LEMMA ErasHold == Spec => [](TypeOK /\ Eras)
  <1>1. TypeOK /\ Eras /\ [Next]_vars => (TypeOK /\ Eras)'
    BY NextTypeOK, NextEras
  <1> QED
    BY <1>1, InitTypeOK, InitEras, PTL DEF Spec

\* A failure that comes too late converges nothing.
LEMMA ConvergeLate ==
  ASSUME TypeOK, NEW a \in Attempts, Converge(a), attempt[a].gen # generation
  PROVE  UNCHANGED capabilityVars
  BY DEF Converge, Current, TypeOK, capabilityVars

\* Every step of an older callback leaves the connection alone.
LEMMA StaleSteps ==
  ASSUME TypeOK, NEW a \in Attempts, CallbackStep(a), attempt[a].bound, attempt[a].gen # generation
  PROVE  UNCHANGED <<connectionVars, capabilityVars, tokenVars>>
  <1>1. CASE \/ Callback(a) \/ ExchangeFails(a) \/ RecoveryLease(a) \/ Freeze(a)
             \/ CallbackEnds(a) \/ CleanRecovery(a)
    BY <1>1 DEF Callback, ExchangeFails, RecoveryLease, Freeze, CallbackEnds, CleanRecovery
  <1>2. CASE CallbackError(a) \/ ConvergeFailed(a) \/ Unsatisfied(a)
    BY <1>2, ConvergeLate DEF CallbackError, ConvergeFailed, Unsatisfied
  <1>3. ~SaveBound(a) /\ ~SaveTargetless(a) /\ ~Replace(a)
    BY DEF SaveBound, BoundTarget, SaveTargetless, Replace, Current
  <1>4. ASSUME NEW granted \in SUBSET Capabilities,
               Exchange(a, granted) \/ RecoveryExchange(a, granted)
        PROVE  UNCHANGED <<connectionVars, capabilityVars, tokenVars>>
    BY <1>4 DEF Exchange, RecoveryExchange
  <1> QED
    BY <1>1, <1>2, <1>3, <1>4 DEF CallbackStep

LEMMA OnlyItself ==
  ASSUME TypeOK, Eras, [Next]_vars, NEW a \in Attempts, attempt[a].bound,
         attempt[a].gen # generation, attempt'[a] # attempt[a]
  PROVE  UNCHANGED <<connectionVars, capabilityVars, tokenVars>>
  <1>1. ASSUME NEW b \in Attempts, CallbackStep(b)
        PROVE  UNCHANGED <<connectionVars, capabilityVars, tokenVars>>
    <2>1. b = a
      BY <1>1, CallbackMoves
    <2> QED
      BY <1>1, <2>1, StaleSteps
  <1>2. ASSUME NEW w \in Workers, WorkerStep(w) PROVE FALSE
    BY <1>2 DEF WorkerStep, Rejected, Acquire, Claim, UseCurrent, Refused, Send, Confirm, Check,
       End, MarkExpired, MarkActionRequired
  <1>3. ASSUME NEW f \in Fences, ProviderGrants(f) \/ CleanFence(f)
        PROVE  UNCHANGED <<connectionVars, capabilityVars, tokenVars>>
    BY <1>3 DEF ProviderGrants, CleanFence
  <1>4. ASSUME NEW b \in Attempts, NEW cs, NEW gen, NEW f, Offer(b, cs, gen, f) PROVE FALSE
    <2>1. attempt[b].pc = "none" /\ \A o \in Attempts \ {b} : attempt'[o] = attempt[o]
      BY <1>4, OfferMoves
    <2> QED
      BY <2>1 DEF Eras
  <1>5. ~Disconnect
    <2>1. Disconnect => attempt'[a] = Invalidated(a)
      BY DEF Disconnect
    <2> QED
      BY <2>1, InvalidatedMeans
  <1>6. CASE UserStep
    BY <1>4, <1>5, <1>6 DEF UserStep, Start, StartCapabilityEnable, DisableCapability, Deactivate
  <1>7. ~LoseLease /\ ~UNCHANGED vars
    BY DEF LoseLease, vars
  <1> QED
    BY <1>1, <1>2, <1>3, <1>6, <1>7 DEF Next

\* A callback of an older generation, however late it comes, changes no row of the connection.
THEOREM StaleCallbackHarmlessHolds == Spec => StaleCallbackHarmless
  <1>1. TypeOK /\ Eras /\ [Next]_vars =>
          [\A a \in Attempts :
             attempt[a].bound /\ attempt[a].gen # generation /\ attempt'[a] # attempt[a]
               => UNCHANGED <<connectionVars, capabilityVars, tokenVars>>]_vars
    BY OnlyItself
  <1> QED
    BY <1>1, ErasHold, PTL DEF Spec, StaleCallbackHarmless

\* Only a callback without a connection of its own connects the account again.
LEMMA OnlyTargetless ==
  ASSUME [Next]_vars, status # "connected", status' = "connected"
  PROVE  \E a \in Attempts : SaveTargetless(a)
  <1>1. ASSUME NEW a \in Attempts, CallbackStep(a) PROVE SaveTargetless(a)
    <2>1. ASSUME \/ Callback(a) \/ CallbackError(a) \/ ExchangeFails(a) \/ ConvergeFailed(a)
                 \/ SaveBound(a) \/ RecoveryLease(a) \/ Freeze(a) \/ Replace(a)
                 \/ Unsatisfied(a) \/ CallbackEnds(a) \/ CleanRecovery(a)
          PROVE  status' = status
      BY <2>1 DEF Callback, CallbackError, ExchangeFails, ConvergeFailed, SaveBound,
         RecoveryLease, Freeze, Replace, Unsatisfied, CallbackEnds, CleanRecovery, connectionVars
    <2>2. ASSUME NEW granted \in SUBSET Capabilities,
                 Exchange(a, granted) \/ RecoveryExchange(a, granted)
          PROVE  status' = status
      BY <2>2 DEF Exchange, RecoveryExchange, connectionVars
    <2> QED
      BY <1>1, <2>1, <2>2 DEF CallbackStep
  <1>2. ASSUME NEW w \in Workers, WorkerStep(w) PROVE FALSE
    BY <1>2 DEF WorkerStep, Rejected, Acquire, Claim, UseCurrent, Refused, Send, Confirm, Check,
       End, MarkExpired, MarkActionRequired, connectionVars
  <1>3. ASSUME NEW f \in Fences, ProviderGrants(f) \/ CleanFence(f) PROVE FALSE
    BY <1>3 DEF ProviderGrants, CleanFence, connectionVars
  <1>4. ~UserStep /\ ~LoseLease /\ ~UNCHANGED vars
    BY DEF UserStep, Start, StartCapabilityEnable, DisableCapability, Disconnect, Deactivate,
       LoseLease, vars, connectionVars
  <1> QED
    BY <1>1, <1>2, <1>3, <1>4 DEF Next

\* An authorisation that was under way when the user disconnected connects nothing.
THEOREM NoRevivalHolds == Spec => NoRevival
  <1>1. TypeOK /\ Eras /\ [Next]_vars =>
          [status # "connected" /\ status' = "connected" =>
             \E a \in Attempts : attempt'[a] # attempt[a] /\ attempt[a].era = drops]_vars
    <2> SUFFICES ASSUME TypeOK, Eras, [Next]_vars, status # "connected", status' = "connected"
        PROVE  \E a \in Attempts : attempt'[a] # attempt[a] /\ attempt[a].era = drops
      OBVIOUS
    <2>1. PICK a \in Attempts : SaveTargetless(a)
      BY OnlyTargetless
    <2>2. attempt[a].pc = "granted" /\ ~attempt[a].bound /\ ~attempt[a].invalid /\ Finish(a)
      BY <2>1 DEF SaveTargetless, UnboundTarget
    <2>3. attempt'[a].pc = "done"
      BY <2>2 DEF Finish, Over, NoAttempt, TypeOK
    <2> QED
      BY <2>2, <2>3 DEF Eras
  <1> QED
    BY <1>1, ErasHold, PTL DEF Spec, NoRevival

=============================================================================
