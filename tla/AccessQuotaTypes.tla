-------------------------- MODULE AccessQuotaTypes --------------------------
(***************************************************************************)
(* Type correctness of AccessQuota.                                        *)
(***************************************************************************)
EXTENDS AccessQuota, AccessQuotaOrderProofs

\* reconcileAccessKeyCostLimitRules writes well-typed rows.
LEMMA EditedTypes ==
    ASSUME TypeOK, NEW k \in Keys, NEW w \in Desired(k), NEW r \in RulesOf(k),
           w[r].limit # 0 /\ dbRule[r].rev # 0 /\ dbRule[r].period # w[r].period => Resettable(r)
    PROVE  /\ EditedRule(r, w[r]) \in Definitions
           /\ EditedState(r, w[r]) \in States
<1>1. r \in Rules /\ dbRule[r] \in Definitions /\ dbState[r] \in States
  BY DEF TypeOK, RulesOf
<1>2. w[r].limit \in 0..MaxInt64 /\ w[r].period \in Nat
  <2>1. w[r] \in [limit : {0} \cup Limits, period : {0} \cup Periods]
    BY DEF Desired
  <2>2. {0} \cup Limits \subseteq 0..MaxInt64 /\ {0} \cup Periods \subseteq Nat
    BY ConstantsAssumption, MaxInt64Assumption
  <2> QED
    BY <2>1, <2>2
<1>3. dbRule[r].rev \in 0..MaxUint64 /\ 1 \in 0..MaxUint64
  BY <1>1, MaxUint64Assumption DEF Definitions
<1>4. CASE w[r].limit = 0
  BY <1>4, AbsentTypes DEF EditedRule, EditedState
<1>5. CASE w[r].limit # 0 /\ dbRule[r].rev = 0
  BY <1>5, <1>2, <1>3, AbsentTypes DEF EditedRule, EditedState, Definitions
<1>6. CASE w[r].limit # 0 /\ dbRule[r].rev # 0 /\ dbRule[r].period = w[r].period
  BY <1>6, <1>1, <1>2, <1>3 DEF EditedRule, EditedState, Definitions
<1>7. CASE w[r].limit # 0 /\ dbRule[r].rev # 0 /\ dbRule[r].period # w[r].period
  <2>1. dbRule[r].rev + 1 \in 0..MaxUint64
    BY <1>7, <1>3, MaxUint64Assumption DEF Resettable
  <2> QED
    BY <2>1, <1>7, <1>2, FreshStateType DEF EditedRule, EditedState, ResetState, Definitions
<1> QED
  BY <1>4, <1>5, <1>6, <1>7

\* A request that has not arrived is well typed.
LEMMA NewRequestType == NewRequest \in RequestRecords
BY MaxUint64Assumption DEF NewRequest, RequestRecords, NoTicket

\* The initial states are well typed.
LEMMA InitTypeOK == Init => TypeOK
<1> SUFFICES ASSUME Init PROVE TypeOK
  OBVIOUS
<1>1. dbRule \in [Rules -> Definitions]
  <2>1. ASSUME NEW r \in Rules PROVE dbRule[r] \in Definitions
    <3>1. dbRule[r] \in DefinitionsOf(r)
      BY DEF Init
    <3>2. Limits \subseteq 0..MaxInt64 /\ PeriodChoices(r) \subseteq Nat /\ 1 \in 0..MaxUint64
      BY ConstantsAssumption, MaxInt64Assumption, MaxUint64Assumption DEF PeriodChoices
    <3> QED
      BY <3>1, <3>2, AbsentTypes DEF DefinitionsOf, Definitions
  <2> QED
    BY <2>1 DEF Init
<1>2. dbState \in [Rules -> States]
  BY AbsentTypes DEF Init
<1>3. rt \in [Rules -> RuntimeRules] /\ boot \in [Rules -> States] /\ batch \in [Rules -> States]
  BY AbsentTypes DEF Init, NoRuntime, NoBatch
<1>4. req \in [Requests -> RequestRecords]
  BY NewRequestType DEF Init
<1> QED
  BY <1>1, <1>2, <1>3, <1>4 DEF Init, TypeOK

\* The gateway's requests keep every variable well typed.
LEMMA RequestStepTypeOK == TypeOK /\ RequestStep => TypeOK'
<1> SUFFICES ASSUME TypeOK, NEW q \in Requests,
                    \/ \E k \in Keys : Arrive(q, k)
                    \/ \E now \in Times : Admit(q, now)
                    \/ Reject(q)
                    \/ \E cost \in Costs : Complete(q, cost)
                    \/ NotifyDirty(q)
             PROVE  TypeOK'
  BY DEF RequestStep
<1> USE DEF dbVars, rtVars, reqVars, wkVars, lifeVars, boundVars
<1>0. req[q] \in RequestRecords
  BY DEF TypeOK
<1>1. ASSUME NEW k \in Keys, Arrive(q, k) PROVE TypeOK'
  <2>1. [r \in Rules |-> IF KeyOf[r] = k THEN rt[r].rev ELSE 0] \in [Rules -> 0..MaxUint64]
    BY MaxUint64Assumption DEF TypeOK, RuntimeRules
  <2>2. req' \in [Requests -> RequestRecords]
    BY <1>0, <1>1, <2>1 DEF Arrive, TypeOK, RequestRecords
  <2>3. UNCHANGED <<dbVars, rtVars, notify, wkVars, ctl, lifeVars, boundVars>>
    BY <1>1 DEF Arrive
  <2> QED
    BY <2>2, <2>3 DEF TypeOK
<1>2. ASSUME NEW now \in Times, Admit(q, now) PROVE TypeOK'
  <2>1. rt' \in [Rules -> RuntimeRules]
    BY <1>2, OpenWindowType, ConstantsAssumption DEF Admit, TypeOK
  <2>2. \A r \in Rules : rt[r].rev \in 0..MaxUint64 /\ rt'[r].gen \in 0..MaxUint64
    BY <2>1 DEF TypeOK, RuntimeRules
  <2>3. [r \in Rules |-> IF r \in RulesOf(req[q].key) THEN [rev |-> rt[r].rev, gen |-> rt'[r].gen]
                                                     ELSE NoTicket[r]]
          \in [Rules -> [rev : 0..MaxUint64, gen : 0..MaxUint64]]
    BY <2>2, MaxUint64Assumption DEF NoTicket
  <2>4. req' \in [Requests -> RequestRecords]
    BY <1>0, <1>2, <2>3 DEF Admit, TypeOK, RequestRecords
  <2>5. notify' \subseteq Requests
    BY <1>2 DEF Admit, TypeOK
  <2> QED
    BY <1>2, <2>1, <2>4, <2>5 DEF Admit, TypeOK
<1>3. CASE Reject(q)
  <2>1. [NewRequest EXCEPT !.phase = "rejected"] \in RequestRecords
    BY NewRequestType DEF RequestRecords
  <2> QED
    BY <1>3, <2>1 DEF Reject, TypeOK
<1>4. ASSUME NEW cost \in Costs, Complete(q, cost) PROVE TypeOK'
  <2>1. rt' \in [Rules -> RuntimeRules]
    BY <1>4, ChargeType, ConstantsAssumption DEF Complete, TypeOK
  <2>2. [NewRequest EXCEPT !.phase = "done", !.key = req[q].key,
                           !.ticket = req[q].ticket, !.cost = cost] \in RequestRecords
    BY <1>0, NewRequestType DEF RequestRecords
  <2>3. req' \in [Requests -> RequestRecords]
    <3>1. req' = [req EXCEPT ![q] = [NewRequest EXCEPT !.phase = "done", !.key = req[q].key,
                                       !.ticket = req[q].ticket, !.cost = cost]]
      BY <1>4 DEF Complete
    <3>2. req \in [Requests -> RequestRecords]
      BY DEF TypeOK
    <3> QED
      BY <2>2, <3>1, <3>2
  <2>4. notify' \subseteq Requests
    BY <1>4 DEF Complete, TypeOK
  <2>5. UNCHANGED <<dbVars, snapRev, boot, wkVars, ctl, lifeVars, boundVars>>
    BY <1>4 DEF Complete
  <2> QED
    BY <2>1, <2>3, <2>4, <2>5 DEF TypeOK
<1>5. CASE NotifyDirty(q)
  BY <1>5 DEF NotifyDirty, TypeOK
<1> QED
  BY <1>1, <1>2, <1>3, <1>4, <1>5

\* Edits, resets, deletions and publications keep every variable well typed.
LEMMA ControlStepTypeOK == TypeOK /\ ControlStep => TypeOK'
<1> SUFFICES ASSUME TypeOK, ControlStep PROVE TypeOK'
  OBVIOUS
<1> USE DEF dbVars, rtVars, reqVars, wkVars, lifeVars, boundVars
<1>0. ASSUME CommitOutcome PROVE ctl' \in {"idle", "committed", "recovering"} /\ faults' \in Nat
  BY <1>0 DEF CommitOutcome, TypeOK
<1>1. ASSUME NEW k \in Keys, NEW w \in Desired(k), UpdateRules(k, w) PROVE TypeOK'
  <2>1. \A r \in RulesOf(k) : EditedRule(r, w[r]) \in Definitions /\ EditedState(r, w[r]) \in States
    BY <1>1, EditedTypes DEF UpdateRules
  <2>2. dbRule' \in [Rules -> Definitions] /\ dbState' \in [Rules -> States]
    BY <1>1, <2>1 DEF UpdateRules, TypeOK
  <2>3. issued' \subseteq Rules
    BY <1>1 DEF UpdateRules, TypeOK, RulesOf
  <2> QED
    BY <1>0, <1>1, <2>2, <2>3 DEF UpdateRules, TypeOK
<1>2. ASSUME NEW k \in Keys, DeleteAccessKey(k) PROVE TypeOK'
  <2>1. dbRule' \in [Rules -> Definitions] /\ dbState' \in [Rules -> States]
    BY <1>2, AbsentTypes DEF DeleteAccessKey, TypeOK
  <2> QED
    BY <1>0, <1>2, <2>1 DEF DeleteAccessKey, TypeOK
<1>3. ASSUME NEW S \in SUBSET Rules, ResetRules(S) PROVE TypeOK'
  <2>1. ASSUME NEW r \in S
        PROVE  /\ dbRule[r].rev + 1 \in 0..MaxUint64
               /\ [dbRule[r] EXCEPT !.rev = @ + 1] \in Definitions
    BY <1>3, MaxUint64Assumption DEF ResetRules, Resettable, TypeOK, Definitions
  <2>2. dbRule' \in [Rules -> Definitions] /\ dbState' \in [Rules -> States]
    BY <1>3, <2>1, FreshStateType DEF ResetRules, TypeOK, ResetState
  <2> QED
    BY <1>0, <1>3, <2>2 DEF ResetRules, TypeOK
<1>4. CASE Publish
  <2>1. rt' \in [Rules -> RuntimeRules]
    BY <1>4, ReconciledType DEF Publish, TypeOK
  <2> QED
    BY <1>4, <2>1 DEF Publish, TypeOK
<1>5. CASE PublishFails
  BY <1>5 DEF PublishFails, TypeOK
<1>6. \A k \in Keys : RulesOf(k) \subseteq Rules
  BY DEF RulesOf
<1> QED
  BY <1>1, <1>2, <1>3, <1>4, <1>5, <1>6 DEF ControlStep

\* A scan of DirtySnapshots visits keys and finds rules.
LEMMA ScanTypes ==
    ASSUME TypeOK
    PROVE  /\ LiveKeys \subseteq Keys
           /\ Batched \subseteq Rules
           /\ \A k \in Keys : DirtyRules(k) \subseteq Rules
BY ConstantsAssumption DEF TypeOK, LiveKeys, LiveRules, Batched, DirtyRules, RulesOf

\* A checkpoint transaction leaves well-typed rows.
LEMMA ApplyBatchType ==
    ASSUME TypeOK, ApplyBatch
    PROVE  dbState' \in [Rules -> States]
BY DEF TypeOK, ApplyBatch, Persisted

\* The end of a flush leaves the worker in its loop or in drain.
LEMMA FlushReturnsType ==
    ASSUME TypeOK, FlushReturns
    PROVE  wphase' \in {"idle", "loop"} /\ todo' \subseteq Keys
BY ScanTypes DEF TypeOK, FlushReturns, BeginScan

\* An empty batch is well typed.
LEMMA NoBatchType == NoBatch \in [Rules -> States]
BY AbsentTypes DEF NoBatch

\* The request-log worker keeps every variable well typed.
LEMMA WorkerStepTypeOK == TypeOK /\ (WorkerStep \/ WorkerEvent) => TypeOK'
<1> SUFFICES ASSUME TypeOK, WorkerStep \/ WorkerEvent PROVE TypeOK'
  OBVIOUS
<1> USE DEF dbVars, rtVars, reqVars, wkVars, lifeVars, boundVars
<1>1. CASE WorkerWake
  BY <1>1 DEF WorkerWake, TypeOK
<1>2. CASE CollectWake
  BY <1>2 DEF CollectWake, TypeOK
<1>3. CASE CollectTimer
  BY <1>3, ScanTypes DEF CollectTimer, TypeOK, BeginScan
<1>4. CASE GatherKey
  <2>1. PICK pick \in SUBSET DirtyRules(MinKey(todo)) :
            /\ batch' = [r \in Rules |-> IF r \in pick THEN RestoredState(rt[r]) ELSE batch[r]]
            /\ todo' \in {{}, todo \ {MinKey(todo)}}
    BY <1>4 DEF GatherKey
  <2>2. batch' \in [Rules -> States]
    BY <2>1, RestoredStateType DEF TypeOK
  <2>3. todo' \subseteq Keys
    BY <2>1 DEF TypeOK
  <2> QED
    BY <1>4, <2>2, <2>3 DEF GatherKey, TypeOK
<1>5. CASE GatherDone
  BY <1>5, FlushReturnsType DEF GatherDone, TypeOK
<1>6. CASE WriteCommits
  BY <1>6, ApplyBatchType DEF WriteCommits, TypeOK
<1>7. CASE WriteFails
  <2>1. dbState' \in [Rules -> States]
    BY <1>7, ApplyBatchType DEF WriteFails, TypeOK
  <2>2. batch' \in [Rules -> States]
    BY <1>7, NoBatchType DEF WriteFails
  <2>3. faults' \in Nat
    BY <1>7 DEF WriteFails, TypeOK
  <2>4. wphase' \in {"idle", "stopped"} /\ stopErr' \in BOOLEAN
    BY <1>7 DEF WriteFails, TypeOK
  <2> QED
    BY <1>7, <2>1, <2>2, <2>3, <2>4 DEF WriteFails, TypeOK
<1>8. ASSUME NEW r \in Rules, Ack(r) PROVE TypeOK'
  <2>1. rt' \in [Rules -> RuntimeRules]
    <3>1. rt[r] \in RuntimeRules
      BY DEF TypeOK
    <3>2. [rt[r] EXCEPT !.dirty = FALSE] \in RuntimeRules
      BY <3>1 DEF RuntimeRules
    <3>3. rt' = rt \/ rt' = [rt EXCEPT ![r] = [rt[r] EXCEPT !.dirty = FALSE]]
      BY <1>8 DEF Ack
    <3> QED
      BY <3>2, <3>3 DEF TypeOK
  <2>2. batch' \in [Rules -> States]
    BY <1>8, AbsentTypes DEF Ack, TypeOK
  <2> QED
    BY <1>8, <2>1, <2>2 DEF Ack, TypeOK
<1>9. CASE AckDone
  BY <1>9, ScanTypes DEF AckDone, TypeOK, BeginScan
<1>10. CASE RecheckKey
  <2>1. wake' \in BOOLEAN /\ todo' \subseteq Keys
        /\ wphase' \in {"idle", "loop", "recheck"}
    BY <1>10, FlushReturnsType DEF RecheckKey, TypeOK
  <2> QED
    BY <1>10, <2>1 DEF RecheckKey, TypeOK
<1>11. CASE RecheckDone
  BY <1>11, FlushReturnsType DEF RecheckDone, TypeOK
<1>12. CASE DrainStart
  BY <1>12, ScanTypes DEF DrainStart, TypeOK, BeginScan
<1>13. CASE DrainKey
  <2>1. todo' \subseteq Keys /\ wphase' \in {"loop", "stopped", "gather"}
    BY <1>13, ScanTypes DEF DrainKey, TypeOK, BeginScan
  <2> QED
    BY <1>13, <2>1 DEF DrainKey, TypeOK
<1>14. CASE DrainDone
  BY <1>14 DEF DrainDone, TypeOK
<1>15. CASE WorkerCancelled
  BY <1>15 DEF WorkerCancelled, TypeOK
<1>16. CASE WorkerEvent
  BY <1>16 DEF WorkerEvent, TypeOK
<1> QED
  BY <1>1, <1>2, <1>3, <1>4, <1>5, <1>6, <1>7, <1>8, <1>9, <1>10, <1>11, <1>12, <1>13, <1>14,
     <1>15, <1>16 DEF WorkerStep

\* Start-up, shutdown and crashes keep every variable well typed.
LEMMA ProcessStepTypeOK == TypeOK /\ ProcessStep => TypeOK'
<1> SUFFICES ASSUME TypeOK, ProcessStep PROVE TypeOK'
  OBVIOUS
<1> USE DEF dbVars, rtVars, reqVars, wkVars, lifeVars, boundVars
<1>1. CASE Boot
  <2>1. rt' \in [Rules -> RuntimeRules]
    BY <1>1, RestoredType DEF Boot, TypeOK
  <2> QED
    BY <1>1, <2>1 DEF Boot, TypeOK
<1>2. CASE BeginShutdown
  BY <1>2 DEF BeginShutdown, TypeOK
<1>3. CASE StopRequestLog
  BY <1>3 DEF StopRequestLog, TypeOK
<1>4. CASE StopDeadline
  BY <1>4 DEF StopDeadline, TypeOK
<1>5. ASSUME LoseMemory, dbVars' = dbVars, writes' \in Nat, faults' \in Nat, restarts' \in Nat
      PROVE  TypeOK'
  <2>1. \A f \in {"new", "gone"} : [NewRequest EXCEPT !.phase = f] \in RequestRecords
    BY NewRequestType DEF RequestRecords
  <2>2. req' \in [Requests -> RequestRecords]
    BY <1>5, <2>1 DEF LoseMemory
  <2>3. rt' \in [Rules -> RuntimeRules] /\ boot' \in [Rules -> States] /\ batch' \in [Rules -> States]
    BY <1>5, AbsentTypes DEF LoseMemory, NoRuntime, NoBatch
  <2> QED
    BY <1>5, <2>2, <2>3 DEF LoseMemory, TypeOK
<1>6. CASE Exit
  BY <1>5, <1>6 DEF Exit, TypeOK
<1>7. CASE Crash
  BY <1>5, <1>7 DEF Crash, TypeOK
<1> QED
  BY <1>1, <1>2, <1>3, <1>4, <1>6, <1>7 DEF ProcessStep

\* Every reachable state is well typed, for every choice of keys, rules,
\* costs, limits and bounds: no charge leaves the int64 range, no version,
\* generation or revision the uint64 range.
THEOREM TypeCorrect == Spec => []TypeOK
<1>1. TypeOK /\ UNCHANGED vars => TypeOK'
  BY DEF vars, dbVars, rtVars, reqVars, wkVars, lifeVars, boundVars, TypeOK
<1>2. TypeOK /\ [Next]_vars => TypeOK'
  BY <1>1, RequestStepTypeOK, ControlStepTypeOK, WorkerStepTypeOK, ProcessStepTypeOK DEF Next
<1> QED
  BY <1>2, InitTypeOK, PTL DEF Spec
=============================================================================
