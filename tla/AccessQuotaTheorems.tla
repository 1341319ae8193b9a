------------------------- MODULE AccessQuotaTheorems -------------------------
(***************************************************************************)
(* The theorems about AccessQuota: its invariants and action properties    *)
(* hold for any number of rules, keys, requests, edits, failures and       *)
(* restarts.                                                               *)
(***************************************************************************)
EXTENDS AccessQuotaTypes, AccessQuotaDurability, AccessQuotaSafety

\* Every reachable state of rows, runtime, checkpoints in flight and tickets
\* is ordered as Durability says.
THEOREM DurabilityHolds == Spec => []Durability
BY InitDurability, StepDurability, TypeCorrect, PTL DEF Spec

\* The worker stops only on request, and without an error only when nothing is
\* dirty.
THEOREM StopInvHolds == Spec => []StopInv
<1>1. Init => StopInv
  BY DEF Init, StopInv, CleanStopIsComplete
<1> QED
  BY <1>1, StepStops, TypeCorrect, PTL DEF Spec

\* Service.Stop that returns without an error, begun after the handlers had
\* left, has written all usage: no scan, batch limit or publication in
\* between hides a dirty rule from drain.
THEOREM CleanStopHolds == Spec => []CleanStopIsComplete
<1>1. StopInv => CleanStopIsComplete
  BY DEF StopInv
<1> QED
  BY <1>1, StopInvHolds, PTL

\* A dirty rule always has a token, a notifying request or a worker cycle that
\* covers it: notifyDirty after the unlock, the token channel of capacity one
\* and the re-check after a flush lose no wake-up.
THEOREM NoLostWakeupHolds == Spec => []NoLostWakeup
<1>1. Init => NoLostWakeup
  BY DEF Init, NoLostWakeup, Serving
<1> QED
  BY <1>1, StepWakes, StopInvHolds, TypeCorrect, PTL DEF Spec

-----------------------------------------------------------------------------
\* Removing rules, or renewing their revisions, keeps the rule sets valid.
LEMMA FewerDefinitions ==
    ASSUME NEW f, NEW g, ValidDefinitions(f),
           \A r \in Rules : g[r].rev # 0 => f[r].rev # 0 /\ g[r].period = f[r].period
    PROVE  ValidDefinitions(g)
<1> SUFFICES ASSUME NEW k \in Keys
             PROVE  LET own == {r \in RulesOf(k) : g[r].rev # 0} IN
                    /\ \A r, s \in own : r # s => g[r].period # g[s].period
                    /\ Cardinality({r \in own : g[r].period # 0}) <= MaxPeriodicRules
  BY DEF ValidDefinitions
<1> DEFINE owng == {r \in RulesOf(k) : g[r].rev # 0}
           ownf == {r \in RulesOf(k) : f[r].rev # 0}
           P == {r \in owng : g[r].period # 0}
           Q == {r \in ownf : f[r].period # 0}
<1>1. /\ \A r, s \in ownf : r # s => f[r].period # f[s].period
      /\ Cardinality(Q) <= MaxPeriodicRules
  BY DEF ValidDefinitions
<1>2. P \subseteq Q /\ owng \subseteq ownf
  BY DEF RulesOf
<1>3. IsFiniteSet(Q)
  BY ConstantsAssumption, FS_Subset DEF RulesOf
<1>4. Cardinality(P) <= Cardinality(Q) /\ Cardinality(P) \in Nat /\ Cardinality(Q) \in Nat
  BY <1>2, <1>3, FS_Subset, FS_CardinalityType
<1>5. Cardinality(P) <= MaxPeriodicRules
  BY <1>1, <1>4, ConstantsAssumption
<1>6. \A r, s \in owng : r # s => g[r].period # g[s].period
  BY <1>1, <1>2 DEF RulesOf
<1> QED
  BY <1>5, <1>6

\* The stored rules of a key always have distinct periods, at most one total
\* rule and a bounded number of periodic ones.
THEOREM ValidRowsHolds == Spec => []ValidDefinitions(dbRule)
<1> USE DEF dbVars, rtVars, reqVars, wkVars, lifeVars, boundVars
<1>1. Init => ValidDefinitions(dbRule)
  BY DEF Init
<1>2. ASSUME TypeOK, ValidDefinitions(dbRule), [Next]_vars PROVE ValidDefinitions(dbRule')
  <2>1. ASSUME NEW k \in Keys, NEW w \in Desired(k), UpdateRules(k, w) PROVE ValidDefinitions(dbRule')
    BY <2>1 DEF UpdateRules
  <2>2. ASSUME NEW k \in Keys, DeleteAccessKey(k) PROVE ValidDefinitions(dbRule')
    <3>1. \A r \in Rules : dbRule'[r].rev # 0 => dbRule[r].rev # 0 /\ dbRule'[r].period = dbRule[r].period
      BY <2>2 DEF DeleteAccessKey, AbsentDefinition
    <3> QED
      BY <1>2, <3>1, FewerDefinitions
  <2>3. ASSUME NEW k \in Keys, NEW S \in SUBSET RulesOf(k) \ {{}}, ResetRules(S)
        PROVE  ValidDefinitions(dbRule')
    <3>1. ASSUME NEW r \in Rules
          PROVE  dbRule'[r].rev # 0 => dbRule[r].rev # 0 /\ dbRule'[r].period = dbRule[r].period
      <4>1. CASE r \in S
        <5>1. dbRule[r].rev # 0 /\ dbRule'[r] = [dbRule[r] EXCEPT !.rev = @ + 1]
          BY <2>3, <4>1 DEF ResetRules
        <5> QED
          BY <1>2, <5>1 DEF TypeOK, Definitions
      <4>2. CASE r \notin S
        BY <2>3, <4>2 DEF ResetRules
      <4> QED
        BY <4>1, <4>2
    <3> QED
      BY <1>2, <3>1, FewerDefinitions
  <2>4. CASE UNCHANGED dbRule
    BY <1>2, <2>4
  <2>5. RequestStep \/ Publish \/ PublishFails => UNCHANGED dbRule
    BY DEF RequestStep, Arrive, Admit, Reject, Complete, NotifyDirty, Publish, PublishFails
  <2>6. WorkerStep \/ WorkerEvent => UNCHANGED dbRule
    BY DEF WorkerStep, WorkerWake, WorkerEvent, CollectWake, CollectTimer, GatherKey, GatherDone,
           WriteCommits, WriteFails, Ack, AckDone, RecheckKey, RecheckDone, DrainStart, DrainKey,
           DrainDone, WorkerCancelled
  <2>7. ProcessStep \/ UNCHANGED vars => UNCHANGED dbRule
    BY DEF ProcessStep, Boot, BeginShutdown, StopRequestLog, StopDeadline, Exit, Crash, vars
  <2> QED
    BY <1>2, <2>1, <2>2, <2>3, <2>4, <2>5, <2>6, <2>7 DEF Next, ControlStep
<1>3. TypeOK /\ ValidDefinitions(dbRule) /\ [Next]_vars => ValidDefinitions(dbRule)'
  BY <1>2 DEF ValidDefinitions
<1> QED
  BY <1>1, <1>3, TypeCorrect, PTL DEF Spec

-----------------------------------------------------------------------------
\* A running process is what a present rule shows.
LEMMA PresentIsUp ==
    ASSUME Durability, NEW r \in Rules, rt[r].rev # 0
    PROVE  proc # "down"
BY AbsentRevisions DEF Durability, DownInv

\* Durability, with valid definitions, gives the four durability properties.
LEMMA DurabilityImplies ==
    ASSUME TypeOK, Durability, ValidDefinitions(dbRule)
    PROVE  CleanMeansDurable /\ RowNeverAhead /\ AlwaysBootable /\ NeverPoisoned
<1>1. ASSUME NEW r \in Rules, rt[r].rev # 0
      PROVE  /\ LiveInv(dbRule[r], dbState[r], rt[r], batch[r])
             /\ dbRule[r] \in Definitions /\ dbState[r] \in States /\ rt[r] \in RuntimeRules
             /\ batch[r] \in States
  BY <1>1, PresentIsUp, RuleLive, RuleTypes
<1>2. CleanMeansDurable
  <2> SUFFICES ASSUME NEW r \in Rules, rt[r].rev # 0, ~rt[r].dirty, rt[r].rev = dbState[r].rev,
                      rt[r].ver < MaxUint64
               PROVE  dbState[r] = RestoredState(rt[r])
    BY DEF CleanMeansDurable, Present
  <2> QED
    BY <1>1, CleanIsRow
<1>3. RowNeverAhead
  <2> SUFFICES ASSUME NEW r \in Rules, rt[r].rev # 0, rt[r].rev = dbState[r].rev
               PROVE  /\ dbState[r].ver <= rt[r].ver /\ dbState[r].gen <= rt[r].gen
                      /\ dbState[r].gen = rt[r].gen /\ rt[r].gen < MaxUint64
                           => dbState[r].used <= rt[r].used
    BY DEF RowNeverAhead, Present
  <2>1. Precedes(dbState[r], rt[r])
    BY <1>1, CleanIsRow
  <2> QED
    BY <2>1 DEF Precedes
<1>4. BootAccepts
  <2>1. ASSUME NEW r \in Rules
        PROVE  IF dbRule[r].rev = 0 THEN dbState[r] = AbsentState
               ELSE ValidRestoredState(dbState[r]) /\ RestoreAccepts(dbRule[r], dbState[r])
    <3>1. RowInv(dbRule[r], dbState[r]) /\ dbRule[r] \in Definitions /\ dbState[r] \in States
      BY RuleTypes DEF Durability, RuleInv, LiveInv
    <3> QED
      BY <3>1, RowRestores DEF RowInv
  <2> QED
    BY <2>1 DEF BootAccepts
<1>5. ~Rejected
  BY <1>1, LivePublishes DEF Rejected, ReconcileRejects, Present
<1>6. NeverPoisoned
  <2>1. CASE proc # "down"
    BY <2>1, ApplyBatchKeeps DEF NeverPoisoned
  <2>2. CASE proc = "down"
    BY <2>2, AbsentRevisions DEF Durability, DownInv, Batched, Present, NeverPoisoned, Poisoned
  <2> QED
    BY <2>1, <2>2
<1> QED
  BY <1>2, <1>3, <1>4, <1>5, <1>6 DEF AlwaysBootable

\* A clear dirty flag means the row holds what the runtime holds: no Ack,
\* republication, reset or refused write clears it too early.
THEOREM CleanMeansDurableHolds == Spec => []CleanMeansDurable
BY DurabilityHolds, TypeCorrect, ValidRowsHolds, DurabilityImplies, PTL

\* A row never gets ahead of the runtime that writes it, so the version test
\* of persistAccessQuotaSnapshot never drops newer usage.
THEOREM RowNeverAheadHolds == Spec => []RowNeverAhead
BY DurabilityHolds, TypeCorrect, ValidRowsHolds, DurabilityImplies, PTL

\* Restore accepts the rows of every reachable database, and Reconcile every
\* committed rule set.
THEOREM AlwaysBootableHolds == Spec => []AlwaysBootable
BY DurabilityHolds, TypeCorrect, ValidRowsHolds, DurabilityImplies, PTL

\* No snapshot ever makes a checkpoint transaction fail for the whole batch.
THEOREM NeverPoisonedHolds == Spec => []NeverPoisoned
BY DurabilityHolds, TypeCorrect, ValidRowsHolds, DurabilityImplies, PTL

-----------------------------------------------------------------------------
\* What RowMonotone says of one step.
RowsAdvance ==
    \A r \in Rules :
        dbState[r].rev # 0 /\ dbState'[r].rev = dbState[r].rev
            => /\ dbState'[r].gen >= dbState[r].gen
               /\ dbState'[r].gen = dbState[r].gen /\ dbState[r].gen < MaxUint64
                    => dbState'[r].used >= dbState[r].used

\* A row that stays, moves forward or changes its revision does not go back.
LEMMA RowsForward ==
    ASSUME TypeOK, TypeOK',
           \A r \in Rules : \/ dbState'[r] = dbState[r] \/ dbState'[r].rev = 0
                            \/ dbState'[r].rev # dbState[r].rev \/ Precedes(dbState[r], dbState'[r])
    PROVE  RowsAdvance
<1> SUFFICES ASSUME NEW r \in Rules, dbState[r].rev # 0, dbState'[r].rev = dbState[r].rev
             PROVE  /\ dbState'[r].gen >= dbState[r].gen
                    /\ dbState'[r].gen = dbState[r].gen /\ dbState[r].gen < MaxUint64
                         => dbState'[r].used >= dbState[r].used
  BY DEF RowsAdvance
<1>1. /\ dbState[r].gen \in Nat /\ dbState'[r].gen \in Nat
      /\ dbState[r].used \in Nat /\ dbState'[r].used \in Nat
  BY MaxInt64Assumption, MaxUint64Assumption DEF TypeOK, States
<1> QED
  BY <1>1 DEF Precedes

\* An edit keeps a row or gives it another revision.
LEMMA EditedForward ==
    ASSUME TypeOK, TypeOK', Durability, proc # "down", NEW r \in Rules, EditedFrom(r)
    PROVE  dbState'[r] = dbState[r] \/ dbState'[r].rev = 0 \/ dbState'[r].rev # dbState[r].rev
<1>1. /\ dbRule[r] \in Definitions /\ dbState[r] \in States /\ rt[r] \in RuntimeRules
      /\ batch[r] \in States /\ LiveInv(dbRule[r], dbState[r], rt[r], batch[r])
      /\ dbRule'[r] \in Definitions /\ dbState'[r] \in States
  BY RuleTypes, RuleLive DEF TypeOK
<1>2. dbRule[r].rev = 0 => dbState[r].rev = 0
  BY <1>1, AbsentRevisions DEF LiveInv, RowInv
<1> QED
  BY <1>1, <1>2, LiveEdits, FreshWellFormed DEF EditedFrom

\* No step moves the row of an unchanged revision back.
LEMMA StepAdvances == TypeOK /\ TypeOK' /\ Durability /\ [Next]_vars => RowsAdvance
<1> SUFFICES ASSUME TypeOK, TypeOK', Durability, [Next]_vars PROVE RowsAdvance
  OBVIOUS
<1> USE DEF dbVars, rtVars, reqVars, wkVars, lifeVars, boundVars
<1>1. CASE UNCHANGED dbState
  BY <1>1, RowsForward
<1>2. ASSUME NEW k \in Keys, NEW w \in Desired(k), UpdateRules(k, w) PROVE RowsAdvance
  <2>1. proc # "down"
    BY <1>2 DEF UpdateRules, ControlIdle, Serving
  <2> QED
    BY <1>2, <2>1, UpdateEdits, EditedForward, RowsForward
<1>3. ASSUME NEW k \in Keys, DeleteAccessKey(k) PROVE RowsAdvance
  <2>1. \A r \in Rules : dbState'[r] = dbState[r] \/ dbState'[r].rev = 0
    BY <1>3, AbsentRevisions DEF DeleteAccessKey
  <2> QED
    BY <2>1, RowsForward
<1>4. ASSUME NEW k \in Keys, NEW S \in SUBSET RulesOf(k) \ {{}}, ResetRules(S) PROVE RowsAdvance
  <2>1. proc # "down" /\ S \in SUBSET Rules
    BY <1>4 DEF ResetRules, ControlIdle, Serving, RulesOf
  <2> QED
    BY <1>4, <2>1, ResetEdits, EditedForward, RowsForward
<1>5. CASE WriteCommits \/ WriteFails
  <2>1. proc # "down" /\ (UNCHANGED dbState \/ ApplyBatch)
    BY <1>5 DEF WriteCommits, WriteFails, Serving
  <2> QED
    BY <1>1, <2>1, ApplyBatchKeeps, RowsForward
<1>6. RequestStep \/ Publish \/ PublishFails => UNCHANGED dbState
  BY DEF RequestStep, Arrive, Admit, Reject, Complete, NotifyDirty, Publish, PublishFails
<1>7. WorkerStep \/ WorkerEvent => UNCHANGED dbState \/ WriteCommits \/ WriteFails
  BY DEF WorkerStep, WorkerWake, WorkerEvent, CollectWake, CollectTimer, GatherKey, GatherDone,
         Ack, AckDone, RecheckKey, RecheckDone, DrainStart, DrainKey, DrainDone, WorkerCancelled
<1>8. ProcessStep \/ UNCHANGED vars => UNCHANGED dbState
  BY DEF ProcessStep, Boot, BeginShutdown, StopRequestLog, StopDeadline, Exit, Crash, vars
<1> QED
  BY <1>1, <1>2, <1>3, <1>4, <1>5, <1>6, <1>7, <1>8 DEF Next, ControlStep

\* The row of an unchanged revision never goes back to an older window or a
\* smaller amount, through retried writes, lost replies and restarts.
THEOREM RowMonotoneHolds == Spec => RowMonotone
<1>1. TypeOK /\ TypeOK' /\ Durability /\ [Next]_vars => [RowsAdvance]_vars
  BY StepAdvances
<1> QED
  BY <1>1, TypeCorrect, DurabilityHolds, PTL DEF Spec, RowMonotone, RowsAdvance

-----------------------------------------------------------------------------
\* How the in-memory rule r can change in one step while it stays at its
\* revision.
LEMMA RuleSteps ==
    ASSUME TypeOK, Durability, [Next]_vars, NEW r \in Rules,
           rt[r].rev # 0, rt'[r].rev = rt[r].rev
    PROVE  \/ rt'[r] = rt[r]
           \/ rt'[r] = [rt[r] EXCEPT !.dirty = FALSE]
           \/ \E now \in Nat : rt'[r] = OpenWindow(rt[r], now)
           \/ \E q \in Requests, cost \in Int : rt'[r] = Charge(rt[r], req[q].ticket[r], cost)
           \/ rt'[r] = Reconciled(dbRule[r], rt[r])
<1> USE DEF dbVars, rtVars, reqVars, wkVars, lifeVars, boundVars
<1>1. CASE RequestStep
  <2>1. ASSUME NEW q \in Requests, NEW now \in Times, Admit(q, now)
        PROVE  now \in Nat /\ (rt'[r] = rt[r] \/ rt'[r] = OpenWindow(rt[r], now))
    BY <2>1, ConstantsAssumption DEF Admit
  <2>2. ASSUME NEW q \in Requests, NEW cost \in Costs, Complete(q, cost)
        PROVE  cost \in Int /\ rt'[r] = Charge(rt[r], req[q].ticket[r], cost)
    BY <2>2, ConstantsAssumption DEF Complete
  <2>3. ASSUME NEW q \in Requests, (\E k \in Keys : Arrive(q, k)) \/ Reject(q) \/ NotifyDirty(q)
        PROVE  rt'[r] = rt[r]
    BY <2>3 DEF Arrive, Reject, NotifyDirty
  <2> QED
    BY <1>1, <2>1, <2>2, <2>3 DEF RequestStep
<1>2. CASE ControlStep
  BY <1>2 DEF ControlStep, UpdateRules, DeleteAccessKey, ResetRules, Publish, PublishFails
<1>3. ASSUME NEW a \in Rules, Ack(a)
      PROVE  rt'[r] = rt[r] \/ rt'[r] = [rt[r] EXCEPT !.dirty = FALSE]
  <2>1. rt' = rt \/ rt' = [rt EXCEPT ![a] = [rt[a] EXCEPT !.dirty = FALSE]]
    BY <1>3 DEF Ack
  <2> QED
    BY <2>1 DEF TypeOK
<1>4. WorkerStep \/ WorkerEvent => UNCHANGED rt \/ \E a \in Rules : Ack(a)
  BY DEF WorkerStep, WorkerWake, WorkerEvent, CollectWake, CollectTimer, GatherKey, GatherDone,
         WriteCommits, WriteFails, AckDone, RecheckKey, RecheckDone, DrainStart, DrainKey, DrainDone,
         WorkerCancelled
<1>5. CASE ProcessStep
  <2>1. CASE Boot
    BY <2>1, PresentIsUp DEF Boot
  <2>2. CASE Exit \/ Crash
    BY <2>2, AbsentRevisions DEF Exit, Crash, LoseMemory
  <2> QED
    BY <1>5, <2>1, <2>2 DEF ProcessStep, BeginShutdown, StopRequestLog, StopDeadline
<1>6. CASE UNCHANGED vars
  BY <1>6 DEF vars
<1> QED
  BY <1>1, <1>2, <1>3, <1>4, <1>5, <1>6 DEF Next

\* One step neither overlaps two windows nor lowers usage within one.
LEMMA RuleLater ==
    ASSUME TypeOK, Durability, [Next]_vars, NEW r \in Rules,
           rt[r].rev # 0, rt'[r].rev = rt[r].rev
    PROVE  /\ rt[r].end # Nil /\ rt'[r].gen # rt[r].gen => rt'[r].start >= rt[r].end
           /\ rt'[r].start = rt[r].start => rt'[r].used >= rt[r].used /\ rt'[r].ver >= rt[r].ver
<1>1. rt[r] \in RuntimeRules /\ WellFormed(rt[r].period, rt[r])
  BY PresentIsUp, RuleLive, RuleTypes DEF LiveInv
<1>2. rt[r].used \in Int /\ rt[r].ver \in Int
  BY <1>1, MaxInt64Assumption, MaxUint64Assumption DEF RuntimeRules
<1>3. CASE rt'[r] = rt[r]
  BY <1>2, <1>3
<1>4. CASE rt'[r] = [rt[r] EXCEPT !.dirty = FALSE]
  <2>1. rt'[r].gen = rt[r].gen /\ rt'[r].used = rt[r].used /\ rt'[r].ver = rt[r].ver
    BY <1>1, <1>4 DEF RuntimeRules
  <2> QED
    BY <1>2, <2>1
<1>5. CASE \E now \in Nat : rt'[r] = OpenWindow(rt[r], now)
  BY <1>1, <1>5, OpenWindowKeeps
<1>6. CASE \E q \in Requests, cost \in Int : rt'[r] = Charge(rt[r], req[q].ticket[r], cost)
  BY <1>1, <1>6, ChargeKeeps
<1>7. CASE rt'[r] = Reconciled(dbRule[r], rt[r])
  BY <1>1, <1>2, <1>7, ReconciledKeeps
<1> QED
  BY <1>3, <1>4, <1>5, <1>6, <1>7, RuleSteps

\* Two windows of one revision never overlap, whatever readings of the clock
\* the requests bring and however edits and restarts fall.
THEOREM WindowsDisjointHolds == Spec => WindowsDisjoint
<1>1. TypeOK /\ Durability /\ [Next]_vars =>
        [\A r \in Rules : Present(rt[r]) /\ rt'[r].rev = rt[r].rev /\ rt[r].end # Nil
                           /\ rt'[r].gen # rt[r].gen => rt'[r].start >= rt[r].end]_vars
  BY RuleLater DEF Present
<1> QED
  BY <1>1, TypeCorrect, DurabilityHolds, PTL DEF Spec, WindowsDisjoint

\* Usage is forgotten only with its window: publications, checkpoints and
\* limit edits never lower what has been charged.
THEOREM UsageMonotoneHolds == Spec => UsageMonotone
<1>1. TypeOK /\ Durability /\ [Next]_vars =>
        [\A r \in Rules : Present(rt[r]) /\ rt'[r].rev = rt[r].rev /\ rt'[r].start = rt[r].start
                           => rt'[r].used >= rt[r].used /\ rt'[r].ver >= rt[r].ver]_vars
  BY RuleLater DEF Present
<1> QED
  BY <1>1, TypeCorrect, DurabilityHolds, PTL DEF Spec, UsageMonotone

-----------------------------------------------------------------------------
\* A request whose snapshot gave its key cost limits is admitted under exactly
\* the rules and revisions of that snapshot, whatever was edited, published or
\* restarted in between.
THEOREM AdmittedHolds == Spec => []AdmittedUnderOwnRules
<1>1. Init => SnapshotInv
  BY DEF Init, SnapshotInv, AdmittedUnderOwnRules, NewRequest
<1>2. SnapshotInv => AdmittedUnderOwnRules
  BY DEF SnapshotInv
<1> QED
  BY <1>1, <1>2, StepSnapshots, TypeCorrect, PTL DEF Spec
=============================================================================
