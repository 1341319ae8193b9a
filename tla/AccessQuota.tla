----------------------------- MODULE AccessQuota -----------------------------
(***************************************************************************)
(* Access key cost limits from admission to disk: the in-memory usage      *)
(* (accessquota.Runtime), the rows it is checkpointed to, the control      *)
(* plane that edits and publishes the rules (control.Service,              *)
(* state.Manager), the gateway requests that admit and complete against    *)
(* them, and the request-log worker that writes checkpoints, through       *)
(* crashes, restarts and graceful shutdown.                                *)
(*                                                                         *)
(* An accessquota call that holds one entry's lock is one step: lockEntry  *)
(* takes the entry's mutex under runtime.mu, and Reconcile replaces the    *)
(* entries under runtime.mu and each old entry's mutex. A call that locks  *)
(* several entries in turn (DirtySnapshots) is one step per entry.         *)
(***************************************************************************)
EXTENDS AccessQuotaRules, FiniteSets

CONSTANTS
    Rules,             \* IDs of access_key_cost_limit_rules rows, never reused
    TotalRules,        \* those of kind total; the kind of a row never changes
    Keys,              \* access key IDs
    KeyOf,             \* the key a rule belongs to
    Requests,          \* gateway requests, each used once
    Limits, Periods,   \* what an administrator may enter
    Costs,             \* estimates a finished request may report
    Times,             \* wall-clock readings, in any order
    BatchSize,         \* batchSize of the request-log worker
    MaxPeriodicRules,  \* accessquota.MaxPeriodicRules
    MaxWrites,         \* bound: control-plane transactions
    MaxFaults,         \* bound: database and publication failures
    MaxRestarts,       \* bound: crashes and shutdowns
    LogEvents          \* whether log events also start worker cycles

ASSUME ConstantsAssumption ==
    /\ TotalRules \subseteq Rules
    /\ IsFiniteSet(Rules)
    /\ Keys \subseteq Nat
    /\ KeyOf \in [Rules -> Keys]
    /\ Limits \subseteq 1..MaxInt64
    /\ Periods \subseteq Nat \ {0}
    /\ Costs \subseteq Int
    /\ Times \subseteq Nat
    /\ BatchSize \in Nat \ {0}
    /\ {MaxPeriodicRules, MaxWrites, MaxFaults, MaxRestarts} \subseteq Nat
    /\ LogEvents \in BOOLEAN

VARIABLES
    dbRule,    \* access_key_cost_limit_rules, by ID
    dbState,   \* access_key_cost_limit_states, by rule ID
    issued,    \* rule IDs the autoincrement column has handed out
    rt,        \* Runtime.entries, flattened to rules
    snapRev,   \* Revision of Manager.current
    boot,      \* what this process restored (used by properties only)
    req,       \* the requests
    notify,    \* requests between releasing the entry and calling notifyDirty
    wphase,    \* where the request-log worker is
    todo,      \* keys its current scan has still to visit
    batch,     \* the snapshots it is writing
    wake,      \* Service.quotaWake holds a token
    draining,  \* the worker runs Service.drain
    ctl,       \* where the holder of control.Service.writeMu is
    proc,      \* the process: up, closing (Coordinator.closing) or down
    stopReq,   \* Service.stopRequested is closed
    stopErr,   \* Service.shutdownErr is set
    forced,    \* Stop was called with handlers active (used by properties only)
    writes, faults, restarts   \* how much of each bound is used

dbVars == <<dbRule, dbState, issued>>
rtVars == <<rt, snapRev, boot>>
reqVars == <<req, notify>>
wkVars == <<wphase, todo, batch, wake, draining>>
lifeVars == <<proc, stopReq, stopErr, forced>>
boundVars == <<writes, faults, restarts>>
vars == <<dbVars, rtVars, reqVars, wkVars, ctl, lifeVars, boundVars>>

-----------------------------------------------------------------------------
RulesOf(k) == {r \in Rules : KeyOf[r] = k}
PeriodChoices(r) == IF r \in TotalRules THEN {0} ELSE Periods

DefinitionsOf(r) ==
    {AbsentDefinition} \cup [rev : {1}, limit : Limits, period : PeriodChoices(r)]

\* normalizeAccessKeyCostLimitRules, validateRules and the unique index: at
\* most one total rule and a bounded number of periodic rules of distinct
\* periods per key.
ValidDefinitions(defs) ==
    \A k \in Keys :
        LET own == {r \in RulesOf(k) : defs[r].rev # 0} IN
        /\ \A r, s \in own : r # s => defs[r].period # defs[s].period
        /\ Cardinality({r \in own : defs[r].period # 0}) <= MaxPeriodicRules

NoTicket == [r \in Rules |-> [rev |-> 0, gen |-> 0]]
NoBatch == [r \in Rules |-> AbsentState]
NoRuntime == [r \in Rules |-> AbsentRule]

NewRequest ==
    [phase |-> "new", key |-> 0, snap |-> 0, own |-> [r \in Rules |-> 0],
     ticket |-> NoTicket, cost |-> 0]

Active(q) == req[q].phase \in {"arrived", "open"} \/ q \in notify

Serving == proc \in {"up", "closing"}

LiveRules == {r \in Rules : Present(rt[r])}
LiveKeys == {KeyOf[r] : r \in LiveRules}
DirtyRules(k) == {r \in RulesOf(k) : Present(rt[r]) /\ rt[r].dirty}

\* decisionLocked allows the request.
Allowed(k, now) == \A r \in RulesOf(k) : Present(rt[r]) => ~Exhausted(rt[r], now)

Init ==
    /\ dbRule \in {d \in [Rules -> UNION {DefinitionsOf(r) : r \in Rules}] :
                     ValidDefinitions(d) /\ \A r \in Rules : d[r] \in DefinitionsOf(r)}
    /\ dbState = [r \in Rules |-> IF dbRule[r].rev = 0 THEN AbsentState ELSE FreshState(1)]
    /\ issued = {r \in Rules : dbRule[r].rev # 0}
    /\ rt = NoRuntime /\ boot = NoBatch /\ snapRev = 0
    /\ req = [q \in Requests |-> NewRequest] /\ notify = {}
    /\ wphase = "idle" /\ todo = {} /\ batch = NoBatch /\ wake = FALSE /\ draining = FALSE
    /\ ctl = "idle"
    /\ proc = "down" /\ stopReq = FALSE /\ stopErr = FALSE /\ forced = FALSE
    /\ writes = 0 /\ faults = 0 /\ restarts = 0

-----------------------------------------------------------------------------
(***************************************************************************)
(* The gateway. The snapshot a request authenticated under is compared     *)
(* with the current one whenever that snapshot gives its key cost limits.  *)
(***************************************************************************)
\* Mutant: the snapshot is not compared.
StaleNever(q) == FALSE

Stale(q) == (\E r \in Rules : req[q].own[r] # 0) /\ req[q].snap # snapRev

\* Authentication reads the snapshot. A handler that entered before the
\* coordinator began to close may get here later, but before Stop is called
\* unless App.Stop gave up waiting for it.
Arrive(q, k) ==
    /\ Serving /\ (stopReq => forced) /\ req[q].phase = "new"
    /\ req' = [req EXCEPT ![q] =
                 [@ EXCEPT !.phase = "arrived", !.key = k, !.snap = snapRev,
                           !.own = [r \in Rules |-> IF KeyOf[r] = k THEN rt[r].rev ELSE 0]]]
    /\ UNCHANGED <<dbVars, rtVars, notify, wkVars, ctl, lifeVars, boundVars>>

\* The request ends without an admission: the configuration changed or a
\* limit is exhausted, at the read-only check at the start of Handle or at
\* the admission itself, the rate limiter refused it, no credential could be
\* used, or the client left.
Reject(q) ==
    /\ Serving /\ req[q].phase = "arrived"
    /\ req' = [req EXCEPT ![q] = [NewRequest EXCEPT !.phase = "rejected"]]
    /\ UNCHANGED <<dbVars, rtVars, notify, wkVars, ctl, lifeVars, boundVars>>

\* admitAccessQuotaForSnapshot before the first attempt is forwarded.
Admit(q, now) ==
    LET own == RulesOf(req[q].key) IN
    /\ Serving /\ req[q].phase = "arrived"
    /\ ~Stale(q) /\ Allowed(req[q].key, now)
    /\ rt' = [r \in Rules |-> IF r \in own THEN OpenWindow(rt[r], now) ELSE rt[r]]
    /\ req' = [req EXCEPT ![q] =
                 [@ EXCEPT !.phase = "open",
                           !.ticket = [r \in Rules |->
                              IF r \in own THEN [rev |-> rt[r].rev, gen |-> rt'[r].gen]
                                           ELSE NoTicket[r]]]]
    /\ notify' = IF \E r \in own : OpensWindow(rt[r], now) THEN notify \cup {q} ELSE notify
    /\ UNCHANGED <<dbVars, snapRev, boot, wkVars, ctl, lifeVars, boundVars>>

\* The deferred Complete of Handle.
Complete(q, cost) ==
    /\ Serving /\ req[q].phase = "open" /\ q \notin notify
    /\ rt' = [r \in Rules |-> Charge(rt[r], req[q].ticket[r], cost)]
    /\ req' = [req EXCEPT ![q] = [NewRequest EXCEPT !.phase = "done", !.key = req[q].key,
                                                   !.ticket = req[q].ticket, !.cost = cost]]
    /\ notify' = IF rt' # rt THEN notify \cup {q} ELSE notify
    /\ UNCHANGED <<dbVars, snapRev, boot, wkVars, ctl, lifeVars, boundVars>>

\* notifyDirty, after the entry was unlocked; the token channel holds one.
NotifyDirty(q) ==
    /\ Serving /\ q \in notify
    /\ notify' = notify \ {q}
    /\ wake' = TRUE
    /\ UNCHANGED <<dbVars, rtVars, req, wphase, todo, batch, draining, ctl, lifeVars, boundVars>>

-----------------------------------------------------------------------------
(***************************************************************************)
(* The control plane. writeMu is held from the transaction to the end of   *)
(* the publication or of its recovery, so ctl is one variable.             *)
(***************************************************************************)
ControlIdle == Serving /\ ctl = "idle" /\ writes < MaxWrites

\* withControlTransaction: committed, or committed although COMMIT reported
\* an error, in which case writeConfig returns without publishing.
CommitOutcome ==
    \/ ctl' = "committed" /\ UNCHANGED faults
    \/ faults < MaxFaults /\ ctl' = "idle" /\ faults' = faults + 1

Desired(k) ==
    {w \in [RulesOf(k) -> [limit : {0} \cup Limits, period : {0} \cup Periods]] :
       \A r \in RulesOf(k) : IF w[r].limit = 0 THEN w[r].period = 0
                                               ELSE w[r].period \in PeriodChoices(r)}

\* The revision can advance and the state row is the one the UPDATE names.
Resettable(r) == dbRule[r].rev < MaxUint64 /\ dbState[r].rev = dbRule[r].rev

\* resetAccessKeyCostLimitRuleState
ResetState(rev) == FreshState(rev)

EditedRule(r, w) ==
    IF w.limit = 0 THEN AbsentDefinition
    ELSE [rev |-> IF dbRule[r].rev = 0 THEN 1
                  ELSE IF dbRule[r].period = w.period THEN dbRule[r].rev
                  ELSE dbRule[r].rev + 1,
          limit |-> w.limit, period |-> w.period]

EditedState(r, w) ==
    IF w.limit = 0 THEN AbsentState
    ELSE IF dbRule[r].rev = 0 THEN FreshState(1)
    ELSE IF dbRule[r].period = w.period THEN dbState[r]
    ELSE ResetState(dbRule[r].rev + 1)

\* reconcileAccessKeyCostLimitRules inside UpdateAccessKey: rules that are
\* not wanted are deleted, new ones get fresh IDs, a changed period starts a
\* new revision. A create key request is the case of no existing rule.
UpdateRules(k, w) ==
    LET own == RulesOf(k)
        rows == [r \in Rules |-> IF r \in own THEN EditedRule(r, w[r]) ELSE dbRule[r]] IN
    /\ ControlIdle
    /\ \A r \in own : w[r].limit # 0 /\ dbRule[r].rev = 0 => r \notin issued
    /\ \A r \in own : w[r].limit # 0 /\ dbRule[r].rev # 0 /\ dbRule[r].period # w[r].period
                        => Resettable(r)
    /\ ValidDefinitions(rows)
    /\ dbRule' = rows
    /\ dbState' = [r \in Rules |-> IF r \in own THEN EditedState(r, w[r]) ELSE dbState[r]]
    /\ issued' = issued \cup {r \in own : w[r].limit # 0}
    /\ CommitOutcome
    /\ writes' = writes + 1
    /\ UNCHANGED <<rtVars, reqVars, wkVars, lifeVars, restarts>>

\* DeleteAccessKey: the foreign keys delete the key's rules and states.
DeleteAccessKey(k) ==
    LET own == RulesOf(k) IN
    /\ ControlIdle
    /\ dbRule' = [r \in Rules |-> IF r \in own THEN AbsentDefinition ELSE dbRule[r]]
    /\ dbState' = [r \in Rules |-> IF r \in own THEN AbsentState ELSE dbState[r]]
    /\ CommitOutcome
    /\ writes' = writes + 1
    /\ UNCHANGED <<issued, rtVars, reqVars, wkVars, lifeVars, restarts>>

\* ResetAccessKeyCostLimitRules
ResetRules(S) ==
    /\ ControlIdle
    /\ \A r \in S : dbRule[r].rev # 0 /\ Resettable(r)
    /\ dbRule' = [r \in Rules |-> IF r \in S THEN [dbRule[r] EXCEPT !.rev = @ + 1]
                                             ELSE dbRule[r]]
    /\ dbState' = [r \in Rules |-> IF r \in S THEN ResetState(dbRule[r].rev + 1)
                                              ELSE dbState[r]]
    /\ CommitOutcome
    /\ writes' = writes + 1
    /\ UNCHANGED <<issued, rtVars, reqVars, wkVars, lifeVars, restarts>>

Rejected == \E r \in Rules : ReconcileRejects(dbRule[r], rt[r])

\* Manager.Publish of the committed definitions, by writeConfig or by
\* recoverCommittedRuntime: the runtime is reconciled and the snapshot
\* replaced under one lock.
Publish ==
    /\ Serving /\ ctl \in {"committed", "recovering"}
    /\ ~Rejected
    /\ rt' = [r \in Rules |-> Reconciled(dbRule[r], rt[r])]
    /\ snapRev' = snapRev + 1
    /\ ctl' = "idle"
    /\ UNCHANGED <<dbVars, boot, reqVars, wkVars, lifeVars, boundVars>>

\* The adapters or Reconcile refuse the snapshot: writeConfig tries once to
\* recover from the database, then gives up and leaves the old snapshot.
PublishFails ==
    /\ Serving /\ ctl \in {"committed", "recovering"}
    /\ Rejected \/ faults < MaxFaults
    /\ faults' = IF Rejected THEN faults ELSE faults + 1
    /\ ctl' = IF ctl = "committed" THEN "recovering" ELSE "idle"
    /\ UNCHANGED <<dbVars, rtVars, reqVars, wkVars, lifeVars, writes, restarts>>

-----------------------------------------------------------------------------
(***************************************************************************)
(* The request-log worker. A flush gathers dirty snapshots key by key,     *)
(* writes them in one transaction, acknowledges them one by one and scans  *)
(* again for rules that became dirty meanwhile.                            *)
(***************************************************************************)
MinKey(S) == CHOOSE k \in S : \A j \in S : k <= j

Batched == {r \in Rules : Present(batch[r])}

\* How many snapshots of a key's n dirty rules still fit in the batch.
Room(n) == IF Cardinality(Batched) + n <= BatchSize THEN n ELSE BatchSize - Cardinality(Batched)

BeginScan(phase) == wphase' = phase /\ todo' = LiveKeys

\* Mutants: drain flushes once, or flushes for ever.
FlushReturnsDrainOnce ==
    IF draining THEN wphase' = "stopped" /\ todo' = {} ELSE wphase' = "idle" /\ todo' = {}
FlushReturnsDrainForever ==
    IF draining THEN BeginScan("gather") ELSE wphase' = "idle" /\ todo' = {}

\* flushAccessQuotaCheckpoints returns to the select loop or to drain.
FlushReturns ==
    IF draining THEN BeginScan("loop") ELSE wphase' = "idle" /\ todo' = {}

\* runWorker leaves its select for a wake-up, or for a log event.
WorkerWake ==
    /\ Serving /\ wphase = "idle" /\ wake
    /\ wphase' = "collect" /\ wake' = FALSE
    /\ UNCHANGED <<dbVars, rtVars, reqVars, todo, batch, draining, ctl, lifeVars, boundVars>>

WorkerEvent ==
    /\ Serving /\ wphase = "idle" /\ LogEvents
    /\ wphase' = "collect"
    /\ UNCHANGED <<dbVars, rtVars, reqVars, todo, batch, wake, draining, ctl, lifeVars, boundVars>>

\* collectAndWrite swallows further wake-ups until its timer fires.
CollectWake ==
    /\ Serving /\ wphase = "collect" /\ wake
    /\ wake' = FALSE
    /\ UNCHANGED <<dbVars, rtVars, reqVars, wphase, todo, batch, draining, ctl, lifeVars, boundVars>>

CollectTimer ==
    /\ Serving /\ wphase = "collect"
    /\ BeginScan("gather")
    /\ UNCHANGED <<dbVars, rtVars, reqVars, batch, wake, draining, ctl, lifeVars, boundVars>>

\* DirtySnapshots(batchSize) at one key: all of its dirty rules, or as many
\* as fit, and then the call returns.
GatherKey ==
    /\ Serving /\ wphase = "gather" /\ todo # {}
    /\ LET k == MinKey(todo) IN
       \E pick \in SUBSET DirtyRules(k) :
         /\ Cardinality(pick) = Room(Cardinality(DirtyRules(k)))
         /\ batch' = [r \in Rules |-> IF r \in pick THEN RestoredState(rt[r]) ELSE batch[r]]
         /\ todo' = IF Cardinality(Batched \cup pick) >= BatchSize THEN {} ELSE todo \ {k}
    /\ UNCHANGED <<dbVars, rtVars, reqVars, wphase, wake, draining, ctl, lifeVars, boundVars>>

GatherDone ==
    /\ Serving /\ wphase = "gather" /\ todo = {}
    /\ IF Batched = {} THEN FlushReturns ELSE wphase' = "write" /\ todo' = {}
    /\ UNCHANGED <<dbVars, rtVars, reqVars, batch, wake, draining, ctl, lifeVars, boundVars>>

Poisoned == \E r \in Batched : PersistOutcome(dbRule[r], dbState[r], batch[r]) = "error"

ApplyBatch ==
    dbState' = [r \in Rules |-> IF r \in Batched THEN Persisted(dbRule[r], dbState[r], batch[r])
                                                ELSE dbState[r]]

\* WriteSnapshots commits.
WriteCommits ==
    /\ Serving /\ wphase = "write" /\ ~Poisoned /\ ~stopErr
    /\ ApplyBatch
    /\ wphase' = "ack"
    /\ UNCHANGED <<dbRule, issued, rtVars, reqVars, todo, batch, wake, draining, ctl,
                   lifeVars, boundVars>>

\* Mutant: a failed write does not wake the worker again.
WriteFailsSilently ==
    /\ Serving /\ wphase = "write"
    /\ Poisoned \/ stopErr \/ faults < MaxFaults
    /\ faults' = IF Poisoned \/ stopErr THEN faults ELSE faults + 1
    /\ UNCHANGED dbState \/ (~Poisoned /\ ApplyBatch)
    /\ batch' = NoBatch
    /\ UNCHANGED wake
    /\ IF draining THEN wphase' = "stopped" /\ stopErr' = TRUE
                   ELSE wphase' = "idle" /\ UNCHANGED stopErr
    /\ UNCHANGED <<dbRule, issued, rtVars, reqVars, todo, draining, ctl,
                   proc, stopReq, forced, writes, restarts>>

\* WriteSnapshots reports an error, after which the transaction is rolled
\* back or, when only the reply to COMMIT was lost, in effect. The dirty
\* flags stay and the worker wakes itself; drain records the error and ends.
\* A worker whose context was cancelled gets an error too.
WriteFails ==
    /\ Serving /\ wphase = "write"
    /\ Poisoned \/ stopErr \/ faults < MaxFaults
    /\ faults' = IF Poisoned \/ stopErr THEN faults ELSE faults + 1
    /\ UNCHANGED dbState \/ (~Poisoned /\ ApplyBatch)
    /\ batch' = NoBatch
    /\ wake' = TRUE
    /\ IF draining THEN wphase' = "stopped" /\ stopErr' = TRUE
                   ELSE wphase' = "idle" /\ UNCHANGED stopErr
    /\ UNCHANGED <<dbRule, issued, rtVars, reqVars, todo, draining, ctl,
                   proc, stopReq, forced, writes, restarts>>

\* Mutant: Ack does not compare versions.
AckAnyVersion(r) ==
    /\ Serving /\ wphase = "ack" /\ r \in Batched
    /\ rt' = IF rt[r].rev = batch[r].rev THEN [rt EXCEPT ![r].dirty = FALSE] ELSE rt
    /\ batch' = [batch EXCEPT ![r] = AbsentState]
    /\ UNCHANGED <<dbVars, snapRev, boot, reqVars, wphase, todo, wake, draining, ctl,
                   lifeVars, boundVars>>

\* Runtime.Ack of one written snapshot.
Ack(r) ==
    /\ Serving /\ wphase = "ack" /\ r \in Batched
    /\ rt' = IF rt[r].rev = batch[r].rev /\ rt[r].ver = batch[r].ver
             THEN [rt EXCEPT ![r].dirty = FALSE] ELSE rt
    /\ batch' = [batch EXCEPT ![r] = AbsentState]
    /\ UNCHANGED <<dbVars, snapRev, boot, reqVars, wphase, todo, wake, draining, ctl,
                   lifeVars, boundVars>>

AckDone ==
    /\ Serving /\ wphase = "ack" /\ Batched = {}
    /\ BeginScan("recheck")
    /\ UNCHANGED <<dbVars, rtVars, reqVars, batch, wake, draining, ctl, lifeVars, boundVars>>

\* Mutant: rules left over by a full batch are not noticed.
RecheckKeyNoWake ==
    /\ Serving /\ wphase = "recheck" /\ todo # {}
    /\ todo' = todo \ {MinKey(todo)}
    /\ UNCHANGED <<dbVars, rtVars, reqVars, wphase, wake, batch, draining, ctl, lifeVars, boundVars>>

\* DirtySnapshots(1) at one key after the acknowledgements.
RecheckKey ==
    /\ Serving /\ wphase = "recheck" /\ todo # {}
    /\ IF DirtyRules(MinKey(todo)) # {}
       THEN wake' = TRUE /\ FlushReturns
       ELSE todo' = todo \ {MinKey(todo)} /\ UNCHANGED <<wake, wphase>>
    /\ UNCHANGED <<dbVars, rtVars, reqVars, batch, draining, ctl, lifeVars, boundVars>>

RecheckDone ==
    /\ Serving /\ wphase = "recheck" /\ todo = {}
    /\ FlushReturns
    /\ UNCHANGED <<dbVars, rtVars, reqVars, batch, wake, draining, ctl, lifeVars, boundVars>>

\* drain: the queue is empty, flush until no rule is dirty.
DrainStart ==
    /\ Serving /\ wphase \in {"idle", "collect"} /\ stopReq /\ ~stopErr
    /\ draining' = TRUE
    /\ BeginScan("gather")
    /\ UNCHANGED <<dbVars, rtVars, reqVars, batch, wake, ctl, lifeVars, boundVars>>

DrainKey ==
    /\ Serving /\ wphase = "loop" /\ todo # {}
    /\ IF DirtyRules(MinKey(todo)) = {}
       THEN todo' = todo \ {MinKey(todo)} /\ UNCHANGED wphase
       ELSE IF stopErr THEN wphase' = "stopped" /\ todo' = {}
       ELSE BeginScan("gather")
    /\ UNCHANGED <<dbVars, rtVars, reqVars, batch, wake, draining, ctl, lifeVars, boundVars>>

DrainDone ==
    /\ Serving /\ wphase = "loop" /\ todo = {}
    /\ wphase' = "stopped"
    /\ UNCHANGED <<dbVars, rtVars, reqVars, todo, batch, wake, draining, ctl, lifeVars, boundVars>>

\* The worker's context was cancelled while it waited.
WorkerCancelled ==
    /\ Serving /\ wphase \in {"idle", "collect"} /\ stopErr
    /\ wphase' = "stopped"
    /\ UNCHANGED <<dbVars, rtVars, reqVars, todo, batch, wake, draining, ctl, lifeVars, boundVars>>

WorkerStep ==
    \/ WorkerWake \/ CollectWake \/ CollectTimer
    \/ GatherKey \/ GatherDone \/ WriteCommits \/ WriteFails
    \/ (\E r \in Rules : Ack(r)) \/ AckDone \/ RecheckKey \/ RecheckDone
    \/ DrainStart \/ DrainKey \/ DrainDone \/ WorkerCancelled

-----------------------------------------------------------------------------
(***************************************************************************)
(* The process.                                                            *)
(***************************************************************************)
\* The rows are accepted by queryCostLimitStates, Restore and Reconcile.
BootAccepts ==
    /\ ValidDefinitions(dbRule)
    /\ \A r \in Rules :
          IF dbRule[r].rev = 0 THEN dbState[r] = AbsentState
          ELSE ValidRestoredState(dbState[r]) /\ RestoreAccepts(dbRule[r], dbState[r])

\* App.Start: Loader.Load restores and publishes, then the worker starts.
Boot ==
    /\ proc = "down" /\ BootAccepts
    /\ rt' = [r \in Rules |-> Restored(dbRule[r], dbState[r])]
    /\ boot' = dbState
    /\ snapRev' = 1
    /\ proc' = "up"
    /\ UNCHANGED <<dbVars, reqVars, wkVars, ctl, stopReq, stopErr, forced, boundVars>>

\* App.Stop: no handler starts once the coordinator is closing.
BeginShutdown ==
    /\ proc = "up" /\ restarts < MaxRestarts
    /\ proc' = "closing"
    /\ restarts' = restarts + 1
    /\ UNCHANGED <<dbVars, rtVars, reqVars, wkVars, ctl, stopReq, stopErr, forced, writes, faults>>

\* App.Stop reaches Service.Stop when the handlers have left or its deadline
\* has passed.
StopRequestLog ==
    /\ proc = "closing" /\ ~stopReq
    /\ stopReq' = TRUE
    /\ forced' = \E q \in Requests : Active(q)
    /\ UNCHANGED <<dbVars, rtVars, reqVars, wkVars, ctl, proc, stopErr, boundVars>>

\* cancelShutdown: the deadline passes while the worker drains.
StopDeadline ==
    /\ proc = "closing" /\ stopReq /\ wphase # "stopped" /\ ~stopErr
    /\ stopErr' = TRUE
    /\ UNCHANGED <<dbVars, rtVars, reqVars, wkVars, ctl, proc, stopReq, forced, boundVars>>

\* Everything that lives in the process is gone.
LoseMemory ==
    /\ rt' = NoRuntime /\ boot' = NoBatch /\ snapRev' = 0
    /\ req' = [q \in Requests |-> [NewRequest EXCEPT !.phase =
                                     IF req[q].phase = "new" THEN "new" ELSE "gone"]]
    /\ notify' = {}
    /\ wphase' = "idle" /\ todo' = {} /\ batch' = NoBatch /\ wake' = FALSE /\ draining' = FALSE
    /\ ctl' = "idle"
    /\ proc' = "down" /\ stopReq' = FALSE /\ stopErr' = FALSE /\ forced' = FALSE

\* App.Stop returns once Service.Stop did, and the process exits.
Exit ==
    /\ proc = "closing" /\ stopReq /\ (wphase = "stopped" \/ stopErr)
    /\ LoseMemory
    /\ UNCHANGED <<dbVars, boundVars>>

Crash ==
    /\ Serving /\ restarts < MaxRestarts
    /\ LoseMemory
    /\ restarts' = restarts + 1
    /\ UNCHANGED <<dbVars, writes, faults>>

-----------------------------------------------------------------------------
RequestStep ==
    \E q \in Requests :
        \/ \E k \in Keys : Arrive(q, k)
        \/ \E now \in Times : Admit(q, now)
        \/ Reject(q)
        \/ \E cost \in Costs : Complete(q, cost)
        \/ NotifyDirty(q)

ControlStep ==
    \/ \E k \in Keys :
          \/ \E w \in Desired(k) : UpdateRules(k, w)
          \/ DeleteAccessKey(k)
          \/ \E S \in SUBSET RulesOf(k) \ {{}} : ResetRules(S)
    \/ Publish \/ PublishFails

ProcessStep == Boot \/ BeginShutdown \/ StopRequestLog \/ StopDeadline \/ Exit \/ Crash

Next == RequestStep \/ ControlStep \/ WorkerStep \/ WorkerEvent \/ ProcessStep

Spec == Init /\ [][Next]_vars

\* The goroutines that run without outside input keep running: the worker,
\* and a request between its unlock and its notification. Database failures
\* are bounded by MaxFaults, so a retried write succeeds in the end. Go's
\* select picks among its ready cases at random, so a closed stop or
\* cancellation channel that the worker meets again and again is taken.
Fairness ==
    /\ WF_vars(WorkerStep)
    /\ SF_vars(DrainStart) /\ SF_vars(WorkerCancelled)
    /\ \A q \in Requests : WF_vars(NotifyDirty(q))

FairSpec == Spec /\ Fairness

-----------------------------------------------------------------------------
(***************************************************************************)
(* Properties.                                                             *)
(***************************************************************************)
RequestRecords ==
    [phase : {"new", "arrived", "open", "done", "rejected", "gone"},
     key : Keys \cup {0}, snap : Nat, own : [Rules -> 0..MaxUint64],
     ticket : [Rules -> [rev : 0..MaxUint64, gen : 0..MaxUint64]], cost : Costs \cup {0}]

\* Type correctness of every variable: rows and in-memory rules keep their
\* field ranges under every operation of the runtime, the control plane and
\* the worker.
TypeOK ==
    /\ dbRule \in [Rules -> Definitions]
    /\ dbState \in [Rules -> States]
    /\ issued \subseteq Rules
    /\ rt \in [Rules -> RuntimeRules]
    /\ snapRev \in Nat
    /\ boot \in [Rules -> States]
    /\ req \in [Requests -> RequestRecords]
    /\ notify \subseteq Requests
    /\ wphase \in {"idle", "collect", "gather", "write", "ack", "recheck", "loop", "stopped"}
    /\ todo \subseteq Keys
    /\ batch \in [Rules -> States]
    /\ wake \in BOOLEAN /\ draining \in BOOLEAN
    /\ ctl \in {"idle", "committed", "recovering"}
    /\ proc \in {"up", "closing", "down"}
    /\ stopReq \in BOOLEAN /\ stopErr \in BOOLEAN /\ forced \in BOOLEAN
    /\ writes \in Nat /\ faults \in Nat /\ restarts \in Nat

\* A rule whose dirty flag is clear needs no checkpoint: its row holds what
\* the runtime holds. The Ack of an older snapshot, a write the row refused,
\* a reset or a republication in between never clears the flag too early.
\* (A rule whose version has saturated can no longer be told apart.)
CleanMeansDurable ==
    \A r \in Rules :
        Present(rt[r]) /\ ~rt[r].dirty /\ rt[r].rev = dbState[r].rev /\ rt[r].ver < MaxUint64
            => dbState[r] = RestoredState(rt[r])

\* A row is never ahead of the runtime that writes it. If it were, the
\* version test of persistAccessQuotaSnapshot would drop newer usage, which
\* Ack would then report as stored. (Windows are told apart until the
\* generation saturates.)
RowNeverAhead ==
    \A r \in Rules :
        Present(rt[r]) /\ rt[r].rev = dbState[r].rev
            => /\ dbState[r].ver <= rt[r].ver
               /\ dbState[r].gen <= rt[r].gen
               /\ dbState[r].gen = rt[r].gen /\ rt[r].gen < MaxUint64
                    => dbState[r].used <= rt[r].used

\* The process can restart from every state of the database, and every
\* committed rule set can be published: no interleaving of edits, resets and
\* checkpoints leaves rows that Restore or Reconcile refuses.
AlwaysBootable == BootAccepts /\ ~Rejected

\* One snapshot never makes the transaction of the whole batch fail, which
\* would block the checkpoints of all other keys for as long as it is dirty.
NeverPoisoned == wphase = "write" => ~Poisoned

\* A dirty rule is never forgotten: a wake-up token is waiting, a request is
\* about to post one, or the worker is in a cycle that still covers it.
NoLostWakeup ==
    \A r \in Rules :
        Serving /\ wphase # "stopped" /\ ~draining /\ Present(rt[r]) /\ rt[r].dirty
            => \/ wake \/ notify # {}
               \/ wphase \in {"collect", "write", "ack"}
               \/ wphase = "gather" /\ (KeyOf[r] \in todo \/ Batched # {})
               \/ wphase = "recheck" /\ KeyOf[r] \in todo

\* A shutdown that reports no error, begun after the handlers had left, has
\* written all usage.
CleanStopIsComplete ==
    wphase = "stopped" /\ ~stopErr /\ ~forced
        => \A r \in Rules : Present(rt[r]) => ~rt[r].dirty

\* A request whose snapshot gave its key limits is admitted under exactly
\* those rules and revisions, whatever was published in between.
AdmittedUnderOwnRules ==
    \A q \in Requests :
        req[q].phase = "open" /\ (\E r \in Rules : req[q].own[r] # 0)
            => \A r \in Rules : req[q].ticket[r].rev = req[q].own[r]

\* Two windows of one revision of a rule never overlap, even when the clock
\* steps back or requests bring their readings out of order.
WindowsDisjoint ==
    [][\A r \in Rules :
         Present(rt[r]) /\ rt'[r].rev = rt[r].rev /\ rt[r].end # Nil
         /\ rt'[r].gen # rt[r].gen
             => rt'[r].start >= rt[r].end]_vars

\* Usage is only forgotten with its window: while revision and window stay
\* the same, neither a limit edit, nor a publication, nor a checkpoint
\* lowers what has been charged.
UsageMonotone ==
    [][\A r \in Rules :
         Present(rt[r]) /\ rt'[r].rev = rt[r].rev /\ rt'[r].start = rt[r].start
             => rt'[r].used >= rt[r].used /\ rt'[r].ver >= rt[r].ver]_vars

\* The row of an unchanged revision never goes back to an older window or a
\* smaller amount, across restarts and lost replies.
RowMonotone ==
    [][\A r \in Rules :
         dbState[r].rev # 0 /\ dbState'[r].rev = dbState[r].rev
             => /\ dbState'[r].gen >= dbState[r].gen
                /\ dbState'[r].gen = dbState[r].gen /\ dbState[r].gen < MaxUint64
                     => dbState'[r].used >= dbState[r].used]_vars

\* Usage reaches the database: a dirty rule is written, superseded or
\* replaced by a restart, however the worker's cycles and the requests fall.
EventuallyPersisted ==
    \A r \in Rules : (proc = "up" /\ rt[r].dirty) ~> (proc # "up" \/ ~rt[r].dirty)

\* Service.Stop comes to an end: once stop is requested the worker ends.
StopTerminates == (proc = "closing" /\ stopReq) ~> (wphase = "stopped" \/ proc = "down")
=============================================================================
