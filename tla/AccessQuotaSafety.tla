-------------------------- MODULE AccessQuotaSafety --------------------------
(***************************************************************************)
(* Every step of AccessQuota keeps NoLostWakeup, StopInv and SnapshotInv.  *)
(***************************************************************************)
EXTENDS AccessQuotaInvariants, AccessQuotaOrderProofs, FiniteSetTheorems

\* A rule the worker has yet to write.
Unwritten(x) == Present(x) /\ x.dirty

\* A rule becomes dirty only in a request that is going to notify the worker
\* (Admit, Complete).
LEMMA RequestDirties ==
    ASSUME TypeOK, RequestStep, NEW r \in Rules, Unwritten(rt'[r])
    PROVE  Unwritten(rt[r]) \/ notify' # {}
<1> USE DEF dbVars, rtVars, reqVars, wkVars, lifeVars, boundVars
<1>1. rt[r] \in RuntimeRules
  BY DEF TypeOK
<1>2. ASSUME NEW q \in Requests, NEW now \in Times, Admit(q, now)
      PROVE  Unwritten(rt[r]) \/ notify' # {}
  <2>1. CASE r \in RulesOf(req[q].key)
    <3>1. rt'[r] = OpenWindow(rt[r], now) /\ now \in Nat
      BY <1>2, <2>1, ConstantsAssumption DEF Admit
    <3>2. CASE OpensWindow(rt[r], now)
      BY <1>2, <2>1, <3>2 DEF Admit
    <3>3. CASE ~OpensWindow(rt[r], now)
      BY <3>1, <3>3 DEF OpenWindow
    <3> QED
      BY <3>2, <3>3
  <2>2. CASE r \notin RulesOf(req[q].key)
    BY <1>2, <2>2 DEF Admit
  <2> QED
    BY <2>1, <2>2
<1>3. ASSUME NEW q \in Requests, NEW cost \in Costs, Complete(q, cost)
      PROVE  Unwritten(rt[r]) \/ notify' # {}
  BY <1>3 DEF Complete
<1>4. ASSUME NEW q \in Requests, (\E k \in Keys : Arrive(q, k)) \/ Reject(q) \/ NotifyDirty(q)
      PROVE  Unwritten(rt[r])
  BY <1>4 DEF Arrive, Reject, NotifyDirty
<1> QED
  BY <1>2, <1>3, <1>4 DEF RequestStep

\* The control plane, the worker and the process make no rule dirty: Reconcile
\* keeps flags, Ack clears them, Restore and a crash leave none.
LEMMA OthersDirtyNothing ==
    ASSUME TypeOK, ControlStep \/ WorkerStep \/ WorkerEvent \/ ProcessStep,
           NEW r \in Rules, Unwritten(rt'[r])
    PROVE  Unwritten(rt[r])
<1> USE DEF dbVars, rtVars, reqVars, wkVars, lifeVars, boundVars
<1>1. rt \in [Rules -> RuntimeRules]
  BY DEF TypeOK
<1>2. CASE ControlStep
  <2>1. CASE Publish
    <3>1. rt'[r] = Reconciled(dbRule[r], rt[r])
      BY <2>1 DEF Publish
    <3> QED
      BY <1>1, <3>1, ReconciledKeeps DEF Unwritten, Present
  <2>2. CASE ~Publish
    BY <1>2, <2>2 DEF ControlStep, UpdateRules, DeleteAccessKey, ResetRules, PublishFails
  <2> QED
    BY <2>1, <2>2
<1>3. ASSUME NEW a \in Rules, Ack(a) PROVE Unwritten(rt[r])
  <2>1. rt' = rt \/ rt' = [rt EXCEPT ![a] = [rt[a] EXCEPT !.dirty = FALSE]]
    BY <1>3 DEF Ack
  <2>2. rt'[r] = rt[r] \/ rt'[r] = [rt[r] EXCEPT !.dirty = FALSE]
    BY <1>1, <2>1
  <2>3. rt'[r] = rt[r] \/ rt'[r].dirty = FALSE
    BY <1>1, <2>2 DEF RuntimeRules
  <2> QED
    BY <2>3 DEF Unwritten
<1>4. CASE WorkerWake \/ WorkerEvent \/ CollectWake \/ CollectTimer \/ GatherKey \/ GatherDone
           \/ WriteCommits \/ WriteFails
  BY <1>4 DEF WorkerWake, WorkerEvent, CollectWake, CollectTimer, GatherKey, GatherDone,
              WriteCommits, WriteFails
<1>5. CASE AckDone \/ RecheckKey \/ RecheckDone \/ DrainStart \/ DrainKey \/ DrainDone \/ WorkerCancelled
  BY <1>5 DEF AckDone, RecheckKey, RecheckDone, DrainStart, DrainKey, DrainDone, WorkerCancelled
<1>6. CASE ProcessStep
  <2>1. ~NoRuntime[r].dirty
    BY DEF NoRuntime, AbsentRule, RuntimeRule
  <2>2. CASE Boot
    <3>1. rt'[r] = Restored(dbRule[r], dbState[r])
      BY <2>2 DEF Boot
    <3>2. ~Restored(dbRule[r], dbState[r]).dirty
      BY DEF Restored, RuntimeRule, AbsentRule
    <3> QED
      BY <3>1, <3>2 DEF Unwritten
  <2>3. CASE Exit \/ Crash
    BY <2>1, <2>3 DEF Exit, Crash, LoseMemory, Unwritten
  <2>4. CASE BeginShutdown \/ StopRequestLog \/ StopDeadline
    BY <2>4 DEF BeginShutdown, StopRequestLog, StopDeadline
  <2> QED
    BY <1>6, <2>2, <2>3, <2>4 DEF ProcessStep
<1> QED
  BY <1>2, <1>3, <1>4, <1>5, <1>6 DEF WorkerStep

\* The key of an unwritten rule is one a scan visits.
LEMMA UnwrittenIsLive ==
    ASSUME NEW r \in Rules, Unwritten(rt[r])
    PROVE  KeyOf[r] \in LiveKeys
BY DEF LiveKeys, LiveRules, Unwritten

-----------------------------------------------------------------------------
\* DirtySnapshots passes over a dirty rule only with a snapshot in the batch,
\* since the batch holds at least one.
LEMMA GatherTakes ==
    ASSUME TypeOK, GatherKey, NEW r \in Rules, Unwritten(rt[r]),
           KeyOf[r] \in todo \/ Batched # {}
    PROVE  KeyOf[r] \in todo' \/ Batched' # {}
<1> DEFINE k == MinKey(todo)
           n == Cardinality(DirtyRules(k))
<1>1. PICK pick \in SUBSET DirtyRules(k) :
         /\ Cardinality(pick) = Room(n)
         /\ batch' = [s \in Rules |-> IF s \in pick THEN RestoredState(rt[s]) ELSE batch[s]]
         /\ todo' = IF Cardinality(Batched \cup pick) >= BatchSize THEN {} ELSE todo \ {k}
  BY DEF GatherKey
<1>2. pick \subseteq Rules /\ \A s \in pick : rt[s].rev # 0
  BY DEF DirtyRules, RulesOf, Present
<1>3. Batched' = {s \in Rules : batch'[s].rev # 0}
  BY DEF Batched, Present
<1>4. \A s \in pick : batch'[s].rev # 0
  BY <1>1, <1>2, RestoredStateFields
<1>5. pick # {} => Batched' # {}
  BY <1>2, <1>3, <1>4
<1>6. Batched # {} => Batched' # {}
  <2>1. \A s \in Rules : batch[s].rev # 0 => batch'[s].rev # 0
    BY <1>1, <1>4
  <2> QED
    BY <1>3, <2>1 DEF Batched, Present
<1>7. ASSUME Batched = {}, pick = {}, KeyOf[r] \in todo PROVE KeyOf[r] \in todo'
  <2>1. Cardinality({}) = 0
    BY FS_EmptySet
  <2>2. todo' = todo \ {k}
    BY <1>1, <1>7, <2>1, ConstantsAssumption
  <2>3. IsFiniteSet(DirtyRules(k))
    <3>1. DirtyRules(k) \subseteq Rules
      BY DEF DirtyRules, RulesOf
    <3> QED
      BY <3>1, ConstantsAssumption, FS_Subset
  <2>4. n = 0
    <3>1. n \in Nat /\ Room(n) = 0
      BY <1>1, <1>7, <2>1, <2>3, FS_CardinalityType
    <3> QED
      BY <1>7, <2>1, <3>1, ConstantsAssumption DEF Room
  <2>5. DirtyRules(k) = {}
    BY <2>3, <2>4, FS_EmptySet
  <2>6. KeyOf[r] # k
    BY <2>5 DEF DirtyRules, RulesOf, Unwritten
  <2> QED
    BY <1>7, <2>2, <2>6
<1> QED
  BY <1>5, <1>6, <1>7

\* Nothing becomes dirty, and whatever announced the dirty rules before still
\* does.
LEMMA WakeupKept ==
    ASSUME TypeOK, NoLostWakeup,
           \A r \in Rules : Unwritten(rt'[r]) => Unwritten(rt[r]) \/ notify' # {},
           UNCHANGED <<proc, wphase, todo, batch, draining>>,
           wake' \/ (wake' = wake /\ notify \subseteq notify')
    PROVE  NoLostWakeup'
<1> SUFFICES ASSUME NEW r \in Rules, Serving', wphase' # "stopped", ~draining', Unwritten(rt'[r]),
                    ~wake', notify' = {}
             PROVE  \/ wphase' \in {"collect", "write", "ack"}
                    \/ wphase' = "gather" /\ (KeyOf[r] \in todo' \/ Batched' # {})
                    \/ wphase' = "recheck" /\ KeyOf[r] \in todo'
  BY DEF NoLostWakeup, Unwritten
<1>1. Unwritten(rt[r]) /\ ~wake /\ notify = {} /\ Serving
  BY DEF Serving
<1>2. Batched' = Batched
  BY DEF Batched
<1> QED
  BY <1>1, <1>2 DEF NoLostWakeup, Unwritten

\* A dirty rule is not forgotten by a request: it notifies after unlocking.
LEMMA RequestWakes == TypeOK /\ NoLostWakeup /\ RequestStep => NoLostWakeup'
<1> SUFFICES ASSUME TypeOK, NoLostWakeup, RequestStep PROVE NoLostWakeup'
  OBVIOUS
<1> USE DEF dbVars, rtVars, reqVars, wkVars, lifeVars, boundVars
<1>1. \A r \in Rules : Unwritten(rt'[r]) => Unwritten(rt[r]) \/ notify' # {}
  BY RequestDirties
<1>2. UNCHANGED <<proc, wphase, todo, batch, draining>>
  BY DEF RequestStep, Arrive, Admit, Reject, Complete, NotifyDirty
<1>3. wake' \/ (wake' = wake /\ notify \subseteq notify')
  BY DEF RequestStep, Arrive, Admit, Reject, Complete, NotifyDirty
<1> QED
  BY <1>1, <1>2, <1>3, WakeupKept

\* Nor by an edit or a publication.
LEMMA ControlWakes == TypeOK /\ NoLostWakeup /\ ControlStep => NoLostWakeup'
<1> SUFFICES ASSUME TypeOK, NoLostWakeup, ControlStep PROVE NoLostWakeup'
  OBVIOUS
<1> USE DEF dbVars, rtVars, reqVars, wkVars, lifeVars, boundVars
<1>1. \A r \in Rules : Unwritten(rt'[r]) => Unwritten(rt[r])
  BY OthersDirtyNothing
<1>2. UNCHANGED <<proc, wphase, todo, batch, draining, wake, notify>>
  BY DEF ControlStep, UpdateRules, DeleteAccessKey, ResetRules, Publish, PublishFails
<1> QED
  BY <1>1, <1>2, WakeupKept

\* Nor by the worker, which keeps a token, a scan or a batch for it, also when
\* a batch is full, a write fails or a rule becomes dirty again meanwhile.
LEMMA WorkerWakes == TypeOK /\ StopInv /\ NoLostWakeup /\ (WorkerStep \/ WorkerEvent) => NoLostWakeup'
<1> SUFFICES ASSUME TypeOK, StopInv, NoLostWakeup, WorkerStep \/ WorkerEvent,
                    NEW r \in Rules, Serving', wphase' # "stopped", ~draining', Unwritten(rt'[r]),
                    ~wake', notify' = {}
             PROVE  \/ wphase' \in {"collect", "write", "ack"}
                    \/ wphase' = "gather" /\ (KeyOf[r] \in todo' \/ Batched' # {})
                    \/ wphase' = "recheck" /\ KeyOf[r] \in todo'
  BY DEF NoLostWakeup, Unwritten
<1> USE DEF dbVars, rtVars, reqVars, wkVars, lifeVars, boundVars
<1>1. Unwritten(rt[r]) /\ KeyOf[r] \in LiveKeys
  BY OthersDirtyNothing, UnwrittenIsLive
<1>2. notify = {}
  BY DEF WorkerStep, WorkerWake, WorkerEvent, CollectWake, CollectTimer, GatherKey, GatherDone,
         WriteCommits, WriteFails, Ack, AckDone, RecheckKey, RecheckDone, DrainStart, DrainKey,
         DrainDone, WorkerCancelled
<1>3. Serving /\ wphase # "stopped" /\ ~draining /\ ~wake
        => \/ wphase \in {"collect", "write", "ack"}
           \/ wphase = "gather" /\ (KeyOf[r] \in todo \/ Batched # {})
           \/ wphase = "recheck" /\ KeyOf[r] \in todo
  BY <1>1, <1>2 DEF NoLostWakeup, Unwritten
<1>4. CASE WorkerWake \/ WorkerEvent \/ CollectWake \/ WriteCommits \/ WriteFails
  BY <1>4 DEF WorkerWake, WorkerEvent, CollectWake, WriteCommits, WriteFails
<1>5. CASE CollectTimer \/ AckDone
  BY <1>1, <1>5 DEF CollectTimer, AckDone, BeginScan
<1>6. ASSUME NEW a \in Rules, Ack(a) PROVE wphase' = "ack"
  BY <1>6 DEF Ack
<1>7. CASE GatherKey
  <2>1. wphase = "gather" /\ wphase' = "gather" /\ Serving /\ ~draining /\ ~wake
    BY <1>7 DEF GatherKey
  <2> QED
    BY <1>1, <1>3, <1>7, <2>1, GatherTakes
<1>8. CASE GatherDone \/ RecheckDone
  <2>1. todo = {} /\ Serving /\ ~draining /\ ~wake /\ wphase \in {"gather", "recheck"}
    BY <1>8 DEF GatherDone, RecheckDone
  <2>2. wphase = "gather" /\ Batched # {}
    BY <1>3, <2>1
  <2> QED
    BY <1>8, <2>2 DEF GatherDone, RecheckDone
<1>9. CASE RecheckKey
  <2>1. /\ Serving /\ wphase = "recheck" /\ ~draining /\ DirtyRules(MinKey(todo)) = {}
        /\ todo' = todo \ {MinKey(todo)} /\ ~wake /\ wphase' = "recheck"
    BY <1>9 DEF RecheckKey
  <2>2. KeyOf[r] \in todo
    BY <1>3, <2>1
  <2>3. KeyOf[r] # MinKey(todo)
    BY <1>1, <2>1 DEF DirtyRules, RulesOf, Unwritten
  <2> QED
    BY <2>1, <2>2, <2>3
<1>10. CASE DrainStart \/ DrainKey \/ DrainDone \/ WorkerCancelled
  BY <1>10 DEF DrainStart, DrainKey, DrainDone, WorkerCancelled, StopInv
<1> QED
  BY <1>4, <1>5, <1>6, <1>7, <1>8, <1>9, <1>10 DEF WorkerStep

\* Nor by a start-up or a shutdown.
LEMMA ProcessWakes == TypeOK /\ NoLostWakeup /\ ProcessStep => NoLostWakeup'
<1> SUFFICES ASSUME TypeOK, NoLostWakeup, ProcessStep PROVE NoLostWakeup'
  OBVIOUS
<1> USE DEF dbVars, rtVars, reqVars, wkVars, lifeVars, boundVars
<1>1. \A r \in Rules : Unwritten(rt'[r]) => Unwritten(rt[r])
  BY OthersDirtyNothing
<1>2. CASE Exit \/ Crash
  BY <1>2 DEF Exit, Crash, LoseMemory, NoLostWakeup, Serving
<1>3. CASE Boot
  <2>1. \A r \in Rules : ~Restored(dbRule[r], dbState[r]).dirty
    BY DEF Restored, RuntimeRule, AbsentRule
  <2> QED
    BY <1>3, <2>1 DEF Boot, NoLostWakeup
<1>4. CASE BeginShutdown \/ StopRequestLog \/ StopDeadline
  <2>1. UNCHANGED <<rt, wphase, todo, batch, draining, wake, notify>> /\ Serving
    BY <1>4 DEF BeginShutdown, StopRequestLog, StopDeadline, Serving
  <2>2. Batched' = Batched
    BY <2>1 DEF Batched
  <2> QED
    BY <2>1, <2>2 DEF NoLostWakeup
<1> QED
  BY <1>2, <1>3, <1>4 DEF ProcessStep

\* Every step of the system keeps NoLostWakeup.
LEMMA StepWakes == TypeOK /\ StopInv /\ NoLostWakeup /\ [Next]_vars => NoLostWakeup'
<1>1. NoLostWakeup /\ UNCHANGED vars => NoLostWakeup'
  BY DEF vars, dbVars, rtVars, reqVars, wkVars, lifeVars, boundVars, NoLostWakeup, Serving, Batched
<1> QED
  BY <1>1, RequestWakes, ControlWakes, WorkerWakes, ProcessWakes DEF Next

-----------------------------------------------------------------------------
\* A request takes no step once an unforced stop was requested, so it leaves
\* StopInv alone.
LEMMA RequestStops == TypeOK /\ StopInv /\ RequestStep => StopInv'
<1> SUFFICES ASSUME TypeOK, StopInv, RequestStep PROVE StopInv'
  OBVIOUS
<1> USE DEF dbVars, rtVars, reqVars, wkVars, lifeVars, boundVars
<1>1. UNCHANGED <<wphase, todo, draining, proc, stopReq, stopErr, forced>>
  BY DEF RequestStep, Arrive, Admit, Reject, Complete, NotifyDirty
<1>2. ~(stopReq /\ ~forced)
  BY DEF RequestStep, Arrive, Admit, Reject, Complete, NotifyDirty, StopInv, Active, Serving
<1> QED
  BY <1>1, <1>2 DEF StopInv, CleanStopIsComplete

\* A step that dirties nothing and leaves the worker, the requests and the
\* shutdown alone keeps StopInv.
LEMMA StopKept ==
    ASSUME StopInv, UNCHANGED <<wphase, todo, draining, proc, stopReq, forced, req, notify>>,
           stopErr' => stopErr \/ stopReq, stopErr => stopErr',
           \A r \in Rules : Unwritten(rt'[r]) => Unwritten(rt[r])
    PROVE  StopInv'
BY DEF StopInv, CleanStopIsComplete, Unwritten, Active

\* The worker's last scan is over all keys and restarts when it meets a dirty
\* rule, so it ends without an error only when no rule is dirty.
LEMMA WorkerStops == TypeOK /\ StopInv /\ (WorkerStep \/ WorkerEvent) => StopInv'
<1> SUFFICES ASSUME TypeOK, StopInv, WorkerStep \/ WorkerEvent PROVE StopInv'
  OBVIOUS
<1> USE DEF dbVars, rtVars, reqVars, wkVars, lifeVars, boundVars
<1>1. /\ \A r \in Rules : Unwritten(rt'[r]) => Unwritten(rt[r])
      /\ \A r \in Rules : Unwritten(rt[r]) => KeyOf[r] \in LiveKeys
  BY OthersDirtyNothing, UnwrittenIsLive
<1>2. UNCHANGED <<proc, stopReq, forced, req, notify>>
  BY DEF WorkerStep, WorkerWake, WorkerEvent, CollectWake, CollectTimer, GatherKey, GatherDone,
         WriteCommits, WriteFails, Ack, AckDone, RecheckKey, RecheckDone, DrainStart, DrainKey,
         DrainDone, WorkerCancelled
<1>3. \A q \in Requests : Active(q)' <=> Active(q)
  BY <1>2 DEF Active
<1>4. ASSUME wphase' \notin {"loop", "stopped"}, draining' = draining \/ stopReq, stopErr' = stopErr
      PROVE  StopInv'
  BY <1>2, <1>3, <1>4 DEF StopInv, CleanStopIsComplete
<1>5. ASSUME wphase' = "loop", draining, draining' = draining, stopErr' = stopErr, todo' = LiveKeys
      PROVE  StopInv'
  BY <1>1, <1>2, <1>3, <1>5 DEF StopInv, CleanStopIsComplete, Unwritten
<1>6. ASSUME wphase' = "stopped", stopReq, draining' = draining, stopErr'
      PROVE  StopInv'
  BY <1>2, <1>3, <1>6 DEF StopInv, CleanStopIsComplete
<1>7. ASSUME FlushReturns, UNCHANGED <<draining, stopErr>> PROVE StopInv'
  BY <1>4, <1>5, <1>7 DEF FlushReturns, BeginScan
<1>8. CASE WorkerWake \/ WorkerEvent \/ CollectWake \/ CollectTimer \/ GatherKey \/ WriteCommits
           \/ (\E r \in Rules : Ack(r)) \/ AckDone \/ DrainStart
  <2>1. /\ wphase' \notin {"loop", "stopped"} /\ stopErr' = stopErr
        /\ draining' = draining \/ stopReq
    BY <1>8 DEF WorkerWake, WorkerEvent, CollectWake, CollectTimer, GatherKey, WriteCommits, Ack,
                AckDone, DrainStart, BeginScan
  <2> QED
    BY <1>4, <2>1
<1>9. CASE GatherDone \/ RecheckKey \/ RecheckDone
  <2>1. UNCHANGED <<draining, stopErr>>
        /\ (FlushReturns \/ wphase' \notin {"loop", "stopped"})
    BY <1>9 DEF GatherDone, RecheckKey, RecheckDone
  <2> QED
    BY <1>4, <1>7, <2>1
<1>10. CASE WriteFails
  <2>1. draining' = draining /\ (draining => stopReq)
    BY <1>10 DEF WriteFails, StopInv
  <2>2. CASE draining
    BY <1>6, <1>10, <2>1, <2>2 DEF WriteFails
  <2>3. CASE ~draining
    BY <1>4, <1>10, <2>1, <2>3 DEF WriteFails
  <2> QED
    BY <2>2, <2>3
<1>11. CASE DrainKey
  <2>1. wphase = "loop" /\ draining /\ stopReq /\ UNCHANGED <<draining, stopErr>>
    BY <1>11 DEF DrainKey, StopInv
  <2>2. CASE DirtyRules(MinKey(todo)) = {}
    <3>1. todo' = todo \ {MinKey(todo)} /\ wphase' = wphase
      BY <1>11, <2>2 DEF DrainKey
    <3>2. \A r \in Rules : Unwritten(rt[r]) => KeyOf[r] # MinKey(todo)
      BY <2>2 DEF DirtyRules, RulesOf, Unwritten
    <3> QED
      BY <1>1, <1>2, <1>3, <2>1, <3>1, <3>2 DEF StopInv, CleanStopIsComplete, Unwritten
  <2>3. CASE DirtyRules(MinKey(todo)) # {} /\ stopErr
    BY <1>6, <1>11, <2>1, <2>3 DEF DrainKey
  <2>4. CASE DirtyRules(MinKey(todo)) # {} /\ ~stopErr
    BY <1>4, <1>11, <2>1, <2>4 DEF DrainKey, BeginScan
  <2> QED
    BY <2>2, <2>3, <2>4
<1>12. CASE DrainDone
  <2>1. /\ wphase = "loop" /\ todo = {} /\ wphase' = "stopped" /\ draining' = draining
        /\ stopErr' = stopErr /\ stopReq
    BY <1>12 DEF DrainDone, StopInv
  <2> QED
    BY <1>1, <1>2, <1>3, <2>1 DEF StopInv, CleanStopIsComplete, Unwritten
<1>13. CASE WorkerCancelled
  BY <1>6, <1>13 DEF WorkerCancelled, StopInv
<1> QED
  BY <1>8, <1>9, <1>10, <1>11, <1>12, <1>13 DEF WorkerStep

\* Every step of the system keeps StopInv.
LEMMA StepStops == TypeOK /\ StopInv /\ [Next]_vars => StopInv'
<1> SUFFICES ASSUME TypeOK, StopInv, [Next]_vars PROVE StopInv'
  OBVIOUS
<1> USE DEF dbVars, rtVars, reqVars, wkVars, lifeVars, boundVars
<1>1. CASE ControlStep
  <2>1. \A r \in Rules : Unwritten(rt'[r]) => Unwritten(rt[r])
    BY <1>1, OthersDirtyNothing
  <2>2. UNCHANGED <<wphase, todo, draining, proc, stopReq, stopErr, forced, req, notify>>
    BY <1>1 DEF ControlStep, UpdateRules, DeleteAccessKey, ResetRules, Publish, PublishFails
  <2> QED
    BY <2>1, <2>2, StopKept
<1>2. CASE Exit \/ Crash
  <2>1. \A r \in Rules : ~NoRuntime[r].dirty
    BY DEF NoRuntime, AbsentRule, RuntimeRule
  <2> QED
    BY <1>2, <2>1 DEF Exit, Crash, LoseMemory, StopInv, CleanStopIsComplete
<1>3. CASE Boot \/ BeginShutdown
  <2>1. ~stopReq /\ UNCHANGED <<wphase, draining, stopReq, stopErr>>
    BY <1>3 DEF Boot, BeginShutdown, StopInv
  <2> QED
    BY <2>1 DEF StopInv, CleanStopIsComplete
<1>4. CASE StopRequestLog
  <2>1. /\ ~stopReq /\ UNCHANGED <<wphase, draining, stopErr, proc, req, notify>> /\ proc = "closing"
        /\ forced' = \E q \in Requests : Active(q)
    BY <1>4 DEF StopRequestLog
  <2>2. \A q \in Requests : Active(q)' <=> Active(q)
    BY <2>1 DEF Active
  <2> QED
    BY <2>1, <2>2 DEF StopInv, CleanStopIsComplete
<1>5. CASE StopDeadline
  <2>1. UNCHANGED <<wphase, todo, draining, proc, stopReq, forced, req, notify, rt>> /\ stopReq /\ stopErr'
    BY <1>5 DEF StopDeadline
  <2> QED
    BY <2>1, StopKept
<1>6. CASE UNCHANGED vars
  <2>1. UNCHANGED <<wphase, todo, draining, proc, stopReq, stopErr, forced, req, notify, rt>>
    BY <1>6 DEF vars
  <2> QED
    BY <2>1, StopKept
<1> QED
  BY <1>1, <1>2, <1>3, <1>4, <1>5, <1>6, RequestStops, WorkerStops DEF Next, ProcessStep

-----------------------------------------------------------------------------
\* The steps that leave every rule at its revision, the snapshot and the
\* requests' view of it alone keep SnapshotInv.
LEMMA SnapshotKept ==
    ASSUME SnapshotInv, UNCHANGED <<req, snapRev>>, proc' # "down" \/ proc' = proc,
           \A r \in Rules : rt'[r].rev = rt[r].rev
    PROVE  SnapshotInv'
BY DEF SnapshotInv, AdmittedUnderOwnRules

\* The requests keep SnapshotInv: what passes the staleness test was read
\* under the current snapshot.
LEMMA RequestSnapshots == TypeOK /\ SnapshotInv /\ RequestStep => SnapshotInv'
<1> SUFFICES ASSUME TypeOK, SnapshotInv, RequestStep PROVE SnapshotInv'
  OBVIOUS
<1> USE DEF dbVars, rtVars, reqVars, wkVars, lifeVars, boundVars
<1>0. req \in [Requests -> RequestRecords] /\ rt \in [Rules -> RuntimeRules] /\ snapRev \in Nat
  BY DEF TypeOK
<1>1. ASSUME NEW q \in Requests, proc # "down", proc' = proc, snapRev' = snapRev,
             \A r \in Rules : rt'[r].rev = rt[r].rev,
             \A p \in Requests : p # q => req'[p] = req[p],
             req'[q].phase = "arrived" =>
                /\ req'[q].snap = snapRev
                /\ \A r \in Rules : req'[q].own[r] = IF KeyOf[r] = req'[q].key THEN rt[r].rev ELSE 0,
             req'[q].phase = "open" /\ (\E r \in Rules : req'[q].own[r] # 0)
                => \A r \in Rules : req'[q].ticket[r].rev = req'[q].own[r]
      PROVE  SnapshotInv'
  <2>1. ASSUME NEW p \in Requests
        PROVE  /\ req'[p].phase = "arrived" =>
                    /\ req'[p].snap <= snapRev
                    /\ req'[p].snap = snapRev =>
                        \A r \in Rules : req'[p].own[r] = IF KeyOf[r] = req'[p].key THEN rt[r].rev ELSE 0
               /\ req'[p].phase = "open" /\ (\E r \in Rules : req'[p].own[r] # 0)
                    => \A r \in Rules : req'[p].ticket[r].rev = req'[p].own[r]
    <3>1. CASE p # q
      BY <1>1, <3>1 DEF SnapshotInv, AdmittedUnderOwnRules
    <3>2. CASE p = q
      BY <1>0, <1>1, <3>2
    <3> QED
      BY <3>1, <3>2
  <2> QED
    BY <1>1, <2>1 DEF SnapshotInv, AdmittedUnderOwnRules
<1>2. ASSUME NEW q \in Requests, NEW k \in Keys, Arrive(q, k) PROVE SnapshotInv'
  <2>1. /\ req'[q].phase = "arrived" /\ req'[q].key = k /\ req'[q].snap = snapRev
        /\ req'[q].own = [r \in Rules |-> IF KeyOf[r] = k THEN rt[r].rev ELSE 0]
        /\ \A p \in Requests : p # q => req'[p] = req[p]
    BY <1>0, <1>2 DEF Arrive, RequestRecords
  <2>2. proc # "down" /\ proc' = proc /\ snapRev' = snapRev /\ rt' = rt
    BY <1>2 DEF Arrive, Serving
  <2> QED
    BY <1>1, <2>1, <2>2
<1>3. ASSUME NEW q \in Requests, NEW now \in Times, Admit(q, now) PROVE SnapshotInv'
  <2>1. /\ proc # "down" /\ proc' = proc /\ snapRev' = snapRev /\ req[q].phase = "arrived"
        /\ \A p \in Requests : p # q => req'[p] = req[p]
    BY <1>0, <1>3 DEF Admit, Serving
  <2>2. \A r \in Rules : rt'[r].rev = rt[r].rev
    BY <1>0, <1>3, OpenWindowKeeps, ConstantsAssumption DEF Admit
  <2>3. /\ req'[q].phase = "open" /\ req'[q].own = req[q].own
        /\ \A r \in Rules : req'[q].ticket[r].rev = IF KeyOf[r] = req[q].key THEN rt[r].rev ELSE 0
    <3> DEFINE own == RulesOf(req[q].key)
               ticket == [r \in Rules |-> IF r \in own THEN [rev |-> rt[r].rev, gen |-> rt'[r].gen]
                                                      ELSE NoTicket[r]]
    <3>1. req'[q] = [req[q] EXCEPT !.phase = "open", !.ticket = ticket]
      BY <1>0, <1>3 DEF Admit
    <3>2. req'[q].phase = "open" /\ req'[q].own = req[q].own /\ req'[q].ticket = ticket
      BY <1>0, <3>1 DEF RequestRecords
    <3>3. \A r \in Rules : r \in own <=> KeyOf[r] = req[q].key
      BY DEF RulesOf
    <3> QED
      BY <3>2, <3>3 DEF NoTicket
  <2>4. ASSUME \E r \in Rules : req[q].own[r] # 0
        PROVE  \A r \in Rules : req'[q].ticket[r].rev = req[q].own[r]
    <3>1. req[q].snap = snapRev
      BY <1>3, <2>4 DEF Admit, Stale
    <3> QED
      BY <2>1, <2>3, <3>1 DEF SnapshotInv
  <2> QED
    BY <1>1, <2>1, <2>2, <2>3, <2>4
<1>4. ASSUME NEW q \in Requests, Reject(q) PROVE SnapshotInv'
  <2>1. req'[q].phase = "rejected" /\ \A p \in Requests : p # q => req'[p] = req[p]
    BY <1>0, <1>4 DEF Reject, NewRequest
  <2> QED
    BY <1>1, <1>4, <2>1 DEF Reject, Serving
<1>5. ASSUME NEW q \in Requests, NEW cost \in Costs, Complete(q, cost) PROVE SnapshotInv'
  <2>1. req'[q].phase = "done" /\ \A p \in Requests : p # q => req'[p] = req[p]
    BY <1>0, <1>5 DEF Complete, NewRequest
  <2>2. \A r \in Rules : rt'[r].rev = rt[r].rev
    BY <1>0, <1>5, ChargeKeeps, ConstantsAssumption DEF Complete
  <2>3. proc # "down" /\ proc' = proc /\ snapRev' = snapRev
    BY <1>5 DEF Complete, Serving
  <2> QED
    BY <1>1, <2>1, <2>2, <2>3
<1>6. ASSUME NEW q \in Requests, NotifyDirty(q) PROVE SnapshotInv'
  <2>1. UNCHANGED <<req, snapRev, proc, rt>>
    BY <1>6 DEF NotifyDirty
  <2> QED
    BY <2>1, SnapshotKept
<1> QED
  BY <1>2, <1>3, <1>4, <1>5, <1>6 DEF RequestStep

\* Every step of the system keeps SnapshotInv: only a publication changes the
\* revisions of a running process, and it makes every earlier view stale.
LEMMA StepSnapshots == TypeOK /\ SnapshotInv /\ [Next]_vars => SnapshotInv'
<1> SUFFICES ASSUME TypeOK, SnapshotInv, [Next]_vars PROVE SnapshotInv'
  OBVIOUS
<1> USE DEF dbVars, rtVars, reqVars, wkVars, lifeVars, boundVars
<1>0. /\ req \in [Requests -> RequestRecords] /\ rt \in [Rules -> RuntimeRules]
      /\ snapRev \in Nat /\ \A q \in Requests : req[q].snap \in Nat
  BY DEF TypeOK, RequestRecords
<1>1. ASSUME UNCHANGED <<req, snapRev, rt>>, proc' # "down" \/ proc' = proc PROVE SnapshotInv'
  BY <1>1, SnapshotKept
<1>2. CASE Publish
  <2>1. req' = req /\ snapRev' = snapRev + 1 /\ proc # "down" /\ proc' = proc
    BY <1>2 DEF Publish, Serving
  <2>2. \A q \in Requests : req[q].phase = "arrived" => req[q].snap <= snapRev' /\ req[q].snap # snapRev'
    BY <1>0, <2>1 DEF SnapshotInv
  <2> QED
    BY <2>1, <2>2 DEF SnapshotInv, AdmittedUnderOwnRules
<1>3. CASE ControlStep /\ ~Publish
  BY <1>1, <1>3 DEF ControlStep, UpdateRules, DeleteAccessKey, ResetRules, PublishFails
<1>4. ASSUME NEW a \in Rules, Ack(a) PROVE SnapshotInv'
  <2>1. rt' = rt \/ rt' = [rt EXCEPT ![a] = [rt[a] EXCEPT !.dirty = FALSE]]
    BY <1>4 DEF Ack
  <2>2. \A r \in Rules : rt'[r].rev = rt[r].rev
    BY <1>0, <2>1 DEF RuntimeRules
  <2> QED
    BY <1>4, <2>2, SnapshotKept DEF Ack
<1>5. WorkerStep \/ WorkerEvent => UNCHANGED <<req, snapRev, rt, proc>> \/ \E a \in Rules : Ack(a)
  BY DEF WorkerStep, WorkerWake, WorkerEvent, CollectWake, CollectTimer, GatherKey, GatherDone,
         WriteCommits, WriteFails, AckDone, RecheckKey, RecheckDone, DrainStart, DrainKey, DrainDone,
         WorkerCancelled
<1>6. CASE BeginShutdown \/ StopRequestLog \/ StopDeadline \/ UNCHANGED vars
  BY <1>1, <1>6 DEF BeginShutdown, StopRequestLog, StopDeadline, vars
<1>7. CASE Boot
  BY <1>7 DEF Boot, SnapshotInv, AdmittedUnderOwnRules
<1>8. CASE Exit \/ Crash
  <2>1. \A q \in Requests : req'[q].phase \in {"new", "gone"}
    BY <1>8 DEF Exit, Crash, LoseMemory, NewRequest
  <2> QED
    BY <2>1 DEF SnapshotInv, AdmittedUnderOwnRules
<1> QED
  BY <1>1, <1>2, <1>3, <1>4, <1>5, <1>6, <1>7, <1>8, RequestSnapshots DEF Next, ProcessStep
=============================================================================
