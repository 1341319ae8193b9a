------------------------ MODULE AccessQuotaDurability ------------------------
(***************************************************************************)
(* Every step of AccessQuota keeps Durability: the lemmas of               *)
(* AccessQuotaOrderProofs lifted to the actions.                           *)
(***************************************************************************)
EXTENDS AccessQuotaInvariants, AccessQuotaOrderProofs

\* The types of everything that concerns one rule.
LEMMA RuleTypes ==
    ASSUME TypeOK, NEW r \in Rules
    PROVE  /\ dbRule[r] \in Definitions /\ dbState[r] \in States /\ rt[r] \in RuntimeRules
           /\ batch[r] \in States
           /\ \A q \in Requests : req[q].ticket[r].rev \in 0..MaxUint64
BY DEF TypeOK, RequestRecords

\* A running process has every rule in order.
LEMMA RuleLive ==
    ASSUME Durability, proc # "down", NEW r \in Rules
    PROVE  LiveInv(dbRule[r], dbState[r], rt[r], batch[r])
BY DEF Durability, RuleInv

\* An absent rule has revision 0 wherever it is absent.
LEMMA AbsentRevisions ==
    /\ AbsentState.rev = 0 /\ AbsentDefinition.rev = 0 /\ AbsentRule.rev = 0
    /\ \A r \in Rules : NoRuntime[r].rev = 0 /\ NoBatch[r].rev = 0 /\ NoTicket[r].rev = 0
BY DEF AbsentState, AbsentDefinition, AbsentRule, RuntimeRule, NoRuntime, NoBatch, NoTicket

\* In every state of Durability the rules have advanced from themselves.
LEMMA AllAdvanceRefl ==
    ASSUME TypeOK, Durability, proc # "down"
    PROVE  \A r \in Rules : Advances(rt[r], rt[r])
BY AdvancesRefl, RuleTypes, RuleLive DEF LiveInv

\* A step that leaves the rows alone, only advances rules, drops or captures
\* checkpoints and issues tickets for opened windows keeps Durability. This
\* covers the requests and most of the worker.
LEMMA QuietStep ==
    ASSUME TypeOK, TypeOK', Durability, UNCHANGED dbVars, proc # "down", proc' # "down",
           \A r \in Rules : Advances(rt[r], rt'[r]),
           \A r \in Rules :
              \/ batch'[r] = batch[r]
              \/ batch'[r] = AbsentState
              \/ batch'[r] = RestoredState(rt[r]) /\ rt[r].rev # 0 /\ wphase' # "ack",
           wphase' = "ack" => wphase = "ack",
           \A q \in Requests, r \in Rules :
              LET t == req'[q].ticket[r] IN
              \/ t = req[q].ticket[r]
              \/ t.rev = 0
              \/ t.rev = rt'[r].rev /\ (rt'[r].period # 0 => t.gen # 0)
    PROVE  Durability'
<1>0. dbRule' = dbRule /\ dbState' = dbState /\ issued' = issued
  BY DEF dbVars
<1>1. DownInv'
  BY DEF DownInv
<1>2. ASSUME NEW r \in Rules
      PROVE  /\ rt[r] \in RuntimeRules /\ rt'[r] \in RuntimeRules /\ batch[r] \in States
             /\ dbRule[r] \in Definitions /\ dbState[r] \in States
             /\ rt'[r].rev = rt[r].rev /\ Advances(rt[r], rt'[r])
             /\ LiveInv(dbRule[r], dbState[r], rt[r], batch[r])
  BY RuleTypes, RuleLive DEF TypeOK, Advances
<1>3. ASSUME NEW r \in Rules PROVE RuleInv(r)'
  <2>1. LiveInv(dbRule[r], dbState[r], rt[r], batch'[r]) /\ batch'[r] \in States
    <3>1. CASE batch'[r] = batch[r]
      BY <1>2, <3>1
    <3>2. CASE batch'[r] = AbsentState
      BY <1>2, <3>2, LiveDrops, AbsentTypes
    <3>3. CASE batch'[r] = RestoredState(rt[r]) /\ rt[r].rev # 0
      BY <1>2, <3>3, LiveCaptures, RestoredStateType
    <3> QED
      BY <3>1, <3>2, <3>3
  <2>2. LiveInv(dbRule[r], dbState[r], rt'[r], batch'[r])
    BY <1>2, <2>1, LiveAdvances
  <2>3. wphase' = "ack" => WrittenInv(dbRule[r], dbState[r], batch'[r])
    <3>1. wphase = "ack" => WrittenInv(dbRule[r], dbState[r], batch[r])
      BY DEF Durability, RuleInv
    <3>2. WrittenInv(dbRule[r], dbState[r], AbsentState)
      BY <1>2, LiveDrops
    <3> QED
      BY <3>1, <3>2
  <2>4. dbRule[r].rev # 0 \/ rt'[r].rev # 0 \/ batch'[r].rev # 0 => r \in issued
    <3>1. dbRule[r].rev # 0 \/ rt[r].rev # 0 \/ batch[r].rev # 0 => r \in issued
      BY DEF Durability, RuleInv
    <3> QED
      BY <1>2, <3>1, AbsentRevisions, RestoredStateFields
  <2> QED
    BY <1>0, <2>2, <2>3, <2>4 DEF RuleInv
<1>4. TicketsInv'
  <2> SUFFICES ASSUME NEW q \in Requests, NEW r \in Rules, req'[q].ticket[r].rev # 0
               PROVE  r \in issued /\ TicketInv(dbRule[r], rt'[r], req'[q].ticket[r])
    BY <1>0 DEF TicketsInv
  <2>1. rt[r].rev # 0 => r \in issued
    BY DEF Durability, RuleInv
  <2>2. req[q].ticket[r].rev # 0 => r \in issued /\ TicketInv(dbRule[r], rt[r], req[q].ticket[r])
    BY DEF Durability, TicketsInv
  <2>3. CASE req'[q].ticket[r] = req[q].ticket[r]
    BY <1>2, <2>2, <2>3, TicketAdvances
  <2>4. CASE /\ req'[q].ticket[r].rev = rt'[r].rev
             /\ rt'[r].period # 0 => req'[q].ticket[r].gen # 0
    BY <1>2, <2>1, <2>4, TicketAdvances
  <2> QED
    BY <2>3, <2>4
<1> QED
  BY <1>1, <1>3, <1>4 DEF Durability

-----------------------------------------------------------------------------
\* The gateway's requests keep Durability: arrival, rejection, admission with
\* its windows and ticket, completion with its charge, notification.
LEMMA RequestStepDurability == TypeOK /\ TypeOK' /\ Durability /\ RequestStep => Durability'
<1> SUFFICES ASSUME TypeOK, TypeOK', Durability, RequestStep PROVE Durability'
  OBVIOUS
<1> USE DEF dbVars, rtVars, reqVars, wkVars, lifeVars, boundVars
<1>0. req \in [Requests -> RequestRecords]
  BY DEF TypeOK
<1>1. ASSUME NEW q \in Requests, NEW k \in Keys, Arrive(q, k) PROVE Durability'
  <2>1. \A p \in Requests : req'[p].ticket = req[p].ticket
    BY <1>0, <1>1 DEF Arrive, RequestRecords
  <2>2. proc # "down" /\ proc' # "down"
    BY <1>1 DEF Arrive, Serving
  <2> QED
    BY <1>1, <2>1, <2>2, AllAdvanceRefl, QuietStep DEF Arrive, Serving
<1>2. ASSUME NEW q \in Requests, NEW now \in Times, Admit(q, now) PROVE Durability'
  <2>1. now \in Nat /\ proc # "down" /\ proc' # "down"
    BY <1>2, ConstantsAssumption DEF Admit, Serving
  <2>2. ASSUME NEW r \in Rules
        PROVE  /\ Advances(rt[r], rt'[r])
               /\ r \in RulesOf(req[q].key) /\ rt'[r].period # 0 /\ rt[r].rev # 0 => rt'[r].gen # 0
    <3>1. rt[r] \in RuntimeRules /\ (rt[r].rev # 0 => WellFormed(rt[r].period, rt[r]))
      BY <2>1, RuleTypes, RuleLive DEF LiveInv
    <3>2. CASE r \in RulesOf(req[q].key)
      <4>1. rt'[r] = OpenWindow(rt[r], now)
        BY <1>2, <3>2 DEF Admit
      <4> QED
        BY <2>1, <3>1, <4>1, OpenWindowAdvances
    <3>3. CASE r \notin RulesOf(req[q].key)
      <4>1. rt'[r] = rt[r]
        BY <1>2, <3>3 DEF Admit
      <4> QED
        BY <3>1, <3>3, <4>1, AdvancesRefl
    <3> QED
      BY <3>2, <3>3
  <2>3. ASSUME NEW p \in Requests, NEW r \in Rules
        PROVE  LET t == req'[p].ticket[r] IN
               \/ t = req[p].ticket[r]
               \/ t.rev = 0
               \/ t.rev = rt'[r].rev /\ (rt'[r].period # 0 => t.gen # 0)
    <3>1. CASE p # q
      BY <1>0, <1>2, <3>1 DEF Admit
    <3>2. CASE p = q /\ r \notin RulesOf(req[q].key)
      BY <1>0, <1>2, <3>2 DEF Admit, NoTicket, RequestRecords
    <3>3. CASE p = q /\ r \in RulesOf(req[q].key)
      <4>1. req'[p].ticket[r] = [rev |-> rt[r].rev, gen |-> rt'[r].gen]
        BY <1>0, <1>2, <3>3 DEF Admit, RequestRecords
      <4> QED
        BY <2>2, <3>3, <4>1 DEF Advances
    <3> QED
      BY <3>1, <3>2, <3>3
  <2>4. UNCHANGED <<dbVars, batch, wphase>>
    BY <1>2 DEF Admit
  <2> QED
    BY <2>1, <2>2, <2>3, <2>4, QuietStep
<1>3. ASSUME NEW q \in Requests, Reject(q) PROVE Durability'
  <2>1. \A p \in Requests, r \in Rules :
            req'[p].ticket[r] = req[p].ticket[r] \/ req'[p].ticket[r].rev = 0
    BY <1>0, <1>3 DEF Reject, NewRequest, NoTicket
  <2>2. proc # "down" /\ proc' # "down"
    BY <1>3 DEF Reject, Serving
  <2> QED
    BY <1>3, <2>1, <2>2, AllAdvanceRefl, QuietStep DEF Reject
<1>4. ASSUME NEW q \in Requests, NEW cost \in Costs, Complete(q, cost) PROVE Durability'
  <2>1. cost \in Int /\ proc # "down" /\ proc' # "down"
    BY <1>4, ConstantsAssumption DEF Complete, Serving
  <2>2. ASSUME NEW r \in Rules PROVE Advances(rt[r], rt'[r])
    <3> DEFINE t == req[q].ticket[r]
    <3>1. rt[r] \in RuntimeRules /\ (rt[r].rev # 0 => WellFormed(rt[r].period, rt[r]))
      BY <2>1, RuleTypes, RuleLive DEF LiveInv
    <3>2. rt[r].rev # 0 /\ t.rev = rt[r].rev /\ rt[r].period # 0 => t.gen # 0
      BY DEF Durability, TicketsInv, TicketInv
    <3>3. rt'[r] = Charge(rt[r], t, cost)
      BY <1>4 DEF Complete
    <3> QED
      BY <2>1, <3>1, <3>2, <3>3, ChargeAdvances
  <2>3. \A p \in Requests : req'[p].ticket = req[p].ticket
    BY <1>0, <1>4 DEF Complete, NewRequest
  <2>4. UNCHANGED <<dbVars, batch, wphase>>
    BY <1>4 DEF Complete
  <2> QED
    BY <2>1, <2>2, <2>3, <2>4, QuietStep
<1>5. ASSUME NEW q \in Requests, NotifyDirty(q) PROVE Durability'
  <2>1. proc # "down" /\ proc' # "down"
    BY <1>5 DEF NotifyDirty, Serving
  <2> QED
    BY <1>5, <2>1, AllAdvanceRefl, QuietStep DEF NotifyDirty
<1> QED
  BY <1>1, <1>2, <1>3, <1>4, <1>5 DEF RequestStep

-----------------------------------------------------------------------------
\* A checkpoint transaction that takes effect keeps every rule in order, and
\* no snapshot of its batch makes it fail.
LEMMA ApplyBatchKeeps ==
    ASSUME TypeOK, Durability, proc # "down"
    PROVE  /\ ~Poisoned
           /\ ApplyBatch =>
                \A r \in Rules :
                   /\ LiveInv(dbRule[r], dbState'[r], rt[r], batch[r])
                   /\ WrittenInv(dbRule[r], dbState'[r], batch[r])
                   /\ dbState'[r] = dbState[r]
                      \/ (dbState'[r].rev = dbState[r].rev /\ Precedes(dbState[r], dbState'[r]))
<1>1. ASSUME NEW r \in Rules
      PROVE  /\ dbRule[r] \in Definitions /\ dbState[r] \in States /\ rt[r] \in RuntimeRules
             /\ batch[r] \in States /\ LiveInv(dbRule[r], dbState[r], rt[r], batch[r])
  BY RuleTypes, RuleLive
<1>2. ~Poisoned
  BY <1>1, LivePersists DEF Poisoned, Batched, Present
<1>3. ASSUME ApplyBatch, NEW r \in Rules
      PROVE  /\ LiveInv(dbRule[r], dbState'[r], rt[r], batch[r])
             /\ WrittenInv(dbRule[r], dbState'[r], batch[r])
             /\ dbState'[r] = dbState[r]
                \/ (dbState'[r].rev = dbState[r].rev /\ Precedes(dbState[r], dbState'[r]))
  <2>1. CASE batch[r].rev # 0
    <3>1. dbState'[r] = Persisted(dbRule[r], dbState[r], batch[r])
      BY <1>3, <2>1 DEF ApplyBatch, Batched, Present
    <3> QED
      BY <1>1, <2>1, <3>1, LivePersists
  <2>2. CASE batch[r].rev = 0
    <3>1. dbState'[r] = dbState[r]
      BY <1>3, <2>2 DEF ApplyBatch, Batched, Present
    <3> QED
      BY <1>1, <2>2, <3>1 DEF WrittenInv
  <2> QED
    BY <2>1, <2>2
<1> QED
  BY <1>2, <1>3

\* A step that writes the batch and keeps or drops it keeps Durability.
LEMMA WriteStep ==
    ASSUME TypeOK, Durability, proc # "down", proc' = proc, ApplyBatch,
           UNCHANGED <<dbRule, issued, rt, req>>,
           batch' = batch \/ batch' = NoBatch
    PROVE  Durability'
<1>1. DownInv' /\ TicketsInv'
  BY DEF Durability, DownInv, TicketsInv
<1>2. ASSUME NEW r \in Rules PROVE RuleInv(r)'
  <2>1. LiveInv(dbRule[r], dbState'[r], rt[r], batch[r]) /\ WrittenInv(dbRule[r], dbState'[r], batch[r])
    BY ApplyBatchKeeps
  <2>2. LiveInv(dbRule[r], dbState'[r], rt[r], AbsentState)
        /\ WrittenInv(dbRule[r], dbState'[r], AbsentState)
    BY <2>1, LiveDrops
  <2>3. batch'[r] = batch[r] \/ batch'[r] = AbsentState
    BY DEF NoBatch
  <2>4. dbRule[r].rev # 0 \/ rt[r].rev # 0 \/ batch[r].rev # 0 => r \in issued
    BY DEF Durability, RuleInv
  <2> QED
    BY <2>1, <2>2, <2>3, <2>4, AbsentRevisions DEF RuleInv
<1> QED
  BY <1>1, <1>2 DEF Durability

\* Runtime.Ack of a written snapshot clears the dirty flag only of a rule
\* whose row is not behind it.
LEMMA AckDurability ==
    ASSUME TypeOK, Durability, NEW a \in Rules, Ack(a)
    PROVE  Durability'
<1> USE DEF dbVars, rtVars, reqVars, wkVars, lifeVars, boundVars
<1>1. /\ wphase = "ack" /\ wphase' = wphase /\ proc' = proc /\ proc # "down"
      /\ dbRule' = dbRule /\ dbState' = dbState /\ issued' = issued /\ req' = req
  BY DEF Ack, Serving
<1>2. batch' = [batch EXCEPT ![a] = AbsentState]
  BY DEF Ack
<1>3. rt' = rt \/ (/\ rt' = [rt EXCEPT ![a] = [rt[a] EXCEPT !.dirty = FALSE]]
                  /\ rt[a].rev = batch[a].rev /\ rt[a].ver = batch[a].ver)
  BY DEF Ack
<1>4. rt \in [Rules -> RuntimeRules] /\ batch \in [Rules -> States]
  BY DEF TypeOK
<1>5. ASSUME NEW r \in Rules
      PROVE  \/ rt'[r] = rt[r] /\ (batch'[r] = batch[r] \/ batch'[r] = AbsentState)
             \/ /\ rt'[r] = [rt[r] EXCEPT !.dirty = FALSE] /\ batch'[r] = AbsentState
                /\ rt[r].rev = batch[r].rev /\ rt[r].ver = batch[r].ver
  BY <1>2, <1>3, <1>4
<1>6. ASSUME NEW r \in Rules
      PROVE  /\ LiveInv(dbRule[r], dbState[r], rt'[r], batch'[r])
             /\ WrittenInv(dbRule[r], dbState[r], batch'[r])
             /\ \A t : TicketInv(dbRule[r], rt[r], t) => TicketInv(dbRule[r], rt'[r], t)
             /\ rt'[r].rev = rt[r].rev /\ (batch'[r].rev # 0 => batch[r].rev # 0)
  <2>1. LiveInv(dbRule[r], dbState[r], rt[r], batch[r]) /\ WrittenInv(dbRule[r], dbState[r], batch[r])
    BY <1>1, RuleLive DEF Durability, RuleInv
  <2>2. LiveInv(dbRule[r], dbState[r], rt[r], AbsentState)
        /\ WrittenInv(dbRule[r], dbState[r], AbsentState)
    BY <2>1, LiveDrops
  <2>3. /\ dbRule[r] \in Definitions /\ dbState[r] \in States /\ rt[r] \in RuntimeRules
        /\ batch[r] \in States
    BY RuleTypes
  <2>4. CASE rt'[r] = rt[r] /\ (batch'[r] = batch[r] \/ batch'[r] = AbsentState)
    BY <2>1, <2>2, <2>4, AbsentRevisions
  <2>5. CASE /\ rt'[r] = [rt[r] EXCEPT !.dirty = FALSE] /\ batch'[r] = AbsentState
             /\ rt[r].rev = batch[r].rev /\ rt[r].ver = batch[r].ver
    <3>1. rt'[r].rev = rt[r].rev
      BY <2>3, <2>5 DEF RuntimeRules
    <3> QED
      BY <2>1, <2>2, <2>3, <2>5, <3>1, LiveAcks, AbsentRevisions
  <2> QED
    BY <1>5, <2>4, <2>5
<1>7. DownInv'
  BY <1>1 DEF DownInv
<1>8. TicketsInv'
  BY <1>1, <1>6 DEF Durability, TicketsInv
<1>9. ASSUME NEW r \in Rules PROVE RuleInv(r)'
  <2>1. dbRule[r].rev # 0 \/ rt[r].rev # 0 \/ batch[r].rev # 0 => r \in issued
    BY DEF Durability, RuleInv
  <2> QED
    BY <1>1, <1>6, <2>1 DEF RuleInv
<1> QED
  BY <1>7, <1>8, <1>9 DEF Durability

\* The request-log worker keeps Durability, in its select loop, in a flush
\* and in drain.
LEMMA WorkerStepDurability ==
    TypeOK /\ TypeOK' /\ Durability /\ (WorkerStep \/ WorkerEvent) => Durability'
<1> SUFFICES ASSUME TypeOK, TypeOK', Durability, WorkerStep \/ WorkerEvent PROVE Durability'
  OBVIOUS
<1> USE DEF dbVars, rtVars, reqVars, wkVars, lifeVars, boundVars
<1>1. ASSUME UNCHANGED <<dbVars, rt, req, batch>>, proc # "down", proc' # "down", wphase' # "ack"
      PROVE  Durability'
  BY <1>1, AllAdvanceRefl, QuietStep
<1>2. CASE WorkerWake \/ WorkerEvent \/ CollectWake \/ CollectTimer
  BY <1>1, <1>2 DEF WorkerWake, WorkerEvent, CollectWake, CollectTimer, BeginScan, Serving
<1>3. CASE DrainStart \/ DrainKey \/ DrainDone \/ WorkerCancelled
  BY <1>1, <1>3 DEF DrainStart, DrainKey, DrainDone, WorkerCancelled, BeginScan, Serving
<1>4. CASE GatherDone \/ AckDone \/ RecheckKey \/ RecheckDone
  BY <1>1, <1>4 DEF GatherDone, AckDone, RecheckKey, RecheckDone, FlushReturns, BeginScan, Serving
<1>5. CASE GatherKey
  <2>1. \A r \in Rules : batch'[r] = batch[r] \/ (batch'[r] = RestoredState(rt[r]) /\ rt[r].rev # 0)
    BY <1>5 DEF GatherKey, DirtyRules, Present
  <2>2. UNCHANGED <<dbVars, rt, req>> /\ proc # "down" /\ proc' # "down" /\ wphase' # "ack"
    BY <1>5 DEF GatherKey, Serving
  <2> QED
    BY <2>1, <2>2, AllAdvanceRefl, QuietStep
<1>6. CASE WriteCommits
  BY <1>6, WriteStep DEF WriteCommits, Serving
<1>7. CASE WriteFails
  <2>1. /\ UNCHANGED <<dbRule, issued, rt, req>> /\ batch' = NoBatch /\ proc # "down" /\ proc' = proc
        /\ wphase' # "ack" /\ (UNCHANGED dbState \/ ApplyBatch)
    BY <1>7 DEF WriteFails, Serving
  <2>2. CASE ApplyBatch
    BY <2>1, <2>2, WriteStep
  <2>3. CASE UNCHANGED dbState
    <3>1. \A r \in Rules : batch'[r] = AbsentState
      BY <2>1 DEF NoBatch
    <3> QED
      BY <2>1, <2>3, <3>1, AllAdvanceRefl, QuietStep
  <2> QED
    BY <2>1, <2>2, <2>3
<1>8. ASSUME NEW r \in Rules, Ack(r) PROVE Durability'
  BY <1>8, AckDurability
<1> QED
  BY <1>2, <1>3, <1>4, <1>5, <1>6, <1>7, <1>8 DEF WorkerStep

-----------------------------------------------------------------------------
\* What one committed edit may do to rule r: create it under an ID never used
\* before, or what Edited says.
EditedFrom(r) ==
    \/ Edited(dbRule[r], dbState[r], dbRule'[r], dbState'[r])
    \/ dbRule[r].rev = 0 /\ r \notin issued /\ dbRule'[r].rev = 1 /\ dbState'[r] = FreshState(1)

\* A committed edit keeps every rule in order while the runtime still works
\* with the previous definitions.
LEMMA EditStep ==
    ASSUME TypeOK, TypeOK', Durability, proc # "down", proc' = proc,
           UNCHANGED <<rt, req, batch, wphase>>, issued \subseteq issued',
           \A r \in Rules : EditedFrom(r) /\ (dbRule'[r].rev # 0 => r \in issued')
    PROVE  Durability'
<1>1. DownInv'
  BY DEF DownInv
<1>2. ASSUME NEW r \in Rules
      PROVE  /\ LiveInv(dbRule'[r], dbState'[r], rt[r], batch[r])
             /\ WrittenInv(dbRule[r], dbState[r], batch[r])
                  => WrittenInv(dbRule'[r], dbState'[r], batch[r])
             /\ \A q \in Requests : req[q].ticket[r].rev # 0
                  => r \in issued /\ TicketInv(dbRule'[r], rt[r], req[q].ticket[r])
  <2>1. /\ dbRule[r] \in Definitions /\ dbState[r] \in States /\ rt[r] \in RuntimeRules
        /\ batch[r] \in States /\ LiveInv(dbRule[r], dbState[r], rt[r], batch[r])
    BY RuleTypes, RuleLive
  <2>2. dbRule'[r] \in Definitions /\ dbState'[r] \in States
    BY DEF TypeOK
  <2>3. \A q \in Requests : req[q].ticket[r].rev # 0
                  => r \in issued /\ TicketInv(dbRule[r], rt[r], req[q].ticket[r])
    BY DEF Durability, TicketsInv
  <2>4. CASE Edited(dbRule[r], dbState[r], dbRule'[r], dbState'[r])
    <3>1. /\ LiveInv(dbRule'[r], dbState'[r], rt[r], batch[r])
          /\ WrittenInv(dbRule[r], dbState[r], batch[r])
               => WrittenInv(dbRule'[r], dbState'[r], batch[r])
          /\ \A t : TicketInv(dbRule[r], rt[r], t) => TicketInv(dbRule'[r], rt[r], t)
      BY <2>1, <2>2, <2>4, LiveEdits
    <3> QED
      BY <2>3, <3>1
  <2>5. CASE dbRule[r].rev = 0 /\ r \notin issued /\ dbRule'[r].rev = 1 /\ dbState'[r] = FreshState(1)
    <3>1. rt[r].rev = 0 /\ batch[r].rev = 0 /\ \A q \in Requests : req[q].ticket[r].rev = 0
      BY <2>3, <2>5 DEF Durability, RuleInv
    <3> QED
      BY <2>1, <2>2, <2>5, <3>1, LiveCreates
  <2> QED
    BY <2>4, <2>5 DEF EditedFrom
<1>3. TicketsInv'
  BY <1>2 DEF TicketsInv
<1>4. ASSUME NEW r \in Rules PROVE RuleInv(r)'
  <2>1. /\ wphase = "ack" => WrittenInv(dbRule[r], dbState[r], batch[r])
        /\ rt[r].rev # 0 \/ batch[r].rev # 0 => r \in issued
    BY DEF Durability, RuleInv
  <2> QED
    BY <1>2, <2>1 DEF RuleInv
<1> QED
  BY <1>1, <1>3, <1>4 DEF Durability

\* reconcileAccessKeyCostLimitRules edits every rule in an allowed way.
LEMMA UpdateEdits ==
    ASSUME TypeOK, Durability, proc # "down", NEW k \in Keys, NEW w \in Desired(k), UpdateRules(k, w),
           NEW r \in Rules
    PROVE  EditedFrom(r) /\ (dbRule'[r].rev # 0 => r \in issued')
<1>0. dbRule[r].rev # 0 => r \in issued
  BY DEF Durability, RuleInv
<1>1. CASE r \notin RulesOf(k)
  <2>1. dbRule'[r] = dbRule[r] /\ dbState'[r] = dbState[r] /\ issued \subseteq issued'
    BY <1>1 DEF UpdateRules
  <2> QED
    BY <1>0, <2>1 DEF EditedFrom, Edited
<1>2. CASE r \in RulesOf(k)
  <2>1. dbRule'[r] = EditedRule(r, w[r]) /\ dbState'[r] = EditedState(r, w[r])
    BY <1>2 DEF UpdateRules
  <2>2. w[r].limit # 0 /\ dbRule[r].rev = 0 => r \notin issued
    BY <1>2 DEF UpdateRules
  <2>3. w[r].limit # 0 => r \in issued'
    BY <1>2 DEF UpdateRules
  <2>4. CASE w[r].limit = 0
    <3>1. dbRule'[r].rev = 0 /\ dbState'[r] = AbsentState
      BY <2>1, <2>4 DEF EditedRule, EditedState, AbsentDefinition
    <3> QED
      BY <3>1 DEF EditedFrom, Edited
  <2>5. CASE w[r].limit # 0 /\ dbRule[r].rev = 0
    <3>1. dbRule'[r].rev = 1 /\ dbState'[r] = FreshState(1)
      BY <2>1, <2>5 DEF EditedRule, EditedState
    <3>2. dbRule[r].rev = 0 /\ r \notin issued /\ r \in issued'
      BY <2>2, <2>3, <2>5
    <3>3. EditedFrom(r)
      BY <3>1, <3>2 DEF EditedFrom
    <3> QED
      BY <3>2, <3>3
  <2>6. CASE w[r].limit # 0 /\ dbRule[r].rev # 0 /\ dbRule[r].period = w[r].period
    <3>1. /\ dbRule'[r].rev = dbRule[r].rev /\ dbRule'[r].period = dbRule[r].period
          /\ dbState'[r] = dbState[r]
      BY <2>1, <2>6 DEF EditedRule, EditedState
    <3> QED
      BY <2>3, <2>6, <3>1 DEF EditedFrom, Edited
  <2>7. CASE w[r].limit # 0 /\ dbRule[r].rev # 0 /\ dbRule[r].period # w[r].period
    <3>1. dbRule'[r].rev = dbRule[r].rev + 1 /\ dbState'[r] = FreshState(dbRule[r].rev + 1)
      BY <2>1, <2>7 DEF EditedRule, EditedState, ResetState
    <3> QED
      BY <2>3, <2>7, <3>1 DEF EditedFrom, Edited
  <2> QED
    BY <2>4, <2>5, <2>6, <2>7
<1> QED
  BY <1>1, <1>2

\* ResetAccessKeyCostLimitRules edits every rule in an allowed way.
LEMMA ResetEdits ==
    ASSUME TypeOK, Durability, NEW S \in SUBSET Rules, ResetRules(S), NEW r \in Rules
    PROVE  EditedFrom(r) /\ (dbRule'[r].rev # 0 => r \in issued')
<1>0. (dbRule[r].rev # 0 => r \in issued) /\ issued' = issued /\ dbRule[r] \in Definitions
  BY DEF Durability, RuleInv, ResetRules, TypeOK
<1>1. CASE r \in S
  <2>1. /\ dbRule[r].rev # 0 /\ dbRule'[r] = [dbRule[r] EXCEPT !.rev = @ + 1]
        /\ dbState'[r] = ResetState(dbRule[r].rev + 1)
    BY <1>1 DEF ResetRules
  <2>2. dbRule'[r].rev = dbRule[r].rev + 1
    BY <1>0, <2>1 DEF Definitions
  <2> QED
    BY <1>0, <2>1, <2>2 DEF EditedFrom, Edited, ResetState
<1>2. CASE r \notin S
  <2>1. dbRule'[r] = dbRule[r] /\ dbState'[r] = dbState[r]
    BY <1>2 DEF ResetRules
  <2> QED
    BY <1>0, <2>1 DEF EditedFrom, Edited
<1> QED
  BY <1>1, <1>2

\* Publishing the committed definitions keeps Durability: a rule of the same
\* revision keeps its state, a new revision starts where its row starts.
LEMMA PublishDurability ==
    ASSUME TypeOK, TypeOK', Durability, Publish
    PROVE  Durability'
<1> USE DEF dbVars, rtVars, reqVars, wkVars, lifeVars, boundVars
<1>1. /\ proc # "down" /\ proc' = proc /\ wphase' = wphase /\ batch' = batch /\ req' = req
      /\ dbRule' = dbRule /\ dbState' = dbState /\ issued' = issued
  BY DEF Publish, Serving
<1>2. DownInv'
  BY <1>1 DEF DownInv
<1>3. ASSUME NEW r \in Rules
      PROVE  /\ LiveInv(dbRule[r], dbState[r], rt'[r], batch[r])
             /\ \A q \in Requests : req[q].ticket[r].rev # 0
                  => r \in issued /\ TicketInv(dbRule[r], rt'[r], req[q].ticket[r])
             /\ rt'[r].rev # 0 => dbRule[r].rev # 0
  <2>1. /\ dbRule[r] \in Definitions /\ dbState[r] \in States /\ rt[r] \in RuntimeRules
        /\ batch[r] \in States /\ LiveInv(dbRule[r], dbState[r], rt[r], batch[r])
        /\ \A q \in Requests : req[q].ticket[r].rev \in Nat
    BY <1>1, RuleTypes, RuleLive, MaxUint64Assumption
  <2>2. \A q \in Requests : req[q].ticket[r].rev # 0
                  => r \in issued /\ TicketInv(dbRule[r], rt[r], req[q].ticket[r])
    BY DEF Durability, TicketsInv
  <2>3. rt'[r] = Reconciled(dbRule[r], rt[r])
    BY DEF Publish
  <2>4. dbRule[r].rev = 0 => rt'[r].rev = 0
    BY <2>3, AbsentRevisions DEF Reconciled
  <2> QED
    BY <2>1, <2>2, <2>3, <2>4, LivePublishes
<1>4. TicketsInv'
  BY <1>1, <1>3 DEF TicketsInv
<1>5. ASSUME NEW r \in Rules PROVE RuleInv(r)'
  <2>1. /\ wphase = "ack" => WrittenInv(dbRule[r], dbState[r], batch[r])
        /\ dbRule[r].rev # 0 \/ batch[r].rev # 0 => r \in issued
    BY DEF Durability, RuleInv
  <2> QED
    BY <1>1, <1>3, <2>1 DEF RuleInv
<1> QED
  BY <1>2, <1>4, <1>5 DEF Durability

\* The control plane keeps Durability: updates and resets of rules, deletion
\* of a key, publication and its failure.
LEMMA ControlStepDurability == TypeOK /\ TypeOK' /\ Durability /\ ControlStep => Durability'
<1> SUFFICES ASSUME TypeOK, TypeOK', Durability, ControlStep PROVE Durability'
  OBVIOUS
<1> USE DEF dbVars, rtVars, reqVars, wkVars, lifeVars, boundVars
<1>1. ASSUME NEW k \in Keys, NEW w \in Desired(k), UpdateRules(k, w) PROVE Durability'
  <2>1. /\ proc # "down" /\ proc' = proc /\ issued \subseteq issued'
        /\ UNCHANGED <<rt, req, batch, wphase>>
    BY <1>1 DEF UpdateRules, ControlIdle, Serving
  <2> QED
    BY <1>1, <2>1, UpdateEdits, EditStep
<1>2. ASSUME NEW k \in Keys, DeleteAccessKey(k) PROVE Durability'
  <2>1. ASSUME NEW r \in Rules PROVE EditedFrom(r) /\ (dbRule'[r].rev # 0 => r \in issued')
    <3>1. dbRule[r].rev # 0 => r \in issued
      BY DEF Durability, RuleInv
    <3> QED
      BY <1>2, <3>1 DEF DeleteAccessKey, EditedFrom, Edited, AbsentDefinition
  <2>2. /\ proc # "down" /\ proc' = proc /\ issued \subseteq issued'
        /\ UNCHANGED <<rt, req, batch, wphase>>
    BY <1>2 DEF DeleteAccessKey, ControlIdle, Serving
  <2> QED
    BY <2>1, <2>2, EditStep
<1>3. ASSUME NEW k \in Keys, NEW S \in SUBSET RulesOf(k) \ {{}}, ResetRules(S) PROVE Durability'
  <2>1. S \in SUBSET Rules
    BY DEF RulesOf
  <2>2. /\ proc # "down" /\ proc' = proc /\ issued \subseteq issued'
        /\ UNCHANGED <<rt, req, batch, wphase>>
    BY <1>3 DEF ResetRules, ControlIdle, Serving
  <2> QED
    BY <1>3, <2>1, <2>2, ResetEdits, EditStep
<1>4. CASE Publish
  BY <1>4, PublishDurability
<1>5. CASE PublishFails
  <2>1. UNCHANGED <<dbVars, rt, req, batch, wphase>> /\ proc # "down" /\ proc' # "down"
    BY <1>5 DEF PublishFails, Serving
  <2> QED
    BY <2>1, AllAdvanceRefl, QuietStep
<1> QED
  BY <1>1, <1>2, <1>3, <1>4, <1>5 DEF ControlStep

-----------------------------------------------------------------------------
\* A start-up restores every rule exactly as its row has it; nothing of the
\* previous process is left.
LEMMA BootDurability ==
    ASSUME TypeOK, Durability, Boot
    PROVE  Durability'
<1> USE DEF dbVars, rtVars, reqVars, wkVars, lifeVars, boundVars
<1>1. /\ proc = "down" /\ proc' = "up" /\ wphase' = wphase /\ batch' = batch /\ req' = req
      /\ dbRule' = dbRule /\ dbState' = dbState /\ issued' = issued
  BY DEF Boot
<1>2. \A r \in Rules : batch[r].rev = 0 /\ \A q \in Requests : req[q].ticket[r].rev = 0
  BY <1>1, AbsentRevisions DEF Durability, DownInv
<1>3. DownInv' /\ TicketsInv'
  BY <1>1, <1>2 DEF DownInv, TicketsInv
<1>4. ASSUME NEW r \in Rules PROVE RuleInv(r)'
  <2>1. /\ dbRule[r] \in Definitions /\ dbState[r] \in States /\ RowInv(dbRule[r], dbState[r])
        /\ dbRule[r].rev # 0 => r \in issued
    BY <1>1, RuleTypes DEF Durability, RuleInv
  <2>2. rt'[r] = Restored(dbRule[r], dbState[r])
    BY DEF Boot
  <2>3. LiveInv(dbRule[r], dbState[r], rt'[r], batch[r])
    BY <1>2, <2>1, <2>2, LiveBoots
  <2>4. dbRule[r].rev = 0 => rt'[r].rev = 0
    BY <2>2, AbsentRevisions DEF Restored
  <2>5. WrittenInv(dbRule[r], dbState[r], batch[r])
    BY <1>2 DEF WrittenInv
  <2> QED
    BY <1>1, <1>2, <2>1, <2>3, <2>4, <2>5 DEF RuleInv
<1> QED
  BY <1>3, <1>4 DEF Durability

\* Losing the process keeps Durability: the rows are what they were.
LEMMA LoseMemoryDurability ==
    ASSUME TypeOK, Durability, LoseMemory, UNCHANGED dbVars
    PROVE  Durability'
<1>1. /\ proc' = "down" /\ wphase' = "idle" /\ rt' = NoRuntime /\ batch' = NoBatch
      /\ dbRule' = dbRule /\ dbState' = dbState /\ issued' = issued
  BY DEF LoseMemory, dbVars
<1>2. \A q \in Requests : req'[q].ticket = NoTicket
  BY DEF LoseMemory, NewRequest
<1>3. DownInv'
  BY <1>1, <1>2 DEF DownInv, NoRuntime, NoBatch, NoTicket
<1>4. TicketsInv'
  BY <1>2, AbsentRevisions DEF TicketsInv
<1>5. ASSUME NEW r \in Rules PROVE RuleInv(r)'
  <2>1. rt'[r].rev = 0 /\ batch'[r].rev = 0
    BY <1>1, AbsentRevisions
  <2>2. RowInv(dbRule[r], dbState[r]) /\ (dbRule[r].rev # 0 => r \in issued)
    BY DEF Durability, RuleInv, LiveInv
  <2> QED
    BY <1>1, <2>1, <2>2 DEF RuleInv
<1> QED
  BY <1>3, <1>4, <1>5 DEF Durability

\* Start-up, shutdown and crashes keep Durability.
LEMMA ProcessStepDurability == TypeOK /\ TypeOK' /\ Durability /\ ProcessStep => Durability'
<1> SUFFICES ASSUME TypeOK, TypeOK', Durability, ProcessStep PROVE Durability'
  OBVIOUS
<1> USE DEF dbVars, rtVars, reqVars, wkVars, lifeVars, boundVars
<1>1. CASE Boot
  BY <1>1, BootDurability
<1>2. CASE BeginShutdown \/ StopRequestLog \/ StopDeadline
  <2>1. UNCHANGED <<dbVars, rt, req, batch, wphase>> /\ proc # "down" /\ proc' # "down"
    BY <1>2 DEF BeginShutdown, StopRequestLog, StopDeadline
  <2> QED
    BY <2>1, AllAdvanceRefl, QuietStep
<1>3. CASE Exit \/ Crash
  BY <1>3, LoseMemoryDurability DEF Exit, Crash
<1> QED
  BY <1>1, <1>2, <1>3 DEF ProcessStep

\* A fresh database and no process satisfy Durability.
LEMMA InitDurability == Init => Durability
<1> SUFFICES ASSUME Init PROVE Durability
  OBVIOUS
<1>1. DownInv
  BY DEF Init, DownInv, NewRequest
<1>2. TicketsInv
  BY AbsentRevisions DEF Init, TicketsInv, NewRequest
<1>3. ASSUME NEW r \in Rules PROVE RuleInv(r)
  <2>1. rt[r].rev = 0 /\ batch[r].rev = 0 /\ proc = "down" /\ wphase = "idle"
    BY AbsentRevisions DEF Init
  <2>2. dbRule[r] \in DefinitionsOf(r)
    BY DEF Init
  <2>3. dbRule[r].rev = 0 \/ dbRule[r].rev = 1
    BY <2>2 DEF DefinitionsOf, AbsentDefinition
  <2>4. RowInv(dbRule[r], dbState[r]) /\ (dbRule[r].rev # 0 => r \in issued)
    BY <2>3, FreshWellFormed DEF Init, RowInv
  <2> QED
    BY <2>1, <2>4 DEF RuleInv
<1> QED
  BY <1>1, <1>2, <1>3 DEF Durability

\* Every step of the system keeps Durability.
LEMMA StepDurability == TypeOK /\ TypeOK' /\ Durability /\ [Next]_vars => Durability'
<1>1. Durability /\ UNCHANGED vars => Durability'
  BY DEF vars, dbVars, rtVars, reqVars, wkVars, lifeVars, boundVars, Durability, DownInv, TicketsInv,
         RuleInv
<1> QED
  BY <1>1, RequestStepDurability, ControlStepDurability, WorkerStepDurability, ProcessStepDurability
     DEF Next
=============================================================================
