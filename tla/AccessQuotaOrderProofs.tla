----------------------- MODULE AccessQuotaOrderProofs -----------------------
(***************************************************************************)
(* What the operations of accessquota.Runtime and of the checkpoint writer *)
(* do to one rule: they keep its fields in range and the order of          *)
(* AccessQuotaOrder intact.                                                *)
(***************************************************************************)
EXTENDS AccessQuotaOrder, TLAPS

\* The values of a rule that is not there, and of a new rule, are well typed.
LEMMA AbsentTypes ==
    /\ AbsentDefinition \in Definitions
    /\ AbsentState \in States
    /\ AbsentRule \in RuntimeRules
    /\ FreshState(1) \in States
BY MaxInt64Assumption, MaxUint64Assumption
   DEF AbsentDefinition, AbsentState, AbsentRule, RuntimeRule, FreshState, Definitions, States,
       RuntimeRules, Nil

\* newAccessKeyEntry and applyRestoredState build well-typed rules.
LEMMA RuntimeRuleType ==
    ASSUME NEW d \in Definitions, NEW s \in States, NEW b \in BOOLEAN
    PROVE  RuntimeRule(d, s, b) \in RuntimeRules
BY DEF RuntimeRule, Definitions, States, RuntimeRules

\* A new revision's state row is well typed.
LEMMA FreshStateType ==
    ASSUME NEW rev \in 0..MaxUint64
    PROVE  FreshState(rev) \in States
BY MaxInt64Assumption, MaxUint64Assumption DEF FreshState, States, Nil

\* cloneRuntimeState: the copy handed to the writer is well typed.
LEMMA RestoredStateType ==
    ASSUME NEW x \in RuntimeRules
    PROVE  RestoredState(x) \in States
BY DEF RestoredState, States, RuntimeRules

\* advanceVersion never leaves uint64 and never goes back.
LEMMA SaturateType ==
    ASSUME NEW n \in 0..MaxUint64
    PROVE  Saturate(n) \in 0..MaxUint64 /\ Saturate(n) >= n
BY MaxUint64Assumption DEF Saturate

\* Admit keeps a rule well typed.
LEMMA OpenWindowType ==
    ASSUME NEW x \in RuntimeRules, NEW now \in Nat
    PROVE  OpenWindow(x, now) \in RuntimeRules
<1>1. x.ver \in 0..MaxUint64 /\ x.gen \in 0..MaxUint64 /\ x.period \in Nat
  BY DEF RuntimeRules
<1>2. Saturate(x.ver) \in 0..MaxUint64 /\ Saturate(x.gen) \in 0..MaxUint64
  BY <1>1, SaturateType
<1>3. now + x.period \in Nat
  BY <1>1
<1>4. 0 \in 0..MaxInt64
  BY MaxInt64Assumption
<1> QED
  BY <1>2, <1>3, <1>4 DEF OpenWindow, AdvanceVersion, RuntimeRules

\* Complete's sum stays in int64 and never falls.
LEMMA ChargedUseType ==
    ASSUME NEW used \in 0..MaxInt64, NEW cost \in Int
    PROVE  ChargedUse(used, cost) \in 0..MaxInt64 /\ ChargedUse(used, cost) >= used
BY MaxInt64Assumption DEF ChargedUse

\* Complete keeps a rule well typed.
LEMMA ChargeType ==
    ASSUME NEW x \in RuntimeRules, NEW t, NEW cost \in Int
    PROVE  Charge(x, t, cost) \in RuntimeRules
<1>1. x.ver \in 0..MaxUint64 /\ x.used \in 0..MaxInt64
  BY DEF RuntimeRules
<1>2. Saturate(x.ver) \in 0..MaxUint64 /\ ChargedUse(x.used, cost) \in 0..MaxInt64
  BY <1>1, SaturateType, ChargedUseType
<1> QED
  BY <1>2 DEF Charge, AdvanceVersion, RuntimeRules

\* Reconcile keeps a rule well typed.
LEMMA ReconciledType ==
    ASSUME NEW d \in Definitions, NEW x \in RuntimeRules
    PROVE  Reconciled(d, x) \in RuntimeRules
<1>1. d.rev \in 0..MaxUint64 /\ x.dirty \in BOOLEAN
  BY DEF Definitions, RuntimeRules
<1>2. RuntimeRule(d, RestoredState(x), x.dirty) \in RuntimeRules
  BY <1>1, RestoredStateType, RuntimeRuleType
<1>3. RuntimeRule(d, FreshState(d.rev), FALSE) \in RuntimeRules
  BY <1>1, FreshStateType, RuntimeRuleType
<1> QED
  BY <1>2, <1>3, AbsentTypes DEF Reconciled

\* Restore builds well-typed rules.
LEMMA RestoredType ==
    ASSUME NEW d \in Definitions, NEW s \in States
    PROVE  Restored(d, s) \in RuntimeRules
BY RuntimeRuleType, AbsentTypes DEF Restored

-----------------------------------------------------------------------------
\* The copy handed to the writer has the fields of the rule.
LEMMA RestoredStateFields ==
    ASSUME NEW x
    PROVE  /\ RestoredState(x).rev = x.rev /\ RestoredState(x).used = x.used
           /\ RestoredState(x).start = x.start /\ RestoredState(x).end = x.end
           /\ RestoredState(x).gen = x.gen /\ RestoredState(x).ver = x.ver
BY DEF RestoredState

\* A fresh row is well formed for a rule of either kind.
LEMMA FreshWellFormed ==
    ASSUME NEW period, NEW rev
    PROVE  /\ WellFormed(period, FreshState(rev)) /\ FreshState(rev).rev = rev
           /\ FreshState(rev).ver = 1 /\ FreshState(rev).gen = 0 /\ FreshState(rev).used = 0
           /\ FreshState(rev).start = Nil /\ FreshState(rev).end = Nil
BY DEF WellFormed, FreshState, Nil

\* A rule that nothing touched has advanced.
LEMMA AdvancesRefl ==
    ASSUME NEW x \in RuntimeRules, x.rev # 0 => WellFormed(x.period, x)
    PROVE  Advances(x, x)
BY DEF Advances, RuntimeRules

\* Admit: opening a window advances the rule, even when the version or the
\* generation has saturated.
LEMMA OpenWindowAdvances ==
    ASSUME NEW x \in RuntimeRules, NEW now \in Nat, x.rev # 0 => WellFormed(x.period, x)
    PROVE  Advances(x, OpenWindow(x, now)) /\ (OpenWindow(x, now).period # 0 /\ x.rev # 0
                                                => OpenWindow(x, now).gen # 0)
<1>1. CASE ~OpensWindow(x, now)
  <2>1. OpenWindow(x, now) = x
    BY <1>1 DEF OpenWindow
  <2>2. x.period # 0 /\ x.rev # 0 => x.gen # 0
    BY <1>1 DEF OpensWindow, Present, Periodic, PeriodicInactive, WellFormed, Nil
  <2> QED
    BY <2>1, <2>2, AdvancesRefl
<1>2. CASE OpensWindow(x, now)
  <2> DEFINE y == OpenWindow(x, now)
  <2>1. x.ver \in 0..MaxUint64 /\ x.gen \in 0..MaxUint64 /\ x.period \in Nat \ {0}
        /\ x.rev # 0 /\ x.used \in 0..MaxInt64
    BY <1>2 DEF RuntimeRules, OpensWindow, Present, Periodic
  <2>2. /\ y.rev = x.rev /\ y.period = x.period /\ y.start = now /\ y.end = now + x.period
        /\ y.used = 0 /\ y.gen = Saturate(x.gen) /\ y.ver = Saturate(x.ver) /\ y.dirty = TRUE
    BY <1>2 DEF OpenWindow, AdvanceVersion, RuntimeRules
  <2>3. Saturate(x.gen) # 0 /\ Saturate(x.ver) # 0
    BY <2>1, MaxUint64Assumption DEF Saturate
  <2>4. WellFormed(y.period, y)
    BY <2>1, <2>2, <2>3 DEF WellFormed, Nil
  <2>5. ASSUME NEW s \in States, Precedes(s, x) PROVE Precedes(s, y)
    <3>1. s.ver \in 0..MaxUint64 /\ s.gen \in 0..MaxUint64
      BY DEF States
    <3> QED
      BY <2>1, <2>2, <2>5, <3>1, MaxUint64Assumption DEF Precedes, Saturate
  <2>6. y.ver >= x.ver
    BY <2>1, <2>2, SaturateType
  <2> QED
    BY <2>1, <2>2, <2>3, <2>4, <2>5, <2>6 DEF Advances
<1> QED
  BY <1>1, <1>2

\* Complete: a charge under a ticket of an opened window advances the rule.
LEMMA ChargeAdvances ==
    ASSUME NEW x \in RuntimeRules, NEW t, NEW cost \in Int,
           x.rev # 0 => WellFormed(x.period, x),
           x.rev # 0 /\ t.rev = x.rev /\ x.period # 0 => t.gen # 0
    PROVE  Advances(x, Charge(x, t, cost))
<1> DEFINE y == Charge(x, t, cost)
<1>1. CASE y = x
  BY <1>1, AdvancesRefl
<1>2. CASE y # x
  <2>1. x.ver \in 0..MaxUint64 /\ x.gen \in 0..MaxUint64 /\ x.period \in Nat
        /\ x.used \in 0..MaxInt64
    BY DEF RuntimeRules
  <2>2. TicketMatches(t, x)
    BY <1>2 DEF Charge
  <2>3. /\ y.rev = x.rev /\ y.period = x.period /\ y.start = x.start /\ y.end = x.end
        /\ y.used = ChargedUse(x.used, cost) /\ y.gen = x.gen /\ y.ver = Saturate(x.ver)
        /\ y.dirty = TRUE
    BY <1>2 DEF Charge, AdvanceVersion, RuntimeRules
  <2>4. y.used \in 0..MaxInt64 /\ y.used >= x.used
    BY <2>1, <2>3, ChargedUseType
  <2>5. y.ver >= x.ver /\ y.ver # 0
    BY <2>1, <2>3, MaxUint64Assumption DEF Saturate
  <2>6. WellFormed(y.period, y)
    <3>1. x.period # 0 => x.start # Nil
      BY <2>2 DEF TicketMatches, Present, Periodic, WellFormed
    <3> QED
      BY <2>1, <2>2, <2>3, <2>4, <2>5, <3>1 DEF WellFormed, TicketMatches, Present
  <2>7. ASSUME NEW s \in States, Precedes(s, x) PROVE Precedes(s, y)
    <3>1. s.ver \in 0..MaxUint64 /\ s.gen \in 0..MaxUint64 /\ s.used \in 0..MaxInt64
      BY DEF States
    <3> QED
      BY <2>1, <2>3, <2>4, <2>7, <3>1, MaxUint64Assumption DEF Precedes, Saturate
  <2> QED
    BY <2>3, <2>5, <2>6, <2>7 DEF Advances
<1> QED
  BY <1>1, <1>2

\* The row of a rule stays behind what the rule advances to.
LEMMA MemoryAdvances ==
    ASSUME NEW d \in Definitions, NEW p \in States, NEW x \in RuntimeRules, NEW y \in RuntimeRules,
           Advances(x, y), MemoryInv(d, p, x)
    PROVE  MemoryInv(d, p, y)
<1>1. p.ver \in 0..MaxUint64 /\ x.ver \in 0..MaxUint64 /\ y.ver \in 0..MaxUint64
  BY DEF States, RuntimeRules
<1>2. y.rev = x.rev /\ y.period = x.period
  BY DEF Advances
<1>3. CASE x.rev = d.rev
  <2>1. Precedes(p, y)
    BY <1>3 DEF MemoryInv, Advances
  <2>2. p.ver < y.ver => y.dirty
    BY <1>1, <1>3 DEF MemoryInv, Advances
  <2> QED
    BY <1>2, <1>3, <2>1, <2>2 DEF MemoryInv
<1>4. CASE x.rev # d.rev
  BY <1>2, <1>4 DEF MemoryInv
<1> QED
  BY <1>3, <1>4

\* Admit and Complete keep the order.
LEMMA LiveAdvances ==
    ASSUME NEW d \in Definitions, NEW p \in States, NEW x \in RuntimeRules, NEW y \in RuntimeRules,
           NEW b \in States, Advances(x, y), LiveInv(d, p, x, b)
    PROVE  LiveInv(d, p, y, b)
<1>1. y.rev = x.rev /\ y.period = x.period /\ (y.rev # 0 => WellFormed(y.period, y))
  BY DEF Advances
<1>2. d.rev # 0 => MemoryInv(d, p, y)
  BY MemoryAdvances DEF LiveInv
<1>3. d.rev # 0 /\ b.rev # 0 => FlightInv(y, b)
  <2>1. d.rev # 0 /\ b.rev # 0 => FlightInv(x, b)
    BY DEF LiveInv
  <2>2. Precedes(b, x) => Precedes(b, y)
    BY DEF Advances
  <2> QED
    BY <1>1, <2>1, <2>2 DEF FlightInv
<1> QED
  BY <1>1, <1>2, <1>3 DEF LiveInv

\* Admit and Complete keep the tickets of opened windows, and a ticket of the
\* rule's own revision and window is in order.
LEMMA TicketAdvances ==
    ASSUME NEW d, NEW x \in RuntimeRules, NEW y, NEW t, Advances(x, y),
           \/ TicketInv(d, x, t)
           \/ t.rev = y.rev /\ (y.period # 0 => t.gen # 0)
    PROVE  TicketInv(d, y, t)
<1>1. y.rev = x.rev /\ y.period = x.period /\ x.rev <= x.rev
  BY MaxUint64Assumption DEF Advances, RuntimeRules
<1> QED
  BY <1>1 DEF TicketInv

\* DirtySnapshots: the captured checkpoint is in order.
LEMMA LiveCaptures ==
    ASSUME NEW d \in Definitions, NEW p \in States, NEW x \in RuntimeRules, NEW b,
           x.rev # 0, LiveInv(d, p, x, b)
    PROVE  LiveInv(d, p, x, RestoredState(x))
<1> DEFINE c == RestoredState(x)
<1>1. c.rev = x.rev /\ WellFormed(x.period, x)
  BY RestoredStateFields DEF LiveInv
<1>2. x.ver \in 0..MaxUint64 /\ x.gen \in 0..MaxUint64 /\ x.used \in 0..MaxInt64 /\ x.rev \in 0..MaxUint64
  BY DEF RuntimeRules
<1>3. SnapshotWritable(c)
  <2>1. x.start \in Nat \cup {-1} /\ x.end \in Nat \cup {-1} /\ x.period \in Nat
    BY DEF RuntimeRules, Nil
  <2>2. x.start = -1 <=> x.end = -1
    BY <1>1, <2>1 DEF WellFormed, Nil
  <2>3. (x.start = -1) = (x.end = -1)
    BY <2>2
  <2>4. x.ver # 0
    BY <1>1 DEF WellFormed
  <2> QED
    BY <1>2, <2>3, <2>4, RestoredStateFields DEF SnapshotWritable, Nil
<1>4. FlightInv(x, c)
  <2>1. Precedes(c, x)
    BY <1>2, RestoredStateFields DEF Precedes
  <2>2. WellFormed(x.period, c)
    BY <1>1, RestoredStateFields DEF WellFormed
  <2> QED
    BY <1>1, <1>2, <2>1, <2>2 DEF FlightInv
<1>5. d.rev # 0 /\ c.rev = d.rev => Comparable(p, c)
  <2>1. d.rev # 0 /\ x.rev = d.rev => Precedes(p, x)
    BY DEF LiveInv, MemoryInv
  <2>2. Precedes(p, x) => Precedes(p, c)
    BY RestoredStateFields DEF Precedes
  <2> QED
    BY <1>1, <2>1, <2>2 DEF Comparable
<1> QED
  BY <1>3, <1>4, <1>5 DEF LiveInv

\* Forgetting a checkpoint keeps the order.
LEMMA LiveDrops ==
    ASSUME NEW d, NEW p, NEW x, NEW b, LiveInv(d, p, x, b)
    PROVE  LiveInv(d, p, x, AbsentState) /\ WrittenInv(d, p, AbsentState)
<1>1. AbsentState.rev = 0
  BY DEF AbsentState
<1> QED
  BY <1>1 DEF LiveInv, WrittenInv

\* persistAccessQuotaSnapshot: writing a checkpoint is never an error, keeps
\* the order, leaves the row at least as new as the checkpoint and never
\* moves the row back.
LEMMA LivePersists ==
    ASSUME NEW d \in Definitions, NEW p \in States, NEW x \in RuntimeRules, NEW b \in States,
           b.rev # 0, LiveInv(d, p, x, b)
    PROVE  LET n == Persisted(d, p, b) IN
           /\ PersistOutcome(d, p, b) # "error"
           /\ LiveInv(d, n, x, b) /\ WrittenInv(d, n, b)
           /\ n = p \/ (n.rev = p.rev /\ Precedes(p, n))
<1> DEFINE n == Persisted(d, p, b)
<1>0. SnapshotWritable(b)
  BY DEF LiveInv
<1>1. /\ p.ver \in 0..MaxUint64 /\ x.ver \in 0..MaxUint64 /\ b.ver \in 0..MaxUint64
      /\ d.rev \in 0..MaxUint64 /\ x.rev \in 0..MaxUint64 /\ b.rev \in 0..MaxUint64
  BY DEF States, RuntimeRules, Definitions
<1>2. CASE d.rev = 0
  <2>1. p.rev = 0
    BY <1>2 DEF LiveInv, RowInv, AbsentState
  <2>2. PersistOutcome(d, p, b) = "rule_deleted"
    BY <1>0, <1>2, <2>1 DEF PersistOutcome
  <2>3. n = p
    BY <2>2 DEF Persisted
  <2> QED
    BY <1>2, <2>2, <2>3 DEF WrittenInv
<1>3. CASE d.rev # 0 /\ b.rev = d.rev /\ p.ver < b.ver
  <2>1. p.rev = d.rev
    BY <1>3 DEF LiveInv, RowInv
  <2>2. PersistOutcome(d, p, b) = "applied"
    BY <1>0, <1>3, <2>1 DEF PersistOutcome
  <2>3. n = b
    BY <2>2 DEF Persisted
  <2>4. MemoryInv(d, p, x) /\ FlightInv(x, b) /\ Comparable(p, b)
    BY <1>3 DEF LiveInv
  <2>5. x.rev = d.rev
    BY <1>1, <1>3, <2>4 DEF MemoryInv, FlightInv
  <2>6. x.period = d.period /\ Precedes(b, x) /\ WellFormed(d.period, b)
    BY <1>3, <2>4, <2>5 DEF MemoryInv, FlightInv
  <2>7. b.ver < x.ver => x.dirty
    BY <1>1, <1>3, <2>4, <2>5 DEF MemoryInv
  <2>8. Precedes(b, b)
    BY DEF Precedes, States
  <2>9. Precedes(p, b)
    BY <1>1, <1>3, <2>4 DEF Comparable, Precedes
  <2>10. RowInv(d, b) /\ MemoryInv(d, b, x)
    BY <1>3, <2>5, <2>6, <2>7 DEF RowInv, MemoryInv
  <2>11. LiveInv(d, b, x, b)
    BY <2>8, <2>10 DEF LiveInv, Comparable
  <2>12. WrittenInv(d, b, b)
    BY <1>1 DEF WrittenInv
  <2> QED
    BY <1>3, <2>1, <2>2, <2>3, <2>9, <2>11, <2>12
<1>4. CASE d.rev # 0 /\ ~(b.rev = d.rev /\ p.ver < b.ver)
  <2>1. p.rev = d.rev
    BY <1>4 DEF LiveInv, RowInv
  <2>2. PersistOutcome(d, p, b) \in {"stale_revision", "already_current"}
    BY <1>0, <1>1, <1>4, <2>1 DEF PersistOutcome
  <2>3. n = p
    BY <2>2 DEF Persisted
  <2>4. WrittenInv(d, p, b)
    BY <1>1, <1>4 DEF WrittenInv
  <2> QED
    BY <2>2, <2>3, <2>4
<1> QED
  BY <1>2, <1>3, <1>4

\* Ack of a written checkpoint of the rule's revision and version: the flag
\* may be cleared.
LEMMA LiveAcks ==
    ASSUME NEW d \in Definitions, NEW p \in States, NEW x \in RuntimeRules, NEW b \in States,
           LiveInv(d, p, x, b), WrittenInv(d, p, b), x.rev = b.rev, x.ver = b.ver
    PROVE  LET y == [x EXCEPT !.dirty = FALSE] IN
           LiveInv(d, p, y, AbsentState) /\ \A t : TicketInv(d, x, t) => TicketInv(d, y, t)
<1> DEFINE y == [x EXCEPT !.dirty = FALSE]
<1>1. /\ y.rev = x.rev /\ y.period = x.period /\ y.used = x.used /\ y.start = x.start
      /\ y.end = x.end /\ y.gen = x.gen /\ y.ver = x.ver
  BY DEF RuntimeRules
<1>2. y.rev # 0 => WellFormed(y.period, y)
  BY <1>1 DEF LiveInv, WellFormed
<1>3. d.rev # 0 => MemoryInv(d, p, y)
  <2>1. CASE d.rev # 0 /\ x.rev = d.rev
    <3>1. b.ver <= p.ver /\ MemoryInv(d, p, x)
      BY <2>1 DEF LiveInv, WrittenInv
    <3>2. ~(p.ver < y.ver)
      BY <1>1, <3>1 DEF States, RuntimeRules
    <3>3. Precedes(p, y) /\ y.period = d.period
      BY <1>1, <2>1, <3>1 DEF MemoryInv, Precedes
    <3> QED
      BY <1>1, <2>1, <3>2, <3>3 DEF MemoryInv
  <2>2. CASE d.rev # 0 /\ x.rev # d.rev
    BY <1>1, <2>2 DEF LiveInv, MemoryInv
  <2> QED
    BY <2>1, <2>2
<1>4. AbsentState.rev = 0
  BY DEF AbsentState
<1>5. \A t : TicketInv(d, x, t) => TicketInv(d, y, t)
  BY <1>1 DEF TicketInv
<1> QED
  BY <1>2, <1>3, <1>4, <1>5 DEF LiveInv

\* A committed edit keeps the order while the runtime still works with the
\* previous definition, and moves no row of an unchanged revision back.
LEMMA LiveEdits ==
    ASSUME NEW d \in Definitions, NEW p \in States, NEW e \in Definitions, NEW n \in States,
           NEW x \in RuntimeRules, NEW b \in States,
           Edited(d, p, e, n), LiveInv(d, p, x, b)
    PROVE  /\ LiveInv(e, n, x, b)
           /\ WrittenInv(d, p, b) => WrittenInv(e, n, b)
           /\ \A t : TicketInv(d, x, t) => TicketInv(e, x, t)
           /\ n = p \/ n.rev = 0 \/ n.rev # p.rev
<1>1. /\ d.rev \in Nat /\ e.rev \in Nat /\ x.rev \in Nat /\ b.rev \in Nat
  BY MaxUint64Assumption DEF Definitions, RuntimeRules, States
<1>2. CASE e.rev = 0 /\ n = AbsentState
  <2>1. RowInv(e, n) /\ n.rev = 0
    BY <1>2 DEF RowInv, AbsentState
  <2> QED
    BY <1>2, <2>1 DEF LiveInv, WrittenInv, TicketInv
<1>3. CASE e.rev = d.rev /\ e.period = d.period /\ n = p
  <2>1. RowInv(e, n) /\ (e.rev # 0 => MemoryInv(e, n, x))
    BY <1>3 DEF LiveInv, RowInv, MemoryInv
  <2> QED
    BY <1>3, <2>1 DEF LiveInv, WrittenInv, TicketInv
<1>4. CASE d.rev # 0 /\ e.rev = d.rev + 1 /\ n = FreshState(e.rev)
  <2>1. x.rev <= d.rev /\ (b.rev # 0 => FlightInv(x, b)) /\ p.rev = d.rev
    BY <1>1, <1>4 DEF LiveInv, MemoryInv, RowInv
  <2>2. x.rev < e.rev /\ b.rev # e.rev
    BY <1>1, <1>4, <2>1 DEF FlightInv
  <2>3. RowInv(e, n) /\ MemoryInv(e, n, x) /\ n.rev = e.rev
    BY <1>1, <1>4, <2>2, FreshWellFormed DEF RowInv, MemoryInv
  <2> QED
    BY <1>1, <1>4, <2>1, <2>2, <2>3 DEF LiveInv, WrittenInv, TicketInv
<1> QED
  BY <1>2, <1>3, <1>4 DEF Edited

\* A rule created under a new ID is in order: nothing refers to it yet.
LEMMA LiveCreates ==
    ASSUME NEW e \in Definitions, NEW x \in RuntimeRules, NEW b \in States,
           e.rev = 1, x.rev = 0, b.rev = 0
    PROVE  LiveInv(e, FreshState(1), x, b) /\ WrittenInv(e, FreshState(1), b)
BY FreshWellFormed DEF LiveInv, WrittenInv, RowInv, MemoryInv

\* Reconcile: a published definition of the same revision takes over the
\* state, a new one starts where its row starts; neither is refused.
LEMMA LivePublishes ==
    ASSUME NEW d \in Definitions, NEW p \in States, NEW x \in RuntimeRules, NEW b \in States,
           LiveInv(d, p, x, b)
    PROVE  LET y == Reconciled(d, x) IN
           /\ LiveInv(d, p, y, b)
           /\ ~ReconcileRejects(d, x)
           /\ \A t : t.rev \in Nat /\ t.rev # 0 /\ TicketInv(d, x, t) => TicketInv(d, y, t)
<1> DEFINE y == Reconciled(d, x)
<1>1. /\ d.rev \in Nat /\ x.rev \in Nat /\ b.rev \in Nat
  BY MaxUint64Assumption DEF Definitions, RuntimeRules, States
<1>2. ~ReconcileRejects(d, x)
  BY DEF LiveInv, MemoryInv, ReconcileRejects, Present
<1>3. CASE d.rev = 0
  <2>1. y.rev = 0
    BY <1>3 DEF Reconciled, AbsentRule, RuntimeRule, AbsentDefinition
  <2> QED
    BY <1>2, <1>3, <2>1 DEF LiveInv, TicketInv
<1>4. CASE d.rev # 0 /\ x.rev = d.rev
  <2>1. x.period = d.period /\ MemoryInv(d, p, x)
    BY <1>4 DEF LiveInv, MemoryInv
  <2>2. /\ y.rev = x.rev /\ y.period = x.period /\ y.used = x.used /\ y.start = x.start
        /\ y.end = x.end /\ y.gen = x.gen /\ y.ver = x.ver /\ y.dirty = x.dirty
    BY <1>4, <2>1 DEF Reconciled, RuntimeRule, RestoredState
  <2>3. WellFormed(y.period, y)
    BY <1>4, <2>2 DEF LiveInv, WellFormed
  <2>4. MemoryInv(d, p, y)
    BY <1>4, <2>1, <2>2 DEF MemoryInv, Precedes
  <2>5. b.rev # 0 => FlightInv(y, b)
    <3>1. b.rev # 0 => FlightInv(x, b)
      BY <1>4 DEF LiveInv
    <3> QED
      BY <2>2, <3>1 DEF FlightInv, Precedes
  <2>6. \A t : TicketInv(d, x, t) => TicketInv(d, y, t)
    BY <2>2 DEF TicketInv
  <2> QED
    BY <1>2, <2>3, <2>4, <2>5, <2>6 DEF LiveInv
<1>5. CASE d.rev # 0 /\ x.rev # d.rev
  <2>1. x.rev < d.rev /\ p = FreshState(d.rev)
    BY <1>5 DEF LiveInv, MemoryInv
  <2>2. /\ y.rev = d.rev /\ y.period = d.period /\ y.used = p.used /\ y.start = p.start
        /\ y.end = p.end /\ y.gen = p.gen /\ y.ver = p.ver
    BY <1>5, <2>1 DEF Reconciled, RuntimeRule
  <2>3. WellFormed(y.period, p)
    BY <2>1, FreshWellFormed
  <2>4. WellFormed(y.period, y)
    BY <2>2, <2>3 DEF WellFormed
  <2>5. MemoryInv(d, p, y)
    BY <2>2 DEF MemoryInv, Precedes, States
  <2>6. b.rev # 0 => FlightInv(y, b)
    <3>1. b.rev # 0 => b.rev <= x.rev
      BY <1>5 DEF LiveInv, FlightInv
    <3> QED
      BY <1>1, <2>1, <2>2, <3>1 DEF FlightInv
  <2>7. \A t : t.rev \in Nat /\ TicketInv(d, x, t) => TicketInv(d, y, t)
    BY <1>1, <1>5, <2>1, <2>2 DEF TicketInv
  <2> QED
    BY <1>2, <1>5, <2>4, <2>5, <2>6, <2>7 DEF LiveInv
<1> QED
  BY <1>3, <1>4, <1>5

\* Restore: a start-up puts every rule where its row is.
LEMMA LiveBoots ==
    ASSUME NEW d \in Definitions, NEW p \in States, NEW b, RowInv(d, p), b.rev = 0
    PROVE  LiveInv(d, p, Restored(d, p), b)
<1> DEFINE y == Restored(d, p)
<1>1. CASE d.rev = 0
  <2>1. y.rev = 0
    BY <1>1 DEF Restored, AbsentRule, RuntimeRule, AbsentDefinition
  <2> QED
    BY <1>1, <2>1 DEF LiveInv
<1>2. CASE d.rev # 0
  <2>1. /\ y.rev = d.rev /\ y.period = d.period /\ y.used = p.used /\ y.start = p.start
        /\ y.end = p.end /\ y.gen = p.gen /\ y.ver = p.ver
    BY <1>2 DEF Restored, RuntimeRule
  <2>2. WellFormed(d.period, p)
    BY <1>2 DEF RowInv
  <2>3. WellFormed(y.period, y)
    BY <2>1, <2>2 DEF WellFormed
  <2>4. MemoryInv(d, p, y)
    BY <2>1 DEF MemoryInv, Precedes, States
  <2> QED
    BY <1>2, <2>3, <2>4 DEF LiveInv
<1> QED
  BY <1>1, <1>2

\* A row in order passes validateRestoredState and the checks of
\* entriesFromRestore and applyRestoredState.
LEMMA RowRestores ==
    ASSUME NEW d \in Definitions, NEW p \in States, RowInv(d, p), d.rev # 0
    PROVE  ValidRestoredState(p) /\ RestoreAccepts(d, p)
<1>1. p.rev = d.rev /\ WellFormed(d.period, p)
  BY DEF RowInv
<1>2. p.start \in Nat \cup {-1} /\ p.end \in Nat \cup {-1} /\ d.period \in Nat
  BY DEF States, Definitions, Nil
<1>3. (p.start = -1 <=> p.end = -1) /\ (p.start # -1 => p.end > p.start)
  BY <1>1, <1>2 DEF WellFormed, Nil
<1>4. (p.start = -1) = (p.end = -1)
  BY <1>3
<1>5. ValidRestoredState(p)
  BY <1>1, <1>2, <1>3, <1>4 DEF ValidRestoredState, WellFormed, Nil
<1>6. RestoreAccepts(d, p)
  BY <1>1, <1>2 DEF RestoreAccepts, WellFormed, Nil
<1> QED
  BY <1>5, <1>6

\* A rule in order that is at its row's revision and not dirty is its row.
LEMMA CleanIsRow ==
    ASSUME NEW d, NEW p \in States, NEW x \in RuntimeRules, NEW b, LiveInv(d, p, x, b),
           x.rev # 0, x.rev = p.rev
    PROVE  /\ Precedes(p, x)
           /\ ~x.dirty /\ x.ver < MaxUint64 => p = RestoredState(x)
<1>1. d.rev = p.rev /\ d.rev # 0
  BY DEF LiveInv, RowInv, AbsentState
<1>2. Precedes(p, x) /\ (p.ver < x.ver => x.dirty)
  BY <1>1 DEF LiveInv, MemoryInv
<1>3. ASSUME ~x.dirty, x.ver < MaxUint64 PROVE p = RestoredState(x)
  <2>1. p.ver = x.ver
    BY <1>2, <1>3 DEF Precedes, States, RuntimeRules
  <2>2. p.used = x.used /\ p.start = x.start /\ p.end = x.end /\ p.gen = x.gen
    BY <1>2, <1>3, <2>1 DEF Precedes
  <2> QED
    BY <2>1, <2>2 DEF RestoredState, States
<1> QED
  BY <1>2, <1>3

-----------------------------------------------------------------------------
\* Admit keeps the revision, dirties only a rule whose window it opens, opens
\* windows after the end of the last one and clears no usage of an open one.
LEMMA OpenWindowKeeps ==
    ASSUME NEW x \in RuntimeRules, NEW now \in Nat
    PROVE  LET y == OpenWindow(x, now) IN
           /\ y.rev = x.rev
           /\ y.dirty => x.dirty \/ OpensWindow(x, now)
           /\ WellFormed(x.period, x) /\ x.end # Nil /\ y.gen # x.gen => y.start >= x.end
           /\ WellFormed(x.period, x) /\ y.start = x.start => y.used >= x.used /\ y.ver >= x.ver
<1> DEFINE y == OpenWindow(x, now)
<1>1. /\ x.period \in Nat /\ x.start \in Nat \cup {-1} /\ x.end \in Nat \cup {-1}
      /\ x.used \in Int /\ x.ver \in Int
  BY MaxInt64Assumption, MaxUint64Assumption DEF RuntimeRules, Nil
<1>2. CASE ~OpensWindow(x, now)
  BY <1>1, <1>2 DEF OpenWindow
<1>3. CASE OpensWindow(x, now)
  <2>1. y.rev = x.rev /\ y.start = now
    BY <1>3 DEF OpenWindow, AdvanceVersion, RuntimeRules
  <2>2. x.start = Nil \/ x.end = Nil \/ now >= x.end
    BY <1>3 DEF OpensWindow, PeriodicInactive
  <2>3. WellFormed(x.period, x) /\ x.end # Nil => y.start >= x.end
    BY <2>1, <2>2 DEF WellFormed
  <2>4. WellFormed(x.period, x) => y.start # x.start
    BY <1>1, <1>3, <2>1, <2>2 DEF WellFormed, Nil, OpensWindow, Periodic
  <2> QED
    BY <1>3, <2>1, <2>3, <2>4
<1> QED
  BY <1>2, <1>3

\* Complete keeps revision and window and clears no usage.
LEMMA ChargeKeeps ==
    ASSUME NEW x \in RuntimeRules, NEW t, NEW cost \in Int
    PROVE  LET y == Charge(x, t, cost) IN
           y.rev = x.rev /\ y.gen = x.gen /\ y.used >= x.used /\ y.ver >= x.ver
<1> DEFINE y == Charge(x, t, cost)
<1>1. x.used \in 0..MaxInt64 /\ x.ver \in 0..MaxUint64
  BY DEF RuntimeRules
<1>2. ChargedUse(x.used, cost) >= x.used /\ Saturate(x.ver) >= x.ver
  BY <1>1, ChargedUseType, SaturateType
<1>3. CASE y = x
  BY <1>1, <1>3
<1>4. CASE y = AdvanceVersion([x EXCEPT !.used = ChargedUse(@, cost)])
  <2>1. y.rev = x.rev /\ y.gen = x.gen /\ y.used = ChargedUse(x.used, cost) /\ y.ver = Saturate(x.ver)
    BY <1>4 DEF AdvanceVersion, RuntimeRules
  <2> QED
    BY <1>2, <2>1
<1> QED
  BY <1>3, <1>4 DEF Charge

\* Reconcile dirties nothing and keeps the state of an unchanged revision.
LEMMA ReconciledKeeps ==
    ASSUME NEW d, NEW x \in RuntimeRules
    PROVE  LET y == Reconciled(d, x) IN
           /\ y.dirty => x.dirty /\ (y.rev # 0 => x.rev # 0)
           /\ x.rev # 0 /\ y.rev = x.rev => y.gen = x.gen /\ y.used = x.used /\ y.ver = x.ver
BY DEF Reconciled, RuntimeRule, RestoredState, AbsentRule, AbsentDefinition, AbsentState
=============================================================================
