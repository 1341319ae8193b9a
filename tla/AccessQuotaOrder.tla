-------------------------- MODULE AccessQuotaOrder --------------------------
(***************************************************************************)
(* How the four places that hold a cost limit rule's state are ordered:    *)
(* the rule row d and the state row p in the database, the rule x in       *)
(* accessquota.Runtime and a checkpoint b on its way to the database. The  *)
(* durability argument of AccessQuota rests on this order.                 *)
(***************************************************************************)
EXTENDS AccessQuotaRules

\* A state that a rule of the given period can be in.
WellFormed(period, s) ==
    /\ s.ver # 0 /\ s.used >= 0
    /\ IF period = 0 THEN s.start = Nil /\ s.end = Nil /\ s.gen = 0
       ELSE IF s.start = Nil THEN s.end = Nil /\ s.used = 0 /\ s.gen = 0
       ELSE s.start >= 0 /\ s.end = s.start + period /\ s.gen # 0

\* s is an earlier state of the same revision as x, or x itself.
Precedes(s, x) ==
    /\ s.ver <= x.ver /\ s.gen <= x.gen
    /\ s.gen = x.gen /\ x.gen < MaxUint64 => s.used <= x.used
    /\ s.ver = x.ver /\ x.ver < MaxUint64
         => s.used = x.used /\ s.start = x.start /\ s.end = x.end /\ s.gen = x.gen

\* A rule row always has the state row of its revision.
RowInv(d, p) ==
    IF d.rev = 0 THEN p = AbsentState ELSE p.rev = d.rev /\ WellFormed(d.period, p)

\* The in-memory rule x is at most as new as the rule row d; at the same
\* revision it is ahead of the state row p, and dirty if strictly ahead; at
\* an older one nothing has been written for the new one yet.
MemoryInv(d, p, x) ==
    IF x.rev = d.rev
    THEN /\ x.period = d.period /\ Precedes(p, x)
         /\ p.ver < x.ver => x.dirty
    ELSE x.rev < d.rev /\ p = FreshState(d.rev)

\* A checkpoint b in flight is an earlier state of the in-memory rule x.
FlightInv(x, b) ==
    /\ b.rev <= x.rev
    /\ b.rev = x.rev => Precedes(b, x) /\ WellFormed(x.period, b)

\* The row is an earlier or a later state than the checkpoint in flight.
Comparable(p, b) == Precedes(p, b) \/ Precedes(b, p)

\* A ticket t for a periodic rule names a window that was opened.
TicketInv(d, x, t) ==
    /\ d.rev # 0 => t.rev <= x.rev
    /\ t.rev = x.rev /\ x.period # 0 => t.gen # 0

\* All four together, in a running process.
LiveInv(d, p, x, b) ==
    /\ RowInv(d, p)
    /\ x.rev # 0 => WellFormed(x.period, x)
    /\ b.rev # 0 => SnapshotWritable(b)
    /\ d.rev # 0 => MemoryInv(d, p, x)
    /\ d.rev # 0 /\ b.rev # 0 => FlightInv(x, b)
    /\ d.rev # 0 /\ b.rev = d.rev => Comparable(p, b)

\* The checkpoint b has been written.
WrittenInv(d, p, b) == d.rev # 0 /\ b.rev = d.rev => b.ver <= p.ver

\* y is x or a later in-memory state of the same revision.
Advances(x, y) ==
    /\ y.rev = x.rev /\ y.period = x.period
    /\ x.rev # 0 => WellFormed(y.period, y)
    /\ \A s \in States : Precedes(s, x) => Precedes(s, y)
    /\ y.ver >= x.ver /\ (x.dirty => y.dirty) /\ (y.ver = x.ver \/ y.dirty)

\* What one committed edit may do to the rows d, p of a rule: nothing, remove
\* them, change the limit, or start a new revision with an empty state.
Edited(d, p, e, n) ==
    \/ e.rev = 0 /\ n = AbsentState
    \/ e.rev = d.rev /\ e.period = d.period /\ n = p
    \/ d.rev # 0 /\ e.rev = d.rev + 1 /\ n = FreshState(e.rev)
=============================================================================
