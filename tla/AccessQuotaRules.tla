-------------------------- MODULE AccessQuotaRules --------------------------
(***************************************************************************)
(* The arithmetic of an access key's cost limits                           *)
(* (internal/accessquota/runtime.go): when a rule is exhausted, how a      *)
(* window opens, what a completed request is charged, how a published      *)
(* definition takes over the state of its predecessor, what a restart      *)
(* accepts, and how a checkpoint row is classified when it is written.     *)
(* No state: the operators work on the records below.                      *)
(*                                                                         *)
(*   definition  [rev, limit, period]            accessquota.Rule          *)
(*   state       [rev, used, start, end, gen, ver]                         *)
(*                                               accessquota.RestoredState *)
(*   rule        both, and dirty                 runtimeRule               *)
(*                                                                         *)
(* rev = 0 stands for "no such rule": every stored revision is positive.   *)
(* period = 0 is a rule of kind total, any other period one of kind        *)
(* periodic (validateRules refuses every other combination). Amounts are   *)
(* whole cost units, times and periods share one unit.                     *)
(***************************************************************************)
EXTENDS Integers

CONSTANTS
    MaxInt64,    \* math.MaxInt64: where an accumulated cost saturates
    MaxUint64    \* math.MaxUint64: where versions and generations saturate

ASSUME MaxInt64Assumption == MaxInt64 \in Nat
ASSUME MaxUint64Assumption == MaxUint64 \in Nat \ {0}

Nil == -1    \* a nil *int64: no window

\* The ranges of the fields of the rows and of a runtimeRule.
Definitions == [rev : 0..MaxUint64, limit : 0..MaxInt64, period : Nat]
States == [rev : 0..MaxUint64, used : 0..MaxInt64, start : Nat \cup {Nil}, end : Nat \cup {Nil},
           gen : 0..MaxUint64, ver : 0..MaxUint64]
RuntimeRules ==
    [rev : 0..MaxUint64, limit : 0..MaxInt64, period : Nat, used : 0..MaxInt64,
     start : Nat \cup {Nil}, end : Nat \cup {Nil}, gen : 0..MaxUint64, ver : 0..MaxUint64,
     dirty : BOOLEAN]

AbsentDefinition == [rev |-> 0, limit |-> 0, period |-> 0]

AbsentState ==
    [rev |-> 0, used |-> 0, start |-> Nil, end |-> Nil, gen |-> 0, ver |-> 0]

\* The state row a rule starts from, in the database and in memory.
FreshState(rev) ==
    [rev |-> rev, used |-> 0, start |-> Nil, end |-> Nil, gen |-> 0, ver |-> 1]

\* A runtimeRule with definition d, state s and the given dirty flag.
RuntimeRule(d, s, dirty) ==
    [rev |-> d.rev, limit |-> d.limit, period |-> d.period,
     used |-> s.used, start |-> s.start, end |-> s.end,
     gen |-> s.gen, ver |-> s.ver, dirty |-> dirty]

AbsentRule == RuntimeRule(AbsentDefinition, AbsentState, FALSE)

\* The copy of a rule's state handed to the checkpoint writer.
RestoredState(x) ==
    [rev |-> x.rev, used |-> x.used, start |-> x.start, end |-> x.end,
     gen |-> x.gen, ver |-> x.ver]

Present(x) == x.rev # 0
Periodic(x) == x.period # 0

(***************************************************************************)
(* Admission.                                                              *)
(***************************************************************************)
\* Mutant: a clock that stepped back also closes the window.
PeriodicInactiveOnClockBack(x, now) ==
    x.start = Nil \/ x.end = Nil \/ now >= x.end \/ now < x.start

PeriodicInactive(x, now) == x.start = Nil \/ x.end = Nil \/ now >= x.end

\* ruleViewLocked: the status is "exhausted".
Exhausted(x, now) ==
    /\ ~(Periodic(x) /\ PeriodicInactive(x, now))
    /\ x.used >= x.limit

Saturate(n) == IF n < MaxUint64 THEN n + 1 ELSE n

AdvanceVersion(x) == [x EXCEPT !.ver = Saturate(@), !.dirty = TRUE]

OpensWindow(x, now) == Present(x) /\ Periodic(x) /\ PeriodicInactive(x, now)

\* What Admit does to one rule of the key.
OpenWindow(x, now) ==
    IF OpensWindow(x, now)
    THEN AdvanceVersion([x EXCEPT !.start = now, !.end = now + x.period,
                                  !.used = 0, !.gen = Saturate(@)])
    ELSE x

(***************************************************************************)
(* Completion.                                                             *)
(***************************************************************************)
\* Mutant: a late completion is charged to whatever window is open.
TicketMatchesAnyWindow(t, x) == Present(x) /\ x.rev = t.rev

\* A ticket names the rule's revision and, for a periodic rule, the window.
TicketMatches(t, x) ==
    /\ Present(x)
    /\ x.rev = t.rev
    /\ Periodic(x) => x.gen = t.gen

\* Mutants: the sum overflows; a negative estimate is ignored.
ChargedUseOverflows(used, cost) == IF cost < 0 THEN MaxInt64 ELSE used + cost
ChargedUseIgnoresNegative(used, cost) ==
    IF cost < 0 THEN used ELSE IF used > MaxInt64 - cost THEN MaxInt64 ELSE used + cost

ChargedUse(used, cost) ==
    IF cost < 0 \/ used > MaxInt64 - cost THEN MaxInt64 ELSE used + cost

\* What Complete does to one rule named by the ticket.
Charge(x, t, cost) ==
    IF TicketMatches(t, x) /\ cost # 0 /\ ChargedUse(x.used, cost) # x.used
    THEN AdvanceVersion([x EXCEPT !.used = ChargedUse(@, cost)])
    ELSE x

(***************************************************************************)
(* Publication and restart.                                                *)
(***************************************************************************)
\* Reconcile refuses a definition that changed its period, and so the
\* meaning of the accumulated usage, without a new revision.
ReconcileRejects(d, x) == Present(x) /\ x.rev = d.rev /\ x.period # d.period

\* Mutant: every publication starts the rules afresh.
ReconciledAfresh(d, x) ==
    IF d.rev = 0 THEN AbsentRule ELSE RuntimeRule(d, FreshState(d.rev), FALSE)

\* Reconcile: an unchanged revision keeps its state and its dirty flag.
Reconciled(d, x) ==
    IF d.rev = 0 THEN AbsentRule
    ELSE IF x.rev = d.rev THEN RuntimeRule(d, RestoredState(x), x.dirty)
    ELSE RuntimeRule(d, FreshState(d.rev), FALSE)

\* validateRestoredState
ValidRestoredState(s) ==
    /\ s.rev # 0 /\ s.used >= 0 /\ s.ver # 0
    /\ (s.start = Nil) = (s.end = Nil)
    /\ s.start # Nil => s.start >= 0 /\ s.end > s.start

\* The checks of entriesFromRestore and applyRestoredState on one rule.
RestoreAccepts(d, s) ==
    /\ s.rev = d.rev
    /\ IF d.period = 0
       THEN s.start = Nil /\ s.end = Nil /\ s.gen = 0
       ELSE IF s.start = Nil
            THEN s.used = 0 /\ s.gen = 0
            ELSE s.gen # 0 /\ s.end - s.start = d.period

\* Mutants: a restart forgets the version, or the open window.
RestoredVersionOne(d, s) ==
    IF d.rev = 0 THEN AbsentRule ELSE RuntimeRule(d, [s EXCEPT !.ver = 1], FALSE)
RestoredWithoutWindow(d, s) ==
    IF d.rev = 0 THEN AbsentRule
    ELSE RuntimeRule(d, [s EXCEPT !.used = 0, !.start = Nil, !.end = Nil, !.gen = 0], FALSE)

Restored(d, s) == IF d.rev = 0 THEN AbsentRule ELSE RuntimeRule(d, s, FALSE)

(***************************************************************************)
(* persistAccessQuotaSnapshot: snapshot s against the rule row d and the   *)
(* state row p. Only "applied" changes the state row; "error" aborts the   *)
(* transaction that holds every other snapshot of the batch.               *)
(***************************************************************************)
SnapshotWritable(s) ==
    s.rev # 0 /\ s.ver # 0 /\ s.used >= 0 /\ (s.start = Nil) = (s.end = Nil)

\* Mutant: a deleted rule is not told apart from a corrupt row.
PersistOutcomeNoDelete(d, p, s) ==
    IF ~SnapshotWritable(s) THEN "error"
    ELSE IF p.rev = s.rev /\ p.ver < s.ver THEN "applied"
    ELSE IF d.rev # 0 /\ d.rev # s.rev THEN "stale_revision"
    ELSE IF p.rev = s.rev /\ p.ver >= s.ver THEN "already_current"
    ELSE "error"

PersistOutcome(d, p, s) ==
    IF ~SnapshotWritable(s) THEN "error"
    ELSE IF p.rev = s.rev /\ p.ver < s.ver THEN "applied"
    ELSE IF d.rev = 0 THEN "rule_deleted"
    ELSE IF d.rev # s.rev THEN "stale_revision"
    ELSE IF p.rev = s.rev /\ p.ver >= s.ver THEN "already_current"
    ELSE "error"

\* Mutant: the UPDATE does not compare revisions.
PersistedAnyRevision(d, p, s) ==
    IF p.rev # 0 /\ p.ver < s.ver THEN [s EXCEPT !.rev = p.rev] ELSE p

Persisted(d, p, s) == IF PersistOutcome(d, p, s) = "applied" THEN s ELSE p
=============================================================================
