---------------------------- MODULE MCAccessQuota ----------------------------
(***************************************************************************)
(* TLC instances of AccessQuota, and the ledger property, which sums over  *)
(* requests.                                                               *)
(***************************************************************************)
EXTENDS AccessQuotaInvariants, FiniteSetsExt, TLC

RequestSymmetry == Permutations(Requests)

OneKey == {1}
TwoKeys == {1, 2}
AllOnOneKey == [r \in Rules |-> 1]
KeyPerRule == [r \in Rules |-> r]
UnitCost == {1}
CostsUp == {1, 2}
CostsFault == {0 - 1, 0, 2}

\* The usage of a rule is exactly what the database held for its window at
\* start-up plus the estimates of the requests that completed under that
\* revision and that window, each counted once: no charge is lost in a
\* publication, doubled, or applied to a later window.
LedgerExact ==
    \A r \in Rules :
        LET x == rt[r]
            settled == {q \in Requests :
                          /\ req[q].phase = "done" /\ req[q].ticket[r].rev = x.rev
                          /\ Periodic(x) => req[q].ticket[r].gen = x.gen}
            base == IF boot[r].rev = x.rev /\ (Periodic(x) => boot[r].gen = x.gen)
                    THEN boot[r].used ELSE 0
            sum == base + MapThenSumSet(LAMBDA q : req[q].cost, settled)
        IN  Present(x) /\ x.gen < MaxUint64
              => x.used = IF (\E q \in settled : req[q].cost < 0) \/ sum > MaxInt64
                          THEN MaxInt64 ELSE sum
=============================================================================
