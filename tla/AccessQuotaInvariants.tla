------------------------ MODULE AccessQuotaInvariants ------------------------
(***************************************************************************)
(* The inductive invariants behind the properties of AccessQuota.          *)
(***************************************************************************)
EXTENDS AccessQuota, AccessQuotaOrder

RuleInv(r) ==
    LET d == dbRule[r]
        p == dbState[r]
    IN  /\ proc = "down" => RowInv(d, p)
        /\ proc # "down" => LiveInv(d, p, rt[r], batch[r])
        /\ wphase = "ack" => WrittenInv(d, p, batch[r])
        /\ d.rev # 0 \/ rt[r].rev # 0 \/ batch[r].rev # 0 => r \in issued

TicketsInv ==
    \A q \in Requests, r \in Rules :
        LET t == req[q].ticket[r] IN
        t.rev # 0 => r \in issued /\ TicketInv(dbRule[r], rt[r], t)

\* Nothing of a stopped process is left.
DownInv ==
    proc = "down" => /\ rt = NoRuntime /\ batch = NoBatch
                     /\ \A q \in Requests : req[q].ticket = NoTicket

\* The durability invariant: the rows, the runtime, the checkpoints in flight
\* and the tickets of every rule are ordered by revision, generation and
\* version, whatever the requests, the administrator, the worker and crashes
\* did.
Durability == DownInv /\ TicketsInv /\ \A r \in Rules : RuleInv(r)

\* What a graceful stop goes through: the worker drains only once a stop was
\* requested, a stop is requested only by a closing process, an unforced one
\* finds no handler active, and the last scan still has every dirty rule
\* before it.
StopInv ==
    /\ wphase = "loop" => draining
    /\ draining \/ wphase = "stopped" \/ stopErr => stopReq
    /\ stopReq => proc = "closing"
    /\ stopReq /\ ~forced => \A q \in Requests : ~Active(q)
    /\ wphase = "loop" /\ ~forced => \A r \in Rules : Present(rt[r]) /\ rt[r].dirty => KeyOf[r] \in todo
    /\ CleanStopIsComplete

\* A request that has arrived under the current snapshot knows the revisions
\* the runtime has; no handler outlives its process.
SnapshotInv ==
    /\ \A q \in Requests :
          /\ proc = "down" => req[q].phase \notin {"arrived", "open"}
          /\ req[q].phase = "arrived" =>
                /\ req[q].snap <= snapRev
                /\ req[q].snap = snapRev =>
                      \A r \in Rules : req[q].own[r] = IF KeyOf[r] = req[q].key THEN rt[r].rev ELSE 0
    /\ AdmittedUnderOwnRules
=============================================================================
