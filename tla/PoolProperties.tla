--------------------------- MODULE PoolProperties ---------------------------
(* What the pool owes the dispatches it executes.                          *)
EXTENDS Pool

\* At most one adapter run of a dispatch is in progress at any time, over
\* all pools that share the store: the claim is what keeps two agents from
\* working on the same brief.
NoDoubleRun ==
    \A d \in Dispatch, p, q \in Executor :
        pc[p][d] = "run" /\ pc[q][d] = "run" => p = q

\* A worker that reaches ReleaseDispatch still holds the claim, so the
\* outcome of the run it just finished is recorded and not dropped with a
\* log line.
OutcomeAccepted ==
    \A p \in Executor, d \in Dispatch :
        pc[p][d] = "release" => CanRelease(p, d)

\* A dispatch is executed again only because a process crashed or a store
\* write failed: without faults each dispatch runs at most once.
RerunNeedsFault == \A d \in Dispatch : runs[d] <= faults + 1

\* Every queued dispatch reaches a terminal status, also when a pool dies
\* with the claim in its hand.
QueuedFinishes ==
    \A d \in Dispatch :
        rec[d].status = "pending" ~> rec[d].status \in Terminal
=============================================================================
