------------------------- MODULE TeeStoreProperties -------------------------
(* What the mirror may be relied on for, and what the callers may.         *)
EXTENDS TeeStore, FiniteSets

Allocated == {d \in Dispatch : stage[d] # "new"}

\* The mirror numbers its placeholders itself (AllocDispatch calls
\* pg.AllocDispatch and drops the id), in another order than the file store
\* and with gaps: it still has rows for allocated dispatches only.
RowsAllocated ==
    /\ pg.seq <= Cardinality(Allocated)
    /\ \A d \in Dispatch : pg.row[d] # NoRow => d \in Allocated

\* The mirror has nothing of d left to apply.
CaughtUp(d) == \A p \in Process : Behind(p, d) = {}

\* Nothing but these makes the mirror disagree with the record of a dispatch:
\* an operation on it that was lost (queue full, statement failed, crash), an
\* expiry, which TeeStore does not mirror, or a claim that reached the mirror's
\* table past the requester's operations, which come from another process.
\* Absent these, the table shows the record as soon as it has caught up,
\* whatever is dropped or reordered of other dispatches and of their ids.
MirrorFollows ==
    \A d \in Dispatch : apart[d] = {} /\ CaughtUp(d) =>
        IF rec[d].status = "absent" THEN ~ pg.row[d].written
                                    ELSE pg.row[d] = RowOf(rec[d])

\* The mirror never delays a caller: an operation that is done on the file
\* store is queued or dropped, and the call returns, also when postgres hangs
\* (select with a default case in enqueue).
CallerNotBlocked ==
    \A p \in Process, d \in Dispatch :
        mid[p][d] # Nothing ~> mid[p][d] = Nothing

\* Close drains the queue and returns, as long as postgres answers.
CloseDrains ==
    \A p \in Process : proc[p] = "closed" ~> proc[p] = "gone"
=============================================================================
