------------------------------ MODULE PgStore ------------------------------
(***************************************************************************)
(* What the statements of pgstore do to the rows of the dispatch table and *)
(* to dispatch_seq.  A table is a value; each operator is the table after  *)
(* one statement, the same table when its WHERE clause matches no row.     *)
(* TeeStore applies them late, PgQueue when they are called.               *)
(***************************************************************************)
EXTENDS LeaseStore

\* The ids are d01, d02, ...: numbers, because the mirror numbers on its own.
ASSUME PgStoreAssumption == Dispatch \subseteq Nat \ {0}

\* leased: lease_until IS NOT NULL.  written: by WriteDispatch, not by the
\* INSERT of AllocDispatch, which fills in neither role, tier nor adapter.
Row == [status : Status, holder : Executor \cup {None},
        leased : BOOLEAN, written : BOOLEAN]

NoRow == [status |-> "absent", holder |-> None,
          leased |-> FALSE, written |-> FALSE]
Placeholder == [NoRow EXCEPT !.status = "pending"]

\* What WriteDispatch stores of a record.
RowOf(r) == [status |-> r.status, holder |-> r.holder,
             leased |-> r.lease # NoLease, written |-> TRUE]

\* seq: the number of ids dispatch_seq has given out.
Table == [seq : Nat, row : [Dispatch -> Row]]
EmptyTable == [seq |-> 0, row |-> [d \in Dispatch |-> NoRow]]

SetRow(t, d, r) == [t EXCEPT !.row[d] = r]

-----------------------------------------------------------------------------

\* INSERT ... ON CONFLICT DO UPDATE in place of DO NOTHING.
PgAllocOverwrites(t) ==
    LET n == t.seq + 1 IN
    [t EXCEPT !.seq = n,
              !.row = [d \in Dispatch |-> IF d = n THEN Placeholder ELSE @[d]]]

\* RETURNING next_n in place of next_n - 1.
PgAllocSkipsOne(t) ==
    LET n == t.seq + 1 IN
    [t EXCEPT !.seq = n,
              !.row = [d \in Dispatch |->
                         IF d = n + 1 /\ @[d] = NoRow THEN Placeholder ELSE @[d]]]

\* The next number, and a placeholder row unless the id has a row already.
PgAlloc(t) ==
    LET n == t.seq + 1 IN
    [t EXCEPT !.seq = n,
              !.row = [d \in Dispatch |->
                         IF d = n /\ @[d] = NoRow THEN Placeholder ELSE @[d]]]

PgPut(t, d, r) == SetRow(t, d, RowOf(r))

PgClaim(t, x, d) ==
    IF t.row[d].status = "pending"
    THEN SetRow(t, d, [t.row[d] EXCEPT !.status = "claimed", !.holder = x,
                                       !.leased = TRUE])
    ELSE t

PgRenew(t, x, d) ==
    IF t.row[d].holder = x /\ t.row[d].status = "claimed"
    THEN SetRow(t, d, [t.row[d] EXCEPT !.leased = TRUE])
    ELSE t

PgRelease(t, x, d, s) ==
    IF t.row[d].holder = x
    THEN SetRow(t, d, [t.row[d] EXCEPT !.status = s, !.holder = None,
                                       !.leased = FALSE])
    ELSE t
=============================================================================
