----------------------------- MODULE LeaseStore -----------------------------
(***************************************************************************)
(* What scratch.Store promises of a queued dispatch: a record that is      *)
(* claimed for a bounded time, renewed and released by its holder, and     *)
(* re-queued by anyone once the time has run out.  Every operation is one  *)
(* atomic step, which is how pgstore implements it (a single UPDATE whose  *)
(* WHERE clause is the guard).  FsClaims shows the file system store to    *)
(* implement this module, Pool uses its operations.                        *)
(*                                                                         *)
(* A deadline (lease_until) is kept as the number of clock ticks until it  *)
(* is past: 0 means that it is before "now", NoLease that it is null.      *)
(***************************************************************************)
EXTENDS Integers

CONSTANTS Dispatch,   \* the dispatches of a run
          Executor,   \* executor identities (pool/<host>/<pid>)
          None,       \* claimed_by = ''
          Lease       \* lease duration, in ticks

ASSUME LeaseStoreAssumption ==
    /\ None \notin Executor
    /\ Lease \in Nat \ {0}

VARIABLE rec          \* rec[d]: the stored record of dispatch d

Terminal == {"completed", "failed", "halted", "stale", "denied"}
Held     == {"claimed", "running"}
Status   == {"absent", "pending"} \cup Held \cup Terminal

NoLease  == -1
Deadline == {NoLease} \cup 0..Lease

Record == [status : Status, holder : Executor \cup {None}, lease : Deadline]

Unclaimed(s) == [status |-> s, holder |-> None, lease |-> NoLease]

StoreTypeOK == rec \in [Dispatch -> Record]

-----------------------------------------------------------------------------
(* The guards and effects of the single-statement updates.                 *)

\* Variants of some definitions, each with a plausible mistake in it, stand
\* before the definition they are variants of.  No action uses them: they
\* show of a property that it notices the mistake.
ClaimsTerminal(d)    == rec[d].status \notin Held
ExpiresAnyHeld(d)    == rec[d].status \in Held
ExpiresUnleased(d)   == rec[d].lease <= 0
ExpiresUnstarted(d)  == rec[d].status = "claimed" /\ rec[d].lease = 0

CanClaim(d)      == rec[d].status = "pending"
CanRenew(x, d)   == rec[d].holder = x /\ rec[d].status = "claimed"
CanRelease(x, d) == rec[d].holder = x
CanExpire(d)     == rec[d].status \in Held /\ rec[d].lease = 0

\* WriteDispatch: the whole record is replaced, nothing is compared.
Put(d, r) == rec' = [rec EXCEPT ![d] = r]

\* tiller dispatch --queue: the first write of the record.
Enqueue(d) ==
    /\ rec[d].status = "absent"
    /\ Put(d, Unclaimed("pending"))

Claim(x, d) ==
    /\ CanClaim(d)
    /\ Put(d, [status |-> "claimed", holder |-> x, lease |-> Lease])

Renew(x, d) ==
    /\ CanRenew(x, d)
    /\ Put(d, [rec[d] EXCEPT !.lease = Lease])

\* What the pool's WriteDispatch(status = "running") amounts to while it
\* holds the lease.
Start(x, d) ==
    /\ CanRenew(x, d)
    /\ Put(d, [rec[d] EXCEPT !.status = "running"])

Release(x, d, s) ==
    /\ s \in Terminal
    /\ CanRelease(x, d)
    /\ Put(d, Unclaimed(s))

Expire(d) ==
    /\ CanExpire(d)
    /\ Put(d, Unclaimed("pending"))

\* A deadline one tick nearer.
Elapsed(r) == IF r.lease > 0 THEN [r EXCEPT !.lease = @ - 1] ELSE r

Elapse == rec' = [d \in Dispatch |-> Elapsed(rec[d])]

-----------------------------------------------------------------------------

StoreInit == rec = [d \in Dispatch |-> Unclaimed("absent")]

StoreNext ==
    \/ \E d \in Dispatch :
        \/ Enqueue(d)
        \/ Expire(d)
        \/ \E x \in Executor :
            \/ Claim(x, d)
            \/ Renew(x, d)
            \/ Start(x, d)
            \/ \E s \in Terminal : Release(x, d, s)
    \/ Elapse

StoreSpec == StoreInit /\ [][StoreNext]_rec

-----------------------------------------------------------------------------
(* Properties of the contract.                                             *)

\* A record names a holder, and has a deadline, exactly while it is claimed
\* or running: no re-queued or finished dispatch can be renewed or released
\* by an executor that once held it (claimed_by = '' and lease_until = NULL
\* in ReleaseDispatch and ExpireLeases), and no held one is out of reach of
\* ExpireLeases, which skips records without a deadline.
HeldIffLeased ==
    \A d \in Dispatch :
        /\ rec[d].status \in Held <=> rec[d].holder # None
        /\ rec[d].status \in Held <=> rec[d].lease # NoLease

\* A terminal status is final: no claim, renewal, expiry or late write ever
\* takes a finished dispatch back or replaces its outcome.
TerminalIsFinal ==
    [][\A d \in Dispatch : rec[d].status \in Terminal => rec'[d] = rec[d]]_rec

\* A claim changes hands only through the queue: a record held by one
\* executor is never held by another in the next state.
NoHandOver ==
    [][\A d \in Dispatch :
          rec[d].holder # None => rec'[d].holder \in {rec[d].holder, None}]_rec
=============================================================================
