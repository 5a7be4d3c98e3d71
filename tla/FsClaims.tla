------------------------------ MODULE FsClaims ------------------------------
(***************************************************************************)
(* fsstore's claim semantics.  The record of a dispatch (rec, meta.json) is *)
(* updated under a flock; the race of claimants is decided before that, by  *)
(* the exclusive creation of the file "claim".  Every operation therefore   *)
(* takes two steps that a crash or another process can come between, and    *)
(* the claim file is removed by whoever took the record's claim away.       *)
(*                                                                         *)
(* The lease clock is LeaseStore's.  A worker may be arbitrarily slow here, *)
(* with one exception: the deadline RenewLease has just stored does not     *)
(* pass before its second step.                                             *)
(***************************************************************************)
EXTENDS LeaseStore

CONSTANTS MaxFaults,   \* bound on updates of the record that fail
          MaxCrashes   \* bound on crashes and on unlinks that fail

ASSUME FsClaimsAssumption == MaxFaults \in Nat /\ MaxCrashes \in Nat

VARIABLES claim,   \* claim[d]: executor in the claim file, None without a file
          op,      \* op[p][d]: where process p stands with dispatch d
          sweep,   \* sweep[p]: {d} between requeue and unlink in ExpireLeases
          faults,
          crashes

fsvars == <<rec, claim, op, sweep, faults, crashes>>

Op == {"idle", "created", "rollback", "hold", "rewrite", "unlink"}

FsTypeOK ==
    /\ StoreTypeOK
    /\ claim \in [Dispatch -> Executor \cup {None}]
    /\ op \in [Executor -> [Dispatch -> Op]]
    /\ sweep \in [Executor -> SUBSET Dispatch]
    /\ faults \in 0..MaxFaults
    /\ crashes \in 0..MaxCrashes

FsInit ==
    /\ StoreInit
    /\ claim = [d \in Dispatch |-> None]
    /\ op = [p \in Executor |-> [d \in Dispatch |-> "idle"]]
    /\ sweep = [p \in Executor |-> {}]
    /\ faults = 0
    /\ crashes = 0

-----------------------------------------------------------------------------

At(p, d, step)   == op[p][d] = step
Goto(p, d, step) == op' = [op EXCEPT ![p][d] = step]

WriteClaim(d, x) == claim' = [claim EXCEPT ![d] = x]
Unlink(d)        == WriteClaim(d, None)

Fault ==
    /\ faults < MaxFaults
    /\ faults' = faults + 1

\* flockUpdateMeta whose callback refuses the record, or whose I/O fails.
Rejected(Guard) ==
    /\ UNCHANGED rec
    /\ \/ ~ Guard /\ UNCHANGED faults
       \/ Fault

-----------------------------------------------------------------------------
(* ClaimDispatch                                                           *)

\* Without O_EXCL.
CreateClaimShared(p, d) ==
    /\ At(p, d, "idle")
    /\ rec[d].status # "absent"
    /\ WriteClaim(d, p)
    /\ Goto(p, d, "created")
    /\ UNCHANGED <<rec, sweep, faults, crashes>>

\* O_CREAT|O_EXCL; a loser returns (false, nil) at once.  The caller read
\* the record as pending some time ago.
CreateClaim(p, d) ==
    /\ At(p, d, "idle")
    /\ rec[d].status # "absent"
    /\ claim[d] = None
    /\ WriteClaim(d, p)
    /\ Goto(p, d, "created")
    /\ UNCHANGED <<rec, sweep, faults, crashes>>

\* A failed update returns without the rollback.
UpdateClaimedOrReturn(p, d) ==
    /\ At(p, d, "created")
    /\ \/ Claim(p, d) /\ Goto(p, d, "hold") /\ UNCHANGED faults
       \/ Rejected(CanClaim(d)) /\ Goto(p, d, "idle")
    /\ UNCHANGED <<claim, sweep, crashes>>

UpdateClaimed(p, d) ==
    /\ At(p, d, "created")
    /\ \/ Claim(p, d) /\ Goto(p, d, "hold") /\ UNCHANGED faults
       \/ Rejected(CanClaim(d)) /\ Goto(p, d, "rollback")
    /\ UNCHANGED <<claim, sweep, crashes>>

RollBack(p, d) ==
    /\ At(p, d, "rollback")
    /\ Unlink(d)
    /\ Goto(p, d, "idle")
    /\ UNCHANGED <<rec, sweep, faults, crashes>>

(* The holder: WriteDispatch(status = "running"), RenewLease,              *)
(* ReleaseDispatch.  Nothing stops it from going on after its lease.       *)

MarkRunning(p, d) ==
    /\ At(p, d, "hold")
    /\ Start(p, d)
    /\ UNCHANGED <<claim, op, sweep, faults, crashes>>

RenewMeta(p, d) ==
    /\ At(p, d, "hold")
    /\ Renew(p, d)
    /\ Goto(p, d, "rewrite")
    /\ UNCHANGED <<claim, sweep, faults, crashes>>

\* os.WriteFile creates the claim file when it is not there, or fails.
RewriteClaim(p, d) ==
    /\ At(p, d, "rewrite")
    /\ WriteClaim(d, p) \/ UNCHANGED claim
    /\ Goto(p, d, "hold")
    /\ UNCHANGED <<rec, sweep, faults, crashes>>

\* A release that does not compare claimed_by.
ReleaseUnchecked(p, d) ==
    /\ At(p, d, "hold")
    /\ \E s \in Terminal : Put(d, Unclaimed(s))
    /\ Goto(p, d, "unlink")
    /\ UNCHANGED <<claim, sweep, faults, crashes>>

\* A release that removes the claim file also when it was refused.
ReleaseAlwaysUnlinks(p, d) ==
    /\ At(p, d, "hold")
    /\ \/ (\E s \in Terminal : Release(p, d, s)) /\ UNCHANGED faults
       \/ Rejected(CanRelease(p, d))
    /\ Goto(p, d, "unlink")
    /\ UNCHANGED <<claim, sweep, crashes>>

ReleaseMeta(p, d) ==
    /\ At(p, d, "hold")
    /\ \/ /\ \E s \in Terminal : Release(p, d, s)
          /\ Goto(p, d, "unlink")
          /\ UNCHANGED faults
       \/ Rejected(CanRelease(p, d)) /\ Goto(p, d, "idle")
    /\ UNCHANGED <<claim, sweep, crashes>>

RemoveClaim(p, d) ==
    /\ At(p, d, "unlink")
    /\ Unlink(d)
    /\ Goto(p, d, "idle")
    /\ UNCHANGED <<rec, sweep, faults, crashes>>

(* ExpireLeases, by the sweeper of any process.                            *)

\* A sweep of the records only.
RequeueRecord(p, d) ==
    /\ sweep[p] = {}
    /\ Expire(d)
    /\ UNCHANGED <<claim, op, sweep, faults, crashes>>

Requeue(p, d) ==
    /\ sweep[p] = {}
    /\ Expire(d)
    /\ sweep' = [sweep EXCEPT ![p] = {d}]
    /\ UNCHANGED <<claim, op, faults, crashes>>

RemoveExpired(p, d) ==
    /\ d \in sweep[p]
    /\ Unlink(d)
    /\ sweep' = [sweep EXCEPT ![p] = {}]
    /\ UNCHANGED <<rec, op, faults, crashes>>

-----------------------------------------------------------------------------

Queue(d) == Enqueue(d) /\ UNCHANGED <<claim, op, sweep, faults, crashes>>

ClockTick ==
    /\ \A p \in Executor, d \in Dispatch :
          At(p, d, "rewrite") => rec[d].lease # 1
    /\ Elapse
    /\ UNCHANGED <<claim, op, sweep, faults, crashes>>

\* os.Remove fails: the claim file stays, and nobody comes back to it.
UnlinkFails(p, d) ==
    /\ crashes < MaxCrashes
    /\ crashes' = crashes + 1
    /\ \/ /\ op[p][d] \in {"rollback", "unlink"}
          /\ Goto(p, d, "idle")
          /\ UNCHANGED sweep
       \/ /\ d \in sweep[p]
          /\ sweep' = [sweep EXCEPT ![p] = {}]
          /\ UNCHANGED op
    /\ UNCHANGED <<rec, claim, faults>>

Crash(p) ==
    /\ sweep[p] # {} \/ \E d \in Dispatch : ~ At(p, d, "idle")
    /\ crashes < MaxCrashes
    /\ crashes' = crashes + 1
    /\ op' = [op EXCEPT ![p] = [d \in Dispatch |-> "idle"]]
    /\ sweep' = [sweep EXCEPT ![p] = {}]
    /\ UNCHANGED <<rec, claim, faults>>

Advance(p, d) ==
    \/ UpdateClaimed(p, d)
    \/ RollBack(p, d)
    \/ RewriteClaim(p, d)
    \/ ReleaseMeta(p, d)
    \/ RemoveClaim(p, d)
    \/ RemoveExpired(p, d)

FsNext ==
    \/ \E d \in Dispatch :
        \/ Queue(d)
        \/ \E p \in Executor :
            \/ CreateClaim(p, d)
            \/ MarkRunning(p, d)
            \/ RenewMeta(p, d)
            \/ Requeue(p, d)
            \/ Advance(p, d)
            \/ UnlinkFails(p, d)
    \/ \E p \in Executor : Crash(p)
    \/ ClockTick

\* What a process has begun it goes on with, pending dispatches are claimed
\* (ListPendingDispatches is polled), leases are swept and time passes.
FsFairness ==
    /\ \A p \in Executor, d \in Dispatch :
        /\ WF_fsvars(Advance(p, d))
        /\ WF_fsvars(CreateClaim(p, d) /\ rec[d].status = "pending")
        /\ WF_fsvars(Requeue(p, d))
    /\ WF_fsvars(ClockTick)

FsSpec     == FsInit /\ [][FsNext]_fsvars
FairFsSpec == FsSpec /\ FsFairness

-----------------------------------------------------------------------------
(* Properties                                                              *)

\* Who will have to remove the claim file of d: a process between the two
\* steps of an operation, a sweeper, or whoever ends the recorded claim.
Owners(d) ==
    {<<"process", p>> : p \in {q \in Executor : op[q][d] \in {"created", "rollback", "unlink"}}}
    \cup {<<"sweeper", p>> : p \in {q \in Executor : d \in sweep[q]}}
    \cup (IF rec[d].status \in Held THEN {<<"record", rec[d].holder>>} ELSE {})

\* Nobody removes a claim file that is not its own to remove: at most one
\* party is about to unlink it.  Two would let the second unlink destroy the
\* file of the next claimant.
OneOwner ==
    \A d \in Dispatch : \A u, v \in Owners(d) : u = v

\* A claimed or running record has its claim file on disk, in its holder's
\* name: no late unlink, rollback or renewal of somebody else took it away or
\* overwrote it.
HeldHasClaim ==
    \A d \in Dispatch : rec[d].status \in Held => claim[d] = rec[d].holder

\* As long as no process crashes and no unlink fails, no claim file is left behind, not even when
\* an update of the record fails: somebody will remove it.
NoOrphanClaim ==
    \A d \in Dispatch : crashes = 0 /\ claim[d] # None => Owners(d) # {}

\* ExpireLeases and ReleaseDispatch clear the claim: a pending dispatch is
\* always claimed in the end, also after a crash.
PendingTaken ==
    \A d \in Dispatch : rec[d].status = "pending" ~> rec[d].status # "pending"

\* The same, as long as no process crashes and no unlink fails.
PendingTakenUnlessCrash ==
    \A d \in Dispatch :
        rec[d].status = "pending" /\ crashes = 0
            ~> rec[d].status # "pending" \/ crashes > 0
=============================================================================
