-------------------------------- MODULE Pool --------------------------------
(***************************************************************************)
(* tiller pool: executor processes that share one scratch store.  Each     *)
(* delivery of a pending dispatch runs executeDispatch: claim, evaluate    *)
(* the gate, read the record, write status "running", materialize,         *)
(* prepare, run the adapter with a lease renewer beside it, release.       *)
(* Between any two of these store calls other workers, the sweeper         *)
(* (ExpireLeases), the clock and a crash may intervene.                    *)
(*                                                                         *)
(* The clock: a worker starts its renewer within MaxSetup ticks of the     *)
(* claim and releases within MaxHold; in between the renewer calls         *)
(* RenewLease every RenewEvery ticks, never late.                          *)
(***************************************************************************)
EXTENDS LeaseStore, FiniteSets

CONSTANTS MaxHold,        \* ticks from ClaimDispatch to ReleaseDispatch, at most
          MaxSetup,       \* ticks from ClaimDispatch to the renewer, at most
          RenewEvery,     \* --renew, in ticks
          MaxConcurrent,  \* --max-concurrent
          ActiveCap,      \* dispatch.arb DenyConcurrencyCap
          Refused,        \* dispatches whose own record the gate refuses
          Results,        \* terminal statuses an adapter returns
          MaxFaults       \* bound on crashes and failed store writes

ASSUME PoolAssumption ==
    /\ MaxHold \in Nat \ {0}
    /\ MaxSetup \in 1..MaxHold
    /\ RenewEvery \in Nat \ {0}
    /\ Refused \subseteq Dispatch
    /\ Results \subseteq Terminal
    /\ MaxFaults \in Nat

VARIABLES
    pc,      \* pc[p][d]: where pool p's worker for d stands
    snap,    \* snap[p][d]: its in-memory copy of the record
    out,     \* out[p][d]: the terminal status it is about to release with
    left,    \* left[p][d]: ticks until it must have released
    due,     \* due[p][d]: ticks until its renewer fires
    journal, \* journal[p]: dispatches in p's delivery journal
    barred,  \* barred[p]: those in it when p last started, not replayed
    faults,  \* crashes and failed writes so far
    runs     \* runs[d]: adapter runs begun for d

worker == <<pc, snap, out, left, due>>
log    == <<journal, barred>>
vars   == <<rec, pc, snap, out, left, due, journal, barred, faults, runs>>

BeforeMark == {"gate", "denyRead", "denyWrite", "read", "mark"}
Setup      == BeforeMark \cup {"materialize"}
Renewing   == {"prepare", "run"}
Holding    == Setup \cup Renewing \cup {"release"}
Phase      == {"idle", "deliver"} \cup Holding

Blank == Unclaimed("absent")

PoolTypeOK ==
    /\ StoreTypeOK
    /\ pc \in [Executor -> [Dispatch -> Phase]]
    /\ snap \in [Executor -> [Dispatch -> Record]]
    /\ out \in [Executor -> [Dispatch -> Terminal]]
    /\ left \in [Executor -> [Dispatch -> 0..MaxHold]]
    /\ due \in [Executor -> [Dispatch -> 0..RenewEvery]]
    /\ journal \in [Executor -> SUBSET Dispatch]
    /\ barred \in [Executor -> SUBSET Dispatch]
    /\ faults \in 0..MaxFaults
    /\ runs \in [Dispatch -> Nat]

Init ==
    /\ StoreInit
    /\ pc = [p \in Executor |-> [d \in Dispatch |-> "idle"]]
    /\ snap = [p \in Executor |-> [d \in Dispatch |-> Blank]]
    /\ out = [p \in Executor |-> [d \in Dispatch |-> "failed"]]
    /\ left = [p \in Executor |-> [d \in Dispatch |-> 0]]
    /\ due = [p \in Executor |-> [d \in Dispatch |-> 0]]
    /\ journal = [p \in Executor |-> {}]
    /\ barred = [p \in Executor |-> {}]
    /\ faults = 0
    /\ runs = [d \in Dispatch |-> 0]

-----------------------------------------------------------------------------
(* Local steps of a worker.                                                *)

Go(p, d, phase) == pc' = [pc EXCEPT ![p][d] = phase]

\* Every error path of executeDispatch ends in releaseDispatch("failed").
ToRelease(p, d, s) ==
    /\ Go(p, d, "release")
    /\ out' = [out EXCEPT ![p][d] = s]

Done(p, d) ==
    /\ Go(p, d, "idle")
    /\ snap' = [snap EXCEPT ![p][d] = Blank]
    /\ out' = [out EXCEPT ![p][d] = "failed"]
    /\ left' = [left EXCEPT ![p][d] = 0]
    /\ due' = [due EXCEPT ![p][d] = 0]

Fault ==
    /\ faults < MaxFaults
    /\ faults' = faults + 1

Busy(p) == {d \in Dispatch : pc[p][d] # "idle"}

\* countRunningDispatches
Running == {d \in Dispatch : rec[d].status = "running"}

-----------------------------------------------------------------------------
(* tiller dispatch --queue                                                 *)

Queue(d) == Enqueue(d) /\ UNCHANGED <<worker, log, faults, runs>>

(* The runner: the source loader lists pending dispatches and a delivery   *)
(* starts.  Deliveries the journal held at start-up are not replayed.      *)
Deliver(p, d) ==
    /\ pc[p][d] = "idle"
    /\ rec[d].status = "pending"
    /\ d \notin barred[p]
    /\ Cardinality(Busy(p)) < MaxConcurrent
    /\ Go(p, d, "deliver")
    /\ journal' = [journal EXCEPT ![p] = @ \cup {d}]
    /\ UNCHANGED <<rec, snap, out, left, due, barred, faults, runs>>

ClaimDispatch(p, d) ==
    /\ pc[p][d] = "deliver"
    /\ \/ /\ Claim(p, d)
          /\ Go(p, d, "gate")
          /\ left' = [left EXCEPT ![p][d] = MaxHold]
          /\ UNCHANGED faults
       \/ /\ \/ ~ CanClaim(d) /\ UNCHANGED faults
             \/ Fault
          /\ Go(p, d, "idle")          \* lost the race, or an error
          /\ UNCHANGED <<rec, left>>
    /\ UNCHANGED <<snap, out, due, log, runs>>

EvalGate(p, d) ==
    /\ pc[p][d] = "gate"
    /\ \/ /\ d \in Refused \/ Cardinality(Running) >= ActiveCap
          /\ Go(p, d, "denyRead")
          /\ UNCHANGED out
       \/ /\ d \notin Refused
          /\ Cardinality(Running) < ActiveCap
          /\ Go(p, d, "read")
          /\ UNCHANGED out
       \/ ToRelease(p, d, "failed")     \* a read or the evaluation failed
    /\ UNCHANGED <<rec, snap, left, due, log, faults, runs>>

\* The deny reason is written back with the whole record.
DenyRead(p, d) ==
    /\ pc[p][d] = "denyRead"
    /\ \/ /\ snap' = [snap EXCEPT ![p][d] = rec[d]]
          /\ Go(p, d, "denyWrite")
          /\ UNCHANGED out
       \/ /\ ToRelease(p, d, "denied")  \* read failed: reason not recorded
          /\ UNCHANGED snap
    /\ UNCHANGED <<rec, left, due, log, faults, runs>>

\* The denial is written as a status, and the claim is left as it is.
DenyWriteStatus(p, d) ==
    /\ pc[p][d] = "denyWrite"
    /\ rec' = rec \/ Put(d, [snap[p][d] EXCEPT !.status = "denied"])
    /\ ToRelease(p, d, "denied")
    /\ UNCHANGED <<snap, left, due, log, faults, runs>>

DenyWrite(p, d) ==
    /\ pc[p][d] = "denyWrite"
    /\ rec' = rec \/ Put(d, snap[p][d]) \* a failed write is ignored
    /\ ToRelease(p, d, "denied")
    /\ UNCHANGED <<snap, left, due, log, faults, runs>>

ReadDispatch(p, d) ==
    /\ pc[p][d] = "read"
    /\ \/ /\ snap' = [snap EXCEPT ![p][d] = rec[d]]
          /\ Go(p, d, "mark")
          /\ UNCHANGED out
       \/ /\ ToRelease(p, d, "failed")  \* unreadable, or unknown adapter
          /\ UNCHANGED snap
    /\ UNCHANGED <<rec, left, due, log, faults, runs>>

\* A record built anew, without the fields of the claim.
MarkRunningAnew(p, d) ==
    /\ pc[p][d] = "mark"
    /\ Put(d, Unclaimed("running"))
    /\ Go(p, d, "materialize")
    /\ UNCHANGED <<snap, out, left, due, log, faults, runs>>

\* WriteDispatch of the copy; a failure is only logged.
MarkRunning(p, d) ==
    /\ pc[p][d] = "mark"
    /\ \/ /\ Put(d, [snap[p][d] EXCEPT !.status = "running"])
          /\ UNCHANGED faults
       \/ Fault /\ UNCHANGED rec
    /\ Go(p, d, "materialize")
    /\ UNCHANGED <<snap, out, left, due, log, runs>>

Materialize(p, d) ==
    /\ pc[p][d] = "materialize"
    /\ \/ /\ Go(p, d, "prepare")        \* the renewer starts here
          /\ due' = [due EXCEPT ![p][d] = RenewEvery]
          /\ UNCHANGED out
       \/ /\ ToRelease(p, d, "failed")
          /\ UNCHANGED due
    /\ UNCHANGED <<rec, snap, left, log, faults, runs>>

Prepare(p, d) ==
    /\ pc[p][d] = "prepare"
    /\ \/ /\ Go(p, d, "run")
          /\ runs' = [runs EXCEPT ![d] = @ + 1]
          /\ UNCHANGED out
       \/ /\ ToRelease(p, d, "failed")
          /\ UNCHANGED runs
    /\ UNCHANGED <<rec, snap, left, due, log, faults>>

\* The adapter returns; the renewer is cancelled and waited for.
AdapterReturns(p, d) ==
    /\ pc[p][d] = "run"
    /\ \E s \in Results : ToRelease(p, d, s)
    /\ UNCHANGED <<rec, snap, left, due, log, faults, runs>>

\* RenewLease; an error is only logged.
RenewTick(p, d) ==
    /\ pc[p][d] \in Renewing
    /\ due[p][d] = 0
    /\ \/ Renew(p, d) /\ UNCHANGED faults
       \/ ~ CanRenew(p, d) /\ UNCHANGED <<rec, faults>>
       \/ Fault /\ UNCHANGED rec
    /\ due' = [due EXCEPT ![p][d] = RenewEvery]
    /\ UNCHANGED <<pc, snap, out, left, log, runs>>

\* ReleaseDispatch; an error (not the holder, or a failed write) is only
\* logged.
ReleaseDispatch(p, d) ==
    /\ pc[p][d] = "release"
    /\ \/ /\ Release(p, d, out[p][d])
          /\ UNCHANGED faults
       \/ /\ ~ CanRelease(p, d)
          /\ UNCHANGED <<rec, faults>>
       \/ Fault /\ UNCHANGED rec
    /\ Done(p, d)
    /\ UNCHANGED <<log, runs>>

-----------------------------------------------------------------------------
(* The sweeper of any live pool, the clock, and a crash of a pool process  *)
(* that comes back with the journal it had.                                *)

\* A sweep that re-queues the record and forgets to clear the claim.
ExpireStatusOnly(d) ==
    /\ CanExpire(d)
    /\ Put(d, [rec[d] EXCEPT !.status = "pending"])
    /\ UNCHANGED <<worker, log, faults, runs>>

ExpireLease(d) == Expire(d) /\ UNCHANGED <<worker, log, faults, runs>>

Tick ==
    /\ \A p \in Executor, d \in Dispatch :
        /\ pc[p][d] \in Holding => left[p][d] > 0
        /\ pc[p][d] \in Setup => left[p][d] > MaxHold - MaxSetup
        /\ pc[p][d] \in Renewing => due[p][d] > 0
    /\ Elapse
    /\ snap' = [p \in Executor |-> [d \in Dispatch |-> Elapsed(snap[p][d])]]
    /\ left' = [p \in Executor |-> [d \in Dispatch |->
                  IF pc[p][d] \in Holding THEN left[p][d] - 1 ELSE left[p][d]]]
    /\ due' = [p \in Executor |-> [d \in Dispatch |->
                  IF pc[p][d] \in Renewing THEN due[p][d] - 1 ELSE due[p][d]]]
    /\ UNCHANGED <<pc, out, log, faults, runs>>

Crash(p) ==
    /\ Busy(p) # {}
    /\ Fault
    /\ pc' = [pc EXCEPT ![p] = [d \in Dispatch |-> "idle"]]
    /\ snap' = [snap EXCEPT ![p] = [d \in Dispatch |-> Blank]]
    /\ out' = [out EXCEPT ![p] = [d \in Dispatch |-> "failed"]]
    /\ left' = [left EXCEPT ![p] = [d \in Dispatch |-> 0]]
    /\ due' = [due EXCEPT ![p] = [d \in Dispatch |-> 0]]
    /\ barred' = [barred EXCEPT ![p] = @ \cup journal[p]]
    /\ UNCHANGED <<rec, journal, runs>>

-----------------------------------------------------------------------------

Work(p, d) ==
    \/ ClaimDispatch(p, d)
    \/ EvalGate(p, d)
    \/ DenyRead(p, d)
    \/ DenyWrite(p, d)
    \/ ReadDispatch(p, d)
    \/ MarkRunning(p, d)
    \/ Materialize(p, d)
    \/ Prepare(p, d)
    \/ AdapterReturns(p, d)
    \/ ReleaseDispatch(p, d)

Next ==
    \/ \E d \in Dispatch :
        \/ Queue(d)
        \/ ExpireLease(d)
        \/ \E p \in Executor :
            \/ Deliver(p, d)
            \/ Work(p, d)
            \/ RenewTick(p, d)
    \/ \E p \in Executor : Crash(p)
    \/ Tick

\* A live worker goes on, a live runner keeps delivering what is pending,
\* the sweeper runs after every poll, and time passes.
Fairness ==
    /\ \A d \in Dispatch :
        /\ WF_vars(ExpireLease(d))
        /\ \A p \in Executor :
            /\ WF_vars(Deliver(p, d))
            /\ WF_vars(Work(p, d))
            /\ WF_vars(RenewTick(p, d))
    /\ WF_vars(Tick)

Spec     == Init /\ [][Next]_vars
FairSpec == Spec /\ Fairness
=============================================================================
