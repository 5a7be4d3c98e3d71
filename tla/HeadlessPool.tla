---------------------------- MODULE HeadlessPool -----------------------------
(***************************************************************************)
(* A pool whose adapter is claude-headless.  The worker of a pool holds    *)
(* the lease and starts a detached supervisor; the supervisor runs the     *)
(* agent and writes the outcome; the worker polls the record until it      *)
(* shows one.  The two do not know of each other: the supervisor survives  *)
(* its pool, and a lease that runs out under it hands the dispatch to a    *)
(* pool that starts another one beside it.  Everybody but the store's own  *)
(* operations writes back a whole record it has read before.               *)
(*                                                                         *)
(* One dispatch; what a pool does apart from it is Pool's subject.         *)
(***************************************************************************)
EXTENDS Naturals, FiniteSets

CONSTANTS Pools,      \* executors
          Nobody,     \* claimed_by = ''
          MaxStarts,  \* bound on supervisors
          MaxTrouble  \* bound on crashes, signals and failed calls

ASSUME HeadlessAssumption ==
    /\ Nobody \notin Pools
    /\ MaxStarts \in Nat /\ MaxTrouble \in Nat

VARIABLES
    meta,     \* the record: its status, and claimed_by with a lease
    at,       \* at[p]: where the worker of pool p stands
    read,     \* read[p]: its copy of the record
    own,      \* own[p]: the supervisor it has started, 0 for none
    told,     \* told[p]: the status it is about to release with
    life,     \* life[n]: the n-th supervisor
    taken,    \* taken[n]: the record it has read
    ends,     \* ends[n]: the outcome it has decided on
    mishaps,  \* what has gone wrong without a trace in the record
    trouble   \* crashes, signals and failed calls so far

workers      == <<at, read, own, told>>
supervisors  == <<life, taken, ends>>
headlessvars == <<meta, workers, supervisors, mishaps, trouble>>

Starts    == 1..MaxStarts
Outcomes  == {"completed", "failed", "halted"}
Preparing == {"read", "mark", "spawn", "pid read", "pid write"}
Going     == {"up", "has", "agent", "wrap"}

InQueue == [status |-> "pending", holder |-> Nobody]

\* A dispatch in the queue.
HeadlessInit ==
    /\ meta = InQueue
    /\ at = [p \in Pools |-> "idle"]
    /\ read = [p \in Pools |-> InQueue]
    /\ own = [p \in Pools |-> 0]
    /\ told = [p \in Pools |-> "failed"]
    /\ life = [n \in Starts |-> "none"]
    /\ taken = [n \in Starts |-> InQueue]
    /\ ends = [n \in Starts |-> "failed"]
    /\ mishaps = {}
    /\ trouble = 0

Trouble == trouble < MaxTrouble /\ trouble' = trouble + 1

Step(p, where) == at' = [at EXCEPT ![p] = where]
Live(n, where) == life' = [life EXCEPT ![n] = where]
EndCall(p, s) == Step(p, "release") /\ told' = [told EXCEPT ![p] = s]

\* The variables of a supervisor that has ended, and of a call that is over.
Ended(n) ==
    /\ taken' = [taken EXCEPT ![n] = InQueue]
    /\ ends' = [ends EXCEPT ![n] = "failed"]

Forget(p) ==
    /\ read' = [read EXCEPT ![p] = InQueue]
    /\ own' = [own EXCEPT ![p] = 0]
    /\ told' = [told EXCEPT ![p] = "failed"]

-----------------------------------------------------------------------------
(* The worker: executeDispatch around claudeheadless.Run                   *)

\* There is a supervisor left for everybody who may start one.
Room == Cardinality({n \in Starts : life[n] = "none"})
          > Cardinality({p \in Pools : at[p] \in Preparing})

ClaimPending(p) ==
    /\ at[p] = "idle" /\ meta.status = "pending" /\ Room
    /\ meta' = [meta EXCEPT !.status = "claimed", !.holder = p]
    /\ Step(p, "read")
    /\ UNCHANGED <<read, own, told, supervisors, mishaps, trouble>>

ReadClaimed(p) ==
    /\ at[p] = "read"
    /\ \/ /\ Step(p, "mark") /\ read' = [read EXCEPT ![p] = meta]
          /\ UNCHANGED <<told, trouble>>
       \/ Trouble /\ EndCall(p, "failed") /\ UNCHANGED read
    /\ UNCHANGED <<meta, own, supervisors, mishaps>>

MarkBeforeSpawn(p) ==
    /\ at[p] = "mark"
    /\ \/ meta' = [read[p] EXCEPT !.status = "running"] /\ UNCHANGED trouble
       \/ Trouble /\ UNCHANGED meta
    /\ Step(p, "spawn")
    /\ UNCHANGED <<read, own, told, supervisors, mishaps>>

\* Materialize, Prepare and cmd.Start of SpawnDetached.
SpawnSupervisor(p) ==
    /\ at[p] = "spawn"
    /\ \/ \E n \in Starts :
            /\ life[n] = "none" /\ \A k \in 1..(n - 1) : life[k] # "none"
            /\ Live(n, "up") /\ own' = [own EXCEPT ![p] = n]
            /\ Step(p, "pid read")
            /\ UNCHANGED <<told, mishaps, trouble>>
       \/ /\ Trouble /\ EndCall(p, "failed")
          /\ mishaps' = mishaps \cup {"no agent"}
          /\ UNCHANGED <<own, life>>
    /\ UNCHANGED <<meta, read, taken, ends>>

PidRead(p) ==
    /\ at[p] = "pid read"
    /\ \/ /\ Step(p, "pid write") /\ read' = [read EXCEPT ![p] = meta]
          /\ UNCHANGED trouble
       \/ Trouble /\ Step(p, "poll") /\ UNCHANGED read
    /\ UNCHANGED <<meta, own, told, supervisors, mishaps>>

\* The whole record, with a pid nobody reads here.  If the supervisor has come
\* to its end since, its outcome is overwritten.
PidWrite(p) ==
    /\ at[p] = "pid write"
    /\ \/ /\ meta' = read[p]
          /\ mishaps' = IF life[own[p]] = "spoke" THEN mishaps \cup {"late pid"}
                                                  ELSE mishaps
          /\ UNCHANGED trouble
       \/ Trouble /\ UNCHANGED <<meta, mishaps>>
    /\ Step(p, "poll")
    /\ UNCHANGED <<read, own, told, supervisors>>

\* Halted forgotten among the statuses that end the wait.
PollWithoutHalted(p) ==
    /\ at[p] = "poll"
    /\ meta.status \in {"completed", "failed"}
    /\ EndCall(p, meta.status)
    /\ UNCHANGED <<meta, read, own, supervisors, mishaps, trouble>>

\* pollToTerminal: nothing else ends the wait, the supervisor's end included.
PollToTerminal(p) ==
    /\ at[p] = "poll"
    /\ meta.status \in Outcomes
    /\ EndCall(p, meta.status)
    /\ UNCHANGED <<meta, read, own, supervisors, mishaps, trouble>>

\* SIGTERM: the context of the poll is cancelled, Run returns an error, and
\* the dispatch is released as failed while its agent goes on.
Shutdown(p) ==
    /\ at[p] = "poll"
    /\ Trouble
    /\ Step(p, "closing") /\ told' = [told EXCEPT ![p] = "failed"]
    /\ UNCHANGED <<meta, read, own, supervisors, mishaps>>

\* Refused unless the record names the pool, or the update fails: either is
\* only logged.
ReleaseClaim(p) ==
    /\ at[p] \in {"release", "closing"}
    /\ \/ /\ meta.holder = p
          /\ meta' = [meta EXCEPT !.status = told[p], !.holder = Nobody]
          /\ UNCHANGED trouble
       \/ meta.holder # p /\ UNCHANGED <<meta, trouble>>
       \/ Trouble /\ UNCHANGED meta
    /\ Step(p, IF at[p] = "closing" THEN "gone" ELSE "idle")
    /\ Forget(p)
    /\ UNCHANGED <<supervisors, mishaps>>

\* The process dies; restarted, it finds the dispatch in its journal.
PoolDies(p) ==
    /\ at[p] \notin {"idle", "gone"}
    /\ Trouble
    /\ Step(p, "gone")
    /\ Forget(p)
    /\ mishaps' = IF at[p] = "spawn" THEN mishaps \cup {"no agent"} ELSE mishaps
    /\ UNCHANGED <<meta, supervisors>>

-----------------------------------------------------------------------------
(* The sweeper of any pool.  A setup is shorter than a lease; a running    *)
(* dispatch is not renewed, so its lease runs out under its agent.         *)

RunOut == meta.holder # Nobody /\ at[meta.holder] \notin Preparing

\* Whatever has a lease, finished or not.
ExpireAnyLease ==
    /\ RunOut
    /\ meta' = [meta EXCEPT !.status = "pending", !.holder = Nobody]
    /\ UNCHANGED <<workers, supervisors, mishaps, trouble>>

ExpireRunOut ==
    /\ RunOut
    /\ meta.status \in {"claimed", "running"}
    /\ meta' = [meta EXCEPT !.status = "pending", !.holder = Nobody]
    /\ UNCHANGED <<workers, supervisors, mishaps, trouble>>

-----------------------------------------------------------------------------
(* tiller _supervise                                                       *)

\* An error before claude runs ends it, and the record is not touched.
SuperviseRead(n) ==
    /\ life[n] = "up"
    /\ \/ Live(n, "has") /\ taken' = [taken EXCEPT ![n] = meta]
       \/ Live(n, "silent") /\ UNCHANGED taken
    /\ UNCHANGED <<meta, workers, ends, mishaps, trouble>>

SuperviseStart(n) ==
    /\ life[n] = "has"
    /\ \/ Live(n, "agent") /\ UNCHANGED <<taken, ends>>
       \/ Live(n, "silent") /\ Ended(n)
    /\ UNCHANGED <<meta, workers, mishaps, trouble>>

AgentEnds(n) ==
    /\ life[n] = "agent"
    /\ \E s \in Outcomes : ends' = [ends EXCEPT ![n] = s]
    /\ Live(n, "wrap")
    /\ UNCHANGED <<meta, workers, taken, mishaps, trouble>>

\* The record as it was when the supervisor began, with the outcome: a claim
\* made since is undone with it.
SuperviseFinish(n) ==
    /\ life[n] = "wrap"
    /\ \/ /\ meta' = [taken[n] EXCEPT !.status = ends[n]]
          /\ Live(n, "spoke") /\ UNCHANGED trouble
       \/ Trouble /\ Live(n, "silent") /\ UNCHANGED meta
    /\ Ended(n)
    /\ UNCHANGED <<workers, mishaps>>

SupervisorKilled(n) ==
    /\ life[n] \in Going
    /\ Trouble
    /\ Live(n, "silent")
    /\ Ended(n)
    /\ UNCHANGED <<meta, workers, mishaps>>

-----------------------------------------------------------------------------

Working(p) ==
    \/ ClaimPending(p) \/ ReadClaimed(p) \/ MarkBeforeSpawn(p) \/ SpawnSupervisor(p)
    \/ PidRead(p) \/ PidWrite(p) \/ PollToTerminal(p) \/ ReleaseClaim(p)

Attending(n) ==
    SuperviseRead(n) \/ SuperviseStart(n) \/ AgentEnds(n) \/ SuperviseFinish(n)

HeadlessNext ==
    \/ \E p \in Pools : Working(p) \/ Shutdown(p) \/ PoolDies(p)
    \/ \E n \in Starts : Attending(n) \/ SupervisorKilled(n)
    \/ ExpireRunOut

HeadlessSpec == HeadlessInit /\ [][HeadlessNext]_headlessvars

-----------------------------------------------------------------------------
(* Properties                                                              *)

\* A supervisor has ended without a word, or its word was overwritten by the
\* pid, or a worker has marked the dispatch running and started nobody.
Mishap == mishaps # {} \/ \E n \in Starts : life[n] = "silent"

Quiet ==
    /\ \A p \in Pools : at[p] \in {"idle", "gone"}
    /\ \A n \in Starts : life[n] \notin Going

\* Whatever leases run out under agents, whichever pool dies or shuts down,
\* and in whatever order two supervisors of a dispatch and their workers write
\* back what they have read: when all are done and each supervisor has spoken,
\* the record shows an outcome and is not up for another run.
OutcomeKept ==
    Quiet /\ ~ Mishap /\ (\E n \in Starts : life[n] = "spoke")
        => meta.status \in Outcomes

\* pollToTerminal has no orphan check and no timeout.  All the same the slot
\* of a worker is freed, also when its dispatch is taken away and run by
\* another, unless there is a mishap.
SlotFreed == \A p \in Pools : at[p] = "poll" ~> at[p] # "poll" \/ Mishap
=============================================================================
