------------------------------ MODULE TeeStore ------------------------------
(***************************************************************************)
(* The mirroring store of a deployment with --store tee.  Every process    *)
(* has a TeeStore of its own: a call is done on the file store, which is   *)
(* authoritative (rec, with the operations of LeaseStore), and then queued *)
(* for postgres; one goroutine applies the queue in order.  The callers    *)
(* are the requesters, one process for each dispatch they queue, and the   *)
(* pools, with a worker for each dispatch they hold.                       *)
(***************************************************************************)
EXTENDS PgStore, Sequences

CONSTANTS QueueCap,    \* mirrorQueueCap
          Queued,      \* the dispatches whose requesters come to queue them
          Ending,      \* the processes that come to an end
          Outcomes,    \* terminal statuses the pools release with
          MaxFaults,   \* bound on crashes and failed statements
          MaxRepeats   \* bound on the calls a caller may repeat at will

ASSUME TeeStoreAssumption ==
    /\ QueueCap \in Nat \ {0}
    /\ Queued \subseteq Dispatch
    /\ Ending \subseteq Executor \cup Dispatch
    /\ Outcomes \subseteq Terminal
    /\ MaxFaults \in Nat
    /\ MaxRepeats \in Nat
    /\ Executor \cap Dispatch = {}

VARIABLES pg,       \* the mirror
          queue,    \* queue[p]: the mirrorQ of process p
          mid,      \* mid[p][d]: done on the file store, not yet queued
          stage,    \* stage[d]: how far the requester of d has come
          proc,     \* proc[p]: whether p runs, closes its store, is gone
          apart,    \* apart[d]: what has come between the stores (history)
          faults, repeats

vars == <<rec, pg, queue, mid, stage, proc, apart, faults, repeats>>

\* The requester of d is the process d.
Process == Executor \cup Dispatch

-----------------------------------------------------------------------------
(* A mirrorOp: the closure enqueue is given, with the copy it captures.    *)

Nothing == [op |-> "nothing"]
Ops ==
    [op : {"alloc"}, d : Dispatch]
      \cup [op : {"put"}, d : Dispatch, r : Record]
      \cup [op : {"claim", "renew"}, d : Dispatch, x : Executor]
      \cup [op : {"release"}, d : Dispatch, x : Executor, s : Terminal]

Perform(t, o) ==
    CASE o.op = "alloc"   -> PgAlloc(t)
      [] o.op = "put"     -> PgPut(t, o.d, o.r)
      [] o.op = "claim"   -> PgClaim(t, o.x, o.d)
      [] o.op = "renew"   -> PgRenew(t, o.x, o.d)
      [] o.op = "release" -> PgRelease(t, o.x, o.d, o.s)
      [] OTHER            -> t

\* What process p has written of d and the mirror has not.
Behind(p, d) ==
    {o \in {queue[p][i] : i \in DOMAIN queue[p]} \cup {mid[p][d]} :
        o.op \notin {"nothing", "alloc"} /\ o.d = d}

TeeTypeOK ==
    /\ StoreTypeOK
    /\ pg \in Table
    /\ queue \in [Process -> Seq(Ops)]
    /\ \A p \in Process : Len(queue[p]) <= QueueCap
    /\ mid \in [Process -> [Dispatch -> Ops \cup {Nothing}]]
    /\ stage \in [Dispatch -> {"new", "allocated", "queued"}]
    /\ proc \in [Process -> {"open", "closed", "gone"}]
    /\ apart \in [Dispatch -> SUBSET {"lost", "requeued", "overtaken"}]
    /\ faults \in 0..MaxFaults
    /\ repeats \in 0..MaxRepeats

TeeInit ==
    /\ StoreInit
    /\ pg = EmptyTable
    /\ queue = [p \in Process |-> <<>>]
    /\ mid = [p \in Process |-> [d \in Dispatch |-> Nothing]]
    /\ stage = [d \in Dispatch |-> "new"]
    /\ proc = [p \in Process |-> "open"]
    /\ apart = [d \in Dispatch |-> {}]
    /\ faults = 0
    /\ repeats = 0

Fault ==
    /\ faults < MaxFaults
    /\ faults' = faults + 1

Repeat ==
    /\ repeats < MaxRepeats
    /\ repeats' = repeats + 1

\* A history of what makes the mirror disagree; no step depends on it.
Note(D, why) ==
    apart' = [d \in Dispatch |-> IF d \in D THEN apart[d] \cup {why} ELSE apart[d]]

-----------------------------------------------------------------------------
(* The calls.  Each is made by a process whose last call for the dispatch  *)
(* has returned, and leaves behind what is still to be queued.  A call     *)
(* that the file store refuses changes nothing and mirrors nothing.        *)

Ready(p, d) == proc[p] = "open" /\ mid[p][d] = Nothing
Then(p, d, o) == mid' = [mid EXCEPT ![p][d] = o]

\* The file store counts its directories.
AllocDispatch(d) ==
    /\ Ready(d, d)
    /\ stage[d] = "new"
    /\ \A e \in Dispatch : e < d => stage[e] # "new"
    /\ stage' = [stage EXCEPT ![d] = "allocated"]
    /\ Then(d, d, [op |-> "alloc", d |-> d])
    /\ UNCHANGED <<rec, pg, queue, proc, apart, faults, repeats>>

QueueDispatch(d) ==
    /\ Ready(d, d)
    /\ d \in Queued
    /\ stage[d] = "allocated"
    /\ Enqueue(d)
    /\ stage' = [stage EXCEPT ![d] = "queued"]
    /\ Then(d, d, [op |-> "put", d |-> d, r |-> rec'[d]])
    /\ UNCHANGED <<pg, queue, proc, apart, faults, repeats>>

ClaimDispatch(x, d) ==
    /\ Ready(x, d)
    /\ Claim(x, d)
    /\ Then(x, d, [op |-> "claim", d |-> d, x |-> x])
    /\ Note(IF Behind(d, d) = {} THEN {} ELSE {d}, "overtaken")
    /\ UNCHANGED <<pg, queue, stage, proc, faults, repeats>>

\* The record of a claim that is to be denied, with the reason.
WriteReason(x, d) ==
    /\ Ready(x, d)
    /\ CanRenew(x, d)
    /\ Then(x, d, [op |-> "put", d |-> d, r |-> rec[d]])
    /\ Repeat
    /\ UNCHANGED <<rec, pg, queue, stage, proc, apart, faults>>

WriteRunning(x, d) ==
    /\ Ready(x, d)
    /\ Start(x, d)
    /\ Then(x, d, [op |-> "put", d |-> d, r |-> rec'[d]])
    /\ UNCHANGED <<pg, queue, stage, proc, apart, faults, repeats>>

RenewLease(x, d) ==
    /\ Ready(x, d)
    /\ Renew(x, d)
    /\ Then(x, d, [op |-> "renew", d |-> d, x |-> x])
    /\ Repeat
    /\ UNCHANGED <<pg, queue, stage, proc, apart, faults>>

\* The release is mirrored whether the file store has accepted it or not.
ReleaseUnchecked(x, d) ==
    /\ Ready(x, d)
    /\ \E s \in Outcomes :
        /\ Release(x, d, s) \/ (~ CanRelease(x, d) /\ UNCHANGED rec)
        /\ Then(x, d, [op |-> "release", d |-> d, x |-> x, s |-> s])
    /\ UNCHANGED <<pg, queue, stage, proc, apart, faults, repeats>>

ReleaseDispatch(x, d) ==
    /\ Ready(x, d)
    /\ \E s \in Outcomes :
        /\ Release(x, d, s)
        /\ Then(x, d, [op |-> "release", d |-> d, x |-> x, s |-> s])
    /\ UNCHANGED <<pg, queue, stage, proc, apart, faults, repeats>>

\* ExpireLeases is delegated and not mirrored.
ExpireLeases(d) ==
    /\ \E x \in Executor : proc[x] = "open"
    /\ Expire(d)
    /\ Note({d}, "requeued")
    /\ Repeat
    /\ UNCHANGED <<pg, queue, mid, stage, proc, faults>>

TimePasses ==
    /\ Elapse
    /\ UNCHANGED <<pg, queue, mid, stage, proc, apart, faults, repeats>>

-----------------------------------------------------------------------------
(* enqueue, mirrorLoop and Close.                                          *)

\* A channel send without a default case.
SendBlocks(p, d) ==
    /\ proc[p] = "open"
    /\ mid[p][d] # Nothing
    /\ Len(queue[p]) < QueueCap
    /\ queue' = [queue EXCEPT ![p] = Append(@, mid[p][d])]
    /\ Then(p, d, Nothing)
    /\ UNCHANGED <<rec, pg, stage, proc, apart, faults, repeats>>

\* A queue without a bound.
SendUnbounded(p, d) ==
    /\ proc[p] = "open"
    /\ mid[p][d] # Nothing
    /\ queue' = [queue EXCEPT ![p] = Append(@, mid[p][d])]
    /\ Then(p, d, Nothing)
    /\ UNCHANGED <<rec, pg, stage, proc, apart, faults, repeats>>

\* A full queue drops the operation.  A lost alloc is no loss of a record.
Send(p, d) ==
    /\ proc[p] = "open"
    /\ mid[p][d] # Nothing
    /\ \/ /\ Len(queue[p]) < QueueCap
          /\ queue' = [queue EXCEPT ![p] = Append(@, mid[p][d])]
          /\ UNCHANGED apart
       \/ /\ Len(queue[p]) = QueueCap
          /\ Note(IF mid[p][d].op = "alloc" THEN {} ELSE {d}, "lost")
          /\ UNCHANGED queue
    /\ Then(p, d, Nothing)
    /\ UNCHANGED <<rec, pg, stage, proc, faults, repeats>>

\* The newest operation first.
MirrorLast(p) ==
    /\ proc[p] # "gone"
    /\ queue[p] # <<>>
    /\ queue' = [queue EXCEPT ![p] = SubSeq(@, 1, Len(@) - 1)]
    /\ pg' = Perform(pg, queue[p][Len(queue[p])])
    /\ UNCHANGED <<rec, mid, stage, proc, apart, faults, repeats>>

\* The loop looks at the closed flag.
MirrorWhileOpen(p) ==
    /\ proc[p] = "open"
    /\ queue[p] # <<>>
    /\ queue' = [queue EXCEPT ![p] = Tail(@)]
    /\ pg' = Perform(pg, Head(queue[p]))
    /\ UNCHANGED <<rec, mid, stage, proc, apart, faults, repeats>>

\* One turn of mirrorLoop; an error of the statement is only logged.
Mirror(p) ==
    /\ proc[p] # "gone"
    /\ queue[p] # <<>>
    /\ queue' = [queue EXCEPT ![p] = Tail(@)]
    /\ \/ /\ pg' = Perform(pg, Head(queue[p]))
          /\ UNCHANGED <<apart, faults>>
       \/ /\ Fault
          /\ Note(IF Head(queue[p]).op = "alloc" THEN {} ELSE {Head(queue[p]).d},
                  "lost")
          /\ UNCHANGED pg
    /\ UNCHANGED <<rec, mid, stage, proc, repeats>>

\* The command returns: a requester when it has queued its dispatch or
\* failed to, a pool when it has drained its workers.
Close(p) ==
    /\ p \in Ending
    /\ \A d \in Dispatch : Ready(p, d) /\ rec[d].holder # p
    /\ p \in Dispatch => stage[p] # "new"
    /\ proc' = [proc EXCEPT ![p] = "closed"]
    /\ UNCHANGED <<rec, pg, queue, mid, stage, apart, faults, repeats>>

\* Close waits for the loop, the process ends.
Exit(p) ==
    /\ proc[p] = "closed"
    /\ queue[p] = <<>>
    /\ proc' = [proc EXCEPT ![p] = "gone"]
    /\ UNCHANGED <<rec, pg, queue, mid, stage, apart, faults, repeats>>

Crash(p) ==
    /\ p \in Ending
    /\ proc[p] # "gone"
    /\ Fault
    /\ proc' = [proc EXCEPT ![p] = "gone"]
    /\ queue' = [queue EXCEPT ![p] = <<>>]
    /\ mid' = [mid EXCEPT ![p] = [d \in Dispatch |-> Nothing]]
    /\ Note({d \in Dispatch : Behind(p, d) # {}}, "lost")
    /\ UNCHANGED <<rec, pg, stage, repeats>>

-----------------------------------------------------------------------------

TeeNext ==
    \/ \E d \in Dispatch :
        \/ AllocDispatch(d)
        \/ QueueDispatch(d)
        \/ ExpireLeases(d)
        \/ \E x \in Executor :
            \/ ClaimDispatch(x, d)
            \/ WriteReason(x, d)
            \/ WriteRunning(x, d)
            \/ RenewLease(x, d)
            \/ ReleaseDispatch(x, d)
        \/ \E p \in Process : Send(p, d)
    \/ \E p \in Process :
        \/ Mirror(p)
        \/ Close(p)
        \/ Exit(p)
        \/ Crash(p)
    \/ TimePasses

\* A caller goes on.  Nothing is assumed of postgres, which may hang without
\* a timeout, before the queue is drained by Close.
TeeFairness ==
    \A p \in Process :
        /\ \A d \in Dispatch : WF_vars(Send(p, d))
        /\ WF_vars(proc[p] = "closed" /\ Mirror(p))
        /\ WF_vars(Exit(p))

TeeSpec     == TeeInit /\ [][TeeNext]_vars
TeeFairSpec == TeeSpec /\ TeeFairness

-----------------------------------------------------------------------------

\* The mirror never shows an outcome the authoritative store does not have:
\* whatever is lost, late or overtaken, a row says completed, failed or denied
\* only if the record does (teestore.go: "If the fs write fails, the pg mirror
\* is NOT attempted"; a mirrored release is conditional on the holder).
MirrorNeverInvents ==
    \A d \in Dispatch :
        pg.row[d].status \in Terminal => rec[d].status = pg.row[d].status
=============================================================================
