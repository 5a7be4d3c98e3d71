----------------------------- MODULE PoolProofs -----------------------------
(* The pool keeps its promises when every claim is given up within the     *)
(* lease (MaxHold < Lease), for any number of pools, dispatches and faults;*)
(* and pools with detached agents keep their outcomes without it.          *)
EXTENDS PoolProperties, HeadlessPool, LeaseStoreProofs

\* A worker between ClaimDispatch and ReleaseDispatch holds the record, and
\* the deadline stored there is further away than the time it has left.
ClaimCovered ==
    \A p \in Executor, d \in Dispatch :
        pc[p][d] \in Holding =>
            /\ rec[d].holder = p
            /\ left[p][d] < rec[d].lease

\* Nobody changes the record between the worker's read and its write-back.
SnapFresh ==
    \A p \in Executor, d \in Dispatch :
        /\ pc[p][d] \in BeforeMark => rec[d].status = "claimed"
        /\ pc[p][d] \in {"denyWrite", "mark"} => snap[p][d] = rec[d]

\* d is past its adapter run, or in it.
Spent(d) ==
    \/ rec[d].status \in Terminal
    \/ \E p \in Executor : pc[p][d] \in {"run", "release"}

RunsPaid ==
    \A d \in Dispatch :
        /\ runs[d] <= faults + 1
        /\ runs[d] <= faults \/ Spent(d)

IInv ==
    /\ PoolTypeOK
    /\ HeldIffLeased
    /\ ClaimCovered
    /\ SnapFresh
    /\ RunsPaid
-----------------------------------------------------------------------------

\* The constants of the claim/lease arithmetic.
LEMMA Constants ==
    /\ None \notin Executor
    /\ Lease \in Nat /\ Lease > 0
    /\ MaxHold \in Nat /\ MaxHold > 0
    /\ RenewEvery \in Nat
    /\ Results \subseteq Terminal
    /\ MaxFaults \in Nat
BY LeaseStoreAssumption, PoolAssumption

\* The statuses and phases the actions name.
LEMMA Names ==
    /\ \A s \in Terminal : s \in Status
    /\ {"failed", "denied"} \subseteq Terminal
    /\ {"absent", "pending", "claimed", "running"} \subseteq Status
    /\ {"idle", "deliver", "gate", "denyRead", "denyWrite", "read", "mark",
        "materialize", "prepare", "run", "release"} = Phase
BY DEF Terminal, Status, Held, Phase, Holding, Setup, BeforeMark, Renewing

\* A record that loses a tick of its deadline is a record.
LEMMA ElapsedType ==
    /\ Blank \in Record
    /\ \A r \in Record : Elapsed(r) \in Record
BY Constants, Names DEF Record, Elapsed, Deadline, NoLease, Blank, Unclaimed

\* The operations of the store keep it well typed.
LEMMA StoreTypeStep ==
    ASSUME StoreTypeOK, NEW d \in Dispatch,
           \/ Enqueue(d) \/ Expire(d)
           \/ \E x \in Executor : Claim(x, d) \/ Renew(x, d)
           \/ \E x \in Executor, s \in Terminal : Release(x, d, s)
           \/ \E r \in Record : Put(d, r) \/ Put(d, [r EXCEPT !.status = "running"])
           \/ Elapse
           \/ rec' = rec
    PROVE  StoreTypeOK'
<1> USE Constants DEF StoreTypeOK, Put
<1>1. ASSUME NEW r \in Record, Put(d, r) PROVE StoreTypeOK'
  BY <1>1
<1>2. ASSUME NEW s \in Status, Put(d, Unclaimed(s)) PROVE StoreTypeOK'
  <2>1. Unclaimed(s) \in Record
    BY DEF Unclaimed, Record, Deadline, NoLease
  <2>2. QED
    BY <2>1, <1>2
<1>3. ASSUME NEW x \in Executor, Claim(x, d) PROVE StoreTypeOK'
  BY <1>3, Names DEF Claim, Record, Deadline
<1>4. ASSUME NEW x \in Executor, Renew(x, d) PROVE StoreTypeOK'
  BY <1>4 DEF Renew, Record, Deadline
<1>5. ASSUME NEW r \in Record, Put(d, [r EXCEPT !.status = "running"])
      PROVE  StoreTypeOK'
  BY <1>5, Names DEF Record
<1>6. CASE Elapse
  BY <1>6, ElapsedType DEF Elapse
<1>7. QED
  BY <1>1, <1>2, <1>3, <1>4, <1>5, <1>6, Names DEF Enqueue, Expire, Release

PcType  == pc \in [Executor -> [Dispatch -> Phase]]
OutType == out \in [Executor -> [Dispatch -> Terminal]]

\* A worker's move from phase to phase is well typed.
LEMMA MoveType ==
    ASSUME PoolTypeOK, NEW p \in Executor, NEW d \in Dispatch
    PROVE  /\ \A phase \in Phase : Go(p, d, phase) => PcType'
           /\ \A s \in Terminal : ToRelease(p, d, s) => PcType' /\ OutType'
           /\ UNCHANGED out => OutType'
<1>1. \A phase \in Phase : Go(p, d, phase) => PcType'
  BY DEF PoolTypeOK, PcType, Go
<1>2. "release" \in Phase
  BY Names
<1>3. \A s \in Terminal : ToRelease(p, d, s) => PcType' /\ OutType'
  BY <1>1, <1>2 DEF PoolTypeOK, OutType, ToRelease
<1>4. QED
  BY <1>1, <1>3 DEF PoolTypeOK, OutType

\* Every step of the pool keeps the variables in their types.
LEMMA TypeStep == ASSUME PoolTypeOK, [Next]_vars PROVE PoolTypeOK'
<1>a. snap \in [Executor -> [Dispatch -> Record]] /\ rec \in [Dispatch -> Record]
  BY DEF PoolTypeOK, StoreTypeOK
<1>b. left \in [Executor -> [Dispatch -> 0..MaxHold]] /\ MaxHold \in 0..MaxHold
  BY Constants DEF PoolTypeOK
<1>c. due \in [Executor -> [Dispatch -> 0..RenewEvery]] /\ RenewEvery \in 0..RenewEvery
  BY Constants DEF PoolTypeOK
<1>d. runs \in [Dispatch -> Nat]
  BY DEF PoolTypeOK
<1> USE DEF worker, log
<1>1. ASSUME NEW d \in Dispatch, Queue(d) PROVE PoolTypeOK'
  BY <1>1, StoreTypeStep DEF PoolTypeOK, Queue
<1>2. ASSUME NEW d \in Dispatch, ExpireLease(d) PROVE PoolTypeOK'
  BY <1>2, StoreTypeStep DEF PoolTypeOK, ExpireLease
<1>3. ASSUME NEW d \in Dispatch, NEW p \in Executor, Deliver(p, d)
      PROVE  PoolTypeOK'
  BY <1>3, Names DEF PoolTypeOK, Deliver, StoreTypeOK, Go
<1>4. ASSUME NEW d \in Dispatch, NEW p \in Executor, Work(p, d)
      PROVE  PoolTypeOK'
  <2>1. CASE ClaimDispatch(p, d)
    <3>1. StoreTypeOK'
      BY <2>1, StoreTypeStep DEF PoolTypeOK, ClaimDispatch
    <3>2. PcType'
      BY <2>1, MoveType, Names DEF PoolTypeOK, ClaimDispatch
    <3>8. left' \in [Executor -> [Dispatch -> 0..MaxHold]]
      BY <2>1, <1>b DEF ClaimDispatch
    <3>9. QED
      BY <2>1, <3>2, <3>1, <3>8, Constants
      DEF PoolTypeOK, ClaimDispatch, Fault, StoreTypeOK, PcType, OutType
  <2>2. CASE EvalGate(p, d)
    <3>1. PcType' /\ OutType'
      BY <2>2, MoveType, Names DEF PoolTypeOK, EvalGate
    <3>2. QED
      BY <2>2, <3>1 DEF PoolTypeOK, EvalGate, StoreTypeOK, PcType, OutType
  <2>3. CASE DenyRead(p, d)
    <3>1. PcType' /\ OutType'
      BY <2>3, MoveType, Names DEF PoolTypeOK, DenyRead
    <3>8. snap' \in [Executor -> [Dispatch -> Record]]
      BY <2>3, <1>a DEF DenyRead
    <3>9. QED
      BY <2>3, <3>1, <3>8 DEF PoolTypeOK, DenyRead, StoreTypeOK, PcType, OutType
  <2>4. CASE DenyWrite(p, d)
    <3>1. snap[p][d] \in Record
      BY <1>a
    <3>2. StoreTypeOK'
      BY <2>4, <3>1, StoreTypeStep DEF PoolTypeOK, DenyWrite
    <3>3. PcType' /\ OutType'
      BY <2>4, MoveType, Names DEF PoolTypeOK, DenyWrite
    <3>4. QED
      BY <2>4, <3>2, <3>3 DEF PoolTypeOK, DenyWrite, PcType, OutType
  <2>5. CASE ReadDispatch(p, d)
    <3>1. PcType' /\ OutType'
      BY <2>5, MoveType, Names DEF PoolTypeOK, ReadDispatch
    <3>8. snap' \in [Executor -> [Dispatch -> Record]]
      BY <2>5, <1>a DEF ReadDispatch
    <3>9. QED
      BY <2>5, <3>1, <3>8 DEF PoolTypeOK, ReadDispatch, StoreTypeOK, PcType, OutType
  <2>6. CASE MarkRunning(p, d)
    <3>1. snap[p][d] \in Record
      BY <1>a
    <3>2. StoreTypeOK'
      BY <2>6, <3>1, StoreTypeStep DEF PoolTypeOK, MarkRunning
    <3>3. PcType' /\ OutType'
      BY <2>6, MoveType, Names DEF PoolTypeOK, MarkRunning
    <3>4. QED
      BY <2>6, <3>2, <3>3, Constants DEF PoolTypeOK, MarkRunning, Fault, PcType, OutType
  <2>7. CASE Materialize(p, d)
    <3>1. PcType' /\ OutType'
      BY <2>7, MoveType, Names DEF PoolTypeOK, Materialize
    <3>8. due' \in [Executor -> [Dispatch -> 0..RenewEvery]]
      BY <2>7, <1>c DEF Materialize
    <3>9. QED
      BY <2>7, <3>1, <3>8 DEF PoolTypeOK, Materialize, StoreTypeOK, PcType, OutType
  <2>8. CASE Prepare(p, d)
    <3>1. PcType' /\ OutType'
      BY <2>8, MoveType, Names DEF PoolTypeOK, Prepare
    <3>8. runs' \in [Dispatch -> Nat]
      BY <2>8, <1>d DEF Prepare
    <3>9. QED
      BY <2>8, <3>1, <3>8 DEF PoolTypeOK, Prepare, StoreTypeOK, PcType, OutType
  <2>9. CASE AdapterReturns(p, d)
    <3>1. PcType' /\ OutType'
      BY <2>9, MoveType, Constants DEF PoolTypeOK, AdapterReturns
    <3>2. QED
      BY <2>9, <3>1 DEF PoolTypeOK, AdapterReturns, StoreTypeOK, PcType, OutType
  <2>10. CASE ReleaseDispatch(p, d)
    <3>1. StoreTypeOK'
      BY <2>10, StoreTypeStep DEF PoolTypeOK, ReleaseDispatch
    <3>2. QED
      BY <2>10, <3>1, ElapsedType, Constants, Names DEF PoolTypeOK, ReleaseDispatch, Done, Go, Fault
  <2>11. QED
    BY <1>4, <2>1, <2>2, <2>3, <2>4, <2>5, <2>6, <2>7, <2>8, <2>9, <2>10
    DEF Work
<1>5. ASSUME NEW d \in Dispatch, NEW p \in Executor, RenewTick(p, d)
      PROVE  PoolTypeOK'
  <2>1. StoreTypeOK'
    BY <1>5, StoreTypeStep DEF PoolTypeOK, RenewTick
  <2>2. QED
    BY <1>5, <2>1, Constants DEF PoolTypeOK, RenewTick, Fault
<1>6. ASSUME NEW p \in Executor, Crash(p) PROVE PoolTypeOK'
  BY <1>6, ElapsedType, Constants, Names DEF PoolTypeOK, Crash, Fault, StoreTypeOK
<1>7. CASE Tick
  <2>1. StoreTypeOK'
    <3>1. rec' \in [Dispatch -> Record]
      BY <1>7, ElapsedType DEF PoolTypeOK, Tick, Elapse, StoreTypeOK
    <3>2. QED
      BY <3>1 DEF PoolTypeOK, StoreTypeOK
  <2>2. snap' \in [Executor -> [Dispatch -> Record]]
    BY <1>7, ElapsedType DEF PoolTypeOK, Tick
  <2>3. left' \in [Executor -> [Dispatch -> 0..MaxHold]]
    BY <1>7, Constants, Names DEF PoolTypeOK, Tick
  <2>4. due' \in [Executor -> [Dispatch -> 0..RenewEvery]]
    BY <1>7, Constants, Names DEF PoolTypeOK, Tick
  <2>5. QED
    BY <1>7, <2>1, <2>2, <2>3, <2>4 DEF PoolTypeOK, Tick
<1>8. CASE UNCHANGED vars
  BY <1>8 DEF PoolTypeOK, vars, StoreTypeOK
<1>9. QED
  BY <1>1, <1>2, <1>3, <1>4, <1>5, <1>6, <1>7, <1>8 DEF PoolTypeOK, Next

-----------------------------------------------------------------------------

\* A worker that writes its copy back holds the claim, and the copy is the
\* stored record: the two unguarded WriteDispatch calls of executeDispatch
\* amount to no change and to Start.
LEMMA WriteBack ==
    ASSUME IInv, NEW p \in Executor, NEW d \in Dispatch
    PROVE  /\ DenyWrite(p, d) => rec' = rec
           /\ MarkRunning(p, d) => Start(p, d) \/ rec' = rec
<1>1. rec \in [Dispatch -> Record]
  BY DEF IInv, PoolTypeOK, StoreTypeOK
<1>2. ASSUME DenyWrite(p, d) PROVE rec' = rec
  <2>1. snap[p][d] = rec[d]
    BY <1>2 DEF DenyWrite, IInv, SnapFresh
  <2>2. QED
    BY <1>1, <1>2, <2>1 DEF DenyWrite, Put
<1>3. ASSUME MarkRunning(p, d) PROVE Start(p, d) \/ rec' = rec
  <2>1. snap[p][d] = rec[d] /\ rec[d].status = "claimed" /\ rec[d].holder = p
    BY <1>3 DEF MarkRunning, IInv, SnapFresh, ClaimCovered, Holding, Setup,
                BeforeMark
  <2>2. QED
    BY <1>3, <2>1 DEF MarkRunning, Start, CanRenew
<1>4. QED
  BY <1>2, <1>3

\* Every step of the pool is a step of the lease store or leaves the records
\* alone.
LEMMA StoreStep == ASSUME IInv, [Next]_vars PROVE [StoreNext]_rec
<1>1. ASSUME NEW d \in Dispatch, Queue(d) \/ ExpireLease(d)
      PROVE  StoreNext
  BY <1>1 DEF Queue, ExpireLease, StoreNext
<1>2. ASSUME NEW d \in Dispatch, NEW p \in Executor, Work(p, d)
      PROVE  [StoreNext]_rec
  <2>1. CASE ClaimDispatch(p, d)
    BY <2>1 DEF ClaimDispatch, StoreNext
  <2>2. CASE DenyWrite(p, d) \/ MarkRunning(p, d)
    BY <2>2, WriteBack DEF StoreNext
  <2>3. CASE ReleaseDispatch(p, d)
    <3>1. out[p][d] \in Terminal
      BY DEF IInv, PoolTypeOK
    <3>2. QED
      BY <2>3, <3>1 DEF ReleaseDispatch, StoreNext
  <2>4. CASE \/ EvalGate(p, d) \/ DenyRead(p, d) \/ ReadDispatch(p, d)
             \/ Materialize(p, d) \/ Prepare(p, d) \/ AdapterReturns(p, d)
    BY <2>4 DEF EvalGate, DenyRead, ReadDispatch, Materialize, Prepare,
                AdapterReturns
  <2>5. QED
    BY <1>2, <2>1, <2>2, <2>3, <2>4 DEF Work
<1>3. ASSUME NEW d \in Dispatch, NEW p \in Executor, RenewTick(p, d)
      PROVE  [StoreNext]_rec
  BY <1>3 DEF RenewTick, StoreNext
<1>4. ASSUME NEW d \in Dispatch, NEW p \in Executor, Deliver(p, d)
      PROVE  rec' = rec
  BY <1>4 DEF Deliver
<1>5. ASSUME NEW p \in Executor, Crash(p) PROVE rec' = rec
  BY <1>5 DEF Crash
<1>6. CASE Tick
  BY <1>6 DEF Tick, StoreNext
<1>7. QED
  BY <1>1, <1>2, <1>3, <1>4, <1>5, <1>6 DEF Next, vars

-----------------------------------------------------------------------------

\* Only its own worker moves a claim forward: a step of another worker, of
\* the sweeper or of the CLI leaves a covered record as it is.
LEMMA CoveredKept ==
    ASSUME IInv, NEW p \in Executor, NEW d \in Dispatch,
           pc[p][d] \in Holding, [Next]_vars, ~ Tick
    PROVE  \/ rec'[d] = rec[d]
           \/ Work(p, d)
           \/ RenewTick(p, d)
<1> DEFINE r == rec[d]
<1>1. /\ r.holder = p /\ p # None /\ r.status \in Held
      /\ r.lease # 0 /\ r.status \notin {"absent", "pending"}
      /\ rec \in [Dispatch -> Record]
  <2>1. left[p][d] \in 0..MaxHold /\ r.lease \in Int
    BY DEF IInv, PoolTypeOK, StoreTypeOK, Record, Deadline, NoLease
  <2>2. QED
    BY <2>1, Constants
    DEF IInv, ClaimCovered, HeldIffLeased, PoolTypeOK, StoreTypeOK, Held
<1>2. ASSUME NEW e \in Dispatch, Queue(e) \/ ExpireLease(e)
      PROVE  rec'[d] = rec[d]
  BY <1>1, <1>2 DEF Queue, Enqueue, ExpireLease, Expire, CanExpire, Put, Held
<1>3. ASSUME NEW e \in Dispatch, NEW q \in Executor, e # d,
             Work(q, e) \/ RenewTick(q, e)
      PROVE  rec'[d] = rec[d]
  BY <1>1, <1>3
  DEF Work, ClaimDispatch, Claim, EvalGate, DenyRead, DenyWrite, ReadDispatch,
      MarkRunning, Materialize, Prepare, AdapterReturns, ReleaseDispatch,
      Release, RenewTick, Renew, Put
<1>4. ASSUME NEW q \in Executor, q # p, Work(q, d) \/ RenewTick(q, d)
      PROVE  rec'[d] = rec[d]
  <2>1. pc[q][d] \notin Holding
    BY <1>1, <1>4 DEF IInv, ClaimCovered
  <2>2. ClaimDispatch(q, d)
    BY <1>4, <2>1
    DEF Work, EvalGate, DenyRead, DenyWrite, ReadDispatch, MarkRunning,
        Materialize, Prepare, AdapterReturns, ReleaseDispatch, RenewTick,
        Holding, Setup, BeforeMark, Renewing
  <2>3. ~ Claim(q, d)
    BY <1>1 DEF Claim, CanClaim, Held
  <2>4. QED
    BY <2>2, <2>3 DEF ClaimDispatch
<1>5. ASSUME NEW q \in Executor, NEW e \in Dispatch, Deliver(q, e)
      PROVE  rec'[d] = rec[d]
  BY <1>5 DEF Deliver
<1>6. ASSUME NEW q \in Executor, Crash(q) PROVE rec'[d] = rec[d]
  BY <1>6 DEF Crash
<1>7. QED
  BY <1>2, <1>3, <1>4, <1>5, <1>6 DEF Next, vars

\* Steps of another worker leave a worker's phase, copy and timer alone.
LEMMA LocalKept ==
    ASSUME PoolTypeOK, NEW p \in Executor, NEW d \in Dispatch,
           [Next]_vars, ~ Tick
    PROVE  \/ /\ pc'[p][d] = pc[p][d]
              /\ snap'[p][d] = snap[p][d]
              /\ left'[p][d] = left[p][d]
           \/ Work(p, d)
           \/ Deliver(p, d)
           \/ pc'[p][d] = "idle"
<1>1. ASSUME NEW q \in Executor, NEW e \in Dispatch, Work(q, e), q # p \/ e # d
      PROVE  /\ pc'[p][d] = pc[p][d]
             /\ snap'[p][d] = snap[p][d]
             /\ left'[p][d] = left[p][d]
  BY <1>1
  DEF PoolTypeOK, Work, ClaimDispatch, EvalGate, DenyRead, DenyWrite,
      ReadDispatch, MarkRunning, Materialize, Prepare, AdapterReturns,
      ReleaseDispatch, Done, Go, ToRelease
<1>2. ASSUME NEW q \in Executor, NEW e \in Dispatch, Deliver(q, e), q # p \/ e # d
      PROVE  /\ pc'[p][d] = pc[p][d]
             /\ snap'[p][d] = snap[p][d]
             /\ left'[p][d] = left[p][d]
  BY <1>2 DEF PoolTypeOK, Deliver, Go
<1>3. ASSUME NEW q \in Executor, Crash(q)
      PROVE  \/ pc'[p][d] = "idle"
             \/ /\ pc'[p][d] = pc[p][d]
                /\ snap'[p][d] = snap[p][d]
                /\ left'[p][d] = left[p][d]
  BY <1>3 DEF PoolTypeOK, Crash
<1>4. ASSUME NEW q \in Executor, NEW e \in Dispatch,
             Queue(e) \/ ExpireLease(e) \/ RenewTick(q, e)
      PROVE  pc' = pc /\ snap' = snap /\ left' = left
  BY <1>4 DEF Queue, ExpireLease, RenewTick, worker
<1>5. QED
  BY <1>1, <1>2, <1>3, <1>4 DEF Next, vars

\* A claim stays covered: the deadline on the record outlives the worker.
\* This is where MaxHold < Lease is needed.
LEMMA CoveredStep ==
    ASSUME MaxHold < Lease, IInv, [Next]_vars
    PROVE  ClaimCovered'
<1> SUFFICES ASSUME NEW p \in Executor, NEW d \in Dispatch,
                    pc'[p][d] \in Holding
             PROVE  rec'[d].holder = p /\ left'[p][d] < rec'[d].lease
  BY DEF ClaimCovered
<1>1. /\ rec \in [Dispatch -> Record] /\ rec[d].lease \in Int
      /\ left[p][d] \in 0..MaxHold
      /\ left \in [Executor -> [Dispatch -> 0..MaxHold]]
      /\ pc \in [Executor -> [Dispatch -> Phase]]
  BY DEF IInv, PoolTypeOK, StoreTypeOK, Record, Deadline, NoLease
<1>2. pc[p][d] \in Holding => rec[d].holder = p /\ left[p][d] < rec[d].lease
  BY DEF IInv, ClaimCovered
<1>3. CASE Tick
  <2>1. pc[p][d] \in Holding /\ left[p][d] > 0
    BY <1>3 DEF Tick
  <2>2. left'[p][d] = left[p][d] - 1
    BY <1>3, <2>1 DEF Tick
  <2>3. rec'[d] = [rec[d] EXCEPT !.lease = rec[d].lease - 1]
    BY <1>1, <1>2, <1>3, <2>1 DEF Tick, Elapse, Elapsed
  <2>4. rec'[d].holder = p /\ rec'[d].lease = rec[d].lease - 1
    BY <1>1, <1>2, <2>1, <2>3 DEF Record
  <2>5. QED
    BY <1>1, <1>2, <2>1, <2>2, <2>4
<1>4. CASE Work(p, d)
  <2>1. CASE ClaimDispatch(p, d)
    <3>1. Claim(p, d) /\ left' = [left EXCEPT ![p][d] = MaxHold]
      BY <1>1, <2>1
      DEF ClaimDispatch, Go, Holding, Setup, BeforeMark, Renewing
    <3>2. rec'[d] = [status |-> "claimed", holder |-> p, lease |-> Lease]
      BY <1>1, <3>1 DEF Claim, Put
    <3>3. left'[p][d] = MaxHold
      BY <1>1, <3>1
    <3>4. QED
      BY <3>2, <3>3
  <2>2. CASE MarkRunning(p, d)
    <3>1. pc[p][d] \in Holding
      BY <2>2 DEF MarkRunning, Holding, Setup, BeforeMark
    <3>2. left' = left
      BY <2>2 DEF MarkRunning
    <3>3. rec'[d].holder = rec[d].holder /\ rec'[d].lease = rec[d].lease
      BY <1>1, <2>2, WriteBack DEF Start, Put, Record
    <3>4. QED
      BY <1>2, <3>1, <3>2, <3>3
  <2>3. CASE DenyWrite(p, d)
    <3>1. pc[p][d] \in Holding /\ left' = left
      BY <2>3 DEF DenyWrite, Holding, Setup, BeforeMark
    <3>2. rec' = rec
      BY <2>3, WriteBack
    <3>3. QED
      BY <1>2, <3>1, <3>2
  <2>4. CASE ReleaseDispatch(p, d)
    BY <1>1, <2>4
    DEF ReleaseDispatch, Done, Go, Holding, Setup, BeforeMark, Renewing
  <2>5. CASE \/ EvalGate(p, d) \/ DenyRead(p, d) \/ ReadDispatch(p, d)
             \/ Materialize(p, d) \/ Prepare(p, d) \/ AdapterReturns(p, d)
    <3>1. pc[p][d] \in Holding /\ left' = left /\ rec' = rec
      BY <2>5 DEF EvalGate, DenyRead, ReadDispatch, Materialize, Prepare,
                  AdapterReturns, Holding, Setup, BeforeMark, Renewing
    <3>2. QED
      BY <1>2, <3>1
  <2>6. QED
    BY <1>4, <2>1, <2>2, <2>3, <2>4, <2>5 DEF Work
<1>5. CASE RenewTick(p, d)
  <2>1. pc[p][d] \in Holding /\ left' = left
    BY <1>5 DEF RenewTick, Holding
  <2>2. \/ rec' = rec
        \/ rec'[d] = [rec[d] EXCEPT !.lease = Lease]
    BY <1>1, <1>5 DEF RenewTick, Renew, Put
  <2>3. rec'[d].holder = p /\ rec'[d].lease \in {rec[d].lease, Lease}
    BY <1>1, <1>2, <2>1, <2>2 DEF Record
  <2>4. QED
    BY <1>1, <1>2, <2>1, <2>3, Constants
<1>6. CASE ~ Tick /\ ~ Work(p, d) /\ ~ RenewTick(p, d)
  <2>1. pc'[p][d] = pc[p][d] /\ left'[p][d] = left[p][d]
    <3>1. ~ Deliver(p, d)
      BY <1>1 DEF Deliver, Go, Holding, Setup, BeforeMark, Renewing
    <3>2. pc'[p][d] # "idle"
      BY DEF Holding, Setup, BeforeMark, Renewing
    <3>3. QED
      BY <1>6, <3>1, <3>2, LocalKept DEF IInv
  <2>2. rec'[d] = rec[d]
    BY <1>6, <2>1, CoveredKept
  <2>3. QED
    BY <1>2, <2>1, <2>2
<1>7. QED
  BY <1>3, <1>4, <1>5, <1>6

\* The copy a worker holds stays the stored record until it is written back.
LEMMA SnapStep == ASSUME IInv, [Next]_vars PROVE SnapFresh'
<1> SUFFICES ASSUME NEW p \in Executor, NEW d \in Dispatch,
                    pc'[p][d] \in BeforeMark
             PROVE  /\ rec'[d].status = "claimed"
                    /\ pc'[p][d] \in {"denyWrite", "mark"} =>
                          snap'[p][d] = rec'[d]
  BY DEF SnapFresh, BeforeMark
<1>1. /\ rec \in [Dispatch -> Record]
      /\ snap \in [Executor -> [Dispatch -> Record]]
      /\ pc \in [Executor -> [Dispatch -> Phase]]
  BY DEF IInv, PoolTypeOK, StoreTypeOK
<1>2. pc[p][d] \in BeforeMark =>
        /\ rec[d].status = "claimed"
        /\ pc[p][d] \in {"denyWrite", "mark"} => snap[p][d] = rec[d]
  BY DEF IInv, SnapFresh
<1>3. CASE Tick
  <2>1. pc' = pc /\ snap'[p][d] = Elapsed(snap[p][d]) /\ rec'[d] = Elapsed(rec[d])
    BY <1>3 DEF Tick, Elapse
  <2>2. Elapsed(rec[d]).status = rec[d].status
    BY <1>1 DEF Elapsed, Record
  <2>3. QED
    BY <1>2, <2>1, <2>2
<1>4. CASE Work(p, d)
  <2>1. CASE ClaimDispatch(p, d)
    BY <1>1, <2>1 DEF ClaimDispatch, Claim, Put, Go, BeforeMark
  <2>2. CASE EvalGate(p, d)
    BY <1>1, <1>2, <2>2 DEF EvalGate, ToRelease, Go, BeforeMark
  <2>3. CASE DenyRead(p, d)
    BY <1>1, <1>2, <2>3 DEF DenyRead, ToRelease, Go, BeforeMark
  <2>4. CASE ReadDispatch(p, d)
    BY <1>1, <1>2, <2>4 DEF ReadDispatch, ToRelease, Go, BeforeMark
  <2>5. CASE \/ DenyWrite(p, d) \/ MarkRunning(p, d) \/ Materialize(p, d)
             \/ Prepare(p, d) \/ AdapterReturns(p, d) \/ ReleaseDispatch(p, d)
    <3>1. pc'[p][d] \in {"release", "materialize", "prepare", "run", "idle"}
      BY <1>1, <2>5 DEF DenyWrite, MarkRunning, Materialize, Prepare,
           AdapterReturns, ReleaseDispatch, Done, ToRelease, Go
    <3>2. QED
      BY <3>1 DEF BeforeMark
  <2>6. QED
    BY <1>4, <2>1, <2>2, <2>3, <2>4, <2>5 DEF Work
<1>5. CASE ~ Tick /\ ~ Work(p, d)
  <2>1. pc'[p][d] = pc[p][d] /\ snap'[p][d] = snap[p][d]
    <3>1. ~ Deliver(p, d)
      BY <1>1 DEF Deliver, Go, BeforeMark
    <3>2. pc'[p][d] # "idle"
      BY DEF BeforeMark
    <3>3. QED
      BY <1>5, <3>1, <3>2, LocalKept DEF IInv
  <2>2. ~ RenewTick(p, d)
    BY <2>1 DEF RenewTick, Renewing, BeforeMark
  <2>3. rec'[d] = rec[d]
    BY <1>5, <2>1, <2>2, CoveredKept DEF Holding, Setup
  <2>4. QED
    BY <1>2, <2>1, <2>3
<1>6. QED
  BY <1>3, <1>4, <1>5

\* Only its own steps and a crash change a worker's phase.
LEMMA MovesAlone ==
    ASSUME PoolTypeOK, NEW p \in Executor, NEW d \in Dispatch,
           [Next]_vars, pc'[p][d] # pc[p][d]
    PROVE  Work(p, d) \/ Deliver(p, d) \/ \E q \in Executor : Crash(q)
<1>1. ASSUME NEW q \in Executor, NEW e \in Dispatch, Work(q, e), q # p \/ e # d
      PROVE  pc'[p][d] = pc[p][d]
  BY <1>1
  DEF PoolTypeOK, Work, ClaimDispatch, EvalGate, DenyRead, DenyWrite,
      ReadDispatch, MarkRunning, Materialize, Prepare, AdapterReturns,
      ReleaseDispatch, Done, Go, ToRelease
<1>2. ASSUME NEW q \in Executor, NEW e \in Dispatch, Deliver(q, e), q # p \/ e # d
      PROVE  pc'[p][d] = pc[p][d]
  BY <1>2 DEF PoolTypeOK, Deliver, Go
<1>3. ASSUME NEW q \in Executor, NEW e \in Dispatch, RenewTick(q, e)
      PROVE  pc' = pc
  BY <1>3 DEF RenewTick
<1>4. ASSUME NEW e \in Dispatch, Queue(e) \/ ExpireLease(e)
      PROVE  pc' = pc
  BY <1>4 DEF Queue, ExpireLease, worker
<1>5. CASE Tick
  BY <1>5 DEF Tick
<1>6. CASE UNCHANGED vars
  BY <1>6 DEF vars
<1>7. QED
  BY <1>1, <1>2, <1>3, <1>4, <1>5, <1>6 DEF Next

\* Each adapter run beyond the first is paid for by a fault: a run starts
\* only while no other is under way, and a run that ends without a fault
\* leaves a terminal record.
LEMMA RunsStep == ASSUME IInv, [Next]_vars PROVE RunsPaid'
<1> SUFFICES ASSUME NEW d \in Dispatch
             PROVE  /\ runs'[d] <= faults' + 1
                    /\ runs'[d] <= faults' \/ Spent(d)'
  BY DEF RunsPaid
<1>1. /\ runs \in [Dispatch -> Nat] /\ runs[d] \in Nat /\ faults \in Nat
      /\ rec \in [Dispatch -> Record]
      /\ pc \in [Executor -> [Dispatch -> Phase]]
  BY Constants DEF IInv, PoolTypeOK, StoreTypeOK
<1>2. runs[d] <= faults + 1 /\ (runs[d] <= faults \/ Spent(d))
  BY DEF IInv, RunsPaid
<1>3. CASE faults' = faults + 1 /\ runs' = runs
  BY <1>1, <1>2, <1>3
<1>4. CASE faults' = faults /\ runs' = runs
  <2>1. CASE ~ Spent(d)
    BY <1>1, <1>2, <1>4, <2>1
  <2>2. CASE rec[d].status \in Terminal
    <3>1. StoreInv /\ [StoreNext]_rec
      BY StoreStep DEF IInv, PoolTypeOK, StoreInv
    <3>2. rec'[d] = rec[d]
      BY <2>2, <3>1, FinalStep
    <3>3. QED
      BY <1>2, <1>4, <2>2, <3>2 DEF Spent
  <2>3. ASSUME NEW p \in Executor, pc[p][d] \in {"run", "release"}
        PROVE  Spent(d)'
    <3>1. CASE Tick
      BY <2>3, <3>1 DEF Tick, Spent
    <3>2. CASE Work(p, d)
      <4>1. CASE pc[p][d] = "run"
        <5>1. AdapterReturns(p, d)
          BY <3>2, <4>1 DEF Work, ClaimDispatch, EvalGate, DenyRead, DenyWrite,
               ReadDispatch, MarkRunning, Materialize, Prepare, ReleaseDispatch
        <5>2. pc'[p][d] = "release"
          BY <1>1, <5>1 DEF AdapterReturns, ToRelease, Go
        <5>3. QED
          BY <5>2 DEF Spent
      <4>2. CASE pc[p][d] = "release"
        <5>1. ReleaseDispatch(p, d)
          BY <3>2, <4>2 DEF Work, ClaimDispatch, EvalGate, DenyRead, DenyWrite,
               ReadDispatch, MarkRunning, Materialize, Prepare, AdapterReturns
        <5>2. CanRelease(p, d)
          BY <4>2 DEF IInv, ClaimCovered, CanRelease, Holding
        <5>3. Release(p, d, out[p][d])
          BY <1>1, <1>4, <5>1, <5>2 DEF ReleaseDispatch, Fault
        <5>4. rec'[d].status \in Terminal
          BY <1>1, <5>3 DEF Release, Put, Unclaimed
        <5>5. QED
          BY <5>4 DEF Spent
      <4>3. QED
        BY <2>3, <4>1, <4>2
    <3>3. CASE ~ Tick /\ ~ Work(p, d)
      <4>1. ~ Deliver(p, d)
        BY <2>3 DEF Deliver
      <4>2. CASE pc'[p][d] = pc[p][d]
        BY <2>3, <4>2 DEF Spent
      <4>3. CASE pc'[p][d] # pc[p][d]
        <5>1. \E q \in Executor : Crash(q)
          BY <3>3, <4>1, <4>3, MovesAlone DEF IInv
        <5>2. QED
          BY <5>1, <1>1, <1>4 DEF Crash, Fault
      <4>4. QED
        BY <4>2, <4>3
    <3>4. QED
      BY <3>1, <3>2, <3>3
  <2>4. QED
    BY <1>1, <1>2, <1>4, <2>1, <2>2, <2>3 DEF Spent
<1>5. ASSUME NEW p \in Executor, NEW e \in Dispatch, Prepare(p, e), runs' # runs
      PROVE  /\ runs'[d] <= faults' + 1
             /\ runs'[d] <= faults' \/ Spent(d)'
  <2>1. /\ pc[p][e] = "prepare" /\ pc' = [pc EXCEPT ![p][e] = "run"]
        /\ runs' = [runs EXCEPT ![e] = @ + 1]
        /\ faults' = faults /\ rec' = rec
    BY <1>5 DEF Prepare, Go
  <2>2. CASE e = d
    <3>1. rec[d].holder = p /\ rec[d].status \in Held
      BY <2>1, <2>2, Constants
      DEF IInv, ClaimCovered, HeldIffLeased, Holding, Renewing
    <3>2. ~ Spent(d)
      <4>1. rec[d].status \notin Terminal
        BY <3>1 DEF Held, Terminal
      <4>2. ASSUME NEW q \in Executor, pc[q][d] \in {"run", "release"}
            PROVE  FALSE
        <5>1. rec[d].holder = q
          BY <4>2 DEF IInv, ClaimCovered, Holding, Renewing
        <5>2. QED
          BY <2>1, <2>2, <3>1, <4>2, <5>1
      <4>3. QED
        BY <4>1, <4>2 DEF Spent
    <3>3. pc'[p][d] = "run" /\ runs'[d] = runs[d] + 1
      BY <1>1, <2>1, <2>2
    <3>4. QED
      BY <1>1, <1>2, <2>1, <3>2, <3>3 DEF Spent
  <2>3. CASE e # d
    <3>1. runs'[d] = runs[d] /\ \A q \in Executor : pc'[q][d] = pc[q][d]
      BY <1>1, <2>1, <2>3
    <3>2. QED
      BY <1>1, <1>2, <2>1, <3>1 DEF Spent
  <2>4. QED
    BY <2>2, <2>3
<1>6. \/ faults' = faults + 1 /\ runs' = runs
      \/ faults' = faults /\ runs' = runs
      \/ \E p \in Executor, e \in Dispatch : Prepare(p, e) /\ runs' # runs
  <2>1. ASSUME NEW p \in Executor, NEW e \in Dispatch, Work(p, e)
        PROVE  \/ (faults' = faults + 1 \/ faults' = faults) /\ runs' = runs
               \/ faults' = faults /\ Prepare(p, e)
    <3>1. CASE Prepare(p, e)
      BY <3>1 DEF Prepare
    <3>2. CASE ClaimDispatch(p, e) \/ MarkRunning(p, e) \/ ReleaseDispatch(p, e)
      BY <3>2 DEF ClaimDispatch, MarkRunning, ReleaseDispatch, Fault
    <3>3. CASE \/ EvalGate(p, e) \/ DenyRead(p, e) \/ DenyWrite(p, e)
               \/ ReadDispatch(p, e) \/ Materialize(p, e) \/ AdapterReturns(p, e)
      BY <3>3 DEF EvalGate, DenyRead, DenyWrite, ReadDispatch, Materialize,
                  AdapterReturns
    <3>4. QED
      BY <2>1, <3>1, <3>2, <3>3 DEF Work
  <2>2. ASSUME NEW p \in Executor, NEW e \in Dispatch,
               Deliver(p, e) \/ RenewTick(p, e)
        PROVE  (faults' = faults + 1 \/ faults' = faults) /\ runs' = runs
    BY <2>2 DEF Deliver, RenewTick, Fault
  <2>3. ASSUME NEW e \in Dispatch, Queue(e) \/ ExpireLease(e)
        PROVE  faults' = faults /\ runs' = runs
    BY <2>3 DEF Queue, ExpireLease
  <2>4. ASSUME NEW p \in Executor, Crash(p)
        PROVE  faults' = faults + 1 /\ runs' = runs
    BY <2>4 DEF Crash, Fault
  <2>5. CASE Tick
    BY <2>5 DEF Tick
  <2>6. CASE UNCHANGED vars
    BY <2>6 DEF vars
  <2>7. QED
    BY <2>1, <2>2, <2>3, <2>4, <2>5, <2>6 DEF Next
<1>7. QED
  BY <1>3, <1>4, <1>5, <1>6

-----------------------------------------------------------------------------

\* The invariant holds initially and every step keeps it.
LEMMA IInvInductive == /\ Init => IInv
                       /\ MaxHold < Lease /\ IInv /\ [Next]_vars => IInv'
<1>1. ASSUME Init PROVE IInv
  <2>1. PoolTypeOK
    BY <1>1, Constants, ElapsedType, Names
    DEF Init, PoolTypeOK, StoreInit, StoreTypeOK, Blank
  <2>2. HeldIffLeased
    BY <1>1 DEF Init, StoreInit, HeldIffLeased, Unclaimed, Held
  <2>3. ClaimCovered /\ SnapFresh
    BY <1>1 DEF Init, ClaimCovered, SnapFresh, Holding, Setup, BeforeMark, Renewing
  <2>4. RunsPaid
    <3>1. faults = 0 /\ \A d \in Dispatch : runs[d] = 0
      BY <1>1 DEF Init
    <3>2. 0 <= 0 /\ 0 <= 0 + 1
      OBVIOUS
    <3>3. QED
      BY <3>1, <3>2, Zenon DEF RunsPaid
  <2>5. QED
    BY <2>1, <2>2, <2>3, <2>4 DEF IInv
<1>2. ASSUME MaxHold < Lease, IInv, [Next]_vars PROVE IInv'
  <2>1. PoolTypeOK'
    BY <1>2, TypeStep DEF IInv
  <2>2. HeldIffLeased'
    BY <1>2, StoreStep, StoreInvInductive DEF IInv, PoolTypeOK, StoreInv
  <2>3. ClaimCovered'
    BY <1>2, CoveredStep
  <2>4. SnapFresh' /\ RunsPaid'
    BY <1>2, SnapStep, RunsStep
  <2>5. QED
    BY <2>1, <2>2, <2>3, <2>4 DEF IInv
<1>3. QED
  BY <1>1, <1>2

\* The pool's variables keep their types, whatever the timing.
THEOREM PoolTypeCorrect == Spec => []PoolTypeOK
<1>1. Init => PoolTypeOK
  BY IInvInductive DEF IInv
<1>2. QED
  BY <1>1, TypeStep, PTL DEF Spec

\* The inductive invariant holds throughout when no claim outlives its
\* lease.
LEMMA PoolInvariant == ASSUME MaxHold < Lease PROVE Spec => []IInv
<1>1. Init => IInv
  BY IInvInductive
<1>2. IInv /\ [Next]_vars => IInv'
  BY IInvInductive
<1>3. QED
  BY <1>1, <1>2, PTL DEF Spec

\* At most one pool runs the adapter of a dispatch, for any number of
\* pools, dispatches, crashes and failed writes, provided that a worker
\* releases its claim within the lease.
THEOREM PoolNoDoubleRun == ASSUME MaxHold < Lease PROVE Spec => []NoDoubleRun
<1>1. IInv => NoDoubleRun
  BY DEF IInv, ClaimCovered, NoDoubleRun, Holding, Renewing
<1>2. QED
  BY <1>1, PoolInvariant, PTL

\* Under the same proviso a worker still holds the claim when it releases
\* it, so ReleaseDispatch never rejects an outcome.
THEOREM PoolOutcomeAccepted ==
    ASSUME MaxHold < Lease PROVE Spec => []OutcomeAccepted
<1>1. IInv => OutcomeAccepted
  BY DEF IInv, ClaimCovered, OutcomeAccepted, Holding, CanRelease
<1>2. QED
  BY <1>1, PoolInvariant, PTL

\* Under the same proviso a dispatch is run again only after a crash or a
\* failed write: one run for each, and one.
THEOREM PoolRerunNeedsFault ==
    ASSUME MaxHold < Lease PROVE Spec => []RerunNeedsFault
<1>1. IInv => RerunNeedsFault
  BY DEF IInv, RunsPaid, RerunNeedsFault
<1>2. QED
  BY <1>1, PoolInvariant, PTL

\* The pool, with its two unguarded whole-record writes, implements the
\* claim/lease contract of the store.
THEOREM PoolImplementsStore == ASSUME MaxHold < Lease PROVE Spec => StoreSpec
<1>1. Init => StoreInit
  BY DEF Init
<1>2. IInv /\ [Next]_vars => [StoreNext]_rec
  BY StoreStep
<1>3. QED
  BY <1>1, <1>2, PoolInvariant, PTL DEF Spec, StoreSpec

\* A dispatch the pools have finished is never taken up or changed again.
THEOREM PoolTerminalIsFinal ==
    ASSUME MaxHold < Lease PROVE Spec => TerminalIsFinal
BY PoolImplementsStore, StoreTerminalIsFinal

-----------------------------------------------------------------------------
(* HeadlessPool: detached agents                                           *)

Stations == Preparing \cup {"idle", "poll", "release", "closing", "gone"}
Lives    == Going \cup {"none", "spoke", "silent"}
MetaType == [status : {"pending", "claimed", "running"} \cup Outcomes,
             holder : Pools \cup {Nobody}]

HeadlessTypeOK ==
    /\ meta \in MetaType
    /\ at \in [Pools -> Stations]
    /\ read \in [Pools -> MetaType]
    /\ own \in [Pools -> Starts \cup {0}]
    /\ told \in [Pools -> Outcomes]
    /\ life \in [Starts -> Lives]
    /\ taken \in [Starts -> MetaType]
    /\ ends \in [Starts -> Outcomes]

\* A worker that is about to note the pid has started a supervisor.
OwnStarted ==
    \A p \in Pools : at[p] \in {"pid read", "pid write"} =>
        own[p] \in Starts /\ life[own[p]] # "none"

\* Somebody will have a word about the dispatch, or there is a mishap: a
\* supervisor that goes on, or a worker about to start one.
WordToCome ==
    \/ \E n \in Starts : life[n] \in Going
    \/ \E p \in Pools : at[p] = "spawn"

\* Once a supervisor has spoken, what takes the outcome from the record has
\* another one speak after it.
OutcomeOrWord ==
    ~ Mishap /\ (\E n \in Starts : life[n] = "spoke")
        => meta.status \in Outcomes \/ WordToCome

HeadlessInv == HeadlessTypeOK /\ OwnStarted /\ OutcomeOrWord

LEMMA HeadlessInitInv == HeadlessInit => HeadlessInv
BY DEF HeadlessInit, HeadlessInv, HeadlessTypeOK, OwnStarted, OutcomeOrWord,
   InQueue, MetaType, Stations, Lives, Outcomes, Preparing, Starts

LEMMA HeadlessTypeStep ==
    ASSUME HeadlessTypeOK, [HeadlessNext]_headlessvars
    PROVE  HeadlessTypeOK'
<1> USE DEF HeadlessTypeOK
<1>1. ASSUME NEW p \in Pools, ClaimPending(p) PROVE HeadlessTypeOK'
  BY <1>1 DEF ClaimPending, Step, supervisors, MetaType, Stations, Preparing
<1>2. ASSUME NEW p \in Pools, ReadClaimed(p) PROVE HeadlessTypeOK'
  BY <1>2, ZenonT(30) DEF ReadClaimed, Step, EndCall, supervisors, Stations, Preparing, Outcomes
<1>3. ASSUME NEW p \in Pools, MarkBeforeSpawn(p) PROVE HeadlessTypeOK'
  BY <1>3 DEF MarkBeforeSpawn, Step, supervisors, MetaType, Stations, Preparing
<1>4. ASSUME NEW p \in Pools, SpawnSupervisor(p) PROVE HeadlessTypeOK'
  <2>1. CASE \E n \in Starts : Live(n, "up") /\ own' = [own EXCEPT ![p] = n]
                 /\ Step(p, "pid read") /\ UNCHANGED <<meta, read, told, taken, ends>>
    <3>1. PICK n \in Starts : Live(n, "up") /\ own' = [own EXCEPT ![p] = n]
      BY <2>1
    <3>2. life' \in [Starts -> Lives] /\ own' \in [Pools -> Starts \cup {0}]
      BY <3>1 DEF Live, Lives, Going
    <3>3. at' \in [Pools -> Stations]
      BY <2>1 DEF Step, Stations, Preparing
    <3>4. QED
      BY <2>1, <3>2, <3>3
  <2>2. CASE EndCall(p, "failed") /\ UNCHANGED <<meta, read, own, life, taken, ends>>
    BY <2>2 DEF Step, EndCall, Stations, Outcomes
  <2>3. QED
    BY <1>4, <2>1, <2>2 DEF SpawnSupervisor
<1>5. ASSUME NEW p \in Pools, PidRead(p) PROVE HeadlessTypeOK'
  BY <1>5 DEF PidRead, Step, supervisors, Stations, Preparing
<1>6. ASSUME NEW p \in Pools, PidWrite(p) PROVE HeadlessTypeOK'
  BY <1>6 DEF PidWrite, Step, supervisors, Stations
<1>7. ASSUME NEW p \in Pools, PollToTerminal(p) \/ Shutdown(p) PROVE HeadlessTypeOK'
  BY <1>7 DEF PollToTerminal, Shutdown, EndCall, Step, supervisors, Stations, Outcomes
<1>8. ASSUME NEW p \in Pools, ReleaseClaim(p) PROVE HeadlessTypeOK'
  <2>1. read' \in [Pools -> MetaType] /\ own' \in [Pools -> Starts \cup {0}]
        /\ told' \in [Pools -> Outcomes]
    BY <1>8 DEF ReleaseClaim, Forget, InQueue, MetaType, Outcomes
  <2>2. QED
    BY <1>8, <2>1 DEF ReleaseClaim, Step, supervisors, Stations, MetaType
<1>9. ASSUME NEW p \in Pools, PoolDies(p) PROVE HeadlessTypeOK'
  BY <1>9 DEF PoolDies, Forget, Step, InQueue, MetaType, supervisors, Stations, Outcomes
<1>10. ASSUME NEW n \in Starts, SuperviseRead(n) \/ SuperviseStart(n)
       PROVE HeadlessTypeOK'
  <2>1. CASE SuperviseRead(n)
    <3>1. life' \in [Starts -> Lives]
      BY <2>1 DEF SuperviseRead, Live, Lives, Going
    <3>2. taken' \in [Starts -> MetaType]
      BY <2>1 DEF SuperviseRead
    <3>3. QED
      BY <2>1, <3>1, <3>2 DEF SuperviseRead, workers
  <2>2. CASE SuperviseStart(n)
    <3>1. life' \in [Starts -> Lives]
      BY <2>2 DEF SuperviseStart, Live, Lives, Going
    <3>2. CASE UNCHANGED <<taken, ends>>
      BY <2>2, <3>1, <3>2 DEF SuperviseStart, workers
    <3>3. CASE Ended(n)
      <4>1. taken' \in [Starts -> MetaType]
        BY <3>3 DEF Ended, InQueue, MetaType
      <4>2. ends' \in [Starts -> Outcomes]
        BY <3>3 DEF Ended, Outcomes
      <4>3. QED
        BY <2>2, <3>1, <4>1, <4>2 DEF SuperviseStart, workers
    <3>4. QED
      BY <2>2, <3>2, <3>3 DEF SuperviseStart
  <2>3. QED
    BY <1>10, <2>1, <2>2
<1>11. ASSUME NEW n \in Starts, AgentEnds(n) PROVE HeadlessTypeOK'
  BY <1>11 DEF AgentEnds, Live, workers, Lives, Going
<1>12. ASSUME NEW n \in Starts, SuperviseFinish(n) \/ SupervisorKilled(n)
       PROVE HeadlessTypeOK'
  BY <1>12 DEF SuperviseFinish, SupervisorKilled, Live, Ended, InQueue, MetaType,
     workers, Lives, Going, Outcomes
<1>13. CASE ExpireRunOut
  BY <1>13 DEF ExpireRunOut, workers, supervisors, MetaType
<1>14. CASE UNCHANGED headlessvars
  BY <1>14 DEF headlessvars, workers, supervisors
<1>15. QED
  BY <1>1, <1>2, <1>3, <1>4, <1>5, <1>6, <1>7, <1>8, <1>9, <1>10, <1>11, <1>12,
     <1>13, <1>14 DEF HeadlessNext, Working, Attending

\* A supervisor once started is never unstarted.
LEMMA OwnStep ==
    ASSUME HeadlessTypeOK, OwnStarted, [HeadlessNext]_headlessvars
    PROVE  OwnStarted'
<1> USE DEF HeadlessTypeOK, OwnStarted
<1>1. ASSUME NEW p \in Pools, SpawnSupervisor(p) PROVE OwnStarted'
  <2>1. CASE \E n \in Starts : Live(n, "up") /\ own' = [own EXCEPT ![p] = n]
                               /\ Step(p, "pid read")
    BY <2>1 DEF Step, Live
  <2>2. CASE EndCall(p, "failed") /\ UNCHANGED <<own, life>>
    BY <2>2 DEF Step, EndCall
  <2>3. QED
    BY <1>1, <2>1, <2>2 DEF SpawnSupervisor
<1>2. ASSUME NEW p \in Pools,
             \/ ClaimPending(p) \/ ReadClaimed(p) \/ MarkBeforeSpawn(p)
             \/ PidRead(p) \/ PidWrite(p) \/ PollToTerminal(p) \/ Shutdown(p)
      PROVE  OwnStarted'
  BY <1>2 DEF ClaimPending, ReadClaimed, MarkBeforeSpawn, PidRead, PidWrite,
     PollToTerminal, Shutdown, Step, EndCall, supervisors
<1>3. ASSUME NEW p \in Pools, ReleaseClaim(p) \/ PoolDies(p) PROVE OwnStarted'
  BY <1>3 DEF ReleaseClaim, PoolDies, Forget, Step, supervisors
<1>4. ASSUME NEW n \in Starts, Attending(n) \/ SupervisorKilled(n) PROVE OwnStarted'
  BY <1>4 DEF Attending, SuperviseRead, SuperviseStart, AgentEnds, SuperviseFinish,
     SupervisorKilled, Live, workers
<1>5. CASE ExpireRunOut \/ UNCHANGED headlessvars
  BY <1>5 DEF ExpireRunOut, headlessvars, workers, supervisors
<1>6. QED
  BY <1>1, <1>2, <1>3, <1>4, <1>5 DEF HeadlessNext, Working

\* A worker or a supervisor takes an outcome from the record only when another
\* supervisor is under way, or leaves a mishap.
LEMMA WordStep ==
    ASSUME HeadlessInv, [HeadlessNext]_headlessvars
    PROVE  OutcomeOrWord'
<1> USE DEF HeadlessTypeOK, OutcomeOrWord, WordToCome, Mishap
<1>0. HeadlessTypeOK /\ OwnStarted /\ OutcomeOrWord
  BY DEF HeadlessInv
<1>1. ASSUME NEW p \in Pools, ClaimPending(p) PROVE OutcomeOrWord'
  BY <1>0, <1>1 DEF ClaimPending, Step, supervisors, Outcomes
<1>2. ASSUME NEW p \in Pools, ReadClaimed(p) \/ PidRead(p) PROVE OutcomeOrWord'
  BY <1>0, <1>2 DEF ReadClaimed, PidRead, Step, EndCall, supervisors
<1>3. ASSUME NEW p \in Pools, MarkBeforeSpawn(p) PROVE OutcomeOrWord'
  BY <1>0, <1>3 DEF MarkBeforeSpawn, Step, supervisors
<1>4. ASSUME NEW p \in Pools, SpawnSupervisor(p) PROVE OutcomeOrWord'
  BY <1>0, <1>4 DEF SpawnSupervisor, Step, Live, Going
<1>5. ASSUME NEW p \in Pools, PidWrite(p) PROVE OutcomeOrWord'
  <2>1. own[p] \in Starts /\ life[own[p]] \in Going \cup {"spoke", "silent"}
    BY <1>0, <1>5 DEF OwnStarted, PidWrite, Lives
  <2>2. QED
    BY <1>0, <1>5, <2>1 DEF PidWrite, Step, supervisors
<1>6. ASSUME NEW p \in Pools, PollToTerminal(p) \/ Shutdown(p) PROVE OutcomeOrWord'
  BY <1>0, <1>6 DEF PollToTerminal, Shutdown, EndCall, Step, supervisors
<1>7. ASSUME NEW p \in Pools, ReleaseClaim(p) PROVE OutcomeOrWord'
  BY <1>0, <1>7 DEF ReleaseClaim, Step, supervisors, MetaType
<1>8. ASSUME NEW p \in Pools, PoolDies(p) PROVE OutcomeOrWord'
  BY <1>0, <1>8 DEF PoolDies, Step, supervisors
<1>9. ASSUME NEW n \in Starts, SuperviseRead(n) \/ SuperviseStart(n) \/ AgentEnds(n)
      PROVE  OutcomeOrWord'
  BY <1>0, <1>9 DEF SuperviseRead, SuperviseStart, AgentEnds, Live, workers, Going
<1>10. ASSUME NEW n \in Starts, SuperviseFinish(n) PROVE OutcomeOrWord'
  BY <1>0, <1>10 DEF SuperviseFinish, Live, workers, Going, MetaType
<1>11. ASSUME NEW n \in Starts, SupervisorKilled(n) PROVE OutcomeOrWord'
  BY <1>0, <1>11 DEF SupervisorKilled, Live, workers
<1>12. CASE ExpireRunOut
  BY <1>0, <1>12 DEF ExpireRunOut, workers, supervisors, Outcomes
<1>13. CASE UNCHANGED headlessvars
  BY <1>0, <1>13 DEF headlessvars, workers, supervisors
<1>14. QED
  BY <1>1, <1>2, <1>3, <1>4, <1>5, <1>6, <1>7, <1>8, <1>9, <1>10, <1>11, <1>12,
     <1>13 DEF HeadlessNext, Working, Attending

LEMMA HeadlessInvariant == HeadlessSpec => []HeadlessInv
<1>1. HeadlessInv /\ [HeadlessNext]_headlessvars => HeadlessInv'
  BY HeadlessTypeStep, OwnStep, WordStep DEF HeadlessInv
<1>2. QED
  BY <1>1, HeadlessInitInv, PTL DEF HeadlessSpec

\* The outcome of a detached agent outlives its pool, whatever leases run out
\* under it, for any number of pools, supervisors, crashes and signals.
THEOREM HeadlessOutcomeKept == HeadlessSpec => []OutcomeKept
<1>1. HeadlessInv => OutcomeKept
  BY DEF HeadlessInv, OutcomeOrWord, WordToCome, OutcomeKept, Quiet
<1>2. QED
  BY <1>1, HeadlessInvariant, PTL
=============================================================================
