--------------------------- MODULE TeeStoreProofs ---------------------------
(* The mirror of the tee store, for any number of processes, dispatches,   *)
(* crashes and failed statements, and any capacity of the queues.          *)
EXTENDS TeeStoreProperties, FiniteSetTheorems, LeaseStoreProofs

Late == Ops \cup {Nothing}

\* The outcomes a table shows are those of the records r.
OutcomesOf(r, t) ==
    \A d \in Dispatch :
        t.row[d].status \in Terminal => r[d].status = t.row[d].status

\* An operation that is applied late brings no outcome r does not have: a copy
\* of a record that was not finished, or a release that was accepted.
Sound(r, o) ==
    /\ o.op = "put" => o.r.status \notin Terminal
    /\ o.op = "release" => r[o.d].status = o.s

\* Everything that is on its way to the mirror is sound.
WaySound ==
    \A p \in Process :
        /\ \A d \in Dispatch : Sound(rec, mid[p][d])
        /\ \A i \in 1..Len(queue[p]) : Sound(rec, queue[p][i])

MirrorInv ==
    /\ TeeTypeOK
    /\ HeldIffLeased
    /\ WaySound
    /\ MirrorNeverInvents
-----------------------------------------------------------------------------

\* Each operation of the tee store is an operation of the authoritative
\* store, or leaves the records alone.
LEMMA TeeStoreStep == [TeeNext]_vars => [StoreNext]_rec
<1> SUFFICES ASSUME [TeeNext]_vars PROVE [StoreNext]_rec
  OBVIOUS
<1>1. ASSUME NEW d \in Dispatch,
             AllocDispatch(d) \/ QueueDispatch(d) \/ ExpireLeases(d)
      PROVE  [StoreNext]_rec
  BY <1>1 DEF AllocDispatch, QueueDispatch, ExpireLeases, StoreNext
<1>2. ASSUME NEW d \in Dispatch, NEW x \in Executor,
             \/ ClaimDispatch(x, d) \/ WriteReason(x, d) \/ WriteRunning(x, d)
             \/ RenewLease(x, d)
      PROVE  [StoreNext]_rec
  BY <1>2 DEF ClaimDispatch, WriteReason, WriteRunning, RenewLease, StoreNext
<1>3. ASSUME NEW d \in Dispatch, NEW x \in Executor, ReleaseDispatch(x, d)
      PROVE  [StoreNext]_rec
  BY <1>3, TeeStoreAssumption DEF ReleaseDispatch, Release, StoreNext
<1>4. ASSUME NEW p \in Process,
             \/ \E d \in Dispatch : Send(p, d)
             \/ Mirror(p) \/ Close(p) \/ Exit(p) \/ Crash(p)
      PROVE  [StoreNext]_rec
  BY <1>4 DEF Send, Mirror, Close, Exit, Crash
<1>5. CASE TimePasses
  BY <1>5 DEF TimePasses, StoreNext
<1>6. CASE UNCHANGED vars
  BY <1>6 DEF vars
<1>7. QED
  BY <1>1, <1>2, <1>3, <1>4, <1>5, <1>6 DEF TeeNext

\* The fields of the operations, of what stands for none, and of the rows.
LEMMA LateFacts ==
    /\ Nothing \in Late /\ Nothing \notin Ops
    /\ \A r : Sound(r, Nothing)
    /\ \A d \in Dispatch : [op |-> "alloc", d |-> d] \in Ops
    /\ \A d \in Dispatch, r \in Record : [op |-> "put", d |-> d, r |-> r] \in Ops
    /\ \A d \in Dispatch, x \in Executor :
        /\ [op |-> "claim", d |-> d, x |-> x] \in Ops
        /\ [op |-> "renew", d |-> d, x |-> x] \in Ops
    /\ \A d \in Dispatch, x \in Executor, s \in Terminal :
          [op |-> "release", d |-> d, x |-> x, s |-> s] \in Ops
<1>1. \A o \in Ops : o.op \in {"alloc", "put", "claim", "renew", "release"}
  BY DEF Ops
<1>2. Nothing \notin Ops
  BY <1>1 DEF Nothing
<1>3. QED
  BY <1>2 DEF Ops, Nothing, Late, Sound

\* What is sound stays sound, since a finished dispatch stays as it is.
LEMMA SoundKept ==
    ASSUME StoreInv, [StoreNext]_rec, NEW o \in Late, Sound(rec, o)
    PROVE  Sound(rec', o)
<1>1. CASE o.op = "release"
  <2>1. o.d \in Dispatch /\ o.s \in Terminal
    BY <1>1 DEF Late, Ops, Nothing
  <2>2. rec'[o.d] = rec[o.d]
    BY <1>1, <2>1, FinalStep DEF Sound
  <2>3. QED
    BY <1>1, <2>2 DEF Sound
<1>2. CASE o.op # "release"
  BY <1>2 DEF Sound
<1>3. QED
  BY <1>1, <1>2

\* Nor does a step of the authoritative store disown an outcome.
LEMMA OutcomesKept ==
    ASSUME StoreInv, [StoreNext]_rec, NEW t, OutcomesOf(rec, t)
    PROVE  OutcomesOf(rec', t)
BY FinalStep DEF OutcomesOf

\* The statements keep the table's type.
LEMMA TableKept ==
    ASSUME NEW t \in Table, NEW o \in Ops
    PROVE  Perform(t, o) \in Table
<1>1. /\ Placeholder \in Row
      /\ \A r \in Record : RowOf(r) \in Row
      /\ \A r \in Row, x \in Executor :
          /\ [r EXCEPT !.status = "claimed", !.holder = x, !.leased = TRUE] \in Row
          /\ [r EXCEPT !.leased = TRUE] \in Row
      /\ \A r \in Row, s \in Terminal :
          [r EXCEPT !.status = s, !.holder = None, !.leased = FALSE] \in Row
  BY DEF Placeholder, NoRow, Row, RowOf, Record, Status, Held, Terminal
<1>2. \A d \in Dispatch, r \in Row : SetRow(t, d, r) \in Table
  BY DEF SetRow, Table
<1>3. CASE o.op = "alloc"
  <2> DEFINE n   == t.seq + 1
             row == [d \in Dispatch |-> IF d = n /\ t.row[d] = NoRow
                                       THEN Placeholder ELSE t.row[d]]
  <2>1. n \in Nat
    BY DEF Table
  <2>2. row \in [Dispatch -> Row]
    BY <1>1 DEF Table
  <2>3. PgAlloc(t) = [t EXCEPT !.seq = n, !.row = row]
    BY DEF PgAlloc
  <2>4. QED
    BY <1>3, <2>1, <2>2, <2>3 DEF Perform, Table
<1>4. CASE o.op = "put"
  BY <1>1, <1>2, <1>4 DEF Perform, PgPut, Ops
<1>5. CASE o.op = "claim"
  <2>1. o.d \in Dispatch /\ o.x \in Executor /\ t.row[o.d] \in Row
    BY <1>5 DEF Ops, Table
  <2>2. QED
    BY <1>1, <1>2, <1>5, <2>1 DEF Perform, PgClaim
<1>6. CASE o.op = "renew"
  <2>1. o.d \in Dispatch /\ o.x \in Executor /\ t.row[o.d] \in Row
    BY <1>6 DEF Ops, Table
  <2>2. QED
    BY <1>1, <1>2, <1>6, <2>1 DEF Perform, PgRenew
<1>7. CASE o.op = "release"
  <2>1. o.d \in Dispatch /\ o.s \in Terminal /\ t.row[o.d] \in Row
    BY <1>7 DEF Ops, Table
  <2>2. QED
    BY <1>1, <1>2, <1>7, <2>1 DEF Perform, PgRelease
<1>8. QED
  BY <1>3, <1>4, <1>5, <1>6, <1>7 DEF Ops

\* A sound operation brings the mirror no outcome but the record's.
LEMMA PerformSound ==
    ASSUME NEW r, NEW t \in Table, NEW o \in Ops, Sound(r, o), OutcomesOf(r, t)
    PROVE  OutcomesOf(r, Perform(t, o))
<1> SUFFICES ASSUME NEW d \in Dispatch, Perform(t, o).row[d].status \in Terminal
             PROVE  r[d].status = Perform(t, o).row[d].status
  BY DEF OutcomesOf
<1>1. "pending" \notin Terminal /\ "claimed" \notin Terminal
  BY DEF Terminal
<1>2. t.row[d] \in Row /\ o.d \in Dispatch
  BY DEF Table, Ops
<1>3. CASE o.op = "alloc"
  BY <1>1, <1>2, <1>3 DEF Perform, PgAlloc, Placeholder, NoRow, OutcomesOf, Table
<1>4. CASE o.op = "put"
  BY <1>2, <1>4 DEF Perform, PgPut, SetRow, RowOf, Sound, OutcomesOf, Table
<1>5. CASE o.op = "claim"
  BY <1>1, <1>2, <1>5 DEF Perform, PgClaim, SetRow, OutcomesOf, Table, Row
<1>6. CASE o.op = "renew"
  BY <1>2, <1>6 DEF Perform, PgRenew, SetRow, OutcomesOf, Table, Row
<1>7. CASE o.op = "release"
  BY <1>2, <1>7 DEF Perform, PgRelease, SetRow, Sound, OutcomesOf, Table, Row
<1>8. QED
  BY <1>3, <1>4, <1>5, <1>6, <1>7 DEF Ops
-----------------------------------------------------------------------------

\* A call leaves one operation to be queued and nothing else new.
LEMMA ThenSets ==
    ASSUME mid \in [Process -> [Dispatch -> Late]], NEW p \in Process,
           NEW d \in Dispatch, NEW o, o \in Late, Then(p, d, o)
    PROVE  /\ mid' \in [Process -> [Dispatch -> Late]]
           /\ \A q \in Process, e \in Dispatch : mid'[q][e] \in {o, mid[q][e]}
BY DEF Then

\* The history keeps its type.
LEMMA NoteSets ==
    ASSUME NEW W, apart \in [Dispatch -> SUBSET W],
           NEW D, NEW why \in W, Note(D, why)
    PROVE  apart' \in [Dispatch -> SUBSET W]
BY DEF Note

\* A call of a store operation for the dispatch d.
Call(d) ==
    \/ AllocDispatch(d)
    \/ QueueDispatch(d)
    \/ \E x \in Executor :
        \/ ClaimDispatch(x, d)
        \/ WriteReason(x, d)
        \/ WriteRunning(x, d)
        \/ RenewLease(x, d)
        \/ ReleaseDispatch(x, d)

\* The calls: each puts one well-typed operation on its way, and what it puts
\* there is sound.
LEMMA CallStep ==
    ASSUME TeeTypeOK, StoreTypeOK',
           NEW d \in Dispatch, Call(d)
    PROVE  \E p \in Process, o \in Ops : Then(p, d, o) /\ Sound(rec', o)
<1> DEFINE Made == \E p \in Process, o \in Ops : Then(p, d, o) /\ Sound(rec', o)
<1>1. d \in Process /\ Executor \subseteq Process
  BY DEF Process
<1>2. rec[d] \in Record /\ rec'[d] \in Record
  BY DEF TeeTypeOK, StoreTypeOK
<1>3. CASE AllocDispatch(d)
  BY <1>1, <1>3, LateFacts DEF AllocDispatch, Sound
<1>4. CASE QueueDispatch(d)
  <2>1. rec'[d].status \notin Terminal
    BY <1>4 DEF QueueDispatch, Enqueue, Put, Unclaimed, Terminal, TeeTypeOK,
                StoreTypeOK
  <2>2. QED
    BY <1>1, <1>2, <1>4, <2>1, LateFacts DEF QueueDispatch, Sound
<1>5. ASSUME NEW x \in Executor, ClaimDispatch(x, d) PROVE Made
  BY <1>1, <1>5, LateFacts DEF ClaimDispatch, Sound
<1>6. ASSUME NEW x \in Executor, WriteReason(x, d) PROVE Made
  <2>1. rec[d].status \notin Terminal
    BY <1>6 DEF WriteReason, CanRenew, Terminal
  <2>2. QED
    BY <1>1, <1>2, <1>6, <2>1, LateFacts DEF WriteReason, Sound
<1>7. ASSUME NEW x \in Executor, WriteRunning(x, d) PROVE Made
  <2>1. rec'[d].status \notin Terminal
    BY <1>7 DEF WriteRunning, Start, Put, Terminal, TeeTypeOK, StoreTypeOK, Record
  <2>2. QED
    BY <1>1, <1>2, <1>7, <2>1, LateFacts DEF WriteRunning, Sound
<1>8. ASSUME NEW x \in Executor, RenewLease(x, d) PROVE Made
  BY <1>1, <1>8, LateFacts DEF RenewLease, Sound
<1>9. ASSUME NEW x \in Executor, ReleaseDispatch(x, d) PROVE Made
  <2>1. PICK s \in Outcomes :
          /\ Release(x, d, s)
          /\ Then(x, d, [op |-> "release", d |-> d, x |-> x, s |-> s])
    BY <1>9 DEF ReleaseDispatch
  <2>2. s \in Terminal /\ rec'[d].status = s
    BY <2>1 DEF Release, Put, Unclaimed, TeeTypeOK, StoreTypeOK
  <2>3. QED
    BY <1>1, <2>1, <2>2, LateFacts DEF Sound
<1>10. QED
  BY <1>3, <1>4, <1>5, <1>6, <1>7, <1>8, <1>9 DEF Call

\* The steps of the calls, of the queue and of the processes keep the types.
LEMMA TeeTypeStep ==
    ASSUME TeeTypeOK, StoreTypeOK', [TeeNext]_vars
    PROVE  TeeTypeOK'
<1> DEFINE Why == {"lost", "requeued", "overtaken"}
<1>1. /\ mid \in [Process -> [Dispatch -> Late]]
      /\ apart \in [Dispatch -> SUBSET Why]
      /\ queue \in [Process -> Seq(Ops)]
      /\ QueueCap \in Nat /\ QueueCap > 0 /\ MaxFaults \in Nat /\ MaxRepeats \in Nat
  BY TeeStoreAssumption DEF TeeTypeOK, Late
<1>2. ASSUME NEW d \in Dispatch, Call(d) PROVE TeeTypeOK'
  <2>1. mid' \in [Process -> [Dispatch -> Late]]
    BY <1>1, <1>2, CallStep, ThenSets DEF Late
  <2>2. apart' \in [Dispatch -> SUBSET Why]
    BY <1>1, <1>2, NoteSets
    DEF Call, AllocDispatch, QueueDispatch, ClaimDispatch, WriteReason,
        WriteRunning, RenewLease, ReleaseDispatch
  <2>3. UNCHANGED <<pg, queue, proc, faults>>
    BY <1>2
    DEF Call, AllocDispatch, QueueDispatch, ClaimDispatch, WriteReason,
        WriteRunning, RenewLease, ReleaseDispatch
  <2>4. stage' \in [Dispatch -> {"new", "allocated", "queued"}]
    BY <1>2
    DEF Call, AllocDispatch, QueueDispatch, ClaimDispatch, WriteReason,
        WriteRunning, RenewLease, ReleaseDispatch, TeeTypeOK
  <2>5. UNCHANGED repeats \/ Repeat
    BY <1>2
    DEF Call, AllocDispatch, QueueDispatch, ClaimDispatch, WriteReason,
        WriteRunning, RenewLease, ReleaseDispatch
  <2>6. repeats' \in 0..MaxRepeats
    BY <1>1, <2>5 DEF Repeat, TeeTypeOK
  <2>7. QED
    BY <2>1, <2>2, <2>3, <2>4, <2>6 DEF TeeTypeOK, Late
<1>3. ASSUME NEW d \in Dispatch, ExpireLeases(d) PROVE TeeTypeOK'
  <2>1. apart' \in [Dispatch -> SUBSET Why]
    BY <1>1, <1>3, NoteSets DEF ExpireLeases
  <2>2. QED
    BY <1>1, <1>3, <2>1 DEF ExpireLeases, Repeat, TeeTypeOK
<1>4. ASSUME NEW p \in Process, NEW d \in Dispatch, Send(p, d) PROVE TeeTypeOK'
  <2>1. mid' \in [Process -> [Dispatch -> Late]]
    BY <1>1, <1>4, LateFacts, ThenSets DEF Send
  <2>2. mid[p][d] \in Ops
    BY <1>1, <1>4 DEF Send, Late
  <2>3. /\ queue' \in [Process -> Seq(Ops)]
        /\ \A q \in Process : Len(queue'[q]) <= QueueCap
        /\ apart' \in [Dispatch -> SUBSET Why]
    <3>1. CASE Len(queue[p]) < QueueCap /\ UNCHANGED apart
      <4>1. queue' = [queue EXCEPT ![p] = Append(@, mid[p][d])]
        BY <1>4, <3>1 DEF Send
      <4>2. Append(queue[p], mid[p][d]) \in Seq(Ops)
        BY <1>1, <2>2
      <4>3. Len(Append(queue[p], mid[p][d])) <= QueueCap
        BY <1>1, <2>2, <3>1
      <4>4. QED
        BY <1>1, <3>1, <4>1, <4>2, <4>3 DEF TeeTypeOK
    <3>2. CASE UNCHANGED queue
      BY <1>1, <1>4, <3>2, NoteSets DEF Send, TeeTypeOK
    <3>3. QED
      BY <1>4, <3>1, <3>2 DEF Send
  <2>4. QED
    BY <1>4, <2>1, <2>3 DEF Send, TeeTypeOK, Late
<1>5. ASSUME NEW p \in Process, Mirror(p) PROVE TeeTypeOK'
  <2>1. /\ queue[p] \in Seq(Ops) /\ queue[p] # <<>>
        /\ queue' = [queue EXCEPT ![p] = Tail(@)]
    BY <1>1, <1>5 DEF Mirror
  <2>2. Head(queue[p]) \in Ops /\ Tail(queue[p]) \in Seq(Ops)
    BY <2>1
  <2>3. Len(Tail(queue[p])) <= QueueCap
    BY <1>1, <2>1 DEF TeeTypeOK
  <2>4. pg' \in Table
    BY <1>5, <2>2, TableKept DEF Mirror, TeeTypeOK
  <2>5. apart' \in [Dispatch -> SUBSET Why] /\ faults' \in 0..MaxFaults
    <3>1. CASE UNCHANGED <<apart, faults>>
      BY <1>1, <3>1 DEF TeeTypeOK
    <3>2. ASSUME NEW D, Note(D, "lost"), Fault
          PROVE  apart' \in [Dispatch -> SUBSET Why] /\ faults' \in 0..MaxFaults
      <4>1. apart' \in [Dispatch -> SUBSET Why]
        BY <1>1, <3>2, NoteSets
      <4>2. faults' \in 0..MaxFaults
        BY <1>1, <3>2 DEF Fault, TeeTypeOK
      <4>3. QED
        BY <4>1, <4>2
    <3>3. QED
      BY <1>5, <3>1, <3>2 DEF Mirror
  <2>6. /\ queue' \in [Process -> Seq(Ops)]
        /\ \A q \in Process : Len(queue'[q]) <= QueueCap
    BY <1>1, <2>1, <2>2, <2>3 DEF TeeTypeOK
  <2>7. QED
    BY <1>5, <2>4, <2>5, <2>6 DEF Mirror, TeeTypeOK
<1>6. ASSUME NEW p \in Process, Close(p) \/ Exit(p) PROVE TeeTypeOK'
  BY <1>6 DEF Close, Exit, TeeTypeOK
<1>7. ASSUME NEW p \in Process, Crash(p) PROVE TeeTypeOK'
  <2>1. apart' \in [Dispatch -> SUBSET Why]
    BY <1>1, <1>7, NoteSets DEF Crash
  <2>2. mid' \in [Process -> [Dispatch -> Late]]
    BY <1>1, <1>7, LateFacts DEF Crash
  <2>3. <<>> \in Seq(Ops) /\ Len(<<>>) <= QueueCap
    BY <1>1
  <2>4. /\ queue' \in [Process -> Seq(Ops)]
        /\ \A q \in Process : Len(queue'[q]) <= QueueCap
    BY <1>1, <1>7, <2>3 DEF Crash, TeeTypeOK
  <2>5. QED
    BY <1>1, <1>7, <2>1, <2>2, <2>4 DEF Crash, Fault, TeeTypeOK, Late
<1>8. CASE TimePasses
  BY <1>8 DEF TimePasses, TeeTypeOK
<1>9. CASE UNCHANGED vars
  BY <1>9 DEF vars, TeeTypeOK
<1>10. QED
  BY <1>2, <1>3, <1>4, <1>5, <1>6, <1>7, <1>8, <1>9 DEF TeeNext, Call

-----------------------------------------------------------------------------

\* The way stays sound if nothing is put on it but sound operations, and
\* nothing in the queues but what was on the way.
LEMMA WayKept ==
    ASSUME TeeTypeOK, TeeTypeOK', StoreInv, [StoreNext]_rec, WaySound,
           \A p \in Process, d \in Dispatch :
               mid'[p][d] = mid[p][d] \/ Sound(rec', mid'[p][d]),
           \A p \in Process : \A i \in 1..Len(queue'[p]) :
               \/ \E j \in 1..Len(queue[p]) : queue'[p][i] = queue[p][j]
               \/ \E d \in Dispatch : queue'[p][i] = mid[p][d]
    PROVE  WaySound'
<1>1. ASSUME NEW p \in Process, NEW d \in Dispatch
      PROVE  mid[p][d] \in Late /\ Sound(rec', mid[p][d])
  <2>1. mid[p][d] \in Late /\ Sound(rec, mid[p][d])
    BY DEF TeeTypeOK, Late, WaySound
  <2>2. QED
    BY <2>1, SoundKept
<1>2. ASSUME NEW p \in Process, NEW j \in 1..Len(queue[p])
      PROVE  Sound(rec', queue[p][j])
  <2>1. queue[p] \in Seq(Ops)
    BY DEF TeeTypeOK
  <2>2. queue[p][j] \in Late /\ Sound(rec, queue[p][j])
    BY <2>1 DEF Late, WaySound
  <2>3. QED
    BY <2>2, SoundKept
<1>3. ASSUME NEW p \in Process
      PROVE  /\ \A d \in Dispatch : Sound(rec', mid'[p][d])
             /\ \A i \in 1..Len(queue'[p]) : Sound(rec', queue'[p][i])
  <2>1. ASSUME NEW d \in Dispatch PROVE Sound(rec', mid'[p][d])
    <3>1. CASE mid'[p][d] = mid[p][d]
      BY <1>1, <3>1
    <3>2. QED
      BY <3>1
  <2>2. ASSUME NEW i \in 1..Len(queue'[p]) PROVE Sound(rec', queue'[p][i])
    BY <1>1, <1>2
  <2>3. QED
    BY <2>1, <2>2
<1>4. QED
  BY <1>3 DEF WaySound

\* Every step puts on the way, and takes from it, as WayKept asks.
LEMMA WayStep ==
    ASSUME MirrorInv, TeeTypeOK', [TeeNext]_vars
    PROVE  WaySound'
<1> DEFINE MidKept   == \A p \in Process, d \in Dispatch :
                          mid'[p][d] = mid[p][d] \/ Sound(rec', mid'[p][d])
           FromWay(p) == \A i \in 1..Len(queue'[p]) :
               \/ \E j \in 1..Len(queue[p]) : queue'[p][i] = queue[p][j]
               \/ \E d \in Dispatch : queue'[p][i] = mid[p][d]
<1>1. /\ StoreInv /\ [StoreNext]_rec /\ StoreTypeOK'
      /\ mid \in [Process -> [Dispatch -> Late]]
      /\ queue \in [Process -> Seq(Ops)]
  BY TeeStoreStep DEF MirrorInv, TeeTypeOK, StoreInv, Late
<1>2. (queue' = queue) => \A p \in Process : FromWay(p)
  OBVIOUS
<1>3. ASSUME NEW d \in Dispatch, Call(d) PROVE MidKept /\ queue' = queue
  <2>1. queue' = queue
    BY <1>3
    DEF Call, AllocDispatch, QueueDispatch, ClaimDispatch, WriteReason,
        WriteRunning, RenewLease, ReleaseDispatch
  <2>2. PICK p \in Process, o \in Ops : Then(p, d, o) /\ Sound(rec', o)
    BY <1>1, <1>3, CallStep DEF MirrorInv
  <2>3. \A q \in Process, e \in Dispatch : mid'[q][e] \in {o, mid[q][e]}
    BY <1>1, <2>2, ThenSets DEF Late
  <2>4. QED
    BY <2>1, <2>2, <2>3
<1>4. ASSUME NEW p \in Process, NEW d \in Dispatch, Send(p, d)
      PROVE  MidKept /\ \A q \in Process : FromWay(q)
  <2>1. MidKept
    BY <1>1, <1>4, LateFacts, ThenSets DEF Send
  <2>2. CASE queue' = [queue EXCEPT ![p] = Append(@, mid[p][d])]
    <3>1. mid[p][d] \in Ops /\ queue[p] \in Seq(Ops)
      BY <1>1, <1>4 DEF Send, Late
    <3>2. ASSUME NEW i \in 1..Len(queue'[p])
          PROVE  \/ i \in 1..Len(queue[p]) /\ queue'[p][i] = queue[p][i]
                 \/ queue'[p][i] = mid[p][d]
      BY <1>1, <2>2, <3>1, <3>2
    <3>3. FromWay(p)
      BY <3>2
    <3>4. \A q \in Process \ {p} : FromWay(q)
      BY <1>1, <2>2
    <3>5. QED
      BY <2>1, <3>3, <3>4
  <2>3. CASE UNCHANGED queue
    BY <1>2, <2>1, <2>3
  <2>4. QED
    BY <1>4, <2>2, <2>3 DEF Send
<1>5. ASSUME NEW p \in Process, Mirror(p)
      PROVE  MidKept /\ \A q \in Process : FromWay(q)
  <2>1. /\ queue[p] \in Seq(Ops) /\ queue[p] # <<>>
        /\ queue' = [queue EXCEPT ![p] = Tail(@)]
        /\ UNCHANGED mid
    BY <1>1, <1>5 DEF Mirror
  <2>2. ASSUME NEW i \in 1..Len(queue'[p])
        PROVE  i + 1 \in 1..Len(queue[p]) /\ queue'[p][i] = queue[p][i + 1]
    BY <1>1, <2>1, <2>2
  <2>3. FromWay(p)
    BY <2>2
  <2>4. \A q \in Process \ {p} : FromWay(q)
    BY <1>1, <2>1
  <2>5. QED
    BY <2>1, <2>3, <2>4
<1>6. ASSUME NEW p \in Process, Crash(p)
      PROVE  MidKept /\ \A q \in Process : FromWay(q)
  BY <1>1, <1>6, LateFacts DEF Crash
<1>7. ASSUME \/ \E d \in Dispatch : ExpireLeases(d)
             \/ \E p \in Process : Close(p) \/ Exit(p)
             \/ TimePasses \/ UNCHANGED vars
      PROVE  MidKept /\ queue' = queue
  BY <1>7 DEF ExpireLeases, Close, Exit, TimePasses, vars
<1>8. MidKept /\ \A q \in Process : FromWay(q)
  BY <1>2, <1>3, <1>4, <1>5, <1>6, <1>7 DEF TeeNext, Call
<1>9. QED
  BY <1>1, <1>8, WayKept DEF MirrorInv

\* The invariant holds at first and in every step.
LEMMA MirrorInvInductive ==
    /\ TeeInit => MirrorInv
    /\ MirrorInv /\ [TeeNext]_vars => MirrorInv'
<1>1. ASSUME TeeInit PROVE MirrorInv
  <2>1. StoreTypeOK /\ HeldIffLeased
    BY <1>1, StoreStarts DEF TeeInit, StoreInv
  <2>2. EmptyTable \in Table
    BY DEF EmptyTable, Table, NoRow, Row, Status
  <2>3. TeeTypeOK
    BY <1>1, <2>1, <2>2, TeeStoreAssumption DEF TeeInit, TeeTypeOK
  <2>4. WaySound
    BY <1>1, LateFacts DEF TeeInit, WaySound
  <2>5. MirrorNeverInvents
    BY <1>1 DEF TeeInit, MirrorNeverInvents, EmptyTable, NoRow, Terminal
  <2>6. QED
    BY <2>1, <2>3, <2>4, <2>5 DEF MirrorInv
<1>2. ASSUME MirrorInv, [TeeNext]_vars PROVE MirrorInv'
  <2>1. StoreInv /\ [StoreNext]_rec
    BY <1>2, TeeStoreStep DEF MirrorInv, TeeTypeOK, StoreInv
  <2>2. StoreTypeOK' /\ HeldIffLeased'
    BY <2>1, StoreInvInductive DEF StoreInv
  <2>3. TeeTypeOK'
    BY <1>2, <2>2, TeeTypeStep DEF MirrorInv
  <2>4. WaySound'
    BY <1>2, <2>3, WayStep
  <2>5. OutcomesOf(rec, pg')
    <3>1. OutcomesOf(rec, pg)
      BY <1>2 DEF MirrorInv, MirrorNeverInvents, OutcomesOf
    <3>2. ASSUME NEW p \in Process, Mirror(p) PROVE OutcomesOf(rec, pg')
      <4>1. queue[p] \in Seq(Ops) /\ queue[p] # <<>> /\ pg \in Table
        BY <1>2, <3>2 DEF Mirror, MirrorInv, TeeTypeOK
      <4>2. Head(queue[p]) \in Ops /\ Sound(rec, Head(queue[p]))
        BY <1>2, <4>1 DEF MirrorInv, WaySound
      <4>3. OutcomesOf(rec, Perform(pg, Head(queue[p])))
        BY <3>1, <4>1, <4>2, PerformSound
      <4>4. QED
        BY <3>1, <3>2, <4>3 DEF Mirror
    <3>3. ASSUME NEW d \in Dispatch, Call(d) PROVE pg' = pg
      BY <3>3
      DEF Call, AllocDispatch, QueueDispatch, ClaimDispatch, WriteReason,
          WriteRunning, RenewLease, ReleaseDispatch
    <3>4. ASSUME \/ \E d \in Dispatch : ExpireLeases(d)
                 \/ \E p \in Process, d \in Dispatch : Send(p, d)
                 \/ \E p \in Process : Close(p) \/ Exit(p) \/ Crash(p)
                 \/ TimePasses \/ UNCHANGED vars
          PROVE  pg' = pg
      BY <3>4 DEF ExpireLeases, Send, Close, Exit, Crash, TimePasses, vars
    <3>5. QED
      BY <1>2, <3>1, <3>2, <3>3, <3>4 DEF TeeNext, Call
  <2>6. OutcomesOf(rec', pg')
    BY <2>1, <2>5, OutcomesKept
  <2>7. QED
    BY <2>2, <2>3, <2>4, <2>6 DEF MirrorInv, MirrorNeverInvents, OutcomesOf
<1>3. QED
  BY <1>1, <1>2

\* The variables of the tee store keep their types: no queue grows beyond its
\* capacity, whatever the callers and the mirror do.
THEOREM TeeTypeCorrect == TeeSpec => []TeeTypeOK
BY MirrorInvInductive, PTL DEF TeeSpec, MirrorInv

\* However many operations are dropped, lost, late or overtaken, the mirror
\* shows a dispatch as finished only if the file store has that outcome.
THEOREM MirrorInventsNothing == TeeSpec => []MirrorNeverInvents
BY MirrorInvInductive, PTL DEF TeeSpec, MirrorInv

-----------------------------------------------------------------------------
(* The mirror's numbers: each row it fills in is of an allocated dispatch. *)

\* The alloc of dispatch d has not reached the mirror yet.
Owed(d) ==
    \/ mid[d][d].op = "alloc"
    \/ \E i \in 1..Len(queue[d]) : queue[d][i].op = "alloc"

\* The dispatches whose alloc was applied, or lost.
Served == {d \in Allocated : ~ Owed(d)}

\* Each dispatch has one alloc, from its requester.
OneAlloc ==
    \A p \in Process :
        /\ \A d \in Dispatch : mid[p][d].op = "alloc" => p = d /\ d \in Allocated
        /\ \A i \in 1..Len(queue[p]) : queue[p][i].op = "alloc" =>
            /\ p \in Allocated /\ mid[p][p].op # "alloc"
            /\ \A j \in 1..Len(queue[p]) : queue[p][j].op = "alloc" => i = j

\* Records exist, and copies of them are on their way, of allocated dispatches.
PutsAllocated ==
    /\ \A d \in Dispatch : rec[d].status # "absent" => d \in Allocated
    /\ \A p \in Process :
        /\ \A d \in Dispatch : mid[p][d].op = "put" => mid[p][d].d \in Allocated
        /\ \A i \in 1..Len(queue[p]) :
            queue[p][i].op = "put" => queue[p][i].d \in Allocated

\* The file store numbers without gaps, and the mirror no further than the
\* allocs it has been sent.
Numbered ==
    /\ \A d \in Allocated, e \in Dispatch : e < d => e \in Allocated
    /\ IsFiniteSet(Allocated)
    /\ pg.seq <= Cardinality(Served)

RowsKnown == \A d \in Dispatch : pg.row[d] # NoRow => d \in Allocated

AllocInv == OneAlloc /\ PutsAllocated /\ Numbered /\ RowsKnown

LEMMA ServedGrows ==
    ASSUME Numbered, IsFiniteSet(Allocated'), Served \subseteq Served',
           pg'.seq = pg.seq, pg.seq \in Nat
    PROVE  pg'.seq <= Cardinality(Served')
<1>1. Served \subseteq Allocated /\ Served' \subseteq Allocated'
  BY DEF Served
<1>2. IsFiniteSet(Served) /\ IsFiniteSet(Served')
  BY <1>1, FS_Subset DEF Numbered
<1>3. Cardinality(Served) <= Cardinality(Served')
  BY <1>2, FS_Subset
<1>4. Cardinality(Served) \in Nat /\ Cardinality(Served') \in Nat
  BY <1>2, FS_CardinalityType
<1>5. QED
  BY <1>3, <1>4 DEF Numbered

\* The number the mirror gives out next is that of an allocated dispatch, if
\* it is that of a dispatch at all.
LEMMA NumberIsAllocated ==
    ASSUME Numbered, NEW n \in Dispatch, n <= Cardinality(Allocated)
    PROVE  n \in Allocated
<1> SUFFICES ASSUME n \notin Allocated PROVE FALSE
  OBVIOUS
<1>1. n \in Nat \ {0} /\ Allocated \subseteq Nat \ {0}
  BY PgStoreAssumption DEF Allocated
<1>2. \A d \in Allocated : d < n
  BY <1>1 DEF Numbered
<1>3. Allocated \subseteq 1..(n - 1)
  BY <1>1, <1>2
<1>4. IsFiniteSet(1..(n - 1)) /\ Cardinality(1..(n - 1)) = n - 1
  BY <1>1, FS_Interval
<1>5. Cardinality(Allocated) <= n - 1
  BY <1>3, <1>4, FS_Subset
<1>6. Cardinality(Allocated) \in Nat
  BY FS_CardinalityType DEF Numbered
<1>7. QED
  BY <1>1, <1>5, <1>6

LEMMA AllocInit == TeeInit => AllocInv
<1> SUFFICES ASSUME TeeInit PROVE AllocInv
  OBVIOUS
<1>1. Allocated = {} /\ Served = {}
  BY DEF TeeInit, Allocated, Served
<1>2. OneAlloc /\ PutsAllocated
  BY DEF TeeInit, StoreInit, Unclaimed, OneAlloc, PutsAllocated, Nothing
<1>3. Numbered
  BY <1>1, FS_EmptySet DEF TeeInit, Numbered, EmptyTable
<1>4. RowsKnown
  BY DEF TeeInit, RowsKnown, EmptyTable
<1>5. QED
  BY <1>2, <1>3, <1>4 DEF AllocInv

\* A requester allocates its dispatch, whose alloc is then owed.
LEMMA AllocKeeps ==
    ASSUME TeeTypeOK, AllocInv, NEW d \in Dispatch, AllocDispatch(d)
    PROVE  AllocInv'
<1> DEFINE o == [op |-> "alloc", d |-> d]
<1>1. /\ stage[d] = "new" /\ stage' = [stage EXCEPT ![d] = "allocated"]
      /\ mid[d][d] = Nothing /\ mid' = [mid EXCEPT ![d][d] = o]
      /\ \A e \in Dispatch : e < d => stage[e] # "new"
      /\ UNCHANGED <<rec, pg, queue>>
  BY DEF AllocDispatch, Ready, Then
<1>2. OneAlloc /\ PutsAllocated /\ Numbered /\ RowsKnown
  BY DEF AllocInv
<1>3. /\ d \in Process /\ stage \in [Dispatch -> {"new", "allocated", "queued"}]
      /\ mid \in [Process -> [Dispatch -> Late]]
  BY DEF Process, TeeTypeOK, Late
<1>4. Allocated' = Allocated \cup {d} /\ d \notin Allocated
  BY <1>1, <1>3 DEF Allocated
<1>5. \A p \in Process, e \in Dispatch :
        mid'[p][e] = IF p = d /\ e = d THEN o ELSE mid[p][e]
  BY <1>1, <1>3
<1>6. OneAlloc'
  <2>1. \A i \in 1..Len(queue[d]) : queue[d][i].op # "alloc"
    BY <1>2, <1>3, <1>4 DEF OneAlloc
  <2>2. QED
    BY <1>1, <1>2, <1>4, <1>5, <2>1 DEF OneAlloc
<1>7. PutsAllocated'
  BY <1>1, <1>2, <1>4, <1>5 DEF PutsAllocated
<1>8. Numbered'
  <2>1. \A e \in Allocated', f \in Dispatch : f < e => f \in Allocated'
    BY <1>1, <1>2, <1>4 DEF Numbered, Allocated
  <2>2. IsFiniteSet(Allocated')
    BY <1>2, <1>4, FS_AddElement DEF Numbered
  <2>3. Served \subseteq Served'
    <3>1. \A e \in Allocated : ~ Owed(e) => ~ Owed(e)'
      BY <1>1, <1>4, <1>5 DEF Owed, Allocated, Process
    <3>2. QED
      BY <1>4, <3>1 DEF Served
  <2>4. pg'.seq <= Cardinality(Served')
    BY <1>1, <1>2, <2>2, <2>3, ServedGrows DEF TeeTypeOK, Table
  <2>5. QED
    BY <2>1, <2>2, <2>4 DEF Numbered
<1>9. RowsKnown'
  BY <1>1, <1>2, <1>4 DEF RowsKnown
<1>10. QED
  BY <1>6, <1>7, <1>8, <1>9 DEF AllocInv

\* A step that neither allocates nor touches the queues and the mirror.
LEMMA QuietKeeps ==
    ASSUME TeeTypeOK, AllocInv, Allocated' = Allocated, UNCHANGED <<queue, pg>>,
           \A e \in Dispatch : rec'[e].status # "absent" => e \in Allocated,
           \A p \in Process, e \in Dispatch :
                \/ mid'[p][e] = mid[p][e]
                \/ /\ mid[p][e] = Nothing /\ mid'[p][e].op # "alloc"
                   /\ mid'[p][e].op = "put" => mid'[p][e].d \in Allocated
    PROVE  AllocInv'
<1>1. OneAlloc /\ PutsAllocated /\ Numbered /\ RowsKnown
  BY DEF AllocInv
<1>2. \A p \in Process, e \in Dispatch :
        mid'[p][e].op = "alloc" <=> mid[p][e].op = "alloc"
  BY DEF Nothing
<1>3. Dispatch \subseteq Process /\ Allocated \subseteq Dispatch
  BY DEF Process, Allocated
<1>4. OneAlloc'
  BY <1>1, <1>2, <1>3 DEF OneAlloc
<1>5. PutsAllocated'
  BY <1>1 DEF PutsAllocated
<1>6. Served' = Served
  <2>1. \A e \in Allocated : Owed(e)' = Owed(e)
    BY <1>2, <1>3 DEF Owed
  <2>2. QED
    BY <2>1 DEF Served
<1>7. Numbered' /\ RowsKnown'
  BY <1>1, <1>6 DEF Numbered, RowsKnown
<1>8. QED
  BY <1>4, <1>5, <1>7 DEF AllocInv

LEMMA CallKeeps ==
    ASSUME TeeTypeOK, HeldIffLeased, AllocInv, NEW d \in Dispatch,
           Call(d), ~ AllocDispatch(d)
    PROVE  AllocInv'
<1>1. /\ rec \in [Dispatch -> Record] /\ mid \in [Process -> [Dispatch -> Late]]
      /\ stage \in [Dispatch -> {"new", "allocated", "queued"}]
      /\ d \in Process /\ Executor \subseteq Process
      /\ \A e \in Dispatch : rec[e].status # "absent" => e \in Allocated
  BY DEF TeeTypeOK, StoreTypeOK, Late, Process, AllocInv, PutsAllocated
<1>2. UNCHANGED <<queue, pg>>
  BY DEF Call, QueueDispatch, ClaimDispatch, WriteReason, WriteRunning, RenewLease,
     ReleaseDispatch
<1>3. Allocated' = Allocated /\ d \in Allocated
  <2>1. CASE QueueDispatch(d)
    BY <1>1, <2>1 DEF QueueDispatch, Allocated
  <2>2. CASE ~ QueueDispatch(d)
    <3>1. stage' = stage
      BY <2>2 DEF Call, ClaimDispatch, WriteReason, WriteRunning, RenewLease,
         ReleaseDispatch
    <3>2. rec[d].status # "absent"
      <4>1. \/ rec[d].status \in {"pending", "claimed"}
            \/ \E x \in Executor : rec[d].holder = x
        BY <2>2
        DEF Call, ClaimDispatch, WriteReason, WriteRunning, RenewLease, ReleaseDispatch,
            Claim, Renew, Start, Release, CanClaim, CanRenew, CanRelease
      <4>2. QED
        BY <4>1, LeaseStoreAssumption DEF HeldIffLeased, Held
    <3>3. QED
      BY <1>1, <3>1, <3>2 DEF Allocated
  <2>3. QED
    BY <2>1, <2>2
<1>4. \A e \in Dispatch : rec'[e].status # "absent" => e \in Allocated
  BY <1>1, <1>3
  DEF Call, QueueDispatch, ClaimDispatch, WriteReason, WriteRunning, RenewLease,
     ReleaseDispatch, Enqueue, Claim, Renew, Start, Release, Put
<1>5. PICK p \in Process : \E o :
        /\ mid[p][d] = Nothing /\ mid' = [mid EXCEPT ![p][d] = o]
        /\ o.op # "alloc" /\ (o.op = "put" => o.d = d)
  BY <1>1
  DEF Call, QueueDispatch, ClaimDispatch, WriteReason, WriteRunning, RenewLease,
     ReleaseDispatch, Ready, Then
<1>6. PICK o :
        /\ mid[p][d] = Nothing /\ mid' = [mid EXCEPT ![p][d] = o]
        /\ o.op # "alloc" /\ (o.op = "put" => o.d = d)
  BY <1>5
<1>7. \A q \in Process, e \in Dispatch :
        mid'[q][e] = IF q = p /\ e = d THEN o ELSE mid[q][e]
  BY <1>1, <1>6
<1>8. QED
  BY <1>2, <1>3, <1>4, <1>6, <1>7, QuietKeeps

\* An operation goes into its queue, or is dropped.
LEMMA SendKeeps ==
    ASSUME TeeTypeOK, AllocInv, NEW p \in Process, NEW d \in Dispatch, Send(p, d)
    PROVE  AllocInv'
<1> DEFINE o == mid[p][d]
<1>1. /\ o # Nothing /\ mid' = [mid EXCEPT ![p][d] = Nothing]
      /\ UNCHANGED <<rec, pg, stage>>
      /\ queue' = queue \/ queue' = [queue EXCEPT ![p] = Append(@, o)]
  BY DEF Send, Then
<1>2. OneAlloc /\ PutsAllocated /\ Numbered /\ RowsKnown
  BY DEF AllocInv
<1>3. /\ mid \in [Process -> [Dispatch -> Late]] /\ queue \in [Process -> Seq(Ops)]
      /\ Dispatch \subseteq Process /\ Allocated \subseteq Dispatch
      /\ Allocated' = Allocated /\ o \in Ops
  BY <1>1 DEF TeeTypeOK, Late, Process, Allocated
<1>4. \A q \in Process, e \in Dispatch :
        mid'[q][e] = IF q = p /\ e = d THEN Nothing ELSE mid[q][e]
  BY <1>1, <1>3
<1>5. Nothing.op \notin {"alloc", "put"}
  BY DEF Nothing
<1>6. ASSUME NEW q \in Process, NEW i \in 1..Len(queue'[q])
      PROVE  \/ i \in 1..Len(queue[q]) /\ queue'[q][i] = queue[q][i]
             \/ q = p /\ i = Len(queue[q]) + 1 /\ queue'[q][i] = o
  <2>1. queue[q] \in Seq(Ops)
    BY <1>3
  <2>2. CASE queue'[q] = queue[q]
    BY <1>6, <2>2
  <2>3. CASE q = p /\ queue'[q] = Append(queue[q], o)
    BY <1>3, <1>6, <2>1, <2>3
  <2>4. QED
    BY <1>1, <1>3, <2>2, <2>3
<1>7. OneAlloc'
  <2>1. \A q \in Process, e \in Dispatch :
          mid'[q][e].op = "alloc" => q = e /\ e \in Allocated'
    BY <1>2, <1>3, <1>4, <1>5 DEF OneAlloc
  <2>2. ASSUME NEW q \in Process, NEW i \in 1..Len(queue'[q]),
               queue'[q][i].op = "alloc"
        PROVE  /\ q \in Allocated' /\ mid'[q][q].op # "alloc"
               /\ \A j \in 1..Len(queue'[q]) : queue'[q][j].op = "alloc" => i = j
    <3>1. CASE q = p /\ o.op = "alloc"
      <4>1. p = d /\ d \in Allocated
        BY <1>2, <3>1 DEF OneAlloc
      <4>2. \A j \in 1..Len(queue[q]) : queue[q][j].op # "alloc"
        BY <1>2, <3>1, <4>1 DEF OneAlloc
      <4>3. mid'[q][q].op # "alloc" /\ q \in Allocated'
        BY <1>3, <1>4, <1>5, <3>1, <4>1
      <4>4. \A j \in 1..Len(queue'[q]) :
              queue'[q][j].op = "alloc" => j = Len(queue[q]) + 1
        BY <1>6, <4>2
      <4>5. QED
        BY <2>2, <4>3, <4>4
    <3>2. CASE q # p \/ o.op # "alloc"
      <4>1. i \in 1..Len(queue[q]) /\ queue[q][i].op = "alloc"
        BY <1>6, <2>2, <3>2
      <4>2. q \in Allocated /\ mid[q][q].op # "alloc"
        BY <1>2, <4>1 DEF OneAlloc
      <4>3. mid'[q][q].op # "alloc"
        BY <1>3, <1>4, <1>5, <4>2
      <4>4. \A j \in 1..Len(queue'[q]) : queue'[q][j].op = "alloc" => i = j
        BY <1>2, <1>6, <3>2, <4>1 DEF OneAlloc
      <4>5. QED
        BY <1>3, <4>2, <4>3, <4>4
    <3>3. QED
      BY <3>1, <3>2
  <2>3. QED
    BY <2>1, <2>2 DEF OneAlloc
<1>8. PutsAllocated'
  <2>1. \A q \in Process, e \in Dispatch :
          mid'[q][e].op = "put" => mid'[q][e].d \in Allocated'
    BY <1>2, <1>3, <1>4, <1>5 DEF PutsAllocated
  <2>2. \A q \in Process : \A i \in 1..Len(queue'[q]) :
          queue'[q][i].op = "put" => queue'[q][i].d \in Allocated'
    BY <1>2, <1>3, <1>6 DEF PutsAllocated
  <2>3. QED
    BY <1>1, <1>2, <1>3, <2>1, <2>2 DEF PutsAllocated
<1>9. Served \subseteq Served'
  <2>1. ASSUME NEW e \in Allocated, Owed(e)' PROVE Owed(e)
    <3>1. CASE mid'[e][e].op = "alloc"
      BY <1>3, <1>4, <1>5, <3>1 DEF Owed
    <3>2. CASE \E i \in 1..Len(queue'[e]) : queue'[e][i].op = "alloc"
      <4>1. PICK i \in 1..Len(queue'[e]) : queue'[e][i].op = "alloc"
        BY <3>2
      <4>2. e \in Process
        BY <1>3
      <4>3. CASE i \in 1..Len(queue[e]) /\ queue'[e][i] = queue[e][i]
        BY <4>1, <4>3 DEF Owed
      <4>4. CASE e = p /\ o.op = "alloc"
        BY <1>2, <4>4 DEF OneAlloc, Owed
      <4>5. QED
        BY <1>6, <4>1, <4>2, <4>3, <4>4
    <3>3. QED
      BY <2>1, <3>1, <3>2 DEF Owed
  <2>2. QED
    BY <1>3, <2>1 DEF Served
<1>10. Numbered' /\ RowsKnown'
  BY <1>1, <1>2, <1>3, <1>9, ServedGrows DEF Numbered, RowsKnown, TeeTypeOK, Table
<1>11. QED
  BY <1>7, <1>8, <1>10 DEF AllocInv

\* The statements fill in rows of allocated dispatches only, and only that of
\* an alloc takes a number.
LEMMA PerformAllocated ==
    ASSUME TeeTypeOK, Numbered, RowsKnown, NEW o \in Ops,
           o.op = "put" => o.d \in Allocated,
           o.op = "alloc" => pg.seq + 1 <= Cardinality(Allocated)
    PROVE  /\ \A e \in Dispatch : Perform(pg, o).row[e] # NoRow => e \in Allocated
           /\ Perform(pg, o).seq = IF o.op = "alloc" THEN pg.seq + 1 ELSE pg.seq
<1>1. pg.row \in [Dispatch -> Row] /\ pg.seq \in Nat /\ pg \in Table
  BY DEF TeeTypeOK, Table
<1>2. CASE o.op = "alloc"
  <2> DEFINE n   == pg.seq + 1
             row == [d \in Dispatch |-> IF d = n /\ pg.row[d] = NoRow
                                       THEN Placeholder ELSE pg.row[d]]
  <2>1. Perform(pg, o).seq = n /\ Perform(pg, o).row = row
    BY <1>1, <1>2 DEF Perform, PgAlloc, Table
  <2>2. n \in Dispatch => n \in Allocated
    BY <1>2, NumberIsAllocated
  <2>3. \A e \in Dispatch : row[e] # NoRow => e \in Allocated
    BY <2>2 DEF RowsKnown
  <2>4. QED
    BY <1>2, <2>1, <2>3
<1>3. CASE o.op # "alloc"
  <2>1. o.d \in Dispatch /\ pg.row[o.d] \in Row
    BY <1>1 DEF Ops
  <2>2. ASSUME NEW r, Perform(pg, o) = SetRow(pg, o.d, r), o.d \in Allocated
        PROVE  /\ \A e \in Dispatch :
                    Perform(pg, o).row[e] # NoRow => e \in Allocated
               /\ Perform(pg, o).seq = pg.seq
    BY <1>1, <2>1, <2>2 DEF SetRow, Table, RowsKnown
  <2>3. CASE o.op = "put"
    <3>1. Perform(pg, o) = SetRow(pg, o.d, RowOf(o.r))
      BY <2>3 DEF Perform, PgPut
    <3>2. QED
      BY <1>3, <2>2, <2>3, <3>1
  <2>4. CASE Perform(pg, o) = pg
    BY <1>3, <2>4 DEF RowsKnown
  <2>5. CASE o.op \in {"claim", "renew", "release"} /\ Perform(pg, o) # pg
    <3>1. o.x \in Executor
      BY <2>5 DEF Ops
    <3>2. NoRow.status # "pending" /\ NoRow.holder # o.x
      BY <3>1, LeaseStoreAssumption DEF NoRow
    <3>3. pg.row[o.d].status = "pending" \/ pg.row[o.d].holder = o.x
      BY <2>5 DEF Perform, PgClaim, PgRenew, PgRelease
    <3>4. o.d \in Allocated
      BY <2>1, <3>2, <3>3 DEF RowsKnown
    <3>5. \E r : Perform(pg, o) = SetRow(pg, o.d, r)
      BY <2>5 DEF Perform, PgClaim, PgRenew, PgRelease
    <3>6. QED
      BY <1>3, <2>2, <3>4, <3>5
  <2>6. o.op \in {"put", "claim", "renew", "release"}
    BY <1>3 DEF Ops
  <2>7. QED
    BY <2>3, <2>4, <2>5, <2>6
<1>4. QED
  BY <1>2, <1>3

\* The head of a queue reaches the mirror, or fails to.
LEMMA MirrorKeeps ==
    ASSUME TeeTypeOK, AllocInv, NEW p \in Process, Mirror(p)
    PROVE  AllocInv'
<1> DEFINE o == Head(queue[p])
<1>1. /\ queue[p] # <<>> /\ queue' = [queue EXCEPT ![p] = Tail(@)]
      /\ UNCHANGED <<rec, mid, stage>>
      /\ pg' = Perform(pg, o) \/ pg' = pg
  BY DEF Mirror
<1>2. OneAlloc /\ PutsAllocated /\ Numbered /\ RowsKnown
  BY DEF AllocInv
<1>3. /\ queue \in [Process -> Seq(Ops)] /\ pg.seq \in Nat
      /\ Dispatch \subseteq Process /\ Allocated \subseteq Dispatch
      /\ Allocated' = Allocated
  BY <1>1 DEF TeeTypeOK, Table, Process, Allocated
<1>4. queue[p] \in Seq(Ops) /\ 1 \in 1..Len(queue[p]) /\ o = queue[p][1] /\ o \in Ops
  BY <1>1, <1>3
<1>5. ASSUME NEW q \in Process, NEW i \in 1..Len(queue'[q])
      PROVE  \E k \in 1..Len(queue[q]) :
                /\ k = IF q = p THEN i + 1 ELSE i
                /\ queue'[q][i] = queue[q][k]
  <2>1. CASE q = p
    <3>1. queue'[q] = Tail(queue[p])
      BY <1>1, <1>3, <2>1
    <3>2. i \in 1..Len(Tail(queue[p]))
      BY <1>5, <2>1, <3>1
    <3>3. i + 1 \in 1..Len(queue[p]) /\ Tail(queue[p])[i] = queue[p][i + 1]
      BY <1>1, <1>4, <3>2
    <3>4. QED
      BY <2>1, <3>1, <3>3
  <2>2. CASE q # p
    BY <1>1, <1>3, <1>5, <2>2
  <2>3. QED
    BY <2>1, <2>2
<1>6. OneAlloc'
  <2>1. ASSUME NEW q \in Process, NEW i \in 1..Len(queue'[q]),
               queue'[q][i].op = "alloc"
        PROVE  /\ q \in Allocated /\ mid[q][q].op # "alloc"
               /\ \A j \in 1..Len(queue'[q]) : queue'[q][j].op = "alloc" => i = j
    <3>1. PICK k \in 1..Len(queue[q]) :
            k = (IF q = p THEN i + 1 ELSE i) /\ queue'[q][i] = queue[q][k]
      BY <1>5
    <3>2. ASSUME NEW j \in 1..Len(queue'[q]), queue'[q][j].op = "alloc"
          PROVE  i = j
      <4>1. PICK l \in 1..Len(queue[q]) :
              l = (IF q = p THEN j + 1 ELSE j) /\ queue'[q][j] = queue[q][l]
        BY <1>5
      <4>2. k = l
        BY <1>2, <2>1, <3>1, <3>2, <4>1 DEF OneAlloc
      <4>3. QED
        BY <3>1, <4>1, <4>2
    <3>3. QED
      BY <1>2, <2>1, <3>1, <3>2 DEF OneAlloc
  <2>2. \A q \in Process, e \in Dispatch :
          mid'[q][e].op = "alloc" => q = e /\ e \in Allocated'
    BY <1>1, <1>2, <1>3 DEF OneAlloc
  <2>3. \A q \in Process : \A i \in 1..Len(queue'[q]) :
          queue'[q][i].op = "alloc" =>
            /\ q \in Allocated' /\ mid'[q][q].op # "alloc"
            /\ \A j \in 1..Len(queue'[q]) : queue'[q][j].op = "alloc" => i = j
    <3>1. mid' = mid /\ Allocated' = Allocated
      BY <1>1, <1>3
    <3>2. ASSUME NEW q \in Process, NEW i \in 1..Len(queue'[q]),
                 queue'[q][i].op = "alloc"
          PROVE  /\ q \in Allocated' /\ mid'[q][q].op # "alloc"
                 /\ \A j \in 1..Len(queue'[q]) :
                       queue'[q][j].op = "alloc" => i = j
      BY <2>1, <3>1, <3>2
    <3>3. QED
      BY <3>2
  <2>4. QED
    BY <2>2, <2>3 DEF OneAlloc
<1>7. PutsAllocated'
  <2>1. \A q \in Process : \A i \in 1..Len(queue'[q]) :
          queue'[q][i].op = "put" => queue'[q][i].d \in Allocated
    BY <1>2, <1>5 DEF PutsAllocated
  <2>2. QED
    BY <1>1, <1>2, <1>3, <2>1 DEF PutsAllocated
<1>8. Served \subseteq Served'
  <2>1. \A e \in Allocated : Owed(e)' => Owed(e)
    BY <1>1, <1>3, <1>5 DEF Owed
  <2>2. QED
    BY <1>3, <2>1 DEF Served
<1>9. o.op = "alloc" => p \in Served' /\ p \notin Served
  <2>1. SUFFICES ASSUME o.op = "alloc" PROVE p \in Served' /\ p \notin Served
    OBVIOUS
  <2>2. p \in Allocated /\ mid[p][p].op # "alloc"
    BY <1>2, <1>4, <2>1 DEF OneAlloc
  <2>3. \A i \in 1..Len(queue'[p]) : queue'[p][i].op # "alloc"
    <3>1. \A k \in 1..Len(queue[p]) : queue[p][k].op = "alloc" => k = 1
      BY <1>2, <1>4, <2>1 DEF OneAlloc
    <3>2. QED
      BY <1>5, <3>1
  <2>4. ~ Owed(p)' /\ Owed(p)
    BY <1>1, <1>4, <2>1, <2>2, <2>3 DEF Owed
  <2>5. QED
    BY <1>3, <2>2, <2>4 DEF Served
<1>10. /\ IsFiniteSet(Served) /\ IsFiniteSet(Served')
       /\ Cardinality(Served) \in Nat /\ Cardinality(Served') \in Nat
       /\ Cardinality(Allocated) \in Nat
       /\ Cardinality(Served') <= Cardinality(Allocated)
       /\ Cardinality(Served) <= Cardinality(Served')
  <2>1. Served \subseteq Served' /\ Served' \subseteq Allocated
    BY <1>3, <1>8 DEF Served
  <2>2. IsFiniteSet(Served) /\ IsFiniteSet(Served')
    BY <1>2, <2>1, FS_Subset DEF Numbered
  <2>3. QED
    BY <1>2, <2>1, <2>2, FS_Subset, FS_CardinalityType DEF Numbered
<1>11. o.op = "alloc" => Cardinality(Served) + 1 <= Cardinality(Served')
  <2>1. SUFFICES ASSUME o.op = "alloc"
                 PROVE  Cardinality(Served) + 1 <= Cardinality(Served')
    OBVIOUS
  <2>2. Served \cup {p} \subseteq Served' /\ p \notin Served
    BY <1>8, <1>9, <2>1
  <2>3. Cardinality(Served \cup {p}) = Cardinality(Served) + 1
    BY <1>10, <2>2, FS_AddElement
  <2>4. Cardinality(Served \cup {p}) <= Cardinality(Served')
    BY <1>10, <2>2, FS_Subset
  <2>5. QED
    BY <2>3, <2>4
<1>12. pg.seq <= Cardinality(Served)
  BY <1>2 DEF Numbered
<1>13. Numbered' /\ RowsKnown'
  <2>1. CASE pg' = pg
    BY <1>2, <1>3, <1>10, <1>12, <2>1 DEF Numbered, RowsKnown
  <2>2. CASE pg' = Perform(pg, o)
    <3>1. o.op = "put" => o.d \in Allocated
      BY <1>2, <1>4 DEF PutsAllocated
    <3>2. o.op = "alloc" => pg.seq + 1 <= Cardinality(Allocated)
      BY <1>3, <1>10, <1>11, <1>12
    <3>3. /\ \A e \in Dispatch : pg'.row[e] # NoRow => e \in Allocated
          /\ pg'.seq = IF o.op = "alloc" THEN pg.seq + 1 ELSE pg.seq
      BY <1>2, <1>4, <2>2, <3>1, <3>2, PerformAllocated
    <3>4. pg'.seq <= Cardinality(Served')
      BY <1>3, <1>10, <1>11, <1>12, <3>3
    <3>5. QED
      BY <1>2, <1>3, <3>3, <3>4 DEF Numbered, RowsKnown
  <2>3. QED
    BY <1>1, <2>1, <2>2
<1>14. QED
  BY <1>6, <1>7, <1>13 DEF AllocInv

\* What a process had on its way is gone with it.
LEMMA CrashKeeps ==
    ASSUME TeeTypeOK, AllocInv, NEW p \in Process, Crash(p)
    PROVE  AllocInv'
<1>1. /\ queue' = [queue EXCEPT ![p] = <<>>]
      /\ mid' = [mid EXCEPT ![p] = [d \in Dispatch |-> Nothing]]
      /\ UNCHANGED <<rec, pg, stage>>
  BY DEF Crash
<1>2. OneAlloc /\ PutsAllocated /\ Numbered /\ RowsKnown
  BY DEF AllocInv
<1>3. /\ mid \in [Process -> [Dispatch -> Late]] /\ queue \in [Process -> Seq(Ops)]
      /\ Dispatch \subseteq Process /\ Allocated \subseteq Dispatch
      /\ Allocated' = Allocated
  BY <1>1 DEF TeeTypeOK, Late, Process, Allocated
<1>4. Nothing.op \notin {"alloc", "put"}
  BY DEF Nothing
<1>5. \A q \in Process :
        \/ q # p /\ queue'[q] = queue[q] /\ mid'[q] = mid[q]
        \/ /\ q = p /\ Len(queue'[q]) = 0
           /\ \A d \in Dispatch : mid'[q][d] = Nothing
  BY <1>1, <1>3
<1>6. OneAlloc'
  <2>1. ASSUME NEW q \in Process
        PROVE  /\ \A d \in Dispatch :
                    mid'[q][d].op = "alloc" => q = d /\ d \in Allocated'
               /\ \A i \in 1..Len(queue'[q]) : queue'[q][i].op = "alloc" =>
                    /\ q \in Allocated' /\ mid'[q][q].op # "alloc"
                    /\ \A j \in 1..Len(queue'[q]) :
                          queue'[q][j].op = "alloc" => i = j
    <3>1. CASE q # p
      BY <1>2, <1>3, <1>5, <3>1 DEF OneAlloc
    <3>2. CASE q = p
      BY <1>4, <1>5, <3>2
    <3>3. QED
      BY <3>1, <3>2
  <2>2. QED
    BY <2>1 DEF OneAlloc
<1>7. PutsAllocated'
  <2>1. ASSUME NEW q \in Process
        PROVE  /\ \A d \in Dispatch :
                    mid'[q][d].op = "put" => mid'[q][d].d \in Allocated'
               /\ \A i \in 1..Len(queue'[q]) :
                    queue'[q][i].op = "put" => queue'[q][i].d \in Allocated'
    <3>1. CASE q # p
      BY <1>2, <1>3, <1>5, <3>1 DEF PutsAllocated
    <3>2. CASE q = p
      BY <1>4, <1>5, <3>2
    <3>3. QED
      BY <3>1, <3>2
  <2>2. QED
    BY <1>1, <1>2, <1>3, <2>1 DEF PutsAllocated
<1>8. Served \subseteq Served'
  <2>1. ASSUME NEW e \in Allocated, Owed(e)' PROVE Owed(e)
    <3>1. e \in Process /\ e \in Dispatch
      BY <1>3
    <3>2. CASE e # p
      BY <1>5, <2>1, <3>1, <3>2 DEF Owed
    <3>3. CASE e = p
      <4>1. Len(queue'[e]) = 0 /\ mid'[e][e].op # "alloc"
        BY <1>4, <1>5, <3>1, <3>3
      <4>2. ~ Owed(e)'
        BY <4>1 DEF Owed
      <4>3. QED
        BY <2>1, <4>2
    <3>4. QED
      BY <3>2, <3>3
  <2>2. QED
    BY <1>3, <2>1 DEF Served
<1>9. Numbered' /\ RowsKnown'
  BY <1>1, <1>2, <1>3, <1>8, ServedGrows DEF Numbered, RowsKnown, TeeTypeOK, Table
<1>10. QED
  BY <1>6, <1>7, <1>9 DEF AllocInv

LEMMA AllocStep ==
    ASSUME MirrorInv, AllocInv, [TeeNext]_vars
    PROVE  AllocInv'
<1>1. TeeTypeOK /\ HeldIffLeased
  BY DEF MirrorInv
<1>2. /\ rec \in [Dispatch -> Record]
      /\ \A d \in Dispatch : rec[d].status # "absent" => d \in Allocated
  BY <1>1 DEF TeeTypeOK, StoreTypeOK, AllocInv, PutsAllocated
<1>3. ASSUME NEW d \in Dispatch, ExpireLeases(d) PROVE AllocInv'
  <2>1. \A e \in Dispatch : rec'[e].status # "absent" => e \in Allocated
    BY <1>2, <1>3 DEF ExpireLeases, Expire, CanExpire, Put, Held
  <2>2. Allocated' = Allocated /\ UNCHANGED <<mid, queue, pg>>
    BY <1>3 DEF ExpireLeases, Allocated
  <2>3. QED
    BY <1>1, <2>1, <2>2, QuietKeeps
<1>4. CASE TimePasses
  <2>1. \A r \in Record : Elapsed(r).status = r.status
    BY DEF Elapsed, Record
  <2>2. \A e \in Dispatch : rec'[e].status # "absent" => e \in Allocated
    BY <1>2, <1>4, <2>1 DEF TimePasses, Elapse
  <2>3. Allocated' = Allocated /\ UNCHANGED <<mid, queue, pg>>
    BY <1>4 DEF TimePasses, Allocated
  <2>4. QED
    BY <1>1, <2>2, <2>3, QuietKeeps
<1>5. ASSUME (\E p \in Process : Close(p) \/ Exit(p)) \/ UNCHANGED vars
      PROVE  AllocInv'
  <2>1. UNCHANGED <<rec, pg, queue, mid, stage>>
    BY <1>5 DEF Close, Exit, vars
  <2>2. Allocated' = Allocated
    BY <2>1 DEF Allocated
  <2>3. QED
    BY <1>1, <1>2, <2>1, <2>2, QuietKeeps
<1>6. QED
  BY <1>1, <1>3, <1>4, <1>5, AllocKeeps, CallKeeps, SendKeeps, MirrorKeeps, CrashKeeps
  DEF TeeNext, Call

\* The mirror, which numbers on its own and drops the number, has rows for
\* allocated dispatches only: for any number of requesters and pools, in
\* whatever order their operations arrive, and whichever are lost.
THEOREM MirrorRowsAllocated == TeeSpec => []RowsAllocated
<1>1. MirrorInv /\ AllocInv /\ [TeeNext]_vars => (MirrorInv /\ AllocInv)'
  BY MirrorInvInductive, AllocStep
<1>2. TeeInit => MirrorInv /\ AllocInv
  BY MirrorInvInductive, AllocInit
<1>3. MirrorInv /\ AllocInv => RowsAllocated
  <2>1. ASSUME MirrorInv, AllocInv PROVE RowsAllocated
    <3>1. Served \subseteq Allocated /\ IsFiniteSet(Allocated)
      BY <2>1 DEF Served, AllocInv, Numbered
    <3>2. Cardinality(Served) <= Cardinality(Allocated)
      BY <3>1, FS_Subset
    <3>3. IsFiniteSet(Served)
      BY <3>1, FS_Subset
    <3>4. /\ Cardinality(Served) \in Nat /\ Cardinality(Allocated) \in Nat
          /\ pg.seq \in Nat /\ pg.seq <= Cardinality(Served)
      BY <2>1, <3>1, <3>3, FS_CardinalityType
      DEF MirrorInv, TeeTypeOK, Table, AllocInv, Numbered
    <3>5. pg.seq <= Cardinality(Allocated)
      BY <3>2, <3>4
    <3>6. QED
      BY <2>1, <3>5 DEF RowsAllocated, AllocInv, RowsKnown
  <2>2. QED
    BY <2>1
<1>4. QED
  BY <1>1, <1>2, <1>3, PTL DEF TeeSpec

-----------------------------------------------------------------------------
(* The mirror's agreement: what a process has on its way to the row of a   *)
(* dispatch, told by the places it has there, first to last.               *)

Write(d, o) == o.op \notin {"nothing", "alloc"} /\ o.d = d

\* The places of the queue, in order, and after them that of mid.
At(p, d, i) == IF i = QueueCap + 1 THEN mid[p][d] ELSE queue[p][i]
Places(p)   == (1..Len(queue[p])) \cup {QueueCap + 1}
Writes(p, d) == {i \in Places(p) : Write(d, At(p, d, i))}

\* The row an operation means to leave.
Target(o) ==
    CASE o.op = "put"     -> RowOf(o.r)
      [] o.op = "release" -> RowOf(Unclaimed(o.s))
      [] OTHER            -> [status |-> "claimed", holder |-> o.x,
                              leased |-> TRUE, written |-> TRUE]

\* The row is such that the operation leaves it at its target.
Fits(row, o) ==
    CASE o.op = "put"     -> TRUE
      [] o.op = "claim"   -> row = RowOf(Unclaimed("pending"))
      [] o.op = "renew"   -> row = Target(o)
      [] OTHER            -> row.holder = o.x /\ row.written

\* Only one process has anything of d on its way: the requester of a pending
\* dispatch, and after that the executor that holds it, or held it.
OneWriter(d) ==
    \A p \in Process : Writes(p, d) # {} =>
        /\ rec[d].status # "absent"
        /\ rec[d].status = "pending" <=> p = d
        /\ rec[d].status \in Held => p = rec[d].holder
        /\ \A q \in Process : Writes(q, d) # {} => q = p

\* Nothing is on its way that leads past the record: of a held dispatch only
\* what its holder has written, of a claimed one only its claim.
NotPast(d) ==
    \A p \in Process : \A i \in Writes(p, d) :
        LET t == Target(At(p, d, i)) IN
        /\ rec[d].status \in Held => t.holder = rec[d].holder
        /\ rec[d].status = "claimed" => t = RowOf(rec[d])

\* What is on its way leads to the record.
LeadsThere(d) ==
    \A p \in Process : \A i \in Writes(p, d) : \E j \in Writes(p, d) :
        i <= j /\ Target(At(p, d, j)) = RowOf(rec[d])

\* The first finds the row as it needs it, the others what those before them
\* leave behind.
InTurn(d) ==
    \A p \in Process : \A i \in Writes(p, d) :
        /\ \/ Fits(pg.row[d], At(p, d, i))
           \/ \E j \in Writes(p, d) : j < i
        /\ \A j \in Writes(p, d) :
              j < i => Fits(Target(At(p, d, j)), At(p, d, i))

\* With nothing on its way the row is that of the record.
Settled(d) ==
    IF rec[d].status = "absent" THEN pg.row[d] \in {NoRow, Placeholder}
    ELSE (\A p \in Process : Writes(p, d) = {}) => pg.row[d] = RowOf(rec[d])

Following(d) ==
    OneWriter(d) /\ NotPast(d) /\ LeadsThere(d) /\ InTurn(d) /\ Settled(d)

\* A call leaves behind what it did to its own dispatch; and the mirror follows
\* unless something has come between.
FollowInv ==
    /\ \A p \in Process, d \in Dispatch : mid[p][d] = Nothing \/ mid[p][d].d = d
    /\ \A d \in Dispatch : apart[d] = {} => Following(d)

\* The facts about the way that the proofs below begin with.
LEMMA WayFacts ==
    ASSUME TeeTypeOK, NEW p \in Process, NEW d \in Dispatch
    PROVE  /\ QueueCap \in Nat /\ QueueCap > 0
           /\ queue[p] \in Seq(Ops) /\ Len(queue[p]) \in Nat
           /\ Len(queue[p]) <= QueueCap
           /\ mid[p][d] \in Late
           /\ Writes(p, d) \subseteq 1..(QueueCap + 1)
           /\ QueueCap + 1 \notin 1..Len(queue[p])
           /\ \A i \in Writes(p, d) : At(p, d, i) \in Ops /\ Write(d, At(p, d, i))
           /\ \A i \in 1..Len(queue[p]) :
                /\ At(p, d, i) = queue[p][i] /\ queue[p][i] \in Ops
                /\ i \in Writes(p, d) <=> Write(d, queue[p][i])
           /\ At(p, d, QueueCap + 1) = mid[p][d]
           /\ QueueCap + 1 \in Writes(p, d) <=> Write(d, mid[p][d])
           /\ \A i \in Writes(p, d) : i # QueueCap + 1 => i \in 1..Len(queue[p])
<1>1. /\ QueueCap \in Nat /\ QueueCap > 0
      /\ queue[p] \in Seq(Ops) /\ Len(queue[p]) \in Nat
      /\ Len(queue[p]) <= QueueCap
      /\ mid[p][d] \in Late
  BY TeeStoreAssumption DEF TeeTypeOK, Late
<1>2. /\ QueueCap + 1 \notin 1..Len(queue[p])
      /\ 1..Len(queue[p]) \subseteq 1..(QueueCap + 1)
      /\ QueueCap + 1 \in 1..(QueueCap + 1)
  BY <1>1
<1>3. \A i \in 1..Len(queue[p]) : At(p, d, i) = queue[p][i] /\ queue[p][i] \in Ops
  BY <1>1, <1>2 DEF At
<1>4. At(p, d, QueueCap + 1) = mid[p][d]
  BY DEF At
<1>5. Write(d, mid[p][d]) => mid[p][d] \in Ops
  BY <1>1 DEF Write, Late, Nothing
<1>6. QED
  BY <1>1, <1>2, <1>3, <1>4, <1>5 DEF Writes, Places

\* Behind and Writes are two ways to say what is on its way.
LEMMA BehindIsWrites ==
    ASSUME TeeTypeOK, NEW p \in Process, NEW d \in Dispatch
    PROVE  Behind(p, d) = {} <=> Writes(p, d) = {}
<1>1. DOMAIN queue[p] = 1..Len(queue[p])
  BY WayFacts
<1>2. ASSUME Behind(p, d) = {}, NEW i \in Writes(p, d) PROVE FALSE
  <2>1. At(p, d, i) \in {queue[p][j] : j \in DOMAIN queue[p]} \cup {mid[p][d]}
    BY <1>1, WayFacts
  <2>2. Write(d, At(p, d, i))
    BY WayFacts
  <2>3. QED
    BY <1>2, <2>1, <2>2 DEF Behind, Write
<1>3. ASSUME Writes(p, d) = {}, NEW o \in Behind(p, d) PROVE FALSE
  <2>1. Write(d, o)
    BY DEF Behind, Write
  <2>2. o = mid[p][d] \/ \E i \in 1..Len(queue[p]) : o = queue[p][i]
    BY <1>1 DEF Behind
  <2>3. QED
    BY <1>3, <2>1, <2>2, WayFacts
<1>4. QED
  BY <1>2, <1>3

\* A row in which the fields of a claim or a release are set.
LEMMA RowSet ==
    ASSUME NEW r \in Row, NEW s \in Status, NEW x \in Executor \cup {None}
    PROVE  /\ [r EXCEPT !.status = s, !.holder = x, !.leased = TRUE]
                = [status |-> s, holder |-> x, leased |-> TRUE, written |-> r.written]
           /\ [r EXCEPT !.status = s, !.holder = x, !.leased = FALSE]
                = [status |-> s, holder |-> x, leased |-> FALSE, written |-> r.written]
           /\ r.leased => [r EXCEPT !.leased = TRUE] = r
<1> DEFINE a == [r EXCEPT !.status = s, !.holder = x, !.leased = TRUE]
           e == [r EXCEPT !.status = s, !.holder = x, !.leased = FALSE]
           b == [r EXCEPT !.leased = TRUE]
<1>1. \A c \in Row : c = [status |-> c.status, holder |-> c.holder,
                         leased |-> c.leased, written |-> c.written]
  BY DEF Row
<1>2. a \in Row /\ b \in Row /\ e \in Row
  BY DEF Row
<1>3. /\ a.status = s /\ a.holder = x /\ a.leased = TRUE /\ a.written = r.written
      /\ e.status = s /\ e.holder = x /\ e.leased = FALSE /\ e.written = r.written
  BY DEF Row
<1>4. /\ b.status = r.status /\ b.holder = r.holder
      /\ b.leased = TRUE /\ b.written = r.written
  BY DEF Row
<1>5. r.leased \in BOOLEAN
  BY DEF Row
<1> HIDE DEF a, b, e
<1>6. /\ a = [status |-> s, holder |-> x, leased |-> TRUE, written |-> r.written]
      /\ e = [status |-> s, holder |-> x, leased |-> FALSE, written |-> r.written]
  BY <1>1, <1>2, <1>3
<1>7. r.leased => b = r
  <2>1. SUFFICES ASSUME r.leased PROVE b = r
    OBVIOUS
  <2>2. b.leased = r.leased
    BY <1>4, <1>5, <2>1
  <2>3. QED
    BY <1>1, <1>2, <1>4, <2>2
<1>8. QED
  BY <1>6, <1>7 DEF a, b, e

\* A statement takes the row of its dispatch to its target if it fits, and
\* leaves the others alone, but for a placeholder where there was no row.
LEMMA PerformFits ==
    ASSUME NEW t \in Table, NEW o \in Ops, NEW d \in Dispatch
    PROVE  /\ Write(d, o) /\ Fits(t.row[d], o) => Perform(t, o).row[d] = Target(o)
           /\ ~ Write(d, o) =>
                \/ Perform(t, o).row[d] = t.row[d]
                \/ t.row[d] = NoRow /\ Perform(t, o).row[d] = Placeholder
<1>1. t.row \in [Dispatch -> Row] /\ t.row[d] \in Row
  BY DEF Table
<1>2. CASE o.op = "alloc"
  <2> DEFINE n   == t.seq + 1
             row == [e \in Dispatch |-> IF e = n /\ t.row[e] = NoRow
                                       THEN Placeholder ELSE t.row[e]]
  <2>1. Perform(t, o).row = row
    BY <1>1, <1>2 DEF Perform, PgAlloc, Table
  <2>2. ~ Write(d, o)
    BY <1>2 DEF Write
  <2>3. QED
    BY <2>1, <2>2
<1>3. CASE o.op # "alloc"
  <2>1. /\ o.op \in {"put", "claim", "renew", "release"} /\ o.d \in Dispatch
        /\ Write(d, o) <=> o.d = d
    BY <1>3 DEF Ops, Write
  <2>2. \A r : SetRow(t, o.d, r).row = [t.row EXCEPT ![o.d] = r]
    BY DEF SetRow, Table
  <2>3. \A r : SetRow(t, d, r).row[d] = r
    BY <1>1 DEF SetRow, Table
  <2>4. CASE o.d # d
    <3>1. Perform(t, o) = t \/ \E r : Perform(t, o) = SetRow(t, o.d, r)
      <4>1. CASE o.op = "put"
        BY <4>1 DEF Perform, PgPut
      <4>2. CASE o.op = "claim"
        BY <4>2 DEF Perform, PgClaim
      <4>3. CASE o.op = "renew"
        BY <4>3 DEF Perform, PgRenew
      <4>4. CASE o.op = "release"
        BY <4>4 DEF Perform, PgRelease
      <4>5. QED
        BY <2>1, <4>1, <4>2, <4>3, <4>4
    <3>2. ASSUME NEW r, Perform(t, o) = SetRow(t, o.d, r)
          PROVE  Perform(t, o).row[d] = t.row[d]
      <4>1. Perform(t, o).row = [t.row EXCEPT ![o.d] = r]
        BY <2>2, <3>2
      <4>2. [t.row EXCEPT ![o.d] = r][d] = t.row[d]
        BY <1>1, <2>4
      <4>3. QED
        BY <4>1, <4>2
    <3>3. QED
      BY <2>1, <2>4, <3>1, <3>2
  <2>5. CASE o.d = d /\ o.op = "put"
    <3>1. Perform(t, o) = SetRow(t, d, Target(o))
      BY <2>5 DEF Perform, PgPut, Target
    <3>2. QED
      BY <2>1, <2>3, <2>5, <3>1
  <2>6. CASE o.d = d /\ o.op = "claim"
    <3> SUFFICES ASSUME Fits(t.row[d], o) PROVE Perform(t, o).row[d] = Target(o)
      BY <2>6 DEF Write
    <3>1. t.row[d].status = "pending" /\ t.row[d].written = TRUE
      BY <2>6 DEF Fits, RowOf, Unclaimed
    <3>2. "claimed" \in Status /\ o.x \in Executor \cup {None} /\ TRUE \in BOOLEAN
      BY <2>6 DEF Ops, Status, Held
    <3>3. [t.row[d] EXCEPT !.status = "claimed", !.holder = o.x, !.leased = TRUE]
            = Target(o)
      <4>1. Target(o) = [status |-> "claimed", holder |-> o.x,
                         leased |-> TRUE, written |-> TRUE]
        BY <2>6 DEF Target
      <4>2. [t.row[d] EXCEPT !.status = "claimed", !.holder = o.x, !.leased = TRUE]
              = [status |-> "claimed", holder |-> o.x, leased |-> TRUE,
                 written |-> t.row[d].written]
        <5>1. PICK r \in Row : r = t.row[d]
          BY <1>1
        <5>2. [r EXCEPT !.status = "claimed", !.holder = o.x, !.leased = TRUE]
                = [status |-> "claimed", holder |-> o.x, leased |-> TRUE,
                   written |-> r.written]
          BY <3>2, RowSet
        <5>3. QED
          BY <5>1, <5>2
      <4>3. QED
        BY <3>1, <4>1, <4>2
    <3>4. Perform(t, o) = SetRow(t, d, Target(o))
      BY <2>6, <3>1, <3>3 DEF Perform, PgClaim
    <3>5. QED
      BY <2>3, <3>4
  <2>7. CASE o.d = d /\ o.op = "renew"
    <3> SUFFICES ASSUME Fits(t.row[d], o) PROVE Perform(t, o).row[d] = Target(o)
      BY <2>7 DEF Write
    <3>1. t.row[d] = Target(o)
      BY <2>7 DEF Fits
    <3>2. /\ t.row[d].status = "claimed" /\ t.row[d].holder = o.x
          /\ t.row[d].leased
      BY <2>7, <3>1 DEF Target
    <3>3. [t.row[d] EXCEPT !.leased = TRUE] = t.row[d]
      <4>1. "claimed" \in Status /\ None \in Executor \cup {None}
        BY DEF Status, Held
      <4>2. QED
        BY <1>1, <3>2, <4>1, RowSet
    <3>4. Perform(t, o) = SetRow(t, d, t.row[d])
      BY <2>7, <3>2, <3>3 DEF Perform, PgRenew
    <3>5. QED
      BY <2>3, <3>1, <3>4
  <2>8. CASE o.d = d /\ o.op = "release"
    <3> SUFFICES ASSUME Fits(t.row[d], o) PROVE Perform(t, o).row[d] = Target(o)
      BY <2>8 DEF Write
    <3>1. t.row[d].holder = o.x /\ t.row[d].written = TRUE
      BY <1>1, <2>8 DEF Fits, Row
    <3>2. o.s \in Status /\ None \in Executor \cup {None} /\ FALSE \in BOOLEAN
      BY <2>8 DEF Ops, Status
    <3>3. [t.row[d] EXCEPT !.status = o.s, !.holder = None, !.leased = FALSE]
            = [status |-> o.s, holder |-> None, leased |-> FALSE, written |-> TRUE]
      <4>1. [t.row[d] EXCEPT !.status = o.s, !.holder = None, !.leased = FALSE]
              = [status |-> o.s, holder |-> None, leased |-> FALSE,
                 written |-> t.row[d].written]
        <5>1. PICK r \in Row : r = t.row[d]
          BY <1>1
        <5>2. [r EXCEPT !.status = o.s, !.holder = None, !.leased = FALSE]
                = [status |-> o.s, holder |-> None, leased |-> FALSE,
                   written |-> r.written]
          BY <3>2, RowSet
        <5>3. QED
          BY <5>1, <5>2
      <4>2. QED
        BY <3>1, <4>1
    <3>4. Target(o) = [status |-> o.s, holder |-> None,
                       leased |-> FALSE, written |-> TRUE]
      BY <2>8 DEF Target, RowOf, Unclaimed
    <3>5. Perform(t, o) = SetRow(t, d, Target(o))
      BY <2>8, <3>1, <3>3, <3>4 DEF Perform, PgRelease
    <3>6. QED
      BY <2>3, <3>5
  <2>9. QED
    BY <2>1, <2>4, <2>5, <2>6, <2>7, <2>8
<1>4. QED
  BY <1>2, <1>3

\* A step moves what p has on its way to d to other places, in the same order.
SameWay(p, d, f) ==
    /\ \A i \in Writes(p, d)' :
          f[i] \in Writes(p, d) /\ At(p, d, i)' = At(p, d, f[i])
    /\ \A i, j \in Writes(p, d)' : i < j <=> f[i] < f[j]
    /\ \A k \in Writes(p, d) : \E i \in Writes(p, d)' : f[i] = k

\* A row keeps its place, but for a placeholder where there was none.
SameRow(d) ==
    \/ pg'.row[d] = pg.row[d]
    \/ pg.row[d] = NoRow /\ pg'.row[d] = Placeholder

\* Such steps leave the mirror following.
LEMMA WayMoved ==
    ASSUME TeeTypeOK, TeeTypeOK', NEW d \in Dispatch, Following(d), SameRow(d),
           rec'[d].status = rec[d].status, rec'[d].holder = rec[d].holder,
           RowOf(rec'[d]) = RowOf(rec[d]),
           \A p \in Process : \E f : SameWay(p, d, f)
    PROVE  Following(d)'
<1>1. \A p \in Process : /\ Writes(p, d)' \subseteq Nat
                         /\ Writes(p, d) \subseteq Nat
                         /\ Writes(p, d)' = {} <=> Writes(p, d) = {}
  <2>1. ASSUME NEW p \in Process
        PROVE  Writes(p, d)' \subseteq Nat /\ Writes(p, d) \subseteq Nat
    <3>1. 1..(QueueCap + 1) \subseteq Nat
      OBVIOUS
    <3>2. Writes(p, d) \subseteq 1..(QueueCap + 1)
      BY WayFacts
    <3>3. Writes(p, d)' \subseteq 1..(QueueCap + 1)
      <4>1. QueueCap \in Nat /\ Len(queue'[p]) \in Nat /\ Len(queue'[p]) <= QueueCap
        BY TeeStoreAssumption DEF TeeTypeOK
      <4>2. 1..Len(queue'[p]) \subseteq 1..(QueueCap + 1)
        BY <4>1
      <4>3. QueueCap + 1 \in 1..(QueueCap + 1)
        BY <4>1
      <4>4. QED
        BY <4>2, <4>3 DEF Writes, Places
    <3>4. QED
      BY <3>1, <3>2, <3>3
  <2>2. QED
    BY <2>1 DEF SameWay
<1>2. OneWriter(d)'
  BY <1>1 DEF OneWriter, Following
<1>3. ASSUME NEW p \in Process, NEW i \in Writes(p, d)'
      PROVE  /\ LET t == Target(At(p, d, i)') IN
                  /\ rec'[d].status \in Held => t.holder = rec'[d].holder
                  /\ rec'[d].status = "claimed" => t = RowOf(rec'[d])
             /\ \E j \in Writes(p, d)' :
                  i <= j /\ Target(At(p, d, j)') = RowOf(rec'[d])
             /\ \/ Fits(pg'.row[d], At(p, d, i)')
                \/ \E j \in Writes(p, d)' : j < i
             /\ \A j \in Writes(p, d)' :
                  j < i => Fits(Target(At(p, d, j)'), At(p, d, i)')
  <2>1. PICK f : SameWay(p, d, f)
    OBVIOUS
  <2>2. /\ f[i] \in Writes(p, d) /\ At(p, d, i)' = At(p, d, f[i])
        /\ \A j \in Writes(p, d)' :
            /\ f[j] \in Writes(p, d) /\ At(p, d, j)' = At(p, d, f[j])
            /\ i < j <=> f[i] < f[j]
            /\ j < i <=> f[j] < f[i]
        /\ \A k \in Writes(p, d) : \E j \in Writes(p, d)' : f[j] = k
    BY <2>1 DEF SameWay
  <2>3. \E j \in Writes(p, d)' :
          i <= j /\ Target(At(p, d, j)') = RowOf(rec'[d])
    <3>1. PICK k \in Writes(p, d) :
            f[i] <= k /\ Target(At(p, d, k)) = RowOf(rec[d])
      BY <2>2 DEF LeadsThere, Following
    <3>2. PICK j \in Writes(p, d)' : f[j] = k
      BY <2>2
    <3>3. ~ (j < i)
      BY <1>1, <2>2, <3>1, <3>2
    <3>4. i <= j
      BY <1>1, <3>3
    <3>5. QED
      BY <2>2, <3>1, <3>2, <3>4
  <2>4. Fits(pg'.row[d], At(p, d, i)') \/ \E j \in Writes(p, d)' : j < i
    <3>1. Fits(NoRow, At(p, d, f[i])) => At(p, d, f[i]).op = "put"
      <4>1. At(p, d, f[i]) \in Ops /\ Write(d, At(p, d, f[i]))
        BY <2>2, WayFacts
      <4>2. QED
        BY <4>1 DEF Fits, NoRow, Target, RowOf, Ops, Write
    <3>2. Fits(pg.row[d], At(p, d, f[i])) => Fits(pg'.row[d], At(p, d, f[i]))
      BY <3>1 DEF SameRow, Fits
    <3>3. CASE Fits(pg.row[d], At(p, d, f[i]))
      BY <2>2, <3>2, <3>3
    <3>4. CASE \E k \in Writes(p, d) : k < f[i]
      BY <2>2, <3>4
    <3>5. QED
      BY <2>2, <3>3, <3>4 DEF InTurn, Following
  <2>5. \A j \in Writes(p, d)' :
          j < i => Fits(Target(At(p, d, j)'), At(p, d, i)')
    BY <2>2 DEF InTurn, Following
  <2>6. QED
    BY <2>2, <2>3, <2>4, <2>5 DEF NotPast, Following
<1>4. Settled(d)'
  <2>1. RowOf(rec[d]).written # NoRow.written
    BY DEF RowOf, NoRow
  <2>2. CASE rec[d].status = "absent"
    BY <2>2 DEF Settled, Following, SameRow
  <2>3. CASE rec[d].status # "absent"
    <3>1. ASSUME \A p \in Process : Writes(p, d)' = {}
          PROVE  pg'.row[d] = RowOf(rec'[d])
      <4>1. pg.row[d] = RowOf(rec[d])
        BY <1>1, <2>3, <3>1 DEF Settled, Following
      <4>2. QED
        BY <2>1, <4>1 DEF SameRow
    <3>2. QED
      BY <2>3, <3>1 DEF Settled
  <2>4. QED
    BY <2>2, <2>3
<1>5. NotPast(d)' /\ LeadsThere(d)' /\ InTurn(d)'
  BY <1>3 DEF NotPast, LeadsThere, InTurn
<1>6. QED
  BY <1>2, <1>4, <1>5 DEF Following

\* What is not touched is where it was.
LEMMA WayIdle ==
    ASSUME TeeTypeOK, TeeTypeOK', NEW p \in Process, NEW d \in Dispatch,
           queue'[p] = queue[p],
           \/ mid'[p][d] = mid[p][d]
           \/ ~ Write(d, mid'[p][d]) /\ ~ Write(d, mid[p][d])
    PROVE  /\ Writes(p, d)' = Writes(p, d)
           /\ \E f : SameWay(p, d, f)
<1> DEFINE f == [i \in Nat |-> i]
<1>1. Places(p)' = Places(p)
  BY DEF Places
<1>2. \A i \in Places(p) :
        /\ Write(d, At(p, d, i)') <=> Write(d, At(p, d, i))
        /\ Write(d, At(p, d, i)) => At(p, d, i)' = At(p, d, i)
  BY DEF At
<1>3. Writes(p, d)' = Writes(p, d)
  BY <1>1, <1>2 DEF Writes
<1>4. Writes(p, d) \subseteq Nat
  <2>1. 1..(QueueCap + 1) \subseteq Nat
    OBVIOUS
  <2>2. QED
    BY <2>1, WayFacts
<1>5. SameWay(p, d, f)
  BY <1>2, <1>3, <1>4 DEF SameWay, Writes
<1>6. QED
  BY <1>3, <1>5

\* A call that writes d, by a process that is alone in having written it: what
\* the call leaves behind comes last, and leads to the record.
LEMMA CallFollows ==
    ASSUME TeeTypeOK, TeeTypeOK', NEW d \in Dispatch, Following(d),
           NEW p \in Process, NEW o \in Ops, Write(d, o),
           mid[p][d] = Nothing, Then(p, d, o), UNCHANGED <<queue, pg>>,
           Target(o) = RowOf(rec'[d]),
           rec'[d].status # "absent",
           rec'[d].status = "pending" <=> p = d,
           rec'[d].status \in Held => p = rec'[d].holder,
           \A q \in Process : q # p => Writes(q, d) = {},
           Writes(p, d) = {} => Fits(pg.row[d], o),
           \A i \in Writes(p, d) :
              LET t == Target(At(p, d, i)) IN
              /\ Fits(t, o)
              /\ rec'[d].status \in Held => t.holder = rec'[d].holder
              /\ rec'[d].status = "claimed" => t = RowOf(rec'[d])
    PROVE  Following(d)'
<1> DEFINE last == QueueCap + 1
<1>1. /\ mid'[p][d] = o
      /\ \A q \in Process : q # p => mid'[q][d] = mid[q][d]
  BY DEF Then, TeeTypeOK
<1>2. ~ Write(d, Nothing)
  BY DEF Write, Nothing
<1>3. /\ Writes(p, d)' = Writes(p, d) \cup {last}
      /\ last \notin Writes(p, d)
      /\ At(p, d, last)' = o
      /\ \A i \in Writes(p, d) : At(p, d, i)' = At(p, d, i)
  <2>1. last \in Places(p) /\ Places(p)' = Places(p)
    BY DEF Places
  <2>2. At(p, d, last)' = o /\ At(p, d, last) = Nothing
    BY <1>1 DEF At
  <2>3. \A i \in Places(p) : i # last => At(p, d, i)' = At(p, d, i)
    BY DEF At
  <2>4. last \notin Writes(p, d)
    BY <1>2, <2>2 DEF Writes
  <2>5. QED
    BY <2>1, <2>2, <2>3, <2>4 DEF Writes
<1>4. \A q \in Process : q # p => Writes(q, d)' = {}
  BY <1>1, WayIdle
<1>5. /\ QueueCap \in Nat
      /\ \A i \in Writes(p, d) : i \in Nat /\ i < last
  <2>1. QueueCap \in Nat /\ Writes(p, d) \subseteq 1..last
    BY WayFacts
  <2>2. QED
    BY <1>3, <2>1
<1>6. OneWriter(d)'
  BY <1>3, <1>4 DEF OneWriter
<1>7. rec'[d].status \in Held => RowOf(rec'[d]).holder = rec'[d].holder
  BY DEF RowOf
<1>8. NotPast(d)'
  BY <1>3, <1>4, <1>7 DEF NotPast
<1>9. LeadsThere(d)'
  BY <1>3, <1>4, <1>5 DEF LeadsThere
<1>10. InTurn(d)'
  <2>1. ASSUME NEW i \in Writes(p, d)
        PROVE  /\ \/ Fits(pg'.row[d], At(p, d, i)')
                  \/ \E j \in Writes(p, d)' : j < i
               /\ \A j \in Writes(p, d)' :
                    j < i => Fits(Target(At(p, d, j)'), At(p, d, i)')
    <3>1. ~ (last < i)
      BY <1>5
    <3>2. QED
      BY <1>3, <3>1 DEF InTurn, Following
  <2>2. \/ Fits(pg'.row[d], At(p, d, last)')
        \/ \E j \in Writes(p, d)' : j < last
    BY <1>3, <1>5
  <2>3. \A j \in Writes(p, d)' :
          j < last => Fits(Target(At(p, d, j)'), At(p, d, last)')
    <3>1. ~ (last < last)
      BY <1>5
    <3>2. QED
      BY <1>3, <3>1
  <2>4. QED
    BY <1>3, <1>4, <2>1, <2>2, <2>3 DEF InTurn
<1>11. Settled(d)'
  BY <1>3 DEF Settled
<1>12. QED
  BY <1>6, <1>8, <1>9, <1>10, <1>11 DEF Following

\* The calls on d.
LEMMA CallsFollow ==
    ASSUME TeeTypeOK, TeeTypeOK', HeldIffLeased, NEW d \in Dispatch, Following(d),
           Call(d), apart'[d] = {}
    PROVE  Following(d)'
<1>1. /\ rec \in [Dispatch -> Record] /\ rec[d] \in Record
      /\ d \in Process /\ Executor \subseteq Process /\ d \notin Executor
      /\ None \notin Executor
  BY LeaseStoreAssumption, TeeStoreAssumption DEF TeeTypeOK, StoreTypeOK, Process
<1>2. UNCHANGED <<queue, pg>>
  BY DEF Call, AllocDispatch, QueueDispatch, ClaimDispatch, WriteReason,
         WriteRunning, RenewLease, ReleaseDispatch
<1>3. CASE AllocDispatch(d)
  <2>1. \A p \in Process : \/ mid'[p][d] = mid[p][d]
                           \/ ~ Write(d, mid'[p][d]) /\ ~ Write(d, mid[p][d])
    BY <1>3 DEF AllocDispatch, Ready, Then, TeeTypeOK, Write, Nothing
  <2>2. \A p \in Process : \E f : SameWay(p, d, f)
    BY <1>2, <2>1, WayIdle
  <2>3. rec'[d] = rec[d] /\ SameRow(d)
    BY <1>2, <1>3 DEF AllocDispatch, SameRow
  <2>4. QED
    BY <2>2, <2>3, WayMoved
<1>4. CASE QueueDispatch(d)
  <2> DEFINE o == [op |-> "put", d |-> d, r |-> rec'[d]]
  <2>1. /\ rec[d].status = "absent" /\ rec'[d] = Unclaimed("pending")
        /\ mid[d][d] = Nothing /\ Then(d, d, o)
    BY <1>1, <1>4 DEF QueueDispatch, Enqueue, Put, Ready
  <2>2. o \in Ops /\ Write(d, o) /\ Target(o) = RowOf(rec'[d])
        /\ \A row : Fits(row, o)
    <3>1. rec'[d] \in Record
      BY DEF TeeTypeOK, StoreTypeOK
    <3>2. QED
      BY <3>1, LateFacts DEF Write, Target, Fits
  <2>3. \A q \in Process : Writes(q, d) = {}
    BY <2>1 DEF OneWriter, Following
  <2>4. rec'[d].status = "pending" /\ "pending" \notin Held
    BY <2>1 DEF Unclaimed, Held
  <2> HIDE DEF o
  <2>5. QED
    BY <1>1, <1>2, <2>1, <2>2, <2>3, <2>4, CallFollows
<1>5. ASSUME NEW x \in Executor, ClaimDispatch(x, d) PROVE Following(d)'
  <2> DEFINE o == [op |-> "claim", d |-> d, x |-> x]
  <2>1. /\ rec[d].status = "pending" /\ mid[x][d] = Nothing /\ Then(x, d, o)
        /\ rec'[d] = [status |-> "claimed", holder |-> x, lease |-> Lease]
    BY <1>1, <1>5 DEF ClaimDispatch, Claim, CanClaim, Put, Ready
  <2>2. rec[d].holder = None /\ rec[d].lease = NoLease
    BY <2>1 DEF HeldIffLeased, Held
  <2>3. RowOf(rec[d]) = RowOf(Unclaimed("pending"))
    BY <2>1, <2>2 DEF RowOf, Unclaimed
  <2>4. Lease # NoLease
    BY LeaseStoreAssumption DEF NoLease
  <2>5. o \in Ops /\ Write(d, o) /\ Target(o) = RowOf(rec'[d])
    <3>1. o \in Ops /\ Write(d, o)
      BY LateFacts DEF Write
    <3>2. RowOf(rec'[d]) = [status |-> "claimed", holder |-> x,
                            leased |-> TRUE, written |-> TRUE]
      <4>1. (rec'[d].lease # NoLease) = TRUE
        BY <2>1, <2>4
      <4>2. rec'[d].status = "claimed" /\ rec'[d].holder = x
        BY <2>1
      <4>3. QED
        BY <4>1, <4>2, Zenon DEF RowOf
    <3>3. QED
      BY <3>1, <3>2 DEF Target
  <2>6. \A q \in Process : Writes(q, d) = {}
    <3>1. apart \in [Dispatch -> SUBSET {"lost", "requeued", "overtaken"}]
      BY DEF TeeTypeOK
    <3>2. Behind(d, d) = {}
      BY <1>5, <3>1 DEF ClaimDispatch, Note
    <3>3. Writes(d, d) = {}
      BY <1>1, <3>2, BehindIsWrites
    <3>4. QED
      BY <2>1, <3>3 DEF OneWriter, Following
  <2>7. Fits(pg.row[d], o)
    BY <2>1, <2>3, <2>6 DEF Settled, Following, Fits
  <2>8. /\ rec'[d].status = "claimed" /\ rec'[d].holder = x
        /\ x \in Process /\ x # d
    BY <1>1, <2>1
  <2> HIDE DEF o
  <2>9. QED
    BY <1>2, <2>1, <2>5, <2>6, <2>7, <2>8, CallFollows
<1>6. ASSUME NEW x \in Executor, NEW o \in Ops, CanRenew(x, d),
             mid[x][d] = Nothing, Then(x, d, o), Write(d, o),
             Target(o) = RowOf(rec'[d]), Fits(RowOf(rec[d]), o),
             rec'[d].holder = x,
             \/ rec'[d].status = "claimed" /\ RowOf(rec'[d]) = RowOf(rec[d])
             \/ rec'[d].status = "running"
      PROVE  Following(d)'
  <2>1. rec[d].status = "claimed" /\ rec[d].holder = x
    BY <1>6 DEF CanRenew
  <2>2. x \in Process /\ x # d
    BY <1>1
  <2>3. \A q \in Process : q # x => Writes(q, d) = {}
    BY <2>1 DEF OneWriter, Following, Held
  <2>4. \A i \in Writes(x, d) : Target(At(x, d, i)) = RowOf(rec[d])
    BY <2>1, <2>2 DEF NotPast, Following
  <2>5. Writes(x, d) = {} => pg.row[d] = RowOf(rec[d])
    BY <2>1, <2>3 DEF Settled, Following
  <2>6. RowOf(rec[d]).holder = x
    BY <2>1 DEF RowOf
  <2>7. \A i \in Writes(x, d) :
          LET t == Target(At(x, d, i)) IN
          /\ Fits(t, o)
          /\ rec'[d].status \in Held => t.holder = rec'[d].holder
          /\ rec'[d].status = "claimed" => t = RowOf(rec'[d])
    BY <1>6, <2>4, <2>6
  <2>8. QED
    BY <1>2, <1>6, <2>2, <2>3, <2>5, <2>7, CallFollows
<1>7. ASSUME NEW x \in Executor, WriteReason(x, d) PROVE Following(d)'
  <2> DEFINE o == [op |-> "put", d |-> d, r |-> rec[d]]
  <2>1. /\ CanRenew(x, d) /\ mid[x][d] = Nothing /\ Then(x, d, o)
        /\ rec'[d] = rec[d]
    BY <1>7 DEF WriteReason, Ready
  <2>2. o \in Ops /\ Write(d, o) /\ Target(o) = RowOf(rec'[d]) /\ \A row : Fits(row, o)
    BY <1>1, <2>1, LateFacts DEF Write, Target, Fits
  <2>3. rec'[d].holder = x /\ rec'[d].status = "claimed"
    BY <2>1 DEF CanRenew
  <2> HIDE DEF o
  <2>4. QED
    BY <1>6, <2>1, <2>2, <2>3
<1>8. ASSUME NEW x \in Executor, WriteRunning(x, d) PROVE Following(d)'
  <2> DEFINE o == [op |-> "put", d |-> d, r |-> rec'[d]]
  <2>1. /\ CanRenew(x, d) /\ mid[x][d] = Nothing /\ Then(x, d, o)
        /\ rec'[d] = [rec[d] EXCEPT !.status = "running"]
    BY <1>1, <1>8 DEF WriteRunning, Start, Put, Ready
  <2>2. o \in Ops /\ Write(d, o) /\ Target(o) = RowOf(rec'[d]) /\ \A row : Fits(row, o)
    <3>1. rec'[d] \in Record
      BY DEF TeeTypeOK, StoreTypeOK
    <3>2. QED
      BY <3>1, LateFacts DEF Write, Target, Fits
  <2>3. rec'[d].holder = x /\ rec'[d].status = "running"
    BY <1>1, <2>1 DEF CanRenew, Record
  <2> HIDE DEF o
  <2>4. QED
    BY <1>6, <2>1, <2>2, <2>3
<1>9. ASSUME NEW x \in Executor, RenewLease(x, d) PROVE Following(d)'
  <2> DEFINE o == [op |-> "renew", d |-> d, x |-> x]
  <2>1. /\ CanRenew(x, d) /\ mid[x][d] = Nothing /\ Then(x, d, o)
        /\ rec'[d] = [rec[d] EXCEPT !.lease = Lease]
    BY <1>1, <1>9 DEF RenewLease, Renew, Put, Ready
  <2>2. /\ rec'[d].status = "claimed" /\ rec'[d].holder = x /\ rec'[d].lease = Lease
        /\ rec[d].status = "claimed" /\ rec[d].holder = x /\ rec[d].lease # NoLease
    BY <1>1, <2>1 DEF CanRenew, Record, HeldIffLeased, Held
  <2>3. Lease # NoLease
    BY LeaseStoreAssumption DEF NoLease
  <2>4. o \in Ops /\ Write(d, o) /\ Target(o) = RowOf(rec'[d])
        /\ RowOf(rec'[d]) = RowOf(rec[d]) /\ Fits(RowOf(rec[d]), o)
    BY <2>2, <2>3, LateFacts DEF Write, Target, RowOf, Fits
  <2> HIDE DEF o
  <2>5. QED
    BY <1>6, <2>1, <2>2, <2>4
<1>10. ASSUME NEW x \in Executor, ReleaseDispatch(x, d) PROVE Following(d)'
  <2>1. PICK s \in Outcomes :
          /\ Release(x, d, s)
          /\ Then(x, d, [op |-> "release", d |-> d, x |-> x, s |-> s])
    BY <1>10 DEF ReleaseDispatch
  <2> DEFINE o == [op |-> "release", d |-> d, x |-> x, s |-> s]
  <2>2. /\ rec[d].holder = x /\ s \in Terminal /\ mid[x][d] = Nothing
        /\ rec'[d] = Unclaimed(s) /\ Then(x, d, o)
    BY <1>1, <1>10, <2>1 DEF ReleaseDispatch, Release, CanRelease, Put, Ready
  <2>3. rec[d].status \in Held
    BY <1>1, <2>2 DEF HeldIffLeased
  <2>4. o \in Ops /\ Write(d, o) /\ Target(o) = RowOf(rec'[d])
        /\ \A row : row.holder = x /\ row.written => Fits(row, o)
    BY <2>2, LateFacts DEF Write, Target, Fits
  <2>5. x \in Process /\ x # d
    BY <1>1
  <2>6. \A q \in Process : q # x => Writes(q, d) = {}
    BY <2>2, <2>3 DEF OneWriter, Following
  <2>7. \A i \in Writes(x, d) : Fits(Target(At(x, d, i)), o)
    <3>1. \A i \in Writes(x, d) : Target(At(x, d, i)).holder = x
      BY <2>2, <2>3, <2>5 DEF NotPast, Following
    <3>2. \A q : Target(q).written
      BY DEF Target, RowOf
    <3>3. QED
      BY <2>4, <3>1, <3>2
  <2>8. Writes(x, d) = {} => Fits(pg.row[d], o)
    <3>1. Writes(x, d) = {} => pg.row[d] = RowOf(rec[d])
      BY <2>3, <2>6 DEF Settled, Following, Held
    <3>2. RowOf(rec[d]).holder = x /\ RowOf(rec[d]).written
      BY <2>2 DEF RowOf
    <3>3. QED
      BY <2>4, <3>1, <3>2
  <2>9. /\ rec'[d].status \notin Held /\ rec'[d].status \notin {"absent", "pending"}
        /\ rec'[d].status # "claimed"
    BY <2>2 DEF Unclaimed, Held, Terminal
  <2> HIDE DEF o
  <2>10. QED
    BY <1>2, <2>2, <2>4, <2>5, <2>6, <2>7, <2>8, <2>9, CallFollows
<1>11. QED
  BY <1>3, <1>4, <1>5, <1>7, <1>8, <1>9, <1>10 DEF Call

\* The goroutine takes the head of the queue to the mirror.
LEMMA MirrorFits ==
    ASSUME TeeTypeOK, TeeTypeOK', NEW d \in Dispatch, Following(d),
           NEW p \in Process, Mirror(p), apart'[d] = {}
    PROVE  Following(d)'
<1> DEFINE o    == Head(queue[p])
           last == QueueCap + 1
           f    == [i \in Nat |-> IF i = last THEN last ELSE i + 1]
<1>1. /\ queue[p] # <<>> /\ queue'[p] = Tail(queue[p])
      /\ \A q \in Process : q # p => queue'[q] = queue[q]
      /\ UNCHANGED <<rec, mid>>
  BY DEF Mirror, TeeTypeOK
<1>2. /\ queue[p] \in Seq(Ops) /\ QueueCap \in Nat
      /\ Len(queue[p]) \in Nat /\ Len(queue[p]) <= QueueCap
  BY WayFacts
<1>3. /\ 1 \in 1..Len(queue[p]) /\ o = queue[p][1] /\ o \in Ops
      /\ Len(queue'[p]) = Len(queue[p]) - 1
      /\ \A i \in 1..Len(queue'[p]) :
            i + 1 \in 1..Len(queue[p]) /\ queue'[p][i] = queue[p][i + 1]
  BY <1>1, <1>2
<1>4. /\ At(p, d, 1) = o
      /\ 1 \in Writes(p, d) <=> Write(d, o)
  BY <1>3, WayFacts
<1>5. \A i \in Writes(p, d)' :
        /\ i \in Nat /\ f[i] \in Writes(p, d) /\ f[i] # 1
        /\ At(p, d, i)' = At(p, d, f[i])
        /\ i = last \/ i \in 1..Len(queue'[p])
  <2>1. ASSUME NEW i \in Writes(p, d)', i = last
        PROVE  /\ i \in Nat /\ f[i] \in Writes(p, d) /\ f[i] # 1
               /\ At(p, d, i)' = At(p, d, f[i])
    <3>1. i \in Nat /\ f[i] = last /\ last # 1
      BY <1>2, <1>3, <2>1
    <3>2. At(p, d, i)' = mid[p][d] /\ At(p, d, last) = mid[p][d]
      BY <1>1, <2>1 DEF At
    <3>3. Write(d, At(p, d, i)')
      BY DEF Writes
    <3>4. QED
      BY <3>1, <3>2, <3>3 DEF Writes, Places
  <2>2. ASSUME NEW i \in Writes(p, d)', i # last
        PROVE  /\ i \in Nat /\ f[i] \in Writes(p, d) /\ f[i] # 1
               /\ At(p, d, i)' = At(p, d, f[i])
               /\ i \in 1..Len(queue'[p])
    <3>1. i \in 1..Len(queue'[p])
      BY <2>2 DEF Writes, Places
    <3>2. i \in Nat /\ f[i] = i + 1 /\ i + 1 # 1 /\ i + 1 # last
      BY <1>2, <1>3, <2>2, <3>1
    <3>3. At(p, d, i)' = queue'[p][i] /\ At(p, d, i + 1) = queue[p][i + 1]
      BY <2>2, <3>2 DEF At
    <3>4. Write(d, At(p, d, i)')
      BY DEF Writes
    <3>5. QED
      BY <1>3, <3>1, <3>2, <3>3, <3>4 DEF Writes, Places
  <2>3. QED
    BY <2>1, <2>2
<1>6. \A i, j \in Writes(p, d)' : i < j <=> f[i] < f[j]
  <2>1. \A i \in 1..Len(queue'[p]) : i + 1 < last /\ i < last /\ i \in Nat
    BY <1>2, <1>3
  <2>2. ASSUME NEW i \in Writes(p, d)'
        PROVE  /\ i \in Nat
               /\ \/ i = last /\ f[i] = last
                  \/ i < last /\ f[i] = i + 1 /\ i + 1 < last
    <3>1. CASE i = last
      BY <1>2, <1>5, <2>2, <3>1
    <3>2. CASE i # last
      BY <1>2, <1>5, <2>1, <2>2, <3>2
    <3>3. QED
      BY <3>1, <3>2
  <2>3. last \in Nat
    BY <1>2
  <2>4. QED
    BY <2>2, <2>3
<1>7. \A k \in Writes(p, d) : k # 1 => \E i \in Writes(p, d)' : f[i] = k
  <2>1. ASSUME NEW k \in Writes(p, d), k = last
        PROVE  \E i \in Writes(p, d)' : f[i] = k
    <3>1. At(p, d, last)' = At(p, d, k) /\ f[last] = last
      BY <1>1, <1>2, <2>1 DEF At
    <3>2. last \in Writes(p, d)'
      BY <2>1, <3>1 DEF Writes, Places
    <3>3. QED
      BY <2>1, <3>1, <3>2
  <2>2. ASSUME NEW k \in Writes(p, d), k # last, k # 1
        PROVE  \E i \in Writes(p, d)' : f[i] = k
    <3>1. k \in 1..Len(queue[p])
      BY <2>2, WayFacts
    <3>2. /\ k - 1 \in 1..Len(queue'[p]) /\ k - 1 \in Nat /\ k - 1 # last
          /\ (k - 1) + 1 = k
      BY <1>2, <1>3, <2>2, <3>1
    <3>3. At(p, d, k - 1)' = At(p, d, k) /\ f[k - 1] = k
      <4>1. queue'[p][k - 1] = queue[p][(k - 1) + 1]
        BY <1>3, <3>2
      <4>2. QED
        BY <2>2, <3>2, <4>1 DEF At
    <3>4. k - 1 \in Writes(p, d)'
      BY <3>2, <3>3 DEF Writes, Places
    <3>5. QED
      BY <3>3, <3>4
  <2>3. QED
    BY <2>1, <2>2
<1>8. \A q \in Process : q # p =>
        Writes(q, d)' = Writes(q, d) /\ \E g : SameWay(q, d, g)
  BY <1>1, WayIdle
<1>9. CASE ~ Write(d, o)
  <2>1. SameWay(p, d, f)
    BY <1>4, <1>5, <1>6, <1>7, <1>9 DEF SameWay
  <2>2. SameRow(d)
    BY <1>3, <1>9, PerformFits DEF Mirror, SameRow, TeeTypeOK
  <2> HIDE DEF f
  <2>3. \A q \in Process : \E g : SameWay(q, d, g)
    BY <1>8, <2>1
  <2>4. QED
    BY <1>1, <2>2, <2>3, WayMoved
<1>10. CASE Write(d, o)
  <2>1. 1 \in Writes(p, d) /\ At(p, d, 1) = o
    BY <1>4, <1>10
  <2>2. \A j \in Writes(p, d) : ~ (j < 1)
    BY WayFacts
  <2>3. pg'.row[d] = Target(o)
    <3>1. Fits(pg.row[d], o)
      BY <2>1, <2>2 DEF InTurn, Following
    <3>2. pg' = Perform(pg, o)
      <4>1. o.op # "alloc" /\ o.d = d
        BY <1>10 DEF Write
      <4>2. apart \in [Dispatch -> SUBSET {"lost", "requeued", "overtaken"}]
        BY DEF TeeTypeOK
      <4>3. ~ Note({d}, "lost")
        BY <4>2 DEF Note
      <4>4. QED
        BY <4>1, <4>3 DEF Mirror
    <3>3. QED
      BY <1>3, <1>10, <3>1, <3>2, PerformFits DEF TeeTypeOK
  <2>4. /\ rec[d].status # "absent"
        /\ \A q \in Process : q # p => Writes(q, d) = {} /\ Writes(q, d)' = {}
    BY <1>8, <2>1 DEF OneWriter, Following
  <2>5. OneWriter(d)'
    BY <1>1, <1>5, <2>1, <2>4 DEF OneWriter, Following
  <2>6. NotPast(d)'
    <3>1. ASSUME NEW i \in Writes(p, d)'
          PROVE  LET t == Target(At(p, d, i)') IN
                 /\ rec'[d].status \in Held => t.holder = rec'[d].holder
                 /\ rec'[d].status = "claimed" => t = RowOf(rec'[d])
      <4>1. f[i] \in Writes(p, d) /\ At(p, d, i)' = At(p, d, f[i])
        BY <1>5
      <4> HIDE DEF f
      <4>2. QED
        BY <1>1, <4>1 DEF NotPast, Following
    <3>2. QED
      BY <2>4, <3>1 DEF NotPast
  <2>7. LeadsThere(d)'
    <3>1. ASSUME NEW i \in Writes(p, d)'
          PROVE  \E j \in Writes(p, d)' :
                    i <= j /\ Target(At(p, d, j)') = RowOf(rec'[d])
      <4>1. PICK k \in Writes(p, d) :
              f[i] <= k /\ Target(At(p, d, k)) = RowOf(rec[d])
        BY <1>5 DEF LeadsThere, Following
      <4>2. k # 1
        BY <1>2, <1>5, <4>1, WayFacts
      <4>3. PICK j \in Writes(p, d)' : f[j] = k
        BY <1>7, <4>2
      <4>4. i \in Nat /\ j \in Nat /\ f[i] \in Nat /\ f[j] \in Nat
        <5>1. f[i] \in 1..last /\ f[j] \in 1..last
          BY <1>5, WayFacts
        <5>2. QED
          BY <1>2, <1>5, <5>1
      <4>5. i <= j
        <5>1. j < i <=> f[j] < f[i]
          BY <1>6
        <5> HIDE DEF f
        <5>2. QED
          BY <4>1, <4>3, <4>4, <5>1
      <4>6. QED
        BY <1>1, <1>5, <4>1, <4>3, <4>5
    <3>2. QED
      BY <2>4, <3>1 DEF LeadsThere
  <2>8. InTurn(d)'
    <3>1. ASSUME NEW i \in Writes(p, d)'
          PROVE  /\ Fits(pg'.row[d], At(p, d, i)')
                 /\ \A j \in Writes(p, d)' :
                      j < i => Fits(Target(At(p, d, j)'), At(p, d, i)')
      <4>1. 1 < f[i]
        <5>1. f[i] \in 1..last /\ f[i] # 1
          BY <1>5, WayFacts
        <5>2. QED
          BY <1>2, <5>1
      <4>2. Fits(pg'.row[d], At(p, d, i)')
        BY <1>5, <2>1, <2>3, <4>1 DEF InTurn, Following
      <4>3. \A j \in Writes(p, d)' :
              j < i => Fits(Target(At(p, d, j)'), At(p, d, i)')
        BY <1>5, <1>6 DEF InTurn, Following
      <4>4. QED
        BY <4>2, <4>3
    <3>2. QED
      BY <2>4, <3>1 DEF InTurn
  <2>9. Settled(d)'
    <3>1. ASSUME Writes(p, d)' = {} PROVE pg'.row[d] = RowOf(rec'[d])
      <4>1. PICK k \in Writes(p, d) : Target(At(p, d, k)) = RowOf(rec[d])
        BY <2>1 DEF LeadsThere, Following
      <4>2. k = 1
        BY <1>7, <3>1
      <4>3. QED
        BY <1>1, <2>1, <2>3, <4>1, <4>2
    <3>2. QED
      BY <1>1, <2>4, <3>1 DEF Settled
  <2>10. QED
    BY <2>5, <2>6, <2>7, <2>8, <2>9 DEF Following
<1>11. QED
  BY <1>9, <1>10

\* What enqueue does with what p has done to e.
LEMMA SendFollows ==
    ASSUME TeeTypeOK, TeeTypeOK', NEW d \in Dispatch, Following(d),
           NEW p \in Process, NEW e \in Dispatch, Send(p, e), apart'[d] = {},
           mid[p][e] = Nothing \/ mid[p][e].d = e
    PROVE  Following(d)'
<1> DEFINE o    == mid[p][e]
           last == QueueCap + 1
<1>1. /\ o # Nothing /\ o.d = e /\ UNCHANGED <<rec, pg>>
      /\ mid'[p][e] = Nothing
      /\ \A q \in Process, c \in Dispatch :
            q # p \/ c # e => mid'[q][c] = mid[q][c]
  BY DEF Send, Then, TeeTypeOK
<1>2. /\ o \in Ops /\ queue[p] \in Seq(Ops) /\ QueueCap \in Nat
      /\ Len(queue[p]) \in Nat /\ Len(queue[p]) <= QueueCap
  BY <1>1, WayFacts DEF Late
<1>3. ~ Write(d, Nothing)
  BY DEF Write, Nothing
<1>4. SameRow(d)
  BY <1>1 DEF SameRow
<1>5. \A q \in Process : q # p => \E f : SameWay(q, d, f)
  BY <1>1, WayIdle DEF Send, TeeTypeOK
<1>6. CASE UNCHANGED queue
  <2>1. ~ Write(d, o) \/ Len(queue[p]) < QueueCap
    <3>1. apart \in [Dispatch -> SUBSET {"lost", "requeued", "overtaken"}]
      BY DEF TeeTypeOK
    <3>2. ASSUME Write(d, o), Len(queue[p]) = QueueCap PROVE FALSE
      <4>1. o.op # "alloc" /\ d = e
        BY <1>1, <3>2 DEF Write
      <4>2. Note({d}, "lost")
        BY <1>2, <3>2, <4>1 DEF Send
      <4>3. QED
        BY <3>1, <4>2 DEF Note
    <3>3. QED
      BY <1>2, <3>2
  <2>2. ~ (Len(queue[p]) < QueueCap)
    <3>1. ASSUME Len(queue[p]) < QueueCap PROVE FALSE
      <4>1. queue'[p] = Append(queue[p], o)
        BY <1>2, <3>1 DEF Send, TeeTypeOK
      <4>2. Len(queue'[p]) = Len(queue[p]) + 1
        BY <1>2, <4>1
      <4>3. QED
        BY <1>2, <1>6, <4>2
    <3>2. QED
      BY <3>1
  <2>3. \E f : SameWay(p, d, f)
    BY <1>1, <1>3, <1>6, <2>1, <2>2, WayIdle
  <2>4. QED
    BY <1>1, <1>4, <1>5, <2>3, WayMoved
<1>7. CASE queue' = [queue EXCEPT ![p] = Append(@, o)] /\ Len(queue[p]) < QueueCap
  <2>0. PICK n \in Nat : n = Len(queue[p]) + 1
    BY <1>2
  <2> DEFINE f == [i \in Nat |-> IF d = e /\ i = n THEN last ELSE i]
  <2>1. /\ queue'[p] = Append(queue[p], o)
        /\ Len(queue'[p]) = n /\ queue'[p][n] = o
        /\ \A i \in 1..Len(queue[p]) : queue'[p][i] = queue[p][i]
        /\ n \in 1..QueueCap /\ n # last
        /\ \A i \in 1..n : i = n \/ i \in 1..Len(queue[p])
        /\ \A i \in 1..Len(queue[p]) : i \in 1..n /\ i # n /\ i # last
    <3>1. queue'[p] = Append(queue[p], o)
      BY <1>7 DEF TeeTypeOK
    <3>2. QED
      BY <1>2, <1>7, <2>0, <3>1
  <2>2. Places(p)' = (1..Len(queue[p])) \cup {n, last}
    BY <2>1 DEF Places
  <2>3. /\ At(p, d, n)' = o
        /\ At(p, d, last)' = IF d = e THEN Nothing ELSE At(p, d, last)
        /\ d = e => At(p, d, last) = o
        /\ \A i \in 1..Len(queue[p]) : At(p, d, i)' = At(p, d, i)
    BY <1>1, <2>1 DEF At
  <2>4. \A i \in Writes(p, d)' :
          /\ f[i] \in Writes(p, d) /\ At(p, d, i)' = At(p, d, f[i])
          /\ i \in 1..Len(queue[p]) \/ (d = e /\ i = n) \/ (d # e /\ i = last)
    <3>1. ASSUME NEW i \in Writes(p, d)', i \in 1..Len(queue[p])
          PROVE  f[i] \in Writes(p, d) /\ At(p, d, i)' = At(p, d, f[i])
      <4>1. f[i] = i
        BY <2>1, <3>1
      <4>2. Write(d, At(p, d, i)') /\ At(p, d, i)' = At(p, d, i)
        BY <2>3, <3>1 DEF Writes
      <4>3. QED
        BY <3>1, <4>1, <4>2 DEF Writes, Places
    <3>2. ASSUME NEW i \in Writes(p, d)', i = n
          PROVE  d = e /\ f[i] \in Writes(p, d) /\ At(p, d, i)' = At(p, d, f[i])
      <4>1. Write(d, o)
        BY <2>3, <3>2 DEF Writes
      <4>2. d = e
        BY <1>1, <4>1 DEF Write
      <4>3. f[i] = last
        BY <2>1, <3>2, <4>2
      <4>4. QED
        BY <2>3, <3>2, <4>1, <4>2, <4>3 DEF Writes, Places
    <3>3. ASSUME NEW i \in Writes(p, d)', i = last
          PROVE  d # e /\ f[i] \in Writes(p, d) /\ At(p, d, i)' = At(p, d, f[i])
      <4>1. Write(d, At(p, d, last)')
        BY <3>3 DEF Writes
      <4>2. d # e
        BY <1>3, <2>3, <4>1
      <4>3. f[i] = last
        BY <1>2, <2>1, <3>3
      <4>4. QED
        BY <2>3, <3>3, <4>1, <4>2, <4>3 DEF Writes, Places
    <3>4. QED
      BY <2>2, <3>1, <3>2, <3>3 DEF Writes
  <2>5. \A i, j \in Writes(p, d)' : i < j <=> f[i] < f[j]
    <3>1. \A i \in 1..Len(queue[p]) : i < n /\ i < last /\ f[i] = i /\ i \in Nat
      BY <1>2, <2>1
    <3>2. n \in Nat /\ last \in Nat /\ n < last
      BY <1>2, <2>1
    <3>3. f[n] = (IF d = e THEN last ELSE n) /\ f[last] = last
      BY <2>1, <3>2
    <3>4. ASSUME NEW i \in Writes(p, d)', NEW j \in Writes(p, d)'
          PROVE  i < j <=> f[i] < f[j]
      <4>1. /\ i \in 1..Len(queue[p]) \/ (d = e /\ i = n) \/ (d # e /\ i = last)
            /\ j \in 1..Len(queue[p]) \/ (d = e /\ j = n) \/ (d # e /\ j = last)
        BY <2>4
      <4> HIDE DEF f, last
      <4>2. QED
        BY <3>1, <3>2, <3>3, <4>1
    <3>5. QED
      BY <3>4
  <2>6. \A k \in Writes(p, d) : \E i \in Writes(p, d)' : f[i] = k
    <3>1. ASSUME NEW k \in Writes(p, d), k \in 1..Len(queue[p])
          PROVE  k \in Writes(p, d)' /\ f[k] = k
      <4>1. Write(d, At(p, d, k)')
        BY <2>3, <3>1, WayFacts
      <4>2. QED
        BY <2>1, <2>2, <3>1, <4>1 DEF Writes
    <3>2. ASSUME NEW k \in Writes(p, d), k = last, d = e
          PROVE  n \in Writes(p, d)' /\ f[n] = k
      <4>1. Write(d, o)
        BY <2>3, <3>2 DEF Writes
      <4>2. QED
        BY <2>1, <2>2, <2>3, <3>2, <4>1 DEF Writes
    <3>3. ASSUME NEW k \in Writes(p, d), k = last, d # e
          PROVE  last \in Writes(p, d)' /\ f[last] = k
      <4>1. Write(d, At(p, d, last)')
        BY <2>3, <3>3 DEF Writes
      <4>2. QED
        BY <1>2, <2>1, <2>2, <3>3, <4>1 DEF Writes
    <3>4. \A k \in Writes(p, d) : k \in 1..Len(queue[p]) \/ k = last
      BY DEF Writes, Places
    <3>5. QED
      BY <3>1, <3>2, <3>3, <3>4
  <2>7. SameWay(p, d, f)
    BY <2>4, <2>5, <2>6 DEF SameWay
  <2> HIDE DEF f
  <2>8. \A q \in Process : \E g : SameWay(q, d, g)
    BY <1>5, <2>7
  <2>9. QED
    BY <1>1, <1>4, <2>8, WayMoved
<1>8. QED
  BY <1>6, <1>7 DEF Send

\* What a process has on its way may be gone with it: then it is noted.
LEMMA CrashFollows ==
    ASSUME TeeTypeOK, TeeTypeOK', NEW d \in Dispatch, Following(d),
           NEW p \in Process, Crash(p), apart'[d] = {}
    PROVE  Following(d)'
<1>1. /\ queue'[p] = <<>> /\ mid'[p][d] = Nothing
      /\ \A q \in Process : q # p => queue'[q] = queue[q] /\ mid'[q] = mid[q]
      /\ UNCHANGED <<rec, pg>>
  BY DEF Crash, TeeTypeOK
<1>2. Behind(p, d) = {}
  BY DEF Crash, Note, TeeTypeOK
<1>3. Writes(p, d) = {}
  BY <1>2, BehindIsWrites
<1>4. Writes(p, d)' = {}
  <2>1. Places(p)' = {QueueCap + 1}
    BY <1>1 DEF Places
  <2>2. ~ Write(d, At(p, d, QueueCap + 1)')
    BY <1>1 DEF At, Write, Nothing
  <2>3. QED
    BY <2>1, <2>2 DEF Writes
<1>5. SameWay(p, d, <<>>)
  BY <1>3, <1>4 DEF SameWay
<1>6. \A q \in Process : \E f : SameWay(q, d, f)
  BY <1>1, <1>5, WayIdle
<1>7. SameRow(d)
  BY <1>1 DEF SameRow
<1>8. QED
  BY <1>1, <1>6, <1>7, WayMoved

\* A step that is none of these for d: nothing of d moves, and the record
\* changes at most its deadline.
LEMMA OthersFollow ==
    ASSUME TeeTypeOK, TeeTypeOK', NEW d \in Dispatch, Following(d),
           UNCHANGED <<queue, pg>>,
           \A p \in Process : mid'[p][d] = mid[p][d],
           rec'[d] = rec[d] \/ rec'[d] = Elapsed(rec[d])
    PROVE  Following(d)'
<1>1. rec[d] \in Record
  BY DEF TeeTypeOK, StoreTypeOK
<1>2. /\ rec'[d].status = rec[d].status /\ rec'[d].holder = rec[d].holder
      /\ RowOf(rec'[d]) = RowOf(rec[d])
  <2>1. CASE rec'[d] = rec[d]
    BY <2>1
  <2>2. CASE rec'[d] = Elapsed(rec[d])
    <3>1. /\ rec'[d].status = rec[d].status /\ rec'[d].holder = rec[d].holder
          /\ rec'[d].lease # NoLease <=> rec[d].lease # NoLease
      BY <1>1, <2>2 DEF Elapsed, Record, Deadline, NoLease
    <3>2. (rec'[d].lease # NoLease) = (rec[d].lease # NoLease)
      BY <3>1
    <3>3. QED
      BY <3>1, <3>2, Zenon DEF RowOf
  <2>3. QED
    BY <2>1, <2>2
<1>3. \A p \in Process : \E f : SameWay(p, d, f)
  BY WayIdle
<1>4. SameRow(d)
  BY DEF SameRow
<1>5. QED
  BY <1>2, <1>3, <1>4, WayMoved

\* What has come between the stores of d stays on record.
LEMMA ApartStays ==
    ASSUME TeeTypeOK, [TeeNext]_vars, NEW d \in Dispatch, apart'[d] = {}
    PROVE  apart[d] = {}
<1>1. apart' = apart \/ \E D, why : Note(D, why)
  BY DEF TeeNext, AllocDispatch, QueueDispatch, ExpireLeases, ClaimDispatch,
         WriteReason, WriteRunning, RenewLease, ReleaseDispatch, Send, Mirror,
         Close, Exit, Crash, TimePasses, vars
<1>2. ASSUME NEW D, NEW why, Note(D, why) PROVE apart[d] = {}
  <2>1. apart'[d] = IF d \in D THEN apart[d] \cup {why} ELSE apart[d]
    BY <1>2 DEF Note
  <2>2. QED
    BY <2>1
<1>3. QED
  BY <1>1, <1>2

\* A call leaves what it did to its dispatch in the place for that.
LEMMA MidStays ==
    ASSUME MirrorInv, FollowInv, MirrorInv', [TeeNext]_vars,
           NEW p \in Process, NEW d \in Dispatch
    PROVE  mid'[p][d] = Nothing \/ mid'[p][d].d = d
<1> DEFINE Own == mid'[p][d] = Nothing \/ mid'[p][d].d = d
<1>1. mid[p][d] = Nothing \/ mid[p][d].d = d
  BY DEF FollowInv
<1>2. mid \in [Process -> [Dispatch -> Late]] /\ Dispatch \subseteq Process
      /\ Executor \subseteq Process
  BY DEF MirrorInv, TeeTypeOK, Late, Process
<1>3. ASSUME NEW q \in Process, NEW e \in Dispatch, NEW o, Then(q, e, o),
             o = Nothing \/ o.d = e
      PROVE  Own
  BY <1>1, <1>2, <1>3 DEF Then
<1>4. ASSUME NEW e \in Dispatch, Call(e) PROVE Own
  <2>1. CASE AllocDispatch(e) \/ QueueDispatch(e)
    BY <1>2, <1>3, <2>1 DEF AllocDispatch, QueueDispatch
  <2>2. ASSUME NEW x \in Executor, ClaimDispatch(x, e) PROVE Own
    BY <1>2, <1>3, <2>2 DEF ClaimDispatch
  <2>3. ASSUME NEW x \in Executor, WriteReason(x, e) \/ WriteRunning(x, e)
        PROVE  Own
    BY <1>2, <1>3, <2>3 DEF WriteReason, WriteRunning
  <2>4. ASSUME NEW x \in Executor, RenewLease(x, e) PROVE Own
    BY <1>2, <1>3, <2>4 DEF RenewLease
  <2>5. ASSUME NEW x \in Executor, ReleaseDispatch(x, e) PROVE Own
    <3>1. PICK s \in Outcomes :
            Then(x, e, [op |-> "release", d |-> e, x |-> x, s |-> s])
      BY <2>5 DEF ReleaseDispatch
    <3>2. QED
      BY <1>2, <1>3, <3>1
  <2>6. QED
    BY <1>4, <2>1, <2>2, <2>3, <2>4, <2>5 DEF Call
<1>5. ASSUME NEW q \in Process, NEW e \in Dispatch, Send(q, e) PROVE Own
  BY <1>3, <1>5 DEF Send
<1>6. ASSUME NEW q \in Process, Crash(q) PROVE Own
  BY <1>1, <1>2, <1>6 DEF Crash
<1>7. ASSUME \/ \E e \in Dispatch : ExpireLeases(e)
             \/ \E q \in Process : Mirror(q) \/ Close(q) \/ Exit(q)
             \/ TimePasses \/ UNCHANGED vars
      PROVE  Own
  BY <1>1, <1>7 DEF ExpireLeases, Mirror, Close, Exit, TimePasses, vars
<1>8. QED
  BY <1>4, <1>5, <1>6, <1>7 DEF TeeNext, Call

\* Each step leaves the mirror following d, or is noted.
LEMMA FollowStep ==
    ASSUME MirrorInv, FollowInv, MirrorInv', [TeeNext]_vars,
           NEW d \in Dispatch, apart'[d] = {}
    PROVE  Following(d)'
<1>1. TeeTypeOK /\ TeeTypeOK' /\ HeldIffLeased
  BY DEF MirrorInv
<1>2. Following(d)
  BY <1>1, ApartStays DEF FollowInv
<1>3. /\ mid \in [Process -> [Dispatch -> Late]]
      /\ rec \in [Dispatch -> Record] /\ Dispatch \subseteq Process
      /\ Executor \subseteq Process
  BY <1>1 DEF TeeTypeOK, StoreTypeOK, Late, Process
<1>4. ASSUME NEW e \in Dispatch, Call(e) PROVE Following(d)'
  <2>1. CASE e = d
    BY <1>1, <1>2, <1>4, <2>1, CallsFollow
  <2>2. CASE e # d
    <3>1. rec'[d] = rec[d]
      BY <1>3, <1>4, <2>2
      DEF Call, AllocDispatch, QueueDispatch, Enqueue, ClaimDispatch, Claim,
          WriteReason, WriteRunning, Start, RenewLease, Renew, ReleaseDispatch,
          Release, Put
    <3>2. \E q \in Process : \E o : Then(q, e, o)
      BY <1>3, <1>4
      DEF Call, AllocDispatch, QueueDispatch, ClaimDispatch, WriteReason,
          WriteRunning, RenewLease, ReleaseDispatch
    <3>3. \A p \in Process : mid'[p][d] = mid[p][d]
      BY <1>3, <2>2, <3>2 DEF Then
    <3>4. UNCHANGED <<queue, pg>>
      BY <1>4
      DEF Call, AllocDispatch, QueueDispatch, ClaimDispatch, WriteReason,
          WriteRunning, RenewLease, ReleaseDispatch
    <3>5. QED
      BY <1>1, <1>2, <3>1, <3>3, <3>4, OthersFollow
  <2>3. QED
    BY <2>1, <2>2
<1>5. ASSUME NEW e \in Dispatch, ExpireLeases(e) PROVE Following(d)'
  <2>1. e # d
    BY <1>5 DEF ExpireLeases, Note
  <2>2. rec'[d] = rec[d] /\ UNCHANGED <<queue, pg, mid>>
    BY <1>3, <1>5, <2>1 DEF ExpireLeases, Expire, Put
  <2>3. QED
    BY <1>1, <1>2, <2>2, OthersFollow
<1>6. ASSUME NEW p \in Process, NEW e \in Dispatch, Send(p, e) PROVE Following(d)'
  BY <1>1, <1>2, <1>6, SendFollows DEF FollowInv
<1>7. ASSUME NEW p \in Process, Mirror(p) \/ Crash(p) PROVE Following(d)'
  BY <1>1, <1>2, <1>7, MirrorFits, CrashFollows
<1>8. CASE TimePasses
  BY <1>1, <1>2, <1>8, OthersFollow DEF TimePasses, Elapse
<1>9. ASSUME (\E p \in Process : Close(p) \/ Exit(p)) \/ UNCHANGED vars
      PROVE  Following(d)'
  <2>1. UNCHANGED <<rec, pg, queue, mid>>
    BY <1>9 DEF Close, Exit, vars
  <2>2. QED
    BY <1>1, <1>2, <2>1, OthersFollow
<1>10. QED
  BY <1>4, <1>5, <1>6, <1>7, <1>8, <1>9 DEF TeeNext, Call

\* At first there is nothing to follow.
LEMMA FollowStarts == TeeInit => FollowInv
<1> SUFFICES ASSUME TeeInit PROVE FollowInv
  OBVIOUS
<1>1. \A p \in Process, d \in Dispatch : mid[p][d] = Nothing
  BY DEF TeeInit
<1>2. ASSUME NEW d \in Dispatch PROVE Following(d)
  <2>1. \A p \in Process : Writes(p, d) = {}
    <3>1. ASSUME NEW p \in Process PROVE Places(p) = {QueueCap + 1}
      <4>1. Len(queue[p]) = 0
        BY DEF TeeInit
      <4>2. QED
        BY <4>1 DEF Places
    <3>2. \A p \in Process : ~ Write(d, At(p, d, QueueCap + 1))
      BY <1>1 DEF At, Write, Nothing
    <3>3. QED
      BY <3>1, <3>2 DEF Writes
  <2>2. pg.row[d] = NoRow /\ rec[d].status = "absent"
    BY DEF TeeInit, EmptyTable, StoreInit, Unclaimed
  <2>3. QED
    BY <2>1, <2>2 DEF Following, OneWriter, NotPast, LeadsThere, InTurn, Settled
<1>3. QED
  BY <1>1, <1>2 DEF FollowInv

\* The mirror shows the record of a dispatch as soon as it has caught up on it,
\* unless an operation on it was lost, it was re-queued, or its claim came
\* before the requester's writes: for any number of processes and dispatches,
\* in whatever order the queues are drained, and whatever is lost of others.
THEOREM MirrorFollowsRecord == TeeSpec => []MirrorFollows
<1>1. TeeInit => MirrorInv /\ FollowInv
  BY MirrorInvInductive, FollowStarts
<1>2. MirrorInv /\ FollowInv /\ [TeeNext]_vars => (MirrorInv /\ FollowInv)'
  <2>1. ASSUME MirrorInv, FollowInv, [TeeNext]_vars PROVE MirrorInv' /\ FollowInv'
    <3>1. MirrorInv'
      BY <2>1, MirrorInvInductive
    <3>2. \A p \in Process, d \in Dispatch :
            mid'[p][d] = Nothing \/ mid'[p][d].d = d
      BY <2>1, <3>1, MidStays
    <3>3. \A d \in Dispatch : apart'[d] = {} => Following(d)'
      BY <2>1, <3>1, FollowStep
    <3>4. QED
      BY <3>1, <3>2, <3>3 DEF FollowInv
  <2>2. QED
    BY <2>1
<1>3. MirrorInv /\ FollowInv => MirrorFollows
  <2>1. ASSUME MirrorInv, FollowInv, NEW d \in Dispatch,
               apart[d] = {}, CaughtUp(d)
        PROVE  IF rec[d].status = "absent" THEN ~ pg.row[d].written
                                           ELSE pg.row[d] = RowOf(rec[d])
    <3>1. \A p \in Process : Writes(p, d) = {}
      BY <2>1, BehindIsWrites DEF CaughtUp, MirrorInv
    <3>2. Settled(d)
      BY <2>1 DEF FollowInv, Following
    <3>3. ~ NoRow.written /\ ~ Placeholder.written
      BY DEF NoRow, Placeholder
    <3>4. QED
      BY <3>1, <3>2, <3>3 DEF Settled
  <2>2. QED
    BY <2>1 DEF MirrorFollows
<1>4. QED
  BY <1>1, <1>2, <1>3, PTL DEF TeeSpec
=============================================================================
