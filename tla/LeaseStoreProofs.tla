-------------------------- MODULE LeaseStoreProofs --------------------------
(* The claim/lease contract of scratch.Store, for any number of dispatches *)
(* and executors and any lease duration.                                   *)
EXTENDS LeaseStore, TLAPS

StoreInv == StoreTypeOK /\ HeldIffLeased

\* The record stays well typed and names a holder exactly while held.
LEMMA StoreInvInductive == StoreInv /\ [StoreNext]_rec => StoreInv'
<1> SUFFICES ASSUME StoreInv, [StoreNext]_rec PROVE StoreInv'
  OBVIOUS
<1> USE LeaseStoreAssumption DEF StoreInv, StoreTypeOK, HeldIffLeased, Record,
        Status, Held, Terminal, Deadline, NoLease, Unclaimed, Put
<1>1. ASSUME NEW d \in Dispatch, Enqueue(d) PROVE StoreInv'
  BY <1>1 DEF Enqueue
<1>2. ASSUME NEW d \in Dispatch, Expire(d) PROVE StoreInv'
  BY <1>2 DEF Expire, CanExpire
<1>3. ASSUME NEW d \in Dispatch, NEW x \in Executor, Claim(x, d) PROVE StoreInv'
  BY <1>3 DEF Claim, CanClaim
<1>4. ASSUME NEW d \in Dispatch, NEW x \in Executor, Renew(x, d) PROVE StoreInv'
  BY <1>4 DEF Renew, CanRenew
<1>5. ASSUME NEW d \in Dispatch, NEW x \in Executor, Start(x, d) PROVE StoreInv'
  BY <1>5 DEF Start, CanRenew
<1>6. ASSUME NEW d \in Dispatch, NEW x \in Executor, NEW s \in Terminal,
             Release(x, d, s)
      PROVE  StoreInv'
  BY <1>6 DEF Release, CanRelease
<1>7. CASE Elapse
  BY <1>7 DEF Elapse, Elapsed
<1>8. CASE UNCHANGED rec
  BY <1>8
<1>9. QED
  BY <1>1, <1>2, <1>3, <1>4, <1>5, <1>6, <1>7, <1>8 DEF StoreNext

\* No record exists at first.
LEMMA StoreStarts == StoreInit => StoreInv
BY LeaseStoreAssumption
DEF StoreInit, StoreInv, StoreTypeOK, HeldIffLeased, Record, Status, Held,
    Terminal, Deadline, NoLease, Unclaimed

\* scratch.Store's records keep their type, and carry a holder and a
\* deadline exactly while they are claimed or running.
THEOREM StoreInvariant == StoreSpec => [](StoreTypeOK /\ HeldIffLeased)
BY StoreStarts, StoreInvInductive, PTL DEF StoreSpec, StoreInv

\* A step of the store leaves the record of a finished dispatch as it is.
LEMMA FinalStep ==
    ASSUME StoreInv, [StoreNext]_rec, NEW e \in Dispatch,
           rec[e].status \in Terminal
    PROVE  rec'[e] = rec[e]
<1> USE LeaseStoreAssumption DEF StoreInv, StoreTypeOK, HeldIffLeased, Record,
        Held, Terminal, NoLease, Put
<1>1. ASSUME NEW d \in Dispatch,
             \/ Enqueue(d)
             \/ Expire(d)
             \/ \E x \in Executor : Claim(x, d) \/ Renew(x, d) \/ Start(x, d)
             \/ \E x \in Executor, s \in Terminal : Release(x, d, s)
      PROVE  rec'[e] = rec[e]
  BY <1>1 DEF Enqueue, Expire, CanExpire, Claim, CanClaim, Renew, Start,
              CanRenew, Release, CanRelease
<1>2. CASE Elapse
  <2>1. rec[e].lease = NoLease
    OBVIOUS
  <2>2. QED
    BY <2>1, <1>2 DEF Elapse, Elapsed
<1>3. QED
  BY <1>1, <1>2 DEF StoreNext

\* No operation of the store takes a finished dispatch out of its terminal
\* status or changes anything in its record.
THEOREM StoreTerminalIsFinal == StoreSpec => TerminalIsFinal
<1>1. StoreInv /\ [StoreNext]_rec =>
        [\A d \in Dispatch : rec[d].status \in Terminal => rec'[d] = rec[d]]_rec
  BY FinalStep
<1>2. QED
  BY <1>1, StoreInvariant, PTL DEF StoreSpec, TerminalIsFinal, StoreInv

\* A held dispatch changes hands only by going back to the queue first.
THEOREM StoreNoHandOver == StoreSpec => NoHandOver
<1> DEFINE Kept == \A d \in Dispatch :
                     rec[d].holder # None => rec'[d].holder \in {rec[d].holder, None}
<1>1. StoreInv /\ [StoreNext]_rec => [Kept]_rec
  <2> SUFFICES ASSUME StoreInv, StoreNext, NEW e \in Dispatch,
                      rec[e].holder # None
               PROVE  rec'[e].holder \in {rec[e].holder, None}
    BY DEF Kept
  <2> USE LeaseStoreAssumption DEF StoreInv, StoreTypeOK, HeldIffLeased, Record,
          Held, NoLease, Put, Unclaimed
  <2>1. ASSUME NEW d \in Dispatch,
               \/ Enqueue(d)
               \/ Expire(d)
               \/ \E x \in Executor : Claim(x, d) \/ Renew(x, d) \/ Start(x, d)
               \/ \E x \in Executor, s \in Terminal : Release(x, d, s)
        PROVE  rec'[e].holder \in {rec[e].holder, None}
    BY <2>1 DEF Enqueue, Expire, CanExpire, Claim, CanClaim, Renew, Start,
                CanRenew, Release, CanRelease
  <2>2. CASE Elapse
    BY <2>2 DEF Elapse, Elapsed
  <2>3. QED
    BY <2>1, <2>2 DEF StoreNext
<1>2. QED
  BY <1>1, StoreInvariant, PTL DEF StoreSpec, NoHandOver, StoreInv
=============================================================================
