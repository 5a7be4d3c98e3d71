--------------------------- MODULE FsClaimsProofs ---------------------------
(* The claim files of fsstore, for any number of processes, dispatches,    *)
(* failed updates and crashes.                                             *)
EXTENDS FsClaims, LeaseStoreProofs

Midway == {"created", "rollback", "unlink"}

\* A process between the two steps of an operation is alone with the claim
\* file, which is in its name, and the record is not claimed.
MidwayAlone(d) ==
    \A p \in Executor :
        op[p][d] \in Midway =>
            /\ claim[d] = p
            /\ rec[d].status \notin Held
            /\ \A q \in Executor : d \notin sweep[q]

\* So is a sweeper between the requeue and the unlink.
SweepAlone(d) ==
    \A p \in Executor :
        d \in sweep[p] =>
            /\ claim[d] # None
            /\ rec[d].status \notin Held
            /\ \A q \in Executor : d \in sweep[q] => q = p

\* A renewal in progress is the holder's, and its deadline is not past.
RewriteHeld(d) ==
    \A p \in Executor :
        op[p][d] = "rewrite" =>
            /\ rec[d].holder = p
            /\ rec[d].status \in Held
            /\ rec[d].lease > 0

\* HeldHasClaim and NoOrphanClaim, of one dispatch.
FileAccounted(d) ==
    /\ rec[d].status \in Held => claim[d] = rec[d].holder
    /\ crashes = 0 /\ claim[d] # None =>
        \/ rec[d].status \in Held
        \/ \E p \in Executor : op[p][d] \in Midway \/ d \in sweep[p]

Local(d) == MidwayAlone(d) /\ SweepAlone(d) /\ RewriteHeld(d) /\ FileAccounted(d)

\* A sweeper unlinks one claim file at a time.
SweepsOne ==
    \A p \in Executor, d, e \in Dispatch :
        d \in sweep[p] /\ e \in sweep[p] => d = e

FsInv ==
    /\ FsTypeOK
    /\ HeldIffLeased
    /\ SweepsOne
    /\ \A d \in Dispatch : Local(d)
-----------------------------------------------------------------------------

\* The constants, and what separates the statuses and steps.
LEMMA FsFacts ==
    /\ None \notin Executor
    /\ Lease \in Nat /\ Lease > 0
    /\ MaxFaults \in Nat /\ MaxCrashes \in Nat
    /\ "claimed" \in Held /\ "running" \in Held /\ "pending" \notin Held
    /\ "absent" \notin Held
    /\ \A s \in Terminal : s \notin Held
    /\ {"created", "rollback", "unlink"} = Midway
    /\ "idle" \notin Midway /\ "hold" \notin Midway /\ "rewrite" \notin Midway
BY LeaseStoreAssumption, FsClaimsAssumption DEF Held, Terminal, Midway

\* Every step of the file system store is a step of the contract, or leaves
\* the records alone.
LEMMA FsStoreStep == [FsNext]_fsvars => [StoreNext]_rec
<1> SUFFICES ASSUME [FsNext]_fsvars PROVE [StoreNext]_rec
  OBVIOUS
<1>1. ASSUME NEW d \in Dispatch, Queue(d) PROVE StoreNext
  BY <1>1 DEF Queue, StoreNext
<1>2. ASSUME NEW d \in Dispatch, NEW p \in Executor,
             \/ CreateClaim(p, d) \/ MarkRunning(p, d) \/ RenewMeta(p, d)
             \/ Requeue(p, d)
      PROVE  [StoreNext]_rec
  BY <1>2 DEF CreateClaim, MarkRunning, RenewMeta, Requeue, StoreNext
<1>3. ASSUME NEW d \in Dispatch, NEW p \in Executor, Advance(p, d)
      PROVE  [StoreNext]_rec
  BY <1>3 DEF Advance, UpdateClaimed, RollBack, RewriteClaim, ReleaseMeta,
              RemoveClaim, RemoveExpired, Rejected, StoreNext
<1>4. ASSUME NEW p \in Executor, Crash(p) \/ \E d \in Dispatch : UnlinkFails(p, d)
      PROVE  rec' = rec
  BY <1>4 DEF Crash, UnlinkFails
<1>5. CASE ClockTick
  BY <1>5 DEF ClockTick, StoreNext
<1>6. QED
  BY <1>1, <1>2, <1>3, <1>4, <1>5 DEF FsNext, fsvars

\* The variables keep their types.
LEMMA FsTypeStep ==
    ASSUME FsTypeOK, HeldIffLeased, [FsNext]_fsvars
    PROVE  FsTypeOK'
<1>1. StoreTypeOK'
  BY FsStoreStep, StoreInvInductive DEF FsTypeOK, StoreInv
<1>2. claim' \in [Dispatch -> Executor \cup {None}]
  BY DEF FsTypeOK, FsNext, fsvars, Queue, CreateClaim, MarkRunning, RenewMeta,
         Requeue, Advance, UpdateClaimed, RollBack, RewriteClaim, ReleaseMeta,
         RemoveClaim, RemoveExpired, UnlinkFails, Crash, ClockTick, WriteClaim,
         Unlink
<1>3. op' \in [Executor -> [Dispatch -> Op]]
  BY DEF FsTypeOK, FsNext, fsvars, Queue, CreateClaim, MarkRunning, RenewMeta,
         Requeue, Advance, UpdateClaimed, RollBack, RewriteClaim, ReleaseMeta,
         RemoveClaim, RemoveExpired, UnlinkFails, Crash, ClockTick, Goto, Op
<1>4. sweep' \in [Executor -> SUBSET Dispatch]
  BY DEF FsTypeOK, FsNext, fsvars, Queue, CreateClaim, MarkRunning, RenewMeta,
         Requeue, Advance, UpdateClaimed, RollBack, RewriteClaim, ReleaseMeta,
         RemoveClaim, RemoveExpired, UnlinkFails, Crash, ClockTick
<1>5. faults' \in 0..MaxFaults /\ crashes' \in 0..MaxCrashes
  BY FsFacts
  DEF FsTypeOK, FsNext, fsvars, Queue, CreateClaim, MarkRunning, RenewMeta,
      Requeue, Advance, UpdateClaimed, RollBack, RewriteClaim, ReleaseMeta,
      RemoveClaim, RemoveExpired, UnlinkFails, Crash, ClockTick, Rejected, Fault
<1>6. QED
  BY <1>1, <1>2, <1>3, <1>4, <1>5 DEF FsTypeOK

-----------------------------------------------------------------------------

\* What a process can do to a dispatch.
Touch(p, d) ==
    \/ CreateClaim(p, d)
    \/ MarkRunning(p, d)
    \/ RenewMeta(p, d)
    \/ Requeue(p, d)
    \/ Advance(p, d)

\* All that the invariant says of a dispatch.
Same(e) ==
    /\ rec'[e] = rec[e]
    /\ claim'[e] = claim[e]
    /\ \A q \in Executor : op'[q][e] = op[q][e]
    /\ \A q \in Executor : e \in sweep'[q] <=> e \in sweep[q]
    /\ crashes' = crashes

\* An operation on one dispatch changes nothing of another.
LEMMA OthersSame ==
    ASSUME FsTypeOK, SweepsOne, NEW p \in Executor, NEW d \in Dispatch,
           Touch(p, d), NEW e \in Dispatch, e # d
    PROVE  Same(e)
<1> USE DEF FsTypeOK, StoreTypeOK
<1>1. rec'[e] = rec[e] /\ claim'[e] = claim[e] /\ crashes' = crashes
  BY DEF Touch, CreateClaim, MarkRunning, RenewMeta, Requeue, Advance,
         UpdateClaimed, RollBack, RewriteClaim, ReleaseMeta, RemoveClaim,
         RemoveExpired, Rejected, WriteClaim, Unlink, Put, Expire,
         Claim, Start, Renew, Release
<1>2. \A q \in Executor : op'[q][e] = op[q][e]
  BY DEF Touch, CreateClaim, MarkRunning, RenewMeta, Requeue, Advance,
         UpdateClaimed, RollBack, RewriteClaim, ReleaseMeta, RemoveClaim,
         RemoveExpired, Goto
<1>3. \A q \in Executor : e \in sweep'[q] <=> e \in sweep[q]
  <2>1. CASE Requeue(p, d)
    BY <2>1 DEF Requeue
  <2>2. CASE RemoveExpired(p, d)
    <3>1. e \notin sweep[p]
      BY <2>2 DEF RemoveExpired, SweepsOne
    <3>2. QED
      BY <2>2, <3>1 DEF RemoveExpired
  <2>3. CASE ~ Requeue(p, d) /\ ~ RemoveExpired(p, d)
    BY <2>3 DEF Touch, CreateClaim, MarkRunning, RenewMeta, Advance,
                UpdateClaimed, RollBack, RewriteClaim, ReleaseMeta, RemoveClaim
  <2>4. QED
    BY <2>1, <2>2, <2>3
<1>4. QED
  BY <1>1, <1>2, <1>3 DEF Same

LEMMA SameLocal ==
    ASSUME NEW e \in Dispatch, Local(e), Same(e) PROVE Local(e)'
<1>1. MidwayAlone(e)'
  BY DEF Local, Same, MidwayAlone
<1>2. SweepAlone(e)'
  BY DEF Local, Same, SweepAlone
<1>3. RewriteHeld(e)'
  BY DEF Local, Same, RewriteHeld
<1>4. FileAccounted(e)'
  BY DEF Local, Same, FileAccounted
<1>5. QED
  BY <1>1, <1>2, <1>3, <1>4 DEF Local

\* Without a claim file nobody is about to remove one, and nobody holds the
\* record: O_EXCL decides the race.
LEMMA NoFileNoOwner ==
    ASSUME FsInv, NEW d \in Dispatch, claim[d] = None
    PROVE  /\ rec[d].status \notin Held
           /\ \A q \in Executor : op[q][d] \notin Midway /\ d \notin sweep[q]
                                /\ op[q][d] # "rewrite"
<1>1. rec[d].status \notin Held
  BY DEF FsInv, Local, FileAccounted, HeldIffLeased
<1>2. QED
  BY <1>1, FsFacts DEF FsInv, Local, MidwayAlone, SweepAlone, RewriteHeld

\* While the record is held nobody is about to remove the claim file.
LEMMA HeldNoOwner ==
    ASSUME FsInv, NEW d \in Dispatch, rec[d].status \in Held
    PROVE  /\ \A q \in Executor : op[q][d] \notin Midway /\ d \notin sweep[q]
           /\ claim[d] = rec[d].holder
BY DEF FsInv, Local, MidwayAlone, SweepAlone, FileAccounted

-----------------------------------------------------------------------------

\* An operation keeps the invariant of the dispatch it works on.
LEMMA LocalStep ==
    ASSUME FsInv, NEW p \in Executor, NEW d \in Dispatch, Touch(p, d)
    PROVE  Local(d)'
<1>1. /\ rec \in [Dispatch -> Record] /\ rec[d] \in Record
      /\ claim \in [Dispatch -> Executor \cup {None}]
      /\ op \in [Executor -> [Dispatch -> Op]]
      /\ sweep \in [Executor -> SUBSET Dispatch]
  BY DEF FsInv, FsTypeOK, StoreTypeOK
<1>2. Local(d) /\ HeldIffLeased
  BY DEF FsInv
<1> USE FsFacts
<1>3. CASE CreateClaim(p, d)
  <2>1. /\ claim[d] = None /\ claim'[d] = p /\ rec' = rec /\ sweep' = sweep
        /\ op'[p][d] = "created"
        /\ \A q \in Executor : q # p => op'[q][d] = op[q][d]
    BY <1>1, <1>3 DEF CreateClaim, WriteClaim, Goto
  <2>2. /\ rec[d].status \notin Held
        /\ \A q \in Executor : op[q][d] \notin Midway /\ d \notin sweep[q]
                             /\ op[q][d] # "rewrite"
    BY <2>1, NoFileNoOwner
  <2>3. QED
    BY <2>1, <2>2
    DEF Local, MidwayAlone, SweepAlone, RewriteHeld, FileAccounted
<1>4. ASSUME op[p][d] \in {"created", "rollback", "unlink"},
             \/ rec'[d] = rec[d] /\ op'[p][d] = "idle" /\ claim'[d] = None
             \/ rec'[d] = rec[d] /\ op'[p][d] = "rollback" /\ claim' = claim
             \/ /\ rec'[d] = [status |-> "claimed", holder |-> p, lease |-> Lease]
                /\ op'[p][d] = "hold" /\ claim[d] = p /\ claim' = claim,
             \A q \in Executor : q # p => op'[q][d] = op[q][d],
             sweep' = sweep
      PROVE  Local(d)'
  <2>1. /\ claim[d] = p /\ rec[d].status \notin Held
        /\ \A q \in Executor : d \notin sweep[q] /\ op[q][d] # "rewrite"
        /\ \A q \in Executor : q # p => op[q][d] \notin Midway
    BY <1>2, <1>4 DEF Local, MidwayAlone, RewriteHeld, Midway
  <2>2. QED
    BY <1>4, <2>1
    DEF Local, MidwayAlone, SweepAlone, RewriteHeld, FileAccounted
<1>5. CASE UpdateClaimed(p, d)
  <2>1. Claim(p, d) => rec'[d] = [status |-> "claimed", holder |-> p, lease |-> Lease]
    BY <1>1 DEF Claim, Put
  <2>2. op[p][d] = "created" => claim[d] = p
    BY <1>2 DEF Local, MidwayAlone
  <2>3. QED
    BY <1>1, <1>4, <1>5, <2>1, <2>2 DEF UpdateClaimed, Rejected, At, Goto
<1>6. CASE RollBack(p, d) \/ RemoveClaim(p, d)
  BY <1>1, <1>4, <1>6 DEF RollBack, RemoveClaim, At, Goto, Unlink, WriteClaim
<1>7. ASSUME rec[d].status \in Held,
             rec'[d].status \in Held, rec'[d].holder = rec[d].holder,
             rec'[d].lease = rec[d].lease \/ rec'[d].lease = Lease,
             claim'[d] = claim[d], sweep' = sweep,
             \/ op' = op
             \/ /\ op'[p][d] = "rewrite" /\ rec[d].holder = p /\ rec'[d].lease = Lease
                /\ \A q \in Executor : q # p => op'[q][d] = op[q][d]
             \/ /\ op'[p][d] = "hold"
                /\ \A q \in Executor : q # p => op'[q][d] = op[q][d]
      PROVE  Local(d)'
  <2>1. /\ \A q \in Executor : op[q][d] \notin Midway /\ d \notin sweep[q]
        /\ claim[d] = rec[d].holder
    BY <1>7, HeldNoOwner
  <2>2. MidwayAlone(d)' /\ SweepAlone(d)'
    BY <1>7, <2>1 DEF MidwayAlone, SweepAlone
  <2>3. RewriteHeld(d)'
    BY <1>1, <1>2, <1>7 DEF Local, RewriteHeld
  <2>4. FileAccounted(d)'
    BY <1>7, <2>1 DEF FileAccounted
  <2>5. QED
    BY <2>2, <2>3, <2>4 DEF Local
<1>8. CASE MarkRunning(p, d)
  <2>1. rec'[d] = [rec[d] EXCEPT !.status = "running"] /\ rec[d].status = "claimed"
    BY <1>1, <1>8 DEF MarkRunning, Start, CanRenew, Put
  <2>2. QED
    BY <1>1, <1>7, <1>8, <2>1 DEF MarkRunning, Record
<1>9. CASE RenewMeta(p, d)
  <2>1. /\ rec'[d] = [rec[d] EXCEPT !.lease = Lease] /\ rec[d].status = "claimed"
        /\ rec[d].holder = p
    BY <1>1, <1>9 DEF RenewMeta, Renew, CanRenew, Put
  <2>2. QED
    BY <1>1, <1>7, <1>9, <2>1 DEF RenewMeta, Goto, Record
<1>10. CASE RewriteClaim(p, d)
  <2>1. rec[d].status \in Held /\ rec[d].holder = p
    BY <1>2, <1>10 DEF RewriteClaim, At, Local, RewriteHeld
  <2>2. claim[d] = p
    BY <2>1, HeldNoOwner
  <2>3. QED
    BY <1>1, <1>7, <1>10, <2>1, <2>2 DEF RewriteClaim, Goto, WriteClaim
<1>11. CASE ReleaseMeta(p, d)
  <2>1. CASE \E s \in Terminal : Release(p, d, s) /\ Goto(p, d, "unlink")
    <3>1. rec[d].status \in Held /\ rec[d].holder = p
      BY <1>1, <1>2, <2>1 DEF Release, CanRelease, HeldIffLeased
    <3>2. rec'[d].status \notin Held
      BY <1>1, <2>1 DEF Release, Put, Unclaimed
    <3>3. /\ \A q \in Executor : op[q][d] \notin Midway /\ d \notin sweep[q]
          /\ claim[d] = p
      BY <3>1, HeldNoOwner
    <3>4. /\ op'[p][d] = "unlink" /\ claim' = claim /\ sweep' = sweep
          /\ \A q \in Executor : q # p => op'[q][d] = op[q][d]
      BY <1>1, <1>11, <2>1 DEF ReleaseMeta, Goto
    <3>5. \A q \in Executor : op[q][d] = "rewrite" => q = p
      BY <1>2, <3>1 DEF Local, RewriteHeld
    <3>6. QED
      BY <3>1, <3>2, <3>3, <3>4, <3>5
      DEF Local, MidwayAlone, SweepAlone, RewriteHeld, FileAccounted
  <2>2. CASE Rejected(CanRelease(p, d)) /\ Goto(p, d, "idle")
    <3>1. /\ op[p][d] = "hold" /\ op'[p][d] = "idle" /\ claim' = claim
          /\ sweep' = sweep /\ rec' = rec /\ crashes' = crashes
          /\ \A q \in Executor : q # p => op'[q][d] = op[q][d]
      BY <1>1, <1>11, <2>2 DEF ReleaseMeta, Rejected, At, Goto
    <3>2. MidwayAlone(d)' /\ SweepAlone(d)' /\ RewriteHeld(d)'
      BY <1>2, <3>1 DEF Local, MidwayAlone, SweepAlone, RewriteHeld
    <3>3. FileAccounted(d)'
      BY <1>2, <3>1 DEF Local, FileAccounted
    <3>4. QED
      BY <3>2, <3>3 DEF Local
  <2>3. QED
    BY <1>11, <2>1, <2>2 DEF ReleaseMeta
<1>12. CASE Requeue(p, d)
  <2>1. /\ rec[d].status \in Held /\ rec[d].lease = 0
        /\ rec'[d].status \notin Held
        /\ claim' = claim /\ op' = op /\ sweep'[p] = {d}
        /\ \A q \in Executor : q # p => sweep'[q] = sweep[q]
    BY <1>1, <1>12 DEF Requeue, Expire, CanExpire, Put, Unclaimed
  <2>2. /\ \A q \in Executor : op[q][d] \notin Midway /\ d \notin sweep[q]
        /\ claim[d] # None
    BY <1>1, <1>2, <2>1, HeldNoOwner DEF HeldIffLeased
  <2>3. \A q \in Executor : op[q][d] # "rewrite"
    BY <1>2, <2>1 DEF Local, RewriteHeld
  <2>4. QED
    BY <2>1, <2>2, <2>3
    DEF Local, MidwayAlone, SweepAlone, RewriteHeld, FileAccounted
<1>13. CASE RemoveExpired(p, d)
  <2>1. /\ d \in sweep[p] /\ claim'[d] = None /\ rec' = rec /\ op' = op
        /\ sweep'[p] = {}
        /\ \A q \in Executor : q # p => sweep'[q] = sweep[q]
    BY <1>1, <1>13 DEF RemoveExpired, Unlink, WriteClaim
  <2>2. /\ rec[d].status \notin Held
        /\ \A q \in Executor : d \in sweep[q] => q = p
        /\ \A q \in Executor : op[q][d] \notin Midway
    BY <1>2, <2>1 DEF Local, MidwayAlone, SweepAlone
  <2>3. QED
    BY <1>2, <2>1, <2>2
    DEF Local, MidwayAlone, SweepAlone, RewriteHeld, FileAccounted
<1>14. QED
  BY <1>3, <1>5, <1>6, <1>8, <1>9, <1>10, <1>11, <1>12, <1>13
  DEF Touch, Advance

-----------------------------------------------------------------------------

\* The invariant of the claim files holds initially, and no step breaks it.
LEMMA FsInvInductive == /\ FsInit => FsInv
                        /\ FsInv /\ [FsNext]_fsvars => FsInv'
<1>1. ASSUME FsInit PROVE FsInv
  <2>1. StoreInv
    BY <1>1, StoreStarts DEF FsInit
  <2>2. FsTypeOK
    BY <1>1, <2>1, FsFacts DEF FsInit, FsTypeOK, StoreInv, Op
  <2>3. SweepsOne
    BY <1>1 DEF FsInit, SweepsOne
  <2>4. ASSUME NEW d \in Dispatch PROVE Local(d)
    BY <1>1, FsFacts
    DEF FsInit, StoreInit, Unclaimed, Local, MidwayAlone, SweepAlone,
        RewriteHeld, FileAccounted
  <2>5. QED
    BY <2>1, <2>2, <2>3, <2>4 DEF FsInv, StoreInv
<1>2. ASSUME FsInv, [FsNext]_fsvars PROVE FsInv'
  <2>1. FsTypeOK'
    BY <1>2, FsTypeStep DEF FsInv
  <2>2. HeldIffLeased'
    BY <1>2, FsStoreStep, StoreInvInductive DEF FsInv, FsTypeOK, StoreInv
  <2>3. SweepsOne'
    BY <1>2
    DEF FsInv, FsTypeOK, SweepsOne, FsNext, fsvars, Queue, CreateClaim,
        MarkRunning, RenewMeta, Requeue, Advance, UpdateClaimed, RollBack,
        RewriteClaim, ReleaseMeta, RemoveClaim, RemoveExpired, Crash, ClockTick,
        UnlinkFails, Goto
  <2>4. ASSUME NEW e \in Dispatch PROVE Local(e)'
    <3>1. Local(e)
      BY <1>2 DEF FsInv
    <3>2. ASSUME NEW p \in Executor, NEW d \in Dispatch, Touch(p, d)
          PROVE  Local(e)'
      BY <1>2, <3>1, <3>2, LocalStep, OthersSame, SameLocal DEF FsInv
    <3>3. ASSUME NEW d \in Dispatch, Queue(d) PROVE Local(e)'
      <4>1. CASE d = e
        <5>1. /\ rec[e].status = "absent" /\ rec'[e].status = "pending"
              /\ claim' = claim /\ op' = op /\ sweep' = sweep
              /\ crashes' = crashes
          BY <1>2, <3>3, <4>1
          DEF Queue, Enqueue, Put, Unclaimed, FsInv, FsTypeOK, StoreTypeOK
        <5>2. QED
          BY <3>1, <5>1, FsFacts
          DEF Local, MidwayAlone, SweepAlone, RewriteHeld, FileAccounted
      <4>2. CASE d # e
        <5>1. Same(e)
          BY <1>2, <3>3, <4>2
          DEF Same, Queue, Enqueue, Put, FsInv, FsTypeOK, StoreTypeOK
        <5>2. QED
          BY <3>1, <5>1, SameLocal
      <4>3. QED
        BY <4>1, <4>2
    <3>4. ASSUME NEW p \in Executor, Crash(p) PROVE Local(e)'
      <4>1. /\ rec' = rec /\ claim' = claim /\ crashes' > 0
            /\ \A q \in Executor :
                  /\ op'[q][e] \in {op[q][e], "idle"}
                  /\ e \in sweep'[q] => e \in sweep[q]
        BY <1>2, <3>4 DEF Crash, FsInv, FsTypeOK
      <4>2. QED
        BY <3>1, <4>1, FsFacts
        DEF Local, MidwayAlone, SweepAlone, RewriteHeld, FileAccounted
    <3>5. ASSUME NEW p \in Executor, NEW d \in Dispatch, UnlinkFails(p, d)
          PROVE  Local(e)'
      <4>1. /\ rec' = rec /\ claim' = claim /\ crashes' > 0
            /\ \A q \in Executor :
                  /\ op'[q][e] \in {op[q][e], "idle"}
                  /\ e \in sweep'[q] => e \in sweep[q]
        BY <1>2, <3>5 DEF UnlinkFails, Goto, FsInv, FsTypeOK
      <4>2. QED
        BY <3>1, <4>1, FsFacts
        DEF Local, MidwayAlone, SweepAlone, RewriteHeld, FileAccounted
    <3>6. CASE ClockTick
      <4>1. /\ rec'[e] = Elapsed(rec[e]) /\ rec[e] \in Record
            /\ claim' = claim /\ op' = op /\ sweep' = sweep /\ crashes' = crashes
            /\ \A q \in Executor : op[q][e] = "rewrite" => rec[e].lease # 1
        BY <1>2, <3>6 DEF ClockTick, Elapse, At, FsInv, FsTypeOK, StoreTypeOK
      <4>2. /\ rec'[e].status = rec[e].status /\ rec'[e].holder = rec[e].holder
            /\ rec[e].lease > 0 /\ rec[e].lease # 1 => rec'[e].lease > 0
        BY <4>1, FsFacts DEF Elapsed, Record, Deadline, NoLease
      <4>3. MidwayAlone(e)' /\ SweepAlone(e)' /\ FileAccounted(e)'
        BY <3>1, <4>1, <4>2 DEF Local, MidwayAlone, SweepAlone, FileAccounted
      <4>4. RewriteHeld(e)'
        BY <3>1, <4>1, <4>2 DEF Local, RewriteHeld
      <4>5. QED
        BY <4>3, <4>4 DEF Local
    <3>7. CASE UNCHANGED fsvars
      BY <3>1, <3>7, SameLocal DEF fsvars, Same
    <3>8. QED
      BY <1>2, <3>2, <3>3, <3>4, <3>5, <3>6, <3>7 DEF FsNext, Touch
  <2>5. QED
    BY <2>1, <2>2, <2>3, <2>4 DEF FsInv
<1>3. QED
  BY <1>1, <1>2

LEMMA FsInvariant == FsSpec => []FsInv
BY FsInvInductive, PTL DEF FsSpec

\* The variables of the file system store keep their types.
THEOREM FsTypeCorrect == FsSpec => []FsTypeOK
<1>1. FsInv => FsTypeOK
  BY DEF FsInv
<1>2. QED
  BY <1>1, FsInvariant, PTL

\* At any time at most one party is about to unlink the claim file of a
\* dispatch, through crashes and failed updates.
THEOREM FsOneOwner == FsSpec => []OneOwner
<1>1. FsInv => OneOwner
  <2> SUFFICES ASSUME FsInv, NEW d \in Dispatch,
                      NEW u \in Owners(d), NEW v \in Owners(d)
               PROVE  u = v
    BY DEF OneOwner
  <2> USE DEF Owners, FsInv, Local
  <2>1. CASE rec[d].status \in Held
    BY <2>1, HeldNoOwner DEF Midway
  <2>2. CASE rec[d].status \notin Held /\ \E p \in Executor : op[p][d] \in Midway
    BY <2>2 DEF MidwayAlone, Midway
  <2>3. CASE rec[d].status \notin Held /\ \A p \in Executor : op[p][d] \notin Midway
    BY <2>3 DEF SweepAlone, Midway
  <2>4. QED
    BY <2>1, <2>2, <2>3
<1>2. QED
  BY <1>1, FsInvariant, PTL

\* A held record always has its claim file, in its holder's name.
THEOREM FsHeldHasClaim == FsSpec => []HeldHasClaim
<1>1. FsInv => HeldHasClaim
  BY DEF FsInv, Local, FileAccounted, HeldHasClaim
<1>2. QED
  BY <1>1, FsInvariant, PTL

\* Without crashes there is somebody to remove every claim file.
THEOREM FsNoOrphanClaim == FsSpec => []NoOrphanClaim
<1>1. FsInv => NoOrphanClaim
  <2> SUFFICES ASSUME FsInv, NEW d \in Dispatch, crashes = 0, claim[d] # None
               PROVE  Owners(d) # {}
    BY DEF NoOrphanClaim
  <2>1. \/ rec[d].status \in Held
        \/ \E p \in Executor : op[p][d] \in Midway \/ d \in sweep[p]
    BY DEF FsInv, Local, FileAccounted
  <2>2. QED
    BY <2>1 DEF Owners, Midway
<1>2. QED
  BY <1>1, FsInvariant, PTL

\* The file system store implements the claim/lease contract, crashes
\* included.
THEOREM FsImplementsStore == FsSpec => StoreSpec
<1>1. FsInit => StoreInit
  BY DEF FsInit
<1>2. QED
  BY <1>1, FsStoreStep, PTL DEF FsSpec, StoreSpec
=============================================================================
