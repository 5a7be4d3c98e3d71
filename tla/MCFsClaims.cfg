\* Two pools and two dispatches, one failed update, one crash.
CONSTANTS
  Dispatch = {d1,d2}
  Executor = {p1, p2}
  None = None
  Lease = 2
  MaxFaults = 1
  MaxCrashes = 1
SPECIFICATION FairFsSpec
INVARIANTS
  
  
  NoOrphanClaim
PROPERTIES
  
  PendingTakenUnlessCrash
