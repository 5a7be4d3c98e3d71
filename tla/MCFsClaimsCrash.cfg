\* One crash between the two steps of an operation.
CONSTANTS
  Dispatch = {d1}
  Executor = {p1, p2}
  None = None
  Lease = 2
  MaxFaults = 0
  MaxCrashes = 1
SPECIFICATION FairFsSpec
PROPERTIES
  PendingTaken
