CONSTANTS
  Dispatch = {d1, d2}
  Executor = {p1, p2}
  None = None
  Lease = 3
  MaxHold = 2
  MaxSetup = 2
  RenewEvery = 1
  MaxConcurrent = 1
  ActiveCap = 1
  Refused = {}
  Results = {"completed"}
  MaxFaults = 1
  Pools = {p1, p2}
  Nobody = None
  MaxStarts = 2
  MaxTrouble = 1
SPECIFICATION AgentsSpec
INVARIANTS
  HeldIffLeased
  NoDoubleRun
  OutcomeAccepted
  RerunNeedsFault
  
PROPERTIES
  StoreSpec
  TerminalIsFinal
  QueuedFinishes
  SlotFreed
CHECK_DEADLOCK FALSE
