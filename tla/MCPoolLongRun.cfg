\* An adapter run that outlasts the lease, with a renewer that is never late.
CONSTANTS
  Dispatch = {d1}
  Executor = {p1, p2}
  None = None
  Lease = 3
  MaxHold = 5
  MaxSetup = 1
  RenewEvery = 1
  MaxConcurrent = 1
  ActiveCap = 4
  Refused = {}
  Results = {"completed"}
  MaxFaults = 0
SPECIFICATION Spec
INVARIANTS
  NoDoubleRun
