\* The limits are the program's defaults but for the cap, which is three.
CONSTANTS
  MaxDepth = 2
  ReasonBudget = 2
  ActiveCap = 3
  Cmd = {c1, c2}
  First = c1
  MaxAlone = 3
  MaxId = 4
  Roles = {"chief-architect", "deep-report", "worker", "debugger", "investigator", "reviewer"}
  TierFlags = {"", "reason", "scrutiny", "execute", "other"}
  Queueing = {TRUE, FALSE}
  Degraded = {"scrutiny"}
SPECIFICATION MCSpec
INVARIANTS
  GateTypeOK
  ReasonFromRoot
  ReadOnlySubtrees
  DegradedServesExecute
  PoolRefusesForLimits
  
CHECK_DEADLOCK FALSE
