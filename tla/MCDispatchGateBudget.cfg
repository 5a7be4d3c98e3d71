CONSTANTS
  MaxDepth = 3
  ReasonBudget = 2
  ActiveCap = 4
  Cmd = {c1}
  First = c1
  MaxAlone = 3
  MaxId = 3
  Roles = {"chief-architect", "worker"}
  TierFlags = {"", "reason"}
  Queueing = {TRUE, FALSE}
  Degraded = {"scrutiny"}
SPECIFICATION GateSpec
INVARIANT ReasonWithinBudget
CHECK_DEADLOCK FALSE
