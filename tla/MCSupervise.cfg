CONSTANTS
  Dispatch = {root, d1}
  Root = root
  Awaited = {d1}
  MaxKills = 1
  MaxLost = 1
SPECIFICATION FairSupSpec
INVARIANTS
  StaleIsGone
  TimedOutNotCompleted
  RunTellsRoot
  RunSettles
PROPERTIES
  AwaitAnswered
CHECK_DEADLOCK FALSE
