\* Nobody is killed and no write fails.
CONSTANTS
  Dispatch = {root}
  Root = root
  Awaited = {}
  MaxKills = 0
  MaxLost = 0
SPECIFICATION FairSupSpec
PROPERTIES
  RootSettles
CHECK_DEADLOCK FALSE
