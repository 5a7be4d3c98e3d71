SPECIFICATION RecordsSpec
CONSTANTS
    Proc = {p1}
    None = none
    MaxWrites = 1
    MaxDeaths = 0
    MaxDispatch = 3
    MaxCalls = 3
    MaxBehind = 1
    MaxNeighbour = 0
INVARIANT PendingListed
CHECK_DEADLOCK FALSE
