SPECIFICATION RecordsSpec
CONSTANTS
    Proc = {p1, p2, p3}
    None = none
    MaxWrites = 4
    MaxDeaths = 1
    MaxDispatch = 3
    MaxCalls = 6
    MaxBehind = 2
    MaxNeighbour = 3
INVARIANTS
    RecordAsWritten
    MirrorTellsSame
    ExportTellsSame
    SuitePasses
PROPERTY DocumentsAtomic
CHECK_DEADLOCK FALSE
