SPECIFICATION TeeFairSpec
CONSTANTS
    Dispatch = {1, 2}
    Queued = {2}
    Executor = {p1}
    Ending = {p1, 2}
    None = None
    p1 = p1
    Lease = 1
    QueueCap = 1
    Outcomes = {"completed"}
    MaxFaults = 1
    MaxRepeats = 1
CHECK_DEADLOCK FALSE
INVARIANTS
    TeeTypeOK
    
    RowsAllocated
    
PROPERTIES
    CallerNotBlocked
    CloseDrains
