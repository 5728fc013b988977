CONSTANTS
    Base = 1
    Max = 2
    MaxRows = 7
    Polling = TRUE
    DatabaseFails = TRUE
    b1 = b1
    c1 = c1
    c2 = c2
    p1 = p1
    w1 = w1
    Batches = {b1}
    Scans = {p1, w1}
    TypeOf <- TypeOfRows
    TotalStages = 2
    StageTypes <- PerimeterFast
    Callers = {c1, c2}
    MaxDeaths = 1
    NoBatch = NoBatch
    NoScan = NoScan
SPECIFICATION ProgressSpec
CHECK_DEADLOCK FALSE
INVARIANTS
    ActiveWithinMax
    NoLostWakeUp
PROPERTIES
    QueueDrains
    
