CONSTANTS
    b1 = b1
    b2 = b2
    c1 = c1
    c2 = c2
    p1 = p1
    p2 = p2
    w1 = w1
    t1 = t1
    d1 = d1
    Batches = {b1, b2}
    Scans = {d1, p1, p2, w1}
    TypeOf <- TypeOfRows
    TotalStages = 3
    StageTypes <- ThreeStages
    Callers = {c1}
    MaxDeaths = 1
    NoBatch = NoBatch
    NoScan = NoScan
SPECIFICATION Spec
INVARIANTS
    StageOrder
    FinishedBatchIsQuiet
    FailedMeansNoResults
