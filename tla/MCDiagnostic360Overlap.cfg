CONSTANTS
    b1 = b1
    b2 = b2
    c1 = c1
    c2 = c2
    p1 = p1
    p2 = p2
    w1 = w1
    t1 = t1
    d1 = d1
    Batches = {b1}
    Scans = {p1, w1}
    TypeOf <- TypeOfRows
    TotalStages = 2
    StageTypes <- PerimeterFast
    Callers = {c1, c2}
    MaxDeaths = 0
    NoBatch = NoBatch
    NoScan = NoScan
SPECIFICATION Spec
INVARIANTS
    StageOrder
