CONSTANTS
    i1 = i1
    i2 = i2
    h1 = h1
    h2 = h2
    s1 = s1
    s2 = s2
    s3 = s3
    Instances = {i1}
    Workers = {i1}
    Handlers = {h1}
    HomeOf <- HomeOfHandlers
    Scans = {s1, s3}
    AssetOf <- AssetOfRows
    TypeOf <- TypeOfRows
    OrgOf <- OneOrg
    Manual = {}
    RankOf <- RankOfRows
    Concurrency = 2
    MaxPerOrg = 1
    MaxPerHour = 1
    MaxRetries = 1
    MaxFaults = 1
    NoScan = NoScan
    Nobody = Nobody
SPECIFICATION FairSpec
INVARIANTS
    OrgLimit
PROPERTIES
    EveryScanEnds
