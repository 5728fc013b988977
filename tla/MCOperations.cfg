CONSTANTS
    j1 = j1
    q1 = q1
    r1 = r1
    i1 = i1
    i2 = i2
    o1 = o1
    o2 = o2
    a1 = a1
    a2 = a2
    k1 = k1
    k2 = k2
    u1 = u1
    u2 = u2
    Alerts <- OneAlert
    Channels = {k1, k2}
    SeverityOf <- HighRank
    EmailChannels = {k2}
    Jobs = {j1}
    Schedulers = {q1}
    Requests = {r1}
    HostOf <- Hosts
    MaxAttempts = 2
    Take = 1
    MaxRequests = 1
    MaxEvents = 1
    Assets = {a1, a2}
    OwnerOf <- Owners
    Timers = {i1, i2}
    PeriodOf <- Periods
    Slack = 1
    BatchSize = 1
    MaxLag = 1
    MaxTrouble = 1
    Rows <- ThreeRows
    Owned = {a1, a2}
    Purges = {u1, u2}
SPECIFICATION FairSpec
CHECK_DEADLOCK FALSE
INVARIANTS
    DuplicateHasCause
    AttemptsAccounted
    LatestSurvives
PROPERTIES
    
    AuditsAreApart
    DueIsAudited
