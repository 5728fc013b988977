CONSTANTS
    t1 = t1
    t2 = t2
    u1 = u1
    u2 = u2
    e1 = e1
    e2 = e2
    e3 = e3
    r1 = r1
    r2 = r2
    c1 = c1
    c2 = c2
    k1 = k1
    k2 = k2
    w1 = w1
    w2 = w2
    People = {w1, w2}
    Nobody = Nobody
    MaxSignIns = 3
    MaxChanges = 1
    NoUser = NoUser
    NoEmail = NoEmail
    NoToken = NoToken
    Tokens = {t1, t2}
    Users = {u1, u2}
    Emails = {e1, e2, e3}
    Requests = {r1, r2}
    MaxCalls = 5
    Clients = {c1, c2}
    Codes = {k1, k2}
    MaxFailures = 2
    MaxRequests = 4
SPECIFICATION Spec
INVARIANTS
    LinkWorksOnce
    
    VerifiedIsProved
    
    CodeWorksOnce
    LockFollowsFailures
    OwnChangesShow
    OthersDataIsRecent
SYMMETRY Symmetry
CHECK_DEADLOCK FALSE
