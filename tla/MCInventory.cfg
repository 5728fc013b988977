SPECIFICATION Spec
CONSTANTS
    c1 = c1
    c2 = c2
    Callers = {c1, c2}
    Domains <- TheDomains
    Addresses <- TheAddresses
    DnsProofs <- TheDnsProofs
    FileProofs <- TheFileProofs
    Hosts <- TheHosts
    Methods = {"any", "DNS_TXT"}
    MaxAssets = 3
    MaxRequests = 5
    Resources = {r1, r2}
    Jobs = {j1, j2}
    MaxJobs = 5
    MaxRows = 5
    f1 = f1
    f2 = f2
    s1 = s1
    a1 = a1
    a2 = a2
    Findings = {f1, f2}
    CategoryOf <- SiteAndCloud
    Scans = {s1}
    TypeOf <- HeadersScan
    Audits = {a1, a2}
    Requests = {q1, q2}
    MaxWork = 4
SYMMETRY Symmetry
CHECK_DEADLOCK FALSE
INVARIANTS
    TypeOK
    VerifiedHasProof
    
    OrphanHasCause
    ResourcesAreCounted
    ScoreFollowsFindings
PROPERTIES
    
    DecisionsSurvive
