------------------------------- MODULE Posture -------------------------------
\* The posture of an organization with a web site, its mail domain and a cloud
\* account: scans and audits (scans/, cloud/) turn what they see into findings,
\* and the score, the compliance and the attack paths follow from the findings
\* that are open. The world changes between the scans, and what a scan asks for
\* may go unanswered.
EXTENDS SiteAnalyzers, MailAnalyzers, CloudEvaluators, VulnerableSoftware, Compliance,
        AttackPaths, Scoring

CONSTANTS
  Sites, SiteLevels,        \* how a site may be, and the values of its fields
  Mails, MailLevels,        \* the same for the records of its domain
  Accounts, AccountLevels,  \* the same for the cloud account
  Vulnerabilities,          \* what the database knows, by product
  Exploited,                \* the catalog of vulnerabilities known as exploited
  MaxProducts,              \* the products that one scan looks up
  Stops,                    \* how many deep stages a scan may complete
  Reviewed,                 \* the rules whose findings somebody works on
  MaxChanges, MaxScans      \* bounds of the model

\* What is looked at of a site and what is known of a vulnerability.
SiteFields ==
  {"https", "hsts", "csp", "xfo", "xcto", "referrer", "permissions", "server", "poweredBy",
   "acao", "credentials", "cookie", "secure", "prefix", "hostScope", "httpOnly", "sameSite",
   "noStore", "software", "robots", "page", "script", "mixed", "form", "sourceMap", "jsSecret",
   "wpUsers", "xmlrpc", "wpDebugLog", "graphql", "dangerousMethods", "waf", "securityTxt", "api",
   "apiInternalHost", "apiOpen", "apiQuerySecrets", "errorPage", "queryPage", "hoursLeft", "key",
   "notYetValid", "wrongName", "issuer", "legacyTls", "weakSignature", "cipher", "tls13",
   "lifespanDays", "ports", "paths", "alias"}
EntryFields == {"id", "cvss", "kev", "epss", "ranges"}

\* What a scanner can see of a part of a site or of the records of a domain: finite
\* sets of ports, software, paths and keys, the paths among those tried
\* (SENSITIVE_PATHS).
Observable(part, value) ==
  /\ part = "https" => value \in {"none", "beside", "forced"}
  /\ part \in {"ports", "software", "paths", "dkim"} => IsFiniteSet(value)
  /\ part = "paths" => value \subseteq DOMAIN PathRuleOf
ObservableAll(observation) ==
  /\ observation = [x \in DOMAIN observation |-> observation[x]]
  /\ \A x \in DOMAIN observation : Observable(x, observation[x])

ASSUME PostureAssumption ==
  /\ DeepStages \in Stops /\ Stops \subseteq 0 .. DeepStages
  /\ MaxProducts \in Nat /\ MaxChanges \in Nat /\ MaxScans \in Nat
  /\ \A s \in Sites : SiteFields \subseteq DOMAIN s /\ ObservableAll(s)
  /\ \A z \in Mails : "dkim" \in DOMAIN z /\ ObservableAll(z)
  /\ \A x \in DOMAIN SiteLevels : \A v \in SiteLevels[x] : Observable(x, v)
  /\ \A x \in DOMAIN MailLevels : \A v \in MailLevels[x] : Observable(x, v)
  /\ \A x \in DOMAIN Vulnerabilities :
       \A e \in Vulnerabilities[x] :
         /\ EntryFields \subseteq DOMAIN e
         /\ e = [y \in DOMAIN e |-> e[y]]

VARIABLES
  site, mail, cloud,  \* the world
  open,               \* Finding rows that are OPEN, IN_PROGRESS or VERIFYING
  scanned,            \* the assets with a completed scan or audit
  cached,             \* CveProductCache, by product
  catalog,            \* the catalog KevSyncService holds in memory
  fresh,              \* categories looked at completely since the last change
  changes, scans

world == <<site, mail, cloud>>
vars == <<world, open, scanned, cached, catalog, fresh, changes, scans>>

Assets == {"site", "cloud"}
Finding == [asset : Assets, rule : FindingRules \cup CloudRules, severity : Severities,
            status : {"OPEN", "VERIFYING"}]

\* A slip: every scan of the web resolves what the other one found.
OverlappingCategories == [
  PORT_SCAN |-> {"EXPOSED_SERVICE", "VULNERABLE_SOFTWARE"},
  WEB_HEADERS |-> {"HTTP_HEADERS", "SENSITIVE_PATH"}, SSL_CERT |-> {"TLS_CERTIFICATE"},
  SENSITIVE_PATHS |-> {"SENSITIVE_PATH", "HTTP_HEADERS"}, EMAIL_SECURITY |-> {"EMAIL_SECURITY"},
  SUBDOMAIN_DISCOVERY |-> {}]

\* CATEGORIES_BY_SCAN_TYPE: the findings that a scan resolves when it does not
\* see them again.
Categories == [
  PORT_SCAN |-> {"EXPOSED_SERVICE", "VULNERABLE_SOFTWARE"},
  WEB_HEADERS |-> {"HTTP_HEADERS"}, SSL_CERT |-> {"TLS_CERTIFICATE"},
  SENSITIVE_PATHS |-> {"SENSITIVE_PATH"}, EMAIL_SECURITY |-> {"EMAIL_SECURITY"},
  SUBDOMAIN_DISCOVERY |-> {}]

-----------------------------------------------------------------------------
\* The rows of open findings with the identity of a draft.
Same(asset, d) == {f \in open : f.asset = asset /\ <<f.rule, f.at>> = d}

\* A slip: what is being verified is left to the user.
SyncOpenOnly(asset, drafts, severity, resolved) ==
  {f \in open : \/ f.asset # asset
                \/ <<f.rule, f.at>> \notin drafts
                   /\ (CategoryOf[f.rule] \notin resolved \/ f.status = "VERIFYING")}
  \cup {[asset |-> asset, rule |-> d[1], at |-> d[2], severity |-> severity[d],
         status |-> IF \E f \in Same(asset, d) : f.status = "VERIFYING"
                    THEN "VERIFYING" ELSE "OPEN"] : d \in drafts}

\* syncForScan and the same steps of runAccountAudit: the drafts are open, with
\* the severity they have now; the rest of what the scan evaluates is resolved.
Sync(asset, drafts, severity, resolved) ==
  {f \in open : \/ f.asset # asset
                \/ <<f.rule, f.at>> \notin drafts /\ CategoryOf[f.rule] \notin resolved}
  \cup {[asset |-> asset, rule |-> d[1], at |-> d[2], severity |-> severity[d],
         status |-> IF \E f \in Same(asset, d) : f.status = "VERIFYING"
                    THEN "VERIFYING" ELSE "OPEN"] : d \in drafts}

Catalogued(drafts) == [d \in drafts |-> SeverityOf[d[1]]]

\* A scan of the site that ends: whole is what it evaluated of its categories.
Scan(kind, drafts, severity, resolved, whole) ==
  /\ scans < MaxScans
  /\ scans' = scans + 1
  /\ open' = Sync("site", drafts, severity, resolved)
  /\ scanned' = scanned \cup {"site"}
  /\ fresh' = (fresh \ Categories[kind]) \cup whole
  /\ UNCHANGED <<world, changes>>

\* WebHeadersScanner, of the origins that answer, until a deep stage fails.
ScanWeb(origins, n) ==
  LET seen == Reached(site, origins)
      drafts == BaseFindings(seen) \cup DeepFindings(seen, n, scans + 1)
  IN /\ Scan("WEB_HEADERS", drafts, Catalogued(drafts), Categories["WEB_HEADERS"],
             IF seen = site /\ n = DeepStages THEN Categories["WEB_HEADERS"] ELSE {})
     /\ UNCHANGED <<cached, catalog>>

\* SensitivePathsScanner, on the first origin that answers.
ScanPaths(origins) ==
  LET seen == Reached(site, origins)
      drafts == PathFindings(seen, scans + 1)
  IN /\ Scan("SENSITIVE_PATHS", drafts, Catalogued(drafts), Categories["SENSITIVE_PATHS"],
             IF seen = site THEN Categories["SENSITIVE_PATHS"] ELSE {})
     /\ UNCHANGED <<cached, catalog>>

\* SslCertScanner
ScanTls ==
  LET drafts == SslFindings(site) IN
  /\ Scan("SSL_CERT", drafts, Catalogued(drafts), Categories["SSL_CERT"],
          Categories["SSL_CERT"])
  /\ UNCHANGED <<cached, catalog>>

\* PortScanScanner: answers are the products for which the database answers. When
\* what is known of a product is an old copy, nothing on software is resolved.
ScanPorts(answers, epssAnswers) ==
  LET ports == OpenPorts(site)
      from == [x \in DOMAIN cached |-> Origin(cached[x], x \in answers)]
      found == {x \in DOMAIN cached : from[x] # "none"}
      cves == CveFindings(ports, found, MaxProducts,
                [x \in found |-> Known(Vulnerabilities[x], epssAnswers, catalog)])
      complete == Complete(ports, {x \in found : from[x] # "stale-cache"}, MaxProducts)
      resolved == Categories["PORT_SCAN"] \ (IF complete THEN {} ELSE {"VULNERABLE_SOFTWARE"})
      services == PortFindings(site)
  IN /\ Scan("PORT_SCAN", services \cup {<<c.rule, c.at>> : c \in cves},
             Catalogued(services)
               ++ [d \in {<<c.rule, c.at>> : c \in cves} |->
                     (CHOOSE c \in cves : c.at = d[2]).severity],
             resolved, resolved)
     /\ cached' = [x \in DOMAIN cached |->
                     IF x \in LookedUp(ports, MaxProducts) /\ from[x] = "nvd"
                     THEN "current" ELSE cached[x]]
     /\ UNCHANGED catalog

\* SubdomainDiscoveryScanner: it resolves nothing.
ScanSubdomains ==
  LET drafts == TakeoverFindings(site) IN
  /\ Scan("SUBDOMAIN_DISCOVERY", drafts, Catalogued(drafts),
          Categories["SUBDOMAIN_DISCOVERY"], {})
  /\ UNCHANGED <<cached, catalog>>

\* EmailSecurityScanner, when it does not fail as a whole.
ScanMail(failed) ==
  LET drafts == MailFindings(mail, failed)
      severity == [d \in drafts |-> IF MailSeverity(mail, d) = "default"
                                    THEN SeverityOf[d[1]] ELSE MailSeverity(mail, d)]
  IN /\ failed \cap FatalLookups = {}
     /\ Scan("EMAIL_SECURITY", drafts, severity, Categories["EMAIL_SECURITY"],
             IF failed = {} THEN Categories["EMAIL_SECURITY"] ELSE {})
     /\ UNCHANGED <<cached, catalog>>

\* runAccountAudit: the evaluators answer with what they could see, and all that
\* is not among it is resolved.
Audit(failed) ==
  LET drafts == AuditFindings(cloud, failed) IN
  /\ scans < MaxScans
  /\ scans' = scans + 1
  /\ open' = Sync("cloud", drafts, Catalogued(drafts), DOMAIN CloudSections)
  /\ scanned' = scanned \cup {"cloud"}
  /\ fresh' = (fresh \ DOMAIN CloudSections)
              \cup IF failed = {} THEN DOMAIN CloudSections ELSE {}
  /\ UNCHANGED <<world, cached, catalog, changes>>

\* review: somebody says that a finding is repaired and waits for a scan.
Verify(f) ==
  /\ f.status = "OPEN" /\ f.rule \in Reviewed
  /\ \A g \in open : g.status = "OPEN"
  /\ open' = (open \ {f}) \cup {[f EXCEPT !.status = "VERIFYING"]}
  /\ UNCHANGED <<world, scanned, cached, catalog, fresh, changes, scans>>

\* onModuleInit of KevSyncService, the only time that it is called.
LoadCatalog ==
  /\ catalog # Exploited
  /\ catalog' = Exploited
  /\ UNCHANGED <<world, open, scanned, cached, fresh, changes, scans>>

\* CVE_CACHE_HOURS go by.
CopyGetsOld(x) ==
  /\ cached[x] = "current"
  /\ cached' = [cached EXCEPT ![x] = "old"]
  /\ UNCHANGED <<world, open, scanned, catalog, fresh, changes, scans>>

\* The world changes: one field of it takes another value.
OneChange(observation, levels) ==
  UNION {{[observation EXCEPT ![x] = v] : v \in levels[x] \ {observation[x]}} :
           x \in DOMAIN levels}

Change(stale) ==
  /\ changes < MaxChanges
  /\ changes' = changes + 1
  /\ fresh' = fresh \ stale
  /\ UNCHANGED <<open, scanned, cached, catalog, scans>>

ChangeSite ==
  /\ site' \in OneChange(site, SiteLevels)
  /\ Change(DOMAIN Sections \ {"EMAIL_SECURITY"})
  /\ UNCHANGED <<mail, cloud>>
ChangeMail ==
  /\ mail' \in OneChange(mail, MailLevels)
  /\ Change({"EMAIL_SECURITY"})
  /\ UNCHANGED <<site, cloud>>
ChangeCloud ==
  /\ cloud' \in OneChange(cloud, AccountLevels[cloud.provider])
  /\ Change(DOMAIN CloudSections)
  /\ UNCHANGED <<site, mail>>

-----------------------------------------------------------------------------
Init ==
  /\ site \in Sites /\ mail \in Mails /\ cloud \in Accounts
  /\ open = {} /\ scanned = {} /\ fresh = {}
  /\ cached = [x \in DOMAIN Vulnerabilities |-> "none"]
  /\ catalog = {}
  /\ changes = 0 /\ scans = 0

WebNext ==
  \/ \E origins \in SUBSET Origins(site) \ {{}}, n \in Stops : ScanWeb(origins, n)
  \/ \E origins \in SUBSET Origins(site) \ {{}} : ScanPaths(origins)
HostNext ==
  \/ ScanTls \/ ScanSubdomains \/ LoadCatalog
  \/ \E answers \in SUBSET DOMAIN cached, epss \in BOOLEAN : ScanPorts(answers, epss)
  \/ \E x \in DOMAIN cached : CopyGetsOld(x)
MailNext ==
  \/ \E q \in Lookups : ScanMail({q})
  \/ ScanMail({})
CloudNext ==
  \/ \E q \in AuditQueries(cloud) : Audit({q})
  \/ Audit({})
ReviewNext == \E f \in open : Verify(f)

Next == WebNext \/ HostNext \/ MailNext \/ CloudNext \/ ReviewNext
        \/ ChangeSite \/ ChangeMail \/ ChangeCloud
Spec == Init /\ [][Next]_vars

-----------------------------------------------------------------------------
\* What each scan would find of the world as it is. A path with a random token
\* is the same finding whatever the token.
Drafts(kind, token) ==
  CASE kind = "WEB_HEADERS" -> BaseFindings(site) \cup DeepFindings(site, DeepStages, token)
    [] kind = "SENSITIVE_PATHS" -> PathFindings(site, token)
    [] kind = "SSL_CERT" -> SslFindings(site)
    [] kind = "PORT_SCAN" ->
         PortFindings(site)
         \cup {<<"VULN-KNOWN-CVE", <<"port", p.port>>>> :
                 p \in {q \in Detected(OpenPorts(site)) :
                          MatchCves(Vulnerabilities[q.product], q.version) # {}}}
    [] kind = "SUBDOMAIN_DISCOVERY" -> TakeoverFindings(site)
    [] kind = "EMAIL_SECURITY" -> MailFindings(mail, {})
    [] kind = "audit" -> AuditFindings(cloud, {})

AssetOf(kind) == IF kind = "audit" THEN "cloud" ELSE "site"
Kinds == DOMAIN Categories \cup {"audit"}
Owned(kind) == IF kind = "audit" THEN DOMAIN CloudSections ELSE Categories[kind]

\* The counts a score is computed from, the score of an asset and that of the
\* organization.
Counts(fs, asset) ==
  [s \in Bands |-> Cardinality({f \in fs : f.asset = asset /\ f.severity = s})]
AssetScore(fs, asset, criticality) == Score(Counts(fs, asset), criticality)
OrganizationScore(fs, assets, criticality) ==
  LET half(asset) == IF asset \in assets THEN AssetScore(fs, asset, criticality) ELSE NoScore
  IN HybridScore(half("site"), half("cloud"))

Paths(fs) ==
  UNION {{[asset |-> a, id |-> p.id, severity |-> p.severity] :
            p \in AttackPathsOf({f \in fs : f.asset = a})} : a \in Assets}

\* What compliance is judged by.
Judged == {f \in open : f.status # "VERIFYING"}

-----------------------------------------------------------------------------
\* An open finding has a rule of the catalogs (getRule throws when it does not),
\* its identity is unique in its asset, and cached copies are known products.
TypeOK ==
  /\ \A f \in open :
       /\ [x \in {"asset", "rule", "severity", "status"} |-> f[x]] \in Finding
       /\ \A g \in open :
            (<<f.asset, f.rule, f.at>> = <<g.asset, g.rule, g.at>>) => (f = g)
       /\ f.asset \in scanned
  /\ cached \in [DOMAIN Vulnerabilities -> {"none", "current", "old"}]
  /\ scanned \subseteq Assets /\ catalog \subseteq Exploited

\* When a scan has looked at all of a category and the world has not changed,
\* nothing of the category that is gone from the world is still open: no order of
\* scans leaves behind a finding that nobody can repair.
NoGhostFindings ==
  \A f \in open :
    CategoryOf[f.rule] \in fresh =>
      \E kind \in Kinds, token \in 0 .. scans :
        AssetOf(kind) = f.asset /\ <<f.rule, f.at>> \in Drafts(kind, token)

\* The finding of a draft is open.
Stands(kind, d) ==
  \E f \in open :
    /\ f.asset = AssetOf(kind) /\ f.rule = d[1]
    /\ f.at = d[2] \/ (f.at[1] = "error page" /\ d[2][1] = "error page")

\* The other way round: what a scan finds in the categories it answers for stays
\* open while it is in the world, whatever other scans come after it.
WhatBelongsStays ==
  \A kind \in Kinds : \A d \in Drafts(kind, 0) :
    CategoryOf[d[1]] \in Owned(kind) \cap fresh => Stands(kind, d)

\* The comment of CATEGORIES_BY_SCAN_TYPE: "the categories of findings that each
\* type of scan produces". If so, all that the last scan of a type found is still
\* open while nothing changes.
WhatIsFoundStays ==
  \A kind \in Kinds :
    (Owned(kind) # {} /\ Owned(kind) \subseteq fresh) =>
      \A d \in Drafts(kind, 0) : Stands(kind, d)

\* A step that only closes findings makes nothing worse: neither a score, of an
\* asset of any criticality or of the organization, nor the compliance with a
\* framework falls, and no attack path appears or becomes more severe.
ClosingNeverHurts ==
  [][(open' \subseteq open /\ scanned' = scanned) =>
      /\ \A c \in Criticalities :
           /\ \A a \in Assets : AssetScore(open', a, c) >= AssetScore(open, a, c)
           /\ OrganizationScore(open', scanned, c) >= OrganizationScore(open, scanned, c)
      /\ \A i \in DOMAIN Frameworks :
           FrameworkPercentage(Frameworks[i], Judged') >= FrameworkPercentage(Frameworks[i], Judged)
      /\ GlobalPercentage(Judged') >= GlobalPercentage(Judged)
      /\ \A p \in Paths(open') : \E q \in Paths(open) :
           /\ q.asset = p.asset /\ q.id = p.id
           /\ SeverityWeight[q.severity] >= SeverityWeight[p.severity]]_vars

\* A serious finding cannot hide: it breaks a control of some framework, the
\* worst severity there is shows among the five controls of the overview, and the
\* overview says 100 % only when no control fails.
GraveIsNonCompliant ==
  LET grave == {f \in Judged : f.severity \in {"CRITICAL", "HIGH"}}
      failing == FailingControls(Judged)
  IN /\ \A f \in grave : \E i \in DOMAIN Frameworks : \E c \in DOMAIN Frameworks[i] :
          f \in Failing(Frameworks[i], c, Judged)
     /\ grave # {} =>
          \E c \in failing : c.worst = WorstSeverity(grave) /\ MayBeShown(c, Judged)
     /\ GlobalPercentage(Judged) = 100 <=> failing = {}
=============================================================================
