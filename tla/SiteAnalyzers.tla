--------------------------- MODULE SiteAnalyzers ---------------------------
\* What the scanners of a web site conclude from what they observe: the
\* analyzers of scans/analyzers, scans/web and scans/scanners as operators on
\* an observation s of the site. The texts the analyzers search (headers, HTML,
\* scripts) are kept as the answer to what they look for.
EXTENDS FindingDrafts, Integers, FiniteSets, Sequences

\* The origins whose answer is analyzed, after redirections: webTargetsFor
\* tries http and https, and a site that forces https ends there twice.
Origins(s) ==
  CASE s.https = "none" -> {"http"}
    [] s.https = "beside" -> {"http", "https"}
    [] s.https = "forced" -> {"https"}

\* The same site, when only these of its origins answer.
Reached(s, origins) ==
  IF origins = Origins(s) THEN s
  ELSE [s EXCEPT !.https = IF "https" \in origins THEN "forced" ELSE "none"]

\* The origin the deep inspection starts from: https when it answers.
Primary(s) == IF "https" \in Origins(s) THEN "https" ELSE "http"

-----------------------------------------------------------------------------
\* analyzeHeaders, without the cookies. A policy with frame-ancestors
\* ("framed") does the work of X-Frame-Options.
HeaderFindings(s, origin) ==
  LET https == origin = "https" IN
  When("HDR-HTTP-NO-REDIRECT", ~https /\ "https" \in Origins(s))
  \cup When("HDR-HSTS-MISSING", https /\ s.hsts = "none")
  \cup When("HDR-HSTS-SHORT", https /\ s.hsts = "short")
  \cup When("HDR-CSP-MISSING", s.csp = "none")
  \cup When("HDR-CSP-UNSAFE", s.csp = "unsafe")
  \cup When("HDR-XFO-MISSING", ~s.xfo /\ s.csp # "framed")
  \cup When("HDR-XCTO-MISSING", ~s.xcto)
  \cup When("HDR-REFERRER-MISSING", ~s.referrer)
  \cup When("HDR-PERMISSIONS-MISSING", ~s.permissions)
  \cup When("HDR-SERVER-VERSION", s.server = "versioned")
  \cup When("HDR-POWERED-BY", s.poweredBy)

\* analyzeHeaders: who may read the answers from another origin.
CorsFindings(s) ==
  When("HDR-CORS-CREDENTIALS-INSECURE", s.credentials /\ s.acao \in {"any", "null"})
  \cup When("HDR-CORS-WILDCARD", ~s.credentials /\ s.acao = "any")

\* analyzeHeaders: one cookie of the answer. hostScope: no Domain, Path=/.
CookieFindings(s, origin) ==
  LET https == origin = "https"
      session == s.cookie = "session"
      sealed == https /\ s.secure
  IN IF s.cookie = "none" THEN {}
     ELSE When("HDR-COOKIE-PREFIX-INVALID",
            \/ s.prefix = "host" /\ ~(sealed /\ s.hostScope)
            \/ s.prefix = "secure" /\ ~sealed)
       \cup When("HDR-COOKIE-INSECURE", https /\ ~s.secure)
       \cup When("HDR-COOKIE-NO-HTTPONLY", session /\ ~s.httpOnly)
       \cup When("HDR-COOKIE-SAMESITE-NONE-INSECURE", s.sameSite = "none" /\ ~s.secure)
       \cup When("HDR-COOKIE-NO-SAMESITE", session /\ s.sameSite = "absent")

\* analyzeHeaders: an answer that sets a session cookie must not be cached.
CacheFindings(s) ==
  When("HDR-CACHE-CONTROL-MISSING-SENSITIVE", s.cookie = "session" /\ ~s.noStore)

\* EOL_RULES: the versions out of support, as <<major, minor, patch>>. jQuery is
\* judged by its major version only, although its notice speaks of 3.5.
EndOfLife(product, v) ==
  CASE product = "PHP" -> v[1] < 8 \/ (v[1] = 8 /\ v[2] < 2)
    [] product = "Apache" -> v[1] = 2 /\ (v[2] < 4 \/ (v[2] = 4 /\ v[3] < 49))
    [] product = "Nginx" -> v[1] = 1 /\ v[2] < 18
    [] product = "WordPress" -> v[1] < 6
    [] product = "Microsoft-IIS" -> v[1] < 10
    [] product = "jQuery" -> v[1] < 3
    [] OTHER -> FALSE

\* fingerprintTechnologies: one finding for each product out of support.
SoftwareFindings(s, origin) ==
  {<<"HDR-EOL-TECH", <<origin, t[1]>>>> : t \in {u \in s.software : EndOfLife(u[1], u[2])}}

\* What WebHeadersScanner.run finds before the deep inspection, once for each
\* origin that answers.
BaseFindings(s) ==
  UNION {At(HeaderFindings(s, o) \cup CorsFindings(s) \cup CacheFindings(s), <<o>>)
           \cup At(CookieFindings(s, o), <<o, "cookie">>) \cup SoftwareFindings(s, o)
         : o \in Origins(s)}

-----------------------------------------------------------------------------
\* The deep inspection, stage by stage.

\* crawlEcommerceSite: only the first four sensitive paths that robots.txt
\* excludes are tried, and they count when something is there.
MaxSensitivePaths == 4
CrawlFindings(s) ==
  IF \E i \in 1 .. Len(s.robots) : i <= MaxSensitivePaths /\ s.robots[i] \in {200, 401, 403}
  THEN {<<"PATH-ROBOTS-SENSITIVE-EXPOSED", <<"robots.txt">>>>} ELSE {}

\* analyzeMagecartAndFormSecurity. A form is sensitive when it asks for a
\* password or a card, or when its page is part of a checkout.
MagecartFindings(s) ==
  LET https == Primary(s) = "https" IN
  At(When("WEB-SRI-MISSING-EXTERNAL-SCRIPT", s.script = "external")
       \cup When("WEB-MIXED-CONTENT", https /\ s.mixed)
       \cup When("WEB-INSECURE-FORM-ACTION", https /\ s.form = "login-over-http"),
     <<s.page>>)

\* analyzeJsSecretsAndSourceMaps
ScriptFindings(s) ==
  IF s.script = "none" THEN {}
  ELSE At(When("PATH-SOURCEMAP-EXPOSED", s.sourceMap)
          \cup When("WEB-JS-SECRET-LEAK", s.jsSecret), <<"script">>)

\* analyzeCmsAndEcommercePlatform. XML-RPC also counts when it refuses GET.
CmsFindings(s) ==
  At(When("CMS-WP-USER-ENUMERATION", s.wpUsers)
       \cup When("CMS-WP-XMLRPC-ENABLED", s.xmlrpc \in {200, 405})
       \cup When("CMS-WP-DEBUG-LOG-EXPOSED", s.wpDebugLog), <<"wordpress">>)
  \cup At(When("API-GRAPHQL-INTROSPECTION", s.graphql = "introspection"), <<"graphql">>)

\* run: a login or card form, or robots.txt with the paths of a shop.
HasSensitiveFeatures(s) == s.form # "none" \/ s.robots # <<>>

\* analyzeCorsMethodsAndWaf
CorsWafFindings(s) ==
  At(When("HDR-CORS-ORIGIN-REFLECTION", s.acao = "reflected" /\ s.credentials)
       \cup When("WEB-HTTP-METHODS-DANGEROUS", s.dangerousMethods)
       \cup When("WEB-WAF-ABSENT", ~s.waf /\ HasSensitiveFeatures(s)), <<Primary(s)>>)

\* analyzeSecurityTxt. Anything but a 200, a timeout too, is a missing file.
SecurityTxtFindings(s) ==
  At(When("SEC-TXT-MISSING", s.securityTxt = "missing")
       \cup When("SEC-TXT-INVALID", s.securityTxt \in {"no contact", "no expires", "bad date"})
       \cup When("SEC-TXT-EXPIRED", s.securityTxt = "expired"), <<"security.txt">>)

\* analyzeOpenApiSpec. The locations of two of its findings hold how many
\* operations or parameters there are.
SpecificationFindings(s) ==
  At(When("API-INTERNAL-HOST-EXPOSED", s.apiInternalHost), <<"api">>)
  \cup At(When("API-DOCS-UNAUTHENTICATED-OPERATIONS", s.apiOpen > 0),
          <<"api", s.apiOpen>>)
  \cup At(When("API-QUERY-SECRET-PARAM", s.apiQuerySecrets > 0),
          <<"api", s.apiQuerySecrets>>)

\* probeAndAnalyzeOpenApi: a specification at one of seven usual paths. The
\* last one, /api/openapi.json, is none of the sensitive paths.
OpenApiFindings(s) ==
  IF s.api \in {"specification", "hidden specification"} THEN SpecificationFindings(s) ELSE {}

\* inspectContentForDebugLeaks: the token of a profiler counts as a trace.
DebugRules(answer) ==
  When("WEB-DEBUG-STACKTRACE-LEAK", "trace" \in answer \/ "token" \in answer)
  \cup When("WEB-INTERNAL-PATH-DISCLOSURE", "path" \in answer)

\* probeAndAnalyzeDebugLeaks: the answer to a path with a random token, then the
\* answer to a strange parameter for the rules not found yet.
DebugFindings(s, token) ==
  At(DebugRules(s.errorPage), <<"error page", token>>)
  \cup At(DebugRules(s.queryPage) \ DebugRules(s.errorPage), <<"query page">>)

\* The stages in the order of WebHeadersScanner.run; n of them are completed
\* before one fails, and what the completed ones found is kept.
DeepStages == 8
DeepFindings(s, n, token) ==
  LET stages == <<CrawlFindings(s), MagecartFindings(s), ScriptFindings(s),
                  CmsFindings(s), CorsWafFindings(s), SecurityTxtFindings(s),
                  OpenApiFindings(s), DebugFindings(s, token)>>
  IN UNION {stages[i] : i \in 1 .. n}

-----------------------------------------------------------------------------
\* analyzeTls. hoursLeft may be negative; days are whole days.
TlsFindings(s) ==
  LET daysLeft == s.hoursLeft \div 24
      bits == s.key[2]
  IN At(When("TLS-EXPIRED", s.hoursLeft < 0)
       \cup When("TLS-EXPIRING-7D", s.hoursLeft >= 0 /\ daysLeft < 7)
       \cup When("TLS-EXPIRING-30D", daysLeft \in 7 .. 29)
       \cup When("TLS-NOT-YET-VALID", s.notYetValid)
       \cup When("TLS-HOSTNAME-MISMATCH", s.wrongName)
       \cup When("TLS-UNTRUSTED-CHAIN", s.issuer # "trusted")
       \cup When("TLS-LEGACY-PROTOCOL", s.legacyTls)
       \cup When("TLS-WEAK-KEY", IF s.key[1] = "ec" THEN bits < 256 ELSE bits < 2048)
       \cup When("TLS-WEAK-SIGNATURE", s.weakSignature)
       \cup When("TLS-WEAK-CIPHER", s.cipher = "weak")
       \cup When("TLS-NO-FORWARD-SECRECY", s.cipher = "static key" /\ ~s.tls13)
       \cup When("TLS-EXCESSIVE-LIFESPAN", s.issuer # "self" /\ s.lifespanDays > 398),
     <<"tls">>)

\* SslCertScanner.run: no TLS on 443 while the plain port is open.
SslFindings(s) ==
  IF "https" \in Origins(s) THEN TlsFindings(s) ELSE {<<"TLS-NOT-AVAILABLE", <<"tls">>>>}

\* SERVICE_CLASSES: the first class with the port or the service name.
ServiceClasses ==
  <<[rule |-> "SVC-CLEARTEXT-REMOTE-ADMIN", ports |-> {23, 513, 514},
     services |-> {"telnet", "rlogin", "shell"}],
    [rule |-> "SVC-CLEARTEXT-FILE-TRANSFER", ports |-> {21, 69},
     services |-> {"ftp", "tftp"}],
    [rule |-> "SVC-REMOTE-DESKTOP", ports |-> {3389} \cup 5900 .. 5903,
     services |-> {"ms-wbt-server", "vnc", "rdp"}],
    [rule |-> "SVC-FILE-SHARING", ports |-> {139, 445, 2049},
     services |-> {"microsoft-ds", "netbios-ssn", "nfs"}],
    [rule |-> "SVC-DATABASE-EXPOSED",
     ports |-> {1433, 1521, 3306, 5432, 5984, 6379, 9042, 9200, 9300, 11211, 27017, 27018},
     services |-> {"ms-sql-s", "oracle-tns", "mysql", "postgresql", "couchdb", "redis",
                   "cassandra", "elasticsearch", "memcache", "memcached", "mongodb"}],
    [rule |-> "SVC-ORCHESTRATION-EXPOSED",
     ports |-> {2375, 2376, 2379, 2380, 10250, 10255},
     services |-> {"docker", "etcd", "kubelet"}],
    [rule |-> "SVC-DIRECTORY-SERVICE", ports |-> {389}, services |-> {"ldap"}],
    [rule |-> "SVC-RPC-EXPOSED", ports |-> {111, 135, 593}, services |-> {"rpcbind", "msrpc"}],
    [rule |-> "SVC-MAIL-CLEARTEXT", ports |-> {110, 143}, services |-> {"pop3", "imap"}]>>

\* classify
Classify(p) ==
  LET fits == {i \in DOMAIN ServiceClasses :
                 \/ p.port \in ServiceClasses[i].ports
                 \/ p.service \in ServiceClasses[i].services}
  IN IF fits = {} THEN "SVC-OPEN-PORT"
     ELSE ServiceClasses[CHOOSE i \in fits : \A j \in fits : i <= j].rule

\* analyzePorts: one finding for each open port.
OpenPorts(s) == {p \in s.ports : p.state = "open"}
PortFindings(s) == {<<Classify(p), <<"port", p.port>>>> : p \in OpenPorts(s)}

\* SENSITIVE_PATHS: the kinds of path tried and the rule each one breaks.
PathRuleOf ==
  [secrets |-> "PATH-SECRETS-EXPOSED", kubernetes |-> "PATH-K8S-CONFIG-EXPOSED",
   repository |-> "PATH-VCS-EXPOSED", backup |-> "PATH-BACKUP-EXPOSED",
   configuration |-> "PATH-CONFIG-EXPOSED", diagnostics |-> "PATH-DEBUG-INFO",
   actuator |-> "API-ACTUATOR-ENV-EXPOSED", metrics |-> "API-METRICS-EXPOSED",
   console |-> "PATH-DEV-CONSOLE-EXPOSED", listing |-> "PATH-DIRECTORY-LISTING",
   panel |-> "PATH-ADMIN-PANEL"]

\* SensitivePathsScanner.run. It too asks for a path with a random token. Any
\* answer of a GraphQL endpoint counts, and so does a page that shows the API.
PathFindings(s, token) ==
  At(DebugRules(s.errorPage), <<"error page", token>>)
  \cup {<<PathRuleOf[k], <<k, Primary(s)>>>> : k \in s.paths}
  \cup At(When("API-GRAPHQL-INTROSPECTION", s.graphql # "none"), <<"graphql">>)
  \cup At(When("API-SWAGGER-EXPOSED", s.api \in {"page", "specification"}), <<"api">>)
  \cup (IF s.api = "specification" THEN SpecificationFindings(s) ELSE {})

\* analyzeSubdomainTakeover: an alias to a known service that answers with the
\* page of an unclaimed resource.
TakeoverFindings(s) ==
  At(When("DNS-SUBDOMAIN-TAKEOVER", s.alias = "unclaimed"), <<"alias">>)
=============================================================================
