---------------------------- MODULE RuleCatalog ----------------------------
\* The rules a finding can be an instance of (findings/rules.catalog.ts) and
\* the rules of the cloud audits (cloud/cspm.catalog.ts): category, severity,
\* the effort of the repair and the kind of its impact on the business. The
\* texts of a rule are left out; its CVSS score is kept as its severity band.
EXTENDS Integers, FiniteSets

\* Two tables put together; what both have is as in the first.
f ++ g == [x \in DOMAIN f \cup DOMAIN g |-> IF x \in DOMAIN f THEN f[x] ELSE g[x]]

\* A table gives the rules of one section by severity; an absent severity has none.
\* Services that answer on an open port.
ServiceRules ==
  [CRITICAL |-> {"SVC-ORCHESTRATION-EXPOSED"},
   HIGH |->
      {"SVC-CLEARTEXT-REMOTE-ADMIN", "SVC-REMOTE-DESKTOP", "SVC-FILE-SHARING",
      "SVC-DATABASE-EXPOSED"},
   MEDIUM |->
      {"SVC-CLEARTEXT-FILE-TRANSFER", "SVC-DIRECTORY-SERVICE",
      "SVC-RPC-EXPOSED"},
   LOW |-> {"SVC-MAIL-CLEARTEXT"},
   INFO |-> {"SVC-OPEN-PORT"}]

\* Security headers, banners and cookie attributes.
HeaderRules ==
  [MEDIUM |->
      {"HDR-HSTS-MISSING", "HDR-CSP-MISSING", "HDR-XFO-MISSING",
      "HDR-COOKIE-INSECURE", "HDR-COOKIE-NO-HTTPONLY"},
   LOW |->
      {"HDR-HSTS-SHORT", "HDR-CSP-UNSAFE", "HDR-XCTO-MISSING",
      "HDR-REFERRER-MISSING", "HDR-SERVER-VERSION", "HDR-POWERED-BY"},
   INFO |-> {"HDR-PERMISSIONS-MISSING"}]

\* Redirection, unsupported software, cross-origin access, cookie prefixes.
RedirectRules ==
  [HIGH |-> {"HDR-EOL-TECH", "HDR-CORS-CREDENTIALS-INSECURE"},
   MEDIUM |->
      {"HDR-HTTP-NO-REDIRECT", "HDR-OUTDATED-TECH",
      "HDR-COOKIE-SAMESITE-NONE-INSECURE", "HDR-COOKIE-PREFIX-INVALID",
      "HDR-CACHE-CONTROL-MISSING-SENSITIVE"},
   LOW |-> {"HDR-CORS-WILDCARD", "HDR-COOKIE-NO-SAMESITE"}]

\* What the pages and the scripts of a site hold.
ContentRules ==
  [CRITICAL |-> {"WEB-INSECURE-FORM-ACTION", "WEB-JS-SECRET-LEAK"},
   HIGH |->
      {"HDR-CORS-ORIGIN-REFLECTION", "WEB-SRI-MISSING-EXTERNAL-SCRIPT",
      "WEB-MIXED-CONTENT"},
   MEDIUM |-> {"WEB-HTTP-METHODS-DANGEROUS", "PATH-SOURCEMAP-EXPOSED"},
   LOW |-> {"WEB-WAF-ABSENT"}]

\* Error pages, robots.txt and WordPress.
DeepWebRules ==
  [HIGH |-> {"WEB-DEBUG-STACKTRACE-LEAK", "CMS-WP-DEBUG-LOG-EXPOSED"},
   MEDIUM |->
      {"PATH-ROBOTS-SENSITIVE-EXPOSED", "CMS-WP-USER-ENUMERATION",
      "CMS-WP-XMLRPC-ENABLED"},
   LOW |-> {"WEB-INTERNAL-PATH-DISCLOSURE"}]

\* The certificate and the TLS connection.
TlsRules ==
  [CRITICAL |-> {"TLS-EXPIRED"},
   HIGH |->
      {"TLS-EXPIRING-7D", "TLS-NOT-YET-VALID", "TLS-HOSTNAME-MISMATCH",
      "TLS-UNTRUSTED-CHAIN", "TLS-WEAK-KEY", "TLS-WEAK-CIPHER"},
   MEDIUM |->
      {"TLS-EXPIRING-30D", "TLS-LEGACY-PROTOCOL", "TLS-WEAK-SIGNATURE",
      "TLS-NOT-AVAILABLE", "TLS-NO-FORWARD-SECRECY"},
   LOW |-> {"TLS-EXCESSIVE-LIFESPAN"}]

\* Paths that should not answer.
PathRules ==
  [CRITICAL |-> {"PATH-SECRETS-EXPOSED"},
   HIGH |->
      {"PATH-VCS-EXPOSED", "PATH-BACKUP-EXPOSED", "PATH-CONFIG-EXPOSED"},
   MEDIUM |-> {"PATH-DEBUG-INFO", "PATH-DIRECTORY-LISTING"},
   LOW |-> {"PATH-ADMIN-PANEL"},
   INFO |-> {"PATH-API-DOCS"}]

\* API documentation, consoles and metrics.
ApiRules ==
  [CRITICAL |-> {"API-ACTUATOR-ENV-EXPOSED", "PATH-K8S-CONFIG-EXPOSED"},
   HIGH |->
      {"API-DOCS-UNAUTHENTICATED-OPERATIONS", "API-QUERY-SECRET-PARAM",
      "PATH-DEV-CONSOLE-EXPOSED"},
   MEDIUM |-> {"API-GRAPHQL-INTROSPECTION"},
   LOW |->
      {"API-SWAGGER-EXPOSED", "API-INTERNAL-HOST-EXPOSED",
      "API-METRICS-EXPOSED"}]

\* Known vulnerabilities of a product.
SoftwareRules ==
  [HIGH |-> {"VULN-KNOWN-CVE"}]

\* SPF, and a domain without DMARC.
SenderRules ==
  [HIGH |-> {"MAIL-SPF-PASS-ALL"},
   MEDIUM |-> {"MAIL-SPF-MISSING", "MAIL-SPF-INVALID", "MAIL-SPF-NEUTRAL"},
   LOW |-> {"MAIL-SPF-SOFTFAIL"}]

\* DMARC, DKIM and the transport of mail.
MailRules ==
  [MEDIUM |->
      {"MAIL-DMARC-MISSING", "MAIL-DMARC-INVALID", "MAIL-DMARC-MONITOR-ONLY",
      "MAIL-DKIM-WEAK-KEY", "EMAIL-NO-MTA-STS"},
   LOW |->
      {"MAIL-DMARC-PARTIAL", "MAIL-DMARC-SUBDOMAINS-UNPROTECTED",
      "MAIL-DKIM-NOT-FOUND", "EMAIL-NO-TLS-RPT"},
   INFO |-> {"MAIL-DMARC-NO-REPORTS"}]

\* A subdomain that points at an unclaimed service.
TakeoverRules ==
  [CRITICAL |-> {"DNS-SUBDOMAIN-TAKEOVER"}]

\* CAA, DNSSEC and block lists.
DnsRules ==
  [HIGH |-> {"DNS-DNSSEC-BOGUS", "EMAIL-IP-BLACKLISTED"},
   MEDIUM |-> {"DNS-CAA-INVALID", "DNS-NO-DNSSEC"},
   LOW |-> {"DNS-NO-CAA"}]

\* security.txt.
DisclosureRules ==
  [MEDIUM |-> {"SEC-TXT-EXPIRED"},
   LOW |-> {"SEC-TXT-MISSING", "SEC-TXT-INVALID"}]

\* BIMI.
BrandRules ==
  [LOW |-> {"EMAIL-BIMI-INVALID"}]

\* Users, keys and roles.
IdentityRules ==
  [CRITICAL |-> {"AWS-IAM-ROOT-MFA", "AZ-IAM-GLOBAL-ADMIN-MFA"},
   HIGH |->
      {"AWS-IAM-USER-NO-MFA", "AWS-IAM-ADMIN-POLICY", "AZ-IAM-CUSTOM-OWNER"},
   MEDIUM |-> {"AWS-IAM-KEY-ROTATION"}]

\* Buckets and storage accounts.
StorageRules ==
  [CRITICAL |-> {"AWS-S3-PUBLIC-READ", "AZ-BLOB-PUBLIC-ACCESS"},
   HIGH |-> {"AWS-S3-UNENCRYPTED", "AZ-STORAGE-NO-HTTPS"},
   MEDIUM |-> {"AZ-STORAGE-NO-TLS12"},
   LOW |-> {"AWS-S3-LOGGING-OFF"}]

\* Security groups and flow logs.
NetworkRules ==
  [CRITICAL |->
      {"AWS-SG-SSH-OPEN", "AWS-SG-RDP-OPEN", "AWS-SG-ALL-TRAFFIC",
      "AZ-NSG-SSH-OPEN", "AZ-NSG-RDP-OPEN"},
   MEDIUM |-> {"AWS-VPC-FLOW-LOGS"}]

\* Virtual machines and disks.
ComputeRules ==
  [HIGH |-> {"AWS-EC2-IMDSV1-ENABLED"},
   MEDIUM |->
      {"AWS-EBS-UNENCRYPTED", "AZ-VM-UNENCRYPTED-DISK", "AZ-VM-PASSWORD-AUTH"},
   LOW |-> {"AWS-EC2-PUBLIC-IP"}]

\* Managed databases.
DatabaseRules ==
  [CRITICAL |-> {"AWS-RDS-PUBLIC-ACCESS"},
   HIGH |->
      {"AWS-RDS-UNENCRYPTED", "AZ-SQL-PUBLIC-ACCESS", "AZ-SQL-TDE-DISABLED"},
   MEDIUM |-> {"AWS-RDS-NO-BACKUP"}]

\* Audit trails and detectors.
LoggingRules ==
  [HIGH |-> {"AWS-TRAIL-DISABLED"},
   MEDIUM |-> {"AWS-GUARDDUTY-OFF", "AZ-ACTIVITY-LOG-OFF"}]

-----------------------------------------------------------------------------
Severities == {"CRITICAL", "HIGH", "MEDIUM", "LOW", "INFO"}

\* severityFromCvss; the score is in tenths.
SeverityFromCvss(score) ==
  CASE score >= 90 -> "CRITICAL"
    [] score \in 70 .. 89 -> "HIGH"
    [] score \in 40 .. 69 -> "MEDIUM"
    [] score \in 1 .. 39 -> "LOW"
    [] OTHER -> "INFO"

\* FINDING_RULES: the category and the tables of every section.
Sections ==
  [EXPOSED_SERVICE |-> {ServiceRules, TakeoverRules},
   HTTP_HEADERS |-> {HeaderRules, RedirectRules, ContentRules, DeepWebRules},
   TLS_CERTIFICATE |-> {TlsRules},
   SENSITIVE_PATH |-> {PathRules, ApiRules, DisclosureRules},
   VULNERABLE_SOFTWARE |-> {SoftwareRules},
   EMAIL_SECURITY |-> {SenderRules, MailRules, DnsRules, BrandRules}]

\* CSPM_RULES_MAP
CloudSections ==
  [CLOUD_IAM |-> {IdentityRules}, CLOUD_STORAGE |-> {StorageRules},
   CLOUD_NETWORK |-> {NetworkRules}, CLOUD_COMPUTE |-> {ComputeRules},
   CLOUD_DATABASE |-> {DatabaseRules}, CLOUD_LOGGING |-> {LoggingRules}]

AllSections == Sections ++ CloudSections

Listed(tables) == UNION {UNION {t[s] : s \in DOMAIN t} : t \in tables}

FindingRules == UNION {Listed(Sections[c]) : c \in DOMAIN Sections}
CloudRules == UNION {Listed(CloudSections[c]) : c \in DOMAIN CloudSections}

CategoryOf ==
  [r \in FindingRules \cup CloudRules |->
     CHOOSE c \in DOMAIN AllSections : r \in Listed(AllSections[c])]

SeverityOf ==
  [r \in FindingRules \cup CloudRules |->
     CHOOSE s \in Severities :
       \E t \in AllSections[CategoryOf[r]] : s \in DOMAIN t /\ r \in t[s]]

\* computeRuleEffortAndImpact: which repairs are a project of their own, ...
Structural ==
  {"HDR-CSP-MISSING", "HDR-OUTDATED-TECH", "HDR-EOL-TECH", "TLS-LEGACY-PROTOCOL"}

\* ... which are a matter of minutes, ...
QuickWin ==
  Listed({HeaderRules, RedirectRules, DisclosureRules, BrandRules})
    \cup (Listed({PathRules, ApiRules}) \ {"PATH-ADMIN-PANEL"})
    \cup {"HDR-CORS-ORIGIN-REFLECTION", "PATH-SOURCEMAP-EXPOSED",
           "PATH-ROBOTS-SENSITIVE-EXPOSED", "WEB-DEBUG-STACKTRACE-LEAK",
           "WEB-INTERNAL-PATH-DISCLOSURE", "CMS-WP-XMLRPC-ENABLED",
           "CMS-WP-USER-ENUMERATION", "SVC-CLEARTEXT-REMOTE-ADMIN",
           "SVC-CLEARTEXT-FILE-TRANSFER", "MAIL-SPF-MISSING",
           "MAIL-DMARC-MISSING", "MAIL-DMARC-MONITOR-ONLY"}

\* ... and the rest. A cloud rule is not in FINDING_RULES, so whoever asks for
\* its effort falls back to MODERATE too (findings.service, attack-paths.service).
EffortOf(r) ==
  IF r \in Structural THEN "STRUCTURAL"
  ELSE IF r \in QuickWin THEN "QUICK_WIN" ELSE "MODERATE"

\* The kind of impact, decided by fragments of the identifier in this order.
\* The fragment CARD of a payment card is also part of WILDCARD.
ImpactOf(r) ==
  CASE r \in {"WEB-SRI-MISSING-EXTERNAL-SCRIPT", "HDR-CORS-WILDCARD"} -> "FRAUD"
    [] r \in {"SVC-CLEARTEXT-REMOTE-ADMIN", "CMS-WP-USER-ENUMERATION",
              "CMS-WP-XMLRPC-ENABLED", "PATH-ADMIN-PANEL"} -> "TAKEOVER"
    [] \/ CategoryOf[r] = "EMAIL_SECURITY"
       \/ r = "SVC-MAIL-CLEARTEXT" -> "PHISHING"
    [] r \in {"WEB-JS-SECRET-LEAK", "PATH-SOURCEMAP-EXPOSED", "TLS-WEAK-KEY",
              "PATH-SECRETS-EXPOSED", "API-QUERY-SECRET-PARAM",
              "API-ACTUATOR-ENV-EXPOSED"} -> "SECRETS"
    [] r \in {"WEB-DEBUG-STACKTRACE-LEAK", "WEB-INTERNAL-PATH-DISCLOSURE",
              "CMS-WP-DEBUG-LOG-EXPOSED", "PATH-DEBUG-INFO"} -> "INTERNALS"
    [] r \in {"PATH-API-DOCS", "API-DOCS-UNAUTHENTICATED-OPERATIONS"} -> "API"
    [] CategoryOf[r] = "EXPOSED_SERVICE" -> "PERIMETER"
    [] OTHER -> "GENERAL"
=============================================================================
