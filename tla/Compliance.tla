----------------------------- MODULE Compliance -----------------------------
\* The controls of five frameworks (compliance/compliance.catalog.ts), each with
\* the rules that break it, and the compliance that follows from the findings
\* (compliance/compliance.service.ts). A finding is a record with its rule, its
\* asset and its severity; fs holds the OPEN and IN_PROGRESS findings of active
\* assets: one that is being verified does not count here.
EXTENDS RuleCatalog, Sequences, SequencesExt

\* ISO 27001: networks, cryptography and applications.
IsoNetworkControls ==
  [c \in {"ISO-A.8.20", "ISO-A.8.24", "ISO-A.8.26"} |->
     CASE c = "ISO-A.8.20" ->
            (Listed({DnsRules, NetworkRules}) \ {"DNS-CAA-INVALID"})
            \cup {"MAIL-SPF-MISSING", "MAIL-SPF-INVALID", "MAIL-SPF-PASS-ALL", "MAIL-DMARC-MISSING",
              "MAIL-DMARC-INVALID", "MAIL-DKIM-NOT-FOUND", "EMAIL-NO-MTA-STS",
              "DNS-SUBDOMAIN-TAKEOVER", "WEB-WAF-ABSENT", "WEB-HTTP-METHODS-DANGEROUS",
              "AWS-S3-PUBLIC-READ", "AZ-BLOB-PUBLIC-ACCESS", "AWS-EC2-PUBLIC-IP",
              "AWS-RDS-PUBLIC-ACCESS", "AZ-SQL-PUBLIC-ACCESS"}
       [] c = "ISO-A.8.24" ->
            Listed({TlsRules})
            \cup {"HDR-HSTS-MISSING", "HDR-HSTS-SHORT", "HDR-HTTP-NO-REDIRECT",
              "SVC-CLEARTEXT-REMOTE-ADMIN", "SVC-CLEARTEXT-FILE-TRANSFER", "SVC-MAIL-CLEARTEXT",
              "WEB-MIXED-CONTENT", "WEB-INSECURE-FORM-ACTION", "WEB-JS-SECRET-LEAK",
              "AWS-IAM-KEY-ROTATION", "AWS-S3-UNENCRYPTED", "AZ-STORAGE-NO-HTTPS",
              "AZ-STORAGE-NO-TLS12", "AWS-EBS-UNENCRYPTED", "AZ-VM-UNENCRYPTED-DISK",
              "AWS-RDS-UNENCRYPTED", "AZ-SQL-TDE-DISABLED"}
       [] c = "ISO-A.8.26" ->
            {"HDR-CSP-MISSING", "HDR-CSP-UNSAFE", "HDR-XFO-MISSING", "HDR-XCTO-MISSING",
              "HDR-REFERRER-MISSING", "HDR-PERMISSIONS-MISSING", "HDR-COOKIE-INSECURE",
              "HDR-COOKIE-NO-HTTPONLY", "HDR-COOKIE-NO-SAMESITE",
              "HDR-COOKIE-SAMESITE-NONE-INSECURE", "HDR-COOKIE-PREFIX-INVALID",
              "HDR-CACHE-CONTROL-MISSING-SENSITIVE", "HDR-CORS-WILDCARD",
              "HDR-CORS-CREDENTIALS-INSECURE", "HDR-CORS-ORIGIN-REFLECTION",
              "WEB-SRI-MISSING-EXTERNAL-SCRIPT", "PATH-SOURCEMAP-EXPOSED",
              "PATH-ROBOTS-SENSITIVE-EXPOSED", "CMS-WP-USER-ENUMERATION",
              "CMS-WP-XMLRPC-ENABLED", "CMS-WP-DEBUG-LOG-EXPOSED"}]

\* ISO 27001: vulnerabilities, configuration, software and access to the web.
IsoOperationsControls ==
  [c \in {"ISO-A.8.8", "ISO-A.8.9", "ISO-A.8.19", "ISO-A.8.23"} |->
     CASE c = "ISO-A.8.8" ->
            {"VULN-KNOWN-CVE", "HDR-OUTDATED-TECH", "HDR-EOL-TECH", "AWS-GUARDDUTY-OFF"}
       [] c = "ISO-A.8.9" ->
            (Listed({ApiRules}) \ {"PATH-K8S-CONFIG-EXPOSED"})
            \cup {"HDR-SERVER-VERSION", "HDR-POWERED-BY", "PATH-DEBUG-INFO", "PATH-DIRECTORY-LISTING",
              "WEB-DEBUG-STACKTRACE-LEAK", "WEB-INTERNAL-PATH-DISCLOSURE", "AWS-S3-LOGGING-OFF",
              "AWS-EC2-IMDSV1-ENABLED", "AWS-RDS-NO-BACKUP", "AWS-TRAIL-DISABLED",
              "AZ-ACTIVITY-LOG-OFF"}
       [] c = "ISO-A.8.19" ->
            (Listed({IdentityRules}) \ {"AWS-IAM-KEY-ROTATION"})
            \cup {"SVC-REMOTE-DESKTOP", "SVC-DATABASE-EXPOSED", "SVC-FILE-SHARING",
              "SVC-ORCHESTRATION-EXPOSED", "SVC-DIRECTORY-SERVICE", "SVC-RPC-EXPOSED",
              "SVC-OPEN-PORT", "AZ-VM-PASSWORD-AUTH"}
       [] c = "ISO-A.8.23" ->
            {"PATH-SECRETS-EXPOSED", "PATH-VCS-EXPOSED", "PATH-BACKUP-EXPOSED", "PATH-CONFIG-EXPOSED",
              "PATH-ADMIN-PANEL", "PATH-K8S-CONFIG-EXPOSED"}]

\* PCI DSS: networks, configuration and transmission.
PciSystemControls ==
  [c \in {"PCI-1.3", "PCI-2.2", "PCI-4.1"} |->
     CASE c = "PCI-1.3" ->
            (Listed({NetworkRules}) \ {"AWS-VPC-FLOW-LOGS"})
            \cup {"SVC-DATABASE-EXPOSED", "SVC-ORCHESTRATION-EXPOSED", "SVC-DIRECTORY-SERVICE",
              "SVC-RPC-EXPOSED", "SVC-FILE-SHARING", "SVC-OPEN-PORT", "AWS-IAM-ADMIN-POLICY",
              "AZ-IAM-CUSTOM-OWNER", "AWS-S3-PUBLIC-READ", "AZ-BLOB-PUBLIC-ACCESS",
              "AWS-EC2-PUBLIC-IP", "AWS-RDS-PUBLIC-ACCESS", "AZ-SQL-PUBLIC-ACCESS"}
       [] c = "PCI-2.2" ->
            Listed({DeepWebRules})
            \cup {"SVC-CLEARTEXT-REMOTE-ADMIN", "SVC-CLEARTEXT-FILE-TRANSFER", "SVC-REMOTE-DESKTOP",
              "HDR-SERVER-VERSION", "HDR-POWERED-BY", "PATH-DEBUG-INFO",
              "PATH-DIRECTORY-LISTING", "API-DOCS-UNAUTHENTICATED-OPERATIONS",
              "API-QUERY-SECRET-PARAM", "WEB-HTTP-METHODS-DANGEROUS", "PATH-SOURCEMAP-EXPOSED",
              "AWS-EC2-IMDSV1-ENABLED", "AWS-IAM-ROOT-MFA", "AWS-IAM-USER-NO-MFA",
              "AWS-IAM-KEY-ROTATION", "AZ-IAM-GLOBAL-ADMIN-MFA", "AZ-VM-PASSWORD-AUTH"}
       [] c = "PCI-4.1" ->
            {"TLS-LEGACY-PROTOCOL", "TLS-WEAK-KEY", "TLS-WEAK-SIGNATURE", "TLS-WEAK-CIPHER",
              "TLS-NO-FORWARD-SECRECY", "TLS-EXCESSIVE-LIFESPAN", "TLS-NOT-AVAILABLE",
              "HDR-HSTS-MISSING", "HDR-HSTS-SHORT", "HDR-HTTP-NO-REDIRECT",
              "SVC-CLEARTEXT-REMOTE-ADMIN", "SVC-CLEARTEXT-FILE-TRANSFER", "SVC-MAIL-CLEARTEXT",
              "WEB-MIXED-CONTENT", "WEB-INSECURE-FORM-ACTION", "WEB-JS-SECRET-LEAK",
              "AWS-S3-UNENCRYPTED", "AZ-STORAGE-NO-HTTPS", "AZ-STORAGE-NO-TLS12",
              "AWS-EBS-UNENCRYPTED", "AZ-VM-UNENCRYPTED-DISK", "AWS-RDS-UNENCRYPTED",
              "AZ-SQL-TDE-DISABLED"}]

\* PCI DSS: certificates, payment pages, tampering and tests.
PciPaymentControls ==
  [c \in {"PCI-4.2.1", "PCI-6.4.3", "PCI-11.6.1", "PCI-11.3"} |->
     CASE c = "PCI-4.2.1" ->
            {"TLS-EXPIRED", "TLS-EXPIRING-7D", "TLS-EXPIRING-30D", "TLS-NOT-YET-VALID",
              "TLS-HOSTNAME-MISMATCH", "TLS-UNTRUSTED-CHAIN", "TLS-EXCESSIVE-LIFESPAN",
              "DNS-NO-CAA"}
       [] c = "PCI-6.4.3" ->
            (Listed({ContentRules}) \ {"WEB-HTTP-METHODS-DANGEROUS", "WEB-WAF-ABSENT"})
            \cup {"HDR-CSP-MISSING", "HDR-CSP-UNSAFE", "HDR-XFO-MISSING", "HDR-XCTO-MISSING",
              "HDR-COOKIE-INSECURE", "HDR-COOKIE-NO-HTTPONLY", "HDR-COOKIE-NO-SAMESITE",
              "HDR-COOKIE-PREFIX-INVALID", "HDR-CACHE-CONTROL-MISSING-SENSITIVE",
              "HDR-CORS-WILDCARD", "HDR-CORS-CREDENTIALS-INSECURE"}
       [] c = "PCI-11.6.1" ->
            (Listed({ContentRules}) \ {"PATH-SOURCEMAP-EXPOSED", "WEB-HTTP-METHODS-DANGEROUS"})
            \cup {"CMS-WP-DEBUG-LOG-EXPOSED"}
       [] c = "PCI-11.3" ->
            {"VULN-KNOWN-CVE", "HDR-OUTDATED-TECH", "HDR-EOL-TECH", "AWS-S3-LOGGING-OFF",
              "AWS-VPC-FLOW-LOGS", "AWS-TRAIL-DISABLED", "AZ-ACTIVITY-LOG-OFF"}]

\* SOC 2: trust criteria CC6 and CC7.
SocControls ==
  [c \in {"SOC2-CC6.1", "SOC2-CC6.6", "SOC2-CC6.7", "SOC2-CC7.1"} |->
     CASE c = "SOC2-CC6.1" ->
            (Listed({IdentityRules, NetworkRules}) \ {"AWS-IAM-KEY-ROTATION", "AWS-VPC-FLOW-LOGS"})
            \cup {"SVC-REMOTE-DESKTOP", "SVC-DATABASE-EXPOSED", "SVC-ORCHESTRATION-EXPOSED",
              "SVC-DIRECTORY-SERVICE", "PATH-ADMIN-PANEL", "PATH-K8S-CONFIG-EXPOSED"}
       [] c = "SOC2-CC6.6" ->
            {"MAIL-SPF-MISSING", "MAIL-SPF-INVALID", "MAIL-SPF-PASS-ALL", "MAIL-DMARC-MISSING",
              "MAIL-DMARC-INVALID", "MAIL-DKIM-NOT-FOUND", "DNS-NO-DNSSEC", "DNS-NO-CAA",
              "DNS-SUBDOMAIN-TAKEOVER", "WEB-WAF-ABSENT", "HDR-CORS-ORIGIN-REFLECTION",
              "EMAIL-IP-BLACKLISTED", "AWS-S3-PUBLIC-READ", "AZ-BLOB-PUBLIC-ACCESS",
              "AWS-EC2-IMDSV1-ENABLED", "AWS-RDS-PUBLIC-ACCESS", "AZ-SQL-PUBLIC-ACCESS"}
       [] c = "SOC2-CC6.7" ->
            {"TLS-EXPIRED", "TLS-EXPIRING-7D", "TLS-LEGACY-PROTOCOL", "TLS-WEAK-KEY",
              "TLS-UNTRUSTED-CHAIN", "HDR-HSTS-MISSING", "HDR-HTTP-NO-REDIRECT",
              "SVC-CLEARTEXT-REMOTE-ADMIN", "SVC-CLEARTEXT-FILE-TRANSFER", "SVC-MAIL-CLEARTEXT",
              "WEB-MIXED-CONTENT", "WEB-INSECURE-FORM-ACTION", "WEB-JS-SECRET-LEAK",
              "AWS-S3-UNENCRYPTED", "AZ-STORAGE-NO-HTTPS", "AWS-RDS-UNENCRYPTED",
              "AZ-SQL-TDE-DISABLED"}
       [] c = "SOC2-CC7.1" ->
            Listed({LoggingRules})
            \cup {"VULN-KNOWN-CVE", "HDR-OUTDATED-TECH", "HDR-EOL-TECH", "PATH-SECRETS-EXPOSED",
              "PATH-VCS-EXPOSED", "PATH-BACKUP-EXPOSED", "PATH-CONFIG-EXPOSED",
              "API-ACTUATOR-ENV-EXPOSED", "WEB-SRI-MISSING-EXTERNAL-SCRIPT",
              "PATH-SOURCEMAP-EXPOSED", "CMS-WP-USER-ENUMERATION", "CMS-WP-XMLRPC-ENABLED",
              "CMS-WP-DEBUG-LOG-EXPOSED", "WEB-HTTP-METHODS-DANGEROUS",
              "PATH-ROBOTS-SENSITIVE-EXPOSED", "AWS-RDS-NO-BACKUP"}]

\* NIST CSF: access, data, platforms and mitigation.
NistControls ==
  [c \in {"NIST-PR.AC-3", "NIST-PR.DS-2", "NIST-PR.DS-5", "NIST-PR.PS-1", "NIST-RS.MI-3"} |->
     CASE c = "NIST-PR.AC-3" ->
            (Listed({IdentityRules, NetworkRules}) \ {"AWS-IAM-KEY-ROTATION", "AWS-VPC-FLOW-LOGS"})
            \cup {"SVC-REMOTE-DESKTOP", "SVC-CLEARTEXT-REMOTE-ADMIN", "SVC-DIRECTORY-SERVICE",
              "PATH-ADMIN-PANEL", "PATH-DEV-CONSOLE-EXPOSED", "DNS-SUBDOMAIN-TAKEOVER",
              "CMS-WP-USER-ENUMERATION", "WEB-WAF-ABSENT", "AWS-RDS-PUBLIC-ACCESS",
              "AZ-SQL-PUBLIC-ACCESS"}
       [] c = "NIST-PR.DS-2" ->
            {"TLS-EXPIRED", "TLS-EXPIRING-7D", "TLS-LEGACY-PROTOCOL", "TLS-WEAK-KEY",
              "TLS-WEAK-SIGNATURE", "TLS-WEAK-CIPHER", "TLS-NO-FORWARD-SECRECY",
              "TLS-EXCESSIVE-LIFESPAN", "TLS-NOT-AVAILABLE", "HDR-HSTS-MISSING",
              "HDR-HTTP-NO-REDIRECT", "WEB-MIXED-CONTENT", "WEB-INSECURE-FORM-ACTION",
              "SVC-CLEARTEXT-FILE-TRANSFER", "AZ-STORAGE-NO-HTTPS", "AZ-STORAGE-NO-TLS12"}
       [] c = "NIST-PR.DS-5" ->
            {"PATH-SECRETS-EXPOSED", "PATH-VCS-EXPOSED", "PATH-BACKUP-EXPOSED", "PATH-CONFIG-EXPOSED",
              "PATH-K8S-CONFIG-EXPOSED", "API-ACTUATOR-ENV-EXPOSED", "WEB-JS-SECRET-LEAK",
              "PATH-SOURCEMAP-EXPOSED", "CMS-WP-DEBUG-LOG-EXPOSED",
              "PATH-ROBOTS-SENSITIVE-EXPOSED", "AWS-S3-PUBLIC-READ", "AWS-S3-UNENCRYPTED",
              "AZ-BLOB-PUBLIC-ACCESS", "AWS-EBS-UNENCRYPTED", "AZ-VM-UNENCRYPTED-DISK",
              "AWS-RDS-UNENCRYPTED", "AZ-SQL-TDE-DISABLED"}
       [] c = "NIST-PR.PS-1" ->
            Listed({LoggingRules})
            \cup {"HDR-CSP-MISSING", "HDR-CSP-UNSAFE", "HDR-XFO-MISSING", "HDR-XCTO-MISSING",
              "HDR-SERVER-VERSION", "HDR-POWERED-BY", "HDR-COOKIE-INSECURE",
              "HDR-CORS-WILDCARD", "HDR-CORS-ORIGIN-REFLECTION",
              "WEB-SRI-MISSING-EXTERNAL-SCRIPT", "CMS-WP-XMLRPC-ENABLED",
              "WEB-HTTP-METHODS-DANGEROUS", "AWS-EC2-IMDSV1-ENABLED", "AZ-VM-PASSWORD-AUTH"}
       [] c = "NIST-RS.MI-3" ->
            {"VULN-KNOWN-CVE", "HDR-OUTDATED-TECH", "HDR-EOL-TECH"}]

\* CIS controls.
CisControls ==
  [c \in {"CIS-4.1", "CIS-7.1", "CIS-9.2", "CIS-10.4", "CIS-16.1"} |->
     CASE c = "CIS-4.1" ->
            Listed({IdentityRules, LoggingRules})
            \cup {"HDR-CSP-MISSING", "HDR-XFO-MISSING", "HDR-XCTO-MISSING", "HDR-SERVER-VERSION",
              "HDR-POWERED-BY", "PATH-DEBUG-INFO", "PATH-DIRECTORY-LISTING",
              "API-METRICS-EXPOSED", "AWS-EC2-IMDSV1-ENABLED", "AZ-VM-PASSWORD-AUTH",
              "AWS-RDS-NO-BACKUP"}
       [] c = "CIS-7.1" ->
            {"VULN-KNOWN-CVE", "HDR-OUTDATED-TECH", "HDR-EOL-TECH"}
       [] c = "CIS-9.2" ->
            (Listed({ServiceRules, NetworkRules}) \ {"SVC-MAIL-CLEARTEXT", "SVC-OPEN-PORT"})
            \cup {"DNS-SUBDOMAIN-TAKEOVER", "WEB-WAF-ABSENT", "WEB-HTTP-METHODS-DANGEROUS",
              "CMS-WP-XMLRPC-ENABLED", "AWS-S3-PUBLIC-READ", "AZ-BLOB-PUBLIC-ACCESS",
              "AWS-EC2-PUBLIC-IP", "AWS-RDS-PUBLIC-ACCESS", "AZ-SQL-PUBLIC-ACCESS"}
       [] c = "CIS-10.4" ->
            {"TLS-EXPIRED", "TLS-LEGACY-PROTOCOL", "TLS-WEAK-KEY", "TLS-UNTRUSTED-CHAIN",
              "HDR-HSTS-MISSING", "HDR-HTTP-NO-REDIRECT", "WEB-MIXED-CONTENT",
              "WEB-INSECURE-FORM-ACTION", "MAIL-SPF-MISSING", "MAIL-DMARC-MISSING",
              "AWS-S3-UNENCRYPTED", "AZ-STORAGE-NO-HTTPS", "AZ-STORAGE-NO-TLS12",
              "AWS-EBS-UNENCRYPTED", "AZ-VM-UNENCRYPTED-DISK", "AWS-RDS-UNENCRYPTED",
              "AZ-SQL-TDE-DISABLED"}
       [] c = "CIS-16.1" ->
            {"WEB-SRI-MISSING-EXTERNAL-SCRIPT", "WEB-JS-SECRET-LEAK", "PATH-SOURCEMAP-EXPOSED",
              "HDR-CORS-ORIGIN-REFLECTION", "CMS-WP-USER-ENUMERATION",
              "CMS-WP-DEBUG-LOG-EXPOSED", "PATH-ROBOTS-SENSITIVE-EXPOSED"}]

-----------------------------------------------------------------------------
\* COMPLIANCE_CONTROLS by framework, in the order of the enumeration.
Frameworks ==
  <<IsoNetworkControls ++ IsoOperationsControls, PciSystemControls ++ PciPaymentControls,
    SocControls, NistControls, CisControls>>

\* matchingFindings: the findings of the rules of a control.
Failing(controls, c, fs) == {f \in fs : f.rule \in controls[c]}

PassedControls(controls, fs) == {c \in DOMAIN controls : Failing(controls, c, fs) = {}}

\* SEVERITY_WEIGHT
SeverityWeight ==
  [CRITICAL |-> 5, HIGH |-> 4, MEDIUM |-> 3, LOW |-> 2, INFO |-> 1]

\* worstSeverity, of the findings of a control or of a framework.
WorstSeverity(fs) ==
  IF fs = {} THEN "none"
  ELSE CHOOSE s \in {f.severity : f \in fs} :
         \A f \in fs : SeverityWeight[f.severity] <= SeverityWeight[s]

\* Math.round of 100 * part / whole.
Percentage(part, whole) == (200 * part + whole) \div (2 * whole)

\* getOverview and getFrameworkDetails: how much of a framework is fulfilled.
FrameworkPercentage(controls, fs) ==
  Percentage(Cardinality(PassedControls(controls, fs)), Cardinality(DOMAIN controls))

\* globalCompliancePercentage: the mean of the rounded percentages.
GlobalPercentage(fs) ==
  LET of(i) == FrameworkPercentage(Frameworks[i], fs)
  IN (2 * (of(1) + of(2) + of(3) + of(4) + of(5)) + Len(Frameworks)) \div (2 * Len(Frameworks))

\* The failing controls of all frameworks: what the overview sorts.
FailingControls(fs) ==
  UNION {{[code |-> c, worst |-> WorstSeverity(Failing(Frameworks[i], c, fs)),
           findings |-> Cardinality(Failing(Frameworks[i], c, fs)),
           assets |-> Cardinality({f.asset : f \in Failing(Frameworks[i], c, fs)})] :
            c \in DOMAIN Frameworks[i] \ PassedControls(Frameworks[i], fs)} :
         i \in DOMAIN Frameworks}

\* A slip: the number of findings goes before the severity.
MoreFindings(a, b) ==
  \/ a.findings > b.findings
  \/ a.findings = b.findings /\ SeverityWeight[a.worst] > SeverityWeight[b.worst]

\* The order of topFailingControls: severity first, then the number of findings.
Heavier(a, b) ==
  \/ SeverityWeight[a.worst] > SeverityWeight[b.worst]
  \/ a.worst = b.worst /\ a.findings > b.findings

\* topFailingControls: a control is shown when fewer than five are heavier, and
\* equals are as the sort leaves them.
MaxTop == 5
MayBeShown(c, fs) == Cardinality({d \in FailingControls(fs) : Heavier(d, c)}) < MaxTop
=============================================================================
