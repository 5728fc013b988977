---------------------------- MODULE AttackPaths ----------------------------
\* The attack paths of an asset (findings/attack-paths.service.ts): which
\* combinations of its active findings make one. A finding is a record with its
\* rule and its location, of which the first element says where on the site it
\* is. Conditions on identifiers that the catalog does not have, which no finding
\* satisfies, are left out: AP-SUBDOMAIN-TAKEOVER asks for SUBDOMAIN-TAKEOVER-RISK
\* where the rule of the catalog is DNS-SUBDOMAIN-TAKEOVER.
EXTENDS RuleCatalog

Of(fs, rules) == {f \in fs : f.rule \in rules}

\* The findings whose location mentions a part of a shop.
On(fs, places) == {f \in fs : f.at[1] \in places}

\* A path with the findings that make it up. quick: a path for which the code says
\* QUICK_WIN whatever the findings.
Path(id, severity, parts, quick) ==
  LET wins == {f \in parts : EffortOf(f.rule) = "QUICK_WIN"}
  IN {[id |-> id, severity |-> severity, findings |-> parts,
       quickWins |-> Cardinality(wins),
       effort |-> IF quick \/ wins # {} THEN "QUICK_WIN" ELSE "MODERATE"]}

\* evaluatePaymentFraud: two of an external script, a weak policy and a form or a
\* cookie of the checkout.
PaymentFraud(fs) ==
  LET scripts == Of(fs, {"WEB-SRI-MISSING-EXTERNAL-SCRIPT"})
      policies == Of(fs, {"HDR-CSP-MISSING", "HDR-CSP-UNSAFE"})
      forms == Of(fs, {"HDR-COOKIE-INSECURE", "HDR-COOKIE-PREFIX-INVALID",
                       "HDR-COOKIE-NO-HTTPONLY", "HDR-COOKIE-NO-SAMESITE",
                       "HDR-COOKIE-SAMESITE-NONE-INSECURE",
                       "HDR-CACHE-CONTROL-MISSING-SENSITIVE"})
               \cup On(fs, {"checkout", "cart"})
      pairs == {<<scripts, policies>>, <<scripts, forms>>, <<policies, forms>>}
  IN IF \A p \in pairs : p[1] = {} \/ p[2] = {} THEN {}
     ELSE Path("AP-PAYMENT-FRAUD", "CRITICAL", scripts \cup policies \cup forms, FALSE)

\* evaluateStoreTakeover: a way in and a way to guess who may use it.
StoreTakeover(fs) ==
  LET logins == Of(fs, {"PATH-ADMIN-PANEL"}) \cup On(fs, {"admin", "login"})
      users == Of(fs, {"CMS-WP-USER-ENUMERATION"})
      amplifiers == Of(fs, {"CMS-WP-XMLRPC-ENABLED"})
  IN IF logins = {} \/ users \cup amplifiers = {} THEN {}
     ELSE Path("AP-STORE-TAKEOVER",
               IF users # {} /\ amplifiers # {} THEN "CRITICAL" ELSE "HIGH",
               logins \cup users \cup amplifiers, FALSE)

\* evaluateBrandImpersonation
BrandImpersonation(fs) ==
  LET dmarc == Of(fs, {"MAIL-DMARC-MISSING", "MAIL-DMARC-MONITOR-ONLY"})
      others == Of(fs, {"MAIL-SPF-MISSING", "MAIL-SPF-PASS-ALL", "EMAIL-BIMI-INVALID",
                        "EMAIL-IP-BLACKLISTED", "EMAIL-NO-MTA-STS"})
  IN IF dmarc = {} \/ others = {} THEN {}
     ELSE Path("AP-BRAND-IMPERSONATION", "HIGH", dmarc \cup others, TRUE)

\* evaluateDataExfiltration: a secret, or an open interface next to any sensitive
\* path. Some of those interfaces are sensitive paths themselves.
DataExfiltration(fs) ==
  LET secrets == Of(fs, {"WEB-JS-SECRET-LEAK", "API-QUERY-SECRET-PARAM",
                         "WEB-DEBUG-STACKTRACE-LEAK", "WEB-INTERNAL-PATH-DISCLOSURE",
                         "PATH-SECRETS-EXPOSED"})
      open == Of(fs, {"HDR-CORS-ORIGIN-REFLECTION", "HDR-CORS-WILDCARD", "API-SWAGGER-EXPOSED",
                      "API-DOCS-UNAUTHENTICATED-OPERATIONS", "API-INTERNAL-HOST-EXPOSED",
                      "API-GRAPHQL-INTROSPECTION"})
      near == \E f \in fs : CategoryOf[f.rule] = "SENSITIVE_PATH"
  IN IF secrets # {} \/ (open # {} /\ near)
     THEN Path("AP-DATA-EXFILTRATION", "CRITICAL", secrets \cup open, FALSE) ELSE {}

\* evaluateInfrastructureCompromise
Infrastructure(fs) ==
  LET parts == Of(fs, {"SVC-CLEARTEXT-REMOTE-ADMIN", "SVC-CLEARTEXT-FILE-TRANSFER",
                       "SVC-DATABASE-EXPOSED", "SVC-ORCHESTRATION-EXPOSED",
                       "AWS-S3-PUBLIC-READ", "AWS-RDS-PUBLIC-ACCESS",
                       "AZ-BLOB-PUBLIC-ACCESS", "AZ-SQL-PUBLIC-ACCESS"})
  IN IF parts = {} THEN {} ELSE Path("AP-INFRASTRUCTURE-COMPROMISE", "CRITICAL", parts, TRUE)

\* evaluateSubdomainTakeover
SubdomainTakeover(fs) ==
  LET parts == Of(fs, {"DNS-DNSSEC-BOGUS"})
  IN IF parts = {} THEN {} ELSE Path("AP-SUBDOMAIN-TAKEOVER", "HIGH", parts, TRUE)

\* analyzeAttackPaths, for the findings of one asset.
AttackPathsOf(fs) ==
  PaymentFraud(fs) \cup StoreTakeover(fs) \cup BrandImpersonation(fs)
  \cup DataExfiltration(fs) \cup Infrastructure(fs) \cup SubdomainTakeover(fs)
=============================================================================
