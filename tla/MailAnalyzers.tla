--------------------------- MODULE MailAnalyzers ---------------------------
\* What the scan of the mail and of the name servers of a domain concludes
\* (scans/email, scans/dns, scanners/email-security.scanner.ts), on the records
\* z that the domain publishes and the set of lookups that fail.
EXTENDS FindingDrafts, Integers, FiniteSets, SequencesExt

CONSTANT NoDomain

-----------------------------------------------------------------------------
\* SPF. A record holds its terms, [mechanism, qualifier, domain], the domain of
\* its redirect, and whether a term is not valid. dns[d] is the sequence of
\* records of d, for the domains whose lookup does not fail.
SpfMaxLookups == 10
SpfMaxDepth == 10
LookupMechanisms == {"include", "a", "mx", "ptr", "exists"}

SpfQualifiers == {"+", "-", "~", "?"}

\* follow: a name met before counts as a loop, on whatever path it was met. A
\* failed lookup is no error. walk is the walk of a record at a depth.
SpfFollow(dns, d, depth, st, walk) ==
  LET met == [st EXCEPT !.visited = @ \cup {d}, !.all = "null"]
      wrong == [met EXCEPT !.errors = TRUE]
  IN IF d \in st.visited THEN wrong
     ELSE IF d \notin DOMAIN dns THEN met
     ELSE IF Len(dns[d]) # 1 THEN wrong
     ELSE walk[depth, dns[d][1], met]

\* walk: the includes in order, then the own "all" or that of the redirect.
SpfWalk(dns, record, depth, st, walk) ==
  LET follow(d, s) == SpfFollow(dns, d, depth + 1, s, walk)
      term(s, t) ==
        LET counted == [s EXCEPT !.lookups = @ + 1]
            more == counted.lookups <= SpfMaxLookups /\ depth < SpfMaxDepth
        IN IF t.mechanism \notin LookupMechanisms THEN s
           ELSE IF t.mechanism = "include" /\ more THEN follow(t.domain, counted) ELSE counted
      walked == FoldLeft(term, [st EXCEPT !.errors = @ \/ record.errors], record.terms)
      counted == [walked EXCEPT !.lookups = @ + 1]
      last == SelectInSeq(record.terms, LAMBDA t : t.mechanism = "all")
  IN IF last # 0 THEN [walked EXCEPT !.all = record.terms[last].qualifier]
     ELSE IF record.redirect = NoDomain THEN [walked EXCEPT !.all = "null"]
     ELSE IF counted.lookups <= SpfMaxLookups /\ depth < SpfMaxDepth
       THEN follow(record.redirect, counted)
     ELSE [counted EXCEPT !.all = "null"]

\* evaluateSpf: walk and follow call one another.
EvaluateSpf(record, dns) ==
  LET records == {record} \cup {dns[d][1] : d \in {x \in DOMAIN dns : Len(dns[x]) = 1}}
      names == UNION {{r.terms[i].domain : i \in DOMAIN r.terms} \cup {r.redirect} : r \in records}
      states == [lookups : Nat, errors : BOOLEAN, visited : SUBSET names,
                 all : SpfQualifiers \cup {"null"}]
      walk[depth \in 0 .. SpfMaxDepth, r \in records, st \in states] ==
        SpfWalk(dns, r, depth, st, walk)
      ended == walk[0, record, [lookups |-> 0, errors |-> FALSE, visited |-> {}, all |-> "null"]]
  IN [ended EXCEPT !.errors = @ \/ ended.lookups > SpfMaxLookups]

-----------------------------------------------------------------------------
\* DMARC. z.dmarc holds what the domain and the one above it publish: "absent",
\* "several" records, or one with its policy ("invalid" when it has none), the
\* policy of the subdomains, the percentage and whether it asks for reports.
DmarcAt(z) == SelectInSeq(z.dmarc, LAMBDA r : r.records # "absent")

EffectivePolicy(r, inherited) ==
  IF inherited /\ r.subdomains # "absent" THEN r.subdomains ELSE r.policy

DmarcStatus(z) ==
  LET at == DmarcAt(z) IN
  IF at = 0 THEN "missing"
  ELSE IF z.dmarc[at].records = "several" \/ z.dmarc[at].policy = "invalid" THEN "invalid"
  ELSE "ok"

Enforcing(z) ==
  /\ DmarcStatus(z) = "ok"
  /\ EffectivePolicy(z.dmarc[DmarcAt(z)], DmarcAt(z) > 1) # "none"
  /\ z.dmarc[DmarcAt(z)].pct >= 100

DmarcFindings(z) ==
  LET at == DmarcAt(z)
      r == z.dmarc[at]
      own == at = 1
      none == EffectivePolicy(r, ~own) = "none"
  IN CASE DmarcStatus(z) = "missing" -> At({"MAIL-DMARC-MISSING"}, <<"dmarc", 1>>)
       [] DmarcStatus(z) = "invalid" -> At({"MAIL-DMARC-INVALID"}, <<"dmarc", at>>)
       [] OTHER ->
            At(When("MAIL-DMARC-MONITOR-ONLY", none)
                 \cup When("MAIL-DMARC-PARTIAL", ~none /\ r.pct < 100)
                 \cup When("MAIL-DMARC-SUBDOMAINS-UNPROTECTED",
                      own /\ r.policy # "none" /\ r.subdomains = "none")
                 \cup When("MAIL-DMARC-NO-REPORTS", own /\ ~r.reports),
               <<"dmarc", at>>)

\* The own SPF records. Whether a domain without any may be impersonated depends
\* on its DMARC policy, and so does a soft fail.
SpfFindings(z, failed) ==
  LET n == Len(z.spf)
      dns == IF "spf" \in failed THEN <<>> ELSE z.spfOf
      result == EvaluateSpf(z.spf[1], dns)
      rules ==
        CASE n = 0 -> IF z.mx \/ ~Enforcing(z) THEN {"MAIL-SPF-MISSING"} ELSE {}
          [] n > 1 -> {"MAIL-SPF-INVALID"}
          [] OTHER ->
               (IF result.errors THEN {"MAIL-SPF-INVALID"} ELSE {})
               \cup CASE result.all = "+" -> {"MAIL-SPF-PASS-ALL"}
                      [] result.all \in {"?", "null"} -> {"MAIL-SPF-NEUTRAL"}
                      [] result.all = "~" /\ ~Enforcing(z) -> {"MAIL-SPF-SOFTFAIL"}
                      [] OTHER -> {}
  IN At(rules, <<"spf">>)

\* Keys of the usual selectors; 0 bits: a key that is not RSA, or not readable.
\* A lookup that fails counts as a selector without a key.
DkimFindings(z, failed) ==
  LET keys == IF "dkim" \in failed THEN {} ELSE z.dkim
  IN IF ~z.mx THEN {}
     ELSE IF keys = {} THEN At({"MAIL-DKIM-NOT-FOUND"}, <<"dkim">>)
     ELSE {<<"MAIL-DKIM-WEAK-KEY", <<"dkim", k.selector>>>> :
             k \in {key \in keys : key.bits # 0 /\ key.bits < 2048}}

\* lookupMtaSts: the record, the file over HTTPS, its mode. A lookup or a file
\* that fails is an invalid policy.
MtaStsStatus(z, failed) ==
  IF "mta-sts" \in failed THEN "invalid"
  ELSE CASE z.mtaSts = "missing" -> "missing"
         [] z.mtaSts \in {"several", "bad record", "no file", "bad policy"} -> "invalid"
         [] "mta-sts file" \in failed -> "invalid"
         [] OTHER -> "valid"

\* lookupTlsRpt, the same for the reports on TLS.
TlsRptStatus(z, failed) ==
  IF "tls-rpt" \in failed THEN "invalid"
  ELSE CASE z.tlsRpt = "missing" -> "missing"
         [] z.tlsRpt \in {"several", "bad record"} -> "invalid"
         [] OTHER -> "valid"

TransportFindings(z, failed) ==
  IF ~z.mx THEN {}
  ELSE At(When("EMAIL-NO-MTA-STS",
                    MtaStsStatus(z, failed) # "valid" \/ z.mtaSts # "enforce"), <<"mta-sts">>)
       \cup At(When("EMAIL-NO-TLS-RPT", TlsRptStatus(z, failed) # "valid"), <<"tls-rpt">>)

\* checkIpDnsbl: an answer 127.255.255.x is an error of the list, not a listing.
BlockListFindings(z, failed) ==
  At(When("EMAIL-IP-BLACKLISTED",
               z.mx /\ "dnsbl" \notin failed /\ "listed" \in z.blockLists),
     <<"dnsbl">>)

\* lookupBimi: a domain need not have a record, and a failed lookup is as none.
BimiFindings(z, failed) ==
  At(When("EMAIL-BIMI-INVALID",
               "bimi" \notin failed /\ z.bimi \in {"several", "not https"}), <<"bimi">>)

\* lookupCaa climbs from the domain to the one above it.
CaaStatus(z, failed) ==
  LET at == SelectInSeq(z.caa, LAMBDA c : c # "absent") IN
  IF "caa" \in failed THEN "invalid"
  ELSE IF at = 0 THEN "missing"
  ELSE IF z.caa[at] = "bad flags" THEN "invalid" ELSE "valid"

\* lookupDnssec, by the answers of a resolver that validates.
DnssecStatus(z, failed) ==
  LET d == z.dnssec IN
  IF "doh" \in failed THEN "indeterminate"
  ELSE IF d.servfail THEN "bogus"
  ELSE IF d.ad /\ (d.ds \/ d.dnskey) THEN "secure"
  ELSE IF d.ds THEN "bogus" ELSE "insecure"

DnsFindings(z, failed) ==
  At(When("DNS-NO-CAA", CaaStatus(z, failed) = "missing")
     \cup When("DNS-CAA-INVALID", CaaStatus(z, failed) = "invalid"), <<"caa">>)
  \cup At(When("DNS-NO-DNSSEC", DnssecStatus(z, failed) = "insecure")
          \cup When("DNS-DNSSEC-BOGUS", DnssecStatus(z, failed) = "bogus"), <<"dnssec">>)

-----------------------------------------------------------------------------
\* EmailSecurityScanner.run. Only these lookups make it fail; the findings
\* depend on every other one as if its answer had been another.
FatalLookups == {"mx", "txt", "dmarc"}
Lookups == FatalLookups \cup {"spf", "dkim", "mta-sts", "mta-sts file", "tls-rpt",
                              "dnsbl", "bimi", "caa", "doh"}

MailFindings(z, failed) ==
  DmarcFindings(z) \cup SpfFindings(z, failed) \cup DkimFindings(z, failed)
  \cup TransportFindings(z, failed) \cup BlockListFindings(z, failed)
  \cup BimiFindings(z, failed) \cup DnsFindings(z, failed)

\* The severities that replace the one of the catalog.
MailSeverity(z, f) ==
  CASE f[1] = "MAIL-SPF-MISSING" /\ ~z.mx -> "LOW"
    [] f[1] = "MAIL-DKIM-WEAK-KEY"
       /\ \E k \in z.dkim : k.selector = f[2][2] /\ k.bits >= 1024 -> "LOW"
    [] OTHER -> "default"
=============================================================================
