------------------------- MODULE VulnerableSoftware -------------------------
\* The known vulnerabilities of the software behind the open ports
\* (vulnerabilities/). A version is the sequence of its tokens, <<"number", n>>,
\* <<"pre", n>> for the marks of a release that is not final, or <<"suffix", n>>,
\* where n orders the letters; <<>> is no version.
EXTENDS RuleCatalog, Sequences, SequencesExt

\* tailSign: what a version means by the tokens that another lacks. The mark "pN"
\* of a portable release does not count, and neither do zeros.
PortableMark == <<"suffix", 16>>
TailSign(rest) ==
  CASE rest = <<>> -> 0
    [] rest # <<>> /\ rest[1][1] # "number" ->
         IF rest[1] = PortableMark /\ Len(rest) = 2 /\ rest[2][1] = "number" THEN 0
         ELSE IF rest[1][1] = "pre" THEN -1 ELSE 1
    [] OTHER -> IF \A i \in DOMAIN rest : rest[i] = <<"number", 0>> THEN 0 ELSE 1

\* The sign for the first token in which two versions differ.
TokenSign(x, y) ==
  IF x[1] = y[1] THEN (IF x[2] < y[2] THEN -1 ELSE 1)
  ELSE IF x[1] = "number" \/ y[1] = "pre" THEN 1 ELSE -1

\* compareVersions: negative, zero or positive.
CompareVersions(a, b) ==
  LET n == IF Len(a) < Len(b) THEN Len(a) ELSE Len(b)
      differ == {i \in 1 .. n : a[i] # b[i]}
      first == CHOOSE i \in differ : \A j \in differ : i <= j
  IN IF differ # {} THEN TokenSign(a[first], b[first])
     ELSE IF Len(a) > n THEN TailSign(SubSeq(a, n + 1, Len(a)))
     ELSE 0 - TailSign(SubSeq(b, n + 1, Len(b)))

\* splitVersion: the numbers a version starts with, and the rest.
Numbers(v) == SubSeq(v, 1, Cardinality({i \in DOMAIN v : \A j \in 1 .. i : v[j][1] = "number"}))
Suffix(v) == SubSeq(v, Len(Numbers(v)) + 1, Len(v))

\* versionMatches: by its exact version, with the mark of its update if it has
\* one, or by the ends of an interval.
VersionMatches(v, r) ==
  IF r.exact # <<>>
  THEN IF r.update = <<>> THEN CompareVersions(v, r.exact) = 0
       ELSE CompareVersions(Numbers(v), r.exact) = 0 /\ Suffix(v) = r.update
  ELSE /\ r.from # <<>> => CompareVersions(v, r.from) >= 0
       /\ r.above # <<>> => CompareVersions(v, r.above) > 0
       /\ r.upTo # <<>> => CompareVersions(v, r.upTo) <= 0
       /\ r.before # <<>> => CompareVersions(v, r.before) < 0

\* matchCves
MatchCves(entries, v) == {e \in entries : \E r \in e.ranges : VersionMatches(v, r)}

-----------------------------------------------------------------------------
\* cveSeverity, on scores in tenths; 0 is no score yet.
CveSeverity(score) == IF score = 0 THEN "MEDIUM" ELSE SeverityFromCvss(score)

\* LOWER: one level down for what a distribution may have patched.
Lower(severity) ==
  CASE severity = "CRITICAL" -> "HIGH" [] severity = "HIGH" -> "MEDIUM"
    [] severity = "MEDIUM" -> "LOW" [] OTHER -> severity

\* findingSeverity: that of the worst score, raised when one of the
\* vulnerabilities is exploited or likely to be, in percent.
HighEpss == 36
FindingSeverity(matched, distroPackage) ==
  LET worst == CHOOSE c \in {e.cvss : e \in matched} : \A e \in matched : e.cvss <= c
      base == CveSeverity(worst)
  IN IF \E e \in matched : e.kev \/ e.epss >= HighEpss
     THEN IF base \in {"CRITICAL", "HIGH"} THEN "CRITICAL" ELSE "HIGH"
     ELSE IF distroPackage THEN Lower(base) ELSE base

-----------------------------------------------------------------------------
\* productEntries: where the vulnerabilities of a product come from. cached is
\* "none", "current" or "old"; answers: whether the database answers now.
Origin(cached, answers) ==
  CASE cached = "current" -> "cache"
    [] cached # "current" /\ answers -> "nvd"
    [] cached = "old" /\ ~answers -> "stale-cache"
    [] OTHER -> "none"

\* detectSoftware: the ports whose product and version are known.
Detected(ports) == {p \in ports : p.product # "unknown" /\ p.version # <<>>}

\* analyze: the products that are looked up, in the order of their first port.
FirstPort(ports, product) ==
  CHOOSE n \in {p.port : p \in ports} :
    /\ \E p \in ports : p.port = n /\ p.product = product
    /\ \A p \in ports : p.product = product => n <= p.port
Products(ports) == {p.product : p \in Detected(ports)}
LookedUp(ports, max) ==
  {x \in Products(ports) :
     Cardinality({y \in Products(ports) :
       FirstPort(Detected(ports), y) < FirstPort(Detected(ports), x)}) < max}

\* The entries of a product as a scan knows them: the likelihood of exploitation
\* is asked for at that moment, and the catalog of the exploited ones is the copy
\* in memory.
Known(entries, epssAnswers, catalog) ==
  {[e EXCEPT !.epss = IF epssAnswers THEN @ ELSE 0, !.kev = @ \/ e.id \in catalog] :
     e \in entries}

\* The findings on the software, with their severities.
CveFindings(ports, found, max, entries) ==
  {[rule |-> "VULN-KNOWN-CVE", at |-> <<"port", p.port>>,
    severity |-> FindingSeverity(MatchCves(entries[p.product], p.version), p.distro)] :
     p \in {q \in Detected(ports) : /\ q.product \in LookedUp(ports, max) \cap found
                                    /\ MatchCves(entries[q.product], q.version) # {}}}

\* Whether the findings on software that are not found again may be closed.
Complete(ports, current, max) ==
  LookedUp(ports, max) = Products(ports) /\ Products(ports) \subseteq current
=============================================================================
