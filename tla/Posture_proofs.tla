--------------------------- MODULE Posture_proofs ---------------------------
\* What holds of the posture of an organization for any site, mail domain and cloud
\* account, any changes of them and any sequence of scans and audits; and of the
\* Security Score, the compliance and the attack paths for any findings.
EXTENDS Posture, FiniteSetTheorems, WellFoundedInduction, TLAPS

BandCounts == [Bands -> Nat]

\* The product of two naturals, which the solver wants stated on its own.
LEMMA ProductOfNaturals ==
  ASSUME NEW x \in Nat, NEW y \in Nat
  PROVE  x * y \in Nat
OBVIOUS

\* A product grows with its second factor.
LEMMA ProductIsMonotone ==
  ASSUME NEW w \in Nat, NEW m \in Nat, NEW n \in Nat, m <= n
  PROVE  w * m <= w * n
<1>1. n - m \in Nat
  OBVIOUS
<1>2. w * (n - m) \in Nat
  BY <1>1, ProductOfNaturals
<1>3. w * n = w * m + w * (n - m)
  BY <1>1
<1> QED
  BY <1>2, <1>3

\* The tables of weights, caps and factors hold natural numbers.
LEMMA TablesType ==
  /\ \A s \in Bands : Weight[s] \in Nat /\ Cap[s] \in Nat
  /\ \A c \in Criticalities : Factor[c] \in Nat
  BY DEF Weight, Cap, Factor, Bands, Criticalities

\* A penalty is a natural number of hundredths under the cap of its severity.
LEMMA PenaltyType ==
  ASSUME NEW s \in Bands, NEW n \in Nat, NEW c \in Criticalities
  PROVE  /\ Penalty(s, n, c) \in Nat
         /\ Penalty(s, n, c) <= 100 * Cap[s]
<1> DEFINE w == Weight[s] * Factor[c]
<1>1. Weight[s] \in Nat /\ Cap[s] \in Nat /\ Factor[c] \in Nat
  BY TablesType
<1>2. w \in Nat
  BY <1>1, ProductOfNaturals
<1>3. w * n \in Nat
  BY <1>2, ProductOfNaturals
<1> HIDE DEF w
<1>4. Penalty(s, n, c) = IF w * n <= 100 * Cap[s] THEN w * n ELSE 100 * Cap[s]
  BY DEF Penalty, AtMost, w
<1> QED
  BY <1>1, <1>3, <1>4

\* One more finding never costs less.
LEMMA PenaltyIsMonotone ==
  ASSUME NEW s \in Bands, NEW c \in Criticalities, NEW m \in Nat, NEW n \in Nat, m <= n
  PROVE  Penalty(s, m, c) <= Penalty(s, n, c)
<1> DEFINE w == Weight[s] * Factor[c]
<1>1. Weight[s] \in Nat /\ Cap[s] \in Nat /\ Factor[c] \in Nat
  BY TablesType
<1>2. w \in Nat
  BY <1>1, ProductOfNaturals
<1>3. w * m \in Nat /\ w * n \in Nat /\ w * m <= w * n
  BY <1>2, ProductOfNaturals, ProductIsMonotone
<1> HIDE DEF w
<1>4. \A k \in {m, n} :
        Penalty(s, k, c) = IF w * k <= 100 * Cap[s] THEN w * k ELSE 100 * Cap[s]
  BY DEF Penalty, AtMost, w
<1> QED
  BY <1>1, <1>3, <1>4

\* The whole part of a hundredth grows with the number.
LEMMA QuotientIsMonotone ==
  ASSUME NEW x \in Nat, NEW y \in Nat, x <= y
  PROVE  x \div 100 \in Nat /\ x \div 100 <= y \div 100
OBVIOUS

\* More findings never cost less in total.
LEMMA TotalIsMonotone ==
  ASSUME NEW c \in Criticalities, NEW a \in BandCounts, NEW b \in BandCounts,
         \A s \in Bands : a[s] <= b[s]
  PROVE  /\ TotalPenalty(a, c) \in Nat /\ TotalPenalty(b, c) \in Nat
         /\ TotalPenalty(a, c) <= TotalPenalty(b, c)
<1> DEFINE P(k, s) == Penalty(s, k[s], c)
           Sum(k) == P(k, "CRITICAL") + P(k, "HIGH") + P(k, "MEDIUM") + P(k, "LOW")
                     + P(k, "INFO") + 50
<1>1. \A s \in Bands : a[s] \in Nat /\ b[s] \in Nat
  BY DEF BandCounts
<1>2. \A s \in Bands : P(a, s) \in Nat /\ P(b, s) \in Nat /\ P(a, s) <= P(b, s)
  BY <1>1, PenaltyType, PenaltyIsMonotone
<1>3. {"CRITICAL", "HIGH", "MEDIUM", "LOW", "INFO"} = Bands
  BY DEF Bands
<1>4. TotalPenalty(a, c) = Sum(a) \div 100 /\ TotalPenalty(b, c) = Sum(b) \div 100
  BY DEF TotalPenalty
<1> HIDE DEF P
<1>5. Sum(a) \in Nat /\ Sum(b) \in Nat /\ Sum(a) <= Sum(b)
  BY <1>2, <1>3
<1> HIDE DEF Sum
<1> QED
  BY <1>4, <1>5, QuotientIsMonotone

\* A score is in 0..100, whatever was found (computeScore).
THEOREM ScoreInRange ==
  ASSUME NEW c \in Criticalities, NEW a \in BandCounts
  PROVE  Score(a, c) \in 0 .. 100
<1>1. TotalPenalty(a, c) \in Nat
  <2>1. \A s \in Bands : a[s] <= a[s]
    BY DEF BandCounts
  <2> QED
    BY <2>1, TotalIsMonotone
<1> QED
  BY <1>1 DEF Score, AtMost, AtLeast

\* An organization that corrects findings, and gets no new one of any severity,
\* never loses points, for any numbers of findings and any criticality.
THEOREM ScoreIsMonotone ==
  ASSUME NEW c \in Criticalities, NEW a \in BandCounts, NEW b \in BandCounts,
         \A s \in Bands : a[s] <= b[s]
  PROVE  Score(b, c) <= Score(a, c)
<1>1. TotalPenalty(a, c) \in Nat /\ TotalPenalty(b, c) \in Nat
      /\ TotalPenalty(a, c) <= TotalPenalty(b, c)
  BY TotalIsMonotone
<1> QED
  BY <1>1 DEF Score, AtMost, AtLeast

-----------------------------------------------------------------------------
\* What follows when findings are closed.

\* A quotient grows with the dividend, and reaches n when the dividend reaches n
\* times the divisor.
LEMMA QuotientReaches ==
  ASSUME NEW a \in Nat, NEW d \in Nat \ {0}, NEW n \in Nat
  PROVE  a \div d \in Nat /\ (n <= a \div d <=> d * n <= a)
OBVIOUS

\* A quotient by the same number grows with the dividend.
LEMMA QuotientOrder ==
  ASSUME NEW a \in Nat, NEW b \in Nat, NEW d \in Nat \ {0}, a <= b
  PROVE  a \div d \in Nat /\ b \div d \in Nat /\ a \div d <= b \div d
OBVIOUS

\* The counts of computeScore, of a set of findings.
CountsOf(fs) == [s \in Bands |-> Cardinality({f \in fs : f.severity = s})]

\* Closing some of the findings of an asset never lowers its score.
THEOREM ClosingRaisesScore ==
  ASSUME NEW c \in Criticalities, NEW fs, IsFiniteSet(fs), NEW gs \in SUBSET fs
  PROVE  Score(CountsOf(gs), c) >= Score(CountsOf(fs), c)
<1>1. ASSUME NEW s \in Bands
      PROVE  /\ CountsOf(fs)[s] \in Nat /\ CountsOf(gs)[s] \in Nat
             /\ CountsOf(gs)[s] <= CountsOf(fs)[s]
  <2> DEFINE A == {f \in fs : f.severity = s}  B == {f \in gs : f.severity = s}
  <2>1. IsFiniteSet(A) /\ B \subseteq A
    BY FS_Subset
  <2>2. Cardinality(A) \in Nat /\ Cardinality(B) \in Nat /\ Cardinality(B) <= Cardinality(A)
    BY <2>1, FS_Subset, FS_CardinalityType
  <2> QED
    BY <2>2 DEF CountsOf
<1>2. CountsOf(fs) \in BandCounts /\ CountsOf(gs) \in BandCounts
  BY <1>1 DEF CountsOf, BandCounts
<1>3. Score(CountsOf(fs), c) <= Score(CountsOf(gs), c)
  BY <1>1, <1>2, ScoreIsMonotone
<1>4. Score(CountsOf(fs), c) \in 0 .. 100 /\ Score(CountsOf(gs), c) \in 0 .. 100
  BY <1>2, ScoreInRange
<1> QED
  BY <1>3, <1>4

\* The score of the organization follows those of its two halves: it stays between 0 and
\* 100, and falls with neither of them, as long as each half stays scored or unscored
\* (computeHybridOrganizationScore).
THEOREM HybridIsMonotone ==
  ASSUME NEW p \in 0 .. 100 \cup {NoScore}, NEW q \in 0 .. 100 \cup {NoScore},
         NEW x \in 0 .. 100 \cup {NoScore}, NEW y \in 0 .. 100 \cup {NoScore},
         p <= q, x <= y, p = NoScore <=> q = NoScore, x = NoScore <=> y = NoScore
  PROVE  /\ HybridScore(p, x) <= HybridScore(q, y)
         /\ HybridScore(p, x) \in 0 .. 100 \cup {NoScore}
<1>1. \A i, j \in Nat : i <= j => i \div 4 \in Nat /\ i \div 4 <= j \div 4
  BY QuotientOrder
<1>2. \A i \in Nat : i <= 402 => i \div 4 <= 100
  OBVIOUS
<1>3. CASE p # NoScore /\ x # NoScore
  <2>1. /\ p \in 0 .. 100 /\ q \in 0 .. 100 /\ x \in 0 .. 100 /\ y \in 0 .. 100
        /\ q # NoScore /\ y # NoScore
    BY <1>3
  <2>2. /\ HybridScore(p, x) = (2 * (p + x) + 2) \div 4
        /\ HybridScore(q, y) = (2 * (q + y) + 2) \div 4
    BY <1>3, <2>1 DEF HybridScore, MeanScore
  <2> QED
    BY <1>1, <1>2, <2>1, <2>2
<1>4. CASE p = NoScore \/ x = NoScore
  BY <1>4 DEF HybridScore, NoScore
<1> QED
  BY <1>3, <1>4

\* Math.round of a share of n controls is between 0 and 100, grows with the share, and is
\* 100 for all of them.
LEMMA PercentageProperties ==
  ASSUME NEW n \in Nat \ {0}, NEW a \in 0 .. n, NEW b \in 0 .. n, a <= b
  PROVE  /\ Percentage(a, n) \in 0 .. 100
         /\ Percentage(a, n) <= Percentage(b, n)
         /\ Percentage(n, n) = 100
         /\ n < 200 /\ a < n => Percentage(a, n) < 100
<1>1. \A k \in 0 .. n : 200 * k + n \in Nat /\ 2 * n \in Nat \ {0}
  OBVIOUS
<1>2. Percentage(a, n) \in Nat /\ Percentage(b, n) \in Nat /\ Percentage(a, n) <= Percentage(b, n)
  BY <1>1, QuotientOrder DEF Percentage
<1>3. ASSUME NEW k \in 0 .. n, NEW m \in Nat
      PROVE  Percentage(k, n) \in Nat /\ (m <= Percentage(k, n) <=> 2 * n * m <= 200 * k + n)
  BY <1>1, QuotientReaches DEF Percentage
<1>4. Percentage(a, n) <= 100 /\ Percentage(n, n) <= 100
  <2>1. ASSUME NEW k \in 0 .. n PROVE ~(101 <= Percentage(k, n))
    BY <1>3
  <2> QED
    BY <1>3, <2>1
<1>5. 100 <= Percentage(n, n)
  BY <1>3
<1>6. n < 200 /\ a < n => ~(100 <= Percentage(a, n))
  BY <1>3
<1>7. Percentage(n, n) \in Nat
  BY <1>3
<1> HIDE DEF Percentage
<1>8. Percentage(a, n) \in 0 .. 100 /\ Percentage(n, n) = 100
  BY <1>2, <1>4, <1>5, <1>7
<1>9. n < 200 /\ a < n => Percentage(a, n) < 100
  BY <1>2, <1>6
<1> QED
  BY <1>2, <1>8, <1>9

\* Closing findings never lowers the percentage of a framework.
THEOREM ClosingRaisesCompliance ==
  ASSUME NEW controls, IsFiniteSet(DOMAIN controls), DOMAIN controls # {},
         NEW fs, NEW gs \in SUBSET fs
  PROVE  FrameworkPercentage(controls, gs) >= FrameworkPercentage(controls, fs)
<1> DEFINE D == DOMAIN controls
           A == PassedControls(controls, fs)  B == PassedControls(controls, gs)
<1>1. A \subseteq B /\ B \subseteq D
  BY DEF PassedControls, Failing
<1>2. /\ IsFiniteSet(A) /\ IsFiniteSet(B)
      /\ Cardinality(A) <= Cardinality(B) /\ Cardinality(B) <= Cardinality(D)
  BY <1>1, FS_Subset
<1>3. /\ Cardinality(A) \in Nat /\ Cardinality(B) \in Nat /\ Cardinality(D) \in Nat
      /\ Cardinality(D) # 0
  BY <1>2, FS_CardinalityType, FS_EmptySet
<1>4. FrameworkPercentage(controls, fs) = Percentage(Cardinality(A), Cardinality(D))
      /\ FrameworkPercentage(controls, gs) = Percentage(Cardinality(B), Cardinality(D))
  BY DEF FrameworkPercentage
<1> HIDE DEF A, B, D
<1>5. /\ Percentage(Cardinality(A), Cardinality(D)) \in 0 .. 100
      /\ Percentage(Cardinality(B), Cardinality(D)) \in 0 .. 100
      /\ Percentage(Cardinality(A), Cardinality(D)) <= Percentage(Cardinality(B), Cardinality(D))
  BY <1>2, <1>3, PercentageProperties
<1> QED
  BY <1>4, <1>5

\* A framework of fewer than 200 controls shows 100 % exactly when none of them fails: the
\* rounding hides no failing control.
THEOREM FullMeansNoneFails ==
  ASSUME NEW controls, IsFiniteSet(DOMAIN controls), DOMAIN controls # {},
         Cardinality(DOMAIN controls) < 200, NEW fs
  PROVE  FrameworkPercentage(controls, fs) = 100 <=> PassedControls(controls, fs) = DOMAIN controls
<1> DEFINE D == DOMAIN controls  A == PassedControls(controls, fs)
<1>1. A \subseteq D
  BY DEF PassedControls
<1>2. /\ IsFiniteSet(A) /\ Cardinality(A) <= Cardinality(D)
      /\ Cardinality(A) = Cardinality(D) <=> A = D
  BY <1>1, FS_Subset
<1>3. /\ Cardinality(A) \in Nat /\ Cardinality(D) \in Nat /\ Cardinality(D) # 0
  BY <1>2, FS_CardinalityType, FS_EmptySet
<1>4. FrameworkPercentage(controls, fs) = Percentage(Cardinality(A), Cardinality(D))
  BY DEF FrameworkPercentage
<1>5. Cardinality(D) < 200
  OBVIOUS
<1> HIDE DEF A, D
<1>6. Percentage(Cardinality(D), Cardinality(D)) = 100
  BY <1>3, PercentageProperties
<1>7. Cardinality(A) # Cardinality(D) => Percentage(Cardinality(A), Cardinality(D)) # 100
  <2> DEFINE a == Cardinality(A)  n == Cardinality(D)
  <2>1. n \in Nat \ {0} /\ a \in 0 .. n /\ n \in 0 .. n /\ a <= n /\ n < 200
    BY <1>2, <1>3, <1>5
  <2> HIDE DEF a, n
  <2>2. /\ Percentage(a, n) \in 0 .. 100
        /\ n < 200 /\ a < n => Percentage(a, n) < 100
    BY <2>1, PercentageProperties
  <2>3. a # n => Percentage(a, n) # 100
    BY <2>1, <2>2
  <2> QED
    BY <2>3 DEF a, n
<1>8. FrameworkPercentage(controls, fs) = 100 <=> A = D
  BY <1>2, <1>4, <1>6, <1>7
<1> QED
  BY <1>8 DEF A, D

-----------------------------------------------------------------------------
\* The rules of some categories, and the drafts that are about them: finitely many
\* pairs of such a rule and a location.
RulesOf(categories) == UNION {Listed(AllSections[c]) : c \in categories}
Within(drafts, categories) ==
  /\ IsFiniteSet(drafts)
  /\ \A d \in drafts : d = <<d[1], d[2]>> /\ d[1] \in RulesOf(categories)

SiteCategories == DOMAIN Sections
CloudCategories == DOMAIN CloudSections

\* The tables of every category.
LEMMA SectionTables ==
  /\ SiteCategories = {"EXPOSED_SERVICE", "HTTP_HEADERS", "TLS_CERTIFICATE", "SENSITIVE_PATH",
                       "VULNERABLE_SOFTWARE", "EMAIL_SECURITY"}
  /\ CloudCategories = {"CLOUD_IAM", "CLOUD_STORAGE", "CLOUD_NETWORK", "CLOUD_COMPUTE",
                        "CLOUD_DATABASE", "CLOUD_LOGGING"}
  /\ DOMAIN AllSections = SiteCategories \cup CloudCategories
  /\ AllSections["EXPOSED_SERVICE"] = {ServiceRules, TakeoverRules}
  /\ AllSections["HTTP_HEADERS"] = {HeaderRules, RedirectRules, ContentRules, DeepWebRules}
  /\ AllSections["TLS_CERTIFICATE"] = {TlsRules}
  /\ AllSections["SENSITIVE_PATH"] = {PathRules, ApiRules, DisclosureRules}
  /\ AllSections["VULNERABLE_SOFTWARE"] = {SoftwareRules}
  /\ AllSections["EMAIL_SECURITY"] = {SenderRules, MailRules, DnsRules, BrandRules}
  /\ AllSections["CLOUD_IAM"] = {IdentityRules} /\ AllSections["CLOUD_STORAGE"] = {StorageRules}
  /\ AllSections["CLOUD_NETWORK"] = {NetworkRules}
  /\ AllSections["CLOUD_COMPUTE"] = {ComputeRules}
  /\ AllSections["CLOUD_DATABASE"] = {DatabaseRules}
  /\ AllSections["CLOUD_LOGGING"] = {LoggingRules}
BY DEF SiteCategories, CloudCategories, AllSections, Sections, CloudSections, ++

\* The rules of the scans and those of the audits, by their categories (FINDING_RULES,
\* CSPM_RULES_MAP).
LEMMA AllRulesOf ==
  /\ FindingRules = RulesOf(SiteCategories)
  /\ CloudRules = RulesOf(CloudCategories)
<1>1. \A c \in SiteCategories : AllSections[c] = Sections[c]
  BY DEF SiteCategories, AllSections, ++
<1>2. \A c \in CloudCategories : AllSections[c] = CloudSections[c]
  BY SectionTables DEF CloudCategories, AllSections, ++, SiteCategories
<1> QED
  BY <1>1, <1>2 DEF FindingRules, CloudRules, RulesOf, SiteCategories, CloudCategories

\* Sets made of finite ones.
LEMMA UnionIsFinite ==
  ASSUME NEW S, NEW T, IsFiniteSet(S), IsFiniteSet(T)
  PROVE  IsFiniteSet(S \cup T)
BY FS_Union

\* A part of a finite set is finite.
LEMMA SubsetIsFinite ==
  ASSUME NEW S, NEW T, IsFiniteSet(S), T \subseteq S
  PROVE  IsFiniteSet(T)
BY FS_Subset

\* What is listed in a few places is finite.
LEMMA FewAreFinite ==
  /\ IsFiniteSet({})
  /\ \A a : IsFiniteSet({a})
  /\ \A a, b : IsFiniteSet({a, b})
  /\ \A a, b, c : IsFiniteSet({a, b, c})
  /\ \A a, b, c, d : IsFiniteSet({a, b, c, d})
  /\ \A a, b, c, d, e : IsFiniteSet({a, b, c, d, e})
  /\ \A a, b, c, d, e, f : IsFiniteSet({a, b, c, d, e, f})
<1>1. IsFiniteSet({}) /\ \A a : IsFiniteSet({a})
  BY FS_EmptySet, FS_Singleton
<1>2. ASSUME NEW a, NEW b, NEW c, NEW d, NEW e, NEW f
      PROVE  IsFiniteSet({a} \cup ({b} \cup ({c} \cup ({d} \cup ({e} \cup {f})))))
  BY <1>1, UnionIsFinite
<1>3. ASSUME NEW a, NEW b, NEW c, NEW d, NEW e, NEW f,
             NEW S, S \subseteq {a, b, c, d, e, f}
      PROVE  IsFiniteSet(S)
  <2> DEFINE T == {a} \cup ({b} \cup ({c} \cup ({d} \cup ({e} \cup {f}))))
  <2>1. IsFiniteSet(T)
    BY <1>2
  <2>2. S \subseteq T
    BY <1>3
  <2> HIDE DEF T
  <2> QED
    BY <2>1, <2>2, SubsetIsFinite
<1>4. \A a, b : IsFiniteSet({a, b})
  <2> TAKE a, b
  <2>1. {a, b} \subseteq {a, a, a, a, a, b}
    OBVIOUS
  <2> QED
    BY <1>3, <2>1
<1>5. \A a, b, c : IsFiniteSet({a, b, c})
  <2> TAKE a, b, c
  <2>1. {a, b, c} \subseteq {a, a, a, a, b, c}
    OBVIOUS
  <2> QED
    BY <1>3, <2>1
<1>6. \A a, b, c, d : IsFiniteSet({a, b, c, d})
  <2> TAKE a, b, c, d
  <2>1. {a, b, c, d} \subseteq {a, a, a, b, c, d}
    OBVIOUS
  <2> QED
    BY <1>3, <2>1
<1>7. \A a, b, c, d, e : IsFiniteSet({a, b, c, d, e})
  <2> TAKE a, b, c, d, e
  <2>1. \A S : S \subseteq {a, b, c, d, e, e} => IsFiniteSet(S)
    BY <1>3
  <2>2. {a, b, c, d, e} \subseteq {a, b, c, d, e, e}
    OBVIOUS
  <2> QED
    BY <2>1, <2>2, Zenon
<1>8. \A a, b, c, d, e, f : IsFiniteSet({a, b, c, d, e, f})
  <2> TAKE a, b, c, d, e, f
  <2>1. \A S : S \subseteq {a, b, c, d, e, f} => IsFiniteSet(S)
    BY <1>3
  <2> QED
    BY <2>1, Zenon
<1> QED
  BY <1>1, <1>4, <1>5, <1>6, <1>7, <1>8

\* The values of a function on a finite set are finitely many.
LEMMA ValuesAreFinite ==
  ASSUME NEW S, IsFiniteSet(S), NEW f, f = [x \in S |-> f[x]]
  PROVE  IsFiniteSet({f[x] : x \in S})
<1> DEFINE T == {f[x] : x \in S}
<1>1. f \in [S -> T]
  OBVIOUS
<1>2. \A t \in T : \E s \in S : f[s] = t
  OBVIOUS
<1>3. f \in Surjection(S, T)
  BY <1>1, <1>2 DEF Surjection
<1> QED
  BY <1>3, FS_Surjection

\* A table lists finitely many rules.
TableOK(t) ==
  /\ DOMAIN t \subseteq {"CRITICAL", "HIGH", "MEDIUM", "LOW", "INFO"}
  /\ "CRITICAL" \in DOMAIN t => IsFiniteSet(t.CRITICAL)
  /\ "HIGH" \in DOMAIN t => IsFiniteSet(t.HIGH)
  /\ "MEDIUM" \in DOMAIN t => IsFiniteSet(t.MEDIUM)
  /\ "LOW" \in DOMAIN t => IsFiniteSet(t.LOW)
  /\ "INFO" \in DOMAIN t => IsFiniteSet(t.INFO)

\* A table of finite lists has finitely many rules.
LEMMA TableIsFinite ==
  ASSUME NEW t, TableOK(t)
  PROVE  IsFiniteSet(UNION {t[s] : s \in DOMAIN t})
<1> DEFINE Part(s) == IF s \in DOMAIN t THEN t[s] ELSE {}
           S == Part("CRITICAL") \cup (Part("HIGH") \cup (Part("MEDIUM")
                  \cup (Part("LOW") \cup Part("INFO"))))
<1>1. UNION {t[s] : s \in DOMAIN t} \subseteq S
  BY DEF TableOK
<1>2. \A s \in {"CRITICAL", "HIGH", "MEDIUM", "LOW", "INFO"} : IsFiniteSet(Part(s))
  BY FewAreFinite DEF TableOK
<1> HIDE DEF Part
<1>3. IsFiniteSet(S)
  BY <1>2, UnionIsFinite
<1> HIDE DEF S
<1> QED
  BY <1>1, <1>3, SubsetIsFinite

\* So has every table of the two catalogs.
LEMMA TablesAreFinite ==
  /\ TableOK(ServiceRules) /\ TableOK(TakeoverRules)
  /\ TableOK(HeaderRules) /\ TableOK(RedirectRules) /\ TableOK(ContentRules)
  /\ TableOK(DeepWebRules) /\ TableOK(TlsRules)
  /\ TableOK(PathRules) /\ TableOK(ApiRules) /\ TableOK(DisclosureRules)
  /\ TableOK(SoftwareRules)
  /\ TableOK(SenderRules) /\ TableOK(MailRules) /\ TableOK(DnsRules) /\ TableOK(BrandRules)
  /\ TableOK(IdentityRules) /\ TableOK(StorageRules) /\ TableOK(NetworkRules)
  /\ TableOK(ComputeRules) /\ TableOK(DatabaseRules) /\ TableOK(LoggingRules)
<1>1. TableOK(ServiceRules) /\ TableOK(TakeoverRules)
  BY FewAreFinite DEF TableOK, ServiceRules, TakeoverRules
<1>2. TableOK(HeaderRules) /\ TableOK(RedirectRules)
  BY FewAreFinite DEF TableOK, HeaderRules, RedirectRules
<1>3. TableOK(ContentRules) /\ TableOK(DeepWebRules) /\ TableOK(TlsRules)
  BY FewAreFinite DEF TableOK, ContentRules, DeepWebRules, TlsRules
<1>4. TableOK(PathRules) /\ TableOK(ApiRules) /\ TableOK(DisclosureRules) /\ TableOK(SoftwareRules)
  BY FewAreFinite DEF TableOK, PathRules, ApiRules, DisclosureRules, SoftwareRules
<1>5. TableOK(SenderRules) /\ TableOK(MailRules) /\ TableOK(DnsRules) /\ TableOK(BrandRules)
  BY FewAreFinite DEF TableOK, SenderRules, MailRules, DnsRules, BrandRules
<1>6. TableOK(IdentityRules) /\ TableOK(StorageRules) /\ TableOK(NetworkRules)
  BY FewAreFinite DEF TableOK, IdentityRules, StorageRules, NetworkRules
<1>7. TableOK(ComputeRules) /\ TableOK(DatabaseRules) /\ TableOK(LoggingRules)
  BY FewAreFinite DEF TableOK, ComputeRules, DatabaseRules, LoggingRules
<1> QED
  BY <1>1, <1>2, <1>3, <1>4, <1>5, <1>6, <1>7

\* The catalogs hold finitely many rules.
LEMMA RulesAreFinite ==
  ASSUME NEW categories \in SUBSET DOMAIN AllSections
  PROVE  IsFiniteSet(RulesOf(categories))
<1>1. ASSUME NEW t, TableOK(t) PROVE IsFiniteSet(Listed({t}))
  <2>1. Listed({t}) \subseteq UNION {t[s] : s \in DOMAIN t}
    BY DEF Listed
  <2> QED
    BY <1>1, <2>1, TableIsFinite, SubsetIsFinite
<1>2. ASSUME NEW A, NEW B, IsFiniteSet(Listed(A)), IsFiniteSet(Listed(B))
      PROVE  IsFiniteSet(Listed(A \cup B))
  <2>1. Listed(A \cup B) \subseteq Listed(A) \cup Listed(B)
    BY DEF Listed
  <2>2. IsFiniteSet(Listed(A) \cup Listed(B))
    BY <1>2, UnionIsFinite
  <2> QED
    BY <2>1, <2>2, SubsetIsFinite
<1>3. \A c \in DOMAIN AllSections : IsFiniteSet(Listed(AllSections[c]))
  <2>1. IsFiniteSet(Listed(AllSections["EXPOSED_SERVICE"]))
    <3>1. IsFiniteSet(Listed({ServiceRules} \cup {TakeoverRules}))
      BY <1>1, <1>2, TablesAreFinite
    <3>2. AllSections["EXPOSED_SERVICE"] = {ServiceRules} \cup {TakeoverRules}
      BY SectionTables, Zenon
    <3> QED
      BY <3>1, <3>2, Zenon
  <2>2. IsFiniteSet(Listed(AllSections["HTTP_HEADERS"]))
    <3>1. IsFiniteSet(Listed(({HeaderRules} \cup {RedirectRules})
                             \cup ({ContentRules} \cup {DeepWebRules})))
      BY <1>1, <1>2, TablesAreFinite
    <3>2. AllSections["HTTP_HEADERS"] =
            ({HeaderRules} \cup {RedirectRules}) \cup ({ContentRules} \cup {DeepWebRules})
      BY SectionTables, Zenon
    <3> QED
      BY <3>1, <3>2, Zenon
  <2>3. IsFiniteSet(Listed(AllSections["SENSITIVE_PATH"]))
    <3>1. IsFiniteSet(Listed({PathRules} \cup ({ApiRules} \cup {DisclosureRules})))
      BY <1>1, <1>2, TablesAreFinite
    <3>2. AllSections["SENSITIVE_PATH"] = {PathRules} \cup ({ApiRules} \cup {DisclosureRules})
      BY SectionTables, Zenon
    <3> QED
      BY <3>1, <3>2, Zenon
  <2>4. IsFiniteSet(Listed(AllSections["EMAIL_SECURITY"]))
    <3>1. IsFiniteSet(Listed(({SenderRules} \cup {MailRules}) \cup ({DnsRules} \cup {BrandRules})))
      BY <1>1, <1>2, TablesAreFinite
    <3>2. AllSections["EMAIL_SECURITY"] =
            ({SenderRules} \cup {MailRules}) \cup ({DnsRules} \cup {BrandRules})
      BY SectionTables, Zenon
    <3> QED
      BY <3>1, <3>2, Zenon
  <2>5. /\ IsFiniteSet(Listed({TlsRules})) /\ IsFiniteSet(Listed({SoftwareRules}))
        /\ IsFiniteSet(Listed({IdentityRules})) /\ IsFiniteSet(Listed({StorageRules}))
        /\ IsFiniteSet(Listed({NetworkRules})) /\ IsFiniteSet(Listed({ComputeRules}))
        /\ IsFiniteSet(Listed({DatabaseRules})) /\ IsFiniteSet(Listed({LoggingRules}))
    BY <1>1, TablesAreFinite
  <2>6. \A c \in DOMAIN AllSections :
          \/ c \in {"EXPOSED_SERVICE", "HTTP_HEADERS", "SENSITIVE_PATH", "EMAIL_SECURITY"}
          \/ AllSections[c] \in {{TlsRules}, {SoftwareRules}, {IdentityRules}, {StorageRules},
                                {NetworkRules}, {ComputeRules}, {DatabaseRules}, {LoggingRules}}
    BY SectionTables, Zenon
  <2> QED
    BY <2>1, <2>2, <2>3, <2>4, <2>5, <2>6, Zenon
<1>4. DOMAIN AllSections =
        {"EXPOSED_SERVICE", "HTTP_HEADERS", "TLS_CERTIFICATE", "SENSITIVE_PATH",
         "VULNERABLE_SOFTWARE", "EMAIL_SECURITY", "CLOUD_IAM", "CLOUD_STORAGE",
         "CLOUD_NETWORK", "CLOUD_COMPUTE", "CLOUD_DATABASE", "CLOUD_LOGGING"}
  BY SectionTables
<1> DEFINE R(c) == Listed(AllSections[c])
           S == (R("EXPOSED_SERVICE") \cup (R("HTTP_HEADERS") \cup (R("TLS_CERTIFICATE")
                  \cup (R("SENSITIVE_PATH") \cup (R("VULNERABLE_SOFTWARE") \cup R("EMAIL_SECURITY"))))))
                \cup (R("CLOUD_IAM") \cup (R("CLOUD_STORAGE") \cup (R("CLOUD_NETWORK")
                        \cup (R("CLOUD_COMPUTE") \cup (R("CLOUD_DATABASE") \cup R("CLOUD_LOGGING"))))))
<1>5. RulesOf(categories) \subseteq S
  <2> HIDE DEF R
  <2>1. RulesOf(categories) = UNION {R(c) : c \in categories}
    BY DEF RulesOf, R
  <2> QED
    BY <1>4, <2>1
<1>6. \A c \in DOMAIN AllSections : IsFiniteSet(R(c))
  BY <1>3
<1> HIDE DEF R
<1>7. IsFiniteSet(S)
  BY <1>4, <1>6, UnionIsFinite
<1> HIDE DEF S
<1> QED
  BY <1>5, <1>7, SubsetIsFinite

\* The category of a rule is the one that lists it: no rule is listed twice.
LEMMA CategoryIs ==
  ASSUME NEW c \in DOMAIN AllSections, NEW r \in Listed(AllSections[c])
  PROVE  r \in FindingRules \cup CloudRules /\ CategoryOf[r] = c
<1>1. r \in FindingRules \cup CloudRules
  BY SectionTables, AllRulesOf DEF RulesOf
<1>2. /\ r \in Listed(AllSections[CategoryOf[r]])
      /\ CategoryOf[r] \in DOMAIN AllSections
  BY <1>1 DEF CategoryOf
<1>3. ASSUME NEW b \in SiteCategories, r \in Listed(AllSections[b]),
             NEW e \in SiteCategories, r \in Listed(AllSections[e])
      PROVE  b = e
  BY <1>3, SectionTables DEF Listed, ServiceRules, TakeoverRules, HeaderRules, RedirectRules,
     ContentRules, DeepWebRules, TlsRules, PathRules, ApiRules, DisclosureRules, SoftwareRules,
     SenderRules, MailRules, DnsRules, BrandRules
<1>4. ASSUME NEW b \in CloudCategories, r \in Listed(AllSections[b]),
             NEW e \in CloudCategories, r \in Listed(AllSections[e])
      PROVE  b = e
  BY <1>4, SectionTables DEF Listed, IdentityRules, StorageRules, NetworkRules, ComputeRules,
     DatabaseRules, LoggingRules
<1>5. ASSUME NEW b \in SiteCategories, r \in Listed(AllSections[b]),
             NEW e \in CloudCategories, r \in Listed(AllSections[e])
      PROVE  FALSE
  BY <1>5, SectionTables, SMTT(30) DEF Listed, ServiceRules, TakeoverRules, HeaderRules, RedirectRules,
     ContentRules, DeepWebRules, TlsRules, PathRules, ApiRules, DisclosureRules, SoftwareRules,
     SenderRules, MailRules, DnsRules, BrandRules, IdentityRules, StorageRules, NetworkRules,
     ComputeRules, DatabaseRules, LoggingRules
<1> QED
  BY <1>1, <1>2, <1>3, <1>4, <1>5, SectionTables

\* Fewer drafts are within more categories.
LEMMA WithinSubset ==
  ASSUME NEW A, NEW B, NEW cs, NEW ds, Within(A, cs), B \subseteq A, cs \subseteq ds
  PROVE  Within(B, ds)
<1>1. IsFiniteSet(B)
  BY SubsetIsFinite DEF Within
<1>2. RulesOf(cs) \subseteq RulesOf(ds)
  BY DEF RulesOf
<1> QED
  BY <1>1, <1>2 DEF Within

\* Drafts of two origins are within the categories that both are within.
LEMMA WithinUnion ==
  ASSUME NEW A, NEW B, NEW cs, Within(A, cs), Within(B, cs)
  PROVE  Within(A \cup B, cs)
BY UnionIsFinite DEF Within

\* Drafts of rules of some categories, at one location.
LEMMA WithinAt ==
  ASSUME NEW cs \in SUBSET DOMAIN AllSections, NEW rules, rules \subseteq RulesOf(cs), NEW location
  PROVE  Within(At(rules, location), cs)
<1> DEFINE f == [r \in rules |-> <<r, location>>]
<1>1. IsFiniteSet(rules)
  BY RulesAreFinite, SubsetIsFinite
<1>2. IsFiniteSet({f[r] : r \in rules})
  BY <1>1, ValuesAreFinite
<1>3. At(rules, location) \subseteq {f[r] : r \in rules}
  BY DEF At
<1>4. IsFiniteSet(At(rules, location))
  BY <1>2, <1>3, SubsetIsFinite
<1> QED
  BY <1>4 DEF Within, At

\* The same for a part of them.
LEMMA WithinRules ==
  ASSUME NEW cs \in SUBSET DOMAIN AllSections, NEW D, NEW location,
         D \subseteq At(RulesOf(cs), location)
  PROVE  Within(D, cs)
BY WithinAt, WithinSubset

\* What the analyzers of the web pages report is of two categories, and the drafts
\* of the second one are those of three of the deep stages.
WebCategories == {"HTTP_HEADERS", "SENSITIVE_PATH"}

\* The checks of the headers and cookies of an origin give rules of HTTP_HEADERS.
LEMMA WebRules ==
  ASSUME NEW s, NEW o
  PROVE  /\ HeaderFindings(s, o) \cup CorsFindings(s) \cup CacheFindings(s)
              \subseteq RulesOf({"HTTP_HEADERS"})
         /\ CookieFindings(s, o) \subseteq RulesOf({"HTTP_HEADERS"})
         /\ "HDR-EOL-TECH" \in RulesOf({"HTTP_HEADERS"})
<1>1. RulesOf({"HTTP_HEADERS"}) = Listed({HeaderRules, RedirectRules, ContentRules, DeepWebRules})
  BY SectionTables DEF RulesOf
<1>2. HeaderFindings(s, o) \subseteq RulesOf({"HTTP_HEADERS"})
  BY <1>1 DEF Listed, HeaderRules, RedirectRules, ContentRules, DeepWebRules, HeaderFindings, When
<1>3. CorsFindings(s) \cup CacheFindings(s) \subseteq RulesOf({"HTTP_HEADERS"})
  BY <1>1 DEF Listed, HeaderRules, RedirectRules, ContentRules, DeepWebRules, CorsFindings,
     CacheFindings, When
<1>4. CookieFindings(s, o) \subseteq RulesOf({"HTTP_HEADERS"})
  BY <1>1 DEF Listed, HeaderRules, RedirectRules, ContentRules, DeepWebRules, CookieFindings, When
<1>5. "HDR-EOL-TECH" \in RulesOf({"HTTP_HEADERS"})
  BY <1>1 DEF Listed, HeaderRules, RedirectRules, ContentRules, DeepWebRules
<1> QED
  BY <1>2, <1>3, <1>4, <1>5

SiteOK(s) ==
  /\ SiteFields \subseteq DOMAIN s
  /\ ObservableAll(s)

\* The parts of a site that a scan goes through one by one.
LEMMA SiteParts ==
  ASSUME NEW s, SiteOK(s)
  PROVE  /\ IsFiniteSet(s.software) /\ IsFiniteSet(s.ports) /\ IsFiniteSet(s.paths)
         /\ s.paths \subseteq DOMAIN PathRuleOf
         /\ s.https \in {"none", "beside", "forced"}
         /\ Origins(s) \subseteq {"http", "https"} /\ Origins(s) # {}
<1>1. {"https", "software", "ports", "paths"} \subseteq DOMAIN s
  BY DEF SiteOK, SiteFields
<1> QED
  BY <1>1 DEF SiteOK, ObservableAll, Observable, Origins

\* The first part of the scan of the web reports of HTTP_HEADERS only.
LEMMA BaseWithin ==
  ASSUME NEW s, SiteOK(s)
  PROVE  Within(BaseFindings(s), {"HTTP_HEADERS"})
<1> DEFINE F(o) == At(HeaderFindings(s, o) \cup CorsFindings(s) \cup CacheFindings(s), <<o>>)
                   \cup At(CookieFindings(s, o), <<o, "cookie">>) \cup SoftwareFindings(s, o)
<1>1. "HTTP_HEADERS" \in DOMAIN AllSections
  BY SectionTables
<1>2. ASSUME NEW o PROVE Within(F(o), {"HTTP_HEADERS"})
  <2>1. Within(At(HeaderFindings(s, o) \cup CorsFindings(s) \cup CacheFindings(s), <<o>>),
               {"HTTP_HEADERS"})
    BY <1>1, WebRules, WithinAt
  <2>2. Within(At(CookieFindings(s, o), <<o, "cookie">>), {"HTTP_HEADERS"})
    BY <1>1, WebRules, WithinAt
  <2>3. Within(SoftwareFindings(s, o), {"HTTP_HEADERS"})
    <3> DEFINE f == [t \in s.software |-> <<"HDR-EOL-TECH", <<o, t[1]>>>>]
    <3>1. SoftwareFindings(s, o) \subseteq {f[t] : t \in s.software}
      BY DEF SoftwareFindings
    <3>2. f = [t \in s.software |-> f[t]]
      OBVIOUS
    <3> HIDE DEF f
    <3>3. IsFiniteSet({f[t] : t \in s.software})
      BY <3>2, SiteParts, ValuesAreFinite
    <3>4. IsFiniteSet(SoftwareFindings(s, o))
      BY <3>1, <3>3, SubsetIsFinite
    <3> QED
      BY <3>4, WebRules DEF Within, SoftwareFindings
  <2> QED
    BY <2>1, <2>2, <2>3, WithinUnion
<1>3. BaseFindings(s) \subseteq F("http") \cup F("https")
  <2>1. BaseFindings(s) = UNION {F(o) : o \in Origins(s)}
    BY DEF BaseFindings
  <2> HIDE DEF F
  <2> QED
    BY <2>1, SiteParts
<1> HIDE DEF F
<1>4. Within(F("http") \cup F("https"), {"HTTP_HEADERS"})
  BY <1>2, WithinUnion
<1> QED
  BY <1>3, <1>4, WithinSubset

\* The eight stages of the deep inspection, and what they report.
LEMMA DeepStagesAre ==
  ASSUME NEW s, NEW token, NEW n \in 0 .. 8
  PROVE  DeepFindings(s, n, token) \subseteq
           (CrawlFindings(s) \cup MagecartFindings(s)) \cup (ScriptFindings(s) \cup CmsFindings(s))
           \cup ((CorsWafFindings(s) \cup SecurityTxtFindings(s))
                 \cup (OpenApiFindings(s) \cup DebugFindings(s, token)))
BY DEF DeepFindings

\* What all the deep stages find, grouped to be reasoned about two by two.
LEMMA AllStages ==
  ASSUME NEW s, NEW token
  PROVE  DeepFindings(s, DeepStages, token) =
           (CrawlFindings(s) \cup MagecartFindings(s)) \cup (ScriptFindings(s) \cup CmsFindings(s))
           \cup ((CorsWafFindings(s) \cup SecurityTxtFindings(s))
                 \cup (OpenApiFindings(s) \cup DebugFindings(s, token)))
BY DEF DeepFindings, DeepStages

\* The rules of the two categories that the deep stages report of.
LEMMA StageRules ==
  ASSUME NEW answer
  PROVE  /\ RulesOf({"HTTP_HEADERS"}) =
              Listed({HeaderRules, RedirectRules, ContentRules, DeepWebRules})
         /\ RulesOf({"SENSITIVE_PATH"}) = Listed({PathRules, ApiRules, DisclosureRules})
         /\ DebugRules(answer) \subseteq RulesOf({"HTTP_HEADERS"})
<1>1. RulesOf({"HTTP_HEADERS"}) = Listed({HeaderRules, RedirectRules, ContentRules, DeepWebRules})
  BY SectionTables DEF RulesOf
<1>2. RulesOf({"SENSITIVE_PATH"}) = Listed({PathRules, ApiRules, DisclosureRules})
  BY SectionTables DEF RulesOf
<1>3. DebugRules(answer) \subseteq RulesOf({"HTTP_HEADERS"})
  BY <1>1 DEF Listed, HeaderRules, RedirectRules, ContentRules, DeepWebRules, DebugRules, When
<1> QED
  BY <1>1, <1>2, <1>3

\* What each deep stage reports of. WordPress and the documentation of an interface are
\* found under either of the two categories.
LEMMA StagesWithin ==
  ASSUME NEW s, NEW token
  PROVE  /\ Within(CrawlFindings(s), {"HTTP_HEADERS"})
         /\ Within(MagecartFindings(s), {"HTTP_HEADERS"})
         /\ Within(ScriptFindings(s), {"HTTP_HEADERS"})
         /\ Within(CmsFindings(s), WebCategories)
         /\ Within(CorsWafFindings(s), {"HTTP_HEADERS"})
         /\ Within(SecurityTxtFindings(s), {"SENSITIVE_PATH"})
         /\ Within(SpecificationFindings(s), {"SENSITIVE_PATH"})
         /\ Within(OpenApiFindings(s), {"SENSITIVE_PATH"})
         /\ Within(DebugFindings(s, token), {"HTTP_HEADERS"})
         /\ Within(At(DebugRules(s.errorPage), <<"error page", token>>), {"HTTP_HEADERS"})
<1> DEFINE H == RulesOf({"HTTP_HEADERS"})  P == RulesOf({"SENSITIVE_PATH"})
<1>0. /\ {"HTTP_HEADERS"} \in SUBSET DOMAIN AllSections
      /\ {"SENSITIVE_PATH"} \in SUBSET DOMAIN AllSections
  BY SectionTables
<1>1. Within(CrawlFindings(s), {"HTTP_HEADERS"})
  <2>1. CrawlFindings(s) \subseteq At(H, <<"robots.txt">>)
    BY StageRules DEF CrawlFindings, At, Listed, HeaderRules, RedirectRules, ContentRules,
       DeepWebRules
  <2> QED
    BY <1>0, <2>1, WithinRules
<1>2. Within(MagecartFindings(s), {"HTTP_HEADERS"})
  <2>1. MagecartFindings(s) \subseteq At(H, <<s.page>>)
    BY StageRules DEF MagecartFindings, At, When, Listed, HeaderRules, RedirectRules, ContentRules,
       DeepWebRules
  <2> QED
    BY <1>0, <2>1, WithinRules
<1>3. Within(ScriptFindings(s), {"HTTP_HEADERS"})
  <2>1. ScriptFindings(s) \subseteq At(H, <<"script">>)
    BY StageRules DEF ScriptFindings, At, When, Listed, HeaderRules, RedirectRules, ContentRules,
       DeepWebRules
  <2> QED
    BY <1>0, <2>1, WithinRules
<1>4. Within(CmsFindings(s), WebCategories)
  <2>1. CmsFindings(s) \subseteq At(H, <<"wordpress">>) \cup At(P, <<"graphql">>)
    BY StageRules DEF CmsFindings, At, When, Listed, HeaderRules, RedirectRules, ContentRules,
       DeepWebRules, PathRules, ApiRules, DisclosureRules
  <2>2. Within(At(H, <<"wordpress">>), {"HTTP_HEADERS"})
        /\ Within(At(P, <<"graphql">>), {"SENSITIVE_PATH"})
    BY <1>0, WithinRules
  <2>3. Within(At(H, <<"wordpress">>), WebCategories) /\ Within(At(P, <<"graphql">>), WebCategories)
    BY <2>2, WithinSubset DEF WebCategories
  <2>4. Within(At(H, <<"wordpress">>) \cup At(P, <<"graphql">>), WebCategories)
    BY <2>3, WithinUnion
  <2> QED
    BY <2>1, <2>4, WithinSubset
<1>5. Within(CorsWafFindings(s), {"HTTP_HEADERS"})
  <2>1. CorsWafFindings(s) \subseteq At(H, <<Primary(s)>>)
    BY StageRules DEF CorsWafFindings, At, When, Listed, HeaderRules, RedirectRules, ContentRules,
       DeepWebRules
  <2> QED
    BY <1>0, <2>1, WithinRules
<1>6. Within(SecurityTxtFindings(s), {"SENSITIVE_PATH"})
  <2>1. {"SEC-TXT-MISSING", "SEC-TXT-INVALID", "SEC-TXT-EXPIRED"} \subseteq P
    BY StageRules DEF Listed, PathRules, ApiRules, DisclosureRules
  <2> HIDE DEF P
  <2>2. SecurityTxtFindings(s) \subseteq At(P, <<"security.txt">>)
    BY <2>1 DEF SecurityTxtFindings, At, When
  <2> QED
    BY <1>0, <2>2, WithinRules DEF P
<1>7. Within(SpecificationFindings(s), {"SENSITIVE_PATH"})
  <2>1. SpecificationFindings(s) \subseteq
          (At(P, <<"api">>) \cup At(P, <<"api", s.apiOpen>>)) \cup At(P, <<"api", s.apiQuerySecrets>>)
    BY StageRules DEF SpecificationFindings, At, When, Listed, PathRules, ApiRules, DisclosureRules
  <2>2. /\ Within(At(P, <<"api">>), {"SENSITIVE_PATH"})
        /\ Within(At(P, <<"api", s.apiOpen>>), {"SENSITIVE_PATH"})
        /\ Within(At(P, <<"api", s.apiQuerySecrets>>), {"SENSITIVE_PATH"})
    BY <1>0, WithinRules
  <2>3. Within((At(P, <<"api">>) \cup At(P, <<"api", s.apiOpen>>))
               \cup At(P, <<"api", s.apiQuerySecrets>>), {"SENSITIVE_PATH"})
    BY <2>2, WithinUnion
  <2> QED
    BY <2>1, <2>3, WithinSubset
<1>8. Within(OpenApiFindings(s), {"SENSITIVE_PATH"})
  <2>1. OpenApiFindings(s) \subseteq SpecificationFindings(s)
    BY DEF OpenApiFindings
  <2> QED
    BY <1>7, <2>1, WithinSubset
<1>9. Within(At(DebugRules(s.errorPage), <<"error page", token>>), {"HTTP_HEADERS"})
      /\ Within(At(DebugRules(s.queryPage) \ DebugRules(s.errorPage), <<"query page">>),
                {"HTTP_HEADERS"})
  BY <1>0, StageRules, WithinAt
<1>10. Within(DebugFindings(s, token), {"HTTP_HEADERS"})
  BY <1>9, WithinUnion DEF DebugFindings
<1> QED
  BY <1>1, <1>2, <1>3, <1>4, <1>5, <1>6, <1>7, <1>8, <1>9, <1>10

\* A scan of the web pages reports of two categories.
LEMMA DeepWithin ==
  ASSUME NEW s, NEW token, NEW n \in 0 .. 8
  PROVE  Within(DeepFindings(s, n, token), WebCategories)
<1>1. \A D : Within(D, {"HTTP_HEADERS"}) \/ Within(D, {"SENSITIVE_PATH"}) => Within(D, WebCategories)
  BY WithinSubset DEF WebCategories
<1>2. /\ Within(CrawlFindings(s), WebCategories) /\ Within(MagecartFindings(s), WebCategories)
      /\ Within(ScriptFindings(s), WebCategories) /\ Within(CmsFindings(s), WebCategories)
      /\ Within(CorsWafFindings(s), WebCategories) /\ Within(SecurityTxtFindings(s), WebCategories)
      /\ Within(OpenApiFindings(s), WebCategories) /\ Within(DebugFindings(s, token), WebCategories)
  BY <1>1, StagesWithin
<1>3. Within((CrawlFindings(s) \cup MagecartFindings(s)) \cup (ScriptFindings(s) \cup CmsFindings(s))
             \cup ((CorsWafFindings(s) \cup SecurityTxtFindings(s))
                   \cup (OpenApiFindings(s) \cup DebugFindings(s, token))), WebCategories)
  BY <1>2, WithinUnion
<1> QED
  BY <1>3, DeepStagesAre, WithinSubset

\* The scan of the certificate.
LEMMA TlsFindingsAre ==
  ASSUME NEW s, NEW R,
         {"TLS-EXPIRED", "TLS-EXPIRING-7D", "TLS-EXPIRING-30D", "TLS-NOT-YET-VALID",
          "TLS-HOSTNAME-MISMATCH", "TLS-UNTRUSTED-CHAIN", "TLS-LEGACY-PROTOCOL", "TLS-WEAK-KEY",
          "TLS-WEAK-SIGNATURE", "TLS-WEAK-CIPHER", "TLS-NO-FORWARD-SECRECY",
          "TLS-EXCESSIVE-LIFESPAN"} \subseteq R
  PROVE  TlsFindings(s) \subseteq At(R, <<"tls">>)
<1> DEFINE A == When("TLS-EXPIRED", s.hoursLeft < 0)
                  \cup When("TLS-EXPIRING-7D", s.hoursLeft >= 0 /\ s.hoursLeft \div 24 < 7)
                  \cup When("TLS-EXPIRING-30D", s.hoursLeft \div 24 \in 7 .. 29)
           B == When("TLS-NOT-YET-VALID", s.notYetValid)
                  \cup When("TLS-HOSTNAME-MISMATCH", s.wrongName)
                  \cup When("TLS-UNTRUSTED-CHAIN", s.issuer # "trusted")
                  \cup When("TLS-LEGACY-PROTOCOL", s.legacyTls)
           C == When("TLS-WEAK-KEY", IF s.key[1] = "ec" THEN s.key[2] < 256 ELSE s.key[2] < 2048)
           D == When("TLS-WEAK-SIGNATURE", s.weakSignature)
                  \cup When("TLS-WEAK-CIPHER", s.cipher = "weak")
                  \cup When("TLS-NO-FORWARD-SECRECY", s.cipher = "static key" /\ ~s.tls13)
           E == When("TLS-EXCESSIVE-LIFESPAN", s.issuer # "self" /\ s.lifespanDays > 398)
<1>1. A \subseteq R /\ C \subseteq R
  BY DEF When
<1>2. B \subseteq R
  BY DEF When
<1>3. D \subseteq R
  BY DEF When
<1>4. E \subseteq R
  BY DEF When
<1>5. TlsFindings(s) \subseteq At(A \cup B \cup C \cup D \cup E, <<"tls">>)
  <2>1. TlsFindings(s) =
          At(A \cup When("TLS-NOT-YET-VALID", s.notYetValid)
             \cup When("TLS-HOSTNAME-MISMATCH", s.wrongName)
             \cup When("TLS-UNTRUSTED-CHAIN", s.issuer # "trusted")
             \cup When("TLS-LEGACY-PROTOCOL", s.legacyTls)
             \cup C
             \cup When("TLS-WEAK-SIGNATURE", s.weakSignature)
             \cup When("TLS-WEAK-CIPHER", s.cipher = "weak")
             \cup When("TLS-NO-FORWARD-SECRECY", s.cipher = "static key" /\ ~s.tls13)
             \cup E, <<"tls">>)
    BY Zenon DEF TlsFindings
  <2> HIDE DEF A, C, E
  <2> QED
    BY <2>1 DEF At
<1> HIDE DEF A, B, C, D, E
<1>6. A \cup B \cup C \cup D \cup E \subseteq R
  BY <1>1, <1>2, <1>3, <1>4
<1> QED
  BY <1>5, <1>6 DEF At

\* SslCertScanner reports of TLS_CERTIFICATE only.
LEMMA SslWithin ==
  ASSUME NEW s
  PROVE  Within(SslFindings(s), {"TLS_CERTIFICATE"})
<1>1. {"TLS_CERTIFICATE"} \in SUBSET DOMAIN AllSections
      /\ RulesOf({"TLS_CERTIFICATE"}) = Listed({TlsRules})
  BY SectionTables DEF RulesOf
<1> DEFINE R == RulesOf({"TLS_CERTIFICATE"})
<1>2. {"TLS-EXPIRED", "TLS-EXPIRING-7D", "TLS-EXPIRING-30D", "TLS-NOT-YET-VALID",
       "TLS-HOSTNAME-MISMATCH", "TLS-UNTRUSTED-CHAIN", "TLS-LEGACY-PROTOCOL", "TLS-WEAK-KEY",
       "TLS-WEAK-SIGNATURE", "TLS-WEAK-CIPHER", "TLS-NO-FORWARD-SECRECY",
       "TLS-EXCESSIVE-LIFESPAN"} \subseteq R /\ "TLS-NOT-AVAILABLE" \in R
  BY <1>1 DEF Listed, TlsRules
<1> HIDE DEF R
<1>3. TlsFindings(s) \subseteq At(R, <<"tls">>)
  BY <1>2, TlsFindingsAre
<1>4. SslFindings(s) \subseteq At(R, <<"tls">>)
  BY <1>2, <1>3 DEF SslFindings, At
<1> QED
  BY <1>1, <1>4, WithinRules DEF R

\* The scan of the subdomains.
LEMMA TakeoverWithin ==
  ASSUME NEW s
  PROVE  Within(TakeoverFindings(s), {"EXPOSED_SERVICE"})
<1>1. {"EXPOSED_SERVICE"} \in SUBSET DOMAIN AllSections
      /\ RulesOf({"EXPOSED_SERVICE"}) = Listed({ServiceRules, TakeoverRules})
  BY SectionTables DEF RulesOf
<1>2. TakeoverFindings(s) \subseteq At(RulesOf({"EXPOSED_SERVICE"}), <<"alias">>)
  BY <1>1 DEF TakeoverFindings, At, When, Listed, ServiceRules, TakeoverRules
<1> QED
  BY <1>1, <1>2, WithinRules

\* The scan of the paths reports of the two categories of the web pages.
LEMMA PathRulesAre ==
  ASSUME NEW s, SiteOK(s)
  PROVE  /\ Within({<<PathRuleOf[k], <<k, Primary(s)>>>> : k \in s.paths}, {"SENSITIVE_PATH"})
         /\ Within(At(When("API-GRAPHQL-INTROSPECTION", s.graphql # "none"), <<"graphql">>),
                   {"SENSITIVE_PATH"})
         /\ Within(At(When("API-SWAGGER-EXPOSED", s.api \in {"page", "specification"}), <<"api">>),
                   {"SENSITIVE_PATH"})
         /\ Within(IF s.api = "specification" THEN SpecificationFindings(s) ELSE {},
                   {"SENSITIVE_PATH"})
<1> DEFINE P == RulesOf({"SENSITIVE_PATH"})
<1>1. {"SENSITIVE_PATH"} \in SUBSET DOMAIN AllSections
  BY SectionTables
<1>2. /\ \A k \in DOMAIN PathRuleOf : PathRuleOf[k] \in P
      /\ "API-GRAPHQL-INTROSPECTION" \in P /\ "API-SWAGGER-EXPOSED" \in P
  BY StageRules DEF Listed, PathRules, ApiRules, DisclosureRules, PathRuleOf
<1> HIDE DEF P
<1>3. Within({<<PathRuleOf[k], <<k, Primary(s)>>>> : k \in s.paths}, {"SENSITIVE_PATH"})
  <2> DEFINE f == [k \in s.paths |-> <<PathRuleOf[k], <<k, Primary(s)>>>>]
  <2>1. {<<PathRuleOf[k], <<k, Primary(s)>>>> : k \in s.paths} = {f[k] : k \in s.paths}
    OBVIOUS
  <2>2. \A k \in s.paths : f[k] = <<f[k][1], f[k][2]>> /\ f[k][1] \in P
    BY <1>2, SiteParts
  <2>3. f = [k \in s.paths |-> f[k]]
    OBVIOUS
  <2> HIDE DEF f
  <2>4. IsFiniteSet({f[k] : k \in s.paths})
    BY <2>3, SiteParts, ValuesAreFinite
  <2> QED
    BY <2>1, <2>2, <2>4 DEF Within, P
<1>4. /\ Within(At(When("API-GRAPHQL-INTROSPECTION", s.graphql # "none"), <<"graphql">>),
                {"SENSITIVE_PATH"})
      /\ Within(At(When("API-SWAGGER-EXPOSED", s.api \in {"page", "specification"}), <<"api">>),
                {"SENSITIVE_PATH"})
  <2>1. /\ When("API-GRAPHQL-INTROSPECTION", s.graphql # "none") \subseteq P
        /\ When("API-SWAGGER-EXPOSED", s.api \in {"page", "specification"}) \subseteq P
    BY <1>2 DEF When
  <2> QED
    BY <1>1, <2>1, WithinAt DEF P
<1>5. Within(IF s.api = "specification" THEN SpecificationFindings(s) ELSE {}, {"SENSITIVE_PATH"})
  <2>1. Within(SpecificationFindings(s), {"SENSITIVE_PATH"})
    BY StagesWithin
  <2>2. (IF s.api = "specification" THEN SpecificationFindings(s) ELSE {})
          \subseteq SpecificationFindings(s)
    OBVIOUS
  <2> QED
    BY <2>1, <2>2, WithinSubset
<1> QED
  BY <1>3, <1>4, <1>5

\* SensitivePathsScanner reports of the two categories of the web.
LEMMA PathWithin ==
  ASSUME NEW s, SiteOK(s), NEW token
  PROVE  Within(PathFindings(s, token), WebCategories)
<1>1. \A D : Within(D, {"HTTP_HEADERS"}) \/ Within(D, {"SENSITIVE_PATH"}) => Within(D, WebCategories)
  BY WithinSubset DEF WebCategories
<1>2. Within(At(DebugRules(s.errorPage), <<"error page", token>>), WebCategories)
  BY <1>1, StagesWithin
<1> QED
  BY <1>1, <1>2, PathRulesAre, WithinUnion DEF PathFindings

\* The scan of the ports: a service has one of the rules of its category, and the
\* software behind a port the one of the known vulnerabilities.
LEMMA FirstExists ==
  ASSUME NEW S \in SUBSET Nat, S # {}
  PROVE  \E i \in S : \A j \in S : i <= j
<1> DEFINE R == OpToRel(<, Nat)
<1>1. PICK i \in S : \A j \in S : <<j, i>> \notin R
  BY NatLessThanWellFounded, WFMin
<1>2. \A j \in S : ~(j < i)
  BY <1>1 DEF OpToRel
<1>3. ASSUME NEW j \in S PROVE i <= j
  <2>1. i \in Nat /\ j \in Nat /\ ~(j < i)
    BY <1>2
  <2> HIDE DEF R
  <2> QED
    BY <2>1
<1> QED
  BY <1>3

\* Every open port gets a rule of EXPOSED_SERVICE.
LEMMA ClassifyRules ==
  ASSUME NEW p
  PROVE  Classify(p) \in RulesOf({"EXPOSED_SERVICE"})
<1>1. RulesOf({"EXPOSED_SERVICE"}) = Listed({ServiceRules, TakeoverRules})
  BY SectionTables DEF RulesOf
<1>2. DOMAIN ServiceClasses = 1 .. 9
  BY DEF ServiceClasses
<1>3. /\ \A i \in 1 .. 9 : ServiceClasses[i].rule \in RulesOf({"EXPOSED_SERVICE"})
      /\ "SVC-OPEN-PORT" \in RulesOf({"EXPOSED_SERVICE"})
  BY <1>1 DEF ServiceClasses, Listed, ServiceRules, TakeoverRules
<1> DEFINE fits == {i \in DOMAIN ServiceClasses :
                      \/ p.port \in ServiceClasses[i].ports
                      \/ p.service \in ServiceClasses[i].services}
<1>4. fits \subseteq 1 .. 9
  BY <1>2
<1>5. Classify(p) = IF fits = {} THEN "SVC-OPEN-PORT"
                    ELSE ServiceClasses[CHOOSE i \in fits : \A j \in fits : i <= j].rule
  BY DEF Classify
<1> HIDE DEF fits
<1>6. fits # {} => (CHOOSE i \in fits : \A j \in fits : i <= j) \in 1 .. 9
  <2>1. ASSUME fits # {} PROVE \E i \in fits : \A j \in fits : i <= j
    <3>1. fits \in SUBSET Nat
      BY <1>4
    <3> QED
      BY <2>1, <3>1, FirstExists
  <2> QED
    BY <1>4, <2>1
<1> QED
  BY <1>3, <1>5, <1>6

\* The ports of a site are finitely many, and reported of under EXPOSED_SERVICE.
LEMMA PortWithin ==
  ASSUME NEW s, SiteOK(s)
  PROVE  /\ IsFiniteSet(OpenPorts(s))
         /\ Within(PortFindings(s), {"EXPOSED_SERVICE"})
<1>1. IsFiniteSet(OpenPorts(s))
  BY SiteParts, SubsetIsFinite DEF OpenPorts
<1> DEFINE f == [p \in OpenPorts(s) |-> <<Classify(p), <<"port", p.port>>>>]
<1>2. PortFindings(s) = {f[p] : p \in OpenPorts(s)}
  BY DEF PortFindings
<1>3. \A p \in OpenPorts(s) :
        f[p] = <<f[p][1], f[p][2]>> /\ f[p][1] \in RulesOf({"EXPOSED_SERVICE"})
  BY ClassifyRules
<1>4. f = [p \in OpenPorts(s) |-> f[p]]
  OBVIOUS
<1> HIDE DEF f
<1>5. IsFiniteSet({f[p] : p \in OpenPorts(s)})
  BY <1>1, <1>4, ValuesAreFinite
<1> QED
  BY <1>1, <1>2, <1>3, <1>5 DEF Within

\* What is known of the ports of a set.
KnownAt(ports) == {<<"VULN-KNOWN-CVE", <<"port", p.port>>>> : p \in ports}

\* Vulnerable software is reported of under VULNERABLE_SOFTWARE.
LEMMA KnownWithin ==
  ASSUME NEW ports, IsFiniteSet(ports)
  PROVE  Within(KnownAt(ports), {"VULNERABLE_SOFTWARE"})
<1>1. "VULN-KNOWN-CVE" \in RulesOf({"VULNERABLE_SOFTWARE"})
  <2>1. RulesOf({"VULNERABLE_SOFTWARE"}) = Listed({SoftwareRules})
    BY SectionTables DEF RulesOf
  <2> QED
    BY <2>1 DEF Listed, SoftwareRules
<1> DEFINE f == [p \in ports |-> <<"VULN-KNOWN-CVE", <<"port", p.port>>>>]
<1>2. KnownAt(ports) = {f[p] : p \in ports}
  BY DEF KnownAt
<1>3. \A p \in ports :
        f[p] = <<f[p][1], f[p][2]>> /\ f[p][1] \in RulesOf({"VULNERABLE_SOFTWARE"})
  BY <1>1
<1>4. f = [p \in ports |-> f[p]]
  OBVIOUS
<1> HIDE DEF f
<1>5. IsFiniteSet({f[p] : p \in ports})
  BY <1>4, ValuesAreFinite
<1> QED
  BY <1>2, <1>3, <1>5 DEF Within

\* The scan of the mail and of the name servers.
MailOK(z) == "dkim" \in DOMAIN z /\ ObservableAll(z)

\* The rules that EmailSecurityScanner uses are all of EMAIL_SECURITY.
LEMMA MailRulesAre ==
  /\ {"EMAIL_SECURITY"} \in SUBSET DOMAIN AllSections
  /\ {"MAIL-DMARC-MISSING", "MAIL-DMARC-INVALID", "MAIL-DMARC-MONITOR-ONLY", "MAIL-DMARC-PARTIAL",
      "MAIL-DMARC-SUBDOMAINS-UNPROTECTED", "MAIL-DMARC-NO-REPORTS", "MAIL-SPF-MISSING",
      "MAIL-SPF-INVALID", "MAIL-SPF-PASS-ALL", "MAIL-SPF-NEUTRAL", "MAIL-SPF-SOFTFAIL",
      "MAIL-DKIM-NOT-FOUND", "MAIL-DKIM-WEAK-KEY", "EMAIL-NO-MTA-STS", "EMAIL-NO-TLS-RPT",
      "EMAIL-IP-BLACKLISTED", "EMAIL-BIMI-INVALID", "DNS-NO-CAA", "DNS-CAA-INVALID",
      "DNS-NO-DNSSEC", "DNS-DNSSEC-BOGUS"} \subseteq RulesOf({"EMAIL_SECURITY"})
<1>1. /\ {"EMAIL_SECURITY"} \in SUBSET DOMAIN AllSections
      /\ RulesOf({"EMAIL_SECURITY"}) = Listed({SenderRules, MailRules, DnsRules, BrandRules})
  BY SectionTables DEF RulesOf
<1> QED
  BY <1>1 DEF Listed, SenderRules, MailRules, DnsRules, BrandRules

\* What the analyzer of DMARC reports of.
LEMMA DmarcWithin ==
  ASSUME NEW z
  PROVE  Within(DmarcFindings(z), {"EMAIL_SECURITY"})
<1> DEFINE R == RulesOf({"EMAIL_SECURITY"})
           at == DmarcAt(z)
           A == When("MAIL-DMARC-MONITOR-ONLY", EffectivePolicy(z.dmarc[at], ~(at = 1)) = "none")
                 \cup When("MAIL-DMARC-PARTIAL",
                           ~(EffectivePolicy(z.dmarc[at], ~(at = 1)) = "none") /\ z.dmarc[at].pct < 100)
                 \cup When("MAIL-DMARC-SUBDOMAINS-UNPROTECTED",
                      at = 1 /\ z.dmarc[at].policy # "none" /\ z.dmarc[at].subdomains = "none")
                 \cup When("MAIL-DMARC-NO-REPORTS", at = 1 /\ ~z.dmarc[at].reports)
<1>1. {"MAIL-DMARC-MISSING", "MAIL-DMARC-INVALID", "MAIL-DMARC-MONITOR-ONLY", "MAIL-DMARC-PARTIAL",
       "MAIL-DMARC-SUBDOMAINS-UNPROTECTED", "MAIL-DMARC-NO-REPORTS"} \subseteq R
  BY MailRulesAre
<1> HIDE DEF R
<1>2. A \subseteq R
  BY <1>1 DEF When
<1>3. DmarcFindings(z) =
        CASE DmarcStatus(z) = "missing" -> At({"MAIL-DMARC-MISSING"}, <<"dmarc", 1>>)
          [] DmarcStatus(z) = "invalid" -> At({"MAIL-DMARC-INVALID"}, <<"dmarc", at>>)
          [] OTHER -> At(A, <<"dmarc", at>>)
  BY Zenon DEF DmarcFindings
<1> HIDE DEF A
<1>4. DmarcFindings(z) \subseteq At(R, <<"dmarc", 1>>) \cup At(R, <<"dmarc", at>>)
  BY <1>1, <1>2, <1>3 DEF At
<1>5. Within(At(R, <<"dmarc", 1>>), {"EMAIL_SECURITY"})
      /\ Within(At(R, <<"dmarc", at>>), {"EMAIL_SECURITY"})
  BY MailRulesAre, WithinAt DEF R
<1>6. Within(At(R, <<"dmarc", 1>>) \cup At(R, <<"dmarc", at>>), {"EMAIL_SECURITY"})
  BY <1>5, WithinUnion
<1> QED
  BY <1>4, <1>6, WithinSubset

\* What the analyzer of SPF reports of, which follows redirections.
LEMMA SpfWithin ==
  ASSUME NEW z, NEW failed
  PROVE  Within(SpfFindings(z, failed), {"EMAIL_SECURITY"})
<1> DEFINE R == RulesOf({"EMAIL_SECURITY"})
           result == EvaluateSpf(z.spf[1], IF "spf" \in failed THEN <<>> ELSE z.spfOf)
           E == (IF result.errors THEN {"MAIL-SPF-INVALID"} ELSE {})
                \cup CASE result.all = "+" -> {"MAIL-SPF-PASS-ALL"}
                       [] result.all \in {"?", "null"} -> {"MAIL-SPF-NEUTRAL"}
                       [] result.all = "~" /\ ~Enforcing(z) -> {"MAIL-SPF-SOFTFAIL"}
                       [] OTHER -> {}
           N == IF z.mx \/ ~Enforcing(z) THEN {"MAIL-SPF-MISSING"} ELSE {}
           rules == CASE Len(z.spf) = 0 -> N [] Len(z.spf) > 1 -> {"MAIL-SPF-INVALID"} [] OTHER -> E
<1>1. {"MAIL-SPF-MISSING", "MAIL-SPF-INVALID", "MAIL-SPF-PASS-ALL", "MAIL-SPF-NEUTRAL",
       "MAIL-SPF-SOFTFAIL"} \subseteq R
  BY MailRulesAre
<1>2. SpfFindings(z, failed) = At(rules, <<"spf">>)
  BY Zenon DEF SpfFindings
<1> HIDE DEF R, result
<1>3. E \subseteq R
  BY <1>1
<1>4. N \subseteq R
  BY <1>1
<1> HIDE DEF E, N
<1>5. rules \subseteq R
  BY <1>1, <1>3, <1>4
<1>6. Within(At(rules, <<"spf">>), {"EMAIL_SECURITY"})
  BY <1>5, MailRulesAre, WithinAt DEF R
<1> QED
  BY <1>2, <1>6

\* What the analyzer of DKIM reports of: one finding by key.
LEMMA DkimWithin ==
  ASSUME NEW z, MailOK(z), NEW failed
  PROVE  Within(DkimFindings(z, failed), {"EMAIL_SECURITY"})
<1> DEFINE R == RulesOf({"EMAIL_SECURITY"})
           f == [k \in z.dkim |-> <<"MAIL-DKIM-WEAK-KEY", <<"dkim", k.selector>>>>]
<1>1. "MAIL-DKIM-NOT-FOUND" \in R /\ "MAIL-DKIM-WEAK-KEY" \in R
  BY MailRulesAre
<1>2. DkimFindings(z, failed) \subseteq At({"MAIL-DKIM-NOT-FOUND"}, <<"dkim">>) \cup {f[k] : k \in z.dkim}
  BY DEF DkimFindings
<1>3. Within(At({"MAIL-DKIM-NOT-FOUND"}, <<"dkim">>), {"EMAIL_SECURITY"})
  BY <1>1, MailRulesAre, WithinAt
<1>4. Within({f[k] : k \in z.dkim}, {"EMAIL_SECURITY"})
  <2>1. IsFiniteSet(z.dkim)
    BY DEF MailOK, ObservableAll, Observable
  <2>2. \A k \in z.dkim : f[k] = <<f[k][1], f[k][2]>> /\ f[k][1] \in R
    BY <1>1
  <2>3. f = [k \in z.dkim |-> f[k]]
    OBVIOUS
  <2> HIDE DEF f
  <2>4. IsFiniteSet({f[k] : k \in z.dkim})
    BY <2>1, <2>3, ValuesAreFinite
  <2> QED
    BY <2>2, <2>4 DEF Within
<1> HIDE DEF f
<1>5. Within(At({"MAIL-DKIM-NOT-FOUND"}, <<"dkim">>) \cup {f[k] : k \in z.dkim}, {"EMAIL_SECURITY"})
  BY <1>3, <1>4, WithinUnion
<1> QED
  BY <1>2, <1>5, WithinSubset

\* What the analyzers of the transport, of block lists and of BIMI report of.
LEMMA TransportWithin ==
  ASSUME NEW z, NEW failed
  PROVE  /\ Within(TransportFindings(z, failed), {"EMAIL_SECURITY"})
         /\ Within(BlockListFindings(z, failed), {"EMAIL_SECURITY"})
         /\ Within(BimiFindings(z, failed), {"EMAIL_SECURITY"})
<1> DEFINE R == RulesOf({"EMAIL_SECURITY"})
<1>1. {"EMAIL-NO-MTA-STS", "EMAIL-NO-TLS-RPT", "EMAIL-IP-BLACKLISTED", "EMAIL-BIMI-INVALID"} \subseteq R
  BY MailRulesAre
<1>2. {"EMAIL_SECURITY"} \in SUBSET DOMAIN AllSections
  BY MailRulesAre
<1> HIDE DEF R
<1>3. TransportFindings(z, failed) \subseteq At(R, <<"mta-sts">>) \cup At(R, <<"tls-rpt">>)
  BY <1>1 DEF TransportFindings, At, When
<1>4. /\ Within(At(R, <<"mta-sts">>), {"EMAIL_SECURITY"})
      /\ Within(At(R, <<"tls-rpt">>), {"EMAIL_SECURITY"})
  BY <1>2, WithinAt DEF R
<1>5. Within(At(R, <<"mta-sts">>) \cup At(R, <<"tls-rpt">>), {"EMAIL_SECURITY"})
  BY <1>4, WithinUnion
<1>6. /\ BlockListFindings(z, failed) \subseteq At(R, <<"dnsbl">>)
      /\ BimiFindings(z, failed) \subseteq At(R, <<"bimi">>)
  BY <1>1 DEF BlockListFindings, BimiFindings, At, When
<1> QED
  BY <1>2, <1>3, <1>5, <1>6, WithinSubset, WithinRules DEF R

\* What the analyzer of CAA and DNSSEC reports of.
LEMMA DnsWithin ==
  ASSUME NEW z, NEW failed
  PROVE  Within(DnsFindings(z, failed), {"EMAIL_SECURITY"})
<1> DEFINE R == RulesOf({"EMAIL_SECURITY"})
<1>1. {"DNS-NO-CAA", "DNS-CAA-INVALID", "DNS-NO-DNSSEC", "DNS-DNSSEC-BOGUS"} \subseteq R
  BY MailRulesAre
<1>2. {"EMAIL_SECURITY"} \in SUBSET DOMAIN AllSections
  BY MailRulesAre
<1> HIDE DEF R
<1>3. DnsFindings(z, failed) \subseteq At(R, <<"caa">>) \cup At(R, <<"dnssec">>)
  BY <1>1 DEF DnsFindings, At, When
<1>4. Within(At(R, <<"caa">>), {"EMAIL_SECURITY"}) /\ Within(At(R, <<"dnssec">>), {"EMAIL_SECURITY"})
  BY <1>2, WithinAt DEF R
<1>5. Within(At(R, <<"caa">>) \cup At(R, <<"dnssec">>), {"EMAIL_SECURITY"})
  BY <1>4, WithinUnion
<1> QED
  BY <1>3, <1>5, WithinSubset

\* EmailSecurityScanner reports of EMAIL_SECURITY only, whichever lookups fail.
LEMMA MailWithin ==
  ASSUME NEW z, MailOK(z), NEW failed
  PROVE  Within(MailFindings(z, failed), {"EMAIL_SECURITY"})
BY DmarcWithin, SpfWithin, DkimWithin, TransportWithin, DnsWithin, WithinUnion DEF MailFindings

-----------------------------------------------------------------------------
\* The audit of an account.
LEMMA CloudRulesAre ==
  /\ CloudCategories \in SUBSET DOMAIN AllSections
  /\ Listed({IdentityRules}) \cup Listed({StorageRules}) \cup Listed({NetworkRules})
     \cup Listed({ComputeRules}) \cup Listed({DatabaseRules}) \cup Listed({LoggingRules})
       \subseteq RulesOf(CloudCategories)
<1>1. \A c \in CloudCategories : Listed(AllSections[c]) \subseteq RulesOf(CloudCategories)
  BY DEF RulesOf
<1> QED
  BY <1>1, SectionTables

\* An audit of AWS reports of the categories of the cloud, whichever queries fail.
LEMMA AwsWithin ==
  ASSUME NEW a, NEW failed
  PROVE  Within(AwsFindings(a, failed), CloudCategories)
<1> DEFINE R == RulesOf(CloudCategories)
<1>1. \A D, location : D \subseteq At(R, location) => Within(D, CloudCategories)
  BY CloudRulesAre, WithinRules
<1>2. ASSUME NEW D, NEW x, NEW y, D \subseteq At(R, x) \cup At(R, y)
      PROVE  Within(D, CloudCategories)
  <2>1. Within(At(R, x), CloudCategories) /\ Within(At(R, y), CloudCategories)
    BY <1>1
  <2>2. Within(At(R, x) \cup At(R, y), CloudCategories)
    BY <2>1, WithinUnion
  <2> QED
    BY <1>2, <2>2, WithinSubset
<1>3. /\ Listed({IdentityRules}) \subseteq R /\ Listed({StorageRules}) \subseteq R
      /\ Listed({NetworkRules}) \subseteq R /\ Listed({ComputeRules}) \subseteq R
      /\ Listed({DatabaseRules}) \subseteq R /\ Listed({LoggingRules}) \subseteq R
  BY CloudRulesAre
<1> HIDE DEF R
<1>4. ASSUME NEW seen PROVE Within(IdentityBreaks(seen), CloudCategories)
  <2>1. {"AWS-IAM-ROOT-MFA", "AWS-IAM-USER-NO-MFA", "AWS-IAM-KEY-ROTATION", "AWS-IAM-ADMIN-POLICY"} \subseteq R
    BY <1>3 DEF Listed, IdentityRules
  <2>2. IdentityBreaks(seen) \subseteq At(R, <<"root">>) \cup At(R, <<"user">>)
    BY <2>1 DEF IdentityBreaks, At, When
  <2> QED
    BY <1>2, <2>2
<1>5. ASSUME NEW seen PROVE Within(BucketBreaks(seen), CloudCategories)
  <2>1. {"AWS-S3-PUBLIC-READ", "AWS-S3-UNENCRYPTED", "AWS-S3-LOGGING-OFF"} \subseteq R
    BY <1>3 DEF Listed, StorageRules
  <2>2. BucketBreaks(seen) \subseteq At(R, <<"bucket">>)
    BY <2>1 DEF BucketBreaks, At, When
  <2> QED
    BY <1>1, <2>2
<1>6. ASSUME NEW seen PROVE Within(NetworkBreaks(seen), CloudCategories)
  <2>1. {"AWS-SG-ALL-TRAFFIC", "AWS-SG-SSH-OPEN", "AWS-SG-RDP-OPEN", "AWS-VPC-FLOW-LOGS"} \subseteq R
    BY <1>3 DEF Listed, NetworkRules
  <2>2. NetworkBreaks(seen) \subseteq At(R, <<"group">>) \cup At(R, <<"vpc">>)
    BY <2>1 DEF NetworkBreaks, At, When
  <2> QED
    BY <1>2, <2>2
<1>7. ASSUME NEW seen PROVE Within(ComputeBreaks(seen), CloudCategories)
  <2>1. {"AWS-EC2-IMDSV1-ENABLED", "AWS-EBS-UNENCRYPTED", "AWS-EC2-PUBLIC-IP"} \subseteq R
    BY <1>3 DEF Listed, ComputeRules
  <2>2. ComputeBreaks(seen) \subseteq At(R, <<"instance">>)
    BY <2>1 DEF ComputeBreaks, At, When
  <2> QED
    BY <1>1, <2>2
<1>8. ASSUME NEW seen PROVE Within(DatabaseBreaks(seen), CloudCategories)
  <2>1. {"AWS-RDS-PUBLIC-ACCESS", "AWS-RDS-UNENCRYPTED", "AWS-RDS-NO-BACKUP"} \subseteq R
    BY <1>3 DEF Listed, DatabaseRules
  <2>2. DatabaseBreaks(seen) \subseteq At(R, <<"database">>)
    BY <2>1 DEF DatabaseBreaks, At, When
  <2> QED
    BY <1>1, <2>2
<1>9. ASSUME NEW seen PROVE Within(LoggingBreaks(seen), CloudCategories)
  <2>1. {"AWS-TRAIL-DISABLED", "AWS-GUARDDUTY-OFF"} \subseteq R
    BY <1>3 DEF Listed, LoggingRules
  <2>2. LoggingBreaks(seen) \subseteq At(R, <<"trail">>) \cup At(R, <<"detector">>)
    BY <2>1 DEF LoggingBreaks, At, When
  <2> QED
    BY <1>2, <2>2
<1> QED
  BY <1>4, <1>5, <1>6, <1>7, <1>8, <1>9, WithinUnion DEF AwsFindings

AzureResources == {"role", "storage", "nsg", "machine", "sql", "activityLog"}

\* An audit of Azure sees nothing but the kinds of resources it asks for.
LEMMA AzureSees ==
  ASSUME NEW a, NEW failed
  PROVE  DOMAIN AzureSeen(a, failed) \subseteq AzureResources
<1>1. \A f, g : DOMAIN (f ++ g) = DOMAIN f \cup DOMAIN g
  BY DEF ++
<1>2. /\ DOMAIN SeenRoles(a, failed) \subseteq AzureResources
      /\ DOMAIN SeenStorage(a, failed) \subseteq AzureResources
      /\ DOMAIN SeenGroups(a, failed) \subseteq AzureResources
      /\ DOMAIN SeenMachine(a, failed) \subseteq AzureResources
      /\ DOMAIN SeenSql(a, failed) \subseteq AzureResources
      /\ DOMAIN SeenActivityLog(a, failed) \subseteq AzureResources
      /\ DOMAIN AzureBenchmark \subseteq AzureResources
      /\ DOMAIN << >> = {}
  BY DEF SeenRoles, SeenStorage, SeenGroups, SeenMachine, SeenSql, SeenActivityLog, Listing,
     AzureResources, AzureBenchmark
<1> DEFINE P(f) == DOMAIN f \subseteq AzureResources
           L == IF "monitor" \in failed THEN << >> ELSE SeenActivityLog(a, failed)
<1>3. \A f, g : P(f) /\ P(g) => P(f ++ g)
  BY <1>1
<1>4. P(L)
  BY <1>2
<1> HIDE DEF L
<1>5. /\ P(SeenRoles(a, failed)) /\ P(SeenStorage(a, failed)) /\ P(SeenGroups(a, failed))
      /\ P(SeenMachine(a, failed)) /\ P(SeenSql(a, failed)) /\ P(AzureBenchmark)
  BY <1>2
<1> HIDE DEF P
<1>6. P(SeenRoles(a, failed) ++ SeenStorage(a, failed) ++ SeenGroups(a, failed)
        ++ SeenMachine(a, failed) ++ SeenSql(a, failed) ++ L)
  BY <1>3, <1>4, <1>5
<1>7. AzureSeen(a, failed) =
        IF a.sandbox THEN AzureBenchmark
        ELSE SeenRoles(a, failed) ++ SeenStorage(a, failed) ++ SeenGroups(a, failed)
             ++ SeenMachine(a, failed) ++ SeenSql(a, failed) ++ L
  BY DEF AzureSeen, L
<1>8. P(AzureSeen(a, failed))
  BY <1>5, <1>6, <1>7
<1> QED
  BY <1>8 DEF P

\* An audit of Azure reports of the categories of the cloud, whichever queries fail.
LEMMA AzureWithin ==
  ASSUME NEW a, NEW failed
  PROVE  Within(AzureFindings(a, failed), CloudCategories)
<1> DEFINE R == RulesOf(CloudCategories)
<1>1. \A r \in AzureResources : \A v : AzureResourceBreaks(r, v) \subseteq R
  <2>1. {"AZ-IAM-CUSTOM-OWNER", "AZ-BLOB-PUBLIC-ACCESS", "AZ-STORAGE-NO-HTTPS",
         "AZ-STORAGE-NO-TLS12", "AZ-NSG-SSH-OPEN", "AZ-NSG-RDP-OPEN", "AZ-VM-UNENCRYPTED-DISK",
         "AZ-VM-PASSWORD-AUTH", "AZ-SQL-PUBLIC-ACCESS", "AZ-SQL-TDE-DISABLED",
         "AZ-ACTIVITY-LOG-OFF"} \subseteq R
    BY CloudRulesAre DEF Listed, IdentityRules, StorageRules, NetworkRules, ComputeRules,
       DatabaseRules, LoggingRules
  <2> HIDE DEF R
  <2> QED
    BY <2>1 DEF AzureResourceBreaks, AzureResources, When
<1>2. \A location : Within(At(R, location), CloudCategories)
  BY CloudRulesAre, WithinAt
<1> HIDE DEF R
<1> DEFINE All == (At(R, <<"role">>) \cup (At(R, <<"storage">>) \cup At(R, <<"nsg">>)))
                  \cup (At(R, <<"machine">>) \cup (At(R, <<"sql">>) \cup At(R, <<"activityLog">>)))
<1>3. AzureFindings(a, failed) \subseteq All
  <2> DEFINE seen == AzureSeen(a, failed)
  <2>1. AzureFindings(a, failed) = UNION {At(AzureResourceBreaks(r, seen[r]), <<r>>) : r \in DOMAIN seen}
    BY DEF AzureFindings
  <2>2. DOMAIN seen \subseteq AzureResources
    BY AzureSees
  <2> HIDE DEF seen
  <2>3. \A r \in DOMAIN seen : At(AzureResourceBreaks(r, seen[r]), <<r>>) \subseteq At(R, <<r>>)
    BY <1>1, <2>2 DEF At
  <2>4. \A r \in AzureResources : At(R, <<r>>) \subseteq All
    BY DEF AzureResources
  <2> HIDE DEF All
  <2> QED
    BY <2>1, <2>2, <2>3, <2>4
<1>4. Within(All, CloudCategories)
  BY <1>2, WithinUnion
<1> QED
  BY <1>3, <1>4, WithinSubset

\* So does an audit of any account.
LEMMA AuditWithin ==
  ASSUME NEW a, NEW failed
  PROVE  Within(AuditFindings(a, failed), CloudCategories)
BY AwsWithin, AzureWithin DEF AuditFindings

-----------------------------------------------------------------------------
\* The severity of a rule is one of the five.
LEMMA SeverityIs ==
  ASSUME NEW r \in FindingRules \cup CloudRules
  PROVE  /\ SeverityOf[r] \in Severities
         /\ \E t \in AllSections[CategoryOf[r]] : SeverityOf[r] \in DOMAIN t /\ r \in t[SeverityOf[r]]
<1>1. /\ CategoryOf[r] \in DOMAIN AllSections
      /\ r \in Listed(AllSections[CategoryOf[r]])
  <2>1. \E c \in DOMAIN AllSections : r \in Listed(AllSections[c])
    BY AllRulesOf, SectionTables DEF RulesOf
  <2> QED
    BY <2>1 DEF CategoryOf
<1>2. \A c \in DOMAIN AllSections : \A t \in AllSections[c] : DOMAIN t \subseteq Severities
  <2>1. \A c \in DOMAIN AllSections : \A t \in AllSections[c] : TableOK(t)
    BY SectionTables, TablesAreFinite
  <2> QED
    BY <2>1 DEF TableOK, Severities
<1>3. \E s \in Severities : \E t \in AllSections[CategoryOf[r]] : s \in DOMAIN t /\ r \in t[s]
  BY <1>1, <1>2 DEF Listed
<1> QED
  BY <1>3 DEF SeverityOf

\* The severity computed from the score of a vulnerability is one of the five.
LEMMA FindingSeverityIs ==
  ASSUME NEW matched, NEW distro
  PROVE  FindingSeverity(matched, distro) \in Severities
<1>1. \A x : SeverityFromCvss(x) \in Severities
  BY DEF SeverityFromCvss, Severities
<1>2. \A x : CveSeverity(x) \in Severities
  BY <1>1 DEF CveSeverity, Severities
<1>3. \A x \in Severities : Lower(x) \in Severities
  BY DEF Lower, Severities
<1> DEFINE worst == CHOOSE c \in {e.cvss : e \in matched} : \A e \in matched : e.cvss <= c
           base == CveSeverity(worst)
<1>4. base \in Severities
  BY <1>2
<1>5. FindingSeverity(matched, distro) \in {"CRITICAL", "HIGH", Lower(base), base}
  BY DEF FindingSeverity
<1> HIDE DEF base
<1> QED
  BY <1>3, <1>4, <1>5 DEF Severities

-----------------------------------------------------------------------------
\* An open row is what a scan or an audit made of a draft: it has a rule of its side, and
\* the severity of the catalog unless a scan lowered it or it is a known vulnerability.
RulesFor(asset) == IF asset = "site" THEN FindingRules ELSE CloudRules
RowOK(f) ==
  /\ f = [asset |-> f.asset, rule |-> f.rule, at |-> f.at, severity |-> f.severity,
          status |-> f.status]
  /\ f.asset \in Assets /\ f.rule \in RulesFor(f.asset)
  /\ f.severity \in Severities /\ f.status \in {"OPEN", "VERIFYING"}
  /\ f.severity \in {SeverityOf[f.rule], "LOW"} \/ f.rule = "VULN-KNOWN-CVE"

RowsOK(rows, assets) ==
  /\ IsFiniteSet(rows)
  /\ \A f \in rows : RowOK(f) /\ f.asset \in assets
  /\ \A f, g \in rows : <<f.asset, f.rule, f.at>> = <<g.asset, g.rule, g.at>> => f = g

PostureInv ==
  /\ SiteOK(site) /\ MailOK(mail)
  /\ RowsOK(open, scanned) /\ scanned \subseteq Assets
  /\ cached \in [DOMAIN Vulnerabilities -> {"none", "current", "old"}]
  /\ catalog \subseteq Exploited
  /\ scans \in Nat /\ changes \in Nat

\* The severities that a scan gives to its drafts.
SeveritiesOK(drafts, severity) ==
  \A d \in drafts :
    /\ severity[d] \in Severities
    /\ severity[d] \in {SeverityOf[d[1]], "LOW"} \/ d[1] = "VULN-KNOWN-CVE"

CategoriesFor(asset) == IF asset = "site" THEN SiteCategories ELSE CloudCategories

\* A draft of a side is of a rule of that side.
LEMMA RulesOfSide ==
  ASSUME NEW asset \in Assets, NEW cs, cs \subseteq CategoriesFor(asset)
  PROVE  RulesOf(cs) \subseteq RulesFor(asset)
BY AllRulesOf DEF RulesOf, CategoriesFor, RulesFor, Assets

\* What Sync makes of the rows: by identity, those of the drafts, and those that were there
\* and are of the other asset, or not found again and not resolved.
LEMMA SyncRows ==
  ASSUME NEW asset \in Assets, NEW cs, cs \subseteq CategoriesFor(asset),
         NEW drafts, Within(drafts, cs), NEW severity, NEW resolved
  PROVE  LET rows == Sync(asset, drafts, severity, resolved)
             id(f) == <<f.rule, f.at>>
         IN /\ \A f \in rows :
                 f.asset = asset => id(f) \in drafts \/ (f \in open /\ CategoryOf[f.rule] \notin resolved)
            /\ \A f \in rows : f.asset # asset => f \in open
            /\ \A f \in open : f.asset # asset => f \in rows
            /\ \A d \in drafts : \E f \in rows : f.asset = asset /\ f.rule = d[1] /\ f.at = d[2]
            /\ \A f \in open : f.asset = asset /\ CategoryOf[f.rule] \notin resolved =>
                 \E g \in rows : g.asset = asset /\ g.rule = f.rule /\ g.at = f.at
<1> DEFINE New(d) == [asset |-> asset, rule |-> d[1], at |-> d[2], severity |-> severity[d],
                      status |-> IF \E f \in Same(asset, d) : f.status = "VERIFYING"
                                 THEN "VERIFYING" ELSE "OPEN"]
           Kept == {f \in open : \/ f.asset # asset
                                 \/ <<f.rule, f.at>> \notin drafts /\ CategoryOf[f.rule] \notin resolved}
<1>1. Sync(asset, drafts, severity, resolved) = Kept \cup {New(d) : d \in drafts}
  BY DEF Sync
<1>2. \A d \in drafts : New(d).asset = asset /\ New(d).rule = d[1] /\ New(d).at = d[2]
  OBVIOUS
<1>3. \A d \in drafts : d = <<d[1], d[2]>>
  BY DEF Within
<1> HIDE DEF New
<1>4. \A d \in drafts : <<New(d).rule, New(d).at>> \in drafts
  BY <1>2, <1>3
<1>5. \A f \in open : <<f.rule, f.at>> \in drafts =>
        LET d == <<f.rule, f.at>> IN New(d).rule = f.rule /\ New(d).at = f.at
  BY <1>2
<1> QED
  BY <1>1, <1>2, <1>4, <1>5

\* Rows that are well formed stay so.
LEMMA SyncKeepsRows ==
  ASSUME NEW asset \in Assets, NEW cs, cs \subseteq CategoriesFor(asset),
         NEW drafts, Within(drafts, cs), NEW severity, SeveritiesOK(drafts, severity),
         NEW resolved, RowsOK(open, scanned)
  PROVE  RowsOK(Sync(asset, drafts, severity, resolved), scanned \cup {asset})
<1> DEFINE New(d) == [asset |-> asset, rule |-> d[1], at |-> d[2], severity |-> severity[d],
                      status |-> IF \E f \in Same(asset, d) : f.status = "VERIFYING"
                                 THEN "VERIFYING" ELSE "OPEN"]
           Kept == {f \in open : \/ f.asset # asset
                                 \/ <<f.rule, f.at>> \notin drafts /\ CategoryOf[f.rule] \notin resolved}
           f == [d \in drafts |-> New(d)]
<1>1. Sync(asset, drafts, severity, resolved) = Kept \cup {f[d] : d \in drafts}
  BY DEF Sync
<1>2. \A d \in drafts : /\ f[d].asset = asset /\ f[d].rule = d[1] /\ f[d].at = d[2]
                        /\ f[d].severity = severity[d] /\ f[d].status \in {"OPEN", "VERIFYING"}
                        /\ f[d] = [asset |-> asset, rule |-> d[1], at |-> d[2],
                                   severity |-> f[d].severity, status |-> f[d].status]
  OBVIOUS
<1>3. \A d \in drafts : RowOK(f[d])
  <2>1. \A d \in drafts : d[1] \in RulesFor(asset)
    BY RulesOfSide DEF Within
  <2> HIDE DEF f
  <2> QED
    BY <1>2, <2>1, ZenonT(40) DEF RowOK, SeveritiesOK
<1>4. f = [d \in drafts |-> f[d]]
  OBVIOUS
<1> HIDE DEF f
<1>5. IsFiniteSet(Kept \cup {f[d] : d \in drafts})
  <2>1. IsFiniteSet({f[d] : d \in drafts})
    BY <1>4, ValuesAreFinite DEF Within
  <2>2. IsFiniteSet(Kept)
    BY SubsetIsFinite DEF RowsOK
  <2> QED
    BY <2>1, <2>2, UnionIsFinite
<1>6. \A g \in Kept \cup {f[d] : d \in drafts} : RowOK(g) /\ g.asset \in scanned \cup {asset}
  <2>1. \A g \in Kept : RowOK(g) /\ g.asset \in scanned
    BY DEF RowsOK
  <2>2. \A d \in drafts : RowOK(f[d]) /\ f[d].asset = asset
    BY <1>2, <1>3
  <2> HIDE DEF Kept
  <2> QED
    BY <2>1, <2>2
<1>7. ASSUME NEW g \in Kept \cup {f[d] : d \in drafts}, NEW h \in Kept \cup {f[d] : d \in drafts},
             g.asset = h.asset, g.rule = h.rule, g.at = h.at
      PROVE  g = h
  <2>1. \A d \in drafts : d = <<d[1], d[2]>>
    BY DEF Within
  <2>2. CASE g \in Kept /\ h \in Kept
    BY <1>7, <2>2 DEF RowsOK
  <2>3. CASE g \notin Kept /\ h \notin Kept
    <3>1. PICK d \in drafts, e \in drafts : g = f[d] /\ h = f[e]
      BY <2>3
    <3>2. d[1] = e[1] /\ d[2] = e[2]
      BY <1>2, <1>7, <3>1
    <3>3. d = <<d[1], d[2]>> /\ e = <<e[1], e[2]>>
      BY <2>1
    <3>4. d = e
      BY <3>2, <3>3
    <3> QED
      BY <3>1, <3>4
  <2>4. ASSUME NEW x \in Kept, NEW d \in drafts, x.asset = asset
        PROVE  ~(x.rule = d[1] /\ x.at = d[2])
    BY <2>1, <2>4
  <2>5. CASE g \in Kept /\ h \notin Kept
    <3>1. PICK d \in drafts : h = f[d]
      BY <2>5
    <3>2. h.asset = asset /\ h.rule = d[1] /\ h.at = d[2]
      BY <1>2, <3>1
    <3> QED
      BY <1>7, <2>4, <2>5, <3>2
  <2>6. CASE g \notin Kept /\ h \in Kept
    <3>1. PICK d \in drafts : g = f[d]
      BY <2>6
    <3>2. g.asset = asset /\ g.rule = d[1] /\ g.at = d[2]
      BY <1>2, <3>1
    <3> QED
      BY <1>7, <2>4, <2>6, <3>2
  <2> QED
    BY <2>2, <2>3, <2>5, <2>6
<1> QED
  BY <1>1, <1>5, <1>6, <1>7 DEF RowsOK

-----------------------------------------------------------------------------
\* The kinds of scan: their asset, the categories they answer for and their drafts.
LEMMA KindsAre ==
  /\ DOMAIN Categories = {"PORT_SCAN", "WEB_HEADERS", "SSL_CERT", "SENSITIVE_PATHS",
                          "EMAIL_SECURITY", "SUBDOMAIN_DISCOVERY"}
  /\ Kinds = DOMAIN Categories \cup {"audit"}
  /\ Categories["PORT_SCAN"] = {"EXPOSED_SERVICE", "VULNERABLE_SOFTWARE"}
  /\ Categories["WEB_HEADERS"] = {"HTTP_HEADERS"} /\ Categories["SSL_CERT"] = {"TLS_CERTIFICATE"}
  /\ Categories["SENSITIVE_PATHS"] = {"SENSITIVE_PATH"}
  /\ Categories["EMAIL_SECURITY"] = {"EMAIL_SECURITY"}
  /\ Categories["SUBDOMAIN_DISCOVERY"] = {}
  /\ \A kind \in DOMAIN Categories : AssetOf(kind) = "site" /\ Owned(kind) = Categories[kind]
  /\ AssetOf("audit") = "cloud" /\ Owned("audit") = CloudCategories
BY DEF Categories, Kinds, AssetOf, Owned, CloudCategories

\* No category is of two kinds of scan.
LEMMA OwnersAreUnique ==
  ASSUME NEW i \in Kinds, NEW j \in Kinds, NEW c, c \in Owned(i), c \in Owned(j)
  PROVE  i = j
<1>1. ASSUME NEW k \in DOMAIN Categories
      PROVE  /\ Owned(k) \subseteq SiteCategories
             /\ c \in Owned(k) =>
                  k = CASE c \in {"EXPOSED_SERVICE", "VULNERABLE_SOFTWARE"} -> "PORT_SCAN"
                        [] c = "HTTP_HEADERS" -> "WEB_HEADERS" [] c = "TLS_CERTIFICATE" -> "SSL_CERT"
                        [] c = "SENSITIVE_PATH" -> "SENSITIVE_PATHS" [] OTHER -> "EMAIL_SECURITY"
  BY KindsAre, SectionTables
<1>2. SiteCategories \cap CloudCategories = {}
  BY SectionTables
<1> QED
  BY <1>1, <1>2, KindsAre

\* Drafts, by the kind of the scan.
LEMMA DraftsAre ==
  ASSUME NEW token
  PROVE  /\ Drafts("WEB_HEADERS", token) = BaseFindings(site) \cup DeepFindings(site, DeepStages, token)
         /\ Drafts("SENSITIVE_PATHS", token) = PathFindings(site, token)
         /\ Drafts("SSL_CERT", token) = SslFindings(site)
         /\ Drafts("PORT_SCAN", token) =
              PortFindings(site)
              \cup KnownAt({q \in Detected(OpenPorts(site)) :
                              MatchCves(Vulnerabilities[q.product], q.version) # {}})
         /\ Drafts("SUBDOMAIN_DISCOVERY", token) = TakeoverFindings(site)
         /\ Drafts("EMAIL_SECURITY", token) = MailFindings(mail, {})
         /\ Drafts("audit", token) = AuditFindings(cloud, {})
BY DEF Drafts, KnownAt

\* The scans of a site report of the site, the scan of the mail of the mail only.
LEMMA DraftsWithin ==
  ASSUME SiteOK(site), MailOK(mail), NEW kind \in Kinds, NEW token
  PROVE  /\ kind = "audit" => Within(Drafts(kind, token), CloudCategories)
         /\ kind = "EMAIL_SECURITY" => Within(Drafts(kind, token), {"EMAIL_SECURITY"})
         /\ kind \in DOMAIN Categories \ {"EMAIL_SECURITY"} =>
              Within(Drafts(kind, token), SiteCategories \ {"EMAIL_SECURITY"})
<1> DEFINE S == SiteCategories \ {"EMAIL_SECURITY"}
<1>1. Within(Drafts("audit", token), CloudCategories)
  BY DraftsAre, AuditWithin
<1>2. Within(Drafts("EMAIL_SECURITY", token), {"EMAIL_SECURITY"})
  BY DraftsAre, MailWithin
<1>3. WebCategories \subseteq S /\ {"TLS_CERTIFICATE"} \subseteq S
      /\ {"EXPOSED_SERVICE"} \subseteq S /\ {"VULNERABLE_SOFTWARE"} \subseteq S
      /\ {"HTTP_HEADERS"} \subseteq S
  BY SectionTables DEF WebCategories
<1> HIDE DEF S
<1>4. Within(Drafts("WEB_HEADERS", token), S)
  <2>1. Within(BaseFindings(site), S)
    BY <1>3, BaseWithin, WithinSubset
  <2>2. Within(DeepFindings(site, DeepStages, token), S)
    <3>1. DeepStages \in 0 .. 8
      BY DEF DeepStages
    <3> QED
      BY <1>3, <3>1, DeepWithin, WithinSubset
  <2> QED
    BY <2>1, <2>2, DraftsAre, WithinUnion
<1>5. Within(Drafts("SENSITIVE_PATHS", token), S)
  BY <1>3, DraftsAre, PathWithin, WithinSubset
<1>6. Within(Drafts("SSL_CERT", token), S)
  BY <1>3, DraftsAre, SslWithin, WithinSubset
<1>7. Within(Drafts("SUBDOMAIN_DISCOVERY", token), S)
  BY <1>3, DraftsAre, TakeoverWithin, WithinSubset
<1>8. Within(Drafts("PORT_SCAN", token), S)
  <2> DEFINE Q == {q \in Detected(OpenPorts(site)) :
                     MatchCves(Vulnerabilities[q.product], q.version) # {}}
  <2>1. IsFiniteSet(Q)
    BY PortWithin, SubsetIsFinite DEF Detected
  <2> HIDE DEF Q
  <2>2. Within(KnownAt(Q), S)
    BY <1>3, <2>1, KnownWithin, WithinSubset
  <2>3. Within(PortFindings(site), S)
    BY <1>3, PortWithin, WithinSubset
  <2>4. Within(PortFindings(site) \cup KnownAt(Q), S)
    BY <2>2, <2>3, WithinUnion
  <2> QED
    BY <2>4, DraftsAre DEF Q
<1> QED
  BY <1>1, <1>2, <1>4, <1>5, <1>6, <1>7, <1>8, KindsAre DEF S

\* The category of a draft.
LEMMA CategoryWithin ==
  ASSUME NEW cs \in SUBSET DOMAIN AllSections, NEW D, Within(D, cs), NEW d \in D
  PROVE  CategoryOf[d[1]] \in cs
<1>1. PICK c \in cs : d[1] \in Listed(AllSections[c])
  BY DEF Within, RulesOf
<1> QED
  BY <1>1, CategoryIs

\* The severities of the catalog are severities a scan may give.
LEMMA CataloguedOK ==
  ASSUME NEW cs \in SUBSET DOMAIN AllSections, NEW D, Within(D, cs)
  PROVE  SeveritiesOK(D, Catalogued(D))
<1>1. \A d \in D : d[1] \in FindingRules \cup CloudRules
  BY AllRulesOf, SectionTables DEF Within, RulesOf
<1> QED
  BY <1>1, SeverityIs DEF SeveritiesOK, Catalogued

-----------------------------------------------------------------------------
\* A scan of the origins that answer sees all else of the site as it is.
LEMMA ReachedIs ==
  ASSUME NEW s, SiteOK(s), NEW origins \in SUBSET Origins(s)
  PROVE  /\ SiteOK(Reached(s, origins))
         /\ \A x \in SiteFields \ {"https"} : Reached(s, origins)[x] = s[x]
<1>1. CASE origins = Origins(s)
  BY <1>1 DEF Reached
<1>2. CASE origins # Origins(s)
  <2> DEFINE v == IF "https" \in origins THEN "forced" ELSE "none"
  <2>1. Reached(s, origins) = [s EXCEPT !.https = v]
    BY <1>2 DEF Reached
  <2>2. v \in {"none", "beside", "forced"}
    OBVIOUS
  <2> HIDE DEF v
  <2>3. /\ DOMAIN Reached(s, origins) = DOMAIN s
        /\ \A x \in DOMAIN s : Reached(s, origins)[x] = IF x = "https" THEN v ELSE s[x]
        /\ Reached(s, origins) = [x \in DOMAIN s |-> Reached(s, origins)[x]]
    BY <2>1 DEF SiteOK
  <2>4. \A x \in DOMAIN s : Observable(x, Reached(s, origins)[x])
    BY <2>2, <2>3 DEF SiteOK, ObservableAll, Observable
  <2>5. ObservableAll(Reached(s, origins))
    BY <2>3, <2>4 DEF ObservableAll
  <2> QED
    BY <2>3, <2>5 DEF SiteOK
<1> QED
  BY <1>1, <1>2

\* What a scan of fewer origins sees of the rest of the site.
LEMMA ReachedFields ==
  ASSUME NEW s, SiteOK(s), NEW origins \in SUBSET Origins(s)
  PROVE  LET seen == Reached(s, origins)
         IN /\ CmsFindings(seen) = CmsFindings(s)
            /\ SecurityTxtFindings(seen) = SecurityTxtFindings(s)
            /\ OpenApiFindings(seen) = OpenApiFindings(s)
            /\ seen.errorPage = s.errorPage
<1> DEFINE seen == Reached(s, origins)
<1>1. /\ seen.wpUsers = s.wpUsers /\ seen.xmlrpc = s.xmlrpc /\ seen.wpDebugLog = s.wpDebugLog
      /\ seen.graphql = s.graphql /\ seen.securityTxt = s.securityTxt /\ seen.api = s.api
      /\ seen.apiInternalHost = s.apiInternalHost /\ seen.apiOpen = s.apiOpen
      /\ seen.apiQuerySecrets = s.apiQuerySecrets /\ seen.errorPage = s.errorPage
  BY ReachedIs DEF SiteFields
<1> HIDE DEF seen
<1>2. CmsFindings(seen) = CmsFindings(s)
  BY <1>1, ZenonT(40) DEF CmsFindings
<1>3. SecurityTxtFindings(seen) = SecurityTxtFindings(s)
  BY <1>1, Zenon DEF SecurityTxtFindings
<1>4. OpenApiFindings(seen) = OpenApiFindings(s)
  BY <1>1, Zenon DEF OpenApiFindings, SpecificationFindings
<1> QED
  BY <1>1, <1>2, <1>3, <1>4 DEF seen

-----------------------------------------------------------------------------
\* What every scan and every audit has in common, in the terms that the invariants need:
\* its drafts are about its side; those of a category that stays fresh are in the world;
\* and those that the world has in a category it looked at completely are among its drafts.
SameDraft(d, e) == d[1] = e[1] /\ (d[2] = e[2] \/ (d[2][1] = "error page" /\ e[2][1] = "error page"))

InTheWorld(asset, drafts) ==
  \A d \in drafts : CategoryOf[d[1]] \in fresh' =>
    \E kind \in Kinds, token \in 0 .. scans + 1 : AssetOf(kind) = asset /\ d \in Drafts(kind, token)

AllSeen(asset, drafts, whole) ==
  \A kind \in Kinds : \A d \in Drafts(kind, 0) : CategoryOf[d[1]] \in Owned(kind) \cap whole =>
    AssetOf(kind) = asset /\ \E e \in drafts : SameDraft(e, d)

GoodScan(asset, cs, drafts, severity, resolved, owned, whole) ==
  /\ cs \subseteq CategoriesFor(asset) /\ owned \subseteq CategoriesFor(asset)
  /\ Within(drafts, cs) /\ SeveritiesOK(drafts, severity)
  /\ resolved \subseteq owned /\ whole \subseteq resolved
  /\ open' = Sync(asset, drafts, severity, resolved)
  /\ scanned' = scanned \cup {asset} /\ fresh' = (fresh \ owned) \cup whole
  /\ scans' = scans + 1 /\ UNCHANGED <<world, changes, catalog>>
  /\ cached' \in [DOMAIN Vulnerabilities -> {"none", "current", "old"}]
  /\ InTheWorld(asset, drafts) /\ AllSeen(asset, drafts, whole)

IsScan ==
  \E asset \in Assets : \E cs, drafts, severity, resolved, owned, whole :
    GoodScan(asset, cs, drafts, severity, resolved, owned, whole)

\* A scan of the site whose drafts have the severities of the catalog.
LEMMA SiteScan ==
  ASSUME PostureInv, NEW kind \in DOMAIN Categories, NEW cs \in SUBSET SiteCategories,
         NEW drafts, Within(drafts, cs), NEW severity, SeveritiesOK(drafts, severity),
         NEW resolved, resolved \subseteq Categories[kind], NEW whole, whole \subseteq resolved,
         Scan(kind, drafts, severity, resolved, whole), catalog' = catalog,
         cached' \in [DOMAIN Vulnerabilities -> {"none", "current", "old"}],
         InTheWorld("site", drafts), AllSeen("site", drafts, whole)
  PROVE  IsScan
<1>1. Categories[kind] \subseteq SiteCategories
  BY KindsAre, SectionTables
<1>2. CategoriesFor("site") = SiteCategories /\ "site" \in Assets
  BY DEF CategoriesFor, Assets
<1>3. /\ open' = Sync("site", drafts, severity, resolved)
      /\ scanned' = scanned \cup {"site"} /\ fresh' = (fresh \ Categories[kind]) \cup whole
      /\ scans' = scans + 1 /\ UNCHANGED <<world, changes, catalog>>
  BY DEF Scan
<1>4. GoodScan("site", cs, drafts, severity, resolved, Categories[kind], whole)
  BY <1>1, <1>2, <1>3 DEF GoodScan
<1> QED
  BY <1>2, <1>4 DEF IsScan

\* A scan that looks at all that its categories are about. What it finds of the world is
\* what Drafts says.
LEMMA WholeDrafts ==
  ASSUME PostureInv, NEW kind \in DOMAIN Categories, NEW drafts,
         drafts = Drafts(kind, scans + 1), NEW whole, whole \subseteq Owned(kind),
         \A d \in Drafts(kind, 0) : \E e \in drafts : SameDraft(e, d)
  PROVE  InTheWorld("site", drafts) /\ AllSeen("site", drafts, whole)
<1>1. kind \in Kinds /\ AssetOf(kind) = "site"
  BY KindsAre
<1>2. scans + 1 \in 0 .. scans + 1
  BY DEF PostureInv
<1>3. InTheWorld("site", drafts)
  BY <1>1, <1>2 DEF InTheWorld
<1>4. \A k \in Kinds : Owned(k) \cap whole # {} => k = kind
  BY <1>1, OwnersAreUnique
<1>5. AllSeen("site", drafts, whole)
  BY <1>1, <1>4 DEF AllSeen
<1> QED
  BY <1>3, <1>5

\* The scans whose drafts do not depend on a token.
LEMMA SameWhole ==
  ASSUME NEW D, NEW E, D = E
  PROVE  \A d \in D : \E e \in E : SameDraft(e, d)
BY DEF SameDraft

\* SslCertScanner is such a scan.
LEMMA TlsIsScan ==
  ASSUME PostureInv, ScanTls
  PROVE  IsScan
<1> DEFINE drafts == SslFindings(site)  owned == Categories["SSL_CERT"]
<1>1. /\ Scan("SSL_CERT", drafts, Catalogued(drafts), owned, owned)
      /\ UNCHANGED <<cached, catalog>>
  BY DEF ScanTls
<1>2. Within(drafts, {"TLS_CERTIFICATE"}) /\ {"TLS_CERTIFICATE"} \in SUBSET SiteCategories
  BY SslWithin, SectionTables
<1>3. SeveritiesOK(drafts, Catalogued(drafts))
  BY <1>2, CataloguedOK, SectionTables
<1>4. drafts = Drafts("SSL_CERT", scans + 1) /\ drafts = Drafts("SSL_CERT", 0)
  BY DraftsAre
<1>5. "SSL_CERT" \in DOMAIN Categories /\ owned = Owned("SSL_CERT")
  BY KindsAre
<1> HIDE DEF drafts, owned
<1>6. InTheWorld("site", drafts) /\ AllSeen("site", drafts, owned)
  BY <1>4, <1>5, SameWhole, WholeDrafts
<1>7. cached' \in [DOMAIN Vulnerabilities -> {"none", "current", "old"}]
  BY <1>1 DEF PostureInv
<1> QED
  BY <1>1, <1>2, <1>3, <1>5, <1>6, <1>7, SiteScan DEF owned

\* SubdomainDiscoveryScanner is such a scan.
LEMMA SubdomainsIsScan ==
  ASSUME PostureInv, ScanSubdomains
  PROVE  IsScan
<1> DEFINE drafts == TakeoverFindings(site)  owned == Categories["SUBDOMAIN_DISCOVERY"]
<1>1. /\ Scan("SUBDOMAIN_DISCOVERY", drafts, Catalogued(drafts), owned, {})
      /\ UNCHANGED <<cached, catalog>>
  BY DEF ScanSubdomains
<1>2. Within(drafts, {"EXPOSED_SERVICE"}) /\ {"EXPOSED_SERVICE"} \in SUBSET SiteCategories
  BY TakeoverWithin, SectionTables
<1>3. SeveritiesOK(drafts, Catalogued(drafts))
  BY <1>2, CataloguedOK, SectionTables
<1>4. drafts = Drafts("SUBDOMAIN_DISCOVERY", scans + 1) /\ drafts = Drafts("SUBDOMAIN_DISCOVERY", 0)
  BY DraftsAre
<1>5. "SUBDOMAIN_DISCOVERY" \in DOMAIN Categories
  BY KindsAre
<1> HIDE DEF drafts, owned
<1>6. InTheWorld("site", drafts) /\ AllSeen("site", drafts, {})
  BY <1>4, <1>5, SameWhole, WholeDrafts
<1>7. cached' \in [DOMAIN Vulnerabilities -> {"none", "current", "old"}]
  BY <1>1 DEF PostureInv
<1> QED
  BY <1>1, <1>2, <1>3, <1>5, <1>6, <1>7, SiteScan DEF owned

\* The finding on an error page is the same whatever path was made up to provoke it.
LEMMA TokenDoesNotMatter ==
  ASSUME NEW s, NEW i, NEW j
  PROVE  /\ \A d \in At(DebugRules(s.errorPage), <<"error page", i>>) :
              \E e \in At(DebugRules(s.errorPage), <<"error page", j>>) : SameDraft(e, d)
         /\ \A d \in DebugFindings(s, i) : \E e \in DebugFindings(s, j) : SameDraft(e, d)
<1> DEFINE R == DebugRules(s.errorPage)
<1>1. \A d \in At(R, <<"error page", i>>) : \E e \in At(R, <<"error page", j>>) : SameDraft(e, d)
  <2> TAKE d \in At(R, <<"error page", i>>)
  <2>1. PICK r \in R : d = <<r, <<"error page", i>>>>
    BY DEF At
  <2>2. <<r, <<"error page", j>>>> \in At(R, <<"error page", j>>)
    BY DEF At
  <2>3. SameDraft(<<r, <<"error page", j>>>>, d)
    BY <2>1 DEF SameDraft
  <2> QED
    BY <2>2, <2>3
<1> DEFINE Q == At(DebugRules(s.queryPage) \ R, <<"query page">>)
<1>2. /\ DebugFindings(s, i) = At(R, <<"error page", i>>) \cup Q
      /\ DebugFindings(s, j) = At(R, <<"error page", j>>) \cup Q
  BY DEF DebugFindings
<1> HIDE DEF R, Q
<1>3. \A d \in Q : SameDraft(d, d)
  BY DEF SameDraft
<1>4. \A d \in DebugFindings(s, i) : \E e \in DebugFindings(s, j) : SameDraft(e, d)
  BY <1>1, <1>2, <1>3
<1> QED
  BY <1>1, <1>4 DEF R

\* A scan of the web, in all its parts.
LEMMA WebParts ==
  ASSUME NEW s, SiteOK(s), NEW origins \in SUBSET Origins(s), NEW n \in 0 .. 8, NEW token,
         NEW d \in BaseFindings(Reached(s, origins)) \cup DeepFindings(Reached(s, origins), n, token)
  PROVE  \/ CategoryOf[d[1]] = "HTTP_HEADERS"
         \/ d \in DeepFindings(s, DeepStages, token)
<1> DEFINE seen == Reached(s, origins)
<1>1. SiteOK(seen)
  BY ReachedIs
<1>2. \A D : Within(D, {"HTTP_HEADERS"}) => \A e \in D : CategoryOf[e[1]] = "HTTP_HEADERS"
  BY CategoryWithin, SectionTables
<1>3. CmsFindings(seen) \cup SecurityTxtFindings(seen) \cup OpenApiFindings(seen)
        \subseteq DeepFindings(s, DeepStages, token)
  BY ReachedFields, AllStages
<1> HIDE DEF seen
<1>4. DeepFindings(seen, n, token) \subseteq
        (CrawlFindings(seen) \cup MagecartFindings(seen)) \cup (ScriptFindings(seen) \cup CmsFindings(seen))
           \cup ((CorsWafFindings(seen) \cup SecurityTxtFindings(seen))
                 \cup (OpenApiFindings(seen) \cup DebugFindings(seen, token)))
  BY DeepStagesAre
<1>5. d \in BaseFindings(seen) \cup DeepFindings(seen, n, token)
  BY DEF seen
<1>6. /\ \A e \in BaseFindings(seen) : CategoryOf[e[1]] = "HTTP_HEADERS"
      /\ \A e \in CrawlFindings(seen) : CategoryOf[e[1]] = "HTTP_HEADERS"
      /\ \A e \in MagecartFindings(seen) : CategoryOf[e[1]] = "HTTP_HEADERS"
      /\ \A e \in ScriptFindings(seen) : CategoryOf[e[1]] = "HTTP_HEADERS"
      /\ \A e \in CorsWafFindings(seen) : CategoryOf[e[1]] = "HTTP_HEADERS"
      /\ \A e \in DebugFindings(seen, token) : CategoryOf[e[1]] = "HTTP_HEADERS"
  BY <1>1, <1>2, BaseWithin, StagesWithin
<1> QED
  BY <1>3, <1>4, <1>5, <1>6

\* Two scans of the web differ in the token of the error page alone.
LEMMA WebDraftsStay ==
  ASSUME NEW s, NEW i, NEW j
  PROVE  \A d \in BaseFindings(s) \cup DeepFindings(s, DeepStages, i) :
           \E e \in BaseFindings(s) \cup DeepFindings(s, DeepStages, j) : SameDraft(e, d)
<1>1. \A d : SameDraft(d, d)
  BY DEF SameDraft
<1>2. \A d \in DebugFindings(s, i) : \E e \in DebugFindings(s, j) : SameDraft(e, d)
  BY TokenDoesNotMatter
<1> QED
  BY <1>1, <1>2, AllStages

\* WebHeadersScanner is such a scan, of any origins and with any number of deep stages.
LEMMA WebIsScan ==
  ASSUME PostureInv, NEW origins \in SUBSET Origins(site), NEW n \in Stops, ScanWeb(origins, n)
  PROVE  IsScan
<1> DEFINE seen == Reached(site, origins)
           drafts == BaseFindings(seen) \cup DeepFindings(seen, n, scans + 1)
           owned == Categories["WEB_HEADERS"]
           whole == IF seen = site /\ n = DeepStages THEN owned ELSE {}
<1>1. /\ Scan("WEB_HEADERS", drafts, Catalogued(drafts), owned, whole)
      /\ UNCHANGED <<cached, catalog>>
  BY DEF ScanWeb
<1>2. n \in 0 .. 8 /\ SiteOK(site) /\ SiteOK(seen)
  BY PostureAssumption, ReachedIs DEF DeepStages, PostureInv
<1>3. Within(drafts, WebCategories) /\ WebCategories \in SUBSET SiteCategories
  <2>1. Within(BaseFindings(seen), WebCategories)
    BY <1>2, BaseWithin, WithinSubset DEF WebCategories
  <2>2. Within(DeepFindings(seen, n, scans + 1), WebCategories)
    BY <1>2, DeepWithin
  <2> QED
    BY <2>1, <2>2, WithinUnion, SectionTables DEF WebCategories
<1>4. SeveritiesOK(drafts, Catalogued(drafts))
  BY <1>3, CataloguedOK, SectionTables
<1>5. "WEB_HEADERS" \in DOMAIN Categories /\ owned = Owned("WEB_HEADERS") /\ owned = {"HTTP_HEADERS"}
      /\ "WEB_HEADERS" \in Kinds /\ AssetOf("WEB_HEADERS") = "site"
  BY KindsAre
<1>6. cached' \in [DOMAIN Vulnerabilities -> {"none", "current", "old"}]
  BY <1>1 DEF PostureInv
<1>7. InTheWorld("site", drafts) /\ AllSeen("site", drafts, whole)
  <2>1. CASE seen = site /\ n = DeepStages
    <3>1. drafts = Drafts("WEB_HEADERS", scans + 1)
      BY <2>1, DraftsAre
    <3>2. \A d \in Drafts("WEB_HEADERS", 0) : \E e \in drafts : SameDraft(e, d)
      <4>1. drafts = BaseFindings(site) \cup DeepFindings(site, DeepStages, scans + 1)
        BY <2>1
      <4> HIDE DEF drafts
      <4> QED
        BY <4>1, DraftsAre, WebDraftsStay
    <3> HIDE DEF drafts
    <3> QED
      BY <1>5, <3>1, <3>2, WholeDrafts
  <2>2. CASE ~(seen = site /\ n = DeepStages)
    <3>1. whole = {}
      BY <2>2
    <3>2. "HTTP_HEADERS" \notin fresh'
      BY <1>1, <1>5, <3>1 DEF Scan
    <3>3. \A d \in drafts : CategoryOf[d[1]] = "HTTP_HEADERS" \/ d \in Drafts("WEB_HEADERS", scans + 1)
      BY <1>2, WebParts, DraftsAre
    <3> HIDE DEF drafts, whole
    <3>4. scans + 1 \in 0 .. scans + 1
      BY DEF PostureInv
    <3> QED
      BY <1>5, <3>1, <3>2, <3>3, <3>4 DEF InTheWorld, AllSeen
  <2> QED
    BY <2>1, <2>2
<1>8. whole \subseteq owned
  OBVIOUS
<1> HIDE DEF drafts, owned, whole
<1> QED
  BY <1>1, <1>3, <1>4, <1>5, <1>6, <1>7, <1>8, SiteScan DEF owned

\* The scan of the paths.
LEMMA PathParts ==
  ASSUME NEW s, SiteOK(s), NEW origins \in SUBSET Origins(s), NEW token,
         NEW d \in PathFindings(Reached(s, origins), token)
  PROVE  CategoryOf[d[1]] = "SENSITIVE_PATH" \/ d \in PathFindings(s, token)
<1> DEFINE seen == Reached(s, origins)
<1>1. SiteOK(seen) /\ seen.errorPage = s.errorPage
  BY ReachedIs, ReachedFields
<1>2. \A D : Within(D, {"SENSITIVE_PATH"}) => \A e \in D : CategoryOf[e[1]] = "SENSITIVE_PATH"
  BY CategoryWithin, SectionTables
<1> HIDE DEF seen
<1>3. /\ \A e \in {<<PathRuleOf[k], <<k, Primary(seen)>>>> : k \in seen.paths} :
           CategoryOf[e[1]] = "SENSITIVE_PATH"
      /\ \A e \in At(When("API-GRAPHQL-INTROSPECTION", seen.graphql # "none"), <<"graphql">>) :
           CategoryOf[e[1]] = "SENSITIVE_PATH"
      /\ \A e \in At(When("API-SWAGGER-EXPOSED", seen.api \in {"page", "specification"}), <<"api">>) :
           CategoryOf[e[1]] = "SENSITIVE_PATH"
      /\ \A e \in (IF seen.api = "specification" THEN SpecificationFindings(seen) ELSE {}) :
           CategoryOf[e[1]] = "SENSITIVE_PATH"
  BY <1>1, <1>2, PathRulesAre
<1>4. d \in PathFindings(seen, token)
  BY DEF seen
<1>5. \/ d \in At(DebugRules(seen.errorPage), <<"error page", token>>)
      \/ d \in {<<PathRuleOf[k], <<k, Primary(seen)>>>> : k \in seen.paths}
      \/ d \in At(When("API-GRAPHQL-INTROSPECTION", seen.graphql # "none"), <<"graphql">>)
      \/ d \in At(When("API-SWAGGER-EXPOSED", seen.api \in {"page", "specification"}), <<"api">>)
      \/ d \in (IF seen.api = "specification" THEN SpecificationFindings(seen) ELSE {})
  BY <1>4, Zenon DEF PathFindings
<1>6. At(DebugRules(s.errorPage), <<"error page", token>>) \subseteq PathFindings(s, token)
  BY DEF PathFindings
<1> QED
  BY <1>1, <1>3, <1>5, <1>6

\* SensitivePathsScanner is such a scan, of any origins.
LEMMA PathsIsScan ==
  ASSUME PostureInv, NEW origins \in SUBSET Origins(site), ScanPaths(origins)
  PROVE  IsScan
<1> DEFINE seen == Reached(site, origins)
           drafts == PathFindings(seen, scans + 1)
           owned == Categories["SENSITIVE_PATHS"]
           whole == IF seen = site THEN owned ELSE {}
<1>1. /\ Scan("SENSITIVE_PATHS", drafts, Catalogued(drafts), owned, whole)
      /\ UNCHANGED <<cached, catalog>>
  BY DEF ScanPaths
<1>2. SiteOK(site) /\ SiteOK(seen)
  BY ReachedIs DEF PostureInv
<1>3. Within(drafts, WebCategories) /\ WebCategories \in SUBSET SiteCategories
  BY <1>2, PathWithin, SectionTables DEF WebCategories
<1>4. SeveritiesOK(drafts, Catalogued(drafts))
  BY <1>3, CataloguedOK, SectionTables
<1>5. "SENSITIVE_PATHS" \in DOMAIN Categories /\ owned = Owned("SENSITIVE_PATHS")
      /\ owned = {"SENSITIVE_PATH"} /\ "SENSITIVE_PATHS" \in Kinds /\ AssetOf("SENSITIVE_PATHS") = "site"
  BY KindsAre
<1>6. cached' \in [DOMAIN Vulnerabilities -> {"none", "current", "old"}]
  BY <1>1 DEF PostureInv
<1>7. InTheWorld("site", drafts) /\ AllSeen("site", drafts, whole)
  <2>1. CASE seen = site
    <3>1. drafts = Drafts("SENSITIVE_PATHS", scans + 1)
      BY <2>1, DraftsAre
    <3>2. \A d \in Drafts("SENSITIVE_PATHS", 0) : \E e \in drafts : SameDraft(e, d)
      <4> DEFINE A(t) == At(DebugRules(site.errorPage), <<"error page", t>>)
                 B == {<<PathRuleOf[k], <<k, Primary(site)>>>> : k \in site.paths}
                      \cup At(When("API-GRAPHQL-INTROSPECTION", site.graphql # "none"), <<"graphql">>)
                      \cup At(When("API-SWAGGER-EXPOSED", site.api \in {"page", "specification"}), <<"api">>)
                      \cup (IF site.api = "specification" THEN SpecificationFindings(site) ELSE {})
      <4>1. \A d : SameDraft(d, d)
        BY DEF SameDraft
      <4>2. \A d \in A(0) : \E e \in A(scans + 1) : SameDraft(e, d)
        BY TokenDoesNotMatter
      <4>3. \A t : PathFindings(site, t) = A(t) \cup B
        BY DEF PathFindings
      <4> HIDE DEF A, B
      <4>4. Drafts("SENSITIVE_PATHS", 0) = A(0) \cup B /\ drafts = A(scans + 1) \cup B
        BY <2>1, <4>3, DraftsAre
      <4> QED
        BY <4>1, <4>2, <4>4
    <3> HIDE DEF drafts
    <3> QED
      BY <1>5, <3>1, <3>2, WholeDrafts
  <2>2. CASE seen # site
    <3>1. whole = {}
      BY <2>2
    <3>2. "SENSITIVE_PATH" \notin fresh'
      BY <1>1, <1>5, <3>1 DEF Scan
    <3>3. \A d \in drafts : CategoryOf[d[1]] = "SENSITIVE_PATH" \/ d \in Drafts("SENSITIVE_PATHS", scans + 1)
      BY <1>2, PathParts, DraftsAre
    <3> HIDE DEF drafts, whole
    <3>4. scans + 1 \in 0 .. scans + 1
      BY DEF PostureInv
    <3> QED
      BY <1>5, <3>1, <3>2, <3>3, <3>4 DEF InTheWorld, AllSeen
  <2> QED
    BY <2>1, <2>2
<1>8. whole \subseteq owned
  OBVIOUS
<1> HIDE DEF drafts, owned, whole
<1> QED
  BY <1>1, <1>3, <1>4, <1>5, <1>6, <1>7, <1>8, SiteScan DEF owned

\* What a scan knows of a vulnerability (how likely it is exploited, and whether it is)
\* says nothing of the versions that have it.
LEMMA KnownMatches ==
  ASSUME NEW x \in DOMAIN Vulnerabilities, NEW epss, NEW kev, NEW v
  PROVE  MatchCves(Known(Vulnerabilities[x], epss, kev), v) # {} <=> MatchCves(Vulnerabilities[x], v) # {}
<1> DEFINE E == Vulnerabilities[x]
           K(e) == [e EXCEPT !.epss = IF epss THEN @ ELSE 0, !.kev = @ \/ e.id \in kev]
<1>1. Known(E, epss, kev) = {K(e) : e \in E}
  BY DEF Known
<1>2. \A e \in E : K(e).ranges = e.ranges
  <2>1. \A e \in E : "ranges" \in DOMAIN e /\ e = [y \in DOMAIN e |-> e[y]]
    BY PostureAssumption DEF EntryFields
  <2> QED
    BY <2>1
<1> HIDE DEF E, K
<1>3. MatchCves(Known(E, epss, kev), v) # {} <=>
        \E e \in E : \E r \in K(e).ranges : VersionMatches(v, r)
  BY <1>1 DEF MatchCves
<1>4. MatchCves(E, v) # {} <=> \E e \in E : \E r \in e.ranges : VersionMatches(v, r)
  BY DEF MatchCves
<1>5. MatchCves(Known(E, epss, kev), v) # {} <=> MatchCves(E, v) # {}
  BY <1>2, <1>3, <1>4
<1> QED
  BY <1>5 DEF E

\* PortScanScanner is such a scan, whichever services answer.
LEMMA PortsIsScan ==
  ASSUME PostureInv, NEW answers, NEW epssAnswers, ScanPorts(answers, epssAnswers)
  PROVE  IsScan
<1> DEFINE ports == OpenPorts(site)
           from == [x \in DOMAIN cached |-> Origin(cached[x], x \in answers)]
           found == {x \in DOMAIN cached : from[x] # "none"}
           entries == [x \in found |-> Known(Vulnerabilities[x], epssAnswers, catalog)]
           cves == CveFindings(ports, found, MaxProducts, entries)
           current == {x \in found : from[x] # "stale-cache"}
           complete == Complete(ports, current, MaxProducts)
           owned == Categories["PORT_SCAN"]
           resolved == owned \ (IF complete THEN {} ELSE {"VULNERABLE_SOFTWARE"})
           services == PortFindings(site)
           known == {<<c.rule, c.at>> : c \in cves}
           M == {q \in Detected(ports) : /\ q.product \in LookedUp(ports, MaxProducts) \cap found
                                         /\ MatchCves(entries[q.product], q.version) # {}}
           Q == {q \in Detected(ports) : MatchCves(Vulnerabilities[q.product], q.version) # {}}
           severity == Catalogued(services)
                         ++ [d \in known |-> (CHOOSE c \in cves : c.at = d[2]).severity]
<1>1. /\ Scan("PORT_SCAN", services \cup known, severity, resolved, resolved)
      /\ cached' = [x \in DOMAIN cached |->
                      IF x \in LookedUp(ports, MaxProducts) /\ from[x] = "nvd"
                      THEN "current" ELSE cached[x]]
      /\ catalog' = catalog
  BY Zenon DEF ScanPorts
<1>2. cached' \in [DOMAIN Vulnerabilities -> {"none", "current", "old"}]
  <2> HIDE DEF from
  <2> QED
    BY <1>1 DEF PostureInv
<1>3. /\ known = KnownAt(M)
      /\ \A c \in cves : c.severity \in Severities
      /\ \A d \in known : d[1] = "VULN-KNOWN-CVE" /\ \E c \in cves : c.at = d[2]
  <2> DEFINE C(p) == [rule |-> "VULN-KNOWN-CVE", at |-> <<"port", p.port>>,
                      severity |-> FindingSeverity(MatchCves(entries[p.product], p.version), p.distro)]
  <2>1. cves = {C(p) : p \in M}
    BY Zenon DEF CveFindings
  <2>2. \A p : /\ C(p).rule = "VULN-KNOWN-CVE" /\ C(p).at = <<"port", p.port>>
              /\ C(p).severity \in Severities
    BY FindingSeverityIs
  <2> HIDE DEF C, cves, M
  <2>3. \A c \in cves : c.severity \in Severities
    BY <2>1, <2>2
  <2>4. known = {<<C(p).rule, C(p).at>> : p \in M}
    BY <2>1
  <2>5. known = KnownAt(M)
    <3>1. \A p \in M : <<C(p).rule, C(p).at>> = <<"VULN-KNOWN-CVE", <<"port", p.port>>>>
      BY <2>2
    <3> QED
      BY <2>4, <3>1 DEF KnownAt
  <2>6. \A d \in known : d[1] = "VULN-KNOWN-CVE" /\ \E c \in cves : c.at = d[2]
    BY <2>1, <2>2
  <2> QED
    BY <2>3, <2>5, <2>6
<1>4. \A x \in found : x \in DOMAIN Vulnerabilities /\ entries[x] = Known(Vulnerabilities[x], epssAnswers, catalog)
  BY DEF PostureInv
<1>5. M \subseteq Q
  <2> SUFFICES ASSUME NEW q \in M PROVE q \in Q
    OBVIOUS
  <2>1. /\ q \in Detected(ports) /\ q.product \in found
        /\ MatchCves(entries[q.product], q.version) # {}
    OBVIOUS
  <2> HIDE DEF found, entries, M
  <2>2. MatchCves(Vulnerabilities[q.product], q.version) # {}
    BY <1>4, <2>1, KnownMatches
  <2> QED
    BY <2>1, <2>2
<1>6. complete => Q \subseteq M
  <2> SUFFICES ASSUME complete, NEW q \in Q PROVE q \in M
    OBVIOUS
  <2>1. q \in Detected(ports) /\ MatchCves(Vulnerabilities[q.product], q.version) # {}
    OBVIOUS
  <2>2. q.product \in Products(ports)
    BY <2>1 DEF Products
  <2>3. q.product \in LookedUp(ports, MaxProducts) /\ q.product \in current
    BY <2>2 DEF Complete
  <2>4. q.product \in found
    BY <2>3
  <2> HIDE DEF found, entries, current
  <2>5. MatchCves(entries[q.product], q.version) # {}
    BY <1>4, <2>1, <2>4, KnownMatches
  <2> QED
    BY <2>1, <2>3, <2>4, <2>5
<1>7. /\ Within(services, {"EXPOSED_SERVICE"}) /\ Within(known, {"VULNERABLE_SOFTWARE"})
      /\ IsFiniteSet(ports)
  <2>1. IsFiniteSet(ports) /\ Within(services, {"EXPOSED_SERVICE"})
    BY PortWithin DEF PostureInv
  <2>2. IsFiniteSet(M)
    BY <2>1, SubsetIsFinite DEF Detected
  <2> HIDE DEF M, known, services, ports
  <2> QED
    BY <1>3, <2>1, <2>2, KnownWithin
<1>9. SeveritiesOK(services \cup known, severity)
  <2>1. \A d \in services : SeverityOf[d[1]] \in Severities
    BY <1>7, CataloguedOK, SectionTables DEF SeveritiesOK, Catalogued
  <2> HIDE DEF services, known, cves
  <2>3. \A d \in services : severity[d] = SeverityOf[d[1]]
    BY DEF Catalogued, ++
  <2>4. \A d \in known \ services : severity[d] = (CHOOSE c \in cves : c.at = d[2]).severity
    BY DEF Catalogued, ++
  <2>5. \A d \in known \ services : severity[d] \in Severities
    BY <1>3, <2>4
  <2> HIDE DEF severity
  <2> QED
    BY <1>3, <2>1, <2>3, <2>5 DEF SeveritiesOK
<1>10. /\ "PORT_SCAN" \in DOMAIN Categories /\ owned = Owned("PORT_SCAN") /\ "PORT_SCAN" \in Kinds
       /\ owned = {"EXPOSED_SERVICE", "VULNERABLE_SOFTWARE"} /\ AssetOf("PORT_SCAN") = "site"
       /\ owned \in SUBSET SiteCategories
  BY KindsAre, SectionTables
<1>11. resolved \subseteq owned /\ (~complete => "VULNERABLE_SOFTWARE" \notin resolved)
  OBVIOUS
<1> HIDE DEF complete, resolved, owned, found, entries, cves, current, from, severity, known, services
<1>12. Within(services \cup known, owned)
  BY <1>7, <1>10, WithinSubset, WithinUnion
<1>13. \A t : Drafts("PORT_SCAN", t) = services \cup KnownAt(Q)
  BY DraftsAre DEF services
<1>14. InTheWorld("site", services \cup known)
  <2>1. services \cup known \subseteq Drafts("PORT_SCAN", scans + 1)
    BY <1>3, <1>5, <1>13 DEF KnownAt
  <2>2. scans + 1 \in 0 .. scans + 1
    BY DEF PostureInv
  <2> QED
    BY <1>10, <2>1, <2>2 DEF InTheWorld
<1>15. AllSeen("site", services \cup known, resolved)
  <2> SUFFICES ASSUME NEW kind \in Kinds, NEW d \in Drafts(kind, 0),
                      CategoryOf[d[1]] \in Owned(kind) \cap resolved
               PROVE  AssetOf(kind) = "site" /\ \E e \in services \cup known : SameDraft(e, d)
    BY DEF AllSeen
  <2>1. kind = "PORT_SCAN"
    BY <1>10, <1>11, OwnersAreUnique
  <2>2. d \in services \cup KnownAt(Q)
    BY <1>13, <2>1
  <2>3. d \in KnownAt(Q) => CategoryOf[d[1]] = "VULNERABLE_SOFTWARE"
    <3>1. IsFiniteSet(Q)
      BY <1>7, SubsetIsFinite DEF Detected
    <3> HIDE DEF Q
    <3> QED
      BY <3>1, KnownWithin, CategoryWithin, SectionTables
  <2>4. d \in services \cup known
    <3>1. CASE complete
      <4>1. KnownAt(Q) \subseteq known
        BY <1>3, <1>6, <3>1 DEF KnownAt
      <4> QED
        BY <2>2, <4>1
    <3>2. CASE ~complete
      BY <1>11, <2>2, <2>3, <3>2
    <3> QED
      BY <3>1, <3>2
  <2> QED
    BY <1>10, <2>1, <2>4 DEF SameDraft
<1> HIDE DEF M, Q
<1>16. Scan("PORT_SCAN", services \cup known, severity, resolved, resolved) /\ catalog' = catalog
  BY <1>1
<1> QED
  BY <1>2, <1>9, <1>10, <1>11, <1>12, <1>14, <1>15, <1>16, SiteScan DEF owned

\* EmailSecurityScanner is such a scan, whichever lookups fail.
LEMMA MailIsScan ==
  ASSUME PostureInv, NEW failed, ScanMail(failed)
  PROVE  IsScan
<1> DEFINE drafts == MailFindings(mail, failed)
           severity == [d \in drafts |-> IF MailSeverity(mail, d) = "default"
                                         THEN SeverityOf[d[1]] ELSE MailSeverity(mail, d)]
           owned == Categories["EMAIL_SECURITY"]
           whole == IF failed = {} THEN owned ELSE {}
<1>1. /\ Scan("EMAIL_SECURITY", drafts, severity, owned, whole)
      /\ UNCHANGED <<cached, catalog>>
  BY Zenon DEF ScanMail
<1>2. Within(drafts, {"EMAIL_SECURITY"}) /\ {"EMAIL_SECURITY"} \in SUBSET SiteCategories
  BY MailWithin, SectionTables DEF PostureInv
<1>3. SeveritiesOK(drafts, severity)
  <2>1. \A d \in drafts : SeverityOf[d[1]] \in Severities
    BY <1>2, CataloguedOK, SectionTables DEF SeveritiesOK, Catalogued
  <2>2. \A d : MailSeverity(mail, d) \in {"LOW", "default"}
    BY DEF MailSeverity
  <2>3. \A d \in drafts : severity[d] \in {SeverityOf[d[1]], "LOW"}
    BY <2>2
  <2> HIDE DEF drafts, severity
  <2> QED
    BY <2>1, <2>3 DEF SeveritiesOK, Severities
<1>4. /\ "EMAIL_SECURITY" \in DOMAIN Categories /\ owned = Owned("EMAIL_SECURITY")
      /\ owned = {"EMAIL_SECURITY"}
  BY KindsAre
<1>5. cached' \in [DOMAIN Vulnerabilities -> {"none", "current", "old"}]
  BY <1>1 DEF PostureInv
<1>6. InTheWorld("site", drafts) /\ AllSeen("site", drafts, whole)
  <2>1. CASE failed = {}
    <3>1. drafts = Drafts("EMAIL_SECURITY", scans + 1) /\ drafts = Drafts("EMAIL_SECURITY", 0)
      BY <2>1, DraftsAre
    <3> HIDE DEF drafts
    <3>2. whole \subseteq Owned("EMAIL_SECURITY")
      BY <1>4
    <3> HIDE DEF whole
    <3> QED
      BY <1>4, <3>1, <3>2, SameWhole, WholeDrafts
  <2>2. CASE failed # {}
    <3>1. whole = {} /\ "EMAIL_SECURITY" \notin fresh'
      BY <1>1, <1>4, <2>2 DEF Scan
    <3>2. \A d \in drafts : CategoryOf[d[1]] = "EMAIL_SECURITY"
      BY <1>2, CategoryWithin, SectionTables
    <3> HIDE DEF drafts, whole
    <3> QED
      BY <3>1, <3>2 DEF InTheWorld, AllSeen
  <2> QED
    BY <2>1, <2>2
<1>7. whole \subseteq owned
  OBVIOUS
<1> HIDE DEF drafts, owned, whole, severity
<1> QED
  BY <1>1, <1>2, <1>3, <1>4, <1>5, <1>6, <1>7, SiteScan DEF owned

\* The audit, which is of the other asset.
LEMMA AuditIsScan ==
  ASSUME PostureInv, NEW failed, Audit(failed)
  PROVE  IsScan
<1> DEFINE drafts == AuditFindings(cloud, failed)
           whole == IF failed = {} THEN CloudCategories ELSE {}
<1>1. /\ open' = Sync("cloud", drafts, Catalogued(drafts), CloudCategories)
      /\ scanned' = scanned \cup {"cloud"} /\ fresh' = (fresh \ CloudCategories) \cup whole
      /\ scans' = scans + 1 /\ UNCHANGED <<world, changes, cached, catalog>>
  BY DEF Audit, CloudCategories
<1>2. Within(drafts, CloudCategories) /\ CloudCategories \in SUBSET DOMAIN AllSections
  BY AuditWithin, SectionTables
<1>3. SeveritiesOK(drafts, Catalogued(drafts))
  BY <1>2, CataloguedOK
<1>4. CategoriesFor("cloud") = CloudCategories /\ "cloud" \in Assets
  BY DEF CategoriesFor, Assets
<1>5. "audit" \in Kinds /\ AssetOf("audit") = "cloud" /\ Owned("audit") = CloudCategories
  BY KindsAre
<1>6. cached' \in [DOMAIN Vulnerabilities -> {"none", "current", "old"}]
  BY <1>1 DEF PostureInv
<1>7. InTheWorld("cloud", drafts) /\ AllSeen("cloud", drafts, whole)
  <2>1. CASE failed = {}
    <3>1. \A t : drafts = Drafts("audit", t)
      BY <2>1, DraftsAre
    <3>2. scans + 1 \in 0 .. scans + 1
      BY DEF PostureInv
    <3>3. whole = CloudCategories
      BY <2>1
    <3> HIDE DEF drafts, whole
    <3>4. InTheWorld("cloud", drafts)
      BY <1>5, <3>1, <3>2 DEF InTheWorld
    <3>5. AllSeen("cloud", drafts, whole)
      BY <1>5, <3>1, <3>3, OwnersAreUnique DEF AllSeen, SameDraft
    <3> QED
      BY <3>4, <3>5
  <2>2. CASE failed # {}
    <3>1. whole = {} /\ fresh' \cap CloudCategories = {}
      BY <1>1, <2>2
    <3>2. \A d \in drafts : CategoryOf[d[1]] \in CloudCategories
      BY <1>2, CategoryWithin
    <3> HIDE DEF drafts, whole
    <3> QED
      BY <3>1, <3>2 DEF InTheWorld, AllSeen
  <2> QED
    BY <2>1, <2>2
<1>8. whole \subseteq CloudCategories
  OBVIOUS
<1> HIDE DEF drafts, whole
<1>9. GoodScan("cloud", CloudCategories, drafts, Catalogued(drafts), CloudCategories, CloudCategories, whole)
  BY <1>1, <1>2, <1>3, <1>4, <1>6, <1>7, <1>8 DEF GoodScan
<1> QED
  BY <1>4, <1>9 DEF IsScan

-----------------------------------------------------------------------------
\* What a step is, as far as the invariants can tell.
ReviewStep ==
  \E f \in open : /\ open' = (open \ {f}) \cup {[f EXCEPT !.status = "VERIFYING"]}
                  /\ UNCHANGED <<world, scanned, cached, catalog, fresh, changes, scans>>
QuietStep ==
  /\ UNCHANGED <<world, open, scanned, fresh, changes, scans>>
  /\ cached' \in [DOMAIN Vulnerabilities -> {"none", "current", "old"}]
  /\ catalog' \subseteq Exploited

\* Every step of the posture is one of six kinds.
LEMMA StepIs ==
  ASSUME PostureInv, [Next]_vars
  PROVE  IsScan \/ ReviewStep \/ QuietStep \/ ChangeSite \/ ChangeMail \/ ChangeCloud
<1>1. CASE WebNext
  <2>1. CASE \E origins \in SUBSET Origins(site) \ {{}}, n \in Stops : ScanWeb(origins, n)
    BY <2>1, WebIsScan
  <2>2. CASE \E origins \in SUBSET Origins(site) \ {{}} : ScanPaths(origins)
    BY <2>2, PathsIsScan
  <2> QED
    BY <1>1, <2>1, <2>2 DEF WebNext
<1>2. CASE HostNext
  <2>1. CASE ScanTls \/ ScanSubdomains
    BY <2>1, TlsIsScan, SubdomainsIsScan
  <2>2. CASE LoadCatalog
    BY <2>2 DEF LoadCatalog, QuietStep, PostureInv
  <2>3. CASE \E answers \in SUBSET DOMAIN cached, epss \in BOOLEAN : ScanPorts(answers, epss)
    BY <2>3, PortsIsScan
  <2>4. CASE \E x \in DOMAIN cached : CopyGetsOld(x)
    BY <2>4 DEF CopyGetsOld, QuietStep, PostureInv
  <2> QED
    BY <1>2, <2>1, <2>2, <2>3, <2>4 DEF HostNext
<1>3. CASE MailNext
  BY <1>3, MailIsScan DEF MailNext
<1>4. CASE CloudNext
  BY <1>4, AuditIsScan DEF CloudNext
<1>5. CASE ReviewNext
  BY <1>5 DEF ReviewNext, Verify, ReviewStep
<1>6. CASE UNCHANGED vars
  BY <1>6 DEF vars, QuietStep, PostureInv
<1> QED
  BY <1>1, <1>2, <1>3, <1>4, <1>5, <1>6 DEF Next

\* A field that changes takes a value that can be observed.
LEMMA ChangeIsObservable ==
  ASSUME NEW o, ObservableAll(o), NEW levels,
         \A x \in DOMAIN levels : \A v \in levels[x] : Observable(x, v),
         NEW n \in OneChange(o, levels)
  PROVE  ObservableAll(n) /\ DOMAIN n = DOMAIN o
<1>0. PICK x \in DOMAIN levels : \E v \in levels[x] : n = [o EXCEPT ![x] = v]
  BY DEF OneChange
<1>1. PICK v \in levels[x] : n = [o EXCEPT ![x] = v]
  BY <1>0
<1>2. /\ DOMAIN n = DOMAIN o /\ n = [y \in DOMAIN n |-> n[y]]
      /\ \A y \in DOMAIN o : n[y] = IF y = x THEN v ELSE o[y]
  BY <1>1 DEF ObservableAll
<1>3. \A y \in DOMAIN n : Observable(y, n[y])
  BY <1>1, <1>2 DEF ObservableAll
<1> QED
  BY <1>2, <1>3 DEF ObservableAll

\* A site that changes is still one that can be observed.
LEMMA ChangeKeepsSite ==
  ASSUME PostureInv, ChangeSite
  PROVE  SiteOK(site')
BY ChangeIsObservable, PostureAssumption DEF PostureInv, SiteOK, ChangeSite

\* So is a mail domain.
LEMMA ChangeKeepsMail ==
  ASSUME PostureInv, ChangeMail
  PROVE  MailOK(mail')
BY ChangeIsObservable, PostureAssumption DEF PostureInv, MailOK, ChangeMail

\* The invariant holds at the start ...
LEMMA PostureInit == Init => PostureInv
<1> SUFFICES ASSUME Init PROVE PostureInv
  OBVIOUS
<1>1. SiteOK(site) /\ MailOK(mail)
  BY PostureAssumption DEF Init, SiteOK, MailOK
<1>2. RowsOK(open, scanned) /\ scanned \subseteq Assets
  BY FS_EmptySet DEF Init, RowsOK
<1>3. cached \in [DOMAIN Vulnerabilities -> {"none", "current", "old"}] /\ catalog \subseteq Exploited
      /\ scans \in Nat /\ changes \in Nat
  BY DEF Init
<1> QED
  BY <1>1, <1>2, <1>3 DEF PostureInv

\* The review changes the status of a row and nothing that tells rows apart.
LEMMA ReviewRows ==
  ASSUME PostureInv, ReviewStep
  PROVE  /\ RowsOK(open', scanned)
         /\ \A g \in open' : \E h \in open : h.asset = g.asset /\ h.rule = g.rule /\ h.at = g.at
         /\ \A h \in open : \E g \in open' : h.asset = g.asset /\ h.rule = g.rule /\ h.at = g.at
<1>1. PICK f \in open : open' = (open \ {f}) \cup {[f EXCEPT !.status = "VERIFYING"]}
  BY DEF ReviewStep
<1> DEFINE v == [f EXCEPT !.status = "VERIFYING"]
<1>2. RowOK(f) /\ f.asset \in scanned
  BY <1>1 DEF PostureInv, RowsOK
<1>3. v = [asset |-> f.asset, rule |-> f.rule, at |-> f.at, severity |-> f.severity,
            status |-> "VERIFYING"]
  BY <1>2 DEF RowOK
<1>4. RowOK(v) /\ v.asset = f.asset /\ v.rule = f.rule /\ v.at = f.at
  BY <1>2, <1>3 DEF RowOK
<1> HIDE DEF v
<1>5. open' = (open \ {f}) \cup {v}
  BY <1>1 DEF v
<1>6. IsFiniteSet(open')
  <2>1. IsFiniteSet(open \ {f}) /\ IsFiniteSet({v})
    BY SubsetIsFinite, FewAreFinite DEF PostureInv, RowsOK
  <2> QED
    BY <1>5, <2>1, UnionIsFinite
<1>7. \A g \in open' : RowOK(g) /\ g.asset \in scanned
  BY <1>2, <1>4, <1>5 DEF PostureInv, RowsOK
<1>8. ASSUME NEW g \in open', NEW h \in open', <<g.asset, g.rule, g.at>> = <<h.asset, h.rule, h.at>>
      PROVE  g = h
  <2>1. \A x, y \in open : <<x.asset, x.rule, x.at>> = <<y.asset, y.rule, y.at>> => x = y
    BY DEF PostureInv, RowsOK
  <2> QED
    BY <1>1, <1>4, <1>5, <1>8, <2>1
<1> QED
  BY <1>4, <1>5, <1>6, <1>7, <1>8 DEF RowsOK

\* ... and every step keeps it ...
LEMMA PostureStep == PostureInv /\ [Next]_vars => PostureInv'
<1> SUFFICES ASSUME PostureInv, [Next]_vars PROVE PostureInv'
  OBVIOUS
<1>1. CASE IsScan
  <2>0. PICK asset \in Assets : \E cs, drafts, severity, resolved, owned, whole :
          GoodScan(asset, cs, drafts, severity, resolved, owned, whole)
    BY <1>1 DEF IsScan
  <2>1. PICK cs, drafts, severity, resolved, owned, whole :
          GoodScan(asset, cs, drafts, severity, resolved, owned, whole)
    BY <2>0
  <2>2. RowsOK(open', scanned')
    BY <2>1, SyncKeepsRows DEF GoodScan, PostureInv
  <2> QED
    BY <2>1, <2>2 DEF GoodScan, PostureInv, world
<1>2. CASE ReviewStep
  BY <1>2, ReviewRows DEF ReviewStep, PostureInv, world
<1>3. CASE QuietStep
  BY <1>3 DEF QuietStep, PostureInv, world
<1>4. CASE ChangeSite
  BY <1>4, ChangeKeepsSite DEF ChangeSite, Change, PostureInv
<1>5. CASE ChangeMail
  BY <1>5, ChangeKeepsMail DEF ChangeMail, Change, PostureInv
<1>6. CASE ChangeCloud
  BY <1>6 DEF ChangeCloud, Change, PostureInv
<1> QED
  BY <1>1, <1>2, <1>3, <1>4, <1>5, <1>6, StepIs

\* ... so it always holds.
LEMMA PostureInvariant == Spec => []PostureInv
BY PostureInit, PostureStep, PTL DEF Spec

-----------------------------------------------------------------------------
\* An open row is well formed, of an asset that was scanned, and one of its identity.
THEOREM PostureTypeCorrect == Spec => []TypeOK
<1>1. ASSUME PostureInv PROVE TypeOK
  <2>1. ASSUME NEW f \in open
        PROVE  [x \in {"asset", "rule", "severity", "status"} |-> f[x]] \in Finding
    <3>1. RowOK(f)
      BY <1>1 DEF PostureInv, RowsOK
    <3>2. f.rule \in FindingRules \cup CloudRules
      BY <3>1 DEF RowOK, RulesFor
    <3>3. [x \in {"asset", "rule", "severity", "status"} |-> f[x]]
            = [asset |-> f.asset, rule |-> f.rule, severity |-> f.severity, status |-> f.status]
      OBVIOUS
    <3> QED
      BY <3>1, <3>2, <3>3 DEF RowOK, Finding
  <2>2. \A f \in open : f.asset \in scanned /\
          \A g \in open : <<f.asset, f.rule, f.at>> = <<g.asset, g.rule, g.at>> => f = g
    BY <1>1 DEF PostureInv, RowsOK
  <2> QED
    BY <1>1, <2>1, <2>2 DEF TypeOK, PostureInv
<1> QED
  BY <1>1, PostureInvariant, PTL

-----------------------------------------------------------------------------
\* What a kind of scan would find depends on its part of the world only.
LEMMA DraftsStay ==
  ASSUME NEW kind \in Kinds, NEW token,
         kind \in DOMAIN Categories \ {"EMAIL_SECURITY"} => site' = site,
         kind = "EMAIL_SECURITY" => mail' = mail,
         kind = "audit" => cloud' = cloud
  PROVE  Drafts(kind, token)' = Drafts(kind, token)
<1>1. CASE kind = "EMAIL_SECURITY"
  BY <1>1 DEF Drafts
<1>2. CASE kind = "audit"
  BY <1>2 DEF Drafts
<1>3. CASE kind \in DOMAIN Categories \ {"EMAIL_SECURITY"}
  <2>1. site' = site
    BY <1>3
  <2>2. CASE kind = "WEB_HEADERS"
    BY <2>1, <2>2 DEF Drafts
  <2>3. CASE kind = "SENSITIVE_PATHS"
    BY <2>1, <2>3 DEF Drafts
  <2>4. CASE kind = "SSL_CERT"
    BY <2>1, <2>4 DEF Drafts
  <2>5. CASE kind = "PORT_SCAN"
    BY <2>1, <2>5 DEF Drafts
  <2>6. CASE kind = "SUBDOMAIN_DISCOVERY"
    BY <2>1, <2>6 DEF Drafts
  <2> QED
    BY <1>3, <2>2, <2>3, <2>4, <2>5, <2>6, KindsAre
<1> QED
  BY <1>1, <1>2, <1>3, KindsAre

\* The category of a row is one of its side.
LEMMA RowCategory ==
  ASSUME NEW f, RowOK(f)
  PROVE  CategoryOf[f.rule] \in CategoriesFor(f.asset)
<1>1. \A cs \in SUBSET DOMAIN AllSections : \A r \in RulesOf(cs) : CategoryOf[r] \in cs
  BY CategoryIs DEF RulesOf
<1> QED
  BY <1>1, AllRulesOf, SectionTables DEF RowOK, RulesFor, CategoriesFor

\* No category is of the site and of the cloud account.
LEMMA SidesAreApart ==
  ASSUME NEW a \in Assets, NEW b \in Assets, NEW c, c \in CategoriesFor(a), c \in CategoriesFor(b)
  PROVE  a = b
BY SectionTables DEF Assets, CategoriesFor

\* A finding that is in the world stays in it while its category is fresh.
LEMMA WitnessStays ==
  ASSUME PostureInv, ChangeSite \/ ChangeMail \/ ChangeCloud,
         NEW kind \in Kinds, NEW token, NEW d \in Drafts(kind, token), CategoryOf[d[1]] \in fresh'
  PROVE  Drafts(kind, token)' = Drafts(kind, token)
<1>1. SiteOK(site) /\ MailOK(mail)
  BY DEF PostureInv
<1>2. /\ SiteCategories \in SUBSET DOMAIN AllSections /\ CloudCategories \in SUBSET DOMAIN AllSections
      /\ {"EMAIL_SECURITY"} \in SUBSET DOMAIN AllSections
  BY SectionTables
<1>3. /\ kind = "audit" => CategoryOf[d[1]] \in CloudCategories
      /\ kind = "EMAIL_SECURITY" => CategoryOf[d[1]] \in {"EMAIL_SECURITY"}
      /\ kind \in DOMAIN Categories \ {"EMAIL_SECURITY"} =>
           CategoryOf[d[1]] \in SiteCategories \ {"EMAIL_SECURITY"}
  BY <1>1, <1>2, DraftsWithin, CategoryWithin
<1>4. CASE ChangeSite
  <2>1. fresh' = fresh \ (SiteCategories \ {"EMAIL_SECURITY"}) /\ mail' = mail /\ cloud' = cloud
    BY <1>4 DEF ChangeSite, Change, SiteCategories
  <2> QED
    BY <1>3, <2>1, DraftsStay
<1>5. CASE ChangeMail
  <2>1. fresh' = fresh \ {"EMAIL_SECURITY"} /\ site' = site /\ cloud' = cloud
    BY <1>5 DEF ChangeMail, Change
  <2> QED
    BY <1>3, <2>1, DraftsStay
<1>6. CASE ChangeCloud
  <2>1. fresh' = fresh \ CloudCategories /\ site' = site /\ mail' = mail
    BY <1>6 DEF ChangeCloud, Change, CloudCategories
  <2> QED
    BY <1>3, <2>1, DraftsStay
<1> QED
  BY <1>4, <1>5, <1>6

\* A scan leaves open, in the categories that are fresh after it, what is in the world
\* only.
LEMMA GhostScan ==
  ASSUME PostureInv, NoGhostFindings, IsScan
  PROVE  NoGhostFindings'
<1>0. PICK asset \in Assets : \E cs, drafts, severity, resolved, owned, whole :
        GoodScan(asset, cs, drafts, severity, resolved, owned, whole)
  BY DEF IsScan
<1>1. PICK cs, drafts, severity, resolved, owned, whole :
        GoodScan(asset, cs, drafts, severity, resolved, owned, whole)
  BY <1>0
<1>2. /\ cs \subseteq CategoriesFor(asset) /\ owned \subseteq CategoriesFor(asset)
      /\ Within(drafts, cs) /\ resolved \subseteq owned /\ whole \subseteq resolved
      /\ open' = Sync(asset, drafts, severity, resolved) /\ fresh' = (fresh \ owned) \cup whole
      /\ scans' = scans + 1 /\ site' = site /\ mail' = mail /\ cloud' = cloud
      /\ InTheWorld(asset, drafts)
  BY <1>1 DEF GoodScan, world
<1>3. \A kind \in Kinds : \A token : Drafts(kind, token)' = Drafts(kind, token)
  BY <1>2, DraftsStay
<1>4. scans \in Nat /\ \A f \in open : RowOK(f)
  BY DEF PostureInv, RowsOK
<1> SUFFICES ASSUME NEW f \in open', CategoryOf[f.rule] \in fresh'
             PROVE  \E kind \in Kinds, token \in 0 .. scans + 1 :
                      AssetOf(kind) = f.asset /\ <<f.rule, f.at>> \in Drafts(kind, token)
  BY <1>2, <1>3 DEF NoGhostFindings
<1>5. CASE f.asset = asset /\ <<f.rule, f.at>> \in drafts
  BY <1>2, <1>5 DEF InTheWorld
<1>6. ASSUME f \in open, CategoryOf[f.rule] \notin whole
      PROVE  \E kind \in Kinds, token \in 0 .. scans + 1 :
               AssetOf(kind) = f.asset /\ <<f.rule, f.at>> \in Drafts(kind, token)
  <2>1. CategoryOf[f.rule] \in fresh
    BY <1>2, <1>6
  <2>2. PICK kind \in Kinds, token \in 0 .. scans :
          AssetOf(kind) = f.asset /\ <<f.rule, f.at>> \in Drafts(kind, token)
    BY <1>6, <2>1 DEF NoGhostFindings
  <2>3. token \in 0 .. scans + 1
    BY <1>4
  <2> QED
    BY <2>2, <2>3
<1>7. CASE f.asset = asset /\ f \in open /\ CategoryOf[f.rule] \notin resolved
  BY <1>2, <1>6, <1>7
<1>8. CASE f.asset # asset /\ f \in open
  <2>1. CategoryOf[f.rule] \in CategoriesFor(f.asset) /\ f.asset \in Assets
    BY <1>4, <1>8, RowCategory DEF RowOK
  <2>2. CategoryOf[f.rule] \notin whole
    BY <1>2, <1>8, <2>1, SidesAreApart
  <2> QED
    BY <1>6, <1>8, <2>2
<1> QED
  BY <1>2, <1>5, <1>7, <1>8, SyncRows, ZenonT(40)

\* NoGhostFindings is inductive with the invariant.
LEMMA GhostStep == PostureInv /\ NoGhostFindings /\ [Next]_vars => NoGhostFindings'
<1> SUFFICES ASSUME PostureInv, NoGhostFindings, [Next]_vars PROVE NoGhostFindings'
  OBVIOUS
<1>1. CASE IsScan
  BY <1>1, GhostScan
<1>2. CASE ReviewStep \/ QuietStep
  <2>1. fresh' = fresh /\ scans' = scans /\ site' = site /\ mail' = mail /\ cloud' = cloud
    BY <1>2 DEF ReviewStep, QuietStep, world
  <2>2. \A kind \in Kinds : \A token : Drafts(kind, token)' = Drafts(kind, token)
    BY <2>1, DraftsStay
  <2>3. \A g \in open' : \E h \in open : h.asset = g.asset /\ h.rule = g.rule /\ h.at = g.at
    BY <1>2, ReviewRows DEF QuietStep
  <2> QED
    BY <2>1, <2>2, <2>3 DEF NoGhostFindings
<1>3. CASE ChangeSite \/ ChangeMail \/ ChangeCloud
  <2>1. open' = open /\ scans' = scans /\ fresh' \subseteq fresh
    BY <1>3 DEF ChangeSite, ChangeMail, ChangeCloud, Change
  <2> SUFFICES ASSUME NEW f \in open, CategoryOf[f.rule] \in fresh'
               PROVE  \E kind \in Kinds, token \in 0 .. scans :
                        AssetOf(kind) = f.asset /\ <<f.rule, f.at>> \in Drafts(kind, token)'
    BY <2>1 DEF NoGhostFindings
  <2>2. PICK kind \in Kinds, token \in 0 .. scans :
          AssetOf(kind) = f.asset /\ <<f.rule, f.at>> \in Drafts(kind, token)
    BY <2>1 DEF NoGhostFindings
  <2>3. Drafts(kind, token)' = Drafts(kind, token)
    BY <1>3, <2>2, WitnessStays
  <2> QED
    BY <2>2, <2>3
<1> QED
  BY <1>1, <1>2, <1>3, StepIs

\* What is open is in the world, of what was looked at completely since it last changed.
THEOREM NoGhosts == Spec => []NoGhostFindings
<1>1. Init => NoGhostFindings
  BY DEF Init, NoGhostFindings
<1> QED
  BY <1>1, GhostStep, PostureInvariant, PTL DEF Spec

-----------------------------------------------------------------------------
\* A change leaves alone what the kinds find that answer for a fresh category.
LEMMA OwnersStay ==
  ASSUME ChangeSite \/ ChangeMail \/ ChangeCloud,
         NEW kind \in Kinds, NEW token, NEW c, c \in Owned(kind) \cap fresh'
  PROVE  Drafts(kind, token)' = Drafts(kind, token)
<1>1. /\ kind \in DOMAIN Categories \ {"EMAIL_SECURITY"} => c \in SiteCategories \ {"EMAIL_SECURITY"}
      /\ kind = "EMAIL_SECURITY" => c = "EMAIL_SECURITY"
      /\ kind = "audit" => c \in CloudCategories
  BY KindsAre, SectionTables
<1>2. CASE ChangeSite
  <2>1. fresh' = fresh \ (SiteCategories \ {"EMAIL_SECURITY"}) /\ mail' = mail /\ cloud' = cloud
    BY <1>2 DEF ChangeSite, Change, SiteCategories
  <2> QED
    BY <1>1, <2>1, DraftsStay
<1>3. CASE ChangeMail
  <2>1. fresh' = fresh \ {"EMAIL_SECURITY"} /\ site' = site /\ cloud' = cloud
    BY <1>3 DEF ChangeMail, Change
  <2> QED
    BY <1>1, <2>1, DraftsStay
<1>4. CASE ChangeCloud
  <2>1. fresh' = fresh \ CloudCategories /\ site' = site /\ mail' = mail
    BY <1>4 DEF ChangeCloud, Change, CloudCategories
  <2> QED
    BY <1>1, <2>1, DraftsStay
<1> QED
  BY <1>2, <1>3, <1>4

\* What a scan finds is open after it.
LEMMA SyncFinds ==
  ASSUME NEW asset, NEW drafts, NEW severity, NEW resolved, NEW d \in drafts
  PROVE  \E f \in Sync(asset, drafts, severity, resolved) :
           f.asset = asset /\ f.rule = d[1] /\ f.at = d[2]
<1> DEFINE g == [asset |-> asset, rule |-> d[1], at |-> d[2], severity |-> severity[d],
                 status |-> IF \E f \in Same(asset, d) : f.status = "VERIFYING"
                            THEN "VERIFYING" ELSE "OPEN"]
<1>1. g \in Sync(asset, drafts, severity, resolved)
  BY DEF Sync
<1>2. g.asset = asset /\ g.rule = d[1] /\ g.at = d[2]
  OBVIOUS
<1> QED
  BY <1>1, <1>2, Zenon

\* After a scan, all that is in the world in the fresh categories is open.
LEMMA BelongsScan ==
  ASSUME PostureInv, WhatBelongsStays, IsScan
  PROVE  WhatBelongsStays'
<1>0. PICK asset \in Assets : \E cs, drafts, severity, resolved, owned, whole :
        GoodScan(asset, cs, drafts, severity, resolved, owned, whole)
  BY DEF IsScan
<1>1. PICK cs, drafts, severity, resolved, owned, whole :
        GoodScan(asset, cs, drafts, severity, resolved, owned, whole)
  BY <1>0
<1>2. /\ cs \subseteq CategoriesFor(asset) /\ Within(drafts, cs) /\ resolved \subseteq owned
      /\ open' = Sync(asset, drafts, severity, resolved) /\ fresh' = (fresh \ owned) \cup whole
      /\ site' = site /\ mail' = mail /\ cloud' = cloud /\ AllSeen(asset, drafts, whole)
  BY <1>1 DEF GoodScan, world
<1>3. \A kind \in Kinds : \A token : Drafts(kind, token)' = Drafts(kind, token)
  BY <1>2, DraftsStay
<1> SUFFICES ASSUME NEW kind \in Kinds, NEW d \in Drafts(kind, 0),
                    CategoryOf[d[1]] \in Owned(kind) \cap fresh'
             PROVE  Stands(kind, d)'
  BY <1>3 DEF WhatBelongsStays
<1>4. /\ \A f \in open : f.asset # asset => f \in open'
      /\ \A e \in drafts : \E f \in open' : f.asset = asset /\ f.rule = e[1] /\ f.at = e[2]
      /\ \A f \in open : f.asset = asset /\ CategoryOf[f.rule] \notin resolved =>
           \E g \in open' : g.asset = asset /\ g.rule = f.rule /\ g.at = f.at
  <2> DEFINE rows == Sync(asset, drafts, severity, resolved)
  <2>1. \A f \in open : f.asset # asset => f \in rows
    BY DEF Sync
  <2>2. \A e \in drafts : \E f \in rows : f.asset = asset /\ f.rule = e[1] /\ f.at = e[2]
    BY SyncFinds
  <2>3. \A f \in open : f.asset = asset /\ CategoryOf[f.rule] \notin resolved =>
          \E g \in rows : g.asset = asset /\ g.rule = f.rule /\ g.at = f.at
    BY <1>2, SyncRows
  <2>4. open' = rows
    BY <1>2
  <2> HIDE DEF rows
  <2> QED
    BY <2>1, <2>2, <2>3, <2>4
<1>5. CASE CategoryOf[d[1]] \in whole
  <2>1. PICK e \in drafts : AssetOf(kind) = asset /\ SameDraft(e, d)
    BY <1>2, <1>5 DEF AllSeen
  <2>2. PICK f \in open' : f.asset = asset /\ f.rule = e[1] /\ f.at = e[2]
    BY <1>4
  <2> QED
    BY <2>1, <2>2 DEF SameDraft, Stands
<1>6. CASE CategoryOf[d[1]] \in fresh \ owned
  <2>1. PICK f \in open :
          /\ f.asset = AssetOf(kind) /\ f.rule = d[1]
          /\ f.at = d[2] \/ (f.at[1] = "error page" /\ d[2][1] = "error page")
    BY <1>6 DEF WhatBelongsStays, Stands
  <2>2. \E g \in open' : g.asset = f.asset /\ g.rule = f.rule /\ g.at = f.at
    BY <1>2, <1>4, <1>6, <2>1, ZenonT(40)
  <2> QED
    BY <2>1, <2>2 DEF Stands
<1> QED
  BY <1>2, <1>5, <1>6

\* WhatBelongsStays is inductive with the invariant.
LEMMA BelongsStep == PostureInv /\ WhatBelongsStays /\ [Next]_vars => WhatBelongsStays'
<1> SUFFICES ASSUME PostureInv, WhatBelongsStays, [Next]_vars PROVE WhatBelongsStays'
  OBVIOUS
<1>1. CASE IsScan
  BY <1>1, BelongsScan
<1>2. CASE ReviewStep \/ QuietStep
  <2>1. fresh' = fresh /\ site' = site /\ mail' = mail /\ cloud' = cloud
    BY <1>2 DEF ReviewStep, QuietStep, world
  <2>2. \A kind \in Kinds : \A token : Drafts(kind, token)' = Drafts(kind, token)
    BY <2>1, DraftsStay
  <2>3. \A h \in open : \E g \in open' : h.asset = g.asset /\ h.rule = g.rule /\ h.at = g.at
    BY <1>2, ReviewRows DEF QuietStep
  <2>4. \A kind, d : Stands(kind, d) => Stands(kind, d)'
    BY <2>3 DEF Stands, AssetOf
  <2> QED
    BY <2>1, <2>2, <2>4 DEF WhatBelongsStays
<1>3. CASE ChangeSite \/ ChangeMail \/ ChangeCloud
  <2>1. open' = open /\ fresh' \subseteq fresh
    BY <1>3 DEF ChangeSite, ChangeMail, ChangeCloud, Change
  <2>2. \A kind, d : Stands(kind, d) => Stands(kind, d)'
    BY <2>1 DEF Stands
  <2>3. \A kind \in Kinds : \A c \in Owned(kind) \cap fresh' : Drafts(kind, 0)' = Drafts(kind, 0)
    BY <1>3, OwnersStay
  <2> QED
    BY <2>1, <2>2, <2>3 DEF WhatBelongsStays
<1> QED
  BY <1>1, <1>2, <1>3, StepIs

\* What is in the world, of what was looked at completely since it last changed, is open.
THEOREM BelongsStays == Spec => []WhatBelongsStays
<1>1. Init => WhatBelongsStays
  BY DEF Init, WhatBelongsStays
<1> QED
  BY <1>1, BelongsStep, PostureInvariant, PTL DEF Spec

-----------------------------------------------------------------------------
\* The five frameworks and their controls.
LEMMA FrameworksAre ==
  /\ DOMAIN Frameworks = {1, 2, 3, 4, 5} /\ Len(Frameworks) = 5
  /\ Frameworks[1] = IsoNetworkControls ++ IsoOperationsControls
  /\ Frameworks[2] = PciSystemControls ++ PciPaymentControls
  /\ Frameworks[3] = SocControls /\ Frameworks[4] = NistControls /\ Frameworks[5] = CisControls
<1> DEFINE a == IsoNetworkControls ++ IsoOperationsControls
           b == PciSystemControls ++ PciPaymentControls
           s == <<a, b, SocControls, NistControls, CisControls>>
<1>1. Frameworks = s
  BY Zenon DEF Frameworks
<1> HIDE DEF a, b
<1>2. /\ DOMAIN s = 1 .. 5 /\ Len(s) = 5 /\ s[1] = a /\ s[2] = b /\ s[3] = SocControls
      /\ s[4] = NistControls /\ s[5] = CisControls
  OBVIOUS
<1>3. 1 .. 5 = {1, 2, 3, 4, 5}
  OBVIOUS
<1> HIDE DEF s
<1> QED
  BY <1>1, <1>2, <1>3, Zenon DEF a, b

\* A set of at most n elements.
UpTo(S, n) == IsFiniteSet(S) /\ Cardinality(S) \in 0 .. n

\* An element more.
LEMMA OneMore ==
  ASSUME NEW S, NEW x, NEW n \in Nat, UpTo(S, n)
  PROVE  UpTo(S \cup {x}, n + 1)
<1>1. Cardinality(S \cup {x}) = IF x \in S THEN Cardinality(S) ELSE Cardinality(S) + 1
  BY FS_AddElement DEF UpTo
<1>2. IsFiniteSet(S \cup {x})
  BY FS_AddElement DEF UpTo
<1> QED
  BY <1>1, <1>2 DEF UpTo

\* At most seven elements in a list of seven.
LEMMA SevenAreFew ==
  ASSUME NEW a, NEW b, NEW c, NEW d, NEW e, NEW f, NEW g
  PROVE  UpTo({a, b, c, d, e, f, g}, 7)
<1> DEFINE A == {} \cup {a}  B == A \cup {b}  C == B \cup {c}  D == C \cup {d}
           E == D \cup {e}  F == E \cup {f}  G == F \cup {g}
<1>1. UpTo({}, 0)
  BY FS_EmptySet DEF UpTo
<1>2. G = {a, b, c, d, e, f, g}
  OBVIOUS
<1>3. 0 + 1 = 1 /\ 1 + 1 = 2 /\ 2 + 1 = 3 /\ 3 + 1 = 4 /\ 4 + 1 = 5 /\ 5 + 1 = 6 /\ 6 + 1 = 7
  OBVIOUS
<1>4. 0 \in Nat /\ 1 \in Nat /\ 2 \in Nat /\ 3 \in Nat /\ 4 \in Nat /\ 5 \in Nat /\ 6 \in Nat
  OBVIOUS
<1>5. UpTo(A, 0 + 1)
  BY <1>1, <1>4, OneMore, Zenon
<1>6. UpTo(B, 1 + 1)
  BY <1>3, <1>4, <1>5, OneMore, Zenon
<1>7. UpTo(C, 2 + 1)
  BY <1>3, <1>4, <1>6, OneMore, Zenon
<1>8. UpTo(D, 3 + 1)
  BY <1>3, <1>4, <1>7, OneMore, Zenon
<1>9. UpTo(E, 4 + 1)
  BY <1>3, <1>4, <1>8, OneMore, Zenon
<1>10. UpTo(F, 5 + 1)
  BY <1>3, <1>4, <1>9, OneMore, Zenon
<1>11. UpTo(G, 6 + 1)
  BY <1>3, <1>4, <1>10, OneMore, Zenon
<1> HIDE DEF G
<1> QED
  BY <1>2, <1>3, <1>11, Zenon

\* Each framework has between one and seven controls.
LEMMA FrameworksAreFew ==
  ASSUME NEW i \in DOMAIN Frameworks
  PROVE  /\ IsFiniteSet(DOMAIN Frameworks[i]) /\ DOMAIN Frameworks[i] # {}
         /\ Cardinality(DOMAIN Frameworks[i]) \in 1 .. 7
<1>1. DOMAIN Frameworks[1] = {"ISO-A.8.20", "ISO-A.8.24", "ISO-A.8.26", "ISO-A.8.8", "ISO-A.8.9",
                              "ISO-A.8.19", "ISO-A.8.23"}
  BY FrameworksAre DEF ++, IsoNetworkControls, IsoOperationsControls
<1>2. DOMAIN Frameworks[2] = {"PCI-1.3", "PCI-2.2", "PCI-4.1", "PCI-4.2.1", "PCI-6.4.3",
                              "PCI-11.6.1", "PCI-11.3"}
  BY FrameworksAre DEF ++, PciSystemControls, PciPaymentControls
<1>3. DOMAIN Frameworks[3] = {"SOC2-CC6.1", "SOC2-CC6.6", "SOC2-CC6.7", "SOC2-CC7.1"}
  BY FrameworksAre DEF SocControls
<1>4. DOMAIN Frameworks[4] = {"NIST-PR.AC-3", "NIST-PR.DS-2", "NIST-PR.DS-5", "NIST-PR.PS-1",
                              "NIST-RS.MI-3"}
  BY FrameworksAre DEF NistControls
<1>5. DOMAIN Frameworks[5] = {"CIS-4.1", "CIS-7.1", "CIS-9.2", "CIS-10.4", "CIS-16.1"}
  BY FrameworksAre DEF CisControls
<1>6. ASSUME NEW D, D # {}, NEW a, NEW b, NEW c, NEW d, NEW e, NEW f, NEW g,
             D \subseteq {a, b, c, d, e, f, g}
      PROVE  IsFiniteSet(D) /\ Cardinality(D) \in 1 .. 7
  <2> DEFINE S == {a, b, c, d, e, f, g}
  <2>1. IsFiniteSet(S) /\ Cardinality(S) \in 0 .. 7 /\ D \subseteq S
    BY <1>6, SevenAreFew DEF UpTo
  <2> HIDE DEF S
  <2>2. IsFiniteSet(D) /\ Cardinality(D) <= Cardinality(S)
    BY <2>1, FS_Subset
  <2>3. Cardinality(D) \in Nat /\ Cardinality(D) # 0
    BY <1>6, <2>2, FS_CardinalityType, FS_EmptySet
  <2> QED
    BY <2>1, <2>2, <2>3
<1>7. /\ DOMAIN Frameworks[1] # {} /\ DOMAIN Frameworks[2] # {} /\ DOMAIN Frameworks[3] # {}
      /\ DOMAIN Frameworks[4] # {} /\ DOMAIN Frameworks[5] # {}
  BY <1>1, <1>2, <1>3, <1>4, <1>5
<1>8. i \in {1, 2, 3, 4, 5}
  BY FrameworksAre
<1>9. CASE i = 1
  BY <1>1, <1>6, <1>7, <1>9, Zenon
<1>10. CASE i = 2
  BY <1>2, <1>6, <1>7, <1>10, Zenon
<1>11. CASE i = 3
  <2>1. DOMAIN Frameworks[3] \subseteq {"SOC2-CC6.1", "SOC2-CC6.6", "SOC2-CC6.7", "SOC2-CC7.1",
                                        "", "", ""}
    BY <1>3
  <2> QED
    BY <2>1, <1>6, <1>7, <1>11, Zenon
<1>12. CASE i = 4
  <2>1. DOMAIN Frameworks[4] \subseteq {"NIST-PR.AC-3", "NIST-PR.DS-2", "NIST-PR.DS-5",
                                        "NIST-PR.PS-1", "NIST-RS.MI-3", "", ""}
    BY <1>4
  <2> QED
    BY <2>1, <1>6, <1>7, <1>12, Zenon
<1>13. CASE i = 5
  <2>1. DOMAIN Frameworks[5] \subseteq {"CIS-4.1", "CIS-7.1", "CIS-9.2", "CIS-10.4", "CIS-16.1", "", ""}
    BY <1>5
  <2> QED
    BY <2>1, <1>6, <1>7, <1>13, Zenon
<1> QED
  BY <1>8, <1>9, <1>10, <1>11, <1>12, <1>13, Zenon

-----------------------------------------------------------------------------
\* Every rule that the catalogs call critical or high breaks a control of ISO 27001.
LEMMA IsoControls ==
  /\ {"ISO-A.8.20", "ISO-A.8.24", "ISO-A.8.26", "ISO-A.8.8", "ISO-A.8.9", "ISO-A.8.19", "ISO-A.8.23"}
       \subseteq DOMAIN Frameworks[1]
  /\ Frameworks[1]["ISO-A.8.20"] = IsoNetworkControls["ISO-A.8.20"]
  /\ Frameworks[1]["ISO-A.8.24"] = IsoNetworkControls["ISO-A.8.24"]
  /\ Frameworks[1]["ISO-A.8.26"] = IsoNetworkControls["ISO-A.8.26"]
  /\ Frameworks[1]["ISO-A.8.8"] = IsoOperationsControls["ISO-A.8.8"]
  /\ Frameworks[1]["ISO-A.8.9"] = IsoOperationsControls["ISO-A.8.9"]
  /\ Frameworks[1]["ISO-A.8.19"] = IsoOperationsControls["ISO-A.8.19"]
  /\ Frameworks[1]["ISO-A.8.23"] = IsoOperationsControls["ISO-A.8.23"]
<1>1. /\ DOMAIN IsoNetworkControls = {"ISO-A.8.20", "ISO-A.8.24", "ISO-A.8.26"}
      /\ DOMAIN IsoOperationsControls = {"ISO-A.8.8", "ISO-A.8.9", "ISO-A.8.19", "ISO-A.8.23"}
  BY DEF IsoNetworkControls, IsoOperationsControls
<1> QED
  BY <1>1, FrameworksAre DEF ++

GraveOf(t) == UNION {t[s] : s \in DOMAIN t \cap {"CRITICAL", "HIGH"}}

\* The serious rules of four tables, which ISO 27001 takes as a whole.
LEMMA NetworkRulesBreakIso ==
  /\ GraveOf(NetworkRules) \subseteq IsoNetworkControls["ISO-A.8.20"]
  /\ GraveOf(DnsRules) \subseteq IsoNetworkControls["ISO-A.8.20"]
  /\ GraveOf(TlsRules) \subseteq IsoNetworkControls["ISO-A.8.24"]
  /\ GraveOf(IdentityRules) \subseteq IsoOperationsControls["ISO-A.8.19"]
<1>1. \A T, t : t \in T => GraveOf(t) \subseteq Listed(T)
  BY DEF GraveOf, Listed
<1>2. GraveOf(NetworkRules) \subseteq IsoNetworkControls["ISO-A.8.20"]
  <2>1. Listed({DnsRules, NetworkRules}) \ {"DNS-CAA-INVALID"} \subseteq IsoNetworkControls["ISO-A.8.20"]
    BY DEF IsoNetworkControls
  <2>2. "DNS-CAA-INVALID" \notin GraveOf(NetworkRules)
    BY DEF GraveOf, NetworkRules
  <2> QED
    BY <1>1, <2>1, <2>2
<1>3. GraveOf(DnsRules) \subseteq IsoNetworkControls["ISO-A.8.20"]
  <2>1. Listed({DnsRules, NetworkRules}) \ {"DNS-CAA-INVALID"} \subseteq IsoNetworkControls["ISO-A.8.20"]
    BY DEF IsoNetworkControls
  <2>2. "DNS-CAA-INVALID" \notin GraveOf(DnsRules)
    BY DEF GraveOf, DnsRules
  <2> QED
    BY <1>1, <2>1, <2>2
<1>4. GraveOf(TlsRules) \subseteq IsoNetworkControls["ISO-A.8.24"]
  <2>1. Listed({TlsRules}) \subseteq IsoNetworkControls["ISO-A.8.24"]
    BY DEF IsoNetworkControls
  <2> QED
    BY <1>1, <2>1
<1>5. GraveOf(IdentityRules) \subseteq IsoOperationsControls["ISO-A.8.19"]
  <2>1. Listed({IdentityRules}) \ {"AWS-IAM-KEY-ROTATION"} \subseteq IsoOperationsControls["ISO-A.8.19"]
    BY DEF IsoOperationsControls
  <2>2. "AWS-IAM-KEY-ROTATION" \notin GraveOf(IdentityRules)
    BY DEF GraveOf, IdentityRules
  <2> QED
    BY <1>1, <2>1, <2>2
<1> QED
  BY <1>2, <1>3, <1>4, <1>5

\* The serious rules of the other tables, by control.
LEMMA OtherRulesBreakIso ==
  /\ {"MAIL-SPF-PASS-ALL", "DNS-SUBDOMAIN-TAKEOVER", "AWS-S3-PUBLIC-READ", "AZ-BLOB-PUBLIC-ACCESS",
      "AWS-RDS-PUBLIC-ACCESS", "AZ-SQL-PUBLIC-ACCESS"} \subseteq IsoNetworkControls["ISO-A.8.20"]
  /\ {"SVC-CLEARTEXT-REMOTE-ADMIN", "WEB-MIXED-CONTENT", "WEB-INSECURE-FORM-ACTION",
      "WEB-JS-SECRET-LEAK", "AWS-S3-UNENCRYPTED", "AZ-STORAGE-NO-HTTPS", "AWS-RDS-UNENCRYPTED",
      "AZ-SQL-TDE-DISABLED"} \subseteq IsoNetworkControls["ISO-A.8.24"]
  /\ {"HDR-CORS-CREDENTIALS-INSECURE", "HDR-CORS-ORIGIN-REFLECTION",
      "WEB-SRI-MISSING-EXTERNAL-SCRIPT", "CMS-WP-DEBUG-LOG-EXPOSED"}
       \subseteq IsoNetworkControls["ISO-A.8.26"]
  /\ {"VULN-KNOWN-CVE", "HDR-EOL-TECH"} \subseteq IsoOperationsControls["ISO-A.8.8"]
  /\ {"WEB-DEBUG-STACKTRACE-LEAK", "AWS-EC2-IMDSV1-ENABLED", "AWS-TRAIL-DISABLED"}
       \subseteq IsoOperationsControls["ISO-A.8.9"]
  /\ GraveOf(ApiRules) \ {"PATH-K8S-CONFIG-EXPOSED"} \subseteq IsoOperationsControls["ISO-A.8.9"]
  /\ {"SVC-REMOTE-DESKTOP", "SVC-DATABASE-EXPOSED", "SVC-FILE-SHARING",
      "SVC-ORCHESTRATION-EXPOSED"} \subseteq IsoOperationsControls["ISO-A.8.19"]
  /\ {"PATH-SECRETS-EXPOSED", "PATH-VCS-EXPOSED", "PATH-BACKUP-EXPOSED", "PATH-CONFIG-EXPOSED",
      "PATH-K8S-CONFIG-EXPOSED"} \subseteq IsoOperationsControls["ISO-A.8.23"]
<1>1. GraveOf(ApiRules) \ {"PATH-K8S-CONFIG-EXPOSED"} \subseteq IsoOperationsControls["ISO-A.8.9"]
  <2>1. GraveOf(ApiRules) \subseteq Listed({ApiRules})
    BY DEF GraveOf, Listed
  <2>2. Listed({ApiRules}) \ {"PATH-K8S-CONFIG-EXPOSED"} \subseteq IsoOperationsControls["ISO-A.8.9"]
    BY DEF IsoOperationsControls
  <2> QED
    BY <2>1, <2>2
<1> QED
  BY <1>1 DEF IsoNetworkControls, IsoOperationsControls

\* The grave rules of a table break controls of ISO 27001.
Judges(t) == \A r \in GraveOf(t) : \E k \in DOMAIN Frameworks[1] : r \in Frameworks[1][k]

\* No table has a serious rule outside of ISO 27001.
LEMMA GraveRulesBreakIso ==
  ASSUME NEW c \in DOMAIN AllSections, NEW t \in AllSections[c]
  PROVE  Judges(t)
<1> DEFINE Broken == UNION {Frameworks[1][k] : k \in DOMAIN Frameworks[1]}
<1>1. \A x : GraveOf(x) \subseteq Broken => Judges(x)
  BY DEF Judges
<1>2. /\ IsoNetworkControls["ISO-A.8.20"] \subseteq Broken
      /\ IsoNetworkControls["ISO-A.8.24"] \subseteq Broken
      /\ IsoNetworkControls["ISO-A.8.26"] \subseteq Broken
      /\ IsoOperationsControls["ISO-A.8.8"] \subseteq Broken
      /\ IsoOperationsControls["ISO-A.8.9"] \subseteq Broken
      /\ IsoOperationsControls["ISO-A.8.19"] \subseteq Broken
      /\ IsoOperationsControls["ISO-A.8.23"] \subseteq Broken
  BY IsoControls
<1> HIDE DEF Broken
<1>3. /\ GraveOf(NetworkRules) \subseteq Broken /\ GraveOf(DnsRules) \subseteq Broken
      /\ GraveOf(TlsRules) \subseteq Broken /\ GraveOf(IdentityRules) \subseteq Broken
  BY <1>2, NetworkRulesBreakIso
<1>4. {"MAIL-SPF-PASS-ALL", "DNS-SUBDOMAIN-TAKEOVER", "AWS-S3-PUBLIC-READ", "AZ-BLOB-PUBLIC-ACCESS",
       "AWS-RDS-PUBLIC-ACCESS", "AZ-SQL-PUBLIC-ACCESS", "SVC-CLEARTEXT-REMOTE-ADMIN",
       "WEB-MIXED-CONTENT", "WEB-INSECURE-FORM-ACTION", "WEB-JS-SECRET-LEAK", "AWS-S3-UNENCRYPTED",
       "AZ-STORAGE-NO-HTTPS", "AWS-RDS-UNENCRYPTED", "AZ-SQL-TDE-DISABLED",
       "HDR-CORS-CREDENTIALS-INSECURE", "HDR-CORS-ORIGIN-REFLECTION",
       "WEB-SRI-MISSING-EXTERNAL-SCRIPT", "CMS-WP-DEBUG-LOG-EXPOSED", "VULN-KNOWN-CVE",
       "HDR-EOL-TECH", "WEB-DEBUG-STACKTRACE-LEAK", "AWS-EC2-IMDSV1-ENABLED", "AWS-TRAIL-DISABLED",
       "SVC-REMOTE-DESKTOP", "SVC-DATABASE-EXPOSED", "SVC-FILE-SHARING",
       "SVC-ORCHESTRATION-EXPOSED", "PATH-SECRETS-EXPOSED", "PATH-VCS-EXPOSED",
       "PATH-BACKUP-EXPOSED", "PATH-CONFIG-EXPOSED", "PATH-K8S-CONFIG-EXPOSED"} \subseteq Broken
  BY <1>2, OtherRulesBreakIso
<1>5. GraveOf(ApiRules) \subseteq Broken
  <2>1. GraveOf(ApiRules) \ {"PATH-K8S-CONFIG-EXPOSED"} \subseteq Broken
    BY <1>2, OtherRulesBreakIso
  <2> QED
    BY <1>4, <2>1
<1>6. GraveOf(ServiceRules) \subseteq Broken /\ GraveOf(TakeoverRules) \subseteq Broken
  BY <1>4 DEF GraveOf, ServiceRules, TakeoverRules
<1>7. GraveOf(HeaderRules) \subseteq Broken /\ GraveOf(RedirectRules) \subseteq Broken
  BY <1>4 DEF GraveOf, HeaderRules, RedirectRules
<1>8. GraveOf(ContentRules) \subseteq Broken /\ GraveOf(DeepWebRules) \subseteq Broken
  BY <1>4 DEF GraveOf, ContentRules, DeepWebRules
<1>9. GraveOf(PathRules) \subseteq Broken /\ GraveOf(DisclosureRules) \subseteq Broken
  BY <1>4 DEF GraveOf, PathRules, DisclosureRules
<1>10. /\ GraveOf(SoftwareRules) \subseteq Broken /\ GraveOf(SenderRules) \subseteq Broken
       /\ GraveOf(MailRules) \subseteq Broken /\ GraveOf(BrandRules) \subseteq Broken
  BY <1>4 DEF GraveOf, SoftwareRules, SenderRules, MailRules, BrandRules
<1>11. GraveOf(StorageRules) \subseteq Broken /\ GraveOf(ComputeRules) \subseteq Broken
  BY <1>4 DEF GraveOf, StorageRules, ComputeRules
<1>12. GraveOf(DatabaseRules) \subseteq Broken /\ GraveOf(LoggingRules) \subseteq Broken
  BY <1>4 DEF GraveOf, DatabaseRules, LoggingRules
<1>13. t \in {ServiceRules, TakeoverRules, HeaderRules, RedirectRules, ContentRules, DeepWebRules,
              TlsRules, PathRules, ApiRules, DisclosureRules, SoftwareRules, SenderRules, MailRules,
              DnsRules, BrandRules, IdentityRules, StorageRules, NetworkRules, ComputeRules,
              DatabaseRules, LoggingRules}
  BY SectionTables
<1>14. GraveOf(t) \subseteq Broken
  BY <1>3, <1>5, <1>6, <1>7, <1>8, <1>9, <1>10, <1>11, <1>12, <1>13
<1> QED
  BY <1>1, <1>14

\* Every rule that the catalogs call critical or high breaks a control of ISO 27001: no
\* serious finding is outside of what compliance looks at.
THEOREM SeriousRulesAreJudged ==
  ASSUME NEW r \in FindingRules \cup CloudRules, SeverityOf[r] \in {"CRITICAL", "HIGH"}
  PROVE  \E k \in DOMAIN Frameworks[1] : r \in Frameworks[1][k]
<1>1. PICK t \in AllSections[CategoryOf[r]] : SeverityOf[r] \in DOMAIN t /\ r \in t[SeverityOf[r]]
  BY SeverityIs
<1>2. CategoryOf[r] \in DOMAIN AllSections
  BY AllRulesOf, SectionTables, CategoryIs DEF RulesOf
<1>3. r \in GraveOf(t)
  BY <1>1 DEF GraveOf
<1> QED
  BY <1>2, <1>3, GraveRulesBreakIso DEF Judges

\* A serious finding breaks a control.
LEMMA GraveBreaksControl ==
  ASSUME NEW f, RowOK(f), f.severity \in {"CRITICAL", "HIGH"}
  PROVE  \E k \in DOMAIN Frameworks[1] : f.rule \in Frameworks[1][k]
<1>1. f.rule \in FindingRules \cup CloudRules
  BY DEF RowOK, RulesFor
<1>2. CASE f.rule = "VULN-KNOWN-CVE"
  <2>1. "VULN-KNOWN-CVE" \in IsoOperationsControls["ISO-A.8.8"]
    BY OtherRulesBreakIso
  <2> QED
    BY <1>2, <2>1, IsoControls
<1>3. CASE f.rule # "VULN-KNOWN-CVE"
  <2>1. SeverityOf[f.rule] \in {"CRITICAL", "HIGH"}
    BY <1>3 DEF RowOK
  <2> QED
    BY <1>1, <2>1, SeriousRulesAreJudged
<1> QED
  BY <1>2, <1>3

-----------------------------------------------------------------------------
\* The worst severity of some findings is one of theirs, and none is worse.
LEMMA WorstIs ==
  ASSUME NEW fs, fs # {}, \A f \in fs : f.severity \in Severities
  PROVE  /\ \E f \in fs : f.severity = WorstSeverity(fs)
         /\ WorstSeverity(fs) \in Severities
         /\ \A f \in fs : SeverityWeight[f.severity] <= SeverityWeight[WorstSeverity(fs)]
<1> DEFINE S == {f.severity : f \in fs}
           IsWorst(s) == \A f \in fs : SeverityWeight[f.severity] <= SeverityWeight[s]
<1>1. S \subseteq Severities /\ S # {}
  OBVIOUS
<1>2. \A s \in Severities : SeverityWeight[s] \in 1 .. 5
  BY DEF Severities, SeverityWeight
<1>3. \E s \in S : \A z \in S : SeverityWeight[z] <= SeverityWeight[s]
  <2> HIDE DEF S
  <2>1. CASE "CRITICAL" \in S
    BY <1>1, <2>1 DEF Severities, SeverityWeight
  <2>2. CASE "CRITICAL" \notin S /\ "HIGH" \in S
    BY <1>1, <2>2 DEF Severities, SeverityWeight
  <2>3. CASE "CRITICAL" \notin S /\ "HIGH" \notin S /\ "MEDIUM" \in S
    BY <1>1, <2>3 DEF Severities, SeverityWeight
  <2>4. CASE S \subseteq {"LOW", "INFO"} /\ "LOW" \in S
    BY <2>4 DEF SeverityWeight
  <2>5. CASE S \subseteq {"INFO"}
    <3>1. "INFO" \in S /\ \A z \in S : z = "INFO"
      BY <1>1, <2>5
    <3>2. SeverityWeight["INFO"] <= SeverityWeight["INFO"]
      BY DEF SeverityWeight
    <3> QED
      BY <3>1, <3>2, Zenon
  <2> QED
    BY <1>1, <2>1, <2>2, <2>3, <2>4, <2>5 DEF Severities
<1>4. \E s \in S : IsWorst(s)
  BY <1>3
<1>5. WorstSeverity(fs) = CHOOSE s \in S : IsWorst(s)
  BY DEF WorstSeverity
<1>6. WorstSeverity(fs) \in S /\ IsWorst(WorstSeverity(fs))
  <2> HIDE DEF S, IsWorst
  <2> QED
    BY <1>4, <1>5, Zenon
<1> QED
  BY <1>1, <1>6

\* The failing controls, of all frameworks.
LEMMA FailingAre ==
  ASSUME NEW fs
  PROVE  /\ \A d \in FailingControls(fs) :
              \E i \in DOMAIN Frameworks : \E c \in DOMAIN Frameworks[i] :
                LET broken == Failing(Frameworks[i], c, fs)
                IN broken # {} /\ d.worst = WorstSeverity(broken) /\ d.findings = Cardinality(broken)
         /\ \A i \in DOMAIN Frameworks : \A c \in DOMAIN Frameworks[i] :
              LET broken == Failing(Frameworks[i], c, fs)
              IN broken # {} => \E d \in FailingControls(fs) :
                                  d.worst = WorstSeverity(broken) /\ d.findings = Cardinality(broken)
<1> DEFINE Broken(i, c) == Failing(Frameworks[i], c, fs)
           Rec(i, c) == [code |-> c, worst |-> WorstSeverity(Broken(i, c)),
                         findings |-> Cardinality(Broken(i, c)),
                         assets |-> Cardinality({f.asset : f \in Broken(i, c)})]
           Fails(i) == DOMAIN Frameworks[i] \ PassedControls(Frameworks[i], fs)
<1>1. FailingControls(fs) = UNION {{Rec(i, c) : c \in Fails(i)} : i \in DOMAIN Frameworks}
  BY Zenon DEF FailingControls
<1>2. \A i, c : Rec(i, c).worst = WorstSeverity(Broken(i, c)) /\ Rec(i, c).findings = Cardinality(Broken(i, c))
  OBVIOUS
<1>3. \A i, c : c \in Fails(i) <=> c \in DOMAIN Frameworks[i] /\ Broken(i, c) # {}
  BY DEF PassedControls
<1> HIDE DEF Rec, Fails
<1>4. \A d \in FailingControls(fs) : \E i \in DOMAIN Frameworks : \E c \in Fails(i) : d = Rec(i, c)
  BY <1>1
<1>5. \A i \in DOMAIN Frameworks : \A c \in Fails(i) : Rec(i, c) \in FailingControls(fs)
  BY <1>1
<1> HIDE DEF Broken
<1>6. \A d \in FailingControls(fs) :
        \E i \in DOMAIN Frameworks : \E c \in DOMAIN Frameworks[i] :
          /\ Broken(i, c) # {} /\ d.worst = WorstSeverity(Broken(i, c))
          /\ d.findings = Cardinality(Broken(i, c))
  BY <1>2, <1>3, <1>4
<1>7. \A i \in DOMAIN Frameworks : \A c \in DOMAIN Frameworks[i] :
        Broken(i, c) # {} => \E d \in FailingControls(fs) :
          d.worst = WorstSeverity(Broken(i, c)) /\ d.findings = Cardinality(Broken(i, c))
  BY <1>2, <1>3, <1>5
<1> QED
  BY <1>6, <1>7, Zenon DEF Broken

\* The heaviest of the controls that fail with the worst severity there is.
LEMMA GraveIsShown ==
  ASSUME NEW fs, IsFiniteSet(fs), \A f \in fs : RowOK(f),
         NEW grave, grave = {f \in fs : f.severity \in {"CRITICAL", "HIGH"}}, grave # {}
  PROVE  \E c \in FailingControls(fs) : c.worst = WorstSeverity(grave) /\ MayBeShown(c, fs)
<1> DEFINE W == WorstSeverity(grave)
           weight(s) == SeverityWeight[s]
           Broken(i, c) == Failing(Frameworks[i], c, fs)
           H == {d \in FailingControls(fs) : d.worst = W}
<1>1. \A f \in fs : f.severity \in Severities
  BY DEF RowOK
<1>2. /\ \E f \in grave : f.severity = W
      /\ W \in {"CRITICAL", "HIGH"}
      /\ \A f \in grave : weight(f.severity) <= weight(W)
  BY <1>1, WorstIs
<1>3. /\ \A s \in Severities : weight(s) \in 1 .. 5
      /\ \A s, z \in Severities : weight(s) = weight(z) => s = z
      /\ \A s \in Severities : weight(s) >= 4 => s \in {"CRITICAL", "HIGH"}
      /\ weight("CRITICAL") = 5 /\ weight("HIGH") = 4
      /\ {"CRITICAL", "HIGH"} \subseteq Severities
  BY DEF Severities, SeverityWeight
<1> HIDE DEF W, weight
\* No finding weighs more than the worst of the serious ones.
<1>4. \A f \in fs : weight(f.severity) <= weight(W)
  BY <1>1, <1>2, <1>3
<1>5. ASSUME NEW i, NEW c, Broken(i, c) # {}
      PROVE  /\ WorstSeverity(Broken(i, c)) \in Severities
             /\ weight(WorstSeverity(Broken(i, c))) <= weight(W)
             /\ \A f \in Broken(i, c) : weight(f.severity) <= weight(WorstSeverity(Broken(i, c)))
             /\ Cardinality(Broken(i, c)) \in Nat /\ Cardinality(Broken(i, c)) <= Cardinality(fs)
  <2>1. Broken(i, c) \subseteq fs
    BY DEF Failing
  <2> HIDE DEF Broken
  <2>2. /\ \E f \in Broken(i, c) : f.severity = WorstSeverity(Broken(i, c))
        /\ WorstSeverity(Broken(i, c)) \in Severities
        /\ \A f \in Broken(i, c) : weight(f.severity) <= weight(WorstSeverity(Broken(i, c)))
    BY <1>1, <1>5, <2>1, WorstIs DEF weight
  <2>3. Cardinality(Broken(i, c)) \in Nat /\ Cardinality(Broken(i, c)) <= Cardinality(fs)
    BY <2>1, FS_Subset, FS_CardinalityType
  <2> QED
    BY <1>4, <2>1, <2>2, <2>3
<1>6. Cardinality(fs) \in Nat
  BY FS_CardinalityType
<1>7. \A d \in FailingControls(fs) :
        /\ d.worst \in Severities /\ weight(d.worst) <= weight(W)
        /\ d.findings \in Nat /\ d.findings <= Cardinality(fs)
  <2> TAKE d \in FailingControls(fs)
  <2>1. PICK i \in DOMAIN Frameworks : \E c \in DOMAIN Frameworks[i] :
          Broken(i, c) # {} /\ d.worst = WorstSeverity(Broken(i, c)) /\ d.findings = Cardinality(Broken(i, c))
    BY FailingAre
  <2>2. PICK c \in DOMAIN Frameworks[i] :
          Broken(i, c) # {} /\ d.worst = WorstSeverity(Broken(i, c)) /\ d.findings = Cardinality(Broken(i, c))
    BY <2>1
  <2> HIDE DEF Broken
  <2> QED
    BY <1>5, <2>2
<1>8. H # {}
  <2>1. PICK f \in grave : f.severity = W
    BY <1>2
  <2>2. PICK k \in DOMAIN Frameworks[1] : f.rule \in Frameworks[1][k]
    BY GraveBreaksControl
  <2>3. f \in Broken(1, k)
    BY <2>2 DEF Failing
  <2> HIDE DEF Broken
  <2>4. Broken(1, k) # {} /\ 1 \in DOMAIN Frameworks
    BY <2>3, FrameworksAre
  <2>5. weight(WorstSeverity(Broken(1, k))) = weight(W) /\ WorstSeverity(Broken(1, k)) \in Severities
    BY <1>2, <1>3, <1>5, <2>1, <2>3, <2>4
  <2>6. WorstSeverity(Broken(1, k)) = W
    BY <1>2, <1>3, <2>5
  <2>7. \E d \in FailingControls(fs) : d.worst = WorstSeverity(Broken(1, k))
    BY <2>4, FailingAre DEF Broken
  <2> QED
    BY <2>6, <2>7
\* Of those, one with the most findings.
<1>9. PICK c \in H : \A d \in H : d.findings <= c.findings
  <2> DEFINE Rest(d) == Cardinality(fs) - d.findings
             S == {Rest(d) : d \in H}
  <2>1. \A d \in H : Rest(d) \in Nat
    BY <1>6, <1>7
  <2>2. S \in SUBSET Nat /\ S # {}
    BY <1>8, <2>1
  <2>3. PICK m \in S : \A n \in S : m <= n
    <3> HIDE DEF S
    <3> QED
      BY <2>2, FirstExists
  <2>4. PICK c \in H : m = Rest(c)
    BY <2>3
  <2>5. \A d \in H : Rest(c) <= Rest(d)
    BY <2>3, <2>4
  <2>6. \A d \in H : d.findings \in Nat
    BY <1>7
  <2> HIDE DEF H
  <2> QED
    BY <1>6, <2>4, <2>5, <2>6
<1>10. \A d \in FailingControls(fs) : ~Heavier(d, c)
  <2> TAKE d \in FailingControls(fs)
  <2>1. ~(weight(d.worst) > weight(c.worst))
    <3>1. weight(d.worst) \in 1 .. 5 /\ weight(W) \in 1 .. 5 /\ weight(d.worst) <= weight(W)
      BY <1>2, <1>3, <1>7
    <3> QED
      BY <1>9, <3>1
  <2>2. ~(d.worst = c.worst /\ d.findings > c.findings)
    <3>1. d.findings \in Nat /\ c.findings \in Nat
      BY <1>7, <1>9
    <3> QED
      BY <1>9, <3>1
  <2> QED
    BY <2>1, <2>2 DEF Heavier, weight
<1>11. {d \in FailingControls(fs) : Heavier(d, c)} = {}
  BY <1>10
<1>12. MayBeShown(c, fs)
  BY <1>11, FS_EmptySet DEF MayBeShown, MaxTop
<1> QED
  BY <1>9, <1>12 DEF W

\* The percentage of a framework, of which the rounding leaves at most 97 when a control fails.
LEMMA PercentageOfFramework ==
  ASSUME NEW fs, NEW i \in DOMAIN Frameworks
  PROVE  LET P == FrameworkPercentage(Frameworks[i], fs)
             full == PassedControls(Frameworks[i], fs) = DOMAIN Frameworks[i]
         IN P \in 0 .. 100 /\ (full => P = 100) /\ (~full => P <= 97)
<1> DEFINE P == FrameworkPercentage(Frameworks[i], fs)
<1> DEFINE D == DOMAIN Frameworks[i]  A == PassedControls(Frameworks[i], fs)
           n == Cardinality(D)  a == Cardinality(A)
<1>1. IsFiniteSet(D) /\ n \in 1 .. 7
  BY FrameworksAreFew
<1>2. A \subseteq D
  BY DEF PassedControls
<1>3. P = Percentage(a, n)
  BY DEF FrameworkPercentage
<1> HIDE DEF A, D, P
<1>4. a \in Nat /\ a <= n /\ (a = n <=> A = D)
  BY <1>1, <1>2, FS_Subset, FS_CardinalityType
<1> HIDE DEF a, n
<1>5. n \in Nat \ {0} /\ a \in 0 .. n /\ n \in 0 .. n /\ a <= n
  BY <1>1, <1>4
<1>6. Percentage(a, n) \in 0 .. 100 /\ Percentage(n, n) = 100
  BY <1>5, PercentageProperties
<1>7. a # n => Percentage(a, n) <= 97
  <2>1. 200 * a + n \in Nat /\ 2 * n \in Nat \ {0}
    BY <1>5
  <2>2. 98 <= Percentage(a, n) <=> 2 * n * 98 <= 200 * a + n
    BY <2>1, QuotientReaches DEF Percentage
  <2>3. a # n => ~(2 * n * 98 <= 200 * a + n)
    BY <1>1, <1>5
  <2> QED
    BY <1>6, <2>2, <2>3
<1> QED
  BY <1>3, <1>4, <1>6, <1>7 DEF A, D, P

\* The overview says 100 % only when no control fails.
LEMMA FullOverviewMeansNoneFails ==
  ASSUME NEW fs
  PROVE  GlobalPercentage(fs) = 100 <=> FailingControls(fs) = {}
<1> DEFINE P(i) == FrameworkPercentage(Frameworks[i], fs)
           Full(i) == PassedControls(Frameworks[i], fs) = DOMAIN Frameworks[i]
<1>1. ASSUME NEW i \in DOMAIN Frameworks
      PROVE  P(i) \in 0 .. 100 /\ (Full(i) => P(i) = 100) /\ (~Full(i) => P(i) <= 97)
  BY PercentageOfFramework
<1>2. 1 \in DOMAIN Frameworks /\ 2 \in DOMAIN Frameworks /\ 3 \in DOMAIN Frameworks
      /\ 4 \in DOMAIN Frameworks /\ 5 \in DOMAIN Frameworks /\ DOMAIN Frameworks = {1, 2, 3, 4, 5}
  BY FrameworksAre
<1>3. FailingControls(fs) = {} <=> \A i \in DOMAIN Frameworks : Full(i)
  <2>1. \A i : Full(i) <=> \A c \in DOMAIN Frameworks[i] : Failing(Frameworks[i], c, fs) = {}
    BY DEF PassedControls
  <2>2. FailingControls(fs) = {} <=>
          \A i \in DOMAIN Frameworks : \A c \in DOMAIN Frameworks[i] : Failing(Frameworks[i], c, fs) = {}
    BY FailingAre
  <2> HIDE DEF Full
  <2> QED
    BY <2>1, <2>2
<1>4. GlobalPercentage(fs) = (2 * (P(1) + P(2) + P(3) + P(4) + P(5)) + 5) \div 10
  <2>1. Len(Frameworks) = 5 /\ 2 * 5 = 10
    BY FrameworksAre
  <2> QED
    BY <2>1 DEF GlobalPercentage
<1>5. (\A i \in DOMAIN Frameworks : Full(i)) <=> (\A i \in DOMAIN Frameworks : P(i) = 100)
  <2> HIDE DEF P, Full
  <2>1. \A i \in DOMAIN Frameworks : Full(i) => P(i) = 100
    BY <1>1
  <2>2. \A i \in DOMAIN Frameworks : P(i) = 100 => Full(i)
    BY <1>1
  <2> QED
    BY <2>1, <2>2
<1> DEFINE sum == P(1) + P(2) + P(3) + P(4) + P(5)
<1>6. sum \in 0 .. 500 /\ (sum = 500 <=> \A i \in DOMAIN Frameworks : P(i) = 100)
      /\ (sum # 500 => sum <= 497)
  <2>1. \A i \in DOMAIN Frameworks : P(i) \in 0 .. 100 /\ (P(i) = 100 \/ P(i) <= 97)
    <3> HIDE DEF P
    <3> QED
      BY <1>1
  <2> DEFINE p1 == P(1)  p2 == P(2)  p3 == P(3)  p4 == P(4)  p5 == P(5)
  <2>2. /\ p1 \in 0 .. 100 /\ (p1 = 100 \/ p1 <= 97) /\ p2 \in 0 .. 100 /\ (p2 = 100 \/ p2 <= 97)
        /\ p3 \in 0 .. 100 /\ (p3 = 100 \/ p3 <= 97) /\ p4 \in 0 .. 100 /\ (p4 = 100 \/ p4 <= 97)
        /\ p5 \in 0 .. 100 /\ (p5 = 100 \/ p5 <= 97)
    BY <1>2, <2>1
  <2>3. (\A i \in DOMAIN Frameworks : P(i) = 100) <=>
          (p1 = 100 /\ p2 = 100 /\ p3 = 100 /\ p4 = 100 /\ p5 = 100)
    BY <1>2
  <2>4. sum = p1 + p2 + p3 + p4 + p5
    OBVIOUS
  <2> HIDE DEF p1, p2, p3, p4, p5, sum, P
  <2> QED
    BY <2>2, <2>3, <2>4
<1> HIDE DEF P, Full, sum
<1>7. (2 * sum + 5) \div 10 = 100 <=> sum = 500
  BY <1>6
<1>8. GlobalPercentage(fs) = (2 * sum + 5) \div 10
  BY <1>4 DEF sum
<1> QED
  BY <1>3, <1>5, <1>6, <1>7, <1>8

\* A serious finding cannot hide from the compliance overview.
THEOREM GraveStaysVisible == Spec => []GraveIsNonCompliant
<1>1. ASSUME PostureInv PROVE GraveIsNonCompliant
  <2> DEFINE grave == {f \in Judged : f.severity \in {"CRITICAL", "HIGH"}}
  <2>1. IsFiniteSet(Judged) /\ \A f \in Judged : RowOK(f)
    BY <1>1, FS_Subset DEF PostureInv, RowsOK, Judged
  <2>2. ASSUME NEW f \in grave
        PROVE  \E i \in DOMAIN Frameworks : \E c \in DOMAIN Frameworks[i] :
                 f \in Failing(Frameworks[i], c, Judged)
    <3>1. PICK k \in DOMAIN Frameworks[1] : f.rule \in Frameworks[1][k]
      BY <2>1, GraveBreaksControl
    <3>2. f \in Failing(Frameworks[1], k, Judged) /\ 1 \in DOMAIN Frameworks
      BY <3>1, FrameworksAre DEF Failing
    <3> QED
      BY <3>2
  <2>3. grave # {} => \E c \in FailingControls(Judged) :
                        c.worst = WorstSeverity(grave) /\ MayBeShown(c, Judged)
    BY <2>1, GraveIsShown
  <2>4. GlobalPercentage(Judged) = 100 <=> FailingControls(Judged) = {}
    BY FullOverviewMeansNoneFails
  <2> QED
    BY <2>2, <2>3, <2>4, Zenon DEF GraveIsNonCompliant
<1> QED
  BY <1>1, PostureInvariant, PTL

-----------------------------------------------------------------------------
\* Fewer findings: the score of an asset and of the organization, as the runs check them.
LEMMA AssetScoreRises ==
  ASSUME NEW fs, IsFiniteSet(fs), NEW gs \in SUBSET fs, NEW a, NEW c \in Criticalities
  PROVE  /\ AssetScore(gs, a, c) >= AssetScore(fs, a, c)
         /\ AssetScore(gs, a, c) \in 0 .. 100 /\ AssetScore(fs, a, c) \in 0 .. 100
<1> DEFINE Part(hs) == {f \in hs : f.asset = a}
<1>1. \A hs : Counts(hs, a) = CountsOf(Part(hs))
  <2> TAKE hs
  <2>1. \A s : {f \in hs : f.asset = a /\ f.severity = s} = {f \in Part(hs) : f.severity = s}
    OBVIOUS
  <2> HIDE DEF Part
  <2> QED
    BY <2>1, Zenon DEF Counts, CountsOf
<1>2. \A hs : AssetScore(hs, a, c) = Score(CountsOf(Part(hs)), c)
  BY <1>1, Zenon DEF AssetScore
<1>3. IsFiniteSet(Part(fs)) /\ Part(gs) \in SUBSET Part(fs)
  BY SubsetIsFinite
<1> HIDE DEF Part
<1>4. IsFiniteSet(Part(gs))
  BY <1>3, SubsetIsFinite
<1>5. ASSUME NEW hs, IsFiniteSet(hs)
      PROVE  Score(CountsOf(hs), c) \in 0 .. 100
  <2>1. \A s \in Bands : Cardinality({f \in hs : f.severity = s}) \in Nat
    BY <1>5, FS_Subset, FS_CardinalityType
  <2>2. CountsOf(hs) \in BandCounts
    BY <2>1 DEF CountsOf, BandCounts
  <2> QED
    BY <2>2, ScoreInRange
<1>6. Score(CountsOf(Part(gs)), c) >= Score(CountsOf(Part(fs)), c)
  BY <1>3, ClosingRaisesScore
<1> QED
  BY <1>2, <1>3, <1>4, <1>5, <1>6

\* So is the score of the organization, whichever of its assets are scored.
LEMMA OrganizationScoreRises ==
  ASSUME NEW fs, IsFiniteSet(fs), NEW gs \in SUBSET fs, NEW assets, NEW c \in Criticalities
  PROVE  OrganizationScore(gs, assets, c) >= OrganizationScore(fs, assets, c)
<1> DEFINE half(hs, a) == IF a \in assets THEN AssetScore(hs, a, c) ELSE NoScore
<1>1. \A a : /\ half(gs, a) \in 0 .. 100 \cup {NoScore} /\ half(fs, a) \in 0 .. 100 \cup {NoScore}
             /\ half(fs, a) <= half(gs, a) /\ (half(fs, a) = NoScore <=> half(gs, a) = NoScore)
  BY AssetScoreRises DEF NoScore
<1>2. \A hs : OrganizationScore(hs, assets, c) = HybridScore(half(hs, "site"), half(hs, "cloud"))
  BY Zenon DEF OrganizationScore
<1> HIDE DEF half
<1>3. /\ HybridScore(half(fs, "site"), half(fs, "cloud")) <= HybridScore(half(gs, "site"), half(gs, "cloud"))
      /\ HybridScore(half(fs, "site"), half(fs, "cloud")) \in 0 .. 100 \cup {NoScore}
  BY <1>1, HybridIsMonotone
<1>4. HybridScore(half(gs, "site"), half(gs, "cloud")) \in 0 .. 100 \cup {NoScore}
  <2>1. \A a : half(gs, a) \in 0 .. 100 \cup {NoScore} /\ half(gs, a) <= half(gs, a)
    BY <1>1 DEF NoScore
  <2> QED
    BY <2>1, HybridIsMonotone
<1> QED
  BY <1>2, <1>3, <1>4 DEF NoScore

\* So is the percentage of the overview.
LEMMA OverviewRises ==
  ASSUME NEW fs, NEW gs \in SUBSET fs
  PROVE  GlobalPercentage(gs) >= GlobalPercentage(fs)
<1> DEFINE P(hs, i) == FrameworkPercentage(Frameworks[i], hs)
           Sum(hs) == 2 * (P(hs, 1) + P(hs, 2) + P(hs, 3) + P(hs, 4) + P(hs, 5)) + 5
<1>1. \A i \in DOMAIN Frameworks : P(gs, i) \in Nat /\ P(fs, i) \in Nat /\ P(gs, i) >= P(fs, i)
  <2> TAKE i \in DOMAIN Frameworks
  <2>1. P(gs, i) \in 0 .. 100 /\ P(fs, i) \in 0 .. 100
    BY PercentageOfFramework
  <2>2. P(gs, i) >= P(fs, i)
    BY FrameworksAreFew, ClosingRaisesCompliance
  <2> QED
    BY <2>1, <2>2
<1>2. DOMAIN Frameworks = {1, 2, 3, 4, 5} /\ Len(Frameworks) = 5 /\ 2 * 5 = 10
  BY FrameworksAre
<1>3. \A hs : GlobalPercentage(hs) = Sum(hs) \div 10
  BY <1>2 DEF GlobalPercentage
<1> HIDE DEF P
<1>4. Sum(gs) \in Nat /\ Sum(fs) \in Nat /\ Sum(fs) <= Sum(gs)
  BY <1>1, <1>2
<1> HIDE DEF Sum
<1>5. Sum(fs) \div 10 \in Nat /\ Sum(gs) \div 10 \in Nat /\ Sum(fs) \div 10 <= Sum(gs) \div 10
  BY <1>4, QuotientOrder
<1> QED
  BY <1>3, <1>5

-----------------------------------------------------------------------------
\* No path of the first set of paths but is in the second, at least as severe.
Milder(P, Q) ==
  \A p \in P : \E q \in Q : q.id = p.id /\ SeverityWeight[q.severity] >= SeverityWeight[p.severity]

\* Two paths of one identifier, by their severities.
LEMMA MilderPath ==
  ASSUME NEW id, NEW s \in Severities, NEW z \in Severities, SeverityWeight[s] <= SeverityWeight[z],
         NEW parts, NEW others, NEW quick, NEW fast
  PROVE  Milder(Path(id, s, parts, quick), Path(id, z, others, fast))
<1> DEFINE Rec(sev, fs, q) ==
             LET wins == {f \in fs : EffortOf(f.rule) = "QUICK_WIN"}
             IN [id |-> id, severity |-> sev, findings |-> fs, quickWins |-> Cardinality(wins),
                 effort |-> IF q \/ wins # {} THEN "QUICK_WIN" ELSE "MODERATE"]
<1>1. Path(id, s, parts, quick) = {Rec(s, parts, quick)} /\ Path(id, z, others, fast) = {Rec(z, others, fast)}
  BY Zenon DEF Path
<1>2. /\ Rec(s, parts, quick).id = id /\ Rec(s, parts, quick).severity = s
      /\ Rec(z, others, fast).id = id /\ Rec(z, others, fast).severity = z
  OBVIOUS
<1>3. SeverityWeight[z] >= SeverityWeight[s]
  BY DEF Severities, SeverityWeight
<1> HIDE DEF Rec
<1> QED
  BY <1>1, <1>2, <1>3 DEF Milder

\* A path whose severity does not depend on the findings.
LEMMA SamePath ==
  ASSUME NEW id, NEW s \in {"CRITICAL", "HIGH"}, NEW parts, NEW others, NEW quick
  PROVE  Milder(Path(id, s, parts, quick), Path(id, s, others, quick))
<1>1. s \in Severities /\ SeverityWeight[s] <= SeverityWeight[s]
  BY DEF Severities, SeverityWeight
<1> QED
  BY <1>1, MilderPath

\* evaluatePaymentFraud, with fewer findings.
LEMMA MilderFraud ==
  ASSUME NEW fs, NEW gs \in SUBSET fs
  PROVE  Milder(PaymentFraud(gs), PaymentFraud(fs))
<1> DEFINE scripts(hs) == Of(hs, {"WEB-SRI-MISSING-EXTERNAL-SCRIPT"})
           policies(hs) == Of(hs, {"HDR-CSP-MISSING", "HDR-CSP-UNSAFE"})
           forms(hs) == Of(hs, {"HDR-COOKIE-INSECURE", "HDR-COOKIE-PREFIX-INVALID",
                                "HDR-COOKIE-NO-HTTPONLY", "HDR-COOKIE-NO-SAMESITE",
                                "HDR-COOKIE-SAMESITE-NONE-INSECURE",
                                "HDR-CACHE-CONTROL-MISSING-SENSITIVE"})
                        \cup On(hs, {"checkout", "cart"})
           pairs(hs) == {<<scripts(hs), policies(hs)>>, <<scripts(hs), forms(hs)>>, <<policies(hs), forms(hs)>>}
           none(hs) == \A p \in pairs(hs) : p[1] = {} \/ p[2] = {}
           path(hs) == Path("AP-PAYMENT-FRAUD", "CRITICAL", scripts(hs) \cup policies(hs) \cup forms(hs), FALSE)
<1>1. \A hs : PaymentFraud(hs) = IF none(hs) THEN {} ELSE path(hs)
  BY Zenon DEF PaymentFraud
<1>2. scripts(gs) \subseteq scripts(fs) /\ policies(gs) \subseteq policies(fs) /\ forms(gs) \subseteq forms(fs)
  BY DEF Of, On
<1>3. Milder(path(gs), path(fs))
  BY SamePath
<1> HIDE DEF scripts, policies, forms, path
<1>4. none(fs) => none(gs)
  BY <1>2
<1> HIDE DEF none
<1> QED
  BY <1>1, <1>3, <1>4 DEF Milder

\* evaluateStoreTakeover, with fewer findings: it may fall from CRITICAL to HIGH.
LEMMA MilderTakeover ==
  ASSUME NEW fs, NEW gs \in SUBSET fs
  PROVE  Milder(StoreTakeover(gs), StoreTakeover(fs))
<1> DEFINE logins(hs) == Of(hs, {"PATH-ADMIN-PANEL"}) \cup On(hs, {"admin", "login"})
           users(hs) == Of(hs, {"CMS-WP-USER-ENUMERATION"})
           amplifiers(hs) == Of(hs, {"CMS-WP-XMLRPC-ENABLED"})
           none(hs) == logins(hs) = {} \/ users(hs) \cup amplifiers(hs) = {}
           severity(hs) == IF users(hs) # {} /\ amplifiers(hs) # {} THEN "CRITICAL" ELSE "HIGH"
           path(hs) == Path("AP-STORE-TAKEOVER", severity(hs), logins(hs) \cup users(hs) \cup amplifiers(hs), FALSE)
<1>1. \A hs : StoreTakeover(hs) = IF none(hs) THEN {} ELSE path(hs)
  BY Zenon DEF StoreTakeover
<1>2. logins(gs) \subseteq logins(fs) /\ users(gs) \subseteq users(fs) /\ amplifiers(gs) \subseteq amplifiers(fs)
  BY DEF Of, On
<1> HIDE DEF logins, users, amplifiers
<1>3. none(fs) => none(gs)
  BY <1>2
<1>4. /\ severity(gs) \in Severities /\ severity(fs) \in Severities
      /\ SeverityWeight[severity(gs)] <= SeverityWeight[severity(fs)]
  BY <1>2 DEF Severities, SeverityWeight
<1> HIDE DEF severity
<1>5. Milder(path(gs), path(fs))
  BY <1>4, MilderPath
<1> HIDE DEF none, path
<1> QED
  BY <1>1, <1>3, <1>5 DEF Milder

\* evaluateBrandImpersonation, with fewer findings.
LEMMA MilderImpersonation ==
  ASSUME NEW fs, NEW gs \in SUBSET fs
  PROVE  Milder(BrandImpersonation(gs), BrandImpersonation(fs))
<1> DEFINE dmarc(hs) == Of(hs, {"MAIL-DMARC-MISSING", "MAIL-DMARC-MONITOR-ONLY"})
           others(hs) == Of(hs, {"MAIL-SPF-MISSING", "MAIL-SPF-PASS-ALL", "EMAIL-BIMI-INVALID",
                                 "EMAIL-IP-BLACKLISTED", "EMAIL-NO-MTA-STS"})
           path(hs) == Path("AP-BRAND-IMPERSONATION", "HIGH", dmarc(hs) \cup others(hs), TRUE)
<1>1. \A hs : BrandImpersonation(hs) = IF dmarc(hs) = {} \/ others(hs) = {} THEN {} ELSE path(hs)
  BY Zenon DEF BrandImpersonation
<1>2. dmarc(gs) \subseteq dmarc(fs) /\ others(gs) \subseteq others(fs)
  BY DEF Of
<1>3. Milder(path(gs), path(fs))
  BY SamePath
<1> HIDE DEF dmarc, others, path
<1> QED
  BY <1>1, <1>2, <1>3 DEF Milder

\* evaluateDataExfiltration, with fewer findings.
LEMMA MilderExfiltration ==
  ASSUME NEW fs, NEW gs \in SUBSET fs
  PROVE  Milder(DataExfiltration(gs), DataExfiltration(fs))
<1> DEFINE secrets(hs) == Of(hs, {"WEB-JS-SECRET-LEAK", "API-QUERY-SECRET-PARAM",
                                  "WEB-DEBUG-STACKTRACE-LEAK", "WEB-INTERNAL-PATH-DISCLOSURE",
                                  "PATH-SECRETS-EXPOSED"})
           interfaces(hs) == Of(hs, {"HDR-CORS-ORIGIN-REFLECTION", "HDR-CORS-WILDCARD",
                                     "API-SWAGGER-EXPOSED", "API-DOCS-UNAUTHENTICATED-OPERATIONS",
                                     "API-INTERNAL-HOST-EXPOSED", "API-GRAPHQL-INTROSPECTION"})
           near(hs) == \E f \in hs : CategoryOf[f.rule] = "SENSITIVE_PATH"
           path(hs) == Path("AP-DATA-EXFILTRATION", "CRITICAL", secrets(hs) \cup interfaces(hs), FALSE)
           some(hs) == secrets(hs) # {} \/ (interfaces(hs) # {} /\ near(hs))
<1>1. \A hs : DataExfiltration(hs) = IF some(hs) THEN path(hs) ELSE {}
  BY Zenon DEF DataExfiltration
<1>2. secrets(gs) \subseteq secrets(fs) /\ interfaces(gs) \subseteq interfaces(fs) /\ (near(gs) => near(fs))
  BY DEF Of
<1>3. Milder(path(gs), path(fs))
  BY SamePath
<1> HIDE DEF secrets, interfaces, near, path
<1>4. some(gs) => some(fs)
  BY <1>2
<1> HIDE DEF some
<1> QED
  BY <1>1, <1>3, <1>4 DEF Milder

\* evaluateInfrastructureCompromise and evaluateSubdomainTakeover, with fewer findings.
LEMMA MilderInfrastructure ==
  ASSUME NEW fs, NEW gs \in SUBSET fs
  PROVE  /\ Milder(Infrastructure(gs), Infrastructure(fs))
         /\ Milder(SubdomainTakeover(gs), SubdomainTakeover(fs))
<1> DEFINE parts(hs) == Of(hs, {"SVC-CLEARTEXT-REMOTE-ADMIN", "SVC-CLEARTEXT-FILE-TRANSFER",
                                "SVC-DATABASE-EXPOSED", "SVC-ORCHESTRATION-EXPOSED",
                                "AWS-S3-PUBLIC-READ", "AWS-RDS-PUBLIC-ACCESS",
                                "AZ-BLOB-PUBLIC-ACCESS", "AZ-SQL-PUBLIC-ACCESS"})
           names(hs) == Of(hs, {"DNS-DNSSEC-BOGUS"})
           path(hs) == Path("AP-INFRASTRUCTURE-COMPROMISE", "CRITICAL", parts(hs), TRUE)
           takeover(hs) == Path("AP-SUBDOMAIN-TAKEOVER", "HIGH", names(hs), TRUE)
<1>1. /\ \A hs : Infrastructure(hs) = IF parts(hs) = {} THEN {} ELSE path(hs)
      /\ \A hs : SubdomainTakeover(hs) = IF names(hs) = {} THEN {} ELSE takeover(hs)
  BY Zenon DEF Infrastructure, SubdomainTakeover
<1>2. parts(gs) \subseteq parts(fs) /\ names(gs) \subseteq names(fs)
  BY DEF Of
<1>3. Milder(path(gs), path(fs)) /\ Milder(takeover(gs), takeover(fs))
  BY SamePath
<1> HIDE DEF parts, names, path, takeover
<1> QED
  BY <1>1, <1>2, <1>3 DEF Milder

\* With fewer findings no attack path appears and none becomes more severe.
THEOREM NoPathAppears ==
  ASSUME NEW fs, NEW gs \in SUBSET fs
  PROVE  \A p \in AttackPathsOf(gs) : \E q \in AttackPathsOf(fs) :
           q.id = p.id /\ SeverityWeight[q.severity] >= SeverityWeight[p.severity]
BY MilderFraud, MilderTakeover, MilderImpersonation, MilderExfiltration, MilderInfrastructure
   DEF AttackPathsOf, Milder

\* The same of the paths of all assets.
LEMMA PathsAreMilder ==
  ASSUME NEW fs, NEW gs \in SUBSET fs
  PROVE  \A p \in Paths(gs) : \E q \in Paths(fs) :
           /\ q.asset = p.asset /\ q.id = p.id
           /\ SeverityWeight[q.severity] >= SeverityWeight[p.severity]
<1> DEFINE Part(hs, a) == {f \in hs : f.asset = a}
           Rec(a, p) == [asset |-> a, id |-> p.id, severity |-> p.severity]
<1>1. \A hs : Paths(hs) = UNION {{Rec(a, p) : p \in AttackPathsOf(Part(hs, a))} : a \in Assets}
  BY Zenon DEF Paths
<1>2. \A a, p : Rec(a, p).asset = a /\ Rec(a, p).id = p.id /\ Rec(a, p).severity = p.severity
  OBVIOUS
<1>3. \A a : Part(gs, a) \in SUBSET Part(fs, a)
  OBVIOUS
<1> HIDE DEF Part, Rec
<1> SUFFICES ASSUME NEW p \in Paths(gs)
             PROVE  \E q \in Paths(fs) :
                      /\ q.asset = p.asset /\ q.id = p.id
                      /\ SeverityWeight[q.severity] >= SeverityWeight[p.severity]
  OBVIOUS
<1>4. PICK a \in Assets : \E x \in AttackPathsOf(Part(gs, a)) : p = Rec(a, x)
  BY <1>1
<1>5. PICK x \in AttackPathsOf(Part(gs, a)) : p = Rec(a, x)
  BY <1>4
<1>6. PICK y \in AttackPathsOf(Part(fs, a)) :
        y.id = x.id /\ SeverityWeight[y.severity] >= SeverityWeight[x.severity]
  BY <1>3, NoPathAppears
<1>7. Rec(a, y) \in Paths(fs)
  BY <1>1
<1> QED
  BY <1>2, <1>5, <1>6, <1>7

\* A step that only closes findings makes nothing worse.
THEOREM ClosingHelps == Spec => ClosingNeverHurts
<1> DEFINE Better ==
      /\ \A c \in Criticalities :
           /\ \A a \in Assets : AssetScore(open', a, c) >= AssetScore(open, a, c)
           /\ OrganizationScore(open', scanned, c) >= OrganizationScore(open, scanned, c)
      /\ \A i \in DOMAIN Frameworks :
           FrameworkPercentage(Frameworks[i], Judged') >= FrameworkPercentage(Frameworks[i], Judged)
      /\ GlobalPercentage(Judged') >= GlobalPercentage(Judged)
      /\ \A p \in Paths(open') : \E q \in Paths(open) :
           /\ q.asset = p.asset /\ q.id = p.id
           /\ SeverityWeight[q.severity] >= SeverityWeight[p.severity]
<1>1. ASSUME PostureInv, open' \subseteq open PROVE Better
  <2>1. IsFiniteSet(open)
    BY <1>1 DEF PostureInv, RowsOK
  <2>2. Judged' \subseteq Judged
    BY <1>1 DEF Judged
  <2>3. \A c \in Criticalities :
          /\ \A a \in Assets : AssetScore(open', a, c) >= AssetScore(open, a, c)
          /\ OrganizationScore(open', scanned, c) >= OrganizationScore(open, scanned, c)
    BY <1>1, <2>1, AssetScoreRises, OrganizationScoreRises
  <2>4. \A i \in DOMAIN Frameworks :
          FrameworkPercentage(Frameworks[i], Judged') >= FrameworkPercentage(Frameworks[i], Judged)
    BY <2>2, FrameworksAreFew, ClosingRaisesCompliance
  <2>5. GlobalPercentage(Judged') >= GlobalPercentage(Judged)
    BY <2>2, OverviewRises
  <2>6. \A p \in Paths(open') : \E q \in Paths(open) :
          /\ q.asset = p.asset /\ q.id = p.id
          /\ SeverityWeight[q.severity] >= SeverityWeight[p.severity]
    BY <1>1, PathsAreMilder
  <2> QED
    BY <2>3, <2>4, <2>5, <2>6
<1>2. PostureInv /\ [Next]_vars => [open' \subseteq open /\ scanned' = scanned => Better]_vars
  BY <1>1
<1> QED
  BY <1>2, PostureInvariant, PTL DEF Spec, ClosingNeverHurts
=============================================================================
