------------------------------ MODULE Scoring ------------------------------
\* The Security Score (risk/scoring.ts and the aggregation of
\* risk/risk-scores.service.ts). A penalty is held in hundredths of a point,
\* which is the precision that the code rounds to.
EXTENDS Integers, FiniteSets

Bands == {"CRITICAL", "HIGH", "MEDIUM", "LOW", "INFO"}
Criticalities == {"CRITICAL", "HIGH", "MEDIUM", "LOW"}

\* SEVERITY_WEIGHTS and SEVERITY_CAPS, in points.
Weight == [s \in Bands |->
  CASE s = "CRITICAL" -> 25 [] s = "HIGH" -> 10 [] s = "MEDIUM" -> 4
    [] s = "LOW" -> 1 [] s = "INFO" -> 0]
Cap == [s \in Bands |->
  CASE s = "CRITICAL" -> 100 [] s = "HIGH" -> 60 [] s = "MEDIUM" -> 30
    [] s = "LOW" -> 10 [] s = "INFO" -> 0]

\* CRITICALITY_FACTORS, in hundredths.
Factor == [c \in Criticalities |->
  CASE c = "CRITICAL" -> 150 [] c = "HIGH" -> 125 [] c = "MEDIUM" -> 100
    [] c = "LOW" -> 75]

AtMost(x, bound) == IF x <= bound THEN x ELSE bound
AtLeast(x, bound) == IF x >= bound THEN x ELSE bound

\* The penalty of n findings of one severity, limited by its cap.
Penalty(s, n, criticality) == AtMost(Weight[s] * Factor[criticality] * n, 100 * Cap[s])

\* The sum is rounded to points, a half upwards.
TotalPenalty(counts, criticality) ==
  (Penalty("CRITICAL", counts["CRITICAL"], criticality)
   + Penalty("HIGH", counts["HIGH"], criticality)
   + Penalty("MEDIUM", counts["MEDIUM"], criticality)
   + Penalty("LOW", counts["LOW"], criticality)
   + Penalty("INFO", counts["INFO"], criticality) + 50) \div 100

\* computeScore
Score(counts, criticality) == AtLeast(AtMost(100 - TotalPenalty(counts, criticality), 100), 0)

\* gradeFor
GradeFor(score) ==
  CASE score >= 90 -> "A" [] score >= 75 -> "B" [] score >= 60 -> "C"
    [] score >= 40 -> "D" [] OTHER -> "F"

\* aggregateScores for n assets whose scores add up to sum, a half upwards.
MeanScore(sum, n) == (2 * sum + n) \div (2 * n)

NoScore == -1

\* A slip: a perimeter without a single finding counts as none.
HybridOfTheFaulty(perimeter, cloud) ==
  CASE perimeter \notin {NoScore, 100} /\ cloud # NoScore -> MeanScore(perimeter + cloud, 2)
    [] cloud # NoScore -> cloud
    [] OTHER -> perimeter

\* computeHybridOrganizationScore: half from the perimeter, half from the cloud,
\* or what there is of the two. Unscored assets do not count.
HybridScore(perimeter, cloud) ==
  CASE perimeter # NoScore /\ cloud # NoScore -> MeanScore(perimeter + cloud, 2)
    [] perimeter # NoScore /\ cloud = NoScore -> perimeter
    [] OTHER -> cloud
=============================================================================
