--------------------------- MODULE FindingDrafts ---------------------------
\* The drafts that scanners and evaluators return (scans/scanner.interface.ts):
\* a pair <<rule, location>>, which is all its fingerprint is made of.

EXTENDS RuleCatalog

\* A rule that is broken when its condition holds.
When(rule, holds) == IF holds THEN {rule} ELSE {}

\* One draft for each of the rules.
At(rules, location) == {<<r, location>> : r \in rules}
=============================================================================
