----------------------------- MODULE MCScanQueue -----------------------------
(* Instances of ScanQueue for TLC.                                          *)
EXTENDS ScanQueue

CONSTANTS i1, i2, h1, h2, s1, s2, s3

\* s1 and s2 are scans of one asset and type, s3 of another asset of their
\* organisation.
AssetOfRows == [s \in Scans |-> IF s = s3 THEN "b" ELSE "a"]
TypeOfRows == [s \in Scans |-> IF s = s3 THEN "SSL_CERT" ELSE "PORT_SCAN"]
OneOrg == [s \in Scans |-> "org"]
RankOfRows == [s \in Scans |-> IF s = s2 THEN 2 ELSE 1]
HomeOfHandlers == [h \in Handlers |-> IF h = h1 THEN i1 ELSE i2]
==============================================================================
