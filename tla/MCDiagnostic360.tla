--------------------------- MODULE MCDiagnostic360 ---------------------------
(* Instances of Diagnostic360 for TLC.                                      *)
EXTENDS Diagnostic360

CONSTANTS b1, b2, c1, c2, p1, p2, w1, t1, d1

TypeOfRows == [s \in Scans |->
    CASE s \in {p1, p2} -> "PORT_SCAN"
      [] s = w1 -> "WEB_HEADERS"
      [] s = t1 -> "SSL_CERT"
      [] s = d1 -> "SUBDOMAIN_DISCOVERY"]

\* Profile PERIMETER_FAST, and FULL_AUDIT of a domain with one type per stage.
PerimeterFast == <<{"PORT_SCAN"}, {"WEB_HEADERS", "SSL_CERT"}>>
ThreeStages == <<{"SUBDOMAIN_DISCOVERY"}, {"PORT_SCAN"}, {"WEB_HEADERS"}>>
==============================================================================
