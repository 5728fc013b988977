---------------------------- MODULE MCOperations -----------------------------
(* Instances of what the background timers drive, for TLC: the delivery of  *)
(* alerts, continuous monitoring and retention.  They share no state, so a  *)
(* behaviour looks at one of them and leaves the others at their start.     *)
EXTENDS AlertDelivery, Monitoring, Retention

CONSTANTS j1, q1, r1, i1, i2, o1, o2, a1, a2, k1, k2, u1, u2

VARIABLE part       \* the component this behaviour looks at

Hosts == [p \in {j1, q1, r1} |-> IF p = r1 THEN i2 ELSE i1]
HighRank == [a \in Alerts |-> 1]
OneAlert == 1..1
Owners == [a \in {a1, a2} |-> IF a = a1 THEN o1 ELSE o2]
Periods == [f \in {"DAILY", "WEEKLY"} |-> IF f = "DAILY" THEN 4 ELSE 6]
ThreeRows == 1..3

Init ==
    /\ AlertInit /\ MonitoringInit /\ RetentionInit
    /\ part \in {"alerts", "monitoring", "retention"}
    /\ frequency = [o \in {o1, o2} |-> IF part # "monitoring" THEN "OFF"
                                        ELSE IF o = o1 THEN "DAILY" ELSE "WEEKLY"]
    /\ part # "retention" => assetOf = [s \in Rows |-> a1]

Next ==
    /\ UNCHANGED part
    /\ \/ part = "alerts" /\ AlertNext /\ UNCHANGED <<monitoringVars, retentionVars>>
       \/ part = "monitoring" /\ MonitoringNext /\ UNCHANGED <<alertVars, retentionVars>>
       \/ part = "retention" /\ RetentionNext /\ UNCHANGED <<alertVars, monitoringVars>>

\* AlertFairness and MonitoringFairness, each of the component looked at.
FairSpec ==
    /\ Init /\ [][Next]_<<part, alertVars, monitoringVars, retentionVars>>
    /\ \A p \in Passes : WF_alertVars(part = "alerts" /\ Step(p))
    /\ \A j \in Jobs : WF_alertVars(part = "alerts" /\ DeliverNext(j))
    /\ \A s \in Schedulers : /\ WF_alertVars(part = "alerts" /\ AutoRead(s))
                             /\ WF_alertVars(part = "alerts" /\ AutoNext(s))
    /\ \A a \in Alerts, c \in Channels : WF_alertVars(part = "alerts" /\ Elapse(a, c))
    /\ WF_monitoringVars(part = "monitoring" /\ PassTime)
    /\ \A t \in Timers : /\ WF_monitoringVars(part = "monitoring" /\ StartPass(t))
                         /\ WF_monitoringVars(part = "monitoring" /\ PassStep(t))
==============================================================================
