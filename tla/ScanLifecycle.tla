---------------------------- MODULE ScanLifecycle ----------------------------
(***************************************************************************)
(* What the scan queue promises about a row of table `scans`, with no       *)
(* worker, no process and no transaction in sight: which changes of status  *)
(* exist, that a final status is final, that at most one scan of an asset   *)
(* and type is in progress, and that the results of a scan (its findings,   *)
(* ports, hosts and score snapshot) are stored exactly when it becomes      *)
(* COMPLETED.  ScanQueue is shown to implement this module.                 *)
(***************************************************************************)
EXTENDS FiniteSets

CONSTANTS
    Scans,      \* rows that may ever be created in table scans
    KeyOf       \* KeyOf[s]: the <<asset, type>> pair of row s

VARIABLES
    status,     \* status[s]: column scans.status, "NONE" before the INSERT
    results     \* rows whose outcome has been stored

lifecycleVars == <<status, results>>

InProgress == {"PENDING", "RUNNING"}
Final == {"COMPLETED", "FAILED", "CANCELLED"}
ScanStatus == {"NONE"} \cup InProgress \cup Final

LifecycleTypeOK ==
    /\ status \in [Scans -> ScanStatus]
    /\ results \subseteq Scans

LifecycleInit ==
    /\ status = [s \in Scans |-> "NONE"]
    /\ results = {}

SetStatus(s, st) == status' = [status EXCEPT ![s] = st]

\* A scan of an asset and type is accepted while none is in progress.
Create(s) ==
    /\ status[s] = "NONE"
    /\ \A t \in Scans : KeyOf[t] = KeyOf[s] => status[t] \notin InProgress
    /\ SetStatus(s, "PENDING")
    /\ UNCHANGED results

Start(s) ==
    /\ status[s] = "PENDING"
    /\ SetStatus(s, "RUNNING")
    /\ UNCHANGED results

\* A transient failure or a shutdown gives the scan back to the queue.
Requeue(s) ==
    /\ status[s] = "RUNNING"
    /\ SetStatus(s, "PENDING")
    /\ UNCHANGED results

Complete(s) ==
    /\ status[s] = "RUNNING"
    /\ SetStatus(s, "COMPLETED")
    /\ results' = results \cup {s}

\* One statement may fail several orphans at once.
Fail(S) ==
    /\ \A s \in S : status[s] = "RUNNING"
    /\ status' = [s \in Scans |-> IF s \in S THEN "FAILED" ELSE status[s]]
    /\ UNCHANGED results

Cancel(s) ==
    /\ status[s] \in InProgress
    /\ SetStatus(s, "CANCELLED")
    /\ UNCHANGED results

LifecycleNext ==
    \/ \E s \in Scans :
         Create(s) \/ Start(s) \/ Requeue(s) \/ Complete(s) \/ Cancel(s)
    \/ \E S \in SUBSET Scans : Fail(S)

LifecycleSpec == LifecycleInit /\ [][LifecycleNext]_lifecycleVars
==============================================================================
