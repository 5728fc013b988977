----------------------------- MODULE MCProgress ------------------------------
(* What must keep going, for TLC: the loop of a worker (WorkerLoop) drains   *)
(* the queue, and a polled batch (Diagnostic360) ends.  The two share no     *)
(* variable, so a behaviour looks at one of them and leaves the other at its *)
(* start.                                                                    *)
EXTENDS WorkerLoop

CONSTANTS Batches, Scans, TypeOf, TotalStages, StageTypes, Callers, MaxDeaths, NoBatch, NoScan
CONSTANTS b1, c1, c2, p1, w1

VARIABLES status, results, batchOf, stageOf, state, stage, call, deaths
VARIABLE part       \* the component this behaviour looks at

batchVars == <<status, results, batchOf, stageOf, state, stage, call, deaths>>

Diagnostic == INSTANCE Diagnostic360

TypeOfRows == [s \in {p1, w1} |-> IF s = p1 THEN "PORT_SCAN" ELSE "WEB_HEADERS"]

\* Profile PERIMETER_FAST.
PerimeterFast == <<{"PORT_SCAN"}, {"WEB_HEADERS", "SSL_CERT"}>>

ProgressInit ==
    /\ Init /\ Diagnostic!Init
    /\ part \in {"loop", "batch"}

ProgressNext ==
    /\ UNCHANGED part
    /\ \/ part = "loop" /\ Next /\ UNCHANGED batchVars
       \/ part = "batch" /\ Diagnostic!Next /\ UNCHANGED vars

\* FairSpec of both modules, each of the component looked at.
LoopIsFair ==
    /\ WF_vars(part = "loop" /\ KickAfterInsert)
    /\ WF_vars(part = "loop" /\ Poll)
    /\ WF_vars(part = "loop" /\ StartJob)
    /\ WF_vars(part = "loop" /\ NoRow)
    /\ WF_vars(part = "loop" /\ JobOver)
    /\ WF_vars(part = "loop" /\ JobEnds)
    /\ SF_vars(part = "loop" /\ Swept)
    /\ SF_vars(part = "loop" /\ ClaimRow)

BatchIsFair ==
    /\ \A s \in Scans : /\ WF_batchVars(part = "batch" /\ Diagnostic!ScanStarts(s))
                        /\ SF_batchVars(part = "batch" /\ Diagnostic!ScanEnds(s))
    /\ \A c \in Callers : WF_batchVars(part = "batch" /\ Diagnostic!CallStep(c))
    /\ \A b \in Batches : SF_batchVars(part = "batch" /\ Diagnostic!Poll(b))

ProgressSpec ==
    /\ ProgressInit /\ [][ProgressNext]_<<part, vars, batchVars>>
    /\ LoopIsFair /\ BatchIsFair

\* A batch does not stay IN_PROGRESS (Diagnostic360, advancePipeline).
EveryBatchEnds == Diagnostic!EveryBatchEnds
==============================================================================
