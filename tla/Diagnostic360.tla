---------------------------- MODULE Diagnostic360 ----------------------------
(***************************************************************************)
(* The 360 diagnostic of one asset (DiagnosticOrchestratorService): a batch *)
(* enqueues the scans of a stage, and advancePipeline, called by the        *)
(* completion hook of the worker and by every GET of the batch, moves to    *)
(* the next stage or completes the batch.  Cancelling a batch cancels its   *)
(* scans one at a time.                                                     *)
(*                                                                          *)
(* The scans behave as ScanLifecycle says; the queue and its workers        *)
(* (ScanQueue) are the environment that starts and ends them.  One action   *)
(* is one database statement of a call.                                     *)
(***************************************************************************)
EXTENDS Naturals, FiniteSets

CONSTANTS
    Batches,        \* rows that may be created in diagnostic_batches
    Scans,          \* rows that may be created in scans, all of the asset
    TypeOf,         \* TypeOf[s]: scan type of row s
    TotalStages,    \* number of stages of the profile
    StageTypes,     \* StageTypes[n]: scan types of stage n (getStagesForProfile)
    Callers,        \* calls of the orchestrator that can be under way at once
    MaxDeaths,      \* bound: calls cut short by the end of their process
    NoBatch,
    NoScan

ASSUME DiagnosticAssumption ==
    /\ TotalStages \in Nat \ {0}
    /\ DOMAIN StageTypes = 1..TotalStages
    /\ MaxDeaths \in Nat
    /\ NoBatch \notin Batches
    /\ NoScan \notin Scans

VARIABLES
    status,     \* status[s]: scans.status
    results,    \* scans whose results are stored
    batchOf,    \* batchOf[s]: scans.batch_id
    stageOf,    \* stageOf[s]: scans.stage, 0 when null
    state,      \* state[b]: diagnostic_batches.status, "none" before the INSERT
    stage,      \* stage[b]: diagnostic_batches.current_stage
    call,       \* call[c]: the call under way
    deaths      \* calls cut short so far

scanVars == <<status, results, batchOf, stageOf>>
batchVars == <<state, stage>>
vars == <<scanVars, batchVars, call, deaths>>

Queue == INSTANCE ScanLifecycle WITH KeyOf <- TypeOf

Types == UNION {StageTypes[n] : n \in 1..TotalStages}
FinalStates == {"COMPLETED", "FAILED", "CANCELLED"}

\* A call: its position, its batch, the stage it enqueues, the scan types or the
\* scans it still has to deal with, the status it read, the verdict it will write.
Idle == [pc |-> "idle", batch |-> NoBatch, stage |-> 0, types |-> {}, scans |-> {},
         scan |-> NoScan, seen |-> "NONE", verdict |-> "none", poll |-> FALSE]

Calls == [pc : {"idle", "create", "enqueue", "read", "bump", "consolidate", "write",
                "cancel", "cancelScan", "cancelBatch"},
          batch : Batches \cup {NoBatch}, stage : 0..TotalStages, types : SUBSET Types,
          scans : SUBSET Scans, scan : Scans \cup {NoScan}, seen : Queue!ScanStatus,
          verdict : FinalStates \cup {"none"}, poll : BOOLEAN]

Init ==
    /\ Queue!LifecycleInit
    /\ batchOf = [s \in Scans |-> NoBatch]
    /\ stageOf = [s \in Scans |-> 0]
    /\ state = [b \in Batches |-> "none"]
    /\ stage = [b \in Batches |-> 1]
    /\ call = [c \in Callers |-> Idle]
    /\ deaths = 0

ScansOf(b) == {s \in Scans : batchOf[s] = b}
InProgress(s) == status[s] \in Queue!InProgress
Go(c, pc) == call' = [call EXCEPT ![c].pc = pc]
Return(c) == call' = [call EXCEPT ![c] = Idle]

------------------------------------------------------------------------------
(* start(): no active batch of the asset, then the batch, then its scans.   *)

\* (A call starts only while the bounded rows leave one for it.)
StartCheck(c) ==
    /\ call[c] = Idle
    /\ \A b \in Batches : state[b] # "IN_PROGRESS"
    /\ Cardinality({d \in Callers : call[d].pc = "create"})
         < Cardinality({b \in Batches : state[b] = "none"})
    /\ Go(c, "create")
    /\ UNCHANGED <<scanVars, batchVars, deaths>>

StartCreate(c, b) ==
    /\ call[c].pc = "create"
    /\ state[b] = "none"
    /\ state' = [state EXCEPT ![b] = "IN_PROGRESS"]
    /\ call' = [call EXCEPT ![c] = [Idle EXCEPT !.pc = "enqueue", !.batch = b, !.stage = 1,
                                      !.types = StageTypes[1], !.poll = TRUE]]
    /\ UNCHANGED <<scanVars, stage, deaths>>

\* ScansService.enqueue, one type of the stage after another.
Enqueue(c, s) ==
    /\ call[c].pc = "enqueue"
    /\ TypeOf[s] \in call[c].types
    /\ Queue!Create(s)
    /\ batchOf' = [batchOf EXCEPT ![s] = call[c].batch]
    /\ stageOf' = [stageOf EXCEPT ![s] = call[c].stage]
    /\ call' = [call EXCEPT ![c].types = @ \ {TypeOf[s]}]
    /\ UNCHANGED <<batchVars, deaths>>

\* An error of enqueue is logged and the loop goes on: a scan of the type is in
\* progress, the hourly limit is reached, the asset is not active any more.
EnqueueRefused(c, t) ==
    /\ call[c].pc = "enqueue"
    /\ t \in call[c].types
    /\ call' = [call EXCEPT ![c].types = @ \ {t}]
    /\ UNCHANGED <<scanVars, batchVars, deaths>>

\* start() ends in getBatch, which advances the pipeline; advancePipeline returns.
EnqueueDone(c) ==
    /\ call[c].pc = "enqueue"
    /\ call[c].types = {}
    /\ call' = [call EXCEPT ![c] =
                  IF @.poll THEN [Idle EXCEPT !.pc = "read", !.batch = call[c].batch]
                            ELSE Idle]
    /\ UNCHANGED <<scanVars, batchVars, deaths>>

------------------------------------------------------------------------------
(* advancePipeline(): from the completion hook or from getBatch.            *)

AdvanceCall(c, b) ==
    /\ call[c] = Idle
    /\ state[b] # "none"
    /\ call' = [call EXCEPT ![c] = [Idle EXCEPT !.pc = "read", !.batch = b]]
    /\ UNCHANGED <<scanVars, batchVars, deaths>>

\* Slips: a RUNNING scan does not count, or an empty stage never ends.
StageOverButRunning(b) ==
    \A s \in ScansOf(b) : stageOf[s] = stage[b] => status[s] # "PENDING"

StageOverNotEmpty(b) ==
    /\ \A s \in ScansOf(b) : stageOf[s] = stage[b] => ~InProgress(s)
    /\ \E s \in ScansOf(b) : stageOf[s] = stage[b]

StageOver(b) == \A s \in ScansOf(b) : stageOf[s] = stage[b] => ~InProgress(s)

\* A slip: the last stage is not waited for.
MayMoveOnFromLast(b) == state[b] = "IN_PROGRESS" /\ (stage[b] = TotalStages \/ StageOver(b))

MayMoveOn(b) == state[b] = "IN_PROGRESS" /\ StageOver(b)

HasNextStage(b) == stage[b] < TotalStages

\* Reads the batch with its scans; stops unless its current stage is over.
AdvanceRead(c) ==
    LET b == call[c].batch IN
    /\ call[c].pc = "read"
    /\ IF MayMoveOn(b)
       THEN call' = [call EXCEPT ![c].pc = IF HasNextStage(b) THEN "bump" ELSE "consolidate",
                                 ![c].stage = IF HasNextStage(b) THEN stage[b] + 1 ELSE 0]
       ELSE Return(c)
    /\ UNCHANGED <<scanVars, batchVars, deaths>>

\* The stage computed from what was read is written unconditionally.
AdvanceBump(c) ==
    /\ call[c].pc = "bump"
    /\ stage' = [stage EXCEPT ![call[c].batch] = call[c].stage]
    /\ call' = [call EXCEPT ![c].pc = "enqueue", ![c].types = StageTypes[call[c].stage]]
    /\ UNCHANGED <<scanVars, state, deaths>>

\* A slip: only the scans of the last stage count.
VerdictOfLastStage(b) ==
    IF \A s \in ScansOf(b) : stageOf[s] = stage[b] => status[s] # "COMPLETED"
    THEN "FAILED" ELSE "COMPLETED"

Verdict(b) ==
    IF ScansOf(b) # {} /\ \A s \in ScansOf(b) : status[s] # "COMPLETED"
    THEN "FAILED" ELSE "COMPLETED"

\* completeBatch: reads the batch again, gathers its summary...
Consolidate(c) ==
    /\ call[c].pc = "consolidate"
    /\ call' = [call EXCEPT ![c].pc = "write", ![c].verdict = Verdict(call[c].batch)]
    /\ UNCHANGED <<scanVars, batchVars, deaths>>

\* ... and writes the verdict, whatever the status is by then.
CompleteBatch(c) ==
    /\ call[c].pc = "write"
    /\ state' = [state EXCEPT ![call[c].batch] = call[c].verdict]
    /\ Return(c)
    /\ UNCHANGED <<scanVars, stage, deaths>>

------------------------------------------------------------------------------
(* cancelBatch(): each active scan it read, then the batch.                 *)

CancelCall(c, b) ==
    /\ call[c] = Idle
    /\ state[b] # "none"
    /\ call' = [call EXCEPT ![c] = [Idle EXCEPT !.pc = "cancel", !.batch = b,
                                      !.scans = {s \in ScansOf(b) : InProgress(s)}]]
    /\ UNCHANGED <<scanVars, batchVars, deaths>>

\* ScansService.cancel: a status that is final by now is a 409, ignored here.
CancelScanRead(c, s) ==
    /\ call[c].pc = "cancel"
    /\ s \in call[c].scans
    /\ call' = [call EXCEPT ![c].scans = @ \ {s},
                            ![c].pc = IF InProgress(s) THEN "cancelScan" ELSE @,
                            ![c].scan = IF InProgress(s) THEN s ELSE @,
                            ![c].seen = IF InProgress(s) THEN status[s] ELSE @]
    /\ UNCHANGED <<scanVars, batchVars, deaths>>

\* The conditional update; a status that changed meanwhile is also ignored.
CancelScanWrite(c) ==
    LET s == call[c].scan IN
    /\ call[c].pc = "cancelScan"
    /\ IF status[s] = call[c].seen THEN Queue!Cancel(s) ELSE UNCHANGED <<status, results>>
    /\ call' = [call EXCEPT ![c].pc = "cancel", ![c].scan = NoScan, ![c].seen = "NONE"]
    /\ UNCHANGED <<batchOf, stageOf, batchVars, deaths>>

CancelBatch(c) ==
    /\ call[c].pc = "cancel"
    /\ call[c].scans = {}
    /\ state' = [state EXCEPT ![call[c].batch] = "CANCELLED"]
    /\ Return(c)
    /\ UNCHANGED <<scanVars, stage, deaths>>

\* The process that serves the call dies, or a statement of the call throws.
CallDies(c) ==
    /\ call[c] # Idle
    /\ deaths < MaxDeaths
    /\ deaths' = deaths + 1
    /\ Return(c)
    /\ UNCHANGED <<scanVars, batchVars>>

------------------------------------------------------------------------------
(* The queue: scans of the batch, and scans asked for outside any batch.    *)

ScanEnds(s) ==
    /\ \/ Queue!Complete(s)
       \/ Queue!Fail({s})
    /\ UNCHANGED <<batchOf, stageOf, batchVars, call, deaths>>

ScanStarts(s) ==
    /\ Queue!Start(s)
    /\ UNCHANGED <<batchOf, stageOf, batchVars, call, deaths>>

ScanRequeued(s) ==
    /\ Queue!Requeue(s)
    /\ UNCHANGED <<batchOf, stageOf, batchVars, call, deaths>>

OtherScan(s) ==
    /\ Queue!Create(s)
    /\ UNCHANGED <<batchOf, stageOf, batchVars, call, deaths>>

------------------------------------------------------------------------------
CallStep(c) ==
    \/ \E b \in Batches : StartCreate(c, b)
    \/ \E s \in Scans : Enqueue(c, s) \/ CancelScanRead(c, s)
    \/ \E t \in Types : EnqueueRefused(c, t)
    \/ EnqueueDone(c) \/ AdvanceRead(c) \/ AdvanceBump(c) \/ Consolidate(c)
    \/ CompleteBatch(c) \/ CancelScanWrite(c) \/ CancelBatch(c)

NewCall(c) ==
    \/ StartCheck(c)
    \/ \E b \in Batches : AdvanceCall(c, b) \/ CancelCall(c, b)

Next ==
    \/ \E c \in Callers : NewCall(c) \/ CallStep(c) \/ CallDies(c)
    \/ \E s \in Scans : ScanStarts(s) \/ ScanEnds(s) \/ ScanRequeued(s) \/ OtherScan(s)

Spec == Init /\ [][Next]_vars

Poll(b) == \E c \in Callers : AdvanceCall(c, b)

\* The queue ends every scan (ScanQueue!EveryScanEnds), a call that is under way
\* goes on, and the page of a batch keeps asking for it: that a caller is free
\* again and again is enough, a real server has one for every request.
Fairness ==
    /\ \A s \in Scans : WF_vars(ScanStarts(s)) /\ SF_vars(ScanEnds(s))
    /\ \A c \in Callers : WF_vars(CallStep(c))
    /\ \A b \in Batches : SF_vars(Poll(b))

FairSpec == Spec /\ Fairness

------------------------------------------------------------------------------
(* Properties.                                                              *)

\* Every variable keeps its type.
TypeOK ==
    /\ Queue!LifecycleTypeOK
    /\ batchOf \in [Scans -> Batches \cup {NoBatch}]
    /\ stageOf \in [Scans -> 0..TotalStages]
    /\ state \in [Batches -> FinalStates \cup {"none", "IN_PROGRESS"}]
    /\ stage \in [Batches -> 1..TotalStages]
    /\ call \in [Callers -> Calls]
    /\ deaths \in 0..MaxDeaths

\* The stages of a batch are sequential: while a scan of a stage is in progress,
\* no scan of a later stage exists (advancePipeline, "Si algun escaneo de la etapa
\* actual sigue pendiente o en ejecucion, no se avanza").
StageOrder ==
    \A s, t \in Scans :
        batchOf[s] = batchOf[t] /\ batchOf[s] # NoBatch /\ InProgress(s)
            => stageOf[t] <= stageOf[s]

\* A batch that completed or failed has no scan left in the queue, so nothing
\* changes its findings behind the summary written by completeBatch.
FinishedBatchIsQuiet ==
    \A s \in Scans :
        batchOf[s] # NoBatch /\ state[batchOf[s]] \in {"COMPLETED", "FAILED"}
            => ~InProgress(s)

\* FAILED is the verdict on a batch none of whose scans gave results, of any of
\* its stages (`allScansFailed`).
FailedMeansNoResults ==
    \A s \in Scans :
        batchOf[s] # NoBatch /\ state[batchOf[s]] = "FAILED" => s \notin results

\* A batch does not stay IN_PROGRESS: not when the scans of a stage fail or are
\* refused, nor when the process dies between two statements of advancePipeline.
EveryBatchEnds ==
    \A b \in Batches : state[b] = "IN_PROGRESS" ~> state[b] \in FinalStates
==============================================================================
