------------------------- MODULE Diagnostic360_proofs -------------------------
(***************************************************************************)
(* Proofs about the 360 diagnostic, for any batches, scans, profile and     *)
(* number of deaths: type correctness with any number of calls, and, while  *)
(* the calls of the orchestrator follow one another, the order of the       *)
(* stages, the quiet of a finished batch and the meaning of FAILED.         *)
(*                                                                          *)
(* That one call ends before the next begins is an assumption about the     *)
(* deployment that the code does not make true: the run batch_overlap shows *)
(* StageOrder violated by two calls that cross.  With it, what              *)
(* advancePipeline read still holds when it writes: the inductive invariant *)
(* says that nothing of a batch is in progress from the read on.            *)
(***************************************************************************)
EXTENDS Diagnostic360, TLAPS

OneCallAtATime == \A c, d \in Callers : c = d

\* Where a call stands fixes which of its fields are set.
CallInv ==
    \A c \in Callers :
        /\ call[c].pc \notin {"idle", "create"} => call[c].batch \in Batches
        /\ call[c].pc = "cancelScan" => call[c].scan \in Scans
        /\ call[c].pc = "bump" => call[c].stage \in 1..TotalStages
        /\ call[c].pc = "write" => call[c].verdict \in FinalStates

\* The scans of a batch exist, belong to stages the batch has reached, and those in
\* progress to its current one; a finished batch has none, a failed one no result.
BatchInv ==
    /\ \A s \in Scans : batchOf[s] # NoBatch =>
         /\ status[s] # "NONE"
         /\ state[batchOf[s]] # "none"
         /\ stageOf[s] <= stage[batchOf[s]]
         /\ InProgress(s) => /\ stageOf[s] = stage[batchOf[s]]
                             /\ state[batchOf[s]] \notin {"COMPLETED", "FAILED"}
         /\ state[batchOf[s]] = "FAILED" => status[s] # "COMPLETED"
    /\ \A s \in results : status[s] = "COMPLETED"
    /\ \A b \in Batches : state[b] = "none" => stage[b] = 1

\* What a call read still holds: from AdvanceRead on the batch is the one that was
\* read, and nothing of it is in progress until the next stage is enqueued.
ReadStillHolds ==
    \A c \in Callers :
        LET b == call[c].batch
            at(pcs) == call[c].pc \in pcs
        IN  /\ at({"enqueue", "bump", "consolidate", "write"}) => state[b] = "IN_PROGRESS"
            /\ at({"enqueue"}) => call[c].stage = stage[b]
            /\ at({"bump"}) => call[c].stage = stage[b] + 1
            /\ at({"bump", "consolidate", "write"}) => \A s \in ScansOf(b) : ~InProgress(s)
            /\ at({"write"}) /\ call[c].verdict = "FAILED" =>
                 \A s \in ScansOf(b) : status[s] # "COMPLETED"

------------------------------------------------------------------------------
(* Types.                                                                   *)

\* The first stage of the profile is a set of scan types, and so is every other.
LEMMA StagesAreTypes == \A n \in 1..TotalStages : StageTypes[n] \in SUBSET Types
BY DEF Types

Positions == {"idle", "create", "enqueue", "read", "bump", "consolidate", "write",
              "cancel", "cancelScan", "cancelBatch"}

\* Writing one field of a call gives a call.
LEMMA FieldOfCall ==
    ASSUME NEW k \in Calls
    PROVE  /\ \A pc \in Positions : [k EXCEPT !.pc = pc] \in Calls
           /\ \A n \in 0..TotalStages : [k EXCEPT !.stage = n] \in Calls
           /\ \A T \in SUBSET Types : [k EXCEPT !.types = T] \in Calls
           /\ \A S \in SUBSET Scans : [k EXCEPT !.scans = S] \in Calls
           /\ \A s \in Scans \cup {NoScan} : [k EXCEPT !.scan = s] \in Calls
           /\ \A st \in Queue!ScanStatus : [k EXCEPT !.seen = st] \in Calls
           /\ \A v \in FinalStates \cup {"none"} : [k EXCEPT !.verdict = v] \in Calls
<1>1. ASSUME NEW pc \in Positions PROVE [k EXCEPT !.pc = pc] \in Calls
  BY SMT DEF Calls, Positions
<1>2. ASSUME NEW n \in 0..TotalStages PROVE [k EXCEPT !.stage = n] \in Calls
  BY SMT DEF Calls
<1>3. ASSUME NEW T \in SUBSET Types PROVE [k EXCEPT !.types = T] \in Calls
  BY SMT DEF Calls
<1>4. ASSUME NEW S \in SUBSET Scans PROVE [k EXCEPT !.scans = S] \in Calls
  BY SMT DEF Calls
<1>5. ASSUME NEW s \in Scans \cup {NoScan} PROVE [k EXCEPT !.scan = s] \in Calls
  BY SMT DEF Calls
<1>6. ASSUME NEW st \in Queue!ScanStatus PROVE [k EXCEPT !.seen = st] \in Calls
  BY SMT DEF Calls
<1>7. ASSUME NEW v \in FinalStates \cup {"none"} PROVE [k EXCEPT !.verdict = v] \in Calls
  BY SMT DEF Calls
<1> QED
  BY <1>1, <1>2, <1>3, <1>4, <1>5, <1>6, <1>7

\* What a call is before it begins, and how each kind of call begins, are calls.
LEMMA IdleIsCall ==
    /\ Idle \in Calls
    /\ \A b \in Batches : [Idle EXCEPT !.pc = "read", !.batch = b] \in Calls
    /\ \A b \in Batches, S \in SUBSET Scans :
         [Idle EXCEPT !.pc = "cancel", !.batch = b, !.scans = S] \in Calls
    /\ \A b \in Batches :
         [Idle EXCEPT !.pc = "enqueue", !.batch = b, !.stage = 1,
                      !.types = StageTypes[1], !.poll = TRUE] \in Calls
<1>1. 1 \in 0..TotalStages /\ 0 \in 0..TotalStages /\ StageTypes[1] \in SUBSET Types
  BY DiagnosticAssumption, StagesAreTypes
<1>2. "NONE" \in Queue!ScanStatus
  BY DEF Queue!ScanStatus
<1> QED
  BY <1>1, <1>2 DEF Idle, Calls

\* Types are kept, with what the position of a call says of its fields.
LEMMA TypeInvariant == Spec => [](TypeOK /\ CallInv)
<1>1. Init => TypeOK /\ CallInv
  <2> SUFFICES ASSUME Init PROVE TypeOK /\ CallInv
    OBVIOUS
  <2>1. Queue!LifecycleTypeOK
    BY DEF Init, Queue!LifecycleInit, Queue!LifecycleTypeOK, Queue!ScanStatus
  <2>2. /\ batchOf \in [Scans -> Batches \cup {NoBatch}] /\ stageOf \in [Scans -> 0..TotalStages]
        /\ state \in [Batches -> FinalStates \cup {"none", "IN_PROGRESS"}]
        /\ stage \in [Batches -> 1..TotalStages] /\ deaths \in 0..MaxDeaths
    BY DiagnosticAssumption DEF Init
  <2>3. call \in [Callers -> Calls] /\ \A c \in Callers : call[c].pc = "idle"
    BY IdleIsCall DEF Init, Idle
  <2> QED
    BY <2>1, <2>2, <2>3 DEF TypeOK, CallInv
<1>2. TypeOK /\ CallInv /\ [Next]_vars => TypeOK' /\ CallInv'
  <2> SUFFICES ASSUME TypeOK, CallInv, [Next]_vars PROVE TypeOK' /\ CallInv'
    OBVIOUS
  <2> USE DiagnosticAssumption DEF TypeOK, CallInv, scanVars, batchVars,
        Queue!LifecycleTypeOK, Queue!ScanStatus, Queue!InProgress, Queue!Final, Queue!SetStatus
  <2>1. ASSUME NEW c \in Callers, StartCheck(c) PROVE TypeOK' /\ CallInv'
    <3>1. [call[c] EXCEPT !.pc = "create"] \in Calls
      BY FieldOfCall DEF Positions
    <3> QED
      BY <2>1, <3>1 DEF StartCheck, Go
  <2>2. ASSUME NEW c \in Callers, NEW b \in Batches, StartCreate(c, b)
        PROVE  TypeOK' /\ CallInv'
    BY <2>2, IdleIsCall DEF StartCreate, Idle
  <2>3. ASSUME NEW c \in Callers, NEW s \in Scans, Enqueue(c, s) PROVE TypeOK' /\ CallInv'
    <3>1. call[c].types \in SUBSET Types /\ call[c].batch \in Batches /\ call[c].stage \in 0..TotalStages
      BY <2>3 DEF Enqueue, Calls
    <3>2. [call[c] EXCEPT !.types = @ \ {TypeOf[s]}] \in Calls
      BY <3>1, FieldOfCall
    <3> QED
      BY <2>3, <3>1, <3>2 DEF Enqueue, Queue!Create
  <2>4. ASSUME NEW c \in Callers, NEW t \in Types, EnqueueRefused(c, t)
        PROVE  TypeOK' /\ CallInv'
    <3>1. call[c].types \in SUBSET Types
      BY DEF Calls
    <3>2. [call[c] EXCEPT !.types = @ \ {t}] \in Calls
      BY <3>1, FieldOfCall
    <3> QED
      BY <2>4, <3>2 DEF EnqueueRefused
  <2>5. ASSUME NEW c \in Callers, EnqueueDone(c) PROVE TypeOK' /\ CallInv'
    BY <2>5, IdleIsCall DEF EnqueueDone, Idle
  <2>6. ASSUME NEW c \in Callers, NEW b \in Batches, AdvanceCall(c, b)
        PROVE  TypeOK' /\ CallInv'
    BY <2>6, IdleIsCall DEF AdvanceCall, Idle
  <2>7. ASSUME NEW c \in Callers, AdvanceRead(c) PROVE TypeOK' /\ CallInv'
    <3> DEFINE b == call[c].batch
               pc == IF HasNextStage(b) THEN "bump" ELSE "consolidate"
               n == IF HasNextStage(b) THEN stage[b] + 1 ELSE 0
    <3>1. b \in Batches /\ n \in 0..TotalStages /\ (HasNextStage(b) => n \in 1..TotalStages)
      <4>1. b \in Batches /\ stage[b] \in 1..TotalStages
        BY <2>7 DEF AdvanceRead
      <4> QED
        BY <4>1 DEF HasNextStage
    <3>2. CASE MayMoveOn(b)
      <4>1. [call[c] EXCEPT !.pc = pc] \in Calls
        BY FieldOfCall DEF Positions
      <4>2. [[call[c] EXCEPT !.pc = pc] EXCEPT !.stage = n] \in Calls
        BY <3>1, <4>1, FieldOfCall
      <4>3. call' = [call EXCEPT ![c] = [[call[c] EXCEPT !.pc = pc] EXCEPT !.stage = n]]
        BY <2>7, <3>2 DEF AdvanceRead
      <4>4. \A d \in Callers : d # c => call'[d] = call[d]
        BY <4>3
      <4>5. call'[c].batch = b /\ call'[c].pc = pc /\ call'[c].stage = n
        BY <4>3 DEF Calls
      <4> HIDE DEF b, pc, n
      <4>6. call' \in [Callers -> Calls]
        BY <4>2, <4>3
      <4>7. CallInv'
        BY <3>1, <4>4, <4>5 DEF pc
      <4> QED
        BY <2>7, <4>6, <4>7 DEF AdvanceRead
    <3>3. CASE ~MayMoveOn(b)
      <4>1. call' = [call EXCEPT ![c] = Idle] /\ UNCHANGED <<scanVars, batchVars, deaths>>
        BY <2>7, <3>3 DEF AdvanceRead, Return
      <4> HIDE DEF b, pc, n
      <4> QED
        BY <4>1, IdleIsCall DEF Idle
    <3> QED
      BY <3>2, <3>3
  <2>8. ASSUME NEW c \in Callers, AdvanceBump(c) PROVE TypeOK' /\ CallInv'
    <3>1. call[c].stage \in 1..TotalStages /\ StageTypes[call[c].stage] \in SUBSET Types
      BY <2>8, StagesAreTypes DEF AdvanceBump
    <3>2. [call[c] EXCEPT !.pc = "enqueue"] \in Calls
      BY FieldOfCall DEF Positions
    <3>3. [[call[c] EXCEPT !.pc = "enqueue"] EXCEPT !.types = StageTypes[call[c].stage]] \in Calls
      BY <3>1, <3>2, FieldOfCall
    <3> DEFINE k == [[call[c] EXCEPT !.pc = "enqueue"] EXCEPT !.types = StageTypes[call[c].stage]]
    <3>4. call' = [call EXCEPT ![c] = k] /\ k.pc = "enqueue" /\ k.batch = call[c].batch
      BY <2>8 DEF AdvanceBump, Calls
    <3>5. k \in Calls /\ call[c].batch \in Batches
      BY <2>8, <3>3 DEF AdvanceBump
    <3> HIDE DEF k
    <3>6. call' \in [Callers -> Calls] /\ CallInv'
      BY <3>4, <3>5
    <3>7. stage' \in [Batches -> 1..TotalStages]
      BY <2>8, <3>1 DEF AdvanceBump
    <3> QED
      BY <2>8, <3>6, <3>7 DEF AdvanceBump
  <2>9. ASSUME NEW c \in Callers, Consolidate(c) PROVE TypeOK' /\ CallInv'
    <3> DEFINE v == Verdict(call[c].batch)
    <3>1. v \in FinalStates
      BY DEF Verdict, FinalStates
    <3>2. [call[c] EXCEPT !.pc = "write"] \in Calls
      BY FieldOfCall DEF Positions
    <3> HIDE DEF v
    <3>3. [[call[c] EXCEPT !.pc = "write"] EXCEPT !.verdict = v] \in Calls
      BY <3>1, <3>2, FieldOfCall
    <3>4. call' = [call EXCEPT ![c] = [[call[c] EXCEPT !.pc = "write"] EXCEPT !.verdict = v]]
      BY <2>9 DEF Consolidate, v
    <3>5. call'[c].batch = call[c].batch /\ call'[c].pc = "write" /\ call'[c].verdict = v
      BY <3>4 DEF Calls
    <3> QED
      <4>1. call' \in [Callers -> Calls]
        BY <3>3, <3>4
      <4>2. \A d \in Callers : d # c => call'[d] = call[d]
        BY <3>4
      <4>3. CallInv'
        BY <2>9, <3>1, <3>5, <4>2 DEF Consolidate
      <4> QED
        BY <2>9, <4>1, <4>3 DEF Consolidate
  <2>10. ASSUME NEW c \in Callers, CompleteBatch(c) PROVE TypeOK' /\ CallInv'
    BY <2>10, IdleIsCall DEF CompleteBatch, Return, Idle
  <2>11. ASSUME NEW c \in Callers, NEW b \in Batches, CancelCall(c, b)
         PROVE  TypeOK' /\ CallInv'
    BY <2>11, IdleIsCall DEF CancelCall, ScansOf, Idle
  <2>12. ASSUME NEW c \in Callers, NEW s \in Scans, CancelScanRead(c, s)
         PROVE  TypeOK' /\ CallInv'
    <3>1. [call[c] EXCEPT !.scans = @ \ {s}] \in Calls
      <4>1. call[c].scans \in SUBSET Scans
        BY DEF Calls
      <4> QED
        BY <4>1, FieldOfCall
    <3>2. CASE ~InProgress(s)
      <4> DEFINE k == [call[c] EXCEPT !.scans = @ \ {s}]
      <4>1. call' = [call EXCEPT ![c] = k]
        BY <2>12, <3>2 DEF CancelScanRead, Calls
      <4>2. k.batch = call[c].batch /\ k.pc = "cancel" /\ call[c].batch \in Batches
        BY <2>12 DEF CancelScanRead, Calls
      <4>3. k \in Calls
        BY <3>1
      <4> HIDE DEF k
      <4>4. call' \in [Callers -> Calls] /\ CallInv'
        BY <4>1, <4>2, <4>3
      <4> QED
        BY <2>12, <4>4 DEF CancelScanRead
    <3>3. CASE InProgress(s)
      <4> DEFINE k1 == [call[c] EXCEPT !.scans = @ \ {s}]
                 k2 == [k1 EXCEPT !.pc = "cancelScan"]
                 k3 == [k2 EXCEPT !.scan = s]
                 k4 == [k3 EXCEPT !.seen = status[s]]
      <4>1. k2 \in Calls
        BY <3>1, FieldOfCall DEF Positions
      <4>2. k3 \in Calls
        BY <4>1, FieldOfCall
      <4>3. k4 \in Calls
        BY <4>2, FieldOfCall
      <4>4. call' = [call EXCEPT ![c] = k4]
        BY <2>12, <3>3 DEF CancelScanRead
      <4>5. k4.batch = call[c].batch /\ k4.scan = s /\ k4.pc = "cancelScan"
        BY DEF Calls
      <4>6. call[c].batch \in Batches
        BY <2>12 DEF CancelScanRead
      <4> HIDE DEF k4
      <4>7. call' \in [Callers -> Calls] /\ CallInv'
        BY <4>3, <4>4, <4>5, <4>6
      <4> QED
        BY <2>12, <4>7 DEF CancelScanRead
    <3> QED
      BY <3>2, <3>3
  <2>13. ASSUME NEW c \in Callers, CancelScanWrite(c) PROVE TypeOK' /\ CallInv'
    <3> DEFINE k1 == [call[c] EXCEPT !.pc = "cancel"]
               k2 == [k1 EXCEPT !.scan = NoScan]
               k3 == [k2 EXCEPT !.seen = "NONE"]
    <3>1. k1 \in Calls
      BY FieldOfCall DEF Positions
    <3>2. k2 \in Calls
      BY <3>1, FieldOfCall
    <3>3. k3 \in Calls
      BY <3>2, FieldOfCall
    <3>4. call' = [call EXCEPT ![c] = k3]
      BY <2>13 DEF CancelScanWrite
    <3>5. k3.batch = call[c].batch /\ k3.pc = "cancel"
      BY DEF Calls
    <3>6. call[c].batch \in Batches /\ call[c].scan \in Scans
      BY <2>13 DEF CancelScanWrite
    <3> HIDE DEF k3
    <3>7. call' \in [Callers -> Calls] /\ CallInv'
      BY <3>3, <3>4, <3>5, <3>6
    <3>8. Queue!LifecycleTypeOK'
      BY <2>13, <3>6 DEF CancelScanWrite, Queue!Cancel
    <3> QED
      BY <2>13, <3>7, <3>8 DEF CancelScanWrite
  <2>14. ASSUME NEW c \in Callers, CancelBatch(c) PROVE TypeOK' /\ CallInv'
    BY <2>14, IdleIsCall DEF CancelBatch, Return, FinalStates, Idle
  <2>15. ASSUME NEW c \in Callers, CallDies(c) PROVE TypeOK' /\ CallInv'
    <3>1. deaths' \in 0..MaxDeaths /\ UNCHANGED <<status, results, batchOf, stageOf, state, stage>>
      BY <2>15 DEF CallDies
    <3> QED
      BY <2>15, <3>1, IdleIsCall DEF CallDies, Return, Idle
  <2>16. ASSUME NEW s \in Scans, ScanStarts(s) \/ ScanEnds(s) \/ ScanRequeued(s) \/ OtherScan(s)
         PROVE  TypeOK' /\ CallInv'
    BY <2>16 DEF ScanStarts, ScanEnds, ScanRequeued, OtherScan, Queue!Start, Queue!Complete,
       Queue!Fail, Queue!Requeue, Queue!Create
  <2>17. CASE UNCHANGED vars
    BY <2>17 DEF vars
  <2> QED
    BY <2>1, <2>2, <2>3, <2>4, <2>5, <2>6, <2>7, <2>8, <2>9, <2>10, <2>11, <2>12, <2>13,
       <2>14, <2>15, <2>16, <2>17 DEF Next, NewCall, CallStep
<1> QED
  BY <1>1, <1>2, PTL DEF Spec

\* Every variable keeps its type, with any number of calls under way.
THEOREM TypeCorrect == Spec => []TypeOK
BY TypeInvariant, PTL
------------------------------------------------------------------------------
(* One call at a time.                                                      *)

\* What a call read still holds when it writes, and the scans of a batch belong to
\* stages it has reached.
LEMMA SequentialInvariant ==
    ASSUME OneCallAtATime
    PROVE  Spec => [](BatchInv /\ ReadStillHolds)
<1>1. Init => BatchInv /\ ReadStillHolds
  BY DEF Init, BatchInv, ReadStillHolds, Idle, Queue!LifecycleInit
<1>2. TypeOK /\ CallInv /\ BatchInv /\ ReadStillHolds /\ [Next]_vars => BatchInv' /\ ReadStillHolds'
  <2> SUFFICES ASSUME TypeOK, CallInv, BatchInv, ReadStillHolds, [Next]_vars
               PROVE  BatchInv' /\ ReadStillHolds'
    OBVIOUS
  <2> USE DiagnosticAssumption, OneCallAtATime DEF OneCallAtATime, TypeOK, CallInv, BatchInv,
        ReadStillHolds, scanVars, batchVars, ScansOf, InProgress,
        Queue!LifecycleTypeOK, Queue!ScanStatus, Queue!InProgress, Queue!Final, Queue!SetStatus
  <2>1. ASSUME NEW c \in Callers, StartCheck(c)
         PROVE  BatchInv' /\ ReadStillHolds'
    BY <2>1 DEF StartCheck, Go, Calls
  <2>2. ASSUME NEW c \in Callers, NEW b \in Batches, StartCreate(c, b)
         PROVE  BatchInv' /\ ReadStillHolds'
    BY <2>2 DEF StartCreate, Idle
  <2>3. ASSUME NEW c \in Callers, NEW s \in Scans, Enqueue(c, s)
         PROVE  BatchInv' /\ ReadStillHolds'
    BY <2>3 DEF Enqueue, Queue!Create, Calls
  <2>4. ASSUME NEW c \in Callers, NEW t \in Types, EnqueueRefused(c, t)
         PROVE  BatchInv' /\ ReadStillHolds'
    BY <2>4 DEF EnqueueRefused, Calls
  <2>5. ASSUME NEW c \in Callers, EnqueueDone(c)
         PROVE  BatchInv' /\ ReadStillHolds'
    BY <2>5 DEF EnqueueDone, Idle
  <2>6. ASSUME NEW c \in Callers, NEW b \in Batches, AdvanceCall(c, b)
         PROVE  BatchInv' /\ ReadStillHolds'
    BY <2>6 DEF AdvanceCall, Idle
  <2>7. ASSUME NEW c \in Callers, AdvanceRead(c)
         PROVE  BatchInv' /\ ReadStillHolds'
    <3> DEFINE b == call[c].batch
    <3>1. b \in Batches /\ UNCHANGED <<scanVars, batchVars, deaths>> /\ \A d \in Callers : d = c
      BY <2>7 DEF AdvanceRead
    <3>2. BatchInv'
      BY <3>1
    <3>3. CASE ~MayMoveOn(b)
      <4>1. call'[c] = Idle
        BY <2>7, <3>3 DEF AdvanceRead, Return
      <4> QED
        BY <3>1, <3>2, <4>1 DEF Idle
    <3>4. CASE MayMoveOn(b)
      <4>1. state[b] = "IN_PROGRESS" /\ \A s \in ScansOf(b) : ~InProgress(s)
        BY <3>1, <3>4 DEF MayMoveOn, StageOver
      <4>2. /\ call'[c].batch = b /\ call'[c].pc \in {"bump", "consolidate"}
            /\ call'[c].pc = "bump" => call'[c].stage = stage[b] + 1
        BY <2>7, <3>4 DEF AdvanceRead, Calls
      <4> QED
        BY <3>1, <3>2, <4>1, <4>2
    <3> QED
      BY <3>3, <3>4
  <2>8. ASSUME NEW c \in Callers, AdvanceBump(c)
         PROVE  BatchInv' /\ ReadStillHolds'
    <3> DEFINE b == call[c].batch
    <3>1. /\ b \in Batches /\ stage[b] \in 1..TotalStages /\ state[b] = "IN_PROGRESS"
          /\ stage' = [stage EXCEPT ![b] = stage[b] + 1]
          /\ UNCHANGED <<scanVars, state, deaths>> /\ \A d \in Callers : d = c
          /\ \A s \in ScansOf(b) : ~InProgress(s)
      BY <2>8 DEF AdvanceBump
    <3>2. call'[c].batch = b /\ call'[c].pc = "enqueue" /\ call'[c].stage = stage[b] + 1
      BY <2>8 DEF AdvanceBump, Calls
    <3>3. BatchInv'
      BY <3>1
    <3>4. ReadStillHolds'
      BY <3>1, <3>2
    <3> QED
      BY <3>3, <3>4
  <2>9. ASSUME NEW c \in Callers, Consolidate(c)
         PROVE  BatchInv' /\ ReadStillHolds'
    BY <2>9 DEF Consolidate, Verdict, Calls
  <2>10. ASSUME NEW c \in Callers, CompleteBatch(c)
         PROVE  BatchInv' /\ ReadStillHolds'
    <3> DEFINE b == call[c].batch
    <3>1. /\ b \in Batches /\ state[b] = "IN_PROGRESS" /\ call[c].verdict \in FinalStates
          /\ state' = [state EXCEPT ![b] = call[c].verdict]
          /\ UNCHANGED <<scanVars, stage, deaths>> /\ \A d \in Callers : d = c
          /\ \A s \in ScansOf(b) : ~InProgress(s)
          /\ call[c].verdict = "FAILED" => \A s \in ScansOf(b) : status[s] # "COMPLETED"
      BY <2>10 DEF CompleteBatch
    <3>2. call'[c].pc = "idle"
      BY <2>10 DEF CompleteBatch, Return, Idle
    <3>3. BatchInv'
      BY <3>1 DEF FinalStates
    <3>4. ReadStillHolds'
      BY <3>1, <3>2
    <3> QED
      BY <3>3, <3>4
  <2>11. ASSUME NEW c \in Callers, NEW b \in Batches, CancelCall(c, b)
         PROVE  BatchInv' /\ ReadStillHolds'
    BY <2>11 DEF CancelCall, Idle
  <2>12. ASSUME NEW c \in Callers, NEW s \in Scans, CancelScanRead(c, s)
         PROVE  BatchInv' /\ ReadStillHolds'
    BY SMTT(20), <2>12 DEF CancelScanRead, Calls
  <2>13. ASSUME NEW c \in Callers, CancelScanWrite(c)
         PROVE  BatchInv' /\ ReadStillHolds'
    BY <2>13 DEF CancelScanWrite, Queue!Cancel, Calls
  <2>14. ASSUME NEW c \in Callers, CancelBatch(c)
         PROVE  BatchInv' /\ ReadStillHolds'
    BY <2>14 DEF CancelBatch, Return, Idle
  <2>15. ASSUME NEW c \in Callers, CallDies(c)
         PROVE  BatchInv' /\ ReadStillHolds'
    BY <2>15 DEF CallDies, Return, Idle
  <2>16. ASSUME NEW s \in Scans, ScanStarts(s)
         PROVE  BatchInv' /\ ReadStillHolds'
    BY <2>16 DEF ScanStarts, Queue!Start
  <2>17. ASSUME NEW s \in Scans, ScanEnds(s)
         PROVE  BatchInv' /\ ReadStillHolds'
    BY <2>17 DEF ScanEnds, Queue!Complete, Queue!Fail
  <2>18. ASSUME NEW s \in Scans, ScanRequeued(s)
         PROVE  BatchInv' /\ ReadStillHolds'
    BY <2>18 DEF ScanRequeued, Queue!Requeue
  <2>19. ASSUME NEW s \in Scans, OtherScan(s)
         PROVE  BatchInv' /\ ReadStillHolds'
    BY <2>19 DEF OtherScan, Queue!Create
  <2>20. CASE UNCHANGED vars
    BY <2>20 DEF vars
  <2> QED
    BY <2>1, <2>2, <2>3, <2>4, <2>5, <2>6, <2>7, <2>8, <2>9, <2>10, <2>11, <2>12, <2>13, <2>14, <2>15, <2>16, <2>17, <2>18, <2>19, <2>20 DEF Next, NewCall, CallStep
<1> QED
  BY <1>1, <1>2, TypeInvariant, PTL DEF Spec

\* While calls follow one another, no scan of a later stage of a batch exists beside one
\* in progress: what advancePipeline says of the stages.
THEOREM StagesAreSequential ==
    ASSUME OneCallAtATime
    PROVE  Spec => []StageOrder
<1>1. TypeOK /\ BatchInv => StageOrder
  BY DEF TypeOK, BatchInv, StageOrder
<1> QED
  BY <1>1, TypeInvariant, SequentialInvariant, PTL

\* While calls follow one another, a batch that completed or failed has nothing left in
\* the queue that could change its findings.
THEOREM FinishedIsQuiet ==
    ASSUME OneCallAtATime
    PROVE  Spec => []FinishedBatchIsQuiet
<1>1. BatchInv => FinishedBatchIsQuiet
  BY DEF BatchInv, FinishedBatchIsQuiet
<1> QED
  BY <1>1, SequentialInvariant, PTL

\* While calls follow one another, no scan of a batch that FAILED, of any of its stages,
\* stored results.
THEOREM FailedGaveNothing ==
    ASSUME OneCallAtATime
    PROVE  Spec => []FailedMeansNoResults
<1>1. TypeOK /\ BatchInv => FailedMeansNoResults
  BY DEF TypeOK, BatchInv, FailedMeansNoResults, Queue!LifecycleTypeOK
<1> QED
  BY <1>1, TypeInvariant, SequentialInvariant, PTL
==============================================================================
