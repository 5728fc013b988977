-------------------------- MODULE ScanQueue_proofs --------------------------
(***************************************************************************)
(* Proofs about the scan queue, for any number of instances, requests,      *)
(* scans, retries and crashes: type correctness, one executor per scan, one *)
(* scan in progress per asset and type, no leaked cancellation entry, how   *)
(* far the limit of an organisation may be exceeded, and that ScanQueue     *)
(* implements ScanLifecycle.                                                *)
(*                                                                          *)
(* None of the invariants is inductive alone.  One executor per scan needs  *)
(* that the row a claim has locked is still PENDING when it commits, which  *)
(* needs that nobody else wrote it meanwhile; one scan per type needs that  *)
(* whoever is between the check and the INSERT holds the lock of the asset. *)
(***************************************************************************)
EXTENDS ScanQueue, FiniteSetTheorems, TLAPS

Enqueuing(h) == handler[h].op \in {"check", "insert"}

\* A claim is in flight exactly while a row is locked for it.
ClaimInv == \A i \in Instances : tick[i] = "claiming" <=> picked[i] # NoScan

\* An enqueue under way holds the lock of its asset and its row does not exist
\* yet; a cancel under way has seen its scan in progress.
RequestInv ==
    /\ \A h \in Handlers : Enqueuing(h) =>
         /\ handler[h].scan \in Scans
         /\ status[handler[h].scan] = "NONE"
         /\ lock[AssetOf[handler[h].scan]] = h
    /\ \A h \in Handlers : handler[h].op \in {"cancel", "abort"} =>
         handler[h].scan \in Scans /\ handler[h].seen \in InProgress

\* A scan with a job is out of the queue, it has one job only, and a row locked
\* by a claim is PENDING and locked by that claim only.
ExecutionInv ==
    /\ \A i \in Instances, s \in Scans :
         job[i][s] # "none" => status[s] \notin {"NONE", "PENDING"}
    /\ \A s \in Scans, i, j \in Instances :
         job[i][s] # "none" /\ job[j][s] # "none" => i = j
    /\ \A i \in Instances : picked[i] # NoScan => status[picked[i]] = "PENDING"
    /\ \A i, j \in Instances : picked[i] = picked[j] /\ picked[i] # NoScan => i = j

\* The check of enqueue stays true until its INSERT.
TwinInv ==
    /\ OneInProgressPerType
    /\ \A h \in Handlers :
         handler[h].op = "insert" => ~InProgressTwin(handler[h].scan)

\* The outcome of a scan is written once, when it becomes COMPLETED.
ResultInv == \A s \in Scans : stored[s] = IF status[s] = "COMPLETED" THEN 1 ELSE 0

SafetyInv == RequestInv /\ ExecutionInv /\ TwinInv /\ ResultInv

------------------------------------------------------------------------------
(* Types.                                                                   *)

\* A request that moves on to its next statement is still a request.
LEMMA NextOp ==
    ASSUME NEW r \in Requests, NEW o \in {"idle", "check", "insert", "cancel", "abort"}
    PROVE  [r EXCEPT !.op = o] \in Requests
BY SMT DEF Requests

\* Types are kept, given that a claim in flight has a row.
LEMMA TypeInvariant == Spec => [](TypeOK /\ ClaimInv)
<1>1. Init => TypeOK /\ ClaimInv
  BY QueueAssumption DEF Init, TypeOK, Assets, Requests, Idle, Phases, Reasons,
     InProgress, ClaimInv
<1>2. TypeOK /\ ClaimInv /\ [Next]_vars => TypeOK' /\ ClaimInv'
  <2> SUFFICES ASSUME TypeOK, ClaimInv, [Next]_vars PROVE TypeOK' /\ ClaimInv'
    OBVIOUS
  <2> USE QueueAssumption DEF TypeOK, Assets, Requests, Phases, Reasons, InProgress, Final,
        rowVars, requestVars, tickVars, jobVars
  <2>1. ASSUME NEW h \in Handlers, NEW s \in Scans, EnqueueLock(h, s)
        PROVE  TypeOK' /\ ClaimInv'
    BY <2>1 DEF EnqueueLock, Idle, ClaimInv
  <2>2. ASSUME NEW h \in Handlers, NEW s \in Scans, CancelRead(h, s)
        PROVE  TypeOK' /\ ClaimInv'
    BY <2>2 DEF CancelRead, Idle, ClaimInv
  <2>3. ASSUME NEW h \in Handlers, EnqueueCheck(h) PROVE TypeOK' /\ ClaimInv'
    <3>1. [handler[h] EXCEPT !.op = "insert"] \in Requests
      BY NextOp
    <3> QED
      BY <2>3, <3>1 DEF EnqueueCheck, ClaimInv
  <2>4. ASSUME NEW h \in Handlers, EnqueueReject(h) PROVE TypeOK' /\ ClaimInv'
    BY <2>4 DEF EnqueueReject, Idle, ClaimInv
  <2>5. ASSUME NEW h \in Handlers, EnqueueInsert(h) PROVE TypeOK' /\ ClaimInv'
    BY <2>5 DEF EnqueueInsert, SetStatus, Idle, ClaimInv
  <2>6. ASSUME NEW h \in Handlers, CancelWrite(h) PROVE TypeOK' /\ ClaimInv'
    <3>1. [handler[h] EXCEPT !.op = "abort"] \in Requests /\ Idle \in Requests
      BY NextOp DEF Idle
    <3>2. status' \in [Scans -> {"NONE"} \cup InProgress \cup Final]
      BY <2>6 DEF CancelWrite, ClaimInv
    <3>3. handler' \in [Handlers -> Requests]
      BY <2>6, <3>1 DEF CancelWrite
    <3> QED
      BY <2>6, <3>2, <3>3 DEF CancelWrite, ClaimInv
  <2>7. ASSUME NEW h \in Handlers, CancelAbort(h) PROVE TypeOK' /\ ClaimInv'
    BY <2>7 DEF CancelAbort, Aborted, Idle, ClaimInv
  <2>8. ASSUME NEW i \in Instances, TickStart(i) PROVE TypeOK' /\ ClaimInv'
    BY <2>8 DEF TickStart, Stale, ClaimInv
  <2>9. ASSUME NEW i \in Instances, FailStale(i) PROVE TypeOK' /\ ClaimInv'
    BY <2>9 DEF FailStale, Stale, ClaimInv
  <2>10. ASSUME NEW i \in Instances, ClaimCommit(i) PROVE TypeOK' /\ ClaimInv'
    BY <2>10 DEF ClaimCommit, SetStatus, SetJob, ClaimInv
  <2>11. ASSUME NEW i \in Instances, TickEnd(i) PROVE TypeOK' /\ ClaimInv'
    BY <2>11 DEF TickEnd, Claiming, ClaimInv
  <2>12. ASSUME NEW i \in Instances, NEW s \in Scans, NotifyStale(i, s)
        PROVE  TypeOK' /\ ClaimInv'
    BY <2>12 DEF NotifyStale, ClaimInv
  <2>13. ASSUME NEW i \in Instances, NEW s \in Scans, ClaimSelect(i, s)
        PROVE  TypeOK' /\ ClaimInv'
    BY <2>13 DEF ClaimSelect, Claiming, ClaimInv
  <2>14. ASSUME NEW i \in Instances, NEW s \in Scans, Register(i, s)
        PROVE  TypeOK' /\ ClaimInv'
    BY <2>14 DEF Register, Leave, SetJob, ClaimInv
  <2>15. ASSUME NEW i \in Instances, NEW s \in Scans, ScanReturns(i, s)
        PROVE  TypeOK' /\ ClaimInv'
    BY <2>15 DEF ScanReturns, SetJob, ClaimInv
  <2>16. ASSUME NEW i \in Instances, NEW s \in Scans, Persist(i, s)
        PROVE  TypeOK' /\ ClaimInv'
    BY <2>16 DEF Persist, Leave, SetJob, SetStatus, ClaimInv
  <2>17. ASSUME NEW i \in Instances, NEW s \in Scans, PersistNothing(i, s)
        PROVE  TypeOK' /\ ClaimInv'
    BY <2>17 DEF PersistNothing, Leave, SetJob, ReleaseEntry, ClaimInv
  <2>18. ASSUME NEW i \in Instances, NEW s \in Scans, Interrupted(i, s)
        PROVE  TypeOK' /\ ClaimInv'
    <3>1. CASE signal[i][s] = "shutdown" /\ GiveBack(i, s) /\ UNCHANGED retries
      BY <3>1 DEF GiveBack, WriteIfRunning, Leave, SetJob, ClaimInv
    <3>2. CASE EndWith(i, s, "FAILED")
      BY <3>2 DEF EndWith, WriteIfRunning, Leave, SetJob, ClaimInv
    <3>3. CASE EndWith(i, s, "CANCELLED")
      BY <3>3 DEF EndWith, WriteIfRunning, Leave, SetJob, ClaimInv
    <3> QED
      BY <2>18, <3>1, <3>2, <3>3 DEF Interrupted
  <2>19. ASSUME NEW i \in Instances, NEW s \in Scans, JobFails(i, s)
        PROVE  TypeOK' /\ ClaimInv'
    BY <2>19 DEF JobFails, EndWith, WriteIfRunning, Leave, SetJob, ClaimInv
  <2>20. ASSUME NEW i \in Instances, NEW s \in Scans, TransientFailure(i, s)
        PROVE  TypeOK' /\ ClaimInv'
    BY <2>20 DEF TransientFailure, MayRetry, GiveBack, WriteIfRunning, Leave, SetJob,
       ClaimInv
  <2>21. ASSUME NEW i \in Instances, NEW s \in Scans, NotifyFinished(i, s)
        PROVE  TypeOK' /\ ClaimInv'
    BY <2>21 DEF NotifyFinished, SetJob, ReleaseEntry, ClaimInv
  <2>22. ASSUME NEW i \in Instances, NEW s \in Scans, Release(i, s)
        PROVE  TypeOK' /\ ClaimInv'
    BY <2>22 DEF Release, ReleaseEntry, ClaimInv
  <2>23. ASSUME NEW i \in Instances, NEW s \in Scans, Timeout(i, s)
        PROVE  TypeOK' /\ ClaimInv'
    BY <2>23 DEF Timeout, Aborted, ClaimInv
  <2>24. ASSUME NEW s \in Scans, Overdue(s) PROVE TypeOK' /\ ClaimInv'
    BY <2>24 DEF Overdue, ClaimInv
  <2>25. ASSUME NEW i \in Instances, Shutdown(i) PROVE TypeOK' /\ ClaimInv'
    BY <2>25 DEF Shutdown, Aborted, ClaimInv
  <2>26. ASSUME NEW i \in Instances, Exit(i) PROVE TypeOK' /\ ClaimInv'
    BY <2>26 DEF Exit, ProcessEnds, Idle, ClaimInv
  <2>27. ASSUME NEW i \in Instances, Crash(i) PROVE TypeOK' /\ ClaimInv'
    BY <2>27 DEF Crash, ProcessEnds, Idle, ClaimInv
  <2>28. ASSUME NEW i \in Instances, Restart(i) PROVE TypeOK' /\ ClaimInv'
    BY <2>28 DEF Restart, ClaimInv
  <2>29. CASE UNCHANGED vars
    BY <2>29 DEF vars, ClaimInv
  <2> QED
    BY <2>1, <2>2, <2>3, <2>4, <2>5, <2>6, <2>7, <2>8, <2>9, <2>10, <2>11, <2>12, <2>13,
       <2>14, <2>15, <2>16, <2>17, <2>18, <2>19, <2>20, <2>21, <2>22, <2>23, <2>24, <2>25,
       <2>26, <2>27, <2>28, <2>29 DEF Next, Request, Tick, Job, Process
<1> QED
  BY <1>1, <1>2, PTL DEF Spec

\* Every variable keeps its type.
THEOREM TypeCorrect == Spec => []TypeOK
BY TypeInvariant, PTL

------------------------------------------------------------------------------
(* Every step keeps each part of the inductive invariant.                   *)

\* Only the holder of the lock of an asset inserts a row of that asset.
LEMMA RequestStep ==
    TypeOK /\ ClaimInv /\ SafetyInv /\ [Next]_vars => RequestInv'
<1> SUFFICES ASSUME TypeOK, ClaimInv, RequestInv, ExecutionInv, TwinInv,
             ResultInv, [Next]_vars
             PROVE  RequestInv'
  BY DEF SafetyInv
<1> USE QueueAssumption DEF TypeOK, Requests, InProgress, rowVars, requestVars, tickVars,
       jobVars, Idle, Final
<1>1. ASSUME NEW h \in Handlers, NEW s \in Scans, EnqueueLock(h, s) PROVE RequestInv'
  <2>1. \A g \in Handlers : g # h => handler'[g] = handler[g]
    BY <1>1 DEF EnqueueLock
  <2>2. handler'[h].op = "check" /\ handler'[h].scan = s
    BY <1>1 DEF EnqueueLock, Idle
  <2>3. lock[AssetOf[s]] = Nobody /\ lock' = [lock EXCEPT ![AssetOf[s]] = h]
    BY <1>1 DEF EnqueueLock
  <2>4. status[s] = "NONE" /\ status' = status
    BY <1>1 DEF EnqueueLock
  <2>5. \A t \in Scans : AssetOf[t] \in Assets
    BY DEF Assets
  <2>6. ASSUME NEW g \in Handlers, Enqueuing(g)'
        PROVE  /\ handler'[g].scan \in Scans
               /\ status'[handler'[g].scan] = "NONE"
               /\ lock'[AssetOf[handler'[g].scan]] = g
    BY <2>1, <2>2, <2>3, <2>4, <2>5, <2>6 DEF RequestInv, Enqueuing
  <2>7. ASSUME NEW g \in Handlers, handler'[g].op \in {"cancel", "abort"}
        PROVE  handler'[g].scan \in Scans /\ handler'[g].seen \in InProgress
    BY <2>1, <2>2, <2>7 DEF RequestInv
  <2> QED
    BY <2>6, <2>7 DEF RequestInv, Enqueuing
<1>2. ASSUME NEW h \in Handlers, NEW s \in Scans, CancelRead(h, s) PROVE RequestInv'
  BY <1>2 DEF CancelRead, Idle, RequestInv, Enqueuing
<1>3. ASSUME NEW h \in Handlers, EnqueueCheck(h) PROVE RequestInv'
  BY <1>3 DEF EnqueueCheck, RequestInv, Enqueuing
<1>4. ASSUME NEW h \in Handlers, EnqueueReject(h) PROVE RequestInv'
  BY <1>4 DEF EnqueueReject, Idle, RequestInv, Enqueuing
<1>5. ASSUME NEW h \in Handlers, EnqueueInsert(h) PROVE RequestInv'
  BY <1>5 DEF EnqueueInsert, SetStatus, Idle, RequestInv, Enqueuing
<1>6. ASSUME NEW h \in Handlers, CancelWrite(h) PROVE RequestInv'
  BY <1>6 DEF CancelWrite, Idle, RequestInv, Enqueuing
<1>7. ASSUME NEW h \in Handlers, CancelAbort(h) PROVE RequestInv'
  BY <1>7 DEF CancelAbort, Aborted, Idle, RequestInv, Enqueuing
<1>8. ASSUME NEW i \in Instances, TickStart(i) PROVE RequestInv'
  BY <1>8 DEF TickStart, Stale, RequestInv, Enqueuing
<1>9. ASSUME NEW i \in Instances, FailStale(i) PROVE RequestInv'
  BY <1>9 DEF FailStale, Stale, RequestInv, Enqueuing
<1>10. ASSUME NEW i \in Instances, ClaimCommit(i) PROVE RequestInv'
  BY <1>10 DEF ClaimCommit, SetStatus, SetJob, ExecutionInv, ClaimInv, RequestInv,
     Enqueuing
<1>11. ASSUME NEW i \in Instances, TickEnd(i) PROVE RequestInv'
  BY <1>11 DEF TickEnd, Claiming, RequestInv, Enqueuing
<1>12. ASSUME NEW i \in Instances, NEW s \in Scans, NotifyStale(i, s) PROVE RequestInv'
  BY <1>12 DEF NotifyStale, RequestInv, Enqueuing
<1>13. ASSUME NEW i \in Instances, NEW s \in Scans, ClaimSelect(i, s) PROVE RequestInv'
  BY <1>13 DEF ClaimSelect, Claiming, RequestInv, Enqueuing
<1>14. ASSUME NEW i \in Instances, NEW s \in Scans, Register(i, s) PROVE RequestInv'
  BY <1>14 DEF Register, Leave, SetJob, RequestInv, Enqueuing
<1>15. ASSUME NEW i \in Instances, NEW s \in Scans, ScanReturns(i, s) PROVE RequestInv'
  BY <1>15 DEF ScanReturns, SetJob, RequestInv, Enqueuing
<1>16. ASSUME NEW i \in Instances, NEW s \in Scans, Persist(i, s) PROVE RequestInv'
  BY <1>16 DEF Persist, Leave, SetJob, SetStatus, RequestInv, Enqueuing
<1>17. ASSUME NEW i \in Instances, NEW s \in Scans, PersistNothing(i, s)
      PROVE  RequestInv'
  BY <1>17 DEF PersistNothing, Leave, SetJob, ReleaseEntry, RequestInv, Enqueuing
<1>18. ASSUME NEW i \in Instances, NEW s \in Scans, Interrupted(i, s) PROVE RequestInv'
  BY <1>18 DEF Interrupted, GiveBack, EndWith, WriteIfRunning, Leave, SetJob,
     RequestInv, Enqueuing
<1>19. ASSUME NEW i \in Instances, NEW s \in Scans, JobFails(i, s) PROVE RequestInv'
  BY <1>19 DEF JobFails, EndWith, WriteIfRunning, Leave, SetJob, RequestInv, Enqueuing
<1>20. ASSUME NEW i \in Instances, NEW s \in Scans, TransientFailure(i, s)
      PROVE  RequestInv'
  BY <1>20 DEF TransientFailure, GiveBack, WriteIfRunning, Leave, SetJob, RequestInv,
     Enqueuing
<1>21. ASSUME NEW i \in Instances, NEW s \in Scans, NotifyFinished(i, s)
      PROVE  RequestInv'
  BY <1>21 DEF NotifyFinished, SetJob, ReleaseEntry, RequestInv, Enqueuing
<1>22. ASSUME NEW i \in Instances, NEW s \in Scans, Release(i, s) PROVE RequestInv'
  BY <1>22 DEF Release, ReleaseEntry, RequestInv, Enqueuing
<1>23. ASSUME NEW i \in Instances, NEW s \in Scans, Timeout(i, s) PROVE RequestInv'
  BY <1>23 DEF Timeout, Aborted, RequestInv, Enqueuing
<1>24. ASSUME NEW s \in Scans, Overdue(s) PROVE RequestInv'
  BY <1>24 DEF Overdue, RequestInv, Enqueuing
<1>25. ASSUME NEW i \in Instances, Shutdown(i) PROVE RequestInv'
  BY <1>25 DEF Shutdown, Aborted, RequestInv, Enqueuing
<1>26. ASSUME NEW i \in Instances, Exit(i) PROVE RequestInv'
  <2>1. ASSUME NEW h \in Handlers, handler'[h].op # "idle"
        PROVE  handler'[h] = handler[h] /\ HomeOf[h] # i
    BY <1>26, <2>1 DEF Exit, ProcessEnds, Idle
  <2>2. ASSUME NEW a \in Assets, lock[a] \in Handlers, HomeOf[lock[a]] # i
        PROVE  lock'[a] = lock[a]
    BY <1>26, <2>2 DEF Exit, ProcessEnds
  <2>3. status' = status
    BY <1>26 DEF Exit, ProcessEnds
  <2>4. \A s \in Scans : AssetOf[s] \in Assets
    BY DEF Assets
  <2>5. ASSUME NEW h \in Handlers, Enqueuing(h)'
        PROVE  /\ handler'[h].scan \in Scans
               /\ status'[handler'[h].scan] = "NONE"
               /\ lock'[AssetOf[handler'[h].scan]] = h
    <3>1. handler'[h] = handler[h] /\ HomeOf[h] # i /\ Enqueuing(h)
      BY <2>1, <2>5 DEF Enqueuing
    <3>2. /\ handler[h].scan \in Scans
          /\ status[handler[h].scan] = "NONE"
          /\ lock[AssetOf[handler[h].scan]] = h
      BY <3>1 DEF RequestInv
    <3> QED
      BY <2>2, <2>3, <2>4, <3>1, <3>2
  <2>6. ASSUME NEW h \in Handlers, handler'[h].op \in {"cancel", "abort"}
        PROVE  handler'[h].scan \in Scans /\ handler'[h].seen \in InProgress
    BY <2>1, <2>6 DEF RequestInv
  <2> QED
    BY <2>5, <2>6 DEF RequestInv, Enqueuing
<1>27. ASSUME NEW i \in Instances, Crash(i) PROVE RequestInv'
  <2>1. ASSUME NEW h \in Handlers, handler'[h].op # "idle"
        PROVE  handler'[h] = handler[h] /\ HomeOf[h] # i
    BY <1>27, <2>1 DEF Crash, ProcessEnds, Idle
  <2>2. ASSUME NEW a \in Assets, lock[a] \in Handlers, HomeOf[lock[a]] # i
        PROVE  lock'[a] = lock[a]
    BY <1>27, <2>2 DEF Crash, ProcessEnds
  <2>3. status' = status
    BY <1>27 DEF Crash, ProcessEnds
  <2>4. \A s \in Scans : AssetOf[s] \in Assets
    BY DEF Assets
  <2>5. ASSUME NEW h \in Handlers, Enqueuing(h)'
        PROVE  /\ handler'[h].scan \in Scans
               /\ status'[handler'[h].scan] = "NONE"
               /\ lock'[AssetOf[handler'[h].scan]] = h
    <3>1. handler'[h] = handler[h] /\ HomeOf[h] # i /\ Enqueuing(h)
      BY <2>1, <2>5 DEF Enqueuing
    <3>2. /\ handler[h].scan \in Scans
          /\ status[handler[h].scan] = "NONE"
          /\ lock[AssetOf[handler[h].scan]] = h
      BY <3>1 DEF RequestInv
    <3> QED
      BY <2>2, <2>3, <2>4, <3>1, <3>2
  <2>6. ASSUME NEW h \in Handlers, handler'[h].op \in {"cancel", "abort"}
        PROVE  handler'[h].scan \in Scans /\ handler'[h].seen \in InProgress
    BY <2>1, <2>6 DEF RequestInv
  <2> QED
    BY <2>5, <2>6 DEF RequestInv, Enqueuing
<1>28. ASSUME NEW i \in Instances, Restart(i) PROVE RequestInv'
  BY <1>28 DEF Restart, RequestInv, Enqueuing
<1>29. CASE UNCHANGED vars
  BY <1>29 DEF vars, RequestInv, Enqueuing
<1> QED
  BY <1>1, <1>2, <1>3, <1>4, <1>5, <1>6, <1>7, <1>8, <1>9, <1>10, <1>11, <1>12, <1>13,
   <1>14, <1>15, <1>16, <1>17, <1>18, <1>19, <1>20, <1>21, <1>22, <1>23, <1>24, <1>25,
   <1>26, <1>27, <1>28, <1>29 DEF Next, Request, Tick, Job, Process

\* A row is claimed from PENDING, and goes back to PENDING with the end of its job.
LEMMA ExecutionStep ==
    TypeOK /\ ClaimInv /\ SafetyInv /\ [Next]_vars => ExecutionInv'
<1> SUFFICES ASSUME TypeOK, ClaimInv, RequestInv, ExecutionInv, TwinInv,
             ResultInv, [Next]_vars
             PROVE  ExecutionInv'
  BY DEF SafetyInv
<1> USE QueueAssumption DEF TypeOK, Requests, InProgress, rowVars, requestVars, tickVars,
       jobVars, ExecutionInv, RequestInv, Enqueuing, ClaimInv, Claimable, Locked, Phases
<1>1. ASSUME NEW h \in Handlers, NEW s \in Scans, EnqueueLock(h, s) PROVE ExecutionInv'
  BY <1>1 DEF EnqueueLock, Idle
<1>2. ASSUME NEW h \in Handlers, NEW s \in Scans, CancelRead(h, s) PROVE ExecutionInv'
  BY <1>2 DEF CancelRead, Idle
<1>3. ASSUME NEW h \in Handlers, EnqueueCheck(h) PROVE ExecutionInv'
  BY <1>3 DEF EnqueueCheck
<1>4. ASSUME NEW h \in Handlers, EnqueueReject(h) PROVE ExecutionInv'
  BY <1>4 DEF EnqueueReject, Idle
<1>5. ASSUME NEW h \in Handlers, EnqueueInsert(h) PROVE ExecutionInv'
  BY <1>5 DEF EnqueueInsert, SetStatus, Idle
<1>6. ASSUME NEW h \in Handlers, CancelWrite(h) PROVE ExecutionInv'
  BY <1>6 DEF CancelWrite, Idle
<1>7. ASSUME NEW h \in Handlers, CancelAbort(h) PROVE ExecutionInv'
  BY <1>7 DEF CancelAbort, Aborted, Idle
<1>8. ASSUME NEW i \in Instances, TickStart(i) PROVE ExecutionInv'
  BY <1>8 DEF TickStart, Stale
<1>9. ASSUME NEW i \in Instances, FailStale(i) PROVE ExecutionInv'
  BY <1>9 DEF FailStale, Stale
<1>10. ASSUME NEW i \in Instances, ClaimCommit(i) PROVE ExecutionInv'
  BY <1>10 DEF ClaimCommit, SetStatus, SetJob
<1>11. ASSUME NEW i \in Instances, TickEnd(i) PROVE ExecutionInv'
  BY <1>11 DEF TickEnd, Claiming
<1>12. ASSUME NEW i \in Instances, NEW s \in Scans, NotifyStale(i, s)
      PROVE  ExecutionInv'
  BY <1>12 DEF NotifyStale
<1>13. ASSUME NEW i \in Instances, NEW s \in Scans, ClaimSelect(i, s)
      PROVE  ExecutionInv'
  BY <1>13 DEF ClaimSelect, Claiming
<1>14. ASSUME NEW i \in Instances, NEW s \in Scans, Register(i, s) PROVE ExecutionInv'
  BY <1>14 DEF Register, Leave, SetJob
<1>15. ASSUME NEW i \in Instances, NEW s \in Scans, ScanReturns(i, s)
      PROVE  ExecutionInv'
  BY <1>15 DEF ScanReturns, SetJob
<1>16. ASSUME NEW i \in Instances, NEW s \in Scans, Persist(i, s) PROVE ExecutionInv'
  BY <1>16 DEF Persist, Leave, SetJob, SetStatus
<1>17. ASSUME NEW i \in Instances, NEW s \in Scans, PersistNothing(i, s)
      PROVE  ExecutionInv'
  BY <1>17 DEF PersistNothing, Leave, SetJob, ReleaseEntry
<1>18. ASSUME NEW i \in Instances, NEW s \in Scans, Interrupted(i, s)
      PROVE  ExecutionInv'
  <2>1. CASE GiveBack(i, s)
    BY <1>18, <2>1 DEF Interrupted, GiveBack, WriteIfRunning, Leave, SetJob
  <2>2. CASE \E st \in Final : EndWith(i, s, st)
    BY <1>18, <2>2 DEF Interrupted, EndWith, WriteIfRunning, Leave, SetJob, Final
  <2> QED
    BY <1>18, <2>1, <2>2 DEF Interrupted, Final
<1>19. ASSUME NEW i \in Instances, NEW s \in Scans, JobFails(i, s) PROVE ExecutionInv'
  BY <1>19 DEF JobFails, EndWith, WriteIfRunning, Leave, SetJob
<1>20. ASSUME NEW i \in Instances, NEW s \in Scans, TransientFailure(i, s)
      PROVE  ExecutionInv'
  BY <1>20 DEF TransientFailure, GiveBack, WriteIfRunning, Leave, SetJob
<1>21. ASSUME NEW i \in Instances, NEW s \in Scans, NotifyFinished(i, s)
      PROVE  ExecutionInv'
  BY <1>21 DEF NotifyFinished, SetJob, ReleaseEntry
<1>22. ASSUME NEW i \in Instances, NEW s \in Scans, Release(i, s) PROVE ExecutionInv'
  BY <1>22 DEF Release, ReleaseEntry
<1>23. ASSUME NEW i \in Instances, NEW s \in Scans, Timeout(i, s) PROVE ExecutionInv'
  BY <1>23 DEF Timeout, Aborted
<1>24. ASSUME NEW s \in Scans, Overdue(s) PROVE ExecutionInv'
  BY <1>24 DEF Overdue
<1>25. ASSUME NEW i \in Instances, Shutdown(i) PROVE ExecutionInv'
  BY <1>25 DEF Shutdown, Aborted
<1>26. ASSUME NEW i \in Instances, Exit(i) PROVE ExecutionInv'
  BY <1>26 DEF Exit, ProcessEnds, Idle
<1>27. ASSUME NEW i \in Instances, Crash(i) PROVE ExecutionInv'
  BY <1>27 DEF Crash, ProcessEnds, Idle
<1>28. ASSUME NEW i \in Instances, Restart(i) PROVE ExecutionInv'
  BY <1>28 DEF Restart
<1>29. CASE UNCHANGED vars
  BY <1>29 DEF vars
<1> QED
  BY <1>1, <1>2, <1>3, <1>4, <1>5, <1>6, <1>7, <1>8, <1>9, <1>10, <1>11, <1>12, <1>13,
   <1>14, <1>15, <1>16, <1>17, <1>18, <1>19, <1>20, <1>21, <1>22, <1>23, <1>24, <1>25,
   <1>26, <1>27, <1>28, <1>29 DEF Next, Request, Tick, Job, Process

\* Nothing to show of a step that puts no row in progress and starts no INSERT.
LEMMA TwinsKept ==
    ASSUME TwinInv,
           \A t \in Scans : status'[t] \in InProgress => status[t] \in InProgress,
           \A g \in Handlers : handler'[g].op = "insert" => handler'[g] = handler[g]
    PROVE  TwinInv'
<1>1. OneInProgressPerType'
  BY DEF TwinInv, OneInProgressPerType, SameKey
<1>2. ASSUME NEW h \in Handlers, handler'[h].op = "insert"
      PROVE  ~InProgressTwin(handler[h].scan)'
  <2>1. handler'[h] = handler[h]
    BY <1>2
  <2>2. ~InProgressTwin(handler[h].scan)
    BY <1>2, <2>1 DEF TwinInv
  <2> QED
    BY <2>1, <2>2 DEF InProgressTwin, SameKey
<1> QED
  BY <1>1, <1>2 DEF TwinInv

\* The lock of the asset covers the check of enqueue and its INSERT.
LEMMA TwinStep ==
    TypeOK /\ ClaimInv /\ SafetyInv /\ [Next]_vars => TwinInv'
<1> SUFFICES ASSUME TypeOK, ClaimInv, RequestInv, ExecutionInv, TwinInv,
             ResultInv, [Next]_vars
             PROVE  TwinInv'
  BY DEF SafetyInv
<1> USE QueueAssumption DEF TypeOK, Requests, InProgress, rowVars, requestVars, tickVars, jobVars
<1>1. ASSUME NEW h \in Handlers, NEW s \in Scans, EnqueueLock(h, s) PROVE TwinInv'
  BY <1>1 DEF EnqueueLock, Idle, TwinInv, RequestInv, Enqueuing, OneInProgressPerType,
     SameKey, InProgressTwin, Final
<1>2. ASSUME NEW h \in Handlers, NEW s \in Scans, CancelRead(h, s) PROVE TwinInv'
  <2>1. \A t \in Scans : status'[t] \in InProgress => status[t] \in InProgress
    BY <1>2 DEF CancelRead
  <2>2. \A g \in Handlers : handler'[g].op = "insert" => handler'[g] = handler[g]
    BY <1>2 DEF CancelRead, Idle
  <2> QED
    BY <2>1, <2>2, TwinsKept
<1>3. ASSUME NEW h \in Handlers, EnqueueCheck(h) PROVE TwinInv'
  <2>1. \A g \in Handlers : g # h => handler'[g] = handler[g]
    BY <1>3 DEF EnqueueCheck
  <2>2. handler'[h].scan = handler[h].scan
    BY <1>3 DEF EnqueueCheck
  <2>3. ~InProgressTwin(handler[h].scan) /\ status' = status
    BY <1>3 DEF EnqueueCheck
  <2>4. ASSUME NEW g \in Handlers, handler'[g].op = "insert"
        PROVE  ~InProgressTwin(handler[g].scan)'
    <3>1. handler'[g].scan = handler[g].scan /\ ~InProgressTwin(handler[g].scan)
      BY <2>1, <2>2, <2>3, <2>4 DEF TwinInv
    <3> QED
      BY <2>3, <3>1 DEF InProgressTwin, SameKey
  <2> QED
    BY <2>3, <2>4 DEF TwinInv, OneInProgressPerType, InProgressTwin, SameKey
<1>4. ASSUME NEW h \in Handlers, EnqueueReject(h) PROVE TwinInv'
  BY <1>4 DEF EnqueueReject, Idle, TwinInv, RequestInv, Enqueuing, OneInProgressPerType,
     SameKey, InProgressTwin, Final
<1>5. ASSUME NEW h \in Handlers, EnqueueInsert(h) PROVE TwinInv'
  BY <1>5 DEF EnqueueInsert, SetStatus, Idle, TwinInv, RequestInv, Enqueuing,
     OneInProgressPerType, SameKey, InProgressTwin, Final
<1>6. ASSUME NEW h \in Handlers, CancelWrite(h) PROVE TwinInv'
  <2>1. \A t \in Scans : status'[t] \in InProgress => status[t] \in InProgress
    BY <1>6 DEF CancelWrite
  <2>2. \A g \in Handlers : handler'[g].op = "insert" => handler'[g] = handler[g]
    BY <1>6 DEF CancelWrite, Idle
  <2> QED
    BY <2>1, <2>2, TwinsKept
<1>7. ASSUME NEW h \in Handlers, CancelAbort(h) PROVE TwinInv'
  <2>1. \A t \in Scans : status'[t] \in InProgress => status[t] \in InProgress
    BY <1>7 DEF CancelAbort
  <2>2. \A g \in Handlers : handler'[g].op = "insert" => handler'[g] = handler[g]
    BY <1>7 DEF CancelAbort, Idle
  <2> QED
    BY <2>1, <2>2, TwinsKept
<1>8. ASSUME NEW i \in Instances, TickStart(i) PROVE TwinInv'
  BY <1>8 DEF TickStart, Stale, TwinInv, RequestInv, Enqueuing, OneInProgressPerType,
     SameKey, InProgressTwin, Idle, Final
<1>9. ASSUME NEW i \in Instances, FailStale(i) PROVE TwinInv'
  BY <1>9 DEF FailStale, Stale, TwinInv, RequestInv, Enqueuing, OneInProgressPerType,
     SameKey, InProgressTwin, Idle, Final
<1>10. ASSUME NEW i \in Instances, ClaimCommit(i) PROVE TwinInv'
  <2>1. \A t \in Scans : status'[t] \in InProgress => status[t] \in InProgress
    BY <1>10 DEF ClaimCommit, SetStatus, ExecutionInv, ClaimInv
  <2>2. \A g \in Handlers : handler'[g].op = "insert" => handler'[g] = handler[g]
    BY <1>10 DEF ClaimCommit
  <2> QED
    BY <2>1, <2>2, TwinsKept
<1>11. ASSUME NEW i \in Instances, TickEnd(i) PROVE TwinInv'
  BY <1>11 DEF TickEnd, Claiming, TwinInv, RequestInv, Enqueuing, OneInProgressPerType,
     SameKey, InProgressTwin, Idle, Final
<1>12. ASSUME NEW i \in Instances, NEW s \in Scans, NotifyStale(i, s) PROVE TwinInv'
  BY <1>12 DEF NotifyStale, TwinInv, RequestInv, Enqueuing, OneInProgressPerType,
     SameKey, InProgressTwin, Idle, Final
<1>13. ASSUME NEW i \in Instances, NEW s \in Scans, ClaimSelect(i, s) PROVE TwinInv'
  BY <1>13 DEF ClaimSelect, Claiming, TwinInv, RequestInv, Enqueuing,
     OneInProgressPerType, SameKey, InProgressTwin, Idle, Final
<1>14. ASSUME NEW i \in Instances, NEW s \in Scans, Register(i, s) PROVE TwinInv'
  BY <1>14 DEF Register, Leave, SetJob, TwinInv, RequestInv, Enqueuing,
     OneInProgressPerType, SameKey, InProgressTwin, Idle, Final
<1>15. ASSUME NEW i \in Instances, NEW s \in Scans, ScanReturns(i, s) PROVE TwinInv'
  BY <1>15 DEF ScanReturns, SetJob, TwinInv, RequestInv, Enqueuing,
     OneInProgressPerType, SameKey, InProgressTwin, Idle, Final
<1>16. ASSUME NEW i \in Instances, NEW s \in Scans, Persist(i, s) PROVE TwinInv'
  BY <1>16 DEF Persist, Leave, SetJob, SetStatus, TwinInv, RequestInv, Enqueuing,
     OneInProgressPerType, SameKey, InProgressTwin, Idle, Final
<1>17. ASSUME NEW i \in Instances, NEW s \in Scans, PersistNothing(i, s) PROVE TwinInv'
  BY <1>17 DEF PersistNothing, Leave, SetJob, ReleaseEntry, TwinInv, RequestInv,
     Enqueuing, OneInProgressPerType, SameKey, InProgressTwin, Idle, Final
<1>18. ASSUME NEW i \in Instances, NEW s \in Scans, Interrupted(i, s) PROVE TwinInv'
  <2>1. \A t \in Scans : status'[t] \in InProgress => status[t] \in InProgress
    BY <1>18 DEF Interrupted, GiveBack, EndWith, WriteIfRunning
  <2>2. \A g \in Handlers : handler'[g].op = "insert" => handler'[g] = handler[g]
    BY <1>18 DEF Interrupted, GiveBack, EndWith
  <2> QED
    BY <2>1, <2>2, TwinsKept
<1>19. ASSUME NEW i \in Instances, NEW s \in Scans, JobFails(i, s) PROVE TwinInv'
  BY <1>19 DEF JobFails, EndWith, WriteIfRunning, Leave, SetJob, TwinInv, RequestInv,
     Enqueuing, OneInProgressPerType, SameKey, InProgressTwin, Idle, Final
<1>20. ASSUME NEW i \in Instances, NEW s \in Scans, TransientFailure(i, s)
      PROVE  TwinInv'
  BY <1>20 DEF TransientFailure, GiveBack, WriteIfRunning, Leave, SetJob, TwinInv,
     RequestInv, Enqueuing, OneInProgressPerType, SameKey, InProgressTwin, Idle, Final
<1>21. ASSUME NEW i \in Instances, NEW s \in Scans, NotifyFinished(i, s) PROVE TwinInv'
  BY <1>21 DEF NotifyFinished, SetJob, ReleaseEntry, TwinInv, RequestInv, Enqueuing,
     OneInProgressPerType, SameKey, InProgressTwin, Idle, Final
<1>22. ASSUME NEW i \in Instances, NEW s \in Scans, Release(i, s) PROVE TwinInv'
  BY <1>22 DEF Release, ReleaseEntry, TwinInv, RequestInv, Enqueuing,
     OneInProgressPerType, SameKey, InProgressTwin, Idle, Final
<1>23. ASSUME NEW i \in Instances, NEW s \in Scans, Timeout(i, s) PROVE TwinInv'
  BY <1>23 DEF Timeout, Aborted, TwinInv, RequestInv, Enqueuing, OneInProgressPerType,
     SameKey, InProgressTwin, Idle, Final
<1>24. ASSUME NEW s \in Scans, Overdue(s) PROVE TwinInv'
  BY <1>24 DEF Overdue, TwinInv, RequestInv, Enqueuing, OneInProgressPerType, SameKey,
     InProgressTwin, Idle, Final
<1>25. ASSUME NEW i \in Instances, Shutdown(i) PROVE TwinInv'
  BY <1>25 DEF Shutdown, Aborted, TwinInv, RequestInv, Enqueuing, OneInProgressPerType,
     SameKey, InProgressTwin, Idle, Final
<1>26. ASSUME NEW i \in Instances, Exit(i) PROVE TwinInv'
  <2>1. \A t \in Scans : status'[t] \in InProgress => status[t] \in InProgress
    BY <1>26 DEF Exit, ProcessEnds
  <2>2. \A g \in Handlers : handler'[g].op = "insert" => handler'[g] = handler[g]
    BY <1>26 DEF Exit, ProcessEnds, Idle
  <2> QED
    BY <2>1, <2>2, TwinsKept
<1>27. ASSUME NEW i \in Instances, Crash(i) PROVE TwinInv'
  <2>1. \A t \in Scans : status'[t] \in InProgress => status[t] \in InProgress
    BY <1>27 DEF Crash, ProcessEnds
  <2>2. \A g \in Handlers : handler'[g].op = "insert" => handler'[g] = handler[g]
    BY <1>27 DEF Crash, ProcessEnds, Idle
  <2> QED
    BY <2>1, <2>2, TwinsKept
<1>28. ASSUME NEW i \in Instances, Restart(i) PROVE TwinInv'
  BY <1>28 DEF Restart, TwinInv, RequestInv, Enqueuing, OneInProgressPerType, SameKey,
     InProgressTwin, Idle, Final
<1>29. CASE UNCHANGED vars
  BY <1>29 DEF vars, TwinInv, RequestInv, Enqueuing, OneInProgressPerType, SameKey,
     InProgressTwin, Idle, Final
<1> QED
  BY <1>1, <1>2, <1>3, <1>4, <1>5, <1>6, <1>7, <1>8, <1>9, <1>10, <1>11, <1>12, <1>13,
   <1>14, <1>15, <1>16, <1>17, <1>18, <1>19, <1>20, <1>21, <1>22, <1>23, <1>24, <1>25,
   <1>26, <1>27, <1>28, <1>29 DEF Next, Request, Tick, Job, Process

\* Only a RUNNING row completes, and a COMPLETED row is never RUNNING again.
LEMMA ResultStep ==
    TypeOK /\ ClaimInv /\ SafetyInv /\ [Next]_vars => ResultInv'
<1> SUFFICES ASSUME TypeOK, ClaimInv, RequestInv, ExecutionInv, TwinInv,
             ResultInv, [Next]_vars
             PROVE  ResultInv'
  BY DEF SafetyInv
<1> USE QueueAssumption DEF TypeOK, Requests, InProgress, rowVars, requestVars, tickVars, jobVars
<1>1. ASSUME NEW h \in Handlers, NEW s \in Scans, EnqueueLock(h, s) PROVE ResultInv'
  BY <1>1 DEF EnqueueLock, Idle, ResultInv, RequestInv, Enqueuing
<1>2. ASSUME NEW h \in Handlers, NEW s \in Scans, CancelRead(h, s) PROVE ResultInv'
  BY <1>2 DEF CancelRead, Idle, ResultInv, RequestInv, Enqueuing
<1>3. ASSUME NEW h \in Handlers, EnqueueCheck(h) PROVE ResultInv'
  BY <1>3 DEF EnqueueCheck, ResultInv, RequestInv, Enqueuing
<1>4. ASSUME NEW h \in Handlers, EnqueueReject(h) PROVE ResultInv'
  BY <1>4 DEF EnqueueReject, Idle, ResultInv, RequestInv, Enqueuing
<1>5. ASSUME NEW h \in Handlers, EnqueueInsert(h) PROVE ResultInv'
  BY <1>5 DEF EnqueueInsert, SetStatus, Idle, ResultInv, RequestInv, Enqueuing
<1>6. ASSUME NEW h \in Handlers, CancelWrite(h) PROVE ResultInv'
  BY <1>6 DEF CancelWrite, Idle, ResultInv, RequestInv, Enqueuing
<1>7. ASSUME NEW h \in Handlers, CancelAbort(h) PROVE ResultInv'
  BY <1>7 DEF CancelAbort, Aborted, Idle, ResultInv, RequestInv, Enqueuing
<1>8. ASSUME NEW i \in Instances, TickStart(i) PROVE ResultInv'
  BY <1>8 DEF TickStart, Stale, ResultInv, RequestInv, Enqueuing
<1>9. ASSUME NEW i \in Instances, FailStale(i) PROVE ResultInv'
  BY <1>9 DEF FailStale, Stale, ResultInv, RequestInv, Enqueuing
<1>10. ASSUME NEW i \in Instances, ClaimCommit(i) PROVE ResultInv'
  BY <1>10 DEF ClaimCommit, SetStatus, SetJob, ExecutionInv, ClaimInv, ResultInv,
     RequestInv, Enqueuing
<1>11. ASSUME NEW i \in Instances, TickEnd(i) PROVE ResultInv'
  BY <1>11 DEF TickEnd, Claiming, ResultInv, RequestInv, Enqueuing
<1>12. ASSUME NEW i \in Instances, NEW s \in Scans, NotifyStale(i, s) PROVE ResultInv'
  BY <1>12 DEF NotifyStale, ResultInv, RequestInv, Enqueuing
<1>13. ASSUME NEW i \in Instances, NEW s \in Scans, ClaimSelect(i, s) PROVE ResultInv'
  BY <1>13 DEF ClaimSelect, Claiming, ResultInv, RequestInv, Enqueuing
<1>14. ASSUME NEW i \in Instances, NEW s \in Scans, Register(i, s) PROVE ResultInv'
  BY <1>14 DEF Register, Leave, SetJob, ResultInv, RequestInv, Enqueuing
<1>15. ASSUME NEW i \in Instances, NEW s \in Scans, ScanReturns(i, s) PROVE ResultInv'
  BY <1>15 DEF ScanReturns, SetJob, ResultInv, RequestInv, Enqueuing
<1>16. ASSUME NEW i \in Instances, NEW s \in Scans, Persist(i, s) PROVE ResultInv'
  BY <1>16 DEF Persist, Leave, SetJob, SetStatus, ResultInv, RequestInv, Enqueuing
<1>17. ASSUME NEW i \in Instances, NEW s \in Scans, PersistNothing(i, s)
      PROVE  ResultInv'
  BY <1>17 DEF PersistNothing, Leave, SetJob, ReleaseEntry, ResultInv, RequestInv,
     Enqueuing
<1>18. ASSUME NEW i \in Instances, NEW s \in Scans, Interrupted(i, s) PROVE ResultInv'
  BY <1>18 DEF Interrupted, GiveBack, EndWith, WriteIfRunning, Leave, SetJob, ResultInv,
     RequestInv, Enqueuing
<1>19. ASSUME NEW i \in Instances, NEW s \in Scans, JobFails(i, s) PROVE ResultInv'
  BY <1>19 DEF JobFails, EndWith, WriteIfRunning, Leave, SetJob, ResultInv, RequestInv,
     Enqueuing
<1>20. ASSUME NEW i \in Instances, NEW s \in Scans, TransientFailure(i, s)
      PROVE  ResultInv'
  BY <1>20 DEF TransientFailure, GiveBack, WriteIfRunning, Leave, SetJob, ResultInv,
     RequestInv, Enqueuing
<1>21. ASSUME NEW i \in Instances, NEW s \in Scans, NotifyFinished(i, s)
      PROVE  ResultInv'
  BY <1>21 DEF NotifyFinished, SetJob, ReleaseEntry, ResultInv, RequestInv, Enqueuing
<1>22. ASSUME NEW i \in Instances, NEW s \in Scans, Release(i, s) PROVE ResultInv'
  BY <1>22 DEF Release, ReleaseEntry, ResultInv, RequestInv, Enqueuing
<1>23. ASSUME NEW i \in Instances, NEW s \in Scans, Timeout(i, s) PROVE ResultInv'
  BY <1>23 DEF Timeout, Aborted, ResultInv, RequestInv, Enqueuing
<1>24. ASSUME NEW s \in Scans, Overdue(s) PROVE ResultInv'
  BY <1>24 DEF Overdue, ResultInv, RequestInv, Enqueuing
<1>25. ASSUME NEW i \in Instances, Shutdown(i) PROVE ResultInv'
  BY <1>25 DEF Shutdown, Aborted, ResultInv, RequestInv, Enqueuing
<1>26. ASSUME NEW i \in Instances, Exit(i) PROVE ResultInv'
  BY <1>26 DEF Exit, ProcessEnds, Idle, ResultInv, RequestInv, Enqueuing
<1>27. ASSUME NEW i \in Instances, Crash(i) PROVE ResultInv'
  BY <1>27 DEF Crash, ProcessEnds, Idle, ResultInv, RequestInv, Enqueuing
<1>28. ASSUME NEW i \in Instances, Restart(i) PROVE ResultInv'
  BY <1>28 DEF Restart, ResultInv, RequestInv, Enqueuing
<1>29. CASE UNCHANGED vars
  BY <1>29 DEF vars, ResultInv, RequestInv, Enqueuing
<1> QED
  BY <1>1, <1>2, <1>3, <1>4, <1>5, <1>6, <1>7, <1>8, <1>9, <1>10, <1>11, <1>12, <1>13,
   <1>14, <1>15, <1>16, <1>17, <1>18, <1>19, <1>20, <1>21, <1>22, <1>23, <1>24, <1>25,
   <1>26, <1>27, <1>28, <1>29 DEF Next, Request, Tick, Job, Process

\* The parts together are inductive.
LEMMA SafetyInvariant == Spec => [](TypeOK /\ ClaimInv /\ SafetyInv)
<1>1. Init => SafetyInv
  BY QueueAssumption DEF Init, SafetyInv, RequestInv, ExecutionInv, TwinInv, ResultInv, Enqueuing,
     Idle, OneInProgressPerType, InProgressTwin, InProgress
<1>2. TypeOK /\ ClaimInv /\ SafetyInv /\ [Next]_vars => SafetyInv'
  BY RequestStep, ExecutionStep, TwinStep, ResultStep DEF SafetyInv
<1> QED
  BY <1>1, <1>2, TypeInvariant, PTL DEF Spec

------------------------------------------------------------------------------
(* The theorems.                                                            *)

\* Two workers never execute the same scan, and a queued scan has no executor:
\* `FOR UPDATE SKIP LOCKED`, the conditional updates of the jobs and of
\* failStaleScans together, for any number of instances.
THEOREM OneExecutorPerScan == Spec => []OneExecutor
<1>1. SafetyInv => OneExecutor
  BY DEF SafetyInv, ExecutionInv, OneExecutor
<1> QED
  BY <1>1, SafetyInvariant, PTL

\* The advisory lock of enqueue keeps one scan in progress per asset and type.
THEOREM OneScanPerType == Spec => []OneInProgressPerType
<1>1. SafetyInv => OneInProgressPerType
  BY DEF SafetyInv, TwinInv
<1> QED
  BY <1>1, SafetyInvariant, PTL

------------------------------------------------------------------------------
(* The limit per organisation.                                              *)

Orgs == {OrgOf[s] : s \in Scans}
RunningIn(o) == {r \in Scans : OrgOf[r] = o /\ status[r] = "RUNNING"}

\* The workers with a claim in flight of a row of the organisation.
ClaimingFor(o) == {i \in Workers : picked[i] # NoScan /\ OrgOf[picked[i]] = o}

\* A claim in flight takes a place that the count of another claim does not see: what runs
\* and what is being claimed pass the limit by fewer than the workers.
PlaceInv ==
    /\ \A i \in Instances : tick[i] # "idle" => i \in Workers
    /\ \A o \in Orgs :
         Cardinality(RunningIn(o)) + Cardinality(ClaimingFor(o)) < MaxPerOrg + Cardinality(Workers)

\* The sets that the limit counts are finite.
LEMMA PlacesAreFinite ==
    ASSUME NEW o
    PROVE  /\ IsFiniteSet(RunningIn(o)) /\ Cardinality(RunningIn(o)) \in Nat
           /\ IsFiniteSet(ClaimingFor(o)) /\ Cardinality(ClaimingFor(o)) \in Nat
           /\ Cardinality(ClaimingFor(o)) <= Cardinality(Workers) /\ Cardinality(Workers) \in Nat
<1>1. RunningIn(o) \subseteq Scans /\ ClaimingFor(o) \subseteq Workers
  BY DEF RunningIn, ClaimingFor
<1> QED
  BY <1>1, QueueAssumption, FS_Subset, FS_CardinalityType

\* A step that starts no scan and locks no row takes no place.
LEMMA PlacesKept ==
    ASSUME TypeOK, TypeOK', PlaceInv, \A i \in Instances : tick'[i] # "idle" => i \in Workers,
           \A s \in Scans : status'[s] = "RUNNING" => status[s] = "RUNNING",
           \A i \in Instances : picked'[i] \in {picked[i], NoScan}
    PROVE  PlaceInv'
<1> SUFFICES ASSUME NEW o \in Orgs
             PROVE  Cardinality(RunningIn(o)') + Cardinality(ClaimingFor(o)')
                      < MaxPerOrg + Cardinality(Workers)
  BY DEF PlaceInv
<1>1. RunningIn(o)' \subseteq RunningIn(o)
  BY DEF RunningIn
<1>2. ClaimingFor(o)' \subseteq ClaimingFor(o)
  BY QueueAssumption DEF ClaimingFor
<1>3. /\ Cardinality(RunningIn(o)') \in Nat
      /\ Cardinality(RunningIn(o)') <= Cardinality(RunningIn(o))
  BY <1>1, PlacesAreFinite, FS_Subset, FS_CardinalityType
<1>4. /\ Cardinality(ClaimingFor(o)') \in Nat
      /\ Cardinality(ClaimingFor(o)') <= Cardinality(ClaimingFor(o))
  BY <1>2, PlacesAreFinite, FS_Subset, FS_CardinalityType
<1>5. Cardinality(RunningIn(o)) + Cardinality(ClaimingFor(o)) < MaxPerOrg + Cardinality(Workers)
  BY DEF PlaceInv
<1> QED
  BY <1>3, <1>4, <1>5, PlacesAreFinite, QueueAssumption

\* The sub-select of a claim: it counts what runs, and not the other claims.
LEMMA ClaimSelectPlaces ==
    ASSUME TypeOK, PlaceInv, NEW i \in Instances, NEW s \in Scans, ClaimSelect(i, s)
    PROVE  PlaceInv'
<1>1. /\ tick[i] = "claim" /\ RunningOf(OrgOf[s]) < MaxPerOrg /\ status' = status
      /\ picked' = [picked EXCEPT ![i] = s] /\ tick' = [tick EXCEPT ![i] = "claiming"]
  BY DEF ClaimSelect, Claiming, Claimable, rowVars
<1>2. \A j \in Instances : tick'[j] # "idle" => j \in Workers
  BY <1>1 DEF PlaceInv, TypeOK
<1>3. ASSUME NEW o \in Orgs
      PROVE  Cardinality(RunningIn(o)') + Cardinality(ClaimingFor(o)') < MaxPerOrg + Cardinality(Workers)
  <2>1. RunningIn(o)' = RunningIn(o)
    BY <1>1 DEF RunningIn
  <2>2. CASE o = OrgOf[s]
    <3>1. Cardinality(RunningIn(o)) < MaxPerOrg
      BY <1>1, <2>2 DEF RunningOf, RunningIn
    <3>2. ClaimingFor(o)' \subseteq Workers
      BY DEF ClaimingFor
    <3>3. Cardinality(ClaimingFor(o)') \in Nat /\ Cardinality(ClaimingFor(o)') <= Cardinality(Workers)
      BY <3>2, QueueAssumption, FS_Subset, FS_CardinalityType
    <3> QED
      BY <2>1, <3>1, <3>3, PlacesAreFinite, QueueAssumption
  <2>3. CASE o # OrgOf[s]
    <3>1. ClaimingFor(o)' \subseteq ClaimingFor(o)
      BY <1>1, <2>3, QueueAssumption DEF ClaimingFor, TypeOK
    <3>2. /\ Cardinality(ClaimingFor(o)') \in Nat
          /\ Cardinality(ClaimingFor(o)') <= Cardinality(ClaimingFor(o))
      BY <3>1, PlacesAreFinite, FS_Subset, FS_CardinalityType
    <3>3. Cardinality(RunningIn(o)) + Cardinality(ClaimingFor(o)) < MaxPerOrg + Cardinality(Workers)
      BY DEF PlaceInv
    <3> QED
      BY <2>1, <3>2, <3>3, PlacesAreFinite, QueueAssumption
  <2> QED
    BY <2>2, <2>3
<1> QED
  BY <1>2, <1>3 DEF PlaceInv

\* The UPDATE of a claim: its row runs now, and is no longer being claimed.
LEMMA ClaimCommitPlaces ==
    ASSUME TypeOK, ClaimInv, SafetyInv, PlaceInv, NEW i \in Instances, ClaimCommit(i)
    PROVE  PlaceInv'
<1> DEFINE s == picked[i]
<1>1. /\ tick[i] = "claiming" /\ status' = [status EXCEPT ![s] = "RUNNING"]
      /\ picked' = [picked EXCEPT ![i] = NoScan] /\ tick' = [tick EXCEPT ![i] = "claim"]
  BY DEF ClaimCommit, SetStatus
<1>2. s \in Scans /\ s # NoScan /\ i \in Workers
  BY <1>1 DEF ClaimInv, TypeOK, PlaceInv
<1>3. \A j \in Instances : tick'[j] # "idle" => j \in Workers
  BY <1>1 DEF PlaceInv, TypeOK
<1>4. ASSUME NEW o \in Orgs
      PROVE  Cardinality(RunningIn(o)') + Cardinality(ClaimingFor(o)') < MaxPerOrg + Cardinality(Workers)
  <2>1. Cardinality(RunningIn(o)) + Cardinality(ClaimingFor(o)) < MaxPerOrg + Cardinality(Workers)
    BY DEF PlaceInv
  <2>2. CASE o = OrgOf[s]
    <3>1. RunningIn(o)' \subseteq RunningIn(o) \cup {s}
      BY <1>1, <1>2 DEF RunningIn, TypeOK
    <3>2. IsFiniteSet(RunningIn(o) \cup {s})
          /\ Cardinality(RunningIn(o) \cup {s}) <= Cardinality(RunningIn(o)) + 1
          /\ Cardinality(RunningIn(o) \cup {s}) \in Nat
      <4> DEFINE R == RunningIn(o)
                 card == Cardinality(R)
      <4>1. IsFiniteSet(R) /\ card \in Nat
        BY PlacesAreFinite
      <4> HIDE DEF R
      <4>2. /\ IsFiniteSet(R \cup {s})
            /\ Cardinality(R \cup {s}) = IF s \in R THEN card ELSE card + 1
        BY <4>1, FS_AddElement
      <4> HIDE DEF card
      <4>3. /\ IsFiniteSet(R \cup {s}) /\ Cardinality(R \cup {s}) <= card + 1
            /\ Cardinality(R \cup {s}) \in Nat
        BY <4>1, <4>2
      <4> QED
        BY <4>3 DEF R, card
    <3>3. Cardinality(RunningIn(o)') \in Nat /\ Cardinality(RunningIn(o)') <= Cardinality(RunningIn(o)) + 1
      <4>1. IsFiniteSet(RunningIn(o)') /\ Cardinality(RunningIn(o)') <= Cardinality(RunningIn(o) \cup {s})
        BY <3>1, <3>2, FS_Subset
      <4>2. Cardinality(RunningIn(o)') \in Nat
        BY <4>1, FS_CardinalityType
      <4> QED
        BY <3>2, <4>1, <4>2, PlacesAreFinite
    <3>4. ClaimingFor(o)' = ClaimingFor(o) \ {i} /\ i \in ClaimingFor(o)
      BY <1>1, <1>2, <2>2, QueueAssumption DEF ClaimingFor, TypeOK
    <3>5. Cardinality(ClaimingFor(o)') = Cardinality(ClaimingFor(o)) - 1
      BY <3>4, PlacesAreFinite, FS_RemoveElement
    <3> QED
      BY <2>1, <3>3, <3>5, PlacesAreFinite, QueueAssumption
  <2>3. CASE o # OrgOf[s]
    <3>1. RunningIn(o)' = RunningIn(o)
      BY <1>1, <1>2, <2>3 DEF RunningIn, TypeOK
    <3>2. ClaimingFor(o)' = ClaimingFor(o)
      BY <1>1, <1>2, <2>3, QueueAssumption DEF ClaimingFor, TypeOK
    <3> QED
      BY <2>1, <3>1, <3>2
  <2> QED
    BY <2>2, <2>3
<1> QED
  BY <1>3, <1>4 DEF PlaceInv

\* Every step keeps the places.
LEMMA PlaceStep ==
    TypeOK /\ ClaimInv /\ SafetyInv /\ PlaceInv /\ [Next]_vars /\ TypeOK' => PlaceInv'
<1> SUFFICES ASSUME TypeOK, ClaimInv, SafetyInv, PlaceInv, [Next]_vars, TypeOK' PROVE PlaceInv'
  OBVIOUS
<1> DEFINE Quiet == /\ \A i \in Instances : tick'[i] # "idle" => i \in Workers
                    /\ \A s \in Scans : status'[s] = "RUNNING" => status[s] = "RUNNING"
                    /\ \A i \in Instances : picked'[i] \in {picked[i], NoScan}
<1>0. \A i \in Instances : tick[i] # "idle" => i \in Workers
  BY DEF PlaceInv
<1>1. ASSUME NEW h \in Handlers, Request(h) PROVE Quiet
  <2>1. UNCHANGED <<tick, picked>>
    BY <1>1 DEF Request, EnqueueLock, CancelRead, EnqueueCheck, EnqueueReject, EnqueueInsert,
         CancelWrite, CancelAbort, tickVars
  <2>2. \A s \in Scans : status'[s] = "RUNNING" => status[s] = "RUNNING"
    BY <1>1 DEF Request, EnqueueLock, CancelRead, EnqueueCheck, EnqueueReject, EnqueueInsert,
         CancelWrite, CancelAbort, SetStatus, rowVars, TypeOK
  <2> QED
    BY <1>0, <2>1, <2>2
<1>2. ASSUME NEW i \in Instances, TickStart(i) \/ FailStale(i) \/ TickEnd(i)
                                  \/ \E s \in Scans : NotifyStale(i, s)
      PROVE  Quiet
  <2>1. UNCHANGED picked
    BY <1>2 DEF TickStart, FailStale, TickEnd, NotifyStale
  <2>2. \A s \in Scans : status'[s] = "RUNNING" => status[s] = "RUNNING"
    BY <1>2 DEF TickStart, FailStale, TickEnd, NotifyStale, rowVars, TypeOK
  <2>3. \A j \in Instances : tick'[j] # "idle" => j \in Workers
    BY <1>0, <1>2 DEF TickStart, FailStale, TickEnd, NotifyStale, TypeOK
  <2> QED
    BY <2>1, <2>2, <2>3
<1>3. ASSUME NEW i \in Instances, Process(i) PROVE Quiet
  <2>1. UNCHANGED status
    BY <1>3 DEF Process, Shutdown, Exit, Crash, Restart, ProcessEnds, rowVars
  <2>2. \A j \in Instances : tick'[j] \in {tick[j], "idle"} /\ picked'[j] \in {picked[j], NoScan}
    BY <1>3 DEF Process, Shutdown, Exit, Crash, Restart, ProcessEnds, tickVars, TypeOK
  <2> QED
    BY <1>0, <2>1, <2>2
<1>4. ASSUME NEW i \in Instances, NEW s \in Scans, Job(i, s) \/ Timeout(i, s) PROVE Quiet
  <2>1. UNCHANGED <<tick, picked>>
    BY <1>4 DEF Job, Register, ScanReturns, Persist, PersistNothing, Interrupted, JobFails,
         TransientFailure, NotifyFinished, Release, EndWith, GiveBack, Timeout, tickVars
  <2>2. status' = status \/ \E st \in {"COMPLETED", "PENDING", "FAILED", "CANCELLED"} :
                              SetStatus(s, st) \/ WriteIfRunning(s, st)
    BY <1>4 DEF Job, Register, ScanReturns, Persist, PersistNothing, Interrupted, JobFails,
         TransientFailure, NotifyFinished, Release, EndWith, GiveBack, Timeout, rowVars
  <2>3. \A t \in Scans : status'[t] = "RUNNING" => status[t] = "RUNNING"
    BY <2>2 DEF SetStatus, WriteIfRunning, TypeOK
  <2> QED
    BY <1>0, <2>1, <2>3
<1>5. ASSUME NEW s \in Scans, Overdue(s) PROVE Quiet
  BY <1>0, <1>5 DEF Overdue, tickVars
<1>6. ASSUME UNCHANGED vars PROVE Quiet
  <2>1. status' = status /\ tick' = tick /\ picked' = picked
    BY <1>6 DEF vars, rowVars, tickVars
  <2> QED
    BY <1>0, <2>1
<1>7. Quiet => PlaceInv'
  BY PlacesKept
<1> HIDE DEF Quiet
<1> QED
  BY <1>1, <1>2, <1>3, <1>4, <1>5, <1>6, <1>7, ClaimSelectPlaces, ClaimCommitPlaces DEF Next, Tick

\* The places hold in every state.
LEMMA PlaceInvariant == Spec => []PlaceInv
<1>1. Init => PlaceInv
  <2> SUFFICES ASSUME Init PROVE PlaceInv
    OBVIOUS
  <2>1. ASSUME NEW o \in Orgs PROVE RunningIn(o) = {} /\ ClaimingFor(o) = {}
    BY QueueAssumption DEF Init, RunningIn, ClaimingFor
  <2> QED
    BY SMTT(20), <2>1, PlacesAreFinite, FS_EmptySet, QueueAssumption DEF Init, PlaceInv
<1>2. TypeOK /\ ClaimInv /\ SafetyInv /\ PlaceInv /\ [Next]_vars /\ TypeOK' => PlaceInv'
  BY PlaceStep
<1> QED
  BY <1>1, <1>2, SafetyInvariant, PTL DEF Spec

\* claimNext counts what runs in the snapshot of its statement: with any number of workers
\* the limit per organisation is exceeded by fewer scans than there are workers.
THEOREM LimitExceededByOthers ==
    Spec => [](\A s \in Scans : RunningOf(OrgOf[s]) < MaxPerOrg + Cardinality(Workers))
<1>1. PlaceInv => \A s \in Scans : RunningOf(OrgOf[s]) < MaxPerOrg + Cardinality(Workers)
  <2> SUFFICES ASSUME PlaceInv, NEW s \in Scans
               PROVE  RunningOf(OrgOf[s]) < MaxPerOrg + Cardinality(Workers)
    OBVIOUS
  <2> DEFINE o == OrgOf[s]
  <2>1. Cardinality(RunningIn(o)) + Cardinality(ClaimingFor(o)) < MaxPerOrg + Cardinality(Workers)
    BY DEF PlaceInv, Orgs
  <2>2. RunningOf(o) = Cardinality(RunningIn(o))
    BY DEF RunningOf, RunningIn
  <2> HIDE DEF o
  <2>3. RunningOf(o) < MaxPerOrg + Cardinality(Workers)
    BY <2>1, <2>2, PlacesAreFinite, QueueAssumption
  <2> QED
    BY <2>3 DEF o
<1> QED
  BY <1>1, PlaceInvariant, PTL

\* With one worker, however many instances serve requests, the limit holds.
THEOREM LimitPerOrganisation ==
    ASSUME Cardinality(Workers) = 1
    PROVE  Spec => []OrgLimit
<1>1. (\A s \in Scans : RunningOf(OrgOf[s]) < MaxPerOrg + Cardinality(Workers)) => OrgLimit
  <2> SUFFICES ASSUME NEW s \in Scans, RunningOf(OrgOf[s]) < MaxPerOrg + Cardinality(Workers)
               PROVE  RunningOf(OrgOf[s]) <= MaxPerOrg
    BY DEF OrgLimit
  <2>1. RunningOf(OrgOf[s]) \in Nat
    BY PlacesAreFinite DEF RunningOf, RunningIn
  <2> QED
    BY <2>1, QueueAssumption
<1> QED
  BY <1>1, LimitExceededByOthers, PTL

------------------------------------------------------------------------------
(* The cancellation entries.                                                *)

\* release() in the `finally` of every job, whatever its end: the map of signals
\* does not grow with the scans executed.
THEOREM NoEntryLeaks == Spec => []NoLeakedEntry
<1>1. Init => NoLeakedEntry
  BY DEF Init, NoLeakedEntry
<1>2. TypeOK /\ ClaimInv /\ SafetyInv /\ NoLeakedEntry /\ [Next]_vars => NoLeakedEntry'
  <2> SUFFICES ASSUME TypeOK, ClaimInv, SafetyInv, NoLeakedEntry, [Next]_vars
               PROVE  NoLeakedEntry'
    OBVIOUS
  <2> USE DEF TypeOK, NoLeakedEntry, Phases, requestVars, tickVars, jobVars
  <2>1. ASSUME NEW h \in Handlers, NEW s \in Scans, EnqueueLock(h, s) PROVE NoLeakedEntry'
    BY <2>1 DEF EnqueueLock, Idle
  <2>2. ASSUME NEW h \in Handlers, NEW s \in Scans, CancelRead(h, s) PROVE NoLeakedEntry'
    BY <2>2 DEF CancelRead, Idle
  <2>3. ASSUME NEW h \in Handlers, EnqueueCheck(h) PROVE NoLeakedEntry'
    BY <2>3 DEF EnqueueCheck
  <2>4. ASSUME NEW h \in Handlers, EnqueueReject(h) PROVE NoLeakedEntry'
    BY <2>4 DEF EnqueueReject, Idle
  <2>5. ASSUME NEW h \in Handlers, EnqueueInsert(h) PROVE NoLeakedEntry'
    BY <2>5 DEF EnqueueInsert, SetStatus, Idle
  <2>6. ASSUME NEW h \in Handlers, CancelWrite(h) PROVE NoLeakedEntry'
    BY <2>6 DEF CancelWrite, Idle
  <2>7. ASSUME NEW h \in Handlers, CancelAbort(h) PROVE NoLeakedEntry'
    BY <2>7 DEF CancelAbort, Aborted, Idle
  <2>8. ASSUME NEW i \in Instances, TickStart(i) PROVE NoLeakedEntry'
    BY <2>8 DEF TickStart
  <2>9. ASSUME NEW i \in Instances, FailStale(i) PROVE NoLeakedEntry'
    BY <2>9 DEF FailStale
  <2>10. ASSUME NEW i \in Instances, ClaimCommit(i) PROVE NoLeakedEntry'
    BY <2>10 DEF ClaimCommit, SetJob, SafetyInv, ExecutionInv, ClaimInv
  <2>11. ASSUME NEW i \in Instances, TickEnd(i) PROVE NoLeakedEntry'
    BY <2>11 DEF TickEnd
  <2>12. ASSUME NEW i \in Instances, NEW s \in Scans, NotifyStale(i, s)
        PROVE  NoLeakedEntry'
    BY <2>12 DEF NotifyStale
  <2>13. ASSUME NEW i \in Instances, NEW s \in Scans, ClaimSelect(i, s)
        PROVE  NoLeakedEntry'
    BY <2>13 DEF ClaimSelect
  <2>14. ASSUME NEW i \in Instances, NEW s \in Scans, Register(i, s) PROVE NoLeakedEntry'
    BY <2>14 DEF Register, Leave, SetJob
  <2>15. ASSUME NEW i \in Instances, NEW s \in Scans, ScanReturns(i, s)
        PROVE  NoLeakedEntry'
    BY <2>15 DEF ScanReturns, SetJob
  <2>16. ASSUME NEW i \in Instances, NEW s \in Scans, Persist(i, s) PROVE NoLeakedEntry'
    BY <2>16 DEF Persist, Leave, SetJob, SetStatus
  <2>17. ASSUME NEW i \in Instances, NEW s \in Scans, PersistNothing(i, s)
        PROVE  NoLeakedEntry'
    BY <2>17 DEF PersistNothing, Leave, SetJob, ReleaseEntry
  <2>18. ASSUME NEW i \in Instances, NEW s \in Scans, Interrupted(i, s)
        PROVE  NoLeakedEntry'
    <3>1. CASE GiveBack(i, s)
      BY <2>18, <3>1 DEF GiveBack, Leave, SetJob
    <3>2. CASE \E st \in Final : EndWith(i, s, st)
      BY <2>18, <3>2 DEF Interrupted, EndWith, Leave, SetJob
    <3> QED
      BY <2>18, <3>1, <3>2 DEF Interrupted, Final
  <2>19. ASSUME NEW i \in Instances, NEW s \in Scans, JobFails(i, s) PROVE NoLeakedEntry'
    BY <2>19 DEF JobFails, EndWith, WriteIfRunning, Leave, SetJob
  <2>20. ASSUME NEW i \in Instances, NEW s \in Scans, TransientFailure(i, s)
        PROVE  NoLeakedEntry'
    BY <2>20 DEF TransientFailure, GiveBack, WriteIfRunning, Leave, SetJob
  <2>21. ASSUME NEW i \in Instances, NEW s \in Scans, NotifyFinished(i, s)
        PROVE  NoLeakedEntry'
    BY <2>21 DEF NotifyFinished, SetJob, ReleaseEntry
  <2>22. ASSUME NEW i \in Instances, NEW s \in Scans, Release(i, s) PROVE NoLeakedEntry'
    BY <2>22 DEF Release, ReleaseEntry
  <2>23. ASSUME NEW i \in Instances, NEW s \in Scans, Timeout(i, s) PROVE NoLeakedEntry'
    BY <2>23 DEF Timeout, Aborted
  <2>24. ASSUME NEW s \in Scans, Overdue(s) PROVE NoLeakedEntry'
    BY <2>24 DEF Overdue
  <2>25. ASSUME NEW i \in Instances, Shutdown(i) PROVE NoLeakedEntry'
    BY <2>25 DEF Shutdown, Aborted
  <2>26. ASSUME NEW i \in Instances, Exit(i) PROVE NoLeakedEntry'
    BY <2>26 DEF Exit, ProcessEnds, Idle
  <2>27. ASSUME NEW i \in Instances, Crash(i) PROVE NoLeakedEntry'
    BY <2>27 DEF Crash, ProcessEnds, Idle
  <2>28. ASSUME NEW i \in Instances, Restart(i) PROVE NoLeakedEntry'
    BY <2>28 DEF Restart
  <2>29. CASE UNCHANGED vars
    BY <2>29 DEF vars
  <2> QED
    BY <2>1, <2>2, <2>3, <2>4, <2>5, <2>6, <2>7, <2>8, <2>9, <2>10, <2>11, <2>12, <2>13,
       <2>14, <2>15, <2>16, <2>17, <2>18, <2>19, <2>20, <2>21, <2>22, <2>23, <2>24, <2>25,
       <2>26, <2>27, <2>28, <2>29 DEF Next, Request, Tick, Job, Process
<1> QED
  BY <1>1, <1>2, SafetyInvariant, PTL DEF Spec

------------------------------------------------------------------------------
(* The queue implements the lifecycle.                                      *)

LifecycleStep == [Lifecycle!LifecycleNext]_(Lifecycle!lifecycleVars)

\* A step that leaves the statuses and the outcomes alone is a stutter.
LEMMA Stutter ==
    ASSUME UNCHANGED <<status, stored>>
    PROVE  LifecycleStep
BY DEF LifecycleStep, Lifecycle!lifecycleVars

\* A conditional update of a row that is not RUNNING any more does nothing.
LEMMA EndWithStep ==
    ASSUME TypeOK, NEW i \in Instances, NEW s \in Scans,
           NEW st \in {"FAILED", "CANCELLED"}, EndWith(i, s, st)
    PROVE  LifecycleStep
<1>1. CASE status[s] # "RUNNING"
  BY <1>1, Stutter DEF EndWith, WriteIfRunning, TypeOK
<1>2. CASE status[s] = "RUNNING" /\ st = "FAILED"
  <2>1. {s} \in SUBSET Scans /\ Lifecycle!Fail({s})
    BY <1>2 DEF EndWith, WriteIfRunning, TypeOK, Lifecycle!Fail
  <2> QED
    BY <2>1 DEF LifecycleStep, Lifecycle!LifecycleNext
<1>3. CASE status[s] = "RUNNING" /\ st = "CANCELLED"
  <2>1. Lifecycle!Cancel(s)
    BY <1>3 DEF EndWith, WriteIfRunning, TypeOK, Lifecycle!Cancel, Lifecycle!SetStatus,
       Lifecycle!InProgress
  <2> QED
    BY <2>1 DEF LifecycleStep, Lifecycle!LifecycleNext
<1> QED
  BY <1>1, <1>2, <1>3

\* So does giving back to the queue a row that was taken from the job.
LEMMA GiveBackStep ==
    ASSUME TypeOK, NEW i \in Instances, NEW s \in Scans, GiveBack(i, s)
    PROVE  LifecycleStep
<1>1. CASE status[s] # "RUNNING"
  BY <1>1, Stutter DEF GiveBack, WriteIfRunning, TypeOK
<1>2. CASE status[s] = "RUNNING"
  <2>1. Lifecycle!Requeue(s)
    BY <1>2 DEF GiveBack, WriteIfRunning, TypeOK, Lifecycle!Requeue, Lifecycle!SetStatus
  <2> QED
    BY <2>1 DEF LifecycleStep, Lifecycle!LifecycleNext
<1> QED
  BY <1>1, <1>2

\* Every step of the queue is a step of the lifecycle of one row (of several, for
\* the orphans), or a stutter.
LEMMA StepRefines ==
    TypeOK /\ ClaimInv /\ SafetyInv /\ [Next]_vars => LifecycleStep
<1> SUFFICES ASSUME TypeOK, ClaimInv, RequestInv, ExecutionInv, TwinInv,
             ResultInv, [Next]_vars
             PROVE  LifecycleStep
  BY DEF SafetyInv
<1> USE QueueAssumption DEF TypeOK, InProgress, LifecycleStep
<1>1. ASSUME NEW h \in Handlers, NEW s \in Scans, EnqueueLock(h, s) PROVE LifecycleStep
  BY <1>1, Stutter DEF EnqueueLock, rowVars
<1>2. ASSUME NEW h \in Handlers, NEW s \in Scans, CancelRead(h, s) PROVE LifecycleStep
  BY <1>2, Stutter DEF CancelRead, rowVars
<1>3. ASSUME NEW h \in Handlers, EnqueueCheck(h) PROVE LifecycleStep
  BY <1>3, Stutter DEF EnqueueCheck, rowVars
<1>4. ASSUME NEW h \in Handlers, EnqueueReject(h) PROVE LifecycleStep
  BY <1>4, Stutter DEF EnqueueReject, rowVars
<1>5. ASSUME NEW h \in Handlers, EnqueueInsert(h) PROVE LifecycleStep
  <2>1. handler[h].scan \in Scans /\ Lifecycle!Create(handler[h].scan)
    BY <1>5 DEF EnqueueInsert, SetStatus, RequestInv, Enqueuing, TwinInv,
       InProgressTwin, SameKey,
       Lifecycle!Create, Lifecycle!SetStatus, Lifecycle!InProgress
  <2> QED
    BY <2>1 DEF Lifecycle!LifecycleNext
<1>6. ASSUME NEW h \in Handlers, CancelWrite(h) PROVE LifecycleStep
  <2>1. CASE status[handler[h].scan] = handler[h].seen
    <3>1. handler[h].scan \in Scans /\ Lifecycle!Cancel(handler[h].scan)
      BY <1>6, <2>1 DEF CancelWrite, RequestInv, Lifecycle!Cancel, Lifecycle!SetStatus,
         Lifecycle!InProgress
    <3> QED
      BY <3>1 DEF Lifecycle!LifecycleNext
  <2>2. CASE status[handler[h].scan] # handler[h].seen
    BY <1>6, <2>2, Stutter DEF CancelWrite
  <2> QED
    BY <2>1, <2>2
<1>7. ASSUME NEW h \in Handlers, CancelAbort(h) PROVE LifecycleStep
  BY <1>7, Stutter DEF CancelAbort, rowVars
<1>8. ASSUME NEW i \in Instances, TickStart(i) PROVE LifecycleStep
  BY <1>8, Stutter DEF TickStart, rowVars
<1>9. ASSUME NEW i \in Instances, FailStale(i) PROVE LifecycleStep
  <2>1. Stale \in SUBSET Scans /\ Lifecycle!Fail(Stale)
    BY <1>9 DEF FailStale, Stale, Lifecycle!Fail
  <2> QED
    BY <2>1 DEF Lifecycle!LifecycleNext
<1>10. ASSUME NEW i \in Instances, ClaimCommit(i) PROVE LifecycleStep
  <2>1. picked[i] \in Scans /\ Lifecycle!Start(picked[i])
    BY <1>10 DEF ClaimCommit, SetStatus, ClaimInv, ExecutionInv, Lifecycle!Start,
       Lifecycle!SetStatus
  <2> QED
    BY <2>1 DEF Lifecycle!LifecycleNext
<1>11. ASSUME NEW i \in Instances, TickEnd(i) PROVE LifecycleStep
  BY <1>11, Stutter DEF TickEnd, rowVars
<1>12. ASSUME NEW i \in Instances, NEW s \in Scans, NotifyStale(i, s)
      PROVE  LifecycleStep
  BY <1>12, Stutter DEF NotifyStale, rowVars
<1>13. ASSUME NEW i \in Instances, NEW s \in Scans, ClaimSelect(i, s)
      PROVE  LifecycleStep
  BY <1>13, Stutter DEF ClaimSelect, rowVars
<1>14. ASSUME NEW i \in Instances, NEW s \in Scans, Register(i, s) PROVE LifecycleStep
  BY <1>14, Stutter DEF Register, rowVars
<1>15. ASSUME NEW i \in Instances, NEW s \in Scans, ScanReturns(i, s)
      PROVE  LifecycleStep
  BY <1>15, Stutter DEF ScanReturns, rowVars
<1>16. ASSUME NEW i \in Instances, NEW s \in Scans, Persist(i, s) PROVE LifecycleStep
  <2>1. status[s] = "RUNNING" /\ status' = [status EXCEPT ![s] = "COMPLETED"]
    BY <1>16 DEF Persist, SetStatus
  <2>2. stored[s] = 0
    BY <2>1 DEF ResultInv
  <2>3. stored'[s] = 1 /\ \A t \in Scans : t # s => stored'[t] = stored[t]
    BY <1>16, <2>2 DEF Persist
  <2>4. Lifecycle!Complete(s)
    BY <2>1, <2>3 DEF Lifecycle!Complete, Lifecycle!SetStatus
  <2> QED
    BY <2>4 DEF Lifecycle!LifecycleNext
<1>17. ASSUME NEW i \in Instances, NEW s \in Scans, PersistNothing(i, s)
      PROVE  LifecycleStep
  BY <1>17, Stutter DEF PersistNothing, rowVars
<1>18. ASSUME NEW i \in Instances, NEW s \in Scans, Interrupted(i, s)
      PROVE  LifecycleStep
  BY <1>18, EndWithStep, GiveBackStep DEF Interrupted
<1>19. ASSUME NEW i \in Instances, NEW s \in Scans, JobFails(i, s) PROVE LifecycleStep
  BY <1>19, EndWithStep DEF JobFails
<1>20. ASSUME NEW i \in Instances, NEW s \in Scans, TransientFailure(i, s)
      PROVE  LifecycleStep
  BY <1>20, GiveBackStep DEF TransientFailure
<1>21. ASSUME NEW i \in Instances, NEW s \in Scans, NotifyFinished(i, s)
      PROVE  LifecycleStep
  BY <1>21, Stutter DEF NotifyFinished, rowVars
<1>22. ASSUME NEW i \in Instances, NEW s \in Scans, Release(i, s) PROVE LifecycleStep
  BY <1>22, Stutter DEF Release, rowVars
<1>23. ASSUME NEW i \in Instances, NEW s \in Scans, Timeout(i, s) PROVE LifecycleStep
  BY <1>23, Stutter DEF Timeout, rowVars
<1>24. ASSUME NEW s \in Scans, Overdue(s) PROVE LifecycleStep
  BY <1>24, Stutter DEF Overdue, rowVars
<1>25. ASSUME NEW i \in Instances, Shutdown(i) PROVE LifecycleStep
  BY <1>25, Stutter DEF Shutdown, rowVars
<1>26. ASSUME NEW i \in Instances, Exit(i) PROVE LifecycleStep
  BY <1>26, Stutter DEF Exit, rowVars, ProcessEnds
<1>27. ASSUME NEW i \in Instances, Crash(i) PROVE LifecycleStep
  BY <1>27, Stutter DEF Crash, rowVars, ProcessEnds
<1>28. ASSUME NEW i \in Instances, Restart(i) PROVE LifecycleStep
  BY <1>28, Stutter DEF Restart, rowVars
<1>29. CASE UNCHANGED vars
  BY <1>29, Stutter DEF vars, rowVars
<1> QED
  BY <1>1, <1>2, <1>3, <1>4, <1>5, <1>6, <1>7, <1>8, <1>9, <1>10, <1>11, <1>12, <1>13,
   <1>14, <1>15, <1>16, <1>17, <1>18, <1>19, <1>20, <1>21, <1>22, <1>23, <1>24, <1>25,
   <1>26, <1>27, <1>28, <1>29 DEF Next, Request, Tick, Job, Process

\* The rows of table scans only go through the life cycle: a final status is
\* final, and results are stored once and only for a COMPLETED scan, for any
\* number of workers, retries, cancels and crashes.
THEOREM QueueImplementsLifecycle == Spec => ImplementsLifecycle
<1>1. Init => Lifecycle!LifecycleInit
  BY DEF Init, Lifecycle!LifecycleInit
<1>2. TypeOK /\ ClaimInv /\ SafetyInv /\ [Next]_vars
        => [Lifecycle!LifecycleNext]_(Lifecycle!lifecycleVars)
  BY StepRefines DEF LifecycleStep
<1> QED
  BY <1>1, <1>2, SafetyInvariant, PTL DEF Spec, ImplementsLifecycle, Lifecycle!LifecycleSpec
==============================================================================
