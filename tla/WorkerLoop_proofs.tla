-------------------------- MODULE WorkerLoop_proofs --------------------------
(***************************************************************************)
(* Proofs about the worker loop, for every base and maximum concurrency and *)
(* every number of rows: the bounds on the limit and on the scans executed, *)
(* and that no wake-up is lost.                                             *)
(***************************************************************************)
EXTENDS WorkerLoop, TLAPS

\* A row that waits while the loop is not about to look for it has a wake-up on
\* its way (an insert still to kick, a job still to run its `finally`), or there
\* is no room for it, or the process is shutting down.
WakeUpDue == queue = 0 \/ unkicked > 0 \/ leaving > 0 \/ shuttingDown

LoopInv ==
    /\ ticking <=> pc # "idle"
    /\ LimitInRange
    /\ ActiveWithinMax
    /\ pc \in {"claim", "row"} => active < Max

WakeUpInv ==
    /\ pc = "empty" => WakeUpDue \/ tickRequested
    /\ pc = "idle" => WakeUpDue \/ active >= limit \/ failed

------------------------------------------------------------------------------
\* What the end of a turn of the loop leaves: it claims only with room, and it
\* stops only with none, or with no request for another turn.
LEMMA LoopAgainEffect ==
    ASSUME LoopAgain, ticking = TRUE, tickRequested \in BOOLEAN, failed \in BOOLEAN
    PROVE  /\ ticking' \in BOOLEAN
           /\ tickRequested' \in BOOLEAN
           /\ failed' \in BOOLEAN
           /\ pc' \in {"sweep", "idle"}
           /\ ticking' <=> pc' # "idle"
           /\ pc' = "idle" => ~tickRequested \/ shuttingDown
<1>1. CASE tickRequested /\ ~shuttingDown
  BY <1>1, Zenon DEF LoopAgain
<1>2. CASE ~(tickRequested /\ ~shuttingDown)
  BY <1>2, Zenon DEF LoopAgain
<1> QED
  BY <1>1, <1>2

\* What the head of the loop of claims writes.
LEMMA ClaimWhileRoomEffect ==
    ASSUME NEW n, ClaimWhileRoom(n), ticking = TRUE, tickRequested \in BOOLEAN,
           failed \in BOOLEAN
    PROVE  /\ ticking' \in BOOLEAN
           /\ tickRequested' \in BOOLEAN
           /\ failed' \in BOOLEAN
           /\ pc' \in {"claim", "sweep", "idle"}
           /\ ticking' <=> pc' # "idle"
           /\ pc' = "claim" => n < limit
           /\ pc' = "idle" => ~(n < limit) \/ shuttingDown
<1>1. CASE n < limit /\ ~shuttingDown
  BY <1>1, Zenon DEF ClaimWhileRoom
<1>2. CASE ~(n < limit /\ ~shuttingDown)
  BY <1>2, LoopAgainEffect, Zenon DEF ClaimWhileRoom
<1> QED
  BY <1>1, <1>2

\* What a kick writes.
LEMMA KickEffect ==
    ASSUME Kick, TypeOK, ticking <=> pc # "idle"
    PROVE  /\ ticking' \in BOOLEAN
           /\ tickRequested' \in BOOLEAN
           /\ failed' \in BOOLEAN
           /\ pc' \in {"idle", "sweep", "claim", "row", "empty"}
           /\ ticking' <=> pc' # "idle"
           /\ pc' # pc => pc' = "sweep"
           /\ ~shuttingDown => ticking'
           /\ ~shuttingDown /\ ticking => tickRequested'
<1>1. CASE shuttingDown
  BY <1>1, Zenon DEF Kick, flags, TypeOK
<1>2. CASE ~shuttingDown /\ ticking
  BY <1>2, Zenon DEF Kick, flags, TypeOK
<1>3. CASE ~shuttingDown /\ ~ticking
  BY <1>3, Zenon DEF Kick, flags, TypeOK
<1> QED
  BY <1>1, <1>2, <1>3

------------------------------------------------------------------------------
\* While a claim is in flight there is a free place under the maximum: jobs only
\* end meanwhile, and the limit, wherever it moved, is within its bounds.
LEMMA LoopInvariant == Spec => [](TypeOK /\ LoopInv)
<1>1. Init => TypeOK /\ LoopInv
  <2> SUFFICES ASSUME Init PROVE TypeOK /\ LoopInv
    OBVIOUS
  <2>1. /\ ticking \in BOOLEAN /\ tickRequested \in BOOLEAN
       /\ failed \in BOOLEAN /\ shuttingDown \in BOOLEAN
    BY Zenon DEF Init
  <2> QED
    BY <2>1, LoopAssumption DEF Init, TypeOK, LoopInv, LimitInRange, ActiveWithinMax, active
<1>2. TypeOK /\ LoopInv /\ [Next]_vars => TypeOK' /\ LoopInv'
  <2> SUFFICES ASSUME TypeOK, LoopInv, [Next]_vars PROVE TypeOK' /\ LoopInv'
    OBVIOUS
  <2> USE LoopAssumption DEF TypeOK, LoopInv, LimitInRange, ActiveWithinMax, active
  <2>1. CASE Insert
    BY <2>1 DEF Insert, flags, adaptive
  <2>2. CASE KickAfterInsert
    BY <2>2, KickEffect DEF KickAfterInsert, adaptive
  <2>3. CASE Poll
    BY <2>3, KickEffect DEF Poll, adaptive
  <2>4. CASE Swept
    BY <2>4, ClaimWhileRoomEffect DEF Swept, adaptive
  <2>5. CASE ClaimRow
    BY <2>5 DEF ClaimRow, adaptive
  <2>6. CASE StartJob
    BY <2>6, ClaimWhileRoomEffect DEF StartJob, adaptive
  <2>7. CASE NoRow
    BY <2>7, LoopAgainEffect DEF NoRow, adaptive
  <2>8. CASE TickFails
    BY <2>8 DEF TickFails, adaptive
  <2>9. CASE JobSucceeds
    BY <2>9 DEF JobSucceeds, JobLeaves, AdaptUp, flags
  <2>10. CASE JobFails
    BY <2>10 DEF JobFails, JobLeaves, AdaptDown, flags
  <2>11. CASE JobInterrupted
    BY <2>11 DEF JobInterrupted, JobLeaves, flags, adaptive
  <2>12. CASE JobRetries
    BY <2>12 DEF JobRetries, JobLeaves, AdaptDown, flags
  <2>13. CASE JobEnds
    BY <2>13, KickEffect DEF JobEnds, adaptive
  <2>14. CASE Shutdown
    BY <2>14 DEF Shutdown, flags, adaptive
  <2>15. CASE UNCHANGED vars
    BY <2>15 DEF vars, flags, adaptive
  <2> QED
    BY <2>1, <2>2, <2>3, <2>4, <2>5, <2>6, <2>7, <2>8, <2>9, <2>10, <2>11, <2>12,
       <2>13, <2>14, <2>15 DEF Next, LoopStep, JobOver
<1> QED
  BY <1>1, <1>2, PTL DEF Spec

\* Every variable keeps its type, whatever the loop, the jobs and the requests do.
THEOREM TypeCorrect == Spec => []TypeOK
BY LoopInvariant, PTL

\* adaptConcurrency keeps the limit between the base and the adaptive maximum.
THEOREM LimitStaysInRange == Spec => []LimitInRange
<1>1. LoopInv => LimitInRange
  BY DEF LoopInv
<1> QED
  BY <1>1, LoopInvariant, PTL

\* The instance never executes more scans than the adaptive maximum.
THEOREM ActiveStaysWithinMax == Spec => []ActiveWithinMax
<1>1. LoopInv => ActiveWithinMax
  BY DEF LoopInv
<1> QED
  BY <1>1, LoopInvariant, PTL

------------------------------------------------------------------------------
\* kick() and the `finally` of a job leave no row behind: the poll timer is needed
\* only after a turn of the loop that ended in its catch.
THEOREM NoWakeUpIsLost == Spec => []NoLostWakeUp
<1>1. Init => WakeUpInv
  BY DEF Init, WakeUpInv, WakeUpDue
<1>2. TypeOK /\ LoopInv /\ WakeUpInv /\ [Next]_vars => WakeUpInv'
  <2> SUFFICES ASSUME TypeOK, LoopInv, WakeUpInv, [Next]_vars PROVE WakeUpInv'
    OBVIOUS
  <2> USE LoopAssumption DEF TypeOK, LoopInv, WakeUpInv, WakeUpDue, active
  <2>1. CASE Insert
    BY <2>1 DEF Insert, flags, adaptive
  <2>2. CASE KickAfterInsert
    BY <2>2, KickEffect DEF KickAfterInsert, adaptive
  <2>3. CASE Poll
    BY <2>3, KickEffect DEF Poll, adaptive
  <2>4. CASE Swept
    BY <2>4, ClaimWhileRoomEffect DEF Swept, adaptive
  <2>5. CASE ClaimRow
    BY <2>5 DEF ClaimRow, adaptive
  <2>6. CASE StartJob
    BY <2>6, ClaimWhileRoomEffect DEF StartJob, adaptive
  <2>7. CASE NoRow
    BY <2>7, LoopAgainEffect DEF NoRow, adaptive
  <2>8. CASE TickFails
    BY <2>8 DEF TickFails
  <2>9. CASE JobSucceeds
    BY <2>9 DEF JobSucceeds, JobLeaves, flags
  <2>10. CASE JobFails
    BY <2>10 DEF JobFails, JobLeaves, flags
  <2>11. CASE JobInterrupted
    BY <2>11 DEF JobInterrupted, JobLeaves, flags
  <2>12. CASE JobRetries
    BY <2>12 DEF JobRetries, JobLeaves, flags
  <2>13. CASE JobEnds
    BY <2>13, KickEffect DEF JobEnds, adaptive
  <2>14. CASE Shutdown
    BY <2>14 DEF Shutdown, flags, adaptive
  <2>15. CASE UNCHANGED vars
    BY <2>15 DEF vars, flags, adaptive
  <2> QED
    BY <2>1, <2>2, <2>3, <2>4, <2>5, <2>6, <2>7, <2>8, <2>9, <2>10, <2>11, <2>12,
       <2>13, <2>14, <2>15 DEF Next, LoopStep, JobOver
<1>3. TypeOK /\ LoopInv /\ WakeUpInv => NoLostWakeUp
  BY LoopAssumption DEF TypeOK, LoopInv, LimitInRange, WakeUpInv, WakeUpDue, NoLostWakeUp, active
<1> QED
  BY <1>1, <1>2, <1>3, LoopInvariant, PTL DEF Spec
==============================================================================
