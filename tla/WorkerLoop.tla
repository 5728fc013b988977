----------------------------- MODULE WorkerLoop -----------------------------
(***************************************************************************)
(* The event loop of one scan worker (ScanWorkerService): how kick() and    *)
(* tick() share the flags `ticking` and `tickRequested`, how many jobs the  *)
(* loop starts, and how adaptConcurrency moves the limit.  The rows of the  *)
(* queue are only counted; what happens to each of them is in ScanQueue.    *)
(*                                                                          *)
(* One action is the code between two awaits of the instance, or one        *)
(* statement in the database.                                               *)
(***************************************************************************)
EXTENDS Integers

CONSTANTS
    Base,           \* baseConcurrency
    Max,            \* maxAdaptiveConcurrency
    MaxRows,        \* bound: rows put in the queue (retries included)
    Polling,        \* the poll timer is part of the model
    DatabaseFails   \* a statement of the tick loop may fail

ASSUME LoopAssumption ==
    /\ Base \in Nat \ {0}
    /\ Max \in Nat
    /\ Base <= Max
    /\ MaxRows \in Nat
    /\ Polling \in BOOLEAN
    /\ DatabaseFails \in BOOLEAN

RaiseAfter == 3
LowerAfter == 2

VARIABLES
    queue,          \* PENDING rows
    rows,           \* rows put in the queue so far
    unkicked,       \* inserts committed, whose kick() has not run yet
    ticking,        \* flag of the same name
    tickRequested,  \* flag of the same name
    pc,             \* await at which tick() stands
    failed,         \* history: the last turn of tick() ended in its catch
    running,        \* jobs that execute
    leaving,        \* jobs past adaptConcurrency, before their `finally`
    limit,          \* currentConcurrencyLimit
    successes,      \* consecutiveSuccesses
    failures,       \* consecutiveFailures
    shuttingDown

flags == <<ticking, tickRequested, pc, failed>>
adaptive == <<limit, successes, failures>>
vars == <<queue, rows, unkicked, flags, running, leaving, adaptive, shuttingDown>>

active == running + leaving

Init ==
    /\ queue = 0 /\ rows = 0 /\ unkicked = 0
    /\ ticking = FALSE /\ tickRequested = FALSE /\ pc = "idle" /\ failed = FALSE
    /\ running = 0 /\ leaving = 0
    /\ limit = Base /\ successes = 0 /\ failures = 0
    /\ shuttingDown = FALSE

------------------------------------------------------------------------------
\* A slip: a kick while tick() runs is dropped.
KickDropped ==
    IF shuttingDown \/ ticking
    THEN UNCHANGED flags
    ELSE ticking' = TRUE /\ tickRequested' = FALSE /\ pc' = "sweep" /\ failed' = FALSE

\* kick(): starts tick() unless it runs, in which case it asks for one more turn.
Kick ==
    \/ /\ shuttingDown
       /\ UNCHANGED flags
    \/ /\ ~shuttingDown /\ ticking
       /\ tickRequested' = TRUE
       /\ UNCHANGED <<ticking, pc, failed>>
    \/ /\ ~shuttingDown /\ ~ticking
       /\ ticking' = TRUE /\ tickRequested' = FALSE /\ pc' = "sweep" /\ failed' = FALSE

\* `while (this.tickRequested && !this.shuttingDown)`
LoopAgain ==
    IF tickRequested /\ ~shuttingDown
    THEN tickRequested' = FALSE /\ pc' = "sweep" /\ UNCHANGED <<ticking, failed>>
    ELSE ticking' = FALSE /\ pc' = "idle" /\ UNCHANGED <<tickRequested, failed>>

\* A slip: `<=` in the condition of the claim loop.
ClaimWhileAtLimit(n) ==
    IF n <= limit /\ ~shuttingDown
    THEN pc' = "claim" /\ UNCHANGED <<ticking, tickRequested, failed>>
    ELSE LoopAgain

\* `while (this.active < this.effectiveConcurrency && !this.shuttingDown)`
ClaimWhileRoom(n) ==
    IF n < limit /\ ~shuttingDown
    THEN pc' = "claim" /\ UNCHANGED <<ticking, tickRequested, failed>>
    ELSE LoopAgain

Insert ==
    /\ rows < MaxRows
    /\ rows' = rows + 1
    /\ queue' = queue + 1
    /\ unkicked' = unkicked + 1
    /\ UNCHANGED <<flags, running, leaving, adaptive, shuttingDown>>

KickAfterInsert ==
    /\ unkicked > 0
    /\ unkicked' = unkicked - 1
    /\ Kick
    /\ UNCHANGED <<queue, rows, running, leaving, adaptive, shuttingDown>>

Poll ==
    /\ Polling
    /\ ~shuttingDown
    /\ Kick
    /\ UNCHANGED <<queue, rows, unkicked, running, leaving, adaptive, shuttingDown>>

\* failStaleScans returns.
Swept ==
    /\ pc = "sweep"
    /\ ClaimWhileRoom(active)
    /\ UNCHANGED <<queue, rows, unkicked, running, leaving, adaptive, shuttingDown>>

\* The statement of claimNext runs in the database...
ClaimRow ==
    /\ pc = "claim"
    /\ IF queue > 0 THEN pc' = "row" /\ queue' = queue - 1
                    ELSE pc' = "empty" /\ UNCHANGED queue
    /\ UNCHANGED <<rows, unkicked, ticking, tickRequested, failed, running, leaving,
                   adaptive, shuttingDown>>

\* ... and its answer reaches the loop.
StartJob ==
    /\ pc = "row"
    /\ running' = running + 1
    /\ ClaimWhileRoom(active + 1)
    /\ UNCHANGED <<queue, rows, unkicked, leaving, adaptive, shuttingDown>>

NoRow ==
    /\ pc = "empty"
    /\ LoopAgain
    /\ UNCHANGED <<queue, rows, unkicked, running, leaving, adaptive, shuttingDown>>

\* A slip: no `finally`, the flag stays up.
TickFailsTicking ==
    /\ DatabaseFails
    /\ pc \in {"sweep", "claim"}
    /\ pc' = "idle" /\ failed' = TRUE
    /\ UNCHANGED <<queue, rows, unkicked, ticking, tickRequested, running, leaving, adaptive,
                   shuttingDown>>

\* The catch of tick(): a request made meanwhile is forgotten.
TickFails ==
    /\ DatabaseFails
    /\ pc \in {"sweep", "claim"}
    /\ ticking' = FALSE /\ pc' = "idle" /\ failed' = TRUE
    /\ UNCHANGED <<queue, rows, unkicked, tickRequested, running, leaving, adaptive,
                   shuttingDown>>

------------------------------------------------------------------------------

\* adaptConcurrency(true)
AdaptUp ==
    /\ failures' = 0
    /\ IF successes + 1 >= RaiseAfter /\ limit < Max
       THEN limit' = limit + 1 /\ successes' = 0
       ELSE successes' = successes + 1 /\ UNCHANGED limit

\* adaptConcurrency(false)
AdaptDown ==
    /\ successes' = 0
    /\ IF failures + 1 >= LowerAfter /\ limit > Base
       THEN limit' = limit - 1 /\ failures' = 0
       ELSE failures' = failures + 1 /\ UNCHANGED limit

JobLeaves ==
    /\ running > 0
    /\ running' = running - 1
    /\ leaving' = leaving + 1
    /\ UNCHANGED <<unkicked, flags, shuttingDown>>

JobSucceeds == JobLeaves /\ AdaptUp /\ UNCHANGED <<queue, rows>>

JobFails == JobLeaves /\ AdaptDown /\ UNCHANGED <<queue, rows>>

\* A transient failure puts the row back in the queue, then adapts.
JobRetries ==
    /\ rows < MaxRows
    /\ rows' = rows + 1
    /\ queue' = queue + 1
    /\ JobLeaves
    /\ AdaptDown

\* Cancelled, timed out, or its row was not RUNNING any more: no adaptation.
JobInterrupted == JobLeaves /\ UNCHANGED <<queue, rows, adaptive>>

\* `finally` of the job: one less active, kick().
JobEnds ==
    /\ leaving > 0
    /\ leaving' = leaving - 1
    /\ Kick
    /\ UNCHANGED <<queue, rows, unkicked, running, adaptive, shuttingDown>>

Shutdown ==
    /\ ~shuttingDown
    /\ shuttingDown' = TRUE
    /\ UNCHANGED <<queue, rows, unkicked, flags, running, leaving, adaptive>>

------------------------------------------------------------------------------
LoopStep == Swept \/ ClaimRow \/ StartJob \/ NoRow
JobOver == JobSucceeds \/ JobFails \/ JobInterrupted

Next ==
    \/ Insert \/ KickAfterInsert \/ Poll \/ LoopStep \/ TickFails
    \/ JobOver \/ JobRetries \/ JobEnds \/ Shutdown

Spec == Init /\ [][Next]_vars

\* Promises of the process settle and the poll timer, if any, fires; a statement
\* that can succeed forever does succeed at times.
FairSpec ==
    /\ Spec
    /\ WF_vars(KickAfterInsert) /\ WF_vars(Poll)
    /\ SF_vars(Swept) /\ SF_vars(ClaimRow) /\ WF_vars(StartJob) /\ WF_vars(NoRow)
    /\ WF_vars(JobOver) /\ WF_vars(JobEnds)

------------------------------------------------------------------------------
(* Properties.                                                              *)

\* Every variable keeps its type.
TypeOK ==
    /\ queue \in Nat /\ rows \in 0..MaxRows /\ unkicked \in Nat
    /\ ticking \in BOOLEAN /\ tickRequested \in BOOLEAN
    /\ pc \in {"idle", "sweep", "claim", "row", "empty"}
    /\ failed \in BOOLEAN
    /\ running \in Nat /\ leaving \in Nat
    /\ limit \in Nat /\ successes \in Nat /\ failures \in Nat
    /\ shuttingDown \in BOOLEAN

\* The adaptive limit stays between the configured base and the maximum,
\* whatever the order in which jobs succeed and fail.
LimitInRange == Base <= limit /\ limit <= Max

\* The instance never executes more scans than the adaptive maximum, although
\* the limit moves while a claim is in flight and jobs end in any order.
ActiveWithinMax == active <= Max

\* No wake-up is lost: when the loop is idle, no kick is due and there is room,
\* the queue is empty.  A row inserted, given back, or made claimable by a limit
\* that has just been raised waits for the poll timer only if the loop was left by
\* its catch, and no longer than that.
NoLostWakeUp ==
    /\ ~ticking /\ ~failed
    /\ unkicked = 0 /\ leaving = 0
    /\ active < limit
    /\ ~shuttingDown
    => queue = 0

\* With a database that fails at times, the poll timer still gets every row claimed.
QueueDrains == queue > 0 ~> (queue = 0 \/ shuttingDown)
==============================================================================
