------------------------------ MODULE ScanQueue ------------------------------
(***************************************************************************)
(* The scan queue of the SSPM backend: table `scans` is the queue, several  *)
(* instances of the application share it.                                   *)
(*                                                                          *)
(*   - ScansService.enqueue and cancel run in HTTP handlers (and, for       *)
(*     enqueue, in the scheduler and the 360 orchestrator);                 *)
(*   - ScanWorkerService runs one tick loop per instance, which fails       *)
(*     orphans and claims rows, and one job (`execute`) per claimed row;    *)
(*   - ScanCancellationService keeps, per instance, the abort signal of     *)
(*     every registered job.                                                *)
(*                                                                          *)
(* One action is one statement or transaction of the database, or one       *)
(* stretch of an instance's code between two awaits.                        *)
(***************************************************************************)
EXTENDS Naturals, FiniteSets, FiniteSetsExt

CONSTANTS
    Instances,      \* processes of the application
    Workers,        \* instances with SCAN_WORKER_ENABLED
    Handlers,       \* requests an instance can be serving at once
    HomeOf,         \* HomeOf[h]: the instance that serves handler h
    Scans,          \* rows that may be created in table scans
    AssetOf,        \* AssetOf[s], TypeOf[s], OrgOf[s]: columns of row s
    TypeOf,
    OrgOf,
    Manual,         \* rows whose source is MANUAL
    RankOf,         \* RankOf[s]: place of row s in the ORDER BY of claimNext
    Concurrency,    \* effectiveConcurrency of an instance
    MaxPerOrg,      \* SCAN_MAX_CONCURRENCY_PER_ORG
    MaxPerHour,     \* SCAN_MAX_PER_HOUR_PER_ORG (a run lasts under an hour)
    MaxRetries,     \* SCAN_MAX_TRANSIENT_RETRIES
    MaxFaults,      \* bound: crashes and shutdowns in a run
    NoScan,
    Nobody

ASSUME QueueAssumption ==
    /\ Workers \subseteq Instances /\ IsFiniteSet(Workers) /\ IsFiniteSet(Scans)
    /\ HomeOf \in [Handlers -> Instances]
    /\ Manual \subseteq Scans
    /\ RankOf \in [Scans -> Nat]
    /\ Concurrency \in Nat \ {0}
    /\ MaxPerOrg \in Nat \ {0}
    /\ MaxPerHour \in Nat
    /\ MaxRetries \in Nat
    /\ MaxFaults \in Nat
    /\ NoScan \notin Scans
    /\ Nobody \notin Handlers

VARIABLES
    status,     \* status[s]: scans.status, "NONE" before the INSERT
    stored,     \* stored[s]: times the outcome of s was written
    retries,    \* retries[s]: parameters.retryCount
    overdue,    \* rows with started_at older than timeout + margin
    lock,       \* lock[a]: handler holding pg_advisory_xact_lock(a)
    handler,    \* handler[h]: the request being served
    mode,       \* mode[i]: "up", "stopping" (onApplicationShutdown) or "down"
    tick,       \* tick[i]: where the tick loop of i stands
    orphans,    \* orphans[i]: result of the findMany of failStaleScans
    picked,     \* picked[i]: row locked by the claim of i, not yet committed
    job,        \* job[i][s]: where execute(s) stands in instance i
    signal,     \* signal[i][s]: abort reason of the signal of that job
    entries,    \* entries[i]: scans with an entry in the cancellation map
    ending,     \* ending[i][s]: jobs of s that gave it back and are still
                \*   to run their `finally`
    late,       \* late[i]: jobs started after the shutdown of i began
    announced,  \* scans whose end was passed to the completion hooks
    faults      \* crashes and shutdowns so far

rowVars == <<status, stored, retries, overdue>>
requestVars == <<lock, handler>>
tickVars == <<tick, orphans, picked>>
jobVars == <<job, signal, entries, ending, late>>
vars == <<rowVars, requestVars, tickVars, jobVars, mode, announced, faults>>

------------------------------------------------------------------------------
InProgress == {"PENDING", "RUNNING"}
Final == {"COMPLETED", "FAILED", "CANCELLED"}
Phases == {"none", "claimed", "running", "saving", "notify"}
Reasons == {"cancelled", "timeout", "shutdown"}
Assets == {AssetOf[s] : s \in Scans}

Idle == [op |-> "idle", scan |-> NoScan, seen |-> "NONE"]
Requests ==
    [op : {"idle", "check", "insert", "cancel", "abort"},
     scan : Scans \cup {NoScan},
     seen : {"NONE"} \cup InProgress]

Init ==
    /\ status = [s \in Scans |-> "NONE"]
    /\ stored = [s \in Scans |-> 0]
    /\ retries = [s \in Scans |-> 0]
    /\ overdue = {}
    /\ lock = [a \in Assets |-> Nobody]
    /\ handler = [h \in Handlers |-> Idle]
    /\ mode = [i \in Instances |-> "up"]
    /\ tick = [i \in Instances |-> "idle"]
    /\ orphans = [i \in Instances |-> {}]
    /\ picked = [i \in Instances |-> NoScan]
    /\ job = [i \in Instances |-> [s \in Scans |-> "none"]]
    /\ signal = [i \in Instances |-> [s \in Scans |-> "none"]]
    /\ entries = [i \in Instances |-> {}]
    /\ ending = [i \in Instances |-> [s \in Scans |-> 0]]
    /\ late = [i \in Instances |-> {}]
    /\ announced = {}
    /\ faults = 0

SameKey(s, t) == AssetOf[s] = AssetOf[t] /\ TypeOf[s] = TypeOf[t]
SetStatus(s, st) == status' = [status EXCEPT ![s] = st]
SetJob(i, s, p) == job' = [job EXCEPT ![i][s] = p]

\* A slip: the update of a job without its condition on the status.
WriteAnyStatus(s, st) == SetStatus(s, st)

\* `updateMany({ where: { id, status: RUNNING } })`: no effect on another status.
WriteIfRunning(s, st) ==
    status' = [status EXCEPT ![s] = IF @ = "RUNNING" THEN st ELSE @]

Locked(s) == \E i \in Instances : picked[i] = s

------------------------------------------------------------------------------
(* ScansService.enqueue: one transaction that takes the advisory lock of    *)
(* the asset, reads, and inserts.                                           *)

\* A slip: the advisory lock is not taken.
EnqueueUnlocked(h, s) ==
    /\ handler[h] = Idle
    /\ mode[HomeOf[h]] # "down"
    /\ status[s] = "NONE"
    /\ \A g \in Handlers : handler[g].scan # s
    /\ handler' = [handler EXCEPT ![h] = [Idle EXCEPT !.op = "check", !.scan = s]]
    /\ UNCHANGED <<rowVars, lock, tickVars, jobVars, mode, announced, faults>>

EnqueueLock(h, s) ==
    /\ handler[h] = Idle
    /\ mode[HomeOf[h]] # "down"
    /\ status[s] = "NONE"
    /\ \A g \in Handlers : handler[g].scan # s
    /\ lock[AssetOf[s]] = Nobody
    /\ lock' = [lock EXCEPT ![AssetOf[s]] = h]
    /\ handler' = [handler EXCEPT ![h] = [Idle EXCEPT !.op = "check", !.scan = s]]
    /\ UNCHANGED <<rowVars, tickVars, jobVars, mode, announced, faults>>

InProgressTwin(s) == \E t \in Scans : SameKey(s, t) /\ status[t] \in InProgress

ManualInLastHour(s) ==
    Cardinality({t \in Manual : OrgOf[t] = OrgOf[s] /\ status[t] # "NONE"})

EnqueueCheck(h) ==
    LET s == handler[h].scan IN
    /\ handler[h].op = "check"
    /\ ~InProgressTwin(s)
    /\ s \in Manual => ManualInLastHour(s) < MaxPerHour
    /\ handler' = [handler EXCEPT ![h].op = "insert"]
    /\ UNCHANGED <<rowVars, lock, tickVars, jobVars, mode, announced, faults>>

\* 409, 429, or an asset that is missing, inactive, unauthorised or unverified.
EnqueueReject(h) ==
    /\ handler[h].op = "check"
    /\ handler' = [handler EXCEPT ![h] = Idle]
    /\ lock' = [lock EXCEPT ![AssetOf[handler[h].scan]] = Nobody]
    /\ UNCHANGED <<rowVars, tickVars, jobVars, mode, announced, faults>>

EnqueueInsert(h) ==
    LET s == handler[h].scan IN
    /\ handler[h].op = "insert"
    /\ SetStatus(s, "PENDING")
    /\ handler' = [handler EXCEPT ![h] = Idle]
    /\ lock' = [lock EXCEPT ![AssetOf[s]] = Nobody]
    /\ UNCHANGED <<stored, retries, overdue, tickVars, jobVars, mode, announced, faults>>

------------------------------------------------------------------------------
(* ScansService.cancel: read, conditional update, abort in this process.    *)

CancelRead(h, s) ==
    /\ handler[h] = Idle
    /\ mode[HomeOf[h]] # "down"
    /\ status[s] \in InProgress
    /\ handler' = [handler EXCEPT ![h] =
                     [op |-> "cancel", scan |-> s, seen |-> status[s]]]
    /\ UNCHANGED <<rowVars, lock, tickVars, jobVars, mode, announced, faults>>

\* The row lock of a claim in flight makes the update wait.
CancelWrite(h) ==
    LET s == handler[h].scan
        hit == status[s] = handler[h].seen
    IN
    /\ handler[h].op = "cancel"
    /\ ~Locked(s)
    /\ status' = IF hit THEN [status EXCEPT ![s] = "CANCELLED"] ELSE status
    /\ handler' = [handler EXCEPT ![h] =
                     IF hit /\ handler[h].seen = "RUNNING"
                     THEN [@ EXCEPT !.op = "abort"] ELSE Idle]
    /\ UNCHANGED <<stored, retries, overdue, lock, tickVars, jobVars, mode, announced, faults>>

\* AbortController.abort: only the first reason counts, and only a job whose
\* scanner or transaction is running looks at its signal again.
Aborted(i, S, reason) ==
    [signal EXCEPT ![i] = [s \in Scans |->
        IF /\ s \in S \cap entries[i]
           /\ job[i][s] \in {"running", "saving"}
           /\ @[s] = "none"
        THEN reason ELSE @[s]]]

CancelAbort(h) ==
    /\ handler[h].op = "abort"
    /\ signal' = Aborted(HomeOf[h], {handler[h].scan}, "cancelled")
    /\ handler' = [handler EXCEPT ![h] = Idle]
    /\ UNCHANGED <<rowVars, lock, tickVars, job, entries, ending, late, mode, announced, faults>>

------------------------------------------------------------------------------
(* ScanWorkerService.tick: failStaleScans, then claims while there is room. *)

\* A slip: the sweep passes over the rows that no live process executes.
StaleWithJob ==
    {s \in overdue : status[s] = "RUNNING" /\ \E i \in Instances : job[i][s] # "none"}

Stale == {s \in overdue : status[s] = "RUNNING"}

\* The poll timer, or a kick; the findMany of failStaleScans is the first await.
TickStart(i) ==
    /\ i \in Workers
    /\ mode[i] = "up"
    /\ tick[i] = "idle"
    /\ orphans' = [orphans EXCEPT ![i] = Stale]
    /\ tick' = [tick EXCEPT ![i] = "fail"]
    /\ UNCHANGED <<rowVars, requestVars, picked, jobVars, mode, announced, faults>>

\* Fails every stale row, the ones the findMany did not see included.
FailStale(i) ==
    /\ tick[i] = "fail"
    /\ status' = [s \in Scans |-> IF s \in Stale THEN "FAILED" ELSE status[s]]
    /\ orphans' = [orphans EXCEPT ![i] = IF Stale = {} THEN {} ELSE @]
    /\ tick' = [tick EXCEPT ![i] = "claim"]
    /\ UNCHANGED <<stored, retries, overdue, requestVars, picked, jobVars, mode, announced, faults>>

NotifyStale(i, s) ==
    /\ tick[i] = "claim"
    /\ s \in orphans[i]
    /\ announced' = announced \cup {s}
    /\ orphans' = [orphans EXCEPT ![i] = @ \ {s}]
    /\ UNCHANGED <<rowVars, requestVars, tick, picked, jobVars, mode, faults>>

Active(i) ==
    Cardinality({s \in Scans : job[i][s] # "none"})
      + FoldSet(LAMBDA s, n : n + ending[i][s], 0, Scans)

RunningOf(o) == Cardinality({r \in Scans : OrgOf[r] = o /\ status[r] = "RUNNING"})

\* Slips: the sub-select without FOR UPDATE SKIP LOCKED, and with `<=`.
ClaimableIgnoringLocks(s) == status[s] = "PENDING" /\ RunningOf(OrgOf[s]) < MaxPerOrg

ClaimableAtLimit(s) ==
    /\ status[s] = "PENDING"
    /\ ~Locked(s)
    /\ RunningOf(OrgOf[s]) <= MaxPerOrg

Claimable(s) ==
    /\ status[s] = "PENDING"
    /\ ~Locked(s)
    /\ RunningOf(OrgOf[s]) < MaxPerOrg

Claiming(i) ==
    /\ tick[i] = "claim"
    /\ orphans[i] = {}

HasRoom(i) == Active(i) < Concurrency /\ mode[i] = "up"

\* The sub-select: chooses the first row in order and locks it.
ClaimSelect(i, s) ==
    /\ Claiming(i)
    /\ HasRoom(i)
    /\ Claimable(s)
    /\ \A t \in Scans : Claimable(t) => RankOf[s] <= RankOf[t]
    /\ picked' = [picked EXCEPT ![i] = s]
    /\ tick' = [tick EXCEPT ![i] = "claiming"]
    /\ UNCHANGED <<rowVars, requestVars, orphans, jobVars, mode, announced, faults>>

\* The UPDATE commits, the tick loop starts the job and looks for another row.
ClaimCommit(i) ==
    LET s == picked[i] IN
    /\ tick[i] = "claiming"
    /\ SetStatus(s, "RUNNING")
    /\ picked' = [picked EXCEPT ![i] = NoScan]
    /\ tick' = [tick EXCEPT ![i] = "claim"]
    /\ SetJob(i, s, "claimed")
    /\ late' = [late EXCEPT ![i] = IF mode[i] = "stopping" THEN @ \cup {s} ELSE @]
    /\ UNCHANGED <<stored, retries, overdue, requestVars, orphans, signal, entries, ending,
                   mode, announced, faults>>

TickEnd(i) ==
    /\ Claiming(i)
    /\ ~HasRoom(i) \/ \A s \in Scans : ~Claimable(s)
    /\ tick' = [tick EXCEPT ![i] = "idle"]
    /\ UNCHANGED <<rowVars, requestVars, orphans, picked, jobVars, mode, announced, faults>>

------------------------------------------------------------------------------
(* ScanWorkerService.execute: one job.                                      *)

\* The job moves on with no further use of the signal it had.
Leave(i, s, p) ==
    /\ SetJob(i, s, p)
    /\ signal' = [signal EXCEPT ![i][s] = "none"]

\* execute reads the row and registers a new signal.
Register(i, s) ==
    /\ job[i][s] = "claimed"
    /\ Leave(i, s, "running")
    /\ entries' = [entries EXCEPT ![i] = @ \cup {s}]
    /\ UNCHANGED <<rowVars, requestVars, tickVars, ending, late, mode, announced, faults>>

\* The scanner returned and the signal had not fired: persistOutcome is called.
ScanReturns(i, s) ==
    /\ job[i][s] = "running"
    /\ signal[i][s] = "none"
    /\ SetJob(i, s, "saving")
    /\ UNCHANGED <<rowVars, requestVars, tickVars, signal, entries, ending, late, mode,
                   announced, faults>>

\* A slip: release clears the timer and keeps the entry.
ReleaseTimerOnly(i, s) == UNCHANGED entries

\* cancellation.release: drops whatever entry the map holds for s.
ReleaseEntry(i, s) == entries' = [entries EXCEPT ![i] = @ \ {s}]

Persist(i, s) ==
    /\ job[i][s] = "saving"
    /\ status[s] = "RUNNING"
    /\ SetStatus(s, "COMPLETED")
    /\ stored' = [stored EXCEPT ![s] = @ + 1]
    /\ Leave(i, s, "notify")
    /\ UNCHANGED <<retries, overdue, requestVars, tickVars, entries, ending, late, mode,
                   announced, faults>>

\* The update matched no row: persistOutcome returns null and nobody is told.
PersistNothing(i, s) ==
    /\ job[i][s] = "saving"
    /\ status[s] # "RUNNING"
    /\ Leave(i, s, "none")
    /\ ReleaseEntry(i, s)
    /\ late' = [late EXCEPT ![i] = @ \ {s}]
    /\ UNCHANGED <<rowVars, requestVars, tickVars, ending, mode, announced, faults>>

\* A slip: the failure is written and the hooks are not called.
EndSilently(i, s, st) ==
    /\ WriteIfRunning(s, st)
    /\ Leave(i, s, "none")
    /\ ending' = [ending EXCEPT ![i][s] = @ + 1]
    /\ late' = [late EXCEPT ![i] = @ \ {s}]
    /\ UNCHANGED <<stored, retries, overdue, requestVars, tickVars, entries, mode,
                   announced, faults>>

\* handleInterrupted and the catch block end in "notify" after a final write...
EndWith(i, s, st) ==
    /\ WriteIfRunning(s, st)
    /\ Leave(i, s, "notify")
    /\ UNCHANGED <<stored, retries, overdue, requestVars, tickVars, entries, ending, late,
                   mode, announced, faults>>

\* ... and in their `finally` after giving the row back to the queue.
GiveBack(i, s) ==
    /\ WriteIfRunning(s, "PENDING")
    /\ overdue' = IF status[s] = "RUNNING" THEN overdue \ {s} ELSE overdue
    /\ Leave(i, s, "none")
    /\ late' = [late EXCEPT ![i] = @ \ {s}]
    /\ ending' = [ending EXCEPT ![i][s] = @ + 1]
    /\ UNCHANGED <<stored, requestVars, tickVars, entries, mode, announced, faults>>

Interrupted(i, s) ==
    /\ job[i][s] \in {"running", "saving"}
    /\ \/ /\ signal[i][s] = "shutdown"
          /\ GiveBack(i, s)
          /\ UNCHANGED retries
       \/ /\ signal[i][s] = "timeout"
          /\ EndWith(i, s, "FAILED")
       \/ /\ signal[i][s] = "cancelled"
          /\ EndWith(i, s, "CANCELLED")

\* A check of execute failed, or the scanner or the transaction threw.
JobFails(i, s) ==
    /\ job[i][s] \in {"running", "saving"}
    /\ signal[i][s] = "none"
    /\ EndWith(i, s, "FAILED")

MayRetry(s) == retries[s] < MaxRetries

TransientFailure(i, s) ==
    /\ job[i][s] \in {"running", "saving"}
    /\ signal[i][s] = "none"
    /\ MayRetry(s)
    /\ GiveBack(i, s)
    /\ retries' = [retries EXCEPT ![s] = IF status[s] = "RUNNING" THEN @ + 1 ELSE @]

NotifyFinished(i, s) ==
    /\ job[i][s] = "notify"
    /\ announced' = announced \cup {s}
    /\ SetJob(i, s, "none")
    /\ ReleaseEntry(i, s)
    /\ late' = [late EXCEPT ![i] = @ \ {s}]
    /\ UNCHANGED <<rowVars, requestVars, tickVars, signal, ending, mode, faults>>

\* `finally` of a job that gave its row back.
Release(i, s) ==
    /\ ending[i][s] > 0
    /\ ending' = [ending EXCEPT ![i][s] = @ - 1]
    /\ ReleaseEntry(i, s)
    /\ UNCHANGED <<rowVars, requestVars, tickVars, job, signal, late, mode, announced, faults>>

------------------------------------------------------------------------------
(* Time.                                                                    *)

Timeout(i, s) ==
    /\ job[i][s] \in {"running", "saving"}
    /\ s \in entries[i]
    /\ signal[i][s] = "none"
    /\ signal' = Aborted(i, {s}, "timeout")
    /\ UNCHANGED <<rowVars, requestVars, tickVars, job, entries, ending, late, mode,
                   announced, faults>>

\* The margin is longer than any single statement: a row with a live job gets
\* overdue only while its scanner runs, after the timer of the job, if it has one.
Overdue(s) ==
    /\ status[s] = "RUNNING"
    /\ s \notin overdue
    /\ \A i \in Instances :
         job[i][s] # "none" =>
           /\ job[i][s] = "running"
           /\ s \in entries[i] => signal[i][s] # "none"
    /\ overdue' = overdue \cup {s}
    /\ UNCHANGED <<status, stored, retries, requestVars, tickVars, jobVars, mode,
                   announced, faults>>

------------------------------------------------------------------------------
(* Shutdown, crash and restart of an instance.                              *)

\* onApplicationShutdown: abortAll('shutdown'), then wait for the jobs in flight.
Shutdown(i) ==
    /\ mode[i] = "up"
    /\ faults < MaxFaults
    /\ faults' = faults + 1
    /\ mode' = [mode EXCEPT ![i] = "stopping"]
    /\ signal' = Aborted(i, Scans, "shutdown")
    /\ UNCHANGED <<rowVars, requestVars, tickVars, job, entries, ending, late, announced>>

\* The end of a process: what it holds in memory and its open transactions go.
\* (A statement in flight that still commits is that statement, then the end.)
ProcessEnds(i) ==
    /\ mode' = [mode EXCEPT ![i] = "down"]
    /\ tick' = [tick EXCEPT ![i] = "idle"]
    /\ orphans' = [orphans EXCEPT ![i] = {}]
    /\ picked' = [picked EXCEPT ![i] = NoScan]
    /\ job' = [job EXCEPT ![i] = [s \in Scans |-> "none"]]
    /\ signal' = [signal EXCEPT ![i] = [s \in Scans |-> "none"]]
    /\ entries' = [entries EXCEPT ![i] = {}]
    /\ ending' = [ending EXCEPT ![i] = [s \in Scans |-> 0]]
    /\ late' = [late EXCEPT ![i] = {}]
    /\ handler' = [h \in Handlers |-> IF HomeOf[h] = i THEN Idle ELSE handler[h]]
    /\ lock' = [a \in Assets |->
                  IF lock[a] \in Handlers /\ HomeOf[lock[a]] = i THEN Nobody ELSE lock[a]]
    /\ UNCHANGED <<rowVars, announced>>

Exit(i) ==
    /\ mode[i] = "stopping"
    /\ \A s \in Scans : ending[i][s] = 0 /\ (job[i][s] # "none" => s \in late[i])
    /\ ProcessEnds(i)
    /\ UNCHANGED faults

Crash(i) ==
    /\ mode[i] # "down"
    /\ faults < MaxFaults
    /\ faults' = faults + 1
    /\ ProcessEnds(i)

Restart(i) ==
    /\ mode[i] = "down"
    /\ mode' = [mode EXCEPT ![i] = "up"]
    /\ UNCHANGED <<rowVars, requestVars, tickVars, jobVars, announced, faults>>

------------------------------------------------------------------------------
Request(h) ==
    \/ \E s \in Scans : EnqueueLock(h, s) \/ CancelRead(h, s)
    \/ EnqueueCheck(h) \/ EnqueueReject(h) \/ EnqueueInsert(h)
    \/ CancelWrite(h) \/ CancelAbort(h)

Tick(i) ==
    \/ TickStart(i) \/ FailStale(i) \/ ClaimCommit(i) \/ TickEnd(i)
    \/ \E s \in Scans : NotifyStale(i, s) \/ ClaimSelect(i, s)

Job(i, s) ==
    \/ Register(i, s) \/ ScanReturns(i, s) \/ Persist(i, s) \/ PersistNothing(i, s)
    \/ Interrupted(i, s) \/ JobFails(i, s) \/ TransientFailure(i, s)
    \/ NotifyFinished(i, s) \/ Release(i, s)

Process(i) == Shutdown(i) \/ Exit(i) \/ Crash(i) \/ Restart(i)

Next ==
    \/ \E h \in Handlers : Request(h)
    \/ \E i \in Instances : Tick(i) \/ Process(i)
    \/ \E i \in Instances, s \in Scans : Job(i, s) \/ Timeout(i, s)
    \/ \E s \in Scans : Overdue(s)

Spec == Init /\ [][Next]_vars

\* The poll timer runs the tick loop again and again, a job that can take a step
\* takes it (its scanner ends or is interrupted), the clock advances, and an
\* instance that went down is started again.  Nothing obliges a user to ask.
Fairness ==
    /\ \A i \in Instances : WF_vars(Tick(i)) /\ WF_vars(Exit(i)) /\ WF_vars(Restart(i))
    /\ \A i \in Instances, s \in Scans : WF_vars(Job(i, s))
    /\ \A s \in Scans : WF_vars(Overdue(s))

FairSpec == Spec /\ Fairness

------------------------------------------------------------------------------
(* Properties.                                                              *)

\* Every variable keeps its type.
TypeOK ==
    /\ status \in [Scans -> {"NONE"} \cup InProgress \cup Final]
    /\ stored \in [Scans -> Nat]
    /\ retries \in [Scans -> 0..MaxRetries]
    /\ overdue \subseteq Scans
    /\ lock \in [Assets -> Handlers \cup {Nobody}]
    /\ handler \in [Handlers -> Requests]
    /\ mode \in [Instances -> {"up", "stopping", "down"}]
    /\ tick \in [Instances -> {"idle", "fail", "claim", "claiming"}]
    /\ orphans \in [Instances -> SUBSET Scans]
    /\ picked \in [Instances -> Scans \cup {NoScan}]
    /\ job \in [Instances -> [Scans -> Phases]]
    /\ signal \in [Instances -> [Scans -> Reasons \cup {"none"}]]
    /\ entries \in [Instances -> SUBSET Scans]
    /\ ending \in [Instances -> [Scans -> Nat]]
    /\ late \in [Instances -> SUBSET Scans]
    /\ announced \subseteq Scans
    /\ faults \in 0..MaxFaults

\* Two workers never execute the same scan, whatever is retried, interrupted,
\* declared orphan or restarted, and a scan back in the queue is executed by
\* nobody (class comment of ScanWorkerService; README, "Escalable").
OneExecutor ==
    \A s \in Scans, i, j \in Instances :
        job[i][s] # "none" /\ job[j][s] # "none"
            => i = j /\ status[s] \notin {"NONE", "PENDING"}

\* The advisory lock of enqueue: an asset never has two scans of one type
\* pending or running, not even when a retry puts one back in the queue.
OneInProgressPerType ==
    \A s, t \in Scans :
        SameKey(s, t) /\ status[s] \in InProgress /\ status[t] \in InProgress => s = t

\* The cancellation map holds entries only for scans with a job in this process
\* (the `finally` of execute), so it does not grow with the scans executed.
NoLeakedEntry ==
    \A i \in Instances : \A s \in entries[i] :
        job[i][s] \in {"running", "saving", "notify"} \/ ending[i][s] > 0

\* The limit per organisation: no more scans of an organisation RUNNING than
\* SCAN_MAX_CONCURRENCY_PER_ORG (README, "Limites"; claimNext).
OrgLimit == \A s \in Scans : RunningOf(OrgOf[s]) <= MaxPerOrg

\* A scan that is accepted ends, even when the process that executes it crashes
\* (poll timer, failStaleScans, bounded retries).
EveryScanEnds ==
    \A s \in Scans : status[s] \in InProgress ~> status[s] \in Final

\* With no crash, the completion hooks hear of every scan that completed or failed
\* ("Hook reactivo llamado por ScanWorkerService cuando un escaneo finaliza o falla",
\* DiagnosticOrchestratorService): the pipeline of a 360 batch moves on them.
FinishedIsAnnounced ==
    \A s \in Scans : status[s] \in {"COMPLETED", "FAILED"} ~> s \in announced

\* The queue implements the lifecycle: in particular a final status is final
\* (a late executor, a second cancel or the orphan sweep changes nothing), and
\* results are stored once, exactly for COMPLETED scans.
Lifecycle == INSTANCE ScanLifecycle WITH
    KeyOf <- [s \in Scans |-> <<AssetOf[s], TypeOf[s]>>],
    results <- {s \in Scans : stored[s] = 1}

ImplementsLifecycle == Lifecycle!LifecycleSpec
==============================================================================
