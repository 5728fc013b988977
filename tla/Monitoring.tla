------------------------------ MODULE Monitoring ------------------------------
(***************************************************************************)
(* Continuous monitoring (MonitoringScheduler, MonitoringService): every    *)
(* instance looks on a timer for assets whose last scheduled audit is a     *)
(* period old, claims each with a conditional UPDATE and queues its scans.  *)
(*                                                                          *)
(* Time is what the code compares: the age of last_scheduled_scan_at, in    *)
(* ticks of the timer (setInterval).  A pass works with the `now` it took   *)
(* at its start, lag ticks ago.                                             *)
(***************************************************************************)
EXTENDS Naturals, FiniteSets

CONSTANTS
    Assets,         \* registered assets
    OwnerOf,        \* OwnerOf[a]: organization of the asset
    Timers,         \* instances that run the scheduler
    PeriodOf,       \* PeriodOf["DAILY"], PeriodOf["WEEKLY"], in ticks
    Slack,          \* SCHEDULE_SLACK_MS, in ticks
    BatchSize,      \* SCHEDULER_BATCH_SIZE
    MaxLag,         \* bound: ticks a pass may last
    MaxTrouble      \* bound: failed enqueues, deaths and edits of the settings

ASSUME MonitoringAssumption ==
    /\ IsFiniteSet(Assets)
    /\ PeriodOf["DAILY"] \in Nat /\ PeriodOf["WEEKLY"] \in Nat
    /\ Slack \in Nat /\ Slack < PeriodOf["DAILY"] /\ PeriodOf["DAILY"] < PeriodOf["WEEKLY"]
    /\ BatchSize \in Nat \ {0} /\ MaxLag \in Nat \ {0} /\ MaxTrouble \in Nat

VARIABLES
    age,        \* age[a]: ticks since last_scheduled_scan_at, Never when it is null
    frequency,  \* frequency[o]: organizations.monitoring_frequency
    monitorable,\* assets that are active, authorized and verified if that is required
    timer,      \* timer[t]: the pass of instance t
    audited,    \* audited[a]: ticks since its scans were last queued by a pass
    trouble     \* failures, deaths and edits so far, against the bound

monitoringVars == <<age, frequency, monitorable, timer, audited, trouble>>

Frequencies == {"OFF", "DAILY", "WEEKLY"}
Never == PeriodOf["WEEKLY"] + MaxLag + 1     \* ages saturate here, null counts as oldest
LongAgo == PeriodOf["DAILY"]                \* audited saturates here
Resting == [on |-> FALSE, ran |-> FALSE, lag |-> 0, round |-> "DAILY", room |-> BatchSize,
            read |-> FALSE, due |-> {}, claimed |-> {}]

MonitoringInit ==
    /\ age = [a \in Assets |-> Never]
    /\ frequency \in [{OwnerOf[a] : a \in Assets} -> Frequencies]
    /\ monitorable = Assets
    /\ timer = [t \in Timers |-> Resting]
    /\ audited = [a \in Assets |-> LongAgo]
    /\ trouble = 0

------------------------------------------------------------------------------
\* A slip: an asset that was never audited is not taken.
DueUnlessNull(a, f, lag) ==
    /\ a \in monitorable
    /\ frequency[OwnerOf[a]] = f
    /\ age[a] # Never /\ age[a] > lag + PeriodOf[f] - Slack

\* dueWhere(f, now): a condition of the read and, evaluated again, of the claim.
DueFor(a, f, lag) ==
    /\ a \in monitorable
    /\ frequency[OwnerOf[a]] = f
    /\ age[a] = Never \/ age[a] > lag + PeriodOf[f] - Slack

\* The most overdue first, as many as the batch has room for.
MostOverdue(set, room) == {batch \in SUBSET set :
    /\ Cardinality(batch) = IF Cardinality(set) < room THEN Cardinality(set) ELSE room
    /\ \A a \in batch, b \in set \ batch : age[a] >= age[b]}

\* tick: nothing while the last pass of this instance is still running.
StartPass(t) ==
    /\ ~timer[t].on /\ ~timer[t].ran
    /\ timer' = [timer EXCEPT ![t] = [Resting EXCEPT !.on = TRUE]]
    /\ UNCHANGED <<age, frequency, monitorable, audited, trouble>>

ReadDue(t) ==
    /\ timer[t].on /\ ~timer[t].read
    /\ \E batch \in MostOverdue({a \in Assets : DueFor(a, timer[t].round, timer[t].lag)},
                                timer[t].room) :
         timer' = [timer EXCEPT ![t].read = TRUE, ![t].due = batch,
                                ![t].room = @ - Cardinality(batch)]
    /\ UNCHANGED <<age, frequency, monitorable, audited, trouble>>

\* A slip: the UPDATE by identifier only.
ClaimBlindly(t, a) ==
    /\ a \in timer[t].due /\ timer[t].claimed = {}
    /\ age' = [age EXCEPT ![a] = timer[t].lag]
    /\ timer' = [timer EXCEPT ![t].due = @ \ {a}, ![t].claimed = {a}]
    /\ UNCHANGED <<frequency, monitorable, audited, trouble>>

\* The claim: the condition again, in the UPDATE.  Another instance may have been faster.
Claim(t, a) ==
    /\ a \in timer[t].due /\ timer[t].claimed = {}
    /\ IF DueFor(a, timer[t].round, timer[t].lag)
         THEN /\ age' = [age EXCEPT ![a] = timer[t].lag]
              /\ timer' = [timer EXCEPT ![t].due = @ \ {a}, ![t].claimed = {a}]
         ELSE /\ timer' = [timer EXCEPT ![t].due = @ \ {a}]
              /\ UNCHANGED age
    /\ UNCHANGED <<frequency, monitorable, audited, trouble>>

\* enqueueAll: queues every type that applies, or throws; the claim stays either way.
QueueScans(t) ==
    /\ \E a \in timer[t].claimed :
         \/ audited' = [audited EXCEPT ![a] = 0] /\ UNCHANGED trouble
         \/ trouble < MaxTrouble /\ trouble' = trouble + 1 /\ UNCHANGED audited
    /\ timer' = [timer EXCEPT ![t].claimed = {}]
    /\ UNCHANGED <<age, frequency, monitorable>>

\* DAILY is followed by WEEKLY while the batch has room; then the pass is over.
EndRound(t) ==
    /\ timer[t].read /\ timer[t].due = {} /\ timer[t].claimed = {}
    /\ timer' = [timer EXCEPT ![t] =
                   IF @.round = "DAILY" /\ @.room > 0
                     THEN [@ EXCEPT !.round = "WEEKLY", !.read = FALSE]
                     ELSE [Resting EXCEPT !.ran = TRUE]]
    /\ UNCHANGED <<age, frequency, monitorable, audited, trouble>>

------------------------------------------------------------------------------
(* The settings, the instances, and time.                                   *)
Older(n) == IF n >= Never - 1 THEN Never ELSE n + 1

\* A tick: each timer has fired since the last one, or its pass is still running.
PassTime ==
    /\ \A t \in Timers : timer[t].ran \/ (timer[t].on /\ timer[t].lag < MaxLag)
    /\ age' = [a \in Assets |-> Older(age[a])]
    /\ audited' = [a \in Assets |-> IF audited[a] = LongAgo THEN LongAgo ELSE audited[a] + 1]
    /\ timer' = [t \in Timers |-> IF timer[t].on THEN [timer[t] EXCEPT !.lag = @ + 1] ELSE Resting]
    /\ UNCHANGED <<frequency, monitorable, trouble>>

Trouble == trouble < MaxTrouble /\ trouble' = trouble + 1

UpdateFrequency(o, f) ==
    /\ Trouble
    /\ frequency' = [frequency EXCEPT ![o] = f]
    /\ UNCHANGED <<age, monitorable, timer, audited>>

ToggleAsset(a) ==
    /\ Trouble
    /\ monitorable' = IF a \in monitorable THEN monitorable \ {a} ELSE monitorable \cup {a}
    /\ UNCHANGED <<age, frequency, timer, audited>>

StopInstance(t) ==
    /\ timer[t].on
    /\ Trouble
    /\ timer' = [timer EXCEPT ![t] = [Resting EXCEPT !.ran = TRUE]]
    /\ UNCHANGED <<age, frequency, monitorable, audited>>

PassStep(t) == ReadDue(t) \/ QueueScans(t) \/ EndRound(t) \/ \E a \in Assets : Claim(t, a)

MonitoringNext ==
    \/ \E t \in Timers : StartPass(t) \/ PassStep(t) \/ StopInstance(t)
    \/ \E o \in DOMAIN frequency, f \in Frequencies : UpdateFrequency(o, f)
    \/ \E a \in Assets : ToggleAsset(a)
    \/ PassTime

MonitoringFairness ==
    /\ WF_monitoringVars(PassTime)
    /\ \A t \in Timers : WF_monitoringVars(StartPass(t)) /\ WF_monitoringVars(PassStep(t))

MonitoringSpec == MonitoringInit /\ [][MonitoringNext]_monitoringVars

------------------------------------------------------------------------------
(* Properties.                                                              *)

\* Every variable keeps its type.
MonitoringTypeOK ==
    /\ age \in [Assets -> 0..Never] /\ audited \in [Assets -> 0..LongAgo]
    /\ frequency \in [{OwnerOf[a] : a \in Assets} -> Frequencies]
    /\ monitorable \subseteq Assets
    /\ timer \in [Timers -> [on : BOOLEAN, ran : BOOLEAN, lag : 0..MaxLag, round : {"DAILY", "WEEKLY"},
                             room : 0..BatchSize, read : BOOLEAN, due : SUBSET Assets,
                             claimed : SUBSET Assets]]
    /\ trouble \in 0..MaxTrouble

\* A pass queues the scans of a: its claim is over and nothing went wrong.
Queues(a) == UNCHANGED trouble /\ \E t \in Timers : a \in timer[t].claimed \ timer'[t].claimed

\* However many instances run the scheduler, the scans of an asset are queued once in
\* a period: two passes that queue them are a period apart, less the slack and the
\* time a pass may take.
AuditsAreApart ==
    [][\A a \in Assets : Queues(a) => audited[a] > PeriodOf["DAILY"] - Slack - MaxLag]_monitoringVars

\* What MonitoringService.status shows as monitored, and as due now.
Monitored(a) == a \in monitorable /\ frequency[OwnerOf[a]] # "OFF"
ShownDue(a) ==
    /\ Monitored(a)
    /\ age[a] = Never \/ age[a] >= PeriodOf[frequency[OwnerOf[a]]] - Slack

\* An asset shown as due gets its scans queued while it stays monitored, also when a
\* claim was lost to a failure or to the end of a process: the next period makes
\* up for it.
DueIsAudited == \A a \in Assets : ShownDue(a) ~> (audited[a] = 0 \/ ~Monitored(a))
==============================================================================
