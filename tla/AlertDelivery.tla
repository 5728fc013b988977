---------------------------- MODULE AlertDelivery ----------------------------
(***************************************************************************)
(* Delivery of the alerts of one organization (AlertsService): a finished   *)
(* scan raises alerts and starts a job that sends each to the channels; the *)
(* scheduler of every instance retries what failed, and a user may ask for  *)
(* a retry.  What happened is kept in one JSON array per alert, which every *)
(* pass reads first and writes whole at its end, with slow sends between.   *)
(*                                                                          *)
(* An action is one stretch of a pass between two awaits.  A time is what   *)
(* the code compares it for: nextRetryAt is null, later or due.             *)
(***************************************************************************)
EXTENDS Naturals, FiniteSets

CONSTANTS
    Alerts,         \* 1..n, numbered in the order of their creation
    Channels,       \* rows of alert_channels
    SeverityOf,     \* SeverityOf[a]: rank of the severity, 0 for CRITICAL
    EmailChannels,  \* channels whose mailer may be switched off (SKIPPED)
    Jobs,           \* deliveries under way at once (one per finished scan)
    Schedulers,     \* instances that run the automatic retry
    Requests,       \* manual retries
    HostOf,         \* HostOf[p]: instance on which pass p runs
    MaxAttempts,    \* ALERT_MAX_RETRIES
    Take,           \* alerts one automatic pass looks at (50)
    MaxRequests,    \* bound: manual retries asked for
    MaxEvents       \* bound: processes that die and edits of channels

ASSUME AlertAssumption ==
    /\ IsFiniteSet(Alerts) /\ Alerts = 1..Cardinality(Alerts)
    /\ IsFiniteSet(Jobs \cup Schedulers \cup Requests)
    /\ Jobs \cap (Schedulers \cup Requests) = {}
    /\ EmailChannels \subseteq Channels
    /\ SeverityOf \in [Alerts -> 0..4]
    /\ MaxAttempts \in Nat \ {0} /\ Take \in Nat \ {0}
    /\ {MaxRequests, MaxEvents} \subseteq Nat

VARIABLES
    deliveries,     \* deliveries[a]: items of the array by channel; NotSaved when null
    channel,        \* channel[c]: the row of the channel
    raised,         \* alerts created so far: 1..raised
    stale,          \* alerts older than 48 hours
    pass,           \* pass[p]: what p is doing
    sent,           \* sent[a][c]: times the channel accepted the alert
    tried,          \* tried[a][c]: times it was sent
    overlaps,       \* overlaps[a]: passes that read the array while another worked
                    \* on it, or died between a send and the write
    spent           \* manual retries, and deaths and edits, so far: against the bounds

alertVars == <<deliveries, channel, raised, stale, pass, sent, tried, overlaps, spent>>
alertGhosts == <<sent, tried, overlaps>>

Passes == Jobs \cup Schedulers \cup Requests
NoItem == [status |-> "none", attempts |-> 0, next |-> "null"]
NotSaved == [c \in Channels |-> NoItem]
Items == [status : {"none", "SENT", "FAILED", "SKIPPED"}, attempts : Nat,
          next : {"null", "later", "due"}]

\* A pass: the alerts to do, its copies of their arrays, the alert it is at (0 for
\* none) with the channels left to try, and whether it changed that copy.
Idle == [open |-> {}, items |-> [a \in Alerts |-> NotSaved], at |-> 0, left |-> {},
         dirty |-> FALSE]

AlertInit ==
    /\ deliveries = [a \in Alerts |-> NotSaved]
    /\ channel = [c \in Channels |-> [live |-> TRUE, on |-> TRUE, threshold |-> 1]]
    /\ raised = 0 /\ stale = {}
    /\ pass = [p \in Passes |-> Idle]
    /\ sent = [a \in Alerts |-> [c \in Channels |-> 0]]
    /\ tried = [a \in Alerts |-> [c \in Channels |-> 0]]
    /\ overlaps = [a \in Alerts |-> 0]
    /\ spent = [events |-> 0, requests |-> 0]

------------------------------------------------------------------------------
\* calculateNextRetry: null once the attempts are used up, else a later time.
NextRetry(attempts) == IF attempts >= MaxAttempts THEN "null" ELSE "later"

\* Slips: one attempt too few, and the status not looked at.
DueOffByOne(items) == {c \in Channels : /\ items[c].status = "FAILED"
                                        /\ items[c].attempts + 1 < MaxAttempts
                                        /\ items[c].next # "later"}
DueWhateverItsStatus(items) == {c \in Channels : /\ items[c].status # "none"
                                                 /\ items[c].attempts < MaxAttempts
                                                 /\ items[c].next # "later"}

\* The automatic pass takes an item that failed, has attempts left and is due; the
\* manual one any that failed.
Due(items) == {c \in Channels : /\ items[c].status = "FAILED"
                                /\ items[c].attempts < MaxAttempts
                                /\ items[c].next # "later"}
Failed(items) == {c \in Channels : items[c].status = "FAILED"}

\* meetsThreshold: at least as severe as the threshold of the channel.
MeetsThreshold(a, c) == SeverityOf[a] <= channel[c].threshold
Eligible(a) == {c \in Channels : channel[c].on /\ MeetsThreshold(a, c)}

\* What AlertNotifierService.send answers: an e-mail with no mailer is SKIPPED.
Outcomes(c) == {"SENT", "FAILED"} \cup (IF c \in EmailChannels THEN {"SKIPPED"} ELSE {})

Held(a) == \E p \in Passes : a \in pass[p].open
Spend(what, bound) == spent[what] < bound /\ spent' = [spent EXCEPT ![what] = @ + 1]

------------------------------------------------------------------------------
(* handleScanCompleted: the alerts of one scan in one transaction, then     *)
(* deliver() of all of them in the background.                              *)
Raise(j, n) ==
    /\ pass[j] = Idle
    /\ raised + n \in Alerts
    /\ raised' = raised + n
    /\ pass' = [pass EXCEPT ![j].open = (raised + 1)..(raised + n)]
    /\ UNCHANGED <<deliveries, channel, stale, alertGhosts, spent>>

\* A job sends to the channels that are active and want the severity at that moment.
DeliverNext(j) ==
    /\ pass[j].at = 0
    /\ \E a \in pass[j].open :
         /\ \A b \in pass[j].open : a <= b
         /\ pass' = [pass EXCEPT ![j].at = a, ![j].left = Eligible(a)]
    /\ UNCHANGED <<deliveries, channel, raised, stale, alertGhosts, spent>>

\* retryFailedDeliveries: the arrays of the newest Take alerts of the last 48 hours,
\* read in one statement.
Newest(set) == {a \in set : Cardinality({b \in set : b > a}) < Take}
Candidates == {a \in 1..raised : deliveries[a] # NotSaved /\ a \notin stale}
WithWork == {a \in Newest(Candidates) : Due(deliveries[a]) # {}}

AutoRead(s) ==
    /\ pass[s] = Idle
    /\ WithWork # {}
    /\ pass' = [pass EXCEPT ![s] = [Idle EXCEPT !.open = WithWork, !.items = deliveries]]
    /\ overlaps' = [a \in Alerts |-> overlaps[a] + IF a \in WithWork /\ Held(a) THEN 1 ELSE 0]
    /\ UNCHANGED <<deliveries, channel, raised, stale, sent, tried, spent>>

AutoNext(s) ==
    /\ pass[s].at = 0
    /\ \E a \in pass[s].open :
         /\ \A b \in pass[s].open : a >= b
         /\ pass' = [pass EXCEPT ![s].at = a, ![s].left = Due(pass[s].items[a])]
    /\ UNCHANGED <<deliveries, channel, raised, stale, alertGhosts, spent>>

\* retry: refused when nothing was recorded or nothing failed; one channel or all.
ManualRead(r, a, channels) ==
    /\ pass[r] = Idle
    /\ a <= raised
    /\ Failed(deliveries[a]) \cap channels # {}
    /\ Spend("requests", MaxRequests)
    /\ pass' = [pass EXCEPT ![r] = [Idle EXCEPT !.open = {a}, !.at = a,
                                      !.items[a] = deliveries[a],
                                      !.left = Failed(deliveries[a]) \cap channels]]
    /\ overlaps' = [overlaps EXCEPT ![a] = @ + IF Held(a) THEN 1 ELSE 0]
    /\ UNCHANGED <<deliveries, channel, raised, stale, sent, tried>>

\* A slip: the attempts start again.
ItemAfterFirst(p, old, result) ==
    LET kept == IF p \in Jobs \/ result = "SENT" THEN result ELSE "FAILED"
    IN  [status |-> kept, attempts |-> 1,
         next |-> IF kept = "FAILED" THEN NextRetry(1) ELSE "null"]

\* What one send leaves in the copy: a first delivery keeps SKIPPED, a retry makes
\* of anything but SENT a failure.
ItemAfter(p, old, result) ==
    LET kept == IF p \in Jobs \/ result = "SENT" THEN result ELSE "FAILED"
    IN  [status |-> kept, attempts |-> old.attempts + 1,
         next |-> IF kept = "FAILED" THEN NextRetry(old.attempts + 1) ELSE "null"]

\* One channel of the alert at hand.  (A job does not look at the row again.)
Try(p, c) ==
    LET a == pass[p].at
        old == pass[p].items[a][c]
        skip == p \notin Jobs /\ ~channel[c].on
        Leaves(item) == pass' = [pass EXCEPT ![p] =
                          [pass[p] EXCEPT !.items[a][c] = item, !.dirty = TRUE, !.left = @ \ {c}]]
    IN  /\ c \in pass[p].left
        /\ \/ /\ skip
              /\ Leaves([old EXCEPT !.status = "SKIPPED", !.next = "null"])
              /\ UNCHANGED <<sent, tried>>
           \/ \E result \in Outcomes(c) :
                /\ ~skip
                /\ Leaves(ItemAfter(p, old, result))
                /\ sent' = [sent EXCEPT ![a][c] = @ + IF result = "SENT" THEN 1 ELSE 0]
                /\ tried' = [tried EXCEPT ![a][c] = @ + 1]
        /\ UNCHANGED <<deliveries, channel, raised, stale, overlaps, spent>>

\* With no channel left the array is written whole, if the pass changed it.
Save(p) ==
    LET a == pass[p].at IN
      /\ a # 0 /\ pass[p].left = {}
      /\ deliveries' = IF pass[p].dirty
                         THEN [deliveries EXCEPT ![a] = pass[p].items[a]] ELSE deliveries
      /\ pass' = [pass EXCEPT ![p] =
                    IF pass[p].open = {a} THEN Idle
                    ELSE [pass[p] EXCEPT !.open = @ \ {a}, !.at = 0, !.dirty = FALSE]]
      /\ UNCHANGED <<channel, raised, stale, alertGhosts, spent>>

------------------------------------------------------------------------------
(* Channels, time, and processes that die.                                  *)

\* updateChannel switches the channel or moves its threshold; deleteChannel.
SwitchChannel(c) ==
    /\ channel[c].live
    /\ Spend("events", MaxEvents)
    /\ channel' = [channel EXCEPT ![c].on = ~@]
    /\ UNCHANGED <<deliveries, raised, stale, pass, alertGhosts>>

MoveThreshold(c, t) ==
    /\ channel[c].live /\ t # channel[c].threshold
    /\ Spend("events", MaxEvents)
    /\ channel' = [channel EXCEPT ![c].threshold = t]
    /\ UNCHANGED <<deliveries, raised, stale, pass, alertGhosts>>

DeleteChannel(c) ==
    /\ channel[c].live
    /\ Spend("events", MaxEvents)
    /\ channel' = [channel EXCEPT ![c].live = FALSE, ![c].on = FALSE]
    /\ UNCHANGED <<deliveries, raised, stale, pass, alertGhosts>>

Elapse(a, c) ==
    /\ deliveries[a][c].next = "later"
    /\ deliveries' = [deliveries EXCEPT ![a][c].next = "due"]
    /\ UNCHANGED <<channel, raised, stale, pass, alertGhosts, spent>>

GrowOld(a) ==
    /\ a <= raised /\ a \notin stale
    /\ \A b \in 1..(a - 1) : b \in stale
    /\ stale' = stale \cup {a}
    /\ UNCHANGED <<deliveries, channel, raised, pass, alertGhosts, spent>>

\* The instance is gone with what its passes had not written.
Crash(i) ==
    LET lost == {p \in Passes : HostOf[p] = i /\ pass[p] # Idle} IN
      /\ lost # {}
      /\ Spend("events", MaxEvents)
      /\ pass' = [p \in Passes |-> IF p \in lost THEN Idle ELSE pass[p]]
      /\ overlaps' = [a \in Alerts |->
           overlaps[a] + Cardinality({p \in lost : pass[p].at = a /\ pass[p].dirty})]
      /\ UNCHANGED <<deliveries, channel, raised, stale, sent, tried>>

Step(p) == Save(p) \/ \E c \in Channels : Try(p, c)

AlertNext ==
    \/ \E j \in Jobs : DeliverNext(j) \/ \E n \in Alerts : Raise(j, n)
    \/ \E s \in Schedulers : AutoRead(s) \/ AutoNext(s)
    \/ \E r \in Requests, a \in Alerts, channels \in {Channels} \cup {{c} : c \in Channels} :
         ManualRead(r, a, channels)
    \/ \E p \in Passes : Step(p)
    \/ \E c \in Channels : SwitchChannel(c) \/ DeleteChannel(c) \/ \E t \in 0..1 : MoveThreshold(c, t)
    \/ \E a \in Alerts : GrowOld(a) \/ \E c \in Channels : Elapse(a, c)
    \/ \E i \in {HostOf[p] : p \in Passes} : Crash(i)

AlertSpec == AlertInit /\ [][AlertNext]_alertVars

\* A pass that is under way goes on, the scheduler ticks, time goes by.
AlertFairness ==
    /\ \A p \in Passes : WF_alertVars(Step(p))
    /\ \A j \in Jobs : WF_alertVars(DeliverNext(j))
    /\ \A s \in Schedulers : WF_alertVars(AutoRead(s)) /\ WF_alertVars(AutoNext(s))
    /\ \A a \in Alerts, c \in Channels : WF_alertVars(Elapse(a, c))

------------------------------------------------------------------------------
(* Properties.                                                              *)

\* Every variable keeps its type.
AlertTypeOK ==
    /\ deliveries \in [Alerts -> [Channels -> Items]]
    /\ channel \in [Channels -> [live : BOOLEAN, on : BOOLEAN, threshold : 0..4]]
    /\ raised \in Nat /\ 1..raised \subseteq Alerts
    /\ stale \subseteq 1..raised
    /\ pass \in [Passes -> [open : SUBSET Alerts, items : [Alerts -> [Channels -> Items]],
                            at : {0} \cup Alerts, left : SUBSET Channels, dirty : BOOLEAN]]
    /\ {sent, tried} \subseteq [Alerts -> [Channels -> Nat]]
    /\ overlaps \in [Alerts -> Nat]
    /\ spent \in [{"events", "requests"} -> Nat]

\* A channel gets an alert a second time only for a cause: another pass read the
\* array while one was at work on it, or a process died before it wrote it.
DuplicateHasCause ==
    \A a \in Alerts, c \in Channels : sent[a][c] <= 1 + overlaps[a]

\* The attempts on record are never more than the sends made, and are fewer only for
\* such a cause: what the limit of attempts counts is not lost otherwise.
AttemptsAccounted ==
    \A a \in Alerts, c \in Channels :
        LET recorded == deliveries[a][c].attempts IN
          /\ recorded <= tried[a][c]
          /\ ~Held(a) => tried[a][c] <= recorded + overlaps[a]

\* A failed delivery with attempts left is retried until it succeeds, is skipped or
\* has used them up, or the alert is over 48 hours old.
FailureIsRetried ==
    \A a \in Alerts, c \in Channels :
        (deliveries[a][c].status = "FAILED" /\ deliveries[a][c].attempts < MaxAttempts)
          ~> (\/ a \in stale \/ deliveries[a][c].status # "FAILED"
              \/ deliveries[a][c].attempts >= MaxAttempts)
==============================================================================
