--------------------------- MODULE Operations_proofs ---------------------------
(***************************************************************************)
(* Proofs about what runs beside the requests: the delivery of alerts,      *)
(* continuous monitoring and the retention, for any numbers of alerts,      *)
(* channels, instances, retries and crashes.                                *)
(*                                                                          *)
(* Deliveries.  Every pass that holds an alert carries a copy of its array  *)
(* and may be the last to write it, so what was sent is bounded by a count  *)
(* over the passes: a copy that does not say SENT is paid for by one        *)
(* overlap, all but the first.  The bound on the attempts is counted the    *)
(* same way, over the passes that may still try.                            *)
(***************************************************************************)
EXTENDS AlertDelivery, Monitoring, Retention, FiniteSetTheorems, TLAPS

\* The passes that hold an alert, those with news of it that are not saved, and of the
\* holders those whose copy does not say SENT and those that may still try.
Holders(a) == {p \in Passes : a \in pass[p].open}
Unsaved(a) == {p \in Passes : pass[p].at = a /\ pass[p].dirty}
Unsent(a, c) == {p \in Holders(a) : pass[p].items[a][c].status # "SENT"}
Untried(a, c) == {p \in Holders(a) : pass[p].at = a => c \in pass[p].left}

\* A pass that is at no alert has nothing to try and nothing to save.
RestInv == \A p \in Passes : pass[p].at = 0 => pass[p].left = {} /\ ~pass[p].dirty

\* A pass is at an alert it holds, tries only channels that do not have it, and a job
\* starts every alert from an empty array.
PassInv ==
    \A p \in Passes :
        LET k == pass[p] IN
          /\ k.open \subseteq 1..raised
          /\ k.at # 0 => k.at \in k.open
          /\ \A c \in k.left : k.items[k.at][c].status # "SENT"
          /\ p \in Jobs => \A a \in k.open \ {k.at} : k.items[a] = NotSaved

\* Nothing happened yet to an alert that was not raised.
FreshInv ==
    \A a \in Alerts : a > raised =>
        /\ deliveries[a] = NotSaved
        /\ \A c \in Channels : sent[a][c] = 0 /\ tried[a][c] = 0

\* The alert a and channel c: how often it was sent ...
SentCounted(a, c) ==
    /\ sent[a][c] + Cardinality(Unsent(a, c)) <= overlaps[a] + 1
    /\ Unsaved(a) = {} =>
         sent[a][c] <= overlaps[a] + IF deliveries[a][c].status = "SENT" THEN 1 ELSE 0

\* ... and how often it was tried, against the array and against every copy of it.
TriedCounted(a, c) ==
    LET recorded == deliveries[a][c].attempts IN
      /\ recorded <= tried[a][c]
      /\ tried[a][c] + Cardinality(Untried(a, c)) <= recorded + overlaps[a] + 1
      /\ Unsaved(a) = {} => tried[a][c] <= recorded + overlaps[a]
      /\ \A p \in Holders(a) :
           LET copy == pass[p].items[a][c].attempts IN
             /\ copy <= tried[a][c]
             /\ tried[a][c] + Cardinality(Untried(a, c) \ {p}) <= copy + overlaps[a]

DeliveriesCounted ==
    \A a \in Alerts, c \in Channels : SentCounted(a, c) /\ TriedCounted(a, c)

CountInv == PassInv /\ FreshInv /\ DeliveriesCounted
AlertInv == AlertTypeOK /\ RestInv /\ CountInv

------------------------------------------------------------------------------
(* Delivery of alerts: types.                                               *)

Pass == [open : SUBSET Alerts, items : [Alerts -> [Channels -> Items]],
         at : {0} \cup Alerts, left : SUBSET Channels, dirty : BOOLEAN]

\* The records at rest have the types.
LEMMA IdleIsPass == Idle \in Pass /\ NoItem \in Items /\ NotSaved \in [Channels -> Items]
BY DEF Idle, Pass, NotSaved, NoItem, Items

\* Writing one field of a pass gives a pass.
LEMMA FieldOfPass ==
    ASSUME NEW k \in Pass
    PROVE  /\ \A S \in SUBSET Alerts : [k EXCEPT !.open = S] \in Pass
           /\ \A f \in [Alerts -> [Channels -> Items]] : [k EXCEPT !.items = f] \in Pass
           /\ \A a \in {0} \cup Alerts : [k EXCEPT !.at = a] \in Pass
           /\ \A C \in SUBSET Channels : [k EXCEPT !.left = C] \in Pass
           /\ \A d \in BOOLEAN : [k EXCEPT !.dirty = d] \in Pass
<1>1. ASSUME NEW S \in SUBSET Alerts PROVE [k EXCEPT !.open = S] \in Pass
  BY SMT DEF Pass
<1>2. ASSUME NEW f \in [Alerts -> [Channels -> Items]] PROVE [k EXCEPT !.items = f] \in Pass
  BY SMT DEF Pass
<1>3. ASSUME NEW a \in {0} \cup Alerts PROVE [k EXCEPT !.at = a] \in Pass
  BY SMT DEF Pass
<1>4. ASSUME NEW C \in SUBSET Channels PROVE [k EXCEPT !.left = C] \in Pass
  BY SMT DEF Pass
<1>5. ASSUME NEW d \in BOOLEAN PROVE [k EXCEPT !.dirty = d] \in Pass
  BY SMT DEF Pass
<1> QED
  BY <1>1, <1>2, <1>3, <1>4, <1>5

\* What a send or a skip leaves in the copy is an item.
LEMMA ItemTypes ==
    ASSUME NEW p \in Passes, NEW old \in Items
    PROVE  /\ \A result \in {"SENT", "FAILED", "SKIPPED"} : ItemAfter(p, old, result) \in Items
           /\ [old EXCEPT !.status = "SKIPPED", !.next = "null"] \in Items
<1>1. ASSUME NEW result \in {"SENT", "FAILED", "SKIPPED"} PROVE ItemAfter(p, old, result) \in Items
  BY DEF ItemAfter, Items, NextRetry
<1>2. [old EXCEPT !.status = "SKIPPED", !.next = "null"] \in Items
  BY DEF Items
<1> QED
  BY <1>1, <1>2

\* The alerts are numbered from 1.
LEMMA AlertNumbers == Alerts \subseteq Nat \ {0} /\ \A n \in Alerts : 1..n \subseteq Alerts
<1>1. Cardinality(Alerts) \in Nat
  BY AlertAssumption, FS_CardinalityType
<1> QED
  BY <1>1, AlertAssumption

\* A step of pass p leaves the other passes alone.
OnlyPass(p) == pass' \in [Passes -> Pass] /\ \A q \in Passes \ {p} : pass'[q] = pass[q]

\* What one send or skip does: one item of the copy, and for a send the counters.
LEMMA TryEffect ==
    ASSUME AlertTypeOK, RestInv, NEW p \in Passes, NEW c \in Channels, Try(p, c)
    PROVE  LET a == pass[p].at
               old == pass[p].items[a][c]
           IN  /\ a \in Alerts /\ c \in pass[p].left
               /\ UNCHANGED <<deliveries, channel, raised, stale, overlaps, spent>>
               /\ OnlyPass(p)
               /\ pass'[p].at = a /\ pass'[p].dirty /\ pass'[p].open = pass[p].open
               /\ pass'[p].left = pass[p].left \ {c}
               /\ \A b \in Alerts, d \in Channels :
                    b # a \/ d # c => pass'[p].items[b][d] = pass[p].items[b][d]
               /\ \/ /\ pass'[p].items[a][c].status # "SENT"
                     /\ pass'[p].items[a][c].attempts = old.attempts
                     /\ UNCHANGED <<sent, tried>>
                  \/ /\ pass'[p].items[a][c].attempts = old.attempts + 1
                     /\ tried' = [tried EXCEPT ![a][c] = @ + 1]
                     /\ IF pass'[p].items[a][c].status = "SENT"
                          THEN sent' = [sent EXCEPT ![a][c] = @ + 1] ELSE sent' = sent
<1> DEFINE a == pass[p].at
           old == pass[p].items[a][c]
           With(item) == [[[pass[p] EXCEPT !.items = [pass[p].items EXCEPT ![a][c] = item]]
                             EXCEPT !.dirty = TRUE] EXCEPT !.left = pass[p].left \ {c}]
<1>0. pass \in [Passes -> Pass] /\ pass[p] \in Pass
  BY DEF AlertTypeOK, Pass
<1>1. c \in pass[p].left /\ a \in Alerts
  <2>1. c \in pass[p].left
    BY DEF Try
  <2> QED
    BY <1>0, <2>1 DEF RestInv, Pass
<1>2. old \in Items
  BY <1>0, <1>1 DEF Pass
<1>3. PICK item \in Items :
        /\ pass' = [pass EXCEPT ![p] = With(item)]
        /\ \/ /\ item.status # "SENT" /\ item.attempts = old.attempts
              /\ UNCHANGED <<sent, tried>>
           \/ /\ item.attempts = old.attempts + 1
              /\ tried' = [tried EXCEPT ![a][c] = @ + 1]
              /\ sent' = [sent EXCEPT ![a][c] = @ + IF item.status = "SENT" THEN 1 ELSE 0]
  <2>1. CASE pass' = [pass EXCEPT ![p] = With([[old EXCEPT !.status = "SKIPPED"] EXCEPT !.next = "null"])]
             /\ UNCHANGED <<sent, tried>>
    <3> DEFINE item == [[old EXCEPT !.status = "SKIPPED"] EXCEPT !.next = "null"]
    <3>1. item \in Items /\ item.status # "SENT" /\ item.attempts = old.attempts
      BY <1>2, ItemTypes DEF Items
    <3> QED
      BY <2>1, <3>1
  <2>2. ASSUME NEW result \in Outcomes(c),
               pass' = [pass EXCEPT ![p] = With(ItemAfter(p, old, result))],
               sent' = [sent EXCEPT ![a][c] = @ + IF result = "SENT" THEN 1 ELSE 0],
               tried' = [tried EXCEPT ![a][c] = @ + 1]
        PROVE  \E item \in Items :
                 /\ pass' = [pass EXCEPT ![p] = With(item)]
                 /\ item.attempts = old.attempts + 1
                 /\ tried' = [tried EXCEPT ![a][c] = @ + 1]
                 /\ sent' = [sent EXCEPT ![a][c] = @ + IF item.status = "SENT" THEN 1 ELSE 0]
    <3> DEFINE item == ItemAfter(p, old, result)
    <3>1. item \in Items
      BY <1>2, ItemTypes DEF Outcomes
    <3>2. item.attempts = old.attempts + 1 /\ (item.status = "SENT" <=> result = "SENT")
      BY DEF ItemAfter
    <3> HIDE DEF item
    <3>3. sent' = [sent EXCEPT ![a][c] = @ + IF item.status = "SENT" THEN 1 ELSE 0]
      BY <2>2, <3>2
    <3> QED
      BY <2>2, <3>1, <3>2, <3>3 DEF item
  <2>3. \/ /\ pass' = [pass EXCEPT ![p] = With([[old EXCEPT !.status = "SKIPPED"] EXCEPT !.next = "null"])]
           /\ UNCHANGED <<sent, tried>>
        \/ \E result \in Outcomes(c) :
             /\ pass' = [pass EXCEPT ![p] = With(ItemAfter(p, old, result))]
             /\ sent' = [sent EXCEPT ![a][c] = @ + IF result = "SENT" THEN 1 ELSE 0]
             /\ tried' = [tried EXCEPT ![a][c] = @ + 1]
    BY DEF Try
  <2> HIDE DEF With
  <2> QED
    BY <2>1, <2>2, <2>3
<1>4. [pass[p].items EXCEPT ![a][c] = item] \in [Alerts -> [Channels -> Items]]
  BY <1>0, <1>1 DEF Pass
<1>5. With(item) \in Pass
  <2>1. [pass[p] EXCEPT !.items = [pass[p].items EXCEPT ![a][c] = item]] \in Pass
    BY <1>0, <1>4, FieldOfPass
  <2>2. [[pass[p] EXCEPT !.items = [pass[p].items EXCEPT ![a][c] = item]] EXCEPT !.dirty = TRUE] \in Pass
    BY <2>1, FieldOfPass
  <2>3. pass[p].left \ {c} \in SUBSET Channels
    BY <1>0 DEF Pass
  <2> QED
    BY <2>2, <2>3, FieldOfPass
<1>6. /\ With(item).at = a /\ With(item).dirty /\ With(item).open = pass[p].open
      /\ With(item).left = pass[p].left \ {c}
      /\ With(item).items = [pass[p].items EXCEPT ![a][c] = item]
  BY <1>0 DEF Pass
<1>7. pass' \in [Passes -> Pass] /\ pass'[p] = With(item) /\ \A q \in Passes \ {p} : pass'[q] = pass[q]
  <2> HIDE DEF With
  <2> QED
    BY <1>0, <1>3, <1>5
<1>8. UNCHANGED <<deliveries, channel, raised, stale, overlaps, spent>>
  BY DEF Try
<1>9. pass'[p].items = [pass[p].items EXCEPT ![a][c] = item]
  BY <1>6, <1>7
<1>10. /\ pass'[p].items[a][c] = item
       /\ \A b \in Alerts, d \in Channels :
            b # a \/ d # c => pass'[p].items[b][d] = pass[p].items[b][d]
  BY <1>0, <1>1, <1>9 DEF Pass
<1>11. item.status # "SENT" /\ sent' = [sent EXCEPT ![a][c] = @ + IF item.status = "SENT" THEN 1 ELSE 0]
         => sent' = sent
  <2>1. sent \in [Alerts -> [Channels -> Nat]] /\ sent[a] \in [Channels -> Nat] /\ sent[a][c] \in Nat
    BY <1>1 DEF AlertTypeOK
  <2>2. sent[a][c] + 0 = sent[a][c]
    BY <2>1
  <2>3. [sent[a] EXCEPT ![c] = sent[a][c]] = sent[a]
    BY <2>1
  <2>4. [sent EXCEPT ![a] = sent[a]] = sent
    BY <2>1
  <2> QED
    BY <2>2, <2>3, <2>4
<1> HIDE DEF With
<1> QED
  BY <1>1, <1>3, <1>6, <1>7, <1>8, <1>10, <1>11 DEF OnlyPass

\* Writing the record of one pass.
LEMMA PassWritten ==
    ASSUME AlertTypeOK, NEW p \in Passes, NEW k \in Pass, pass' = [pass EXCEPT ![p] = k]
    PROVE  OnlyPass(p) /\ pass'[p] = k
BY DEF AlertTypeOK, Pass, OnlyPass

\* A pass goes on with an alert it holds.
LEMMA NextEffect ==
    ASSUME AlertTypeOK, NEW p \in Passes, DeliverNext(p) \/ AutoNext(p)
    PROVE  /\ OnlyPass(p)
           /\ UNCHANGED <<deliveries, channel, raised, stale, sent, tried, overlaps, spent>>
           /\ pass[p].at = 0 /\ pass'[p].at \in pass[p].open /\ pass'[p].at \in Alerts
           /\ pass'[p].open = pass[p].open /\ pass'[p].items = pass[p].items
           /\ pass'[p].dirty = pass[p].dirty
           /\ DeliverNext(p) => pass'[p].left \subseteq Channels
           /\ AutoNext(p) => pass'[p].left = Due(pass[p].items[pass'[p].at])
<1>0. pass \in [Passes -> Pass] /\ pass[p] \in Pass
  BY DEF AlertTypeOK, Pass
<1>1. PICK a \in pass[p].open, C \in SUBSET Channels :
        /\ pass' = [pass EXCEPT ![p] = [[pass[p] EXCEPT !.at = a] EXCEPT !.left = C]]
        /\ AutoNext(p) => C = Due(pass[p].items[a])
        /\ pass[p].at = 0
        /\ UNCHANGED <<deliveries, channel, raised, stale, sent, tried, overlaps, spent>>
  <2>1. CASE AutoNext(p)
    <3>1. PICK a \in pass[p].open :
            pass' = [pass EXCEPT ![p] = [[pass[p] EXCEPT !.at = a] EXCEPT !.left = Due(pass[p].items[a])]]
      BY <1>0, <2>1 DEF AutoNext
    <3>2. Due(pass[p].items[a]) \in SUBSET Channels
      BY DEF Due
    <3>3. /\ pass[p].at = 0
          /\ UNCHANGED <<deliveries, channel, raised, stale, sent, tried, overlaps, spent>>
      BY <2>1 DEF AutoNext, alertGhosts
    <3> QED
      BY <3>1, <3>2, <3>3
  <2>2. CASE DeliverNext(p) /\ ~AutoNext(p)
    <3>1. PICK a \in pass[p].open :
            pass' = [pass EXCEPT ![p] = [[pass[p] EXCEPT !.at = a] EXCEPT !.left = Eligible(a)]]
      BY <1>0, <2>2 DEF DeliverNext
    <3>2. Eligible(a) \in SUBSET Channels
      BY DEF Eligible
    <3>3. /\ pass[p].at = 0
          /\ UNCHANGED <<deliveries, channel, raised, stale, sent, tried, overlaps, spent>>
      BY <2>2 DEF DeliverNext, alertGhosts
    <3> QED
      BY <2>2, <3>1, <3>2, <3>3
  <2> QED
    BY <2>1, <2>2
<1>2. a \in Alerts
  BY <1>0 DEF Pass
<1> DEFINE k == [[pass[p] EXCEPT !.at = a] EXCEPT !.left = C]
<1>3. k \in Pass
  <2>1. [pass[p] EXCEPT !.at = a] \in Pass
    BY <1>0, <1>2, FieldOfPass
  <2> QED
    BY <2>1, FieldOfPass
<1>4. /\ k.at = a /\ k.left = C /\ k.open = pass[p].open /\ k.items = pass[p].items
      /\ k.dirty = pass[p].dirty
  BY <1>0 DEF Pass
<1>5. pass' = [pass EXCEPT ![p] = k]
  BY <1>1
<1> HIDE DEF k
<1> QED
  BY <1>1, <1>2, <1>3, <1>4, <1>5, PassWritten

\* A finished scan raises the alerts after the last one, for an idle job to deliver.
LEMMA RaiseEffect ==
    ASSUME AlertTypeOK, NEW j \in Jobs, NEW n \in Alerts, Raise(j, n)
    PROVE  /\ OnlyPass(j)
           /\ UNCHANGED <<deliveries, channel, stale, sent, tried, overlaps, spent>>
           /\ raised \in Nat /\ n \in Nat \ {0} /\ raised' = raised + n /\ 1..raised' \subseteq Alerts
           /\ pass[j] = Idle
           /\ pass'[j].open = (raised + 1)..(raised + n) /\ pass'[j].items = Idle.items
           /\ pass'[j].at = 0 /\ pass'[j].left = {} /\ ~pass'[j].dirty
<1> DEFINE k == [Idle EXCEPT !.open = (raised + 1)..(raised + n)]
<1>1. /\ pass[j] = Idle /\ pass' = [pass EXCEPT ![j] = k]
      /\ raised' = raised + n /\ raised + n \in Alerts
      /\ UNCHANGED <<deliveries, channel, stale, sent, tried, overlaps, spent>>
  BY DEF Raise, alertGhosts
<1>2. raised \in Nat /\ n \in Nat \ {0} /\ 1..(raised + n) \subseteq Alerts
  BY <1>1, AlertNumbers DEF AlertTypeOK
<1>3. (raised + 1)..(raised + n) \in SUBSET Alerts
  BY <1>2
<1>4. k \in Pass
  BY <1>3, IdleIsPass, FieldOfPass
<1>5. /\ k.open = (raised + 1)..(raised + n) /\ k.items = Idle.items
      /\ k.at = 0 /\ k.left = {} /\ ~k.dirty
  BY DEF Idle
<1> HIDE DEF k
<1> QED
  BY <1>1, <1>2, <1>4, <1>5, PassWritten DEF Passes

\* A retry reads: p carries the alerts of open with their arrays as they are on record.
Reads(p, open) ==
    /\ OnlyPass(p) /\ pass[p] = Idle /\ p \notin Jobs
    /\ UNCHANGED <<deliveries, channel, raised, stale, sent, tried>>
    /\ open \subseteq 1..raised
    /\ overlaps' = [a \in Alerts |-> overlaps[a] + IF a \in open /\ Held(a) THEN 1 ELSE 0]
    /\ pass'[p].open = open /\ ~pass'[p].dirty
    /\ \A a \in open : pass'[p].items[a] = deliveries[a]

\* The automatic retry reads the arrays of the alerts with something to send.
LEMMA AutoReadEffect ==
    ASSUME AlertTypeOK, NEW s \in Schedulers, AutoRead(s)
    PROVE  Reads(s, WithWork) /\ pass'[s].at = 0 /\ pass'[s].left = {} /\ UNCHANGED spent
<1> DEFINE k == [[Idle EXCEPT !.open = WithWork] EXCEPT !.items = deliveries]
<1>1. /\ pass[s] = Idle /\ pass' = [pass EXCEPT ![s] = k]
      /\ overlaps' = [a \in Alerts |-> overlaps[a] + IF a \in WithWork /\ Held(a) THEN 1 ELSE 0]
      /\ UNCHANGED <<deliveries, channel, raised, stale, sent, tried, spent>>
  BY DEF AutoRead
<1>2. WithWork \subseteq 1..raised /\ WithWork \in SUBSET Alerts
  BY DEF WithWork, Newest, Candidates, AlertTypeOK
<1>3. k \in Pass
  <2>1. [Idle EXCEPT !.open = WithWork] \in Pass
    BY <1>2, FieldOfPass, IdleIsPass
  <2> QED
    BY <2>1, FieldOfPass DEF AlertTypeOK
<1>4. k.open = WithWork /\ k.items = deliveries /\ k.at = 0 /\ k.left = {} /\ ~k.dirty
  BY DEF Idle
<1>5. s \in Passes /\ s \notin Jobs
  BY AlertAssumption DEF Passes
<1> HIDE DEF k
<1> QED
  BY <1>1, <1>2, <1>3, <1>4, <1>5, PassWritten DEF Reads

\* The manual retry reads the array of one alert.
LEMMA ManualReadEffect ==
    ASSUME AlertTypeOK, NEW r \in Requests, NEW a \in Alerts, NEW channels, ManualRead(r, a, channels)
    PROVE  /\ Reads(r, {a}) /\ pass'[r].at = a
           /\ pass'[r].left = Failed(deliveries[a]) \cap channels
           /\ spent' \in [{"events", "requests"} -> Nat]
<1> DEFINE k1 == [Idle EXCEPT !.open = {a}]
           k2 == [k1 EXCEPT !.at = a]
           k3 == [k2 EXCEPT !.items = [k2.items EXCEPT ![a] = deliveries[a]]]
           k == [k3 EXCEPT !.left = Failed(deliveries[a]) \cap channels]
<1>1. k2 \in Pass
  BY IdleIsPass, FieldOfPass
<1>2. [k2.items EXCEPT ![a] = deliveries[a]] \in [Alerts -> [Channels -> Items]]
  BY <1>1 DEF Pass, AlertTypeOK
<1>3. k \in Pass
  <2>1. k3 \in Pass
    BY <1>1, <1>2, FieldOfPass
  <2>2. Failed(deliveries[a]) \cap channels \in SUBSET Channels
    BY DEF Failed
  <2> QED
    BY <2>1, <2>2, FieldOfPass
<1>4. /\ k.open = {a} /\ k.items[a] = deliveries[a] /\ k.at = a /\ ~k.dirty
      /\ k.left = Failed(deliveries[a]) \cap channels
  BY DEF Idle
<1>5. /\ pass[r] = Idle /\ a <= raised /\ pass' = [pass EXCEPT ![r] = k]
      /\ overlaps' = [overlaps EXCEPT ![a] = @ + IF Held(a) THEN 1 ELSE 0]
      /\ UNCHANGED <<deliveries, channel, raised, stale, sent, tried>>
  BY DEF ManualRead, Idle
<1>6. overlaps' = [b \in Alerts |-> overlaps[b] + IF b \in {a} /\ Held(b) THEN 1 ELSE 0]
  <2>1. overlaps \in [Alerts -> Nat] /\ overlaps[a] \in Nat
    BY DEF AlertTypeOK
  <2>2. \A b \in Alerts : overlaps'[b] = overlaps[b] + IF b \in {a} /\ Held(b) THEN 1 ELSE 0
    BY <1>5, <2>1
  <2> QED
    BY <1>5, <2>1, <2>2
<1>7. spent' \in [{"events", "requests"} -> Nat]
  BY DEF ManualRead, Spend, AlertTypeOK
<1>8. r \in Passes /\ r \notin Jobs
  BY AlertAssumption DEF Passes
<1>9. {a} \subseteq 1..raised
  BY <1>5, AlertNumbers DEF AlertTypeOK
<1> HIDE DEF k
<1> QED
  BY ZenonT(40), <1>3, <1>4, <1>5, <1>6, <1>7, <1>8, <1>9, PassWritten DEF Reads

\* The array of the alert at hand is written, if the pass changed it, and let go.
LEMMA SaveEffect ==
    ASSUME AlertTypeOK, NEW p \in Passes, Save(p)
    PROVE  LET a == pass[p].at
           IN  /\ OnlyPass(p)
               /\ UNCHANGED <<channel, raised, stale, sent, tried, overlaps, spent>>
               /\ a \in Alerts /\ pass[p].left = {}
               /\ IF pass[p].dirty THEN deliveries' = [deliveries EXCEPT ![a] = pass[p].items[a]]
                                   ELSE deliveries' = deliveries
               /\ pass'[p].open = pass[p].open \ {a}
               /\ pass'[p].at = 0 /\ pass'[p].left = {} /\ ~pass'[p].dirty
               /\ \A b \in pass'[p].open : pass'[p].items[b] = pass[p].items[b]
<1> DEFINE a == pass[p].at
           k0 == [[[pass[p] EXCEPT !.open = pass[p].open \ {a}] EXCEPT !.at = 0] EXCEPT !.dirty = FALSE]
           k == IF pass[p].open = {a} THEN Idle ELSE k0
<1>0. pass \in [Passes -> Pass] /\ pass[p] \in Pass
  BY DEF AlertTypeOK, Pass
<1>1. k0 \in Pass
  <2>1. [pass[p] EXCEPT !.open = pass[p].open \ {a}] \in Pass
    <3>1. pass[p].open \ {a} \in SUBSET Alerts
      BY <1>0 DEF Pass
    <3> QED
      BY <1>0, <3>1, FieldOfPass
  <2>2. [[pass[p] EXCEPT !.open = pass[p].open \ {a}] EXCEPT !.at = 0] \in Pass
    BY <2>1, FieldOfPass
  <2> QED
    BY <2>2, FieldOfPass
<1>2. k \in Pass
  BY <1>1, IdleIsPass
<1>3. a \in Alerts /\ pass[p].left = {}
  BY <1>0 DEF Save, Pass
<1>4. /\ k0.open = pass[p].open \ {a} /\ k0.items = pass[p].items
      /\ k0.at = 0 /\ k0.left = pass[p].left /\ ~k0.dirty
  BY <1>0 DEF Pass
<1>5. /\ k.open = pass[p].open \ {a} /\ k.at = 0 /\ k.left = {} /\ ~k.dirty
      /\ \A b \in k.open : k.items[b] = pass[p].items[b]
  <2> HIDE DEF k0
  <2>1. CASE pass[p].open = {a}
    BY <2>1 DEF Idle
  <2>2. CASE pass[p].open # {a}
    BY <1>3, <1>4, <2>2
  <2> QED
    BY <2>1, <2>2
<1>6. /\ pass' = [pass EXCEPT ![p] = k]
      /\ UNCHANGED <<channel, raised, stale, sent, tried, overlaps, spent>>
      /\ IF pass[p].dirty THEN deliveries' = [deliveries EXCEPT ![a] = pass[p].items[a]]
                          ELSE deliveries' = deliveries
  BY DEF Save, alertGhosts
<1> HIDE DEF k, k0
<1> QED
  BY <1>2, <1>3, <1>5, <1>6, PassWritten

\* A process dies: some passes are idle again, and an alert counts those that had news.
LEMMA CrashEffect ==
    ASSUME AlertTypeOK, NEW i, Crash(i)
    PROVE  /\ pass' \in [Passes -> Pass]
           /\ UNCHANGED <<deliveries, channel, raised, stale, sent, tried>>
           /\ spent' \in [{"events", "requests"} -> Nat]
           /\ \E lost \in SUBSET Passes :
                /\ \A p \in Passes : pass'[p] = IF p \in lost THEN Idle ELSE pass[p]
                /\ overlaps' = [a \in Alerts |-> overlaps[a] + Cardinality(lost \cap Unsaved(a))]
<1> DEFINE lost == {p \in Passes : HostOf[p] = i /\ pass[p] # Idle}
<1>0. pass \in [Passes -> Pass]
  BY DEF AlertTypeOK, Pass
<1>1. /\ pass' = [p \in Passes |-> IF p \in lost THEN Idle ELSE pass[p]]
      /\ overlaps' = [a \in Alerts |-> overlaps[a] + Cardinality({p \in lost : pass[p].at = a /\ pass[p].dirty})]
      /\ UNCHANGED <<deliveries, channel, raised, stale, sent, tried>>
  BY DEF Crash
<1>2. \A a : {p \in lost : pass[p].at = a /\ pass[p].dirty} = lost \cap Unsaved(a)
  BY DEF Unsaved
<1>3. overlaps' = [a \in Alerts |-> overlaps[a] + Cardinality(lost \cap Unsaved(a))]
  BY <1>1, <1>2
<1>4. spent' \in [{"events", "requests"} -> Nat]
  BY DEF Crash, Spend, AlertTypeOK
<1>5. lost \in SUBSET Passes
  OBVIOUS
<1> HIDE DEF lost
<1>6. pass' \in [Passes -> Pass] /\ \A p \in Passes : pass'[p] = IF p \in lost THEN Idle ELSE pass[p]
  BY <1>0, <1>1, IdleIsPass
<1> QED
  BY <1>1, <1>3, <1>4, <1>5, <1>6

\* One more in a table of counters.
LEMMA CounterStep ==
    ASSUME NEW f \in [Alerts -> [Channels -> Nat]], NEW a \in Alerts, NEW c \in Channels
    PROVE  /\ [f EXCEPT ![a][c] = @ + 1] \in [Alerts -> [Channels -> Nat]]
           /\ [f EXCEPT ![a][c] = @ + 1][a][c] = f[a][c] + 1
           /\ \A b \in Alerts, d \in Channels :
                b # a \/ d # c => [f EXCEPT ![a][c] = @ + 1][b][d] = f[b][d]
<1>1. f[a] \in [Channels -> Nat] /\ f[a][c] \in Nat
  OBVIOUS
<1>2. [f[a] EXCEPT ![c] = f[a][c] + 1] \in [Channels -> Nat]
  BY <1>1
<1> QED
  BY <1>1, <1>2

\* Types are kept, and a pass at rest has nothing to do.
LEMMA AlertTypesStep ==
    ASSUME AlertTypeOK, RestInv, [AlertNext]_alertVars PROVE AlertTypeOK' /\ RestInv'
<1>0. pass \in [Passes -> Pass] /\ \A p \in Passes : pass[p] \in Pass
  BY DEF AlertTypeOK, Pass
<1> USE DEF alertGhosts, alertVars
<1>1. ASSUME NEW p \in Passes, DeliverNext(p) \/ AutoNext(p) PROVE AlertTypeOK' /\ RestInv'
  <2>1. /\ OnlyPass(p) /\ pass'[p].at # 0
        /\ UNCHANGED <<deliveries, channel, raised, stale, sent, tried, overlaps, spent>>
    BY <1>1, NextEffect, AlertNumbers
  <2>2. RestInv'
    BY <2>1 DEF OnlyPass, RestInv
  <2> QED
    BY <2>1, <2>2 DEF OnlyPass, AlertTypeOK, Pass
<1>2. ASSUME NEW j \in Jobs, NEW n \in Alerts, Raise(j, n) PROVE AlertTypeOK' /\ RestInv'
  <2>1. /\ OnlyPass(j) /\ pass'[j].left = {} /\ ~pass'[j].dirty
        /\ UNCHANGED <<deliveries, channel, stale, sent, tried, overlaps, spent>>
        /\ raised \in Nat /\ n \in Nat /\ raised' = raised + n /\ 1..raised' \subseteq Alerts
    BY <1>2, RaiseEffect
  <2>2. RestInv'
    BY <2>1 DEF OnlyPass, RestInv
  <2>3. raised' \in Nat /\ stale' \subseteq 1..raised'
    BY <2>1 DEF AlertTypeOK
  <2> QED
    BY <2>1, <2>2, <2>3 DEF OnlyPass, AlertTypeOK, Pass
<1>3. ASSUME NEW p \in Passes, NEW open, Reads(p, open), spent' \in [{"events", "requests"} -> Nat],
             pass'[p].at = 0 => pass'[p].left = {}
      PROVE  AlertTypeOK' /\ RestInv'
  <2>1. overlaps' \in [Alerts -> Nat]
    BY <1>3 DEF Reads, AlertTypeOK
  <2>2. RestInv'
    BY <1>3 DEF Reads, OnlyPass, RestInv
  <2> QED
    BY <1>3, <2>1, <2>2 DEF Reads, OnlyPass, AlertTypeOK, Pass
<1>4. ASSUME NEW s \in Schedulers, AutoRead(s) PROVE AlertTypeOK' /\ RestInv'
  BY <1>3, <1>4, AutoReadEffect DEF Passes, AlertTypeOK
<1>5. ASSUME NEW r \in Requests, NEW a \in Alerts, NEW channels, ManualRead(r, a, channels)
      PROVE  AlertTypeOK' /\ RestInv'
  <2>1. /\ Reads(r, {a}) /\ pass'[r].at = a /\ a # 0 /\ r \in Passes
        /\ spent' \in [{"events", "requests"} -> Nat]
    BY <1>5, ManualReadEffect, AlertNumbers DEF Passes
  <2> QED
    BY <1>3, <2>1
<1>6. ASSUME NEW p \in Passes, NEW c \in Channels, Try(p, c) PROVE AlertTypeOK' /\ RestInv'
  <2> DEFINE b == pass[p].at
             old == pass[p].items[b][c]
             new == pass'[p].items[b][c]
  <2>0. /\ OnlyPass(p) /\ pass'[p].at \in Alerts /\ b \in Alerts
        /\ UNCHANGED <<deliveries, channel, raised, stale, overlaps, spent>>
        /\ \/ UNCHANGED <<sent, tried>>
           \/ /\ tried' = [tried EXCEPT ![b][c] = @ + 1]
              /\ sent' = [sent EXCEPT ![b][c] = @ + 1] \/ sent' = sent
    BY <1>6, TryEffect DEF OnlyPass
  <2>1. /\ OnlyPass(p) /\ pass'[p].at \in Alerts
        /\ UNCHANGED <<deliveries, channel, raised, stale, overlaps, spent>>
        /\ sent' \in [Alerts -> [Channels -> Nat]] /\ tried' \in [Alerts -> [Channels -> Nat]]
    <3> HIDE DEF b
    <3>1. sent \in [Alerts -> [Channels -> Nat]] /\ tried \in [Alerts -> [Channels -> Nat]]
      BY DEF AlertTypeOK
    <3>2. b \in Alerts
      BY <2>0
    <3>3. [sent EXCEPT ![b][c] = @ + 1] \in [Alerts -> [Channels -> Nat]]
      BY <3>1, <3>2, CounterStep
    <3>4. [tried EXCEPT ![b][c] = @ + 1] \in [Alerts -> [Channels -> Nat]]
      BY <3>1, <3>2, CounterStep
    <3> QED
      BY <2>0, <3>1, <3>3, <3>4
  <2>2. RestInv'
    BY <2>1, AlertNumbers DEF OnlyPass, RestInv
  <2> QED
    BY <2>1, <2>2 DEF OnlyPass, AlertTypeOK, Pass
<1>7. ASSUME NEW p \in Passes, Save(p) PROVE AlertTypeOK' /\ RestInv'
  <2>1. /\ OnlyPass(p) /\ pass'[p].left = {} /\ ~pass'[p].dirty
        /\ UNCHANGED <<channel, raised, stale, sent, tried, overlaps, spent>>
    BY <1>7, SaveEffect
  <2>2. deliveries' \in [Alerts -> [Channels -> Items]]
    <3>1. /\ pass[p].at \in Alerts
          /\ IF pass[p].dirty THEN deliveries' = [deliveries EXCEPT ![pass[p].at] = pass[p].items[pass[p].at]]
                              ELSE deliveries' = deliveries
      BY <1>7, SaveEffect
    <3>2. pass[p].items[pass[p].at] \in [Channels -> Items]
      BY <1>0, <3>1 DEF Pass
    <3> QED
      BY <3>1, <3>2 DEF AlertTypeOK
  <2>3. RestInv'
    BY <2>1 DEF OnlyPass, RestInv
  <2> QED
    BY <2>1, <2>2, <2>3 DEF OnlyPass, AlertTypeOK, Pass
<1>8. ASSUME NEW c \in Channels, SwitchChannel(c) \/ DeleteChannel(c) PROVE AlertTypeOK' /\ RestInv'
  <2> DEFINE Settings == [live : BOOLEAN, on : BOOLEAN, threshold : 0..4]
  <2>1. channel \in [Channels -> Settings] /\ channel[c] \in Settings
    BY DEF AlertTypeOK
  <2>2. /\ [channel[c] EXCEPT !.on = ~@] \in Settings
        /\ [[channel[c] EXCEPT !.live = FALSE] EXCEPT !.on = FALSE] \in Settings
    BY <2>1
  <2>3. channel' \in [Channels -> Settings] /\ UNCHANGED <<deliveries, raised, stale, pass, alertGhosts>>
    <3> HIDE DEF Settings
    <3> QED
      BY <1>8, <2>1, <2>2 DEF SwitchChannel, DeleteChannel
  <2>4. spent' \in [{"events", "requests"} -> Nat]
    BY <1>8 DEF SwitchChannel, DeleteChannel, Spend, AlertTypeOK
  <2> QED
    BY <2>3, <2>4 DEF AlertTypeOK, RestInv
<1>9. ASSUME NEW c \in Channels, NEW t \in 0..1, MoveThreshold(c, t) PROVE AlertTypeOK' /\ RestInv'
  <2> DEFINE Settings == [live : BOOLEAN, on : BOOLEAN, threshold : 0..4]
  <2>1. channel \in [Channels -> Settings] /\ channel[c] \in Settings
    BY DEF AlertTypeOK
  <2>2. [channel[c] EXCEPT !.threshold = t] \in Settings
    BY <2>1
  <2>3. channel' \in [Channels -> Settings] /\ UNCHANGED <<deliveries, raised, stale, pass, alertGhosts>>
    <3> HIDE DEF Settings
    <3> QED
      BY <1>9, <2>1, <2>2 DEF MoveThreshold
  <2>4. spent' \in [{"events", "requests"} -> Nat]
    BY <1>9 DEF MoveThreshold, Spend, AlertTypeOK
  <2> QED
    BY <2>3, <2>4 DEF AlertTypeOK, RestInv
<1>10. ASSUME NEW a \in Alerts, GrowOld(a) PROVE AlertTypeOK' /\ RestInv'
  BY <1>10, AlertNumbers DEF GrowOld, AlertTypeOK, RestInv
<1>11. ASSUME NEW a \in Alerts, NEW c \in Channels, Elapse(a, c) PROVE AlertTypeOK' /\ RestInv'
  <2>1. deliveries[a][c] \in Items /\ deliveries[a] \in [Channels -> Items]
    BY DEF AlertTypeOK
  <2>2. [deliveries[a][c] EXCEPT !.next = "due"] \in Items
    BY <2>1 DEF Items
  <2>3. deliveries' \in [Alerts -> [Channels -> Items]]
    BY <1>11, <2>2 DEF Elapse, AlertTypeOK
  <2> QED
    BY <1>11, <2>3 DEF Elapse, AlertTypeOK, RestInv
<1>12. ASSUME NEW i, Crash(i) PROVE AlertTypeOK' /\ RestInv'
  <2>1. PICK lost \in SUBSET Passes :
          /\ \A p \in Passes : pass'[p] = IF p \in lost THEN Idle ELSE pass[p]
          /\ overlaps' = [a \in Alerts |-> overlaps[a] + Cardinality(lost \cap Unsaved(a))]
    BY <1>12, CrashEffect
  <2>2. \A a \in Alerts : Cardinality(lost \cap Unsaved(a)) \in Nat
    BY AlertAssumption, FS_Subset, FS_CardinalityType DEF Passes
  <2>3. overlaps' \in [Alerts -> Nat]
    <3>1. \A a \in Alerts : overlaps[a] + Cardinality(lost \cap Unsaved(a)) \in Nat
      <4>1. \A a \in Alerts : overlaps[a] \in Nat
        BY DEF AlertTypeOK
      <4> QED
        BY <2>2, <4>1
    <3> QED
      BY <2>1, <3>1
  <2>4. RestInv'
    BY <2>1 DEF RestInv, Idle
  <2> QED
    BY <1>12, <2>3, <2>4, CrashEffect DEF AlertTypeOK, Pass
<1>13. CASE UNCHANGED alertVars
  BY <1>13 DEF AlertTypeOK, RestInv
<1>14. CASE \E r \in Requests, a \in Alerts, channels \in {Channels} \cup {{c} : c \in Channels} :
             ManualRead(r, a, channels)
  BY <1>5, <1>14
<1> QED
  BY <1>1, <1>2, <1>4, <1>6, <1>7, <1>8, <1>9, <1>10, <1>11, <1>12, <1>13, <1>14
  DEF AlertNext, Step, Passes

\* The arrays, the passes and the counters keep their types, and a pass at rest holds nothing:
\* what the other results on AlertsService.deliver rest on.
THEOREM AlertTypes == AlertSpec => [](AlertTypeOK /\ RestInv)
<1>1. AlertInit => AlertTypeOK /\ RestInv
  <2> SUFFICES ASSUME AlertInit PROVE AlertTypeOK /\ RestInv
    OBVIOUS
  <2>1. pass \in [Passes -> Pass] /\ deliveries \in [Alerts -> [Channels -> Items]]
    BY IdleIsPass DEF AlertInit
  <2>2. /\ sent \in [Alerts -> [Channels -> Nat]] /\ tried \in [Alerts -> [Channels -> Nat]]
        /\ overlaps \in [Alerts -> Nat] /\ spent \in [{"events", "requests"} -> Nat]
    BY DEF AlertInit
  <2>3. channel \in [Channels -> [live : BOOLEAN, on : BOOLEAN, threshold : 0..4]]
    BY DEF AlertInit
  <2>4. raised \in Nat /\ 1..raised \subseteq Alerts /\ stale \subseteq 1..raised
    BY DEF AlertInit
  <2>5. RestInv
    BY DEF AlertInit, RestInv, Idle
  <2> QED
    BY <2>1, <2>2, <2>3, <2>4, <2>5 DEF AlertTypeOK, Pass
<1> QED
  BY <1>1, AlertTypesStep, PTL DEF AlertSpec

------------------------------------------------------------------------------
(* Delivery of alerts: the count over the passes.                           *)

\* A set of passes that gains or loses one, and one that is part of another.
LEMMA CountStep ==
    ASSUME NEW S \in SUBSET Passes, NEW T \in SUBSET Passes, NEW p, S \ {p} = T \ {p}
    PROVE  /\ p \notin S /\ p \in T => Cardinality(T) = Cardinality(S) + 1
           /\ p \in S /\ p \notin T => Cardinality(S) = Cardinality(T) + 1
           /\ (p \in S <=> p \in T) => S = T
<1>1. IsFiniteSet(S) /\ IsFiniteSet(T)
  BY AlertAssumption, FS_Subset DEF Passes
<1>2. ASSUME p \notin S, p \in T PROVE Cardinality(T) = Cardinality(S) + 1
  <2>1. T = S \cup {p}
    BY <1>2
  <2> QED
    BY <1>1, <1>2, <2>1, FS_AddElement
<1>3. ASSUME p \in S, p \notin T PROVE Cardinality(S) = Cardinality(T) + 1
  <2>1. S = T \cup {p}
    BY <1>3
  <2> QED
    BY <1>1, <1>3, <2>1, FS_AddElement
<1> QED
  BY <1>2, <1>3

\* The passes in a part of the passes are counted by a smaller number.
LEMMA CountPart ==
    ASSUME NEW T \in SUBSET Passes, NEW S \in SUBSET T
    PROVE  /\ Cardinality(S) \in Nat /\ Cardinality(T) \in Nat
           /\ Cardinality(S) <= Cardinality(T)
           /\ S # {} => Cardinality(S) >= 1
<1>1. IsFiniteSet(T) /\ IsFiniteSet(S)
  BY AlertAssumption, FS_Subset DEF Passes
<1>2. Cardinality(S) \in Nat /\ Cardinality(T) \in Nat /\ Cardinality(S) <= Cardinality(T)
  BY <1>1, FS_Subset, FS_CardinalityType
<1>3. S # {} => Cardinality(S) # 0
  BY <1>1, FS_EmptySet
<1> QED
  BY <1>2, <1>3

\* The numbers the counts are made of.
LEMMA CountTypes ==
    ASSUME AlertTypeOK, NEW a \in Alerts, NEW c \in Channels
    PROVE  /\ sent[a][c] \in Nat /\ tried[a][c] \in Nat /\ overlaps[a] \in Nat
           /\ deliveries[a][c].attempts \in Nat
           /\ \A p \in Passes : pass[p].items[a][c].attempts \in Nat
           /\ Holders(a) \subseteq Passes /\ Unsaved(a) \subseteq Passes
           /\ Unsent(a, c) \subseteq Passes /\ Untried(a, c) \subseteq Passes
<1>1. sent[a][c] \in Nat /\ tried[a][c] \in Nat /\ overlaps[a] \in Nat
  BY DEF AlertTypeOK
<1>2. deliveries[a][c].attempts \in Nat
  <2>1. deliveries[a][c] \in Items
    BY DEF AlertTypeOK
  <2> QED
    BY <2>1 DEF Items
<1>3. ASSUME NEW p \in Passes PROVE pass[p].items[a][c].attempts \in Nat
  <2>1. pass[p] \in Pass
    BY DEF AlertTypeOK, Pass
  <2>2. pass[p].items[a][c] \in Items
    BY <2>1 DEF Pass
  <2> QED
    BY <2>2 DEF Items
<1> QED
  BY <1>1, <1>2, <1>3 DEF Holders, Unsaved, Unsent, Untried

\* A step that raises no number and adds no pass to a set keeps the counts.
LEMMA NothingNew ==
    ASSUME AlertTypeOK, NEW a \in Alerts, NEW c \in Channels,
           SentCounted(a, c), TriedCounted(a, c),
           sent'[a][c] = sent[a][c], tried'[a][c] = tried[a][c], overlaps'[a] = overlaps[a],
           deliveries'[a][c].status = deliveries[a][c].status,
           deliveries'[a][c].attempts = deliveries[a][c].attempts,
           Holders(a)' \subseteq Holders(a), Unsaved(a) \subseteq Unsaved(a)',
           Unsent(a, c)' \subseteq Unsent(a, c), Untried(a, c)' \subseteq Untried(a, c),
           \A p \in Holders(a)' : pass'[p].items[a][c].attempts = pass[p].items[a][c].attempts
    PROVE  SentCounted(a, c)' /\ TriedCounted(a, c)'
<1>0. /\ sent[a][c] \in Nat /\ tried[a][c] \in Nat /\ overlaps[a] \in Nat
      /\ deliveries[a][c].attempts \in Nat
      /\ \A p \in Passes : pass[p].items[a][c].attempts \in Nat
      /\ Holders(a) \subseteq Passes
      /\ Unsent(a, c) \subseteq Passes /\ Untried(a, c) \subseteq Passes
  BY CountTypes
<1>1. /\ Cardinality(Unsent(a, c)') \in Nat /\ Cardinality(Unsent(a, c)) \in Nat
      /\ Cardinality(Unsent(a, c)') <= Cardinality(Unsent(a, c))
  BY <1>0, CountPart
<1>2. /\ Cardinality(Untried(a, c)') \in Nat /\ Cardinality(Untried(a, c)) \in Nat
      /\ Cardinality(Untried(a, c)') <= Cardinality(Untried(a, c))
  BY <1>0, CountPart
<1>3. ASSUME NEW p
      PROVE  /\ Cardinality(Untried(a, c)' \ {p}) \in Nat /\ Cardinality(Untried(a, c) \ {p}) \in Nat
             /\ Cardinality(Untried(a, c)' \ {p}) <= Cardinality(Untried(a, c) \ {p})
  <2>1. Untried(a, c) \ {p} \in SUBSET Passes /\ Untried(a, c)' \ {p} \in SUBSET (Untried(a, c) \ {p})
    BY <1>0
  <2> QED
    BY <2>1, CountPart
<1>4. SentCounted(a, c)'
  BY <1>0, <1>1 DEF SentCounted
<1>5. TriedCounted(a, c)'
  <2>1. /\ deliveries'[a][c].attempts <= tried'[a][c]
        /\ tried'[a][c] + Cardinality(Untried(a, c)') <= deliveries'[a][c].attempts + overlaps'[a] + 1
        /\ Unsaved(a)' = {} => tried'[a][c] <= deliveries'[a][c].attempts + overlaps'[a]
    BY <1>0, <1>2 DEF TriedCounted
  <2>2. ASSUME NEW p \in Holders(a)'
        PROVE  /\ pass'[p].items[a][c].attempts <= tried'[a][c]
               /\ tried'[a][c] + Cardinality(Untried(a, c)' \ {p})
                    <= pass'[p].items[a][c].attempts + overlaps'[a]
    <3>1. /\ pass[p].items[a][c].attempts <= tried[a][c]
          /\ tried[a][c] + Cardinality(Untried(a, c) \ {p})
               <= pass[p].items[a][c].attempts + overlaps[a]
      BY DEF TriedCounted
    <3>2. pass[p].items[a][c].attempts \in Nat
      BY <1>0
    <3>3. /\ Cardinality(Untried(a, c)' \ {p}) \in Nat /\ Cardinality(Untried(a, c) \ {p}) \in Nat
          /\ Cardinality(Untried(a, c)' \ {p}) <= Cardinality(Untried(a, c) \ {p})
      BY <1>3
    <3>4. pass'[p].items[a][c].attempts = pass[p].items[a][c].attempts
      OBVIOUS
    <3> QED
      BY <1>0, <3>1, <3>2, <3>3, <3>4
  <2> QED
    BY <2>1, <2>2 DEF TriedCounted
<1> QED
  BY <1>4, <1>5

\* What PassInv says of one pass.
LEMMA PassFacts ==
    ASSUME AlertInv, NEW p \in Passes
    PROVE  /\ pass[p].open \subseteq 1..raised
           /\ pass[p].at # 0 => pass[p].at \in pass[p].open
           /\ \A c \in pass[p].left : pass[p].items[pass[p].at][c].status # "SENT"
           /\ p \in Jobs => \A a \in pass[p].open \ {pass[p].at} : pass[p].items[a] = NotSaved
           /\ pass[p].at = 0 => pass[p].left = {} /\ ~pass[p].dirty
BY DEF AlertInv, CountInv, PassInv, RestInv

\* PassInv follows for all when it holds of the pass that moved.
LEMMA PassInvStep ==
    ASSUME AlertInv, NEW p \in Passes, OnlyPass(p), raised' \in Nat, raised \in Nat, raised <= raised',
           pass'[p].open \subseteq 1..raised',
           pass'[p].at # 0 => pass'[p].at \in pass'[p].open,
           \A c \in pass'[p].left : pass'[p].items[pass'[p].at][c].status # "SENT",
           p \in Jobs => \A a \in pass'[p].open \ {pass'[p].at} : pass'[p].items[a] = NotSaved
    PROVE  PassInv'
<1>1. 1..raised \subseteq 1..raised'
  OBVIOUS
<1>2. ASSUME NEW q \in Passes \ {p}
      PROVE  /\ pass'[q].open \subseteq 1..raised'
             /\ pass'[q].at # 0 => pass'[q].at \in pass'[q].open
             /\ \A c \in pass'[q].left : pass'[q].items[pass'[q].at][c].status # "SENT"
             /\ q \in Jobs => \A a \in pass'[q].open \ {pass'[q].at} : pass'[q].items[a] = NotSaved
  <2>1. pass'[q] = pass[q]
    BY DEF OnlyPass
  <2> QED
    BY <1>1, <2>1, PassFacts
<1> QED
  BY <1>2 DEF PassInv

\* The step of a pass to the next alert keeps the attempts counted.
LEMMA NextKeeps ==
    ASSUME AlertInv, NEW p \in Passes, p \in Jobs => DeliverNext(p), p \notin Jobs => AutoNext(p)
    PROVE  CountInv'
<1>0. AlertTypeOK /\ FreshInv /\ DeliveriesCounted /\ raised \in Nat
  BY DEF AlertInv, CountInv, AlertTypeOK
<1>1. /\ OnlyPass(p)
      /\ UNCHANGED <<deliveries, channel, raised, stale, sent, tried, overlaps, spent>>
      /\ pass[p].at = 0 /\ pass'[p].at \in pass[p].open /\ pass'[p].at \in Alerts /\ pass'[p].at # 0
      /\ pass'[p].open = pass[p].open /\ pass'[p].items = pass[p].items
      /\ pass'[p].dirty = pass[p].dirty
  BY <1>0, NextEffect, AlertNumbers
<1>2. /\ pass[p].open \subseteq 1..raised
      /\ p \in Jobs => \A a \in pass[p].open : pass[p].items[a] = NotSaved
      /\ ~pass[p].dirty
  <2>1. 0 \notin pass[p].open
    BY <1>0, PassFacts
  <2> QED
    BY <1>1, <2>1, PassFacts
<1>3. PassInv'
  <2>1. \A c \in pass'[p].left : pass'[p].items[pass'[p].at][c].status # "SENT"
    <3>1. CASE p \in Jobs
      <4>1. pass'[p].items[pass'[p].at] = NotSaved /\ pass'[p].left \subseteq Channels
        BY <1>0, <1>1, <1>2, <3>1, NextEffect
      <4> QED
        BY <4>1 DEF NotSaved, NoItem
    <3>2. CASE p \notin Jobs
      <4>1. pass'[p].left = Due(pass'[p].items[pass'[p].at])
        BY <1>0, <1>1, <3>2, NextEffect
      <4> QED
        BY <4>1 DEF Due
    <3> QED
      BY <3>1, <3>2
  <2> QED
    BY <1>0, <1>1, <1>2, <2>1, PassInvStep
<1>4. FreshInv'
  BY <1>0, <1>1 DEF FreshInv
<1>5. ASSUME NEW a \in Alerts, NEW c \in Channels PROVE SentCounted(a, c)' /\ TriedCounted(a, c)'
  <2>1. SentCounted(a, c) /\ TriedCounted(a, c)
    BY <1>0 DEF DeliveriesCounted
  <2>2. /\ Holders(a)' \subseteq Holders(a) /\ Unsaved(a) \subseteq Unsaved(a)'
        /\ Unsent(a, c)' \subseteq Unsent(a, c) /\ Untried(a, c)' \subseteq Untried(a, c)
        /\ \A q \in Holders(a)' : pass'[q].items[a][c].attempts = pass[q].items[a][c].attempts
    <3>1. \A q \in Passes : pass'[q].open = pass[q].open /\ pass'[q].items = pass[q].items
      BY <1>1 DEF OnlyPass
    <3>2. Holders(a)' = Holders(a) /\ Unsent(a, c)' = Unsent(a, c)
      BY <3>1 DEF Holders, Unsent
    <3>3. Unsaved(a) \subseteq Unsaved(a)'
      BY <1>1, <1>2 DEF OnlyPass, Unsaved
    <3>4. Untried(a, c)' \subseteq Untried(a, c)
      <4> SUFFICES ASSUME NEW q \in Untried(a, c)' PROVE q \in Untried(a, c)
        OBVIOUS
      <4>1. q \in Holders(a) /\ (pass'[q].at = a => c \in pass'[q].left)
        BY <3>2 DEF Untried
      <4>2. pass[q].at = a => c \in pass[q].left
        BY <1>1, <4>1, AlertNumbers DEF OnlyPass, Holders
      <4> QED
        BY <4>1, <4>2 DEF Untried
    <3> QED
      BY <3>1, <3>2, <3>3, <3>4 DEF Holders
  <2> QED
    BY <1>0, <1>1, <2>1, <2>2, NothingNew
<1> QED
  BY <1>3, <1>4, <1>5 DEF CountInv, DeliveriesCounted

\* The alerts raised after a scan enter with nothing sent.
LEMMA RaiseKeeps ==
    ASSUME AlertInv, NEW j \in Jobs, NEW n \in Alerts, Raise(j, n) PROVE CountInv'
<1>0. AlertTypeOK /\ FreshInv /\ DeliveriesCounted /\ j \in Passes
  BY DEF AlertInv, CountInv, Passes
<1>1. /\ OnlyPass(j)
      /\ UNCHANGED <<deliveries, channel, stale, sent, tried, overlaps, spent>>
      /\ raised \in Nat /\ n \in Nat \ {0} /\ raised' = raised + n /\ 1..raised' \subseteq Alerts
      /\ pass[j] = Idle
      /\ pass'[j].open = (raised + 1)..(raised + n) /\ pass'[j].items = Idle.items
      /\ pass'[j].at = 0 /\ pass'[j].left = {} /\ ~pass'[j].dirty
  BY <1>0, RaiseEffect
<1>2. Idle.open = {} /\ Idle.at = 0 /\ ~Idle.dirty /\ \A a \in Alerts : Idle.items[a] = NotSaved
  BY DEF Idle
<1>3. PassInv'
  <2>1. (raised + 1)..(raised + n) \subseteq 1..raised' /\ raised <= raised' /\ raised' \in Nat
    BY <1>1
  <2>2. \A a \in pass'[j].open : pass'[j].items[a] = NotSaved
    BY <1>1, <1>2, <2>1
  <2> QED
    BY <1>0, <1>1, <2>1, <2>2, PassInvStep
<1>4. FreshInv'
  <2>1. \A a \in Alerts : a > raised' => a > raised
    BY <1>1, AlertNumbers
  <2> QED
    BY <1>0, <1>1, <2>1 DEF FreshInv
<1>5. ASSUME NEW a \in Alerts, NEW c \in Channels PROVE SentCounted(a, c)' /\ TriedCounted(a, c)'
  <2>1. SentCounted(a, c) /\ TriedCounted(a, c)
    BY <1>0 DEF DeliveriesCounted
  <2>2. CASE a \notin (raised + 1)..(raised + n)
    <3>1. Holders(a)' = Holders(a) /\ j \notin Holders(a)'
      BY <1>1, <1>2, <2>2 DEF OnlyPass, Holders
    <3>2. \A q \in Holders(a)' : pass'[q] = pass[q]
      BY <1>1, <3>1 DEF OnlyPass, Holders
    <3>3. Unsent(a, c)' \subseteq Unsent(a, c) /\ Untried(a, c)' \subseteq Untried(a, c)
      BY <3>1, <3>2 DEF Unsent, Untried
    <3>4. Unsaved(a) \subseteq Unsaved(a)'
      BY <1>1, <1>2 DEF OnlyPass, Unsaved
    <3> QED
      BY <1>0, <1>1, <2>1, <3>1, <3>2, <3>3, <3>4, NothingNew
  <2>3. CASE a \in (raised + 1)..(raised + n)
    <3>1. a > raised
      BY <1>1, <2>3
    <3>2. deliveries[a][c] = NoItem /\ sent[a][c] = 0 /\ tried[a][c] = 0
      BY <1>0, <3>1 DEF FreshInv, NotSaved
    <3>3. Holders(a) = {}
      <4>1. a \notin 1..raised
        BY <1>1, <3>1
      <4> QED
        BY <4>1, PassFacts DEF Holders
    <3>4. Holders(a)' = {j}
      BY <1>0, <1>1, <2>3, <3>3 DEF OnlyPass, Holders
    <3>5. pass'[j].items[a][c] = NoItem
      BY <1>1, <1>2 DEF NotSaved
    <3>6. Unsent(a, c)' = {j} /\ Untried(a, c)' = {j}
      <4>1. a # 0
        BY AlertNumbers
      <4> QED
        BY <1>1, <3>4, <3>5, <4>1 DEF Unsent, Untried, NoItem
    <3>7. Cardinality({j}) = 1 /\ Cardinality({}) = 0 /\ {j} \ {j} = {} /\ overlaps[a] \in Nat
      BY <1>0, CountTypes, FS_Singleton, FS_EmptySet
    <3>8. NoItem.attempts = 0
      BY DEF NoItem
    <3>9. SentCounted(a, c)'
      BY <1>1, <3>2, <3>6, <3>7 DEF SentCounted
    <3>10. TriedCounted(a, c)'
      <4>1. /\ deliveries'[a][c].attempts = 0 /\ tried'[a][c] = 0 /\ overlaps'[a] = overlaps[a]
            /\ pass'[j].items[a][c].attempts = 0
        BY <1>1, <3>2, <3>5, <3>8
      <4>2. Cardinality(Untried(a, c)') = 1 /\ Cardinality(Untried(a, c)' \ {j}) = 0
        BY <3>6, <3>7
      <4>3. \A q \in Holders(a)' : q = j
        BY <3>4
      <4>4. ASSUME NEW q \in Holders(a)'
            PROVE  /\ pass'[q].items[a][c].attempts <= tried'[a][c]
                   /\ tried'[a][c] + Cardinality(Untried(a, c)' \ {q})
                        <= pass'[q].items[a][c].attempts + overlaps'[a]
        <5>1. q = j
          BY <4>3
        <5> QED
          BY <3>7, <4>1, <4>2, <5>1
      <4>5. /\ deliveries'[a][c].attempts <= tried'[a][c]
            /\ tried'[a][c] + Cardinality(Untried(a, c)') <= deliveries'[a][c].attempts + overlaps'[a] + 1
            /\ tried'[a][c] <= deliveries'[a][c].attempts + overlaps'[a]
        BY <3>7, <4>1, <4>2
      <4> QED
        BY <4>4, <4>5 DEF TriedCounted
    <3> QED
      BY <3>9, <3>10
  <2> QED
    BY <2>2, <2>3
<1> QED
  BY <1>3, <1>4, <1>5 DEF CountInv, DeliveriesCounted

\* A retry that reads an array another pass works on is counted; one that reads it alone
\* starts from what was sent.
LEMMA ReadKeeps ==
    ASSUME AlertInv, NEW p \in Passes, NEW open, Reads(p, open),
           pass'[p].at # 0 => pass'[p].at \in open,
           \A c \in pass'[p].left : pass'[p].items[pass'[p].at][c].status # "SENT"
    PROVE  CountInv'
<1>0. AlertTypeOK /\ FreshInv /\ DeliveriesCounted /\ raised \in Nat
  BY DEF AlertInv, CountInv, AlertTypeOK
<1>1. /\ OnlyPass(p) /\ pass[p] = Idle /\ p \notin Jobs
      /\ UNCHANGED <<deliveries, channel, raised, stale, sent, tried>>
      /\ open \subseteq 1..raised
      /\ overlaps' = [a \in Alerts |-> overlaps[a] + IF a \in open /\ Held(a) THEN 1 ELSE 0]
      /\ pass'[p].open = open /\ ~pass'[p].dirty
      /\ \A a \in open : pass'[p].items[a] = deliveries[a]
  BY DEF Reads
<1>2. Idle.open = {} /\ Idle.at = 0 /\ ~Idle.dirty
  BY DEF Idle
<1>3. PassInv'
  <2>1. raised' \in Nat /\ raised <= raised' /\ pass'[p].open \subseteq 1..raised'
    BY <1>0, <1>1
  <2>2. pass'[p].at # 0 => pass'[p].at \in pass'[p].open
    BY <1>1
  <2>3. \A c \in pass'[p].left : pass'[p].items[pass'[p].at][c].status # "SENT"
    OBVIOUS
  <2> QED
    BY <1>0, <1>1, <2>1, <2>2, <2>3, PassInvStep
<1>4. FreshInv'
  BY <1>0, <1>1 DEF FreshInv
<1>5. ASSUME NEW a \in Alerts, NEW c \in Channels PROVE SentCounted(a, c)' /\ TriedCounted(a, c)'
  <2>1. SentCounted(a, c) /\ TriedCounted(a, c)
    BY <1>0 DEF DeliveriesCounted
  <2>2. Unsaved(a)' = Unsaved(a)
    BY <1>1, <1>2 DEF OnlyPass, Unsaved
  <2>3. p \notin Holders(a)
    BY <1>1, <1>2 DEF Holders
  <2>4. /\ sent[a][c] \in Nat /\ tried[a][c] \in Nat /\ overlaps[a] \in Nat
        /\ deliveries[a][c].attempts \in Nat
        /\ Holders(a) \subseteq Passes
        /\ Unsent(a, c) \subseteq Passes /\ Untried(a, c) \subseteq Passes
    BY <1>0, CountTypes
  <2>5. CASE a \notin open
    <3>1. Holders(a)' = Holders(a) /\ \A q \in Holders(a)' : pass'[q] = pass[q]
      BY <1>1, <2>3, <2>5 DEF OnlyPass, Holders
    <3>2. Unsent(a, c)' \subseteq Unsent(a, c) /\ Untried(a, c)' \subseteq Untried(a, c)
      BY <3>1 DEF Unsent, Untried
    <3>3. overlaps'[a] = overlaps[a]
      BY <1>1, <2>4, <2>5
    <3> QED
      BY <1>0, <1>1, <2>1, <2>2, <3>1, <3>2, <3>3, NothingNew
  <2>6. CASE a \in open
    <3> DEFINE more == IF Held(a) THEN 1 ELSE 0
    <3>1. overlaps'[a] = overlaps[a] + more /\ more \in {0, 1} /\ (more = 0 <=> ~Held(a))
      BY <1>1, <2>6
    <3>2. ~Held(a) <=> Holders(a) = {}
      BY DEF Held, Holders
    <3>3. more = 0 => Holders(a) = {} /\ Unsent(a, c) = {} /\ Untried(a, c) = {} /\ Unsaved(a) = {}
      <4>1. Holders(a) = {} => Unsaved(a) = {}
        BY PassFacts, AlertNumbers DEF Holders, Unsaved
      <4> QED
        BY <3>1, <3>2, <4>1 DEF Unsent, Untried
    <3>4. Holders(a)' = Holders(a) \cup {p} /\ pass'[p].items[a][c] = deliveries[a][c]
      BY <1>1, <2>6 DEF OnlyPass, Holders
    <3>5. /\ Unsent(a, c)' \subseteq Passes /\ Untried(a, c)' \subseteq Passes
          /\ Unsent(a, c)' \ {p} = Unsent(a, c) \ {p} /\ Untried(a, c)' \ {p} = Untried(a, c) \ {p}
          /\ p \notin Unsent(a, c) /\ p \notin Untried(a, c)
          /\ p \in Unsent(a, c)' <=> deliveries[a][c].status # "SENT"
      <4>1. /\ Unsent(a, c)' \ {p} = Unsent(a, c) \ {p} /\ p \notin Unsent(a, c)
            /\ p \in Unsent(a, c)' <=> deliveries[a][c].status # "SENT"
        BY <1>1, <2>3, <3>4 DEF OnlyPass, Unsent, Holders
      <4>2. Untried(a, c)' \ {p} = Untried(a, c) \ {p} /\ p \notin Untried(a, c)
        BY <1>1, <2>3, <3>4 DEF OnlyPass, Untried, Holders
      <4> QED
        BY <2>4, <3>4, <4>1, <4>2 DEF Unsent, Untried
    <3> HIDE DEF more
    <3> DEFINE ns == Cardinality(Unsent(a, c))
               nt == Cardinality(Untried(a, c))
               nt1 == Cardinality(Untried(a, c)')
               ns1 == Cardinality(Unsent(a, c)')
    <3>6. /\ ns \in Nat /\ nt \in Nat /\ ns1 \in Nat /\ nt1 \in Nat
          /\ ns1 <= ns + 1 /\ nt1 <= nt + 1
          /\ deliveries[a][c].status = "SENT" => ns1 = ns
          /\ more = 0 => ns = 0 /\ nt = 0
      <4>1. ns \in Nat /\ nt \in Nat /\ ns1 \in Nat /\ nt1 \in Nat
        BY <2>4, <3>5, CountPart
      <4>2. ns1 = ns + 1 \/ ns1 = ns
        BY <2>4, <3>5, CountStep
      <4>3. nt1 = nt + 1 \/ nt1 = nt
        BY <2>4, <3>5, CountStep
      <4>4. deliveries[a][c].status = "SENT" => ns1 = ns
        BY <2>4, <3>5, CountStep
      <4>5. more = 0 => ns = 0 /\ nt = 0
        BY <3>3, FS_EmptySet
      <4> QED
        BY <4>1, <4>2, <4>3, <4>4, <4>5
    <3>7. SentCounted(a, c)'
      <4>1. /\ sent[a][c] + ns <= overlaps[a] + 1
            /\ Unsaved(a) = {} => sent[a][c] <= overlaps[a] + IF deliveries[a][c].status = "SENT" THEN 1 ELSE 0
        BY <2>1 DEF SentCounted
      <4>2. sent[a][c] + ns1 <= overlaps'[a] + 1
        <5>1. CASE more = 1
          BY <2>4, <3>1, <3>6, <4>1, <5>1
        <5>2. CASE more = 0
          BY <2>4, <3>1, <3>3, <3>6, <4>1, <5>2
        <5> QED
          BY <3>1, <5>1, <5>2
      <4>3. Unsaved(a)' = {} => sent[a][c] <= overlaps'[a] + IF deliveries[a][c].status = "SENT" THEN 1 ELSE 0
        BY <2>2, <2>4, <3>1, <4>1
      <4> QED
        BY <1>1, <4>2, <4>3 DEF SentCounted
    <3>8. TriedCounted(a, c)'
      <4> DEFINE rec == deliveries[a][c].attempts
      <4>1. /\ rec <= tried[a][c] /\ tried[a][c] + nt <= rec + overlaps[a] + 1
            /\ Unsaved(a) = {} => tried[a][c] <= rec + overlaps[a]
        BY <2>1 DEF TriedCounted
      <4>2. tried[a][c] + nt <= rec + overlaps'[a]
        <5>1. CASE more = 1
          BY <2>4, <3>1, <3>6, <4>1, <5>1
        <5>2. CASE more = 0
          BY <2>4, <3>1, <3>3, <3>6, <4>1, <5>2
        <5> QED
          BY <3>1, <5>1, <5>2
      <4>3. /\ tried[a][c] + nt1 <= rec + overlaps'[a] + 1
            /\ Unsaved(a)' = {} => tried[a][c] <= rec + overlaps'[a]
        BY <2>2, <2>4, <3>1, <3>6, <4>1, <4>2
      <4>4. ASSUME NEW q \in Holders(a)'
            PROVE  /\ pass'[q].items[a][c].attempts <= tried[a][c]
                   /\ tried[a][c] + Cardinality(Untried(a, c)' \ {q})
                        <= pass'[q].items[a][c].attempts + overlaps'[a]
        <5>1. CASE q = p
          <6>1. Untried(a, c)' \ {p} = Untried(a, c)
            BY <3>5
          <6> QED
            BY <3>4, <4>1, <4>2, <5>1, <6>1
        <5>2. CASE q # p
          <6>1. q \in Holders(a) /\ q \in Passes /\ pass'[q] = pass[q]
            BY <1>1, <2>4, <3>4, <5>2 DEF OnlyPass
          <6>2. more = 1
            BY <3>1, <3>3, <6>1
          <6> DEFINE m == Cardinality(Untried(a, c) \ {q})
                     m1 == Cardinality(Untried(a, c)' \ {q})
                     copy == pass[q].items[a][c].attempts
          <6>3. copy <= tried[a][c] /\ tried[a][c] + m <= copy + overlaps[a] /\ copy \in Nat
            BY <1>0, <2>1, <6>1, CountTypes DEF TriedCounted
          <6>4. m \in Nat /\ m1 \in Nat /\ (m1 = m + 1 \/ m1 = m)
            <7>1. /\ Untried(a, c) \ {q} \in SUBSET Passes /\ Untried(a, c)' \ {q} \in SUBSET Passes
                  /\ (Untried(a, c)' \ {q}) \ {p} = (Untried(a, c) \ {q}) \ {p}
                  /\ p \notin Untried(a, c) \ {q}
              BY <2>4, <3>5
            <7>2. m \in Nat /\ m1 \in Nat
              BY <7>1, CountPart
            <7>3. m1 = m + 1 \/ m1 = m
              BY <7>1, CountStep
            <7> QED
              BY <7>2, <7>3
          <6> HIDE DEF m, m1, copy
          <6>5. tried[a][c] + m1 <= copy + overlaps'[a]
            BY <2>4, <3>1, <6>2, <6>3, <6>4
          <6> QED
            BY <6>1, <6>3, <6>5 DEF m1, copy
        <5> QED
          BY <5>1, <5>2
      <4> QED
        BY <1>1, <4>1, <4>3, <4>4 DEF TriedCounted
    <3> QED
      BY <3>7, <3>8
  <2> QED
    BY <2>5, <2>6
<1> QED
  BY <1>3, <1>4, <1>5 DEF CountInv, DeliveriesCounted

\* A send keeps the attempts counted: it is one attempt more and one item more in the copy of
\* the pass, which is still to be written.
LEMMA TryKeeps ==
    ASSUME AlertInv, NEW p \in Passes, NEW d \in Channels, Try(p, d) PROVE CountInv'
<1>0. AlertTypeOK /\ RestInv /\ FreshInv /\ DeliveriesCounted /\ raised \in Nat
  BY DEF AlertInv, CountInv, AlertTypeOK
<1> PICK b \in Alerts : pass[p].at = b
  BY <1>0, TryEffect
<1> DEFINE old == pass[p].items[b][d]
           new == pass'[p].items[b][d]
<1>1. /\ OnlyPass(p) /\ b # 0 /\ d \in pass[p].left
      /\ UNCHANGED <<deliveries, channel, raised, stale, overlaps, spent>>
      /\ pass'[p].at = b /\ pass'[p].dirty /\ pass'[p].open = pass[p].open
      /\ pass'[p].left = pass[p].left \ {d}
      /\ \A a \in Alerts, c \in Channels :
           a # b \/ c # d => pass'[p].items[a][c] = pass[p].items[a][c]
  <2>1. b # 0
    BY AlertNumbers
  <2>2. /\ OnlyPass(p) /\ d \in pass[p].left
        /\ UNCHANGED <<deliveries, channel, raised, stale, overlaps, spent>>
        /\ pass'[p].at = b /\ pass'[p].dirty /\ pass'[p].open = pass[p].open
        /\ pass'[p].left = pass[p].left \ {d}
    BY <1>0, TryEffect
  <2>3. \A a \in Alerts, c \in Channels :
           a # b \/ c # d => pass'[p].items[a][c] = pass[p].items[a][c]
    <3>1. \A a \in Alerts, c \in Channels :
            a # pass[p].at \/ c # d => pass'[p].items[a][c] = pass[p].items[a][c]
      BY <1>0, TryEffect, Zenon
    <3> QED
      BY <3>1, Zenon
  <2> QED
    BY <2>1, <2>2, <2>3
<1>2. \/ new.status # "SENT" /\ new.attempts = old.attempts /\ UNCHANGED <<sent, tried>>
      \/ /\ new.attempts = old.attempts + 1
         /\ tried' = [tried EXCEPT ![b][d] = @ + 1]
         /\ IF new.status = "SENT" THEN sent' = [sent EXCEPT ![b][d] = @ + 1] ELSE sent' = sent
  BY <1>0, TryEffect
<1>3. b \in pass[p].open /\ old.status # "SENT" /\ pass[p].open \subseteq 1..raised
  BY <1>1, PassFacts
<1> HIDE DEF old, new
<1>4. sent \in [Alerts -> [Channels -> Nat]] /\ tried \in [Alerts -> [Channels -> Nat]]
  BY <1>0 DEF AlertTypeOK
<1>5. /\ \A a \in Alerts, c \in Channels :
           a # b \/ c # d => sent'[a][c] = sent[a][c] /\ tried'[a][c] = tried[a][c]
      /\ \/ new.status # "SENT" /\ new.attempts = old.attempts
            /\ sent'[b][d] = sent[b][d] /\ tried'[b][d] = tried[b][d]
         \/ /\ new.attempts = old.attempts + 1 /\ tried'[b][d] = tried[b][d] + 1
            /\ sent'[b][d] = sent[b][d] + IF new.status = "SENT" THEN 1 ELSE 0
  <2>1. /\ [sent EXCEPT ![b][d] = @ + 1][b][d] = sent[b][d] + 1
        /\ \A a \in Alerts, c \in Channels :
             a # b \/ c # d => [sent EXCEPT ![b][d] = @ + 1][a][c] = sent[a][c]
    BY <1>1, <1>4, CounterStep
  <2>2. /\ [tried EXCEPT ![b][d] = @ + 1][b][d] = tried[b][d] + 1
        /\ \A a \in Alerts, c \in Channels :
             a # b \/ c # d => [tried EXCEPT ![b][d] = @ + 1][a][c] = tried[a][c]
    BY <1>1, <1>4, CounterStep
  <2>3. sent[b][d] \in Nat
    BY <1>1, <1>4
  <2>4. CASE new.status # "SENT" /\ new.attempts = old.attempts /\ UNCHANGED <<sent, tried>>
    BY <2>4
  <2>5. CASE /\ new.attempts = old.attempts + 1 /\ tried' = [tried EXCEPT ![b][d] = @ + 1]
             /\ new.status = "SENT" /\ sent' = [sent EXCEPT ![b][d] = @ + 1]
    BY <2>1, <2>2, <2>5
  <2>6. CASE /\ new.attempts = old.attempts + 1 /\ tried' = [tried EXCEPT ![b][d] = @ + 1]
             /\ new.status # "SENT" /\ sent' = sent
    BY <2>2, <2>3, <2>6
  <2> QED
    BY <1>2, <2>4, <2>5, <2>6
<1>6. PassInv'
  <2>1. \A c \in pass'[p].left : pass'[p].items[pass'[p].at][c].status # "SENT"
    <3> SUFFICES ASSUME NEW c \in pass'[p].left PROVE pass'[p].items[b][c].status # "SENT"
      BY <1>1
    <3>1. c \in pass[p].left /\ c # d /\ c \in Channels
      BY <1>0, <1>1 DEF AlertTypeOK
    <3>2. pass'[p].items[b][c] = pass[p].items[b][c]
      BY <1>1, <3>1
    <3> QED
      BY <3>1, <3>2, PassFacts
  <2>2. p \in Jobs => \A a \in pass'[p].open \ {pass'[p].at} : pass'[p].items[a] = NotSaved
    <3> SUFFICES ASSUME p \in Jobs, NEW a \in pass[p].open \ {b} PROVE pass'[p].items[a] = NotSaved
      BY <1>1
    <3>1. pass[p].items[a] = NotSaved /\ a \in Alerts
      BY <1>0, PassFacts DEF AlertTypeOK
    <3>2. \A c \in Channels : pass'[p].items[a][c] = pass[p].items[a][c]
      BY <1>1, <3>1
    <3>3. pass[p].items[a] \in [Channels -> Items] /\ pass'[p].items[a] \in [Channels -> Items]
      BY <1>0, <1>1, <3>1 DEF AlertTypeOK, OnlyPass, Pass
    <3> QED
      BY <3>1, <3>2, <3>3
  <2> QED
    BY <1>0, <1>1, <1>3, <2>1, <2>2, PassInvStep
<1>7. FreshInv'
  <2>1. b \in 1..raised
    BY <1>3
  <2>2. \A a \in Alerts : a > raised => a # b
    BY <1>0, <2>1
  <2> QED
    BY <1>0, <1>1, <1>5, <2>2 DEF FreshInv
<1>8. \A a \in Alerts : Holders(a)' = Holders(a) /\ Unsaved(a) \subseteq Unsaved(a)'
  BY <1>1 DEF OnlyPass, Holders, Unsaved
<1>9. ASSUME NEW a \in Alerts, NEW c \in Channels PROVE SentCounted(a, c)' /\ TriedCounted(a, c)'
  <2>1. SentCounted(a, c) /\ TriedCounted(a, c)
    BY <1>0 DEF DeliveriesCounted
  <2>2. CASE a # b \/ c # d
    <3>1. \A q \in Passes : pass'[q].items[a][c] = pass[q].items[a][c]
      BY <1>1, <2>2 DEF OnlyPass
    <3>2. Unsent(a, c)' \subseteq Unsent(a, c)
      BY <1>8, <3>1 DEF Unsent, Holders
    <3>3. Untried(a, c)' \subseteq Untried(a, c)
      <4> SUFFICES ASSUME NEW q \in Untried(a, c)' PROVE q \in Untried(a, c)
        OBVIOUS
      <4>1. q \in Holders(a) /\ q \in Passes /\ (pass'[q].at = a => c \in pass'[q].left)
        BY <1>8 DEF Untried, Holders
      <4>2. pass[q].at = a => c \in pass[q].left
        BY <1>1, <4>1 DEF OnlyPass
      <4> QED
        BY <4>1, <4>2 DEF Untried
    <3> QED
      BY <1>0, <1>1, <1>5, <1>8, <2>1, <2>2, <3>1, <3>2, <3>3, NothingNew DEF Holders
  <2>3. CASE a = b /\ c = d
    <3>1. /\ sent[b][d] \in Nat /\ tried[b][d] \in Nat /\ overlaps[b] \in Nat
          /\ deliveries[b][d].attempts \in Nat /\ old.attempts \in Nat
          /\ Holders(b) \subseteq Passes /\ Unsent(b, d) \subseteq Passes /\ Untried(b, d) \subseteq Passes
      BY <1>0, <1>1, CountTypes DEF old
    <3>2. p \in Holders(b) /\ Unsaved(b)' # {}
      BY <1>1, <1>3 DEF Holders, Unsaved
    <3>3. /\ Unsent(b, d)' \subseteq Passes /\ Unsent(b, d)' \ {p} = Unsent(b, d) \ {p}
          /\ p \in Unsent(b, d) /\ (p \in Unsent(b, d)' <=> new.status # "SENT")
      <4>1. p \in Unsent(b, d) /\ (p \in Unsent(b, d)' <=> new.status # "SENT")
        BY <1>1, <1>3, <1>8, <3>2 DEF Unsent, old, new
      <4>2. Unsent(b, d)' \ {p} = Unsent(b, d) \ {p}
        BY <1>1, <1>8, <3>1 DEF Unsent, OnlyPass
      <4> QED
        BY <1>1, <1>8, <3>1, <4>1, <4>2 DEF Unsent
    <3>4. /\ Untried(b, d)' \subseteq Passes /\ Untried(b, d)' \ {p} = Untried(b, d) \ {p}
          /\ p \in Untried(b, d) /\ p \notin Untried(b, d)'
      <4>1. p \in Untried(b, d) /\ p \notin Untried(b, d)'
        BY <1>1, <1>8, <3>2 DEF Untried
      <4>2. Untried(b, d)' \ {p} = Untried(b, d) \ {p}
        BY <1>1, <1>8, <3>1 DEF Untried, OnlyPass
      <4> QED
        BY <1>1, <1>8, <3>1, <4>1, <4>2 DEF Untried
    <3> DEFINE ns == Cardinality(Unsent(b, d))
               ns1 == Cardinality(Unsent(b, d)')
               nt == Cardinality(Untried(b, d))
               nt1 == Cardinality(Untried(b, d)')
    <3>5. /\ ns \in Nat /\ ns1 \in Nat /\ nt \in Nat /\ nt1 \in Nat /\ nt = nt1 + 1
          /\ IF new.status = "SENT" THEN ns = ns1 + 1 ELSE ns1 = ns
      <4>1. ns \in Nat /\ ns1 \in Nat /\ nt \in Nat /\ nt1 \in Nat
        BY <3>1, <3>3, <3>4, CountPart
      <4>2. nt = nt1 + 1
        BY <3>1, <3>4, CountStep
      <4>3. IF new.status = "SENT" THEN ns = ns1 + 1 ELSE ns1 = ns
        BY <3>1, <3>3, CountStep
      <4> QED
        BY <4>1, <4>2, <4>3
    <3> HIDE DEF ns, ns1, nt, nt1
    <3>6. SentCounted(b, d)'
      <4>1. sent[b][d] + ns <= overlaps[b] + 1
        BY <2>1, <2>3 DEF SentCounted, ns
      <4>2. sent'[b][d] + ns1 <= overlaps[b] + 1
        BY <1>5, <3>1, <3>5, <4>1
      <4> QED
        BY <1>1, <3>2, <4>2 DEF SentCounted, ns1
    <3>7. TriedCounted(b, d)'
      <4> DEFINE rec == deliveries[b][d].attempts
      <4>1. rec <= tried[b][d] /\ tried[b][d] + nt <= rec + overlaps[b] + 1
        BY <2>1, <2>3 DEF TriedCounted, nt
      <4>2. rec <= tried'[b][d] /\ tried'[b][d] + nt1 <= rec + overlaps[b] + 1
        BY <1>5, <3>1, <3>5, <4>1
      <4>3. ASSUME NEW q \in Holders(b)
            PROVE  /\ pass'[q].items[b][d].attempts <= tried'[b][d]
                   /\ tried'[b][d] + Cardinality(Untried(b, d)' \ {q})
                        <= pass'[q].items[b][d].attempts + overlaps[b]
        <5> DEFINE m == Cardinality(Untried(b, d) \ {q})
                   m1 == Cardinality(Untried(b, d)' \ {q})
                   copy == pass[q].items[b][d].attempts
        <5>1. copy <= tried[b][d] /\ tried[b][d] + m <= copy + overlaps[b] /\ copy \in Nat
          BY <1>0, <1>1, <2>1, <2>3, <3>1, CountTypes DEF TriedCounted
        <5>2. /\ Untried(b, d) \ {q} \in SUBSET Passes /\ Untried(b, d)' \ {q} \in SUBSET Passes
              /\ (Untried(b, d) \ {q}) \ {p} = (Untried(b, d)' \ {q}) \ {p}
          BY <3>1, <3>4
        <5>3. m \in Nat /\ m1 \in Nat
          BY <5>2, CountPart
        <5>4. CASE q = p
          <6>1. Untried(b, d)' \ {q} = Untried(b, d) \ {q}
            BY <3>4, <5>4
          <6>2. pass'[q].items[b][d].attempts = new.attempts /\ copy = old.attempts /\ m1 = m
            BY <5>4, <6>1 DEF old, new
          <6> HIDE DEF m, copy, m1
          <6>3. new.attempts <= tried'[b][d] /\ tried'[b][d] + m1 <= new.attempts + overlaps[b]
            BY <1>5, <3>1, <5>1, <5>3, <6>2
          <6> QED
            BY <6>2, <6>3 DEF m1
        <5>5. CASE q # p
          <6>1. pass'[q].items[b][d].attempts = copy
            BY <1>1, <3>1, <5>5 DEF OnlyPass
          <6>2. m = m1 + 1
            BY <3>4, <5>2, <5>5, CountStep
          <6> HIDE DEF m, copy, m1
          <6>3. copy <= tried'[b][d] /\ tried'[b][d] + m1 <= copy + overlaps[b]
            BY <1>5, <3>1, <5>1, <5>3, <6>2
          <6> QED
            BY <6>1, <6>3 DEF m1
        <5> QED
          BY <5>4, <5>5
      <4>4. UNCHANGED <<deliveries, overlaps>> /\ Holders(b)' = Holders(b) /\ Unsaved(b)' # {}
        BY <1>1, <1>8, <3>2
      <4> QED
        BY <4>2, <4>3, <4>4 DEF TriedCounted, nt1
    <3> QED
      BY <2>3, <3>6, <3>7
  <2> QED
    BY <2>2, <2>3
<1> QED
  BY <1>6, <1>7, <1>9 DEF CountInv, DeliveriesCounted

\* The array that is written was counted as a copy.
LEMMA SaveKeeps ==
    ASSUME AlertInv, NEW p \in Passes, Save(p) PROVE CountInv'
<1>0. AlertTypeOK /\ RestInv /\ FreshInv /\ DeliveriesCounted /\ raised \in Nat
  BY DEF AlertInv, CountInv, AlertTypeOK
<1> PICK b \in Alerts : pass[p].at = b
  BY <1>0, SaveEffect
<1>1. /\ OnlyPass(p) /\ b # 0 /\ pass[p].left = {} /\ b \in pass[p].open /\ pass[p].open \subseteq 1..raised
      /\ UNCHANGED <<channel, raised, stale, sent, tried, overlaps, spent>>
      /\ pass'[p].open = pass[p].open \ {b}
      /\ pass'[p].at = 0 /\ pass'[p].left = {} /\ ~pass'[p].dirty
      /\ \A a \in pass'[p].open : pass'[p].items[a] = pass[p].items[a]
  <2>1. b # 0
    BY AlertNumbers
  <2> QED
    BY <1>0, <2>1, SaveEffect, PassFacts
<1>2. /\ pass[p].dirty => deliveries' = [deliveries EXCEPT ![b] = pass[p].items[b]]
      /\ ~pass[p].dirty => deliveries' = deliveries
  BY <1>0, SaveEffect
<1>3. PassInv'
  <2>1. p \in Jobs => \A a \in pass'[p].open \ {pass'[p].at} : pass'[p].items[a] = NotSaved
    BY <1>1, PassFacts
  <2> QED
    BY <1>0, <1>1, <2>1, PassInvStep
<1>4. \A a \in Alerts : a # b => deliveries'[a] = deliveries[a]
  BY <1>0, <1>2 DEF AlertTypeOK
<1>5. FreshInv'
  <2>1. \A a \in Alerts : a > raised => a # b
    BY <1>0, <1>1, AlertNumbers
  <2> QED
    BY <1>0, <1>1, <1>4, <2>1 DEF FreshInv
<1>6. ASSUME NEW a \in Alerts, NEW c \in Channels PROVE SentCounted(a, c)' /\ TriedCounted(a, c)'
  <2>1. SentCounted(a, c) /\ TriedCounted(a, c)
    BY <1>0 DEF DeliveriesCounted
  <2>2. Holders(a)' \subseteq Holders(a) /\ \A q \in Holders(a)' : pass'[q].items[a] = pass[q].items[a]
    BY <1>1 DEF OnlyPass, Holders
  <2>3. Unsent(a, c)' \subseteq Unsent(a, c)
    BY <2>2 DEF Unsent
  <2>4. Untried(a, c)' \subseteq Untried(a, c)
    <3> SUFFICES ASSUME NEW q \in Untried(a, c)' PROVE q \in Untried(a, c)
      OBVIOUS
    <3>1. q \in Holders(a)' /\ q \in Holders(a) /\ q \in Passes /\ (pass'[q].at = a => c \in pass'[q].left)
      BY <2>2 DEF Untried, Holders
    <3>2. pass[q].at = a => c \in pass[q].left
      BY <1>1, <3>1 DEF OnlyPass, Holders
    <3> QED
      BY <3>1, <3>2 DEF Untried
  <2>5. CASE a # b \/ ~pass[p].dirty
    <3>1. deliveries'[a] = deliveries[a]
      BY <1>2, <1>4, <2>5
    <3>2. Unsaved(a) \subseteq Unsaved(a)'
      BY <1>1, <2>5 DEF Unsaved, OnlyPass
    <3> QED
      BY <1>0, <1>1, <2>1, <2>2, <2>3, <2>4, <3>1, <3>2, NothingNew
  <2>6. CASE a = b /\ pass[p].dirty
    <3>1. deliveries'[a] = pass[p].items[a]
      BY <1>0, <1>2, <2>6 DEF AlertTypeOK
    <3> DEFINE copy == pass[p].items[a][c]
    <3>2. /\ sent[a][c] \in Nat /\ tried[a][c] \in Nat /\ overlaps[a] \in Nat /\ copy.attempts \in Nat
          /\ Holders(a) \subseteq Passes /\ Unsent(a, c) \subseteq Passes /\ Untried(a, c) \subseteq Passes
          /\ \A q \in Passes : pass[q].items[a][c].attempts \in Nat
      BY <1>0, CountTypes
    <3>3. p \in Holders(a) /\ p \notin Untried(a, c) /\ (copy.status # "SENT" => p \in Unsent(a, c))
      BY <1>1, <2>6 DEF Holders, Untried, Unsent
    <3>4. /\ Cardinality(Unsent(a, c)) \in Nat /\ Cardinality(Unsent(a, c)') \in Nat
          /\ Cardinality(Unsent(a, c)') <= Cardinality(Unsent(a, c))
          /\ copy.status # "SENT" => Cardinality(Unsent(a, c)) >= 1
      BY <2>3, <3>2, <3>3, CountPart
    <3>5. sent[a][c] + Cardinality(Unsent(a, c)) <= overlaps[a] + 1
      BY <2>1 DEF SentCounted
    <3>6. SentCounted(a, c)'
      <4>1. sent[a][c] + Cardinality(Unsent(a, c)') <= overlaps[a] + 1
        BY <3>2, <3>4, <3>5
      <4>2. sent[a][c] <= overlaps[a] + IF copy.status = "SENT" THEN 1 ELSE 0
        <5>1. copy.status = "SENT" => sent[a][c] <= overlaps[a] + 1
          BY <3>2, <3>4, <3>5
        <5>2. copy.status # "SENT" => sent[a][c] <= overlaps[a] + 0
          BY <3>2, <3>4, <3>5
        <5> QED
          BY <5>1, <5>2
      <4> QED
        BY <1>1, <3>1, <4>1, <4>2 DEF SentCounted
    <3>7. TriedCounted(a, c)'
      <4>1. /\ copy.attempts <= tried[a][c]
            /\ tried[a][c] + Cardinality(Untried(a, c) \ {p}) <= copy.attempts + overlaps[a]
        BY <2>1, <3>3 DEF TriedCounted
      <4>2. Untried(a, c) \ {p} = Untried(a, c)
        BY <3>3
      <4>3. /\ Cardinality(Untried(a, c)) \in Nat /\ Cardinality(Untried(a, c)') \in Nat
            /\ Cardinality(Untried(a, c)') <= Cardinality(Untried(a, c))
        BY <2>4, <3>2, CountPart
      <4>4. /\ tried[a][c] + Cardinality(Untried(a, c)') <= copy.attempts + overlaps[a] + 1
            /\ tried[a][c] <= copy.attempts + overlaps[a]
        <5>1. tried[a][c] + Cardinality(Untried(a, c)) <= copy.attempts + overlaps[a]
          BY <4>1, <4>2
        <5> HIDE DEF copy
        <5> QED
          BY <3>2, <4>3, <5>1
      <4>5. ASSUME NEW q \in Holders(a)'
            PROVE  /\ pass'[q].items[a][c].attempts <= tried[a][c]
                   /\ tried[a][c] + Cardinality(Untried(a, c)' \ {q})
                        <= pass'[q].items[a][c].attempts + overlaps[a]
        <5> DEFINE m == Cardinality(Untried(a, c) \ {q})
                   m1 == Cardinality(Untried(a, c)' \ {q})
                   n == pass[q].items[a][c].attempts
        <5>1. n <= tried[a][c] /\ tried[a][c] + m <= n + overlaps[a] /\ n \in Nat
          <6>1. q \in Holders(a) /\ q \in Passes
            BY <2>2, <3>2
          <6> QED
            BY <2>1, <3>2, <6>1 DEF TriedCounted
        <5>2. m \in Nat /\ m1 \in Nat /\ m1 <= m
          <6>1. Untried(a, c) \ {q} \in SUBSET Passes /\ Untried(a, c)' \ {q} \in SUBSET (Untried(a, c) \ {q})
            BY <2>4, <3>2
          <6> QED
            BY <6>1, CountPart
        <5>3. pass'[q].items[a][c].attempts = n
          BY <2>2
        <5> HIDE DEF m, m1, n
        <5>4. tried[a][c] + m1 <= n + overlaps[a]
          BY <3>2, <5>1, <5>2
        <5> QED
          BY <5>1, <5>3, <5>4 DEF m1
      <4> QED
        BY <1>1, <3>1, <4>1, <4>4, <4>5 DEF TriedCounted
    <3> QED
      BY <3>6, <3>7
  <2> QED
    BY <2>5, <2>6
<1> QED
  BY <1>3, <1>5, <1>6 DEF CountInv, DeliveriesCounted

\* What a death takes away is counted if it was news.
LEMMA CrashKeeps ==
    ASSUME AlertInv, NEW i, Crash(i) PROVE CountInv'
<1>0. AlertTypeOK /\ FreshInv /\ DeliveriesCounted /\ PassInv
  BY DEF AlertInv, CountInv
<1>1. UNCHANGED <<deliveries, channel, raised, stale, sent, tried>>
  BY <1>0, CrashEffect
<1>2. PICK lost \in SUBSET Passes :
        /\ \A p \in Passes : pass'[p] = IF p \in lost THEN Idle ELSE pass[p]
        /\ overlaps' = [a \in Alerts |-> overlaps[a] + Cardinality(lost \cap Unsaved(a))]
  BY <1>0, CrashEffect
<1>3. Idle.open = {} /\ Idle.at = 0 /\ ~Idle.dirty /\ Idle.left = {}
  BY DEF Idle
<1>4. PassInv'
  BY <1>0, <1>1, <1>2, <1>3 DEF PassInv
<1>5. FreshInv'
  BY <1>0, <1>1 DEF FreshInv
<1>6. ASSUME NEW a \in Alerts, NEW c \in Channels PROVE SentCounted(a, c)' /\ TriedCounted(a, c)'
  <2>1. SentCounted(a, c) /\ TriedCounted(a, c)
    BY <1>0 DEF DeliveriesCounted
  <2>2. Holders(a)' \subseteq Holders(a) /\ \A q \in Holders(a)' : pass'[q] = pass[q]
    BY <1>2, <1>3 DEF Holders
  <2>3. Unsent(a, c)' \subseteq Unsent(a, c) /\ Untried(a, c)' \subseteq Untried(a, c)
    BY <2>2 DEF Unsent, Untried
  <2> DEFINE more == Cardinality(lost \cap Unsaved(a))
  <2>4. /\ sent[a][c] \in Nat /\ tried[a][c] \in Nat /\ overlaps[a] \in Nat
        /\ deliveries[a][c].attempts \in Nat
        /\ Holders(a) \subseteq Passes /\ Unsaved(a) \subseteq Passes
        /\ Unsent(a, c) \subseteq Passes /\ Untried(a, c) \subseteq Passes
        /\ \A q \in Passes : pass[q].items[a][c].attempts \in Nat
    BY <1>0, CountTypes
  <2>5. Unsaved(a)' = Unsaved(a) \ lost
    <3>1. a # 0
      BY AlertNumbers
    <3> QED
      BY <1>2, <1>3, <3>1 DEF Unsaved
  <2>6. more \in Nat /\ (more = 0 => Unsaved(a)' = Unsaved(a)) /\ overlaps'[a] = overlaps[a] + more
    <3>1. lost \cap Unsaved(a) \in SUBSET Passes
      OBVIOUS
    <3>2. more \in Nat /\ (lost \cap Unsaved(a) # {} => more >= 1)
      BY <3>1, CountPart
    <3> QED
      BY <1>2, <2>5, <3>2
  <2> HIDE DEF more
  <2> DEFINE ns == Cardinality(Unsent(a, c))
             ns1 == Cardinality(Unsent(a, c)')
             nt == Cardinality(Untried(a, c))
             nt1 == Cardinality(Untried(a, c)')
             d == IF deliveries[a][c].status = "SENT" THEN 1 ELSE 0
             rec == deliveries[a][c].attempts
  <2>7. ns \in Nat /\ ns1 \in Nat /\ nt \in Nat /\ nt1 \in Nat /\ ns1 <= ns /\ nt1 <= nt
    BY <2>3, <2>4, CountPart
  <2>8. /\ sent[a][c] + ns <= overlaps[a] + 1
        /\ Unsaved(a) = {} => sent[a][c] <= overlaps[a] + d
        /\ d \in {0, 1}
    BY <2>1 DEF SentCounted
  <2>9. /\ rec <= tried[a][c] /\ tried[a][c] + nt <= rec + overlaps[a] + 1
        /\ Unsaved(a) = {} => tried[a][c] <= rec + overlaps[a]
    BY <2>1 DEF TriedCounted
  <2>10. SentCounted(a, c)'
    <3> HIDE DEF ns, ns1, d
    <3>1. sent[a][c] + ns1 <= overlaps'[a] + 1
      BY <2>4, <2>6, <2>7, <2>8
    <3>2. Unsaved(a)' = {} => sent[a][c] <= overlaps'[a] + d
      <4>1. CASE more = 0
        BY <2>4, <2>6, <2>8, <4>1
      <4>2. CASE more # 0
        BY <2>4, <2>6, <2>7, <2>8, <4>2
      <4> QED
        BY <4>1, <4>2
    <3> QED
      BY <1>1, <3>1, <3>2 DEF SentCounted, ns1, d
  <2>11. TriedCounted(a, c)'
    <3> HIDE DEF nt, nt1
    <3>1. tried[a][c] + nt1 <= rec + overlaps'[a] + 1
      BY <2>4, <2>6, <2>7, <2>9
    <3>2. Unsaved(a)' = {} => tried[a][c] <= rec + overlaps'[a]
      <4>1. CASE more = 0
        BY <2>4, <2>6, <2>9, <4>1
      <4>2. CASE more # 0
        BY <2>4, <2>6, <2>7, <2>9, <4>2
      <4> QED
        BY <4>1, <4>2
    <3>3. ASSUME NEW q \in Holders(a)'
          PROVE  /\ pass'[q].items[a][c].attempts <= tried[a][c]
                 /\ tried[a][c] + Cardinality(Untried(a, c)' \ {q})
                      <= pass'[q].items[a][c].attempts + overlaps'[a]
      <4> DEFINE m == Cardinality(Untried(a, c) \ {q})
                 m1 == Cardinality(Untried(a, c)' \ {q})
                 n == pass[q].items[a][c].attempts
      <4>1. n <= tried[a][c] /\ tried[a][c] + m <= n + overlaps[a] /\ n \in Nat
        <5>1. q \in Holders(a) /\ q \in Passes
          BY <2>2, <2>4
        <5> QED
          BY <2>1, <2>4, <5>1 DEF TriedCounted
      <4>2. m \in Nat /\ m1 \in Nat /\ m1 <= m
        <5>1. Untried(a, c) \ {q} \in SUBSET Passes /\ Untried(a, c)' \ {q} \in SUBSET (Untried(a, c) \ {q})
          BY <2>3, <2>4
        <5> QED
          BY <5>1, CountPart
      <4>3. pass'[q].items[a][c].attempts = n
        BY <2>2
      <4> HIDE DEF m, m1, n
      <4>4. tried[a][c] + m1 <= n + overlaps'[a]
        BY <2>4, <2>6, <4>1, <4>2
      <4> QED
        BY <4>1, <4>3, <4>4 DEF m1
    <3> QED
      BY <1>1, <2>9, <3>1, <3>2, <3>3 DEF TriedCounted, nt1
  <2> QED
    BY <2>10, <2>11
<1> QED
  BY <1>4, <1>5, <1>6 DEF CountInv, DeliveriesCounted

\* Channels, time and steps that change nothing.
LEMMA OtherStepsKeep ==
    ASSUME AlertInv, UNCHANGED <<pass, raised, sent, tried, overlaps>>,
           \/ UNCHANGED deliveries
           \/ \E b \in Alerts, d \in Channels : Elapse(b, d)
    PROVE  CountInv'
<1>0. AlertTypeOK /\ FreshInv /\ DeliveriesCounted /\ PassInv
  BY DEF AlertInv, CountInv
<1>1. PassInv'
  BY <1>0 DEF PassInv
<1>2. \A a \in Alerts, c \in Channels : /\ deliveries'[a][c].status = deliveries[a][c].status
                                        /\ deliveries'[a][c].attempts = deliveries[a][c].attempts
  <2>1. ASSUME NEW b \in Alerts, NEW d \in Channels, Elapse(b, d), NEW a \in Alerts, NEW c \in Channels
        PROVE  /\ deliveries'[a][c].status = deliveries[a][c].status
               /\ deliveries'[a][c].attempts = deliveries[a][c].attempts
    <3>1. deliveries' = [deliveries EXCEPT ![b] = [deliveries[b] EXCEPT ![d] = [deliveries[b][d] EXCEPT !.next = "due"]]]
      BY <2>1 DEF Elapse
    <3>2. deliveries[b] \in [Channels -> Items] /\ deliveries[b][d] \in Items
      BY <1>0 DEF AlertTypeOK
    <3>3. /\ [deliveries[b][d] EXCEPT !.next = "due"].status = deliveries[b][d].status
          /\ [deliveries[b][d] EXCEPT !.next = "due"].attempts = deliveries[b][d].attempts
      BY <3>2 DEF Items
    <3>4. CASE a = b /\ c = d
      <4>1. deliveries'[a][c] = [deliveries[b][d] EXCEPT !.next = "due"]
        BY <1>0, <3>1, <3>2, <3>4 DEF AlertTypeOK
      <4> QED
        BY <3>3, <3>4, <4>1
    <3>5. CASE a # b \/ c # d
      <4>1. deliveries'[a][c] = deliveries[a][c]
        BY <1>0, <3>1, <3>2, <3>5 DEF AlertTypeOK
      <4> QED
        BY <4>1
    <3> QED
      BY <3>4, <3>5
  <2> QED
    BY <2>1
<1>3. FreshInv'
  <2>1. ASSUME NEW b \in Alerts, NEW d \in Channels, Elapse(b, d), NEW a \in Alerts, a > raised
        PROVE  deliveries'[a] = NotSaved
    <3>1. deliveries[a] = NotSaved /\ b # a
      BY <1>0, <2>1 DEF FreshInv, Elapse, NotSaved, NoItem
    <3> QED
      BY <1>0, <2>1, <3>1 DEF Elapse, AlertTypeOK
  <2> QED
    BY <1>0, <2>1 DEF FreshInv
<1>4. ASSUME NEW a \in Alerts, NEW c \in Channels PROVE SentCounted(a, c)' /\ TriedCounted(a, c)'
  <2>1. SentCounted(a, c) /\ TriedCounted(a, c)
    BY <1>0 DEF DeliveriesCounted
  <2>2. Holders(a)' = Holders(a) /\ Unsaved(a)' = Unsaved(a)
    BY DEF Holders, Unsaved
  <2>3. Unsent(a, c)' = Unsent(a, c) /\ Untried(a, c)' = Untried(a, c)
    BY <2>2 DEF Unsent, Untried
  <2> QED
    BY <1>0, <1>2, <2>1, <2>2, <2>3, NothingNew
<1> QED
  BY <1>1, <1>3, <1>4 DEF CountInv, DeliveriesCounted

\* The invariant that counts the passes.
LEMMA AlertInvariant == AlertSpec => []AlertInv
<1>1. AlertInit => CountInv
  <2> SUFFICES ASSUME AlertInit PROVE CountInv
    OBVIOUS
  <2>1. /\ deliveries = [a \in Alerts |-> NotSaved] /\ raised = 0 /\ pass = [p \in Passes |-> Idle]
        /\ sent = [a \in Alerts |-> [c \in Channels |-> 0]]
        /\ tried = [a \in Alerts |-> [c \in Channels |-> 0]]
        /\ overlaps = [a \in Alerts |-> 0]
    BY DEF AlertInit
  <2>2. Idle.open = {} /\ Idle.at = 0 /\ Idle.left = {}
    BY DEF Idle
  <2>3. PassInv
    BY <2>1, <2>2 DEF PassInv
  <2>4. FreshInv
    BY <2>1 DEF FreshInv
  <2>5. ASSUME NEW a \in Alerts, NEW c \in Channels PROVE SentCounted(a, c) /\ TriedCounted(a, c)
    <3>1. Holders(a) = {} /\ Unsent(a, c) = {} /\ Untried(a, c) = {}
      BY <2>1, <2>2 DEF Holders, Unsent, Untried
    <3>2. sent[a][c] = 0 /\ tried[a][c] = 0 /\ overlaps[a] = 0 /\ deliveries[a][c].attempts = 0
      BY <2>1 DEF NotSaved, NoItem
    <3>3. Cardinality(Unsent(a, c)) = 0 /\ Cardinality(Untried(a, c)) = 0
      BY <3>1, FS_EmptySet
    <3> QED
      BY <3>1, <3>2, <3>3 DEF SentCounted, TriedCounted
  <2> QED
    BY <2>3, <2>4, <2>5 DEF CountInv, DeliveriesCounted
<1>2. AlertInv /\ [AlertNext]_alertVars => CountInv'
  <2> SUFFICES ASSUME AlertInv, [AlertNext]_alertVars PROVE CountInv'
    OBVIOUS
  <2>0. AlertTypeOK
    BY DEF AlertInv
  <2>1. ASSUME NEW j \in Jobs, DeliverNext(j) PROVE CountInv'
    BY <2>1, NextKeeps DEF Passes
  <2>2. ASSUME NEW j \in Jobs, NEW n \in Alerts, Raise(j, n) PROVE CountInv'
    BY <2>2, RaiseKeeps
  <2>3. ASSUME NEW s \in Schedulers, AutoRead(s) PROVE CountInv'
    <3>1. s \in Passes /\ Reads(s, WithWork) /\ pass'[s].at = 0 /\ pass'[s].left = {}
      BY <2>0, <2>3, AutoReadEffect DEF Passes
    <3> QED
      BY <3>1, ReadKeeps
  <2>4. ASSUME NEW s \in Schedulers, AutoNext(s) PROVE CountInv'
    <3>1. s \in Passes /\ s \notin Jobs
      BY AlertAssumption DEF Passes
    <3> QED
      BY <2>4, <3>1, NextKeeps
  <2>5. ASSUME NEW r \in Requests, NEW a \in Alerts, NEW channels, ManualRead(r, a, channels)
        PROVE  CountInv'
    <3>1. r \in Passes /\ Reads(r, {a}) /\ pass'[r].at = a /\ pass'[r].left = Failed(deliveries[a]) \cap channels
      BY <2>0, <2>5, ManualReadEffect DEF Passes
    <3>2. \A c \in pass'[r].left : pass'[r].items[pass'[r].at][c].status # "SENT"
      BY <3>1 DEF Reads, Failed
    <3> QED
      BY <3>1, <3>2, ReadKeeps
  <2>6. ASSUME NEW p \in Passes, NEW c \in Channels, Try(p, c) PROVE CountInv'
    BY <2>6, TryKeeps
  <2>7. ASSUME NEW p \in Passes, Save(p) PROVE CountInv'
    BY <2>7, SaveKeeps
  <2>8. ASSUME NEW c \in Channels, \/ SwitchChannel(c) \/ DeleteChannel(c)
                                   \/ \E t \in 0..1 : MoveThreshold(c, t)
        PROVE  CountInv'
    <3>1. UNCHANGED <<pass, raised, sent, tried, overlaps, deliveries>>
      BY <2>8 DEF SwitchChannel, DeleteChannel, MoveThreshold, alertGhosts
    <3> QED
      BY <3>1, OtherStepsKeep
  <2>9. ASSUME NEW a \in Alerts, GrowOld(a) PROVE CountInv'
    <3>1. UNCHANGED <<pass, raised, sent, tried, overlaps, deliveries>>
      BY <2>9 DEF GrowOld, alertGhosts
    <3> QED
      BY <3>1, OtherStepsKeep
  <2>10. ASSUME NEW a \in Alerts, NEW c \in Channels, Elapse(a, c) PROVE CountInv'
    <3>1. UNCHANGED <<pass, raised, sent, tried, overlaps>>
      BY <2>10 DEF Elapse, alertGhosts
    <3> QED
      BY <2>10, <3>1, OtherStepsKeep
  <2>11. ASSUME NEW i, Crash(i) PROVE CountInv'
    BY <2>11, CrashKeeps
  <2>12. CASE UNCHANGED alertVars
    <3>1. UNCHANGED <<pass, raised, sent, tried, overlaps, deliveries>>
      BY <2>12 DEF alertVars
    <3> QED
      BY <3>1, OtherStepsKeep
  <2> QED
    BY <2>1, <2>2, <2>3, <2>4, <2>5, <2>6, <2>7, <2>8, <2>9, <2>10, <2>11, <2>12
    DEF AlertNext, Step
<1>3. AlertTypeOK /\ RestInv /\ CountInv <=> AlertInv
  BY DEF AlertInv
<1>4. AlertSpec => [](AlertTypeOK /\ RestInv)
  BY AlertTypes
<1> QED
  BY <1>1, <1>2, <1>3, <1>4, PTL DEF AlertSpec

\* A channel gets an alert a second time only for a cause: another pass read the array
\* while one was at work on it, or a process died before it wrote it.
THEOREM NoDuplicateWithoutCause == AlertSpec => []DuplicateHasCause
<1>1. AlertInv => DuplicateHasCause
  <2> SUFFICES ASSUME AlertInv, NEW a \in Alerts, NEW c \in Channels PROVE sent[a][c] <= 1 + overlaps[a]
    BY DEF DuplicateHasCause
  <2>1. sent[a][c] + Cardinality(Unsent(a, c)) <= overlaps[a] + 1
    BY DEF AlertInv, CountInv, DeliveriesCounted, SentCounted
  <2>2. sent[a][c] \in Nat /\ overlaps[a] \in Nat /\ Unsent(a, c) \subseteq Passes
    BY CountTypes DEF AlertInv
  <2>3. Cardinality(Unsent(a, c)) \in Nat
    BY <2>2, CountPart
  <2> QED
    BY <2>1, <2>2, <2>3
<1> QED
  BY <1>1, AlertInvariant, PTL

\* The attempts on record are never more than the sends made and, between passes, fewer
\* only for such a cause.
THEOREM NoAttemptForgotten == AlertSpec => []AttemptsAccounted
<1>1. AlertInv => AttemptsAccounted
  <2> SUFFICES ASSUME AlertInv, NEW a \in Alerts, NEW c \in Channels
               PROVE  /\ deliveries[a][c].attempts <= tried[a][c]
                      /\ ~Held(a) => tried[a][c] <= deliveries[a][c].attempts + overlaps[a]
    BY DEF AttemptsAccounted
  <2>1. TriedCounted(a, c)
    BY DEF AlertInv, CountInv, DeliveriesCounted
  <2>2. ~Held(a) => Unsaved(a) = {}
    BY PassFacts, AlertNumbers DEF Held, Unsaved
  <2> QED
    BY <2>1, <2>2 DEF TriedCounted
<1> QED
  BY <1>1, AlertInvariant, PTL

\* Every variable of the delivery keeps its type.
THEOREM AlertsTypeCorrect == AlertSpec => []AlertTypeOK
BY AlertTypes, PTL

------------------------------------------------------------------------------
(* Retention: a row is deleted only when a later one of its asset exists.   *)

HasLater(s) == \E t \in 1..created : t > s /\ assetOf[t] = assetOf[s]

\* A purge that read the protected rows may later doom only rows that are not the latest,
\* for what was queued since is newer than its limit.
PurgeInv ==
    \A u \in Purges :
        /\ purge[u].pc = "read" =>
             \A s \in Present : s <= purge[u].limit /\ s \notin purge[u].protected => HasLater(s)
        /\ purge[u].pc = "delete" => \A s \in purge[u].doomed : HasLater(s)

RowInv == \A s \in Rows : /\ s > created => row[s] = "none"
                          /\ row[s] = "gone" => HasLater(s)

RetentionInv == RetentionTypeOK /\ PurgeInv /\ RowInv

\* The rows are numbered from 1.
LEMMA RowNumbers == Cardinality(Rows) \in Nat /\ Rows = 1..Cardinality(Rows)
BY RetentionAssumption, FS_CardinalityType

\* The types of the retention are kept.
LEMMA RetentionTypesStep ==
    ASSUME RetentionTypeOK, [RetentionNext]_retentionVars PROVE RetentionTypeOK'
<1> DEFINE Purging(n) == [pc : {"idle", "read", "delete"}, limit : 0..n,
                          protected : SUBSET Rows, doomed : SUBSET Rows]
<1>0. /\ row \in [Rows -> {"none", "open", "final", "gone"}] /\ assetOf \in [Rows -> Owned]
      /\ created \in 0..Cardinality(Rows) /\ expired \in 0..created /\ created \in Nat
      /\ purge \in [Purges -> Purging(created)] /\ \A u \in Purges : purge[u] \in Purging(created)
  BY RowNumbers DEF RetentionTypeOK
<1>1. NoPurge \in Purging(created)
  BY <1>0 DEF NoPurge
<1>2. ASSUME NEW u \in Purges, ReadLatest(u) PROVE RetentionTypeOK'
  <2> DEFINE k == [NoPurge EXCEPT !.pc = "read", !.limit = expired, !.protected = LatestRows]
  <2>1. LatestRows \in SUBSET Rows
    BY DEF LatestRows, Present
  <2>2. k \in Purging(created)
    BY <1>0, <2>1 DEF NoPurge
  <2>3. purge' = [purge EXCEPT ![u] = k] /\ UNCHANGED <<row, assetOf, created, expired>>
    BY <1>2 DEF ReadLatest
  <2> HIDE DEF k
  <2> QED
    BY <1>0, <2>2, <2>3 DEF RetentionTypeOK
<1>3. ASSUME NEW u \in Purges, ReadOld(u) PROVE RetentionTypeOK'
  <2> DEFINE k == [[purge[u] EXCEPT !.pc = "delete"]
                     EXCEPT !.doomed = OldAndFinal(purge[u].limit) \ purge[u].protected]
  <2>1. OldAndFinal(purge[u].limit) \in SUBSET Rows
    BY DEF OldAndFinal, Present
  <2>2. k \in Purging(created)
    <3>1. [purge[u] EXCEPT !.pc = "delete"] \in Purging(created)
      BY <1>0
    <3> QED
      BY <2>1, <3>1
  <2>3. purge' = [purge EXCEPT ![u] = k] /\ UNCHANGED <<row, assetOf, created, expired>>
    BY <1>0, <1>3 DEF ReadOld
  <2> HIDE DEF k
  <2> QED
    BY <1>0, <2>2, <2>3 DEF RetentionTypeOK
<1>4. ASSUME NEW u \in Purges, DeleteOld(u) PROVE RetentionTypeOK'
  <2>1. /\ purge' = [purge EXCEPT ![u] = NoPurge] /\ UNCHANGED <<assetOf, created, expired>>
        /\ row' = [s \in Rows |-> IF s \in purge[u].doomed THEN "gone" ELSE row[s]]
    BY <1>4 DEF DeleteOld
  <2>2. row' \in [Rows -> {"none", "open", "final", "gone"}]
    BY <1>0, <2>1
  <2>3. purge' \in [Purges -> Purging(created)]
    BY <1>0, <1>1, <2>1
  <2> QED
    BY <1>0, <2>1, <2>2, <2>3 DEF RetentionTypeOK
<1>5. CASE CreateRow
  <2>1. /\ created + 1 \in Rows /\ created' = created + 1
        /\ row' = [row EXCEPT ![created + 1] = "open"] /\ UNCHANGED <<assetOf, expired, purge>>
    BY <1>5 DEF CreateRow
  <2>2. created' \in 0..Cardinality(Rows) /\ expired \in 0..created' /\ 0..created \subseteq 0..created'
    BY <1>0, <2>1, RowNumbers
  <2>3. row' \in [Rows -> {"none", "open", "final", "gone"}]
    BY <1>0, <2>1
  <2>4. \A u \in Purges : purge[u] \in Purging(created')
    BY <1>0, <2>2
  <2>5. purge \in [Purges -> Purging(created')]
    BY <1>0, <2>4
  <2> QED
    BY <1>0, <2>1, <2>2, <2>3, <2>5 DEF RetentionTypeOK
<1>6. ASSUME NEW s \in Rows, FinishRow(s) PROVE RetentionTypeOK'
  <2>1. row' = [row EXCEPT ![s] = "final"] /\ UNCHANGED <<assetOf, created, expired, purge>>
    BY <1>6 DEF FinishRow
  <2> QED
    BY <1>0, <2>1 DEF RetentionTypeOK
<1>7. CASE ExpireRow
  <2>1. expired < created /\ expired' = expired + 1 /\ UNCHANGED <<row, assetOf, created, purge>>
    BY <1>7 DEF ExpireRow
  <2>2. expired' \in 0..created
    BY <1>0, <2>1
  <2> QED
    BY <1>0, <2>1, <2>2 DEF RetentionTypeOK
<1>8. CASE UNCHANGED retentionVars
  BY <1>8 DEF retentionVars, RetentionTypeOK
<1> QED
  BY <1>2, <1>3, <1>4, <1>5, <1>6, <1>7, <1>8 DEF RetentionNext

\* The invariant of the retention holds in every state.
LEMMA RetentionInvariant == RetentionSpec => []RetentionInv
<1>1. RetentionInit => RetentionInv
  <2> SUFFICES ASSUME RetentionInit PROVE RetentionInv
    OBVIOUS
  <2>1. RetentionTypeOK
    BY RowNumbers DEF RetentionInit, RetentionTypeOK, NoPurge
  <2> QED
    BY <2>1 DEF RetentionInit, RetentionInv, PurgeInv, RowInv, NoPurge
<1>2. RetentionInv /\ [RetentionNext]_retentionVars => RetentionInv'
  <2> SUFFICES ASSUME RetentionInv, [RetentionNext]_retentionVars PROVE RetentionInv'
    OBVIOUS
  <2>1. RetentionTypeOK'
    BY RetentionTypesStep DEF RetentionInv
  <2>2. /\ row \in [Rows -> {"none", "open", "final", "gone"}] /\ PurgeInv /\ RowInv
        /\ created \in Nat /\ \A u \in Purges : purge[u].limit \in 0..created
        /\ expired \in 0..created /\ Rows \subseteq Nat \ {0} /\ DOMAIN purge = Purges
        /\ \A u \in Purges : DOMAIN purge[u] = {"pc", "limit", "protected", "doomed"}
    BY RowNumbers DEF RetentionInv, RetentionTypeOK
  <2>3. created' = created \/ created' = created + 1
    BY <2>2 DEF RetentionNext, retentionVars, ReadLatest, ReadOld, DeleteOld, CreateRow, FinishRow, ExpireRow
  <2>4. assetOf' = assetOf
    BY DEF RetentionNext, retentionVars, ReadLatest, ReadOld, DeleteOld, CreateRow, FinishRow, ExpireRow
  <2>5. \A s \in Rows : HasLater(s) => HasLater(s)'
    BY <2>2, <2>3, <2>4 DEF HasLater
  <2>6. ASSUME NEW u \in Purges, ReadLatest(u) PROVE PurgeInv' /\ RowInv'
    <3>1. /\ purge' = [purge EXCEPT ![u] = [NoPurge EXCEPT !.pc = "read", !.limit = expired,
                                                       !.protected = LatestRows]]
          /\ UNCHANGED <<row, assetOf, created, expired>>
      BY <2>6 DEF ReadLatest
    <3>2. purge'[u].pc = "read" /\ purge'[u].protected = LatestRows
      BY <2>2, <3>1 DEF NoPurge
    <3>3. \A v \in Purges \ {u} : purge'[v] = purge[v]
      BY <2>2, <3>1
    <3>4. ASSUME NEW s \in Present, s \notin LatestRows PROVE HasLater(s)
      <4>1. PICK t \in Present : assetOf[t] = assetOf[s] /\ ~(t <= s)
        BY <3>4 DEF LatestRows
      <4>2. t \in Rows /\ s \in Rows /\ ~(t > created)
        BY <2>2 DEF Present, RowInv
      <4> QED
        <5>1. s \in Nat /\ t \in Nat \ {0}
          BY <2>2, <4>2
        <5> QED
          BY <2>2, <4>1, <4>2, <5>1 DEF HasLater
    <3>5. Present' = Present /\ \A s : HasLater(s)' = HasLater(s)
      BY <3>1 DEF Present, HasLater
    <3>6. RowInv'
      BY <2>2, <3>1, <3>5 DEF RowInv
    <3>7. PurgeInv'
      BY <2>2, <3>2, <3>3, <3>4, <3>5 DEF PurgeInv
    <3> QED
      BY <3>6, <3>7
  <2>7. ASSUME NEW u \in Purges, ReadOld(u) PROVE PurgeInv' /\ RowInv'
    <3>1. /\ purge[u].pc = "read" /\ UNCHANGED <<row, assetOf, created, expired>>
          /\ purge' = [purge EXCEPT ![u] = [[purge[u] EXCEPT !.pc = "delete"]
                         EXCEPT !.doomed = OldAndFinal(purge[u].limit) \ purge[u].protected]]
      BY <2>2, <2>7 DEF ReadOld
    <3>2. purge'[u].pc = "delete" /\ purge'[u].doomed = OldAndFinal(purge[u].limit) \ purge[u].protected
      BY <2>2, <3>1
    <3>3. \A v \in Purges \ {u} : purge'[v] = purge[v]
      BY <2>2, <3>1
    <3>4. \A s \in purge'[u].doomed : HasLater(s)
      BY <2>2, <3>1, <3>2 DEF PurgeInv, OldAndFinal
    <3>5. Present' = Present /\ \A s : HasLater(s)' = HasLater(s)
      BY <3>1 DEF Present, HasLater
    <3>6. RowInv'
      BY <2>2, <3>1, <3>5 DEF RowInv
    <3>7. PurgeInv'
      BY <2>2, <3>2, <3>3, <3>4, <3>5 DEF PurgeInv
    <3> QED
      BY <3>6, <3>7
  <2>8. ASSUME NEW u \in Purges, DeleteOld(u) PROVE PurgeInv' /\ RowInv'
    <3>1. /\ purge[u].pc = "delete" /\ UNCHANGED <<assetOf, created, expired>>
          /\ purge' = [purge EXCEPT ![u] = NoPurge]
          /\ row' = [s \in Rows |-> IF s \in purge[u].doomed THEN "gone" ELSE row[s]]
      BY <2>8 DEF DeleteOld
    <3>2. purge'[u].pc = "idle" /\ \A v \in Purges \ {u} : purge'[v] = purge[v]
      BY <2>2, <3>1 DEF NoPurge
    <3>3. \A s \in purge[u].doomed : HasLater(s)
      BY <2>2, <3>1 DEF PurgeInv
    <3>4. Present' \subseteq Present /\ \A s : HasLater(s)' = HasLater(s)
      BY <3>1 DEF Present, HasLater
    <3>5. ASSUME NEW s \in Rows
          PROVE  /\ s > created => row'[s] = "none"
                 /\ row'[s] = "gone" => HasLater(s)
      <4>1. s > created => ~HasLater(s)
        BY <2>2 DEF HasLater
      <4> QED
        BY <2>2, <3>1, <3>3, <4>1 DEF RowInv
    <3>6. RowInv'
      BY <3>1, <3>4, <3>5 DEF RowInv
    <3>7. PurgeInv'
      BY <2>2, <3>2, <3>4 DEF PurgeInv
    <3> QED
      BY <3>6, <3>7
  <2>9. CASE CreateRow
    <3>1. /\ created + 1 \in Rows /\ created' = created + 1 /\ purge' = purge
          /\ row' = [row EXCEPT ![created + 1] = "open"]
      BY <2>9 DEF CreateRow
    <3>2. Present' \subseteq Present \cup {created + 1}
      BY <2>2, <3>1 DEF Present
    <3>3. PurgeInv'
      <4>1. ASSUME NEW u \in Purges, purge[u].pc = "read", NEW s \in Present', s <= purge[u].limit,
                   s \notin purge[u].protected
            PROVE  HasLater(s)'
        <5>1. s \in Present /\ s \in Rows
          BY <2>2, <3>2, <4>1 DEF Present
        <5> QED
          BY <2>2, <2>5, <4>1, <5>1 DEF PurgeInv
      <4>2. ASSUME NEW u \in Purges, purge[u].pc = "delete", NEW s \in purge[u].doomed PROVE HasLater(s)'
        <5>1. s \in Rows
          BY <4>2 DEF RetentionInv, RetentionTypeOK
        <5> QED
          BY <2>2, <2>5, <4>2, <5>1 DEF PurgeInv
      <4> QED
        BY <3>1, <4>1, <4>2 DEF PurgeInv
    <3>4. RowInv'
      <4> SUFFICES ASSUME NEW s \in Rows
                   PROVE  (s > created' => row'[s] = "none") /\ (row'[s] = "gone" => HasLater(s)')
        BY DEF RowInv
      <4>1. CASE s = created + 1
        BY <2>2, <3>1, <4>1
      <4>2. CASE s # created + 1
        <5>1. s \in Nat /\ row'[s] = row[s]
          BY <2>2, <3>1, <4>2
        <5> QED
          BY <2>2, <2>5, <3>1, <4>2, <5>1 DEF RowInv
      <4> QED
        BY <4>1, <4>2
    <3> QED
      BY <2>1, <3>3, <3>4 DEF RetentionInv
  <2>10. ASSUME NEW r \in Rows, FinishRow(r) PROVE PurgeInv' /\ RowInv'
    <3>1. row[r] = "open" /\ row' = [row EXCEPT ![r] = "final"] /\ UNCHANGED <<assetOf, created, purge>>
      BY <2>10 DEF FinishRow
    <3>2. Present' = Present /\ \A s : HasLater(s)' = HasLater(s)
      BY <2>2, <3>1 DEF Present, HasLater
    <3> QED
      BY <2>2, <3>1, <3>2 DEF PurgeInv, RowInv
  <2>11. CASE ExpireRow \/ UNCHANGED retentionVars
    <3>1. UNCHANGED <<row, assetOf, created, purge>>
      BY <2>11 DEF ExpireRow, retentionVars
    <3>2. Present' = Present /\ \A s : HasLater(s)' = HasLater(s)
      BY <3>1 DEF Present, HasLater
    <3> QED
      BY <2>1, <2>2, <3>1, <3>2 DEF PurgeInv, RowInv, RetentionInv
  <2> QED
    BY <2>1, <2>6, <2>7, <2>8, <2>9, <2>10, <2>11 DEF RetentionNext, RetentionInv
<1> QED
  BY <1>1, <1>2, PTL DEF RetentionSpec

\* The latest scan of an asset is never purged, whatever was queued or purged between
\* the reads and the DELETE.
THEOREM LastScanIsKept == RetentionSpec => []LatestSurvives
<1>1. RetentionInv => LatestSurvives
  <2> SUFFICES ASSUME RetentionInv, NEW s \in 1..created,
                      \A t \in 1..created : assetOf[t] = assetOf[s] => t <= s,
                      row[s] = "gone"
               PROVE  FALSE
    BY DEF LatestSurvives
  <2>1. s \in Rows
    BY RowNumbers DEF RetentionInv, RetentionTypeOK
  <2> QED
    BY <2>1 DEF RetentionInv, RowInv, HasLater
<1> QED
  BY <1>1, RetentionInvariant, PTL

\* Every variable of the retention keeps its type.
THEOREM RetentionTypeCorrect == RetentionSpec => []RetentionTypeOK
BY RetentionInvariant, PTL DEF RetentionInv

------------------------------------------------------------------------------
(* Continuous monitoring: a claim keeps the others away for a period.       *)

\* A pass ends with nothing left to claim and no claim.
PassEnds == \A t \in Timers : /\ timer[t].on => ~timer[t].ran
                              /\ ~timer[t].on => timer[t].due = {} /\ timer[t].claimed = {}

\* Scans are queued at most MaxLag ticks after the start of the pass that claimed them.
AuditFollowsClaim == \A a \in Assets : audited[a] = LongAgo \/ age[a] <= audited[a] + MaxLag

\* While a pass holds a claim the row shows its start, which is too near for another
\* to claim the asset, and the last audit was long before.
ClaimsAreApart ==
    \A t \in Timers : \A a \in timer[t].claimed :
        /\ age[a] = timer[t].lag
        /\ audited[a] > PeriodOf["DAILY"] - Slack - MaxLag
        /\ \A u \in Timers : a \in timer[u].claimed => u = t

\* (A pass that lasts longer than a period less the slack leaves nothing to promise.)
PassesAreShort == MaxLag <= PeriodOf["DAILY"] - Slack

MonitoringInv ==
    /\ MonitoringTypeOK /\ PassEnds
    /\ PassesAreShort => AuditFollowsClaim /\ ClaimsAreApart

Timer == [on : BOOLEAN, ran : BOOLEAN, lag : 0..MaxLag, round : {"DAILY", "WEEKLY"},
          room : 0..BatchSize, read : BOOLEAN, due : SUBSET Assets, claimed : SUBSET Assets]

\* The periods and what saturates.
LEMMA MonitoringNumbers ==
    /\ PeriodOf["DAILY"] \in Nat /\ PeriodOf["WEEKLY"] \in Nat /\ Slack \in Nat
    /\ Slack < PeriodOf["DAILY"] /\ PeriodOf["DAILY"] < PeriodOf["WEEKLY"]
    /\ BatchSize \in Nat \ {0} /\ MaxLag \in Nat \ {0} /\ MaxTrouble \in Nat
    /\ Never \in Nat /\ Never = PeriodOf["WEEKLY"] + MaxLag + 1 /\ LongAgo = PeriodOf["DAILY"]
    /\ \A f \in {"DAILY", "WEEKLY"} : PeriodOf[f] \in Nat /\ PeriodOf["DAILY"] <= PeriodOf[f]
BY MonitoringAssumption DEF Never, LongAgo

\* A step of the pass of instance t leaves the other passes alone.
OnlyTimer(t) == timer' \in [Timers -> Timer] /\ \A u \in Timers \ {t} : timer'[u] = timer[u]

\* Writing the pass of one instance leaves the others alone.
LEMMA TimerWritten ==
    ASSUME MonitoringTypeOK, NEW t \in Timers, NEW k \in Timer, timer' = [timer EXCEPT ![t] = k]
    PROVE  OnlyTimer(t) /\ timer'[t] = k
BY DEF MonitoringTypeOK, Timer, OnlyTimer

\* Writing one field of a pass gives a pass.
LEMMA FieldOfTimer ==
    ASSUME NEW k \in Timer
    PROVE  /\ \A b \in BOOLEAN : [k EXCEPT !.on = b] \in Timer /\ [k EXCEPT !.ran = b] \in Timer
           /\ \A n \in 0..MaxLag : [k EXCEPT !.lag = n] \in Timer
           /\ \A r \in {"DAILY", "WEEKLY"} : [k EXCEPT !.round = r] \in Timer
           /\ \A n \in 0..BatchSize : [k EXCEPT !.room = n] \in Timer
           /\ \A b \in BOOLEAN : [k EXCEPT !.read = b] \in Timer
           /\ \A S \in SUBSET Assets : [k EXCEPT !.due = S] \in Timer
           /\ \A S \in SUBSET Assets : [k EXCEPT !.claimed = S] \in Timer
<1>1. ASSUME NEW n \in 0..MaxLag PROVE [k EXCEPT !.lag = n] \in Timer
  BY SMT DEF Timer
<1>2. ASSUME NEW r \in {"DAILY", "WEEKLY"} PROVE [k EXCEPT !.round = r] \in Timer
  BY SMT DEF Timer
<1>3. ASSUME NEW n \in 0..BatchSize PROVE [k EXCEPT !.room = n] \in Timer
  BY SMT DEF Timer
<1>4. ASSUME NEW b \in BOOLEAN PROVE [k EXCEPT !.read = b] \in Timer
  BY SMT DEF Timer
<1>5. ASSUME NEW S \in SUBSET Assets PROVE [k EXCEPT !.due = S] \in Timer
  BY SMT DEF Timer
<1>6. ASSUME NEW S \in SUBSET Assets PROVE [k EXCEPT !.claimed = S] \in Timer
  BY SMT DEF Timer
<1>7. ASSUME NEW b \in BOOLEAN PROVE [k EXCEPT !.on = b] \in Timer
  BY SMT DEF Timer
<1>8. ASSUME NEW b \in BOOLEAN PROVE [k EXCEPT !.ran = b] \in Timer
  BY SMT DEF Timer
<1> QED
  BY <1>1, <1>2, <1>3, <1>4, <1>5, <1>6, <1>7, <1>8

\* A pass that begins, and an instance between two ticks.
LEMMA RestingIsTimer ==
    /\ Resting \in Timer /\ [Resting EXCEPT !.on = TRUE] \in Timer /\ [Resting EXCEPT !.ran = TRUE] \in Timer
    /\ Resting.due = {} /\ Resting.claimed = {} /\ ~Resting.on /\ ~Resting.ran /\ Resting.lag = 0
    /\ [Resting EXCEPT !.on = TRUE].on /\ [Resting EXCEPT !.on = TRUE].claimed = {}
    /\ ~[Resting EXCEPT !.on = TRUE].ran
    /\ ~[Resting EXCEPT !.ran = TRUE].on /\ [Resting EXCEPT !.ran = TRUE].claimed = {}
      /\ [Resting EXCEPT !.ran = TRUE].due = {}
<1>1. Resting \in Timer
  <2>1. BatchSize \in 0..BatchSize /\ 0 \in 0..MaxLag
    BY MonitoringAssumption
  <2> QED
    BY <2>1 DEF Resting, Timer
<1>2. [Resting EXCEPT !.on = TRUE] \in Timer
  BY <1>1, FieldOfTimer
<1>3. [Resting EXCEPT !.ran = TRUE] \in Timer
  BY <1>1, FieldOfTimer
<1>4. /\ Resting.due = {} /\ Resting.claimed = {} /\ ~Resting.on /\ ~Resting.ran /\ Resting.lag = 0
      /\ [Resting EXCEPT !.on = TRUE].on /\ [Resting EXCEPT !.on = TRUE].claimed = {}
      /\ ~[Resting EXCEPT !.on = TRUE].ran
      /\ ~[Resting EXCEPT !.ran = TRUE].on /\ [Resting EXCEPT !.ran = TRUE].claimed = {}
      /\ [Resting EXCEPT !.ran = TRUE].due = {}
  BY DEF Resting
<1> QED
  BY <1>1, <1>2, <1>3, <1>4

\* The steps of a pass: what it reads ...
LEMMA ReadDueEffect ==
    ASSUME MonitoringTypeOK, NEW t \in Timers, ReadDue(t)
    PROVE  /\ OnlyTimer(t) /\ UNCHANGED <<age, frequency, monitorable, audited, trouble>>
           /\ timer'[t].on = timer[t].on /\ timer'[t].ran = timer[t].ran
           /\ timer'[t].lag = timer[t].lag /\ timer'[t].claimed = timer[t].claimed
           /\ timer[t].on
<1> DEFINE set == {a \in Assets : DueFor(a, timer[t].round, timer[t].lag)}
<1>0. timer \in [Timers -> Timer] /\ timer[t] \in Timer
  BY DEF MonitoringTypeOK, Timer
<1>1. PICK batch \in MostOverdue(set, timer[t].room) :
        timer' = [timer EXCEPT ![t] = [[[timer[t] EXCEPT !.read = TRUE] EXCEPT !.due = batch]
                                         EXCEPT !.room = timer[t].room - Cardinality(batch)]]
  BY <1>0 DEF ReadDue
<1>2. batch \in SUBSET Assets /\ timer[t].room - Cardinality(batch) \in 0..BatchSize
  <2>1. batch \in SUBSET set /\ Cardinality(batch) = IF Cardinality(set) < timer[t].room
                                                       THEN Cardinality(set) ELSE timer[t].room
    BY DEF MostOverdue
  <2>2. Cardinality(set) \in Nat
    BY MonitoringAssumption, FS_Subset, FS_CardinalityType
  <2>3. timer[t].room \in 0..BatchSize
    BY <1>0 DEF Timer
  <2> HIDE DEF set
  <2>4. timer[t].room - Cardinality(batch) \in 0..BatchSize
    BY <2>1, <2>2, <2>3, MonitoringNumbers
  <2> QED
    BY <2>1, <2>4 DEF set
<1> DEFINE k == [[[timer[t] EXCEPT !.read = TRUE] EXCEPT !.due = batch]
                   EXCEPT !.room = timer[t].room - Cardinality(batch)]
<1>3. k \in Timer
  <2>1. [timer[t] EXCEPT !.read = TRUE] \in Timer
    BY <1>0, FieldOfTimer
  <2>2. [[timer[t] EXCEPT !.read = TRUE] EXCEPT !.due = batch] \in Timer
    BY <1>2, <2>1, FieldOfTimer
  <2> QED
    BY <1>2, <2>2, FieldOfTimer
<1>4. /\ k.on = timer[t].on /\ k.ran = timer[t].ran /\ k.lag = timer[t].lag
      /\ k.claimed = timer[t].claimed
  BY <1>0 DEF Timer
<1>5. timer[t].on /\ UNCHANGED <<age, frequency, monitorable, audited, trouble>>
  BY DEF ReadDue
<1> HIDE DEF k
<1> QED
  BY <1>1, <1>3, <1>4, <1>5, TimerWritten DEF k

\* ... what it claims, if the asset is still due ...
LEMMA ClaimEffect ==
    ASSUME MonitoringTypeOK, NEW t \in Timers, NEW a \in Assets, Claim(t, a)
    PROVE  /\ OnlyTimer(t) /\ UNCHANGED <<frequency, monitorable, audited, trouble>>
           /\ timer'[t].on = timer[t].on /\ timer'[t].ran = timer[t].ran
           /\ timer'[t].lag = timer[t].lag /\ timer[t].claimed = {}
           /\ \/ /\ DueFor(a, timer[t].round, timer[t].lag)
                 /\ age' = [age EXCEPT ![a] = timer[t].lag] /\ timer'[t].claimed = {a}
              \/ age' = age /\ timer'[t].claimed = {}
<1> DEFINE k1 == [timer[t] EXCEPT !.due = timer[t].due \ {a}]
           k2 == [k1 EXCEPT !.claimed = {a}]
<1>0. timer \in [Timers -> Timer] /\ timer[t] \in Timer /\ timer[t].due \ {a} \in SUBSET Assets
  BY DEF MonitoringTypeOK, Timer
<1>1. k1 \in Timer
  BY <1>0, FieldOfTimer
<1>2. k2 \in Timer
  BY <1>1, FieldOfTimer
<1>3. /\ k1.on = timer[t].on /\ k1.ran = timer[t].ran /\ k1.lag = timer[t].lag
      /\ k1.claimed = timer[t].claimed
  BY <1>0 DEF Timer
<1>4. /\ k2.on = k1.on /\ k2.ran = k1.ran /\ k2.lag = k1.lag /\ k2.claimed = {a}
  BY <1>1 DEF Timer
<1>5. timer[t].claimed = {} /\ UNCHANGED <<frequency, monitorable, audited, trouble>>
  BY DEF Claim
<1>6. CASE DueFor(a, timer[t].round, timer[t].lag)
  <2>1. timer' = [timer EXCEPT ![t] = k2] /\ age' = [age EXCEPT ![a] = timer[t].lag]
    BY <1>0, <1>6 DEF Claim
  <2> HIDE DEF k1, k2
  <2> QED
    BY <1>2, <1>3, <1>4, <1>5, <1>6, <2>1, TimerWritten
<1>7. CASE ~DueFor(a, timer[t].round, timer[t].lag)
  <2>1. timer' = [timer EXCEPT ![t] = k1] /\ age' = age
    BY <1>0, <1>7 DEF Claim
  <2> HIDE DEF k1, k2
  <2> QED
    BY <1>1, <1>3, <1>5, <2>1, TimerWritten
<1> QED
  BY <1>6, <1>7

\* ... and how it queues the scans, starts, ends and is stopped.
LEMMA QueueEffect ==
    ASSUME MonitoringTypeOK, NEW t \in Timers, QueueScans(t)
    PROVE  /\ OnlyTimer(t) /\ UNCHANGED <<age, frequency, monitorable>>
           /\ timer'[t].on = timer[t].on /\ timer'[t].ran = timer[t].ran
           /\ timer'[t].lag = timer[t].lag /\ timer'[t].claimed = {}
           /\ \/ UNCHANGED trouble /\ \E a \in timer[t].claimed : audited' = [audited EXCEPT ![a] = 0]
              \/ trouble < MaxTrouble /\ trouble' = trouble + 1 /\ UNCHANGED audited
<1> DEFINE k == [timer[t] EXCEPT !.claimed = {}]
<1>0. timer \in [Timers -> Timer] /\ timer[t] \in Timer
  BY DEF MonitoringTypeOK, Timer
<1>1. k \in Timer
  BY <1>0, FieldOfTimer
<1>2. k.on = timer[t].on /\ k.ran = timer[t].ran /\ k.lag = timer[t].lag /\ k.claimed = {}
  BY <1>0 DEF Timer
<1>3. timer' = [timer EXCEPT ![t] = k]
  BY DEF QueueScans
<1>4. /\ UNCHANGED <<age, frequency, monitorable>>
      /\ \/ UNCHANGED trouble /\ \E a \in timer[t].claimed : audited' = [audited EXCEPT ![a] = 0]
         \/ trouble < MaxTrouble /\ trouble' = trouble + 1 /\ UNCHANGED audited
  BY DEF QueueScans
<1> HIDE DEF k
<1> QED
  BY <1>1, <1>2, <1>3, <1>4, TimerWritten

\* What starting a pass, ending a round and stopping an instance write.
LEMMA TurnEffect ==
    ASSUME MonitoringTypeOK, NEW t \in Timers, StartPass(t) \/ EndRound(t) \/ StopInstance(t)
    PROVE  /\ OnlyTimer(t) /\ UNCHANGED <<age, frequency, monitorable, audited>>
           /\ timer'[t].on /\ timer'[t].ran => timer[t].on /\ timer[t].ran
           /\ timer'[t].claimed = {} /\ (timer'[t].on \/ timer'[t].due = {})
           /\ UNCHANGED trouble \/ (trouble < MaxTrouble /\ trouble' = trouble + 1)
           /\ StopInstance(t) => trouble' = trouble + 1
           /\ ~StopInstance(t) => timer[t].claimed = {} \/ StartPass(t)
<1>0. timer \in [Timers -> Timer] /\ timer[t] \in Timer
  BY DEF MonitoringTypeOK, Timer
<1>1. PICK k \in Timer :
        /\ timer' = [timer EXCEPT ![t] = k] /\ k.claimed = {} /\ (k.on \/ k.due = {})
        /\ k.on /\ k.ran => timer[t].on /\ timer[t].ran
  <2>1. CASE StartPass(t)
    <3> DEFINE k == [Resting EXCEPT !.on = TRUE]
    <3>1. timer' = [timer EXCEPT ![t] = k]
      BY <2>1 DEF StartPass
    <3>2. k \in Timer /\ k.claimed = {} /\ k.on /\ (k.on /\ k.ran => timer[t].on /\ timer[t].ran)
      BY RestingIsTimer
    <3> HIDE DEF k
    <3> QED
      BY <3>1, <3>2
  <2>2. CASE StopInstance(t)
    BY <2>2, RestingIsTimer DEF StopInstance
  <2>3. CASE EndRound(t)
    <3> DEFINE k == [[timer[t] EXCEPT !.round = "WEEKLY"] EXCEPT !.read = FALSE]
    <3>1. k \in Timer
      <4>1. [timer[t] EXCEPT !.round = "WEEKLY"] \in Timer
        BY <1>0, FieldOfTimer
      <4> QED
        BY <4>1, FieldOfTimer
    <3>2. /\ k.on = timer[t].on /\ k.ran = timer[t].ran /\ k.claimed = timer[t].claimed
          /\ k.due = timer[t].due
      BY <1>0 DEF Timer
    <3>3. /\ timer[t].claimed = {} /\ timer[t].due = {}
          /\ timer' = [timer EXCEPT ![t] = k] \/ timer' = [timer EXCEPT ![t] = [Resting EXCEPT !.ran = TRUE]]
      BY <2>3 DEF EndRound
    <3> HIDE DEF k
    <3>4. CASE timer' = [timer EXCEPT ![t] = k]
      <4>1. k.on /\ k.ran => timer[t].on /\ timer[t].ran
        BY <3>2
      <4> QED
        BY <3>1, <3>2, <3>3, <3>4, <4>1
    <3>5. CASE timer' = [timer EXCEPT ![t] = [Resting EXCEPT !.ran = TRUE]]
      BY <3>5, RestingIsTimer
    <3> QED
      BY <3>3, <3>4, <3>5
  <2> QED
    BY <2>1, <2>2, <2>3
<1>2. OnlyTimer(t) /\ timer'[t] = k
  BY <1>1, TimerWritten
<1>3. UNCHANGED <<age, frequency, monitorable, audited>>
  BY DEF StartPass, EndRound, StopInstance
<1>4. /\ UNCHANGED trouble \/ (trouble < MaxTrouble /\ trouble' = trouble + 1)
      /\ StopInstance(t) => trouble' = trouble + 1
      /\ ~StopInstance(t) => timer[t].claimed = {} \/ StartPass(t)
  BY DEF StartPass, EndRound, StopInstance, Trouble
<1> QED
  BY <1>1, <1>2, <1>3, <1>4

\* A tick.
LEMMA PassTimeEffect ==
    ASSUME MonitoringTypeOK, PassEnds, PassTime
    PROVE  /\ timer' \in [Timers -> Timer] /\ UNCHANGED <<frequency, monitorable, trouble>>
           /\ \A t \in Timers :
                \/ /\ timer[t].on /\ timer[t].lag < MaxLag /\ timer'[t].lag = timer[t].lag + 1
                   /\ timer'[t].on /\ ~timer'[t].ran /\ timer'[t].claimed = timer[t].claimed
                \/ ~timer'[t].on /\ timer'[t].due = {} /\ timer'[t].claimed = {}
           /\ age' = [a \in Assets |-> Older(age[a])]
           /\ audited' = [a \in Assets |-> IF audited[a] = LongAgo THEN LongAgo ELSE audited[a] + 1]
<1>0. timer \in [Timers -> Timer]
  BY DEF MonitoringTypeOK, Timer
<1>1. ASSUME NEW t \in Timers
      PROVE  /\ timer'[t] \in Timer
             /\ \/ /\ timer[t].on /\ timer[t].lag < MaxLag /\ timer'[t].lag = timer[t].lag + 1
                   /\ timer'[t].on /\ ~timer'[t].ran /\ timer'[t].claimed = timer[t].claimed
                \/ ~timer'[t].on /\ timer'[t].due = {} /\ timer'[t].claimed = {}
  <2>1. timer[t] \in Timer
    BY <1>0
  <2>2. CASE timer[t].on
    <3>1. timer[t].lag < MaxLag /\ ~timer[t].ran
      BY <2>2 DEF PassEnds, PassTime
    <3>2. timer'[t] = [timer[t] EXCEPT !.lag = timer[t].lag + 1]
      BY <2>2 DEF PassTime
    <3>3. timer[t].lag + 1 \in 0..MaxLag
      BY <2>1, <3>1, MonitoringNumbers DEF Timer
    <3>4. timer'[t] \in Timer
      BY <2>1, <3>2, <3>3, FieldOfTimer
    <3> QED
      BY <2>1, <2>2, <3>1, <3>2, <3>4 DEF Timer
  <2>3. CASE ~timer[t].on
    BY <2>3, RestingIsTimer DEF PassTime
  <2> QED
    BY <2>2, <2>3
<1>2. timer' \in [Timers -> Timer]
  BY <1>1 DEF PassTime
<1> QED
  BY <1>1, <1>2 DEF PassTime

\* Types are kept, and a pass ends with no claim.
LEMMA MonitoringTypesStep ==
    ASSUME MonitoringTypeOK, PassEnds, [MonitoringNext]_monitoringVars
    PROVE  MonitoringTypeOK' /\ PassEnds'
<1>0. /\ timer \in [Timers -> Timer] /\ age \in [Assets -> 0..Never] /\ audited \in [Assets -> 0..LongAgo]
      /\ frequency \in [{OwnerOf[a] : a \in Assets} -> Frequencies] /\ monitorable \subseteq Assets
      /\ trouble \in 0..MaxTrouble /\ trouble + 1 \in Nat
  BY MonitoringNumbers DEF MonitoringTypeOK, Timer
<1>1. ASSUME NEW t \in Timers, OnlyTimer(t),
             UNCHANGED <<frequency, monitorable>>,
             age' \in [Assets -> 0..Never], audited' \in [Assets -> 0..LongAgo],
             UNCHANGED trouble \/ (trouble < MaxTrouble /\ trouble' = trouble + 1),
             timer'[t].on /\ timer'[t].ran => timer[t].on /\ timer[t].ran,
             timer'[t].on \/ (timer'[t].due = {} /\ timer'[t].claimed = {})
      PROVE  MonitoringTypeOK' /\ PassEnds'
  <2>1. trouble' \in 0..MaxTrouble
    BY <1>0, <1>1, MonitoringNumbers
  <2>2. PassEnds'
    BY <1>1 DEF PassEnds, OnlyTimer
  <2> QED
    BY <1>0, <1>1, <2>1, <2>2 DEF MonitoringTypeOK, OnlyTimer, Timer
<1>2. ASSUME NEW t \in Timers, ReadDue(t) PROVE MonitoringTypeOK' /\ PassEnds'
  BY <1>0, <1>1, <1>2, ReadDueEffect DEF PassEnds
<1>3. ASSUME NEW t \in Timers, NEW a \in Assets, Claim(t, a) PROVE MonitoringTypeOK' /\ PassEnds'
  <2>1. timer[t].on
    BY <1>3 DEF Claim, PassEnds
  <2>2. timer[t].lag \in 0..Never
    BY <1>0, MonitoringNumbers DEF Timer
  <2>3. age' \in [Assets -> 0..Never]
    BY <1>0, <1>3, <2>2, ClaimEffect
  <2> QED
    BY <1>0, <1>1, <1>3, <2>1, <2>3, ClaimEffect DEF PassEnds
<1>4. ASSUME NEW t \in Timers, QueueScans(t) PROVE MonitoringTypeOK' /\ PassEnds'
  <2>0. timer[t].on
    BY <1>4 DEF QueueScans, PassEnds
  <2>1. audited' \in [Assets -> 0..LongAgo]
    BY <1>0, <1>4, QueueEffect, MonitoringNumbers
  <2> QED
    BY <1>0, <1>1, <1>4, <2>0, <2>1, QueueEffect DEF PassEnds
<1>5. ASSUME NEW t \in Timers, StartPass(t) \/ EndRound(t) \/ StopInstance(t)
      PROVE  MonitoringTypeOK' /\ PassEnds'
  BY <1>0, <1>1, <1>5, TurnEffect
<1>6. CASE PassTime
  <2>1. age' \in [Assets -> 0..Never] /\ audited' \in [Assets -> 0..LongAgo]
    BY <1>0, <1>6, PassTimeEffect, MonitoringNumbers DEF Older
  <2>2. /\ timer' \in [Timers -> Timer] /\ UNCHANGED <<frequency, monitorable, trouble>>
        /\ \A t \in Timers : (timer'[t].on /\ ~timer'[t].ran) \/ (~timer'[t].on /\ timer'[t].due = {} /\ timer'[t].claimed = {})
    BY <1>6, PassTimeEffect
  <2>3. PassEnds'
    BY <2>2 DEF PassEnds
  <2> QED
    BY <1>0, <2>1, <2>2, <2>3 DEF MonitoringTypeOK, Timer
<1>7. ASSUME NEW o \in DOMAIN frequency, NEW f \in Frequencies, UpdateFrequency(o, f)
      PROVE  MonitoringTypeOK' /\ PassEnds'
  BY <1>0, <1>7, MonitoringNumbers DEF UpdateFrequency, Trouble, MonitoringTypeOK, PassEnds
<1>8. ASSUME NEW a \in Assets, ToggleAsset(a) PROVE MonitoringTypeOK' /\ PassEnds'
  BY <1>0, <1>8, MonitoringNumbers DEF ToggleAsset, Trouble, MonitoringTypeOK, PassEnds
<1>9. CASE UNCHANGED monitoringVars
  BY <1>9 DEF monitoringVars, MonitoringTypeOK, PassEnds
<1> QED
  BY <1>2, <1>3, <1>4, <1>5, <1>6, <1>7, <1>8, <1>9 DEF MonitoringNext, PassStep

\* The claims stay apart.
LEMMA ClaimsStep ==
    ASSUME MonitoringTypeOK, PassEnds, PassesAreShort, AuditFollowsClaim, ClaimsAreApart,
           [MonitoringNext]_monitoringVars
    PROVE  AuditFollowsClaim' /\ ClaimsAreApart'
<1> DEFINE D == PeriodOf["DAILY"]
           W == PeriodOf["WEEKLY"]
<1>0. /\ \A t \in Timers : timer[t].lag \in 0..MaxLag /\ timer[t].claimed \subseteq Assets
      /\ \A t \in Timers : timer[t].round \in {"DAILY", "WEEKLY"}
      /\ age \in [Assets -> 0..Never] /\ audited \in [Assets -> 0..LongAgo]
  BY DEF MonitoringTypeOK
<1>n. /\ D \in Nat /\ W \in Nat /\ Slack \in Nat /\ MaxLag \in Nat /\ MaxLag >= 1
      /\ D < W /\ Slack < D /\ MaxLag <= D - Slack
      /\ LongAgo = D /\ Never = W + MaxLag + 1 /\ Never \in Nat
  BY MonitoringNumbers DEF PassesAreShort
<1> HIDE DEF D, W
<1>1. ASSUME NEW t \in Timers, OnlyTimer(t), UNCHANGED <<age, audited>>,
             timer'[t].claimed = {} \/ (timer'[t].claimed = timer[t].claimed /\ timer'[t].lag = timer[t].lag)
      PROVE  AuditFollowsClaim' /\ ClaimsAreApart'
  <2>1. AuditFollowsClaim'
    BY <1>1 DEF AuditFollowsClaim
  <2>2. \A u \in Timers : timer'[u].claimed = {} \/ (timer'[u].claimed = timer[u].claimed /\ timer'[u].lag = timer[u].lag)
    BY <1>1 DEF OnlyTimer
  <2>3. ClaimsAreApart'
    BY <1>1, <2>2 DEF ClaimsAreApart
  <2> QED
    BY <2>1, <2>3
<1>2. ASSUME NEW t \in Timers, ReadDue(t) PROVE AuditFollowsClaim' /\ ClaimsAreApart'
  BY <1>1, <1>2, ReadDueEffect
<1>3. ASSUME NEW t \in Timers, StartPass(t) \/ EndRound(t) \/ StopInstance(t)
      PROVE  AuditFollowsClaim' /\ ClaimsAreApart'
  BY <1>1, <1>3, TurnEffect
<1>4. ASSUME NEW t \in Timers, NEW a \in Assets, Claim(t, a) PROVE AuditFollowsClaim' /\ ClaimsAreApart'
  <2>1. /\ OnlyTimer(t) /\ UNCHANGED audited /\ timer'[t].lag = timer[t].lag
        /\ \/ /\ DueFor(a, timer[t].round, timer[t].lag)
              /\ age' = [age EXCEPT ![a] = timer[t].lag] /\ timer'[t].claimed = {a}
           \/ age' = age /\ timer'[t].claimed = {}
    BY <1>4, ClaimEffect
  <2>2. CASE age' = age /\ timer'[t].claimed = {}
    BY <1>1, <2>1, <2>2
  <2>3. CASE /\ DueFor(a, timer[t].round, timer[t].lag)
             /\ age' = [age EXCEPT ![a] = timer[t].lag] /\ timer'[t].claimed = {a}
    <3>1. timer[t].lag \in 0..MaxLag /\ age[a] \in Nat /\ \A b \in Assets : audited[b] \in 0..D
      BY <1>0, <1>n
    <3>2. PeriodOf[timer[t].round] \in Nat /\ PeriodOf[timer[t].round] >= D
      BY <1>0, MonitoringNumbers DEF D
    <3>3. age[a] = Never \/ age[a] > timer[t].lag + PeriodOf[timer[t].round] - Slack
      BY <2>3 DEF DueFor
    <3>4. age[a] > D - Slack /\ age[a] > MaxLag
      BY <1>n, <3>1, <3>2, <3>3
    <3>5. audited[a] > D - Slack - MaxLag
      <4>1. CASE audited[a] = LongAgo
        BY <1>n, <4>1
      <4>2. CASE age[a] <= audited[a] + MaxLag
        BY <1>n, <3>1, <3>4, <4>2
      <4> QED
        BY <4>1, <4>2 DEF AuditFollowsClaim
    <3>6. \A u \in Timers : a \notin timer[u].claimed
      <4> SUFFICES ASSUME NEW u \in Timers, a \in timer[u].claimed PROVE FALSE
        OBVIOUS
      <4>1. age[a] = timer[u].lag
        BY DEF ClaimsAreApart
      <4>2. timer[u].lag \in 0..MaxLag
        BY <1>0
      <4> QED
        BY <1>n, <3>4, <4>1, <4>2
    <3>7. age'[a] = timer[t].lag /\ \A b \in Assets \ {a} : age'[b] = age[b]
      BY <1>0, <2>3
    <3>8. AuditFollowsClaim'
      <4> SUFFICES ASSUME NEW b \in Assets PROVE audited[b] = LongAgo \/ age'[b] <= audited[b] + MaxLag
        BY <2>1 DEF AuditFollowsClaim, LongAgo
      <4>1. CASE b = a
        BY <1>n, <3>1, <3>7, <4>1
      <4>2. CASE b # a
        BY <3>7, <4>2 DEF AuditFollowsClaim
      <4> QED
        BY <4>1, <4>2
    <3>9. ASSUME NEW u \in Timers, NEW b \in timer'[u].claimed
          PROVE  /\ age'[b] = timer'[u].lag /\ audited[b] > D - Slack - MaxLag
                 /\ \A v \in Timers : b \in timer'[v].claimed => v = u
      <4>1. CASE u = t
        <5>1. b = a /\ age'[b] = timer'[u].lag /\ audited[b] > D - Slack - MaxLag
          BY <2>1, <2>3, <3>5, <3>7, <4>1
        <5>2. \A v \in Timers : b \in timer'[v].claimed => v = t
          BY <2>1, <3>6, <5>1 DEF OnlyTimer
        <5> QED
          BY <4>1, <5>1, <5>2
      <4>2. CASE u # t
        <5>1. timer'[u] = timer[u]
          BY <2>1, <4>2 DEF OnlyTimer
        <5>2. b # a /\ b \in Assets /\ b \in timer[u].claimed
          BY <1>0, <3>6, <5>1
        <5>3. age'[b] = timer'[u].lag /\ audited[b] > D - Slack - MaxLag
          BY <3>7, <5>1, <5>2 DEF ClaimsAreApart, D
        <5>4. \A v \in Timers : b \in timer'[v].claimed => v = u
          <6> SUFFICES ASSUME NEW v \in Timers, b \in timer'[v].claimed PROVE v = u
            OBVIOUS
          <6>1. v # t
            BY <2>3, <5>2
          <6>2. b \in timer[v].claimed
            BY <2>1, <6>1 DEF OnlyTimer
          <6> QED
            BY <5>2, <6>2 DEF ClaimsAreApart
        <5> QED
          BY <5>3, <5>4
      <4> QED
        BY <4>1, <4>2
    <3>10. ClaimsAreApart'
      BY <2>1, <3>9 DEF ClaimsAreApart, D
    <3> QED
      BY <3>8, <3>10
  <2> QED
    BY <2>1, <2>2, <2>3
<1>5. ASSUME NEW t \in Timers, QueueScans(t) PROVE AuditFollowsClaim' /\ ClaimsAreApart'
  <2>1. /\ OnlyTimer(t) /\ UNCHANGED age /\ timer'[t].lag = timer[t].lag /\ timer'[t].claimed = {}
        /\ UNCHANGED audited \/ \E a \in timer[t].claimed : audited' = [audited EXCEPT ![a] = 0]
    BY <1>5, QueueEffect
  <2>2. ASSUME NEW a \in timer[t].claimed, audited' = [audited EXCEPT ![a] = 0]
        PROVE  AuditFollowsClaim' /\ ClaimsAreApart'
    <3>1. a \in Assets /\ age[a] = timer[t].lag /\ timer[t].lag \in 0..MaxLag
      BY <1>0 DEF ClaimsAreApart
    <3>2. audited'[a] = 0 /\ \A b \in Assets \ {a} : audited'[b] = audited[b]
      BY <1>0, <2>2, <3>1
    <3>3. AuditFollowsClaim'
      <4> SUFFICES ASSUME NEW b \in Assets PROVE audited'[b] = LongAgo \/ age[b] <= audited'[b] + MaxLag
        BY <2>1 DEF AuditFollowsClaim, LongAgo
      <4>1. CASE b = a
        BY <1>n, <3>1, <3>2, <4>1
      <4>2. CASE b # a
        BY <3>2, <4>2 DEF AuditFollowsClaim
      <4> QED
        BY <4>1, <4>2
    <3>4. ASSUME NEW u \in Timers, NEW b \in timer'[u].claimed
          PROVE  /\ age[b] = timer'[u].lag /\ audited'[b] > D - Slack - MaxLag
                 /\ \A v \in Timers : b \in timer'[v].claimed => v = u
      <4>1. u # t /\ timer'[u] = timer[u]
        BY <2>1, <3>4 DEF OnlyTimer
      <4>2. b # a /\ b \in Assets
        BY <1>0, <4>1 DEF ClaimsAreApart
      <4>3. age[b] = timer'[u].lag /\ audited'[b] > D - Slack - MaxLag
        BY <3>2, <4>1, <4>2 DEF ClaimsAreApart, D
      <4>4. \A v \in Timers : b \in timer'[v].claimed => b \in timer[v].claimed
        BY <2>1 DEF OnlyTimer
      <4> QED
        BY <4>1, <4>3, <4>4 DEF ClaimsAreApart
    <3>5. ClaimsAreApart'
      BY <2>1, <3>4 DEF ClaimsAreApart, D
    <3> QED
      BY <3>3, <3>5
  <2> QED
    BY <1>1, <2>1, <2>2
<1>6. CASE PassTime
  <2>1. /\ \A t \in Timers :
             \/ /\ timer[t].on /\ timer[t].lag < MaxLag /\ timer'[t].lag = timer[t].lag + 1
                /\ timer'[t].claimed = timer[t].claimed
             \/ timer'[t].claimed = {}
        /\ age' = [a \in Assets |-> Older(age[a])]
        /\ audited' = [a \in Assets |-> IF audited[a] = LongAgo THEN LongAgo ELSE audited[a] + 1]
    BY <1>6, PassTimeEffect
  <2>2. AuditFollowsClaim'
    <3> SUFFICES ASSUME NEW b \in Assets PROVE audited'[b] = LongAgo \/ age'[b] <= audited'[b] + MaxLag
      BY DEF AuditFollowsClaim, LongAgo
    <3>1. age[b] \in Nat /\ audited[b] \in Nat /\ audited[b] <= D
      BY <1>0, <1>n
    <3>2. CASE audited[b] # LongAgo
      <4>1. age[b] <= audited[b] + MaxLag /\ audited'[b] = audited[b] + 1
        BY <2>1, <3>2 DEF AuditFollowsClaim
      <4>2. age'[b] = age[b] + 1
        BY <1>n, <2>1, <3>1, <3>2, <4>1 DEF Older
      <4> QED
        BY <1>n, <3>1, <4>1, <4>2
    <3> QED
      BY <2>1, <3>2
  <2>3. ASSUME NEW u \in Timers, NEW b \in timer'[u].claimed
        PROVE  /\ age'[b] = timer'[u].lag /\ audited'[b] > D - Slack - MaxLag
               /\ \A v \in Timers : b \in timer'[v].claimed => v = u
    <3>1. /\ timer[u].lag < MaxLag /\ timer'[u].lag = timer[u].lag + 1 /\ b \in timer[u].claimed
          /\ b \in Assets /\ timer[u].lag \in Nat
      BY <1>0, <2>1
    <3>2. age[b] = timer[u].lag /\ audited[b] > D - Slack - MaxLag
      BY <3>1 DEF ClaimsAreApart, D
    <3>3. age'[b] = age[b] + 1
      BY <1>n, <2>1, <3>1, <3>2 DEF Older
    <3>4. audited'[b] > D - Slack - MaxLag
      <4>1. audited[b] \in Nat /\ (audited'[b] = audited[b] \/ audited'[b] = audited[b] + 1)
        BY <1>0, <1>n, <2>1, <3>1
      <4> QED
        BY <1>n, <3>2, <4>1
    <3>5. \A v \in Timers : b \in timer'[v].claimed => b \in timer[v].claimed
      BY <2>1
    <3> QED
      BY <3>1, <3>2, <3>3, <3>4, <3>5 DEF ClaimsAreApart
  <2>4. ClaimsAreApart'
    BY <2>3 DEF ClaimsAreApart, D
  <2> QED
    BY <2>2, <2>4
<1>7. CASE UNCHANGED <<age, audited, timer>>
  BY <1>7 DEF AuditFollowsClaim, ClaimsAreApart, LongAgo
<1>8. CASE \/ \E o \in DOMAIN frequency, f \in Frequencies : UpdateFrequency(o, f)
           \/ \E a \in Assets : ToggleAsset(a)
           \/ UNCHANGED monitoringVars
  BY <1>7, <1>8 DEF UpdateFrequency, ToggleAsset, monitoringVars
<1> QED
  BY <1>2, <1>3, <1>4, <1>5, <1>6, <1>8 DEF MonitoringNext, PassStep

\* The invariant of the monitoring holds in every state.
LEMMA MonitoringInvariant == MonitoringSpec => []MonitoringInv
<1>1. MonitoringInit => MonitoringInv
  <2> SUFFICES ASSUME MonitoringInit PROVE MonitoringInv
    OBVIOUS
  <2>1. timer = [t \in Timers |-> Resting] /\ Resting \in Timer /\ Resting.claimed = {} /\ Resting.due = {}
        /\ ~Resting.on
    BY RestingIsTimer DEF MonitoringInit
  <2>2. timer \in [Timers -> Timer] /\ PassEnds
    BY <2>1 DEF PassEnds
  <2>3. /\ age \in [Assets -> 0..Never] /\ audited \in [Assets -> 0..LongAgo]
        /\ frequency \in [{OwnerOf[a] : a \in Assets} -> Frequencies]
        /\ monitorable \subseteq Assets /\ trouble \in 0..MaxTrouble
    BY MonitoringNumbers DEF MonitoringInit
  <2>4. AuditFollowsClaim /\ ClaimsAreApart
    BY <2>1 DEF MonitoringInit, AuditFollowsClaim, ClaimsAreApart
  <2> QED
    BY <2>2, <2>3, <2>4 DEF MonitoringInv, MonitoringTypeOK, Timer
<1>2. MonitoringInv /\ [MonitoringNext]_monitoringVars => MonitoringInv'
  <2> SUFFICES ASSUME MonitoringInv, [MonitoringNext]_monitoringVars PROVE MonitoringInv'
    OBVIOUS
  <2>1. MonitoringTypeOK' /\ PassEnds'
    BY MonitoringTypesStep DEF MonitoringInv
  <2>2. PassesAreShort => AuditFollowsClaim' /\ ClaimsAreApart'
    BY ClaimsStep DEF MonitoringInv
  <2>3. PassesAreShort' <=> PassesAreShort
    BY DEF PassesAreShort
  <2> QED
    BY <2>1, <2>2, <2>3 DEF MonitoringInv
<1> QED
  BY <1>1, <1>2, PTL DEF MonitoringSpec

\* However many instances run the scheduler, two passes that queue the scans of an asset
\* are a period apart, less the slack and the time a pass may take.
THEOREM OneAuditInAPeriod == MonitoringSpec => AuditsAreApart
<1>1. MonitoringInv /\ [MonitoringNext]_monitoringVars =>
        [\A a \in Assets : Queues(a) => audited[a] > PeriodOf["DAILY"] - Slack - MaxLag]_monitoringVars
  <2> SUFFICES ASSUME MonitoringInv, NEW a \in Assets, Queues(a)
               PROVE  audited[a] > PeriodOf["DAILY"] - Slack - MaxLag
    OBVIOUS
  <2>1. PICK t \in Timers : a \in timer[t].claimed
    BY DEF Queues
  <2>2. CASE PassesAreShort
    BY <2>1, <2>2 DEF MonitoringInv, ClaimsAreApart
  <2>3. CASE ~PassesAreShort
    <3>1. audited[a] \in Nat
      BY MonitoringNumbers DEF MonitoringInv, MonitoringTypeOK
    <3> QED
      BY <2>3, <3>1, MonitoringNumbers DEF PassesAreShort
  <2> QED
    BY <2>2, <2>3
<1> QED
  BY <1>1, MonitoringInvariant, PTL DEF MonitoringSpec, AuditsAreApart

\* Every variable of the monitoring keeps its type.
THEOREM MonitoringTypeCorrect == MonitoringSpec => []MonitoringTypeOK
BY MonitoringInvariant, PTL DEF MonitoringInv

==============================================================================
