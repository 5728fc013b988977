--------------------------- MODULE FindingLifecycle --------------------------
(***************************************************************************)
(* The findings of an organization (FindingsService, CloudScanService):     *)
(* what the transaction that stores a scan or a cloud audit does to them,   *)
(* the reviews and retests of users, and the Security Score each records.   *)
(*                                                                          *)
(* Transactions run under READ COMMITTED: a read sees what is committed and *)
(* the transaction's own rows; a row it wrote is locked until it ends.      *)
(***************************************************************************)
EXTENDS Naturals, FiniteSets, FiniteSetsExt, TLC

CONSTANTS
    Findings,       \* fingerprints: a rule at a location
    CategoryOf,     \* CategoryOf[f]: category of the rule
    Scans,          \* scans of one type each; a type has one scan in progress (ScanQueue)
    TypeOf,         \* TypeOf[s]: categories that a scan of the type of s produces
    Audits,         \* cloud audits: nothing keeps two of an account apart
    Requests,       \* reviews and retests served at once
    MaxWork         \* bound: scans, audits and requests started

ASSUME FindingAssumption ==
    /\ TypeOf \in [Scans -> SUBSET {CategoryOf[f] : f \in Findings}]
    /\ Scans \cap Audits = {} /\ (Scans \cup Audits) \cap Requests = {}
    /\ MaxWork \in Nat

VARIABLES
    row,            \* row[f]: the committed row
    present,        \* findings that a complete look would find now
    proc,           \* proc[p]: what p is doing, with the rows its transaction wrote
    snapshots,      \* the newest row of risk_scores: its stamp and the open findings it counts
    stale,          \* findings whose status was written by somebody who had read another
    muddled,        \* the last change of an open finding crossed another transaction
    work

findingVars == <<row, present, proc, snapshots, stale, muddled, work>>

Writers == Scans \cup Audits
Processes == Writers \cup Requests
CloudCategories == {"CLOUD_IAM", "CLOUD_STORAGE"}
OpenStatuses == {"OPEN", "IN_PROGRESS", "VERIFYING"}
Decisions == {"ACCEPTED", "FALSE_POSITIVE"}
\* REVIEWABLE_STATUSES, with one status standing for those that count alike.
Reviewable == {"OPEN", "IN_PROGRESS", "ACCEPTED"}

NoSnapshot == [stamp |-> 0, open |-> {}]
NoFinding == [status |-> "none", resolved |-> FALSE, by |-> "none", looked |-> TRUE]
AtRest == [pc |-> "idle", finding |-> {}, copy |-> "none", drafts |-> {}, looked |-> {},
           own |-> <<>>, snap |-> NoSnapshot, crossed |-> FALSE]

\* What p sees of f, and who holds the lock of its row.
Seen(p, f) == IF f \in DOMAIN proc[p].own THEN proc[p].own[f] ELSE row[f]
Free(p, f) == \A q \in Processes \ {p} : f \notin DOMAIN proc[q].own
OpenTo(own) ==
    {f \in Findings : (IF f \in DOMAIN own THEN own[f] ELSE row[f]).status \in OpenStatuses}
Put(own, f, r) == [x \in DOMAIN own \cup {f} |-> IF x = f THEN r ELSE own[x]]

FindingInit ==
    /\ row = [f \in Findings |-> NoFinding]
    /\ present \in SUBSET Findings
    /\ proc = [p \in Processes |-> AtRest]
    /\ snapshots = NoSnapshot
    /\ stale = {} /\ muddled = FALSE /\ work = 0

Start(p, fields) ==
    /\ proc[p] = AtRest /\ work < MaxWork
    /\ work' = work + 1
    /\ proc' = [proc EXCEPT ![p] = fields]

------------------------------------------------------------------------------
(* Looking: a scanner or an evaluator that returns drafts.                  *)

Mine(p) == IF p \in Scans THEN {f \in Findings : CategoryOf[f] \in TypeOf[p]}
           ELSE {f \in Findings : CategoryOf[f] \in CloudCategories}

\* Part of the look may fail: a scanner reports the categories it did not complete, an
\* evaluator only warns, and both return what they found.
Look(p) ==
    /\ p \in Writers
    /\ \E missing \in SUBSET {CategoryOf[f] : f \in Mine(p)} :
         LET looked == {f \in Mine(p) : CategoryOf[f] \notin missing} IN
           \E drafts \in SUBSET (present \cap Mine(p)) :
             /\ present \cap looked \subseteq drafts
             /\ Start(p, [AtRest EXCEPT !.pc = "sync", !.drafts = drafts, !.looked = looked])
    /\ UNCHANGED <<row, present, snapshots, stale, muddled>>

------------------------------------------------------------------------------
(* syncForScan and the same steps of runAccountAudit: each draft is read    *)
(* and then written.                                                        *)

ReadDraft(p) ==
    /\ proc[p].pc = "sync"
    /\ \E f \in proc[p].drafts :
         proc' = [proc EXCEPT ![p].pc = "write", ![p].finding = {f}, ![p].copy = Seen(p, f).status]
    /\ UNCHANGED <<row, present, snapshots, stale, muddled, work>>

\* A slip: a finding seen again is open again.
DraftOpens(r, copy, by) ==
    IF copy = "none" THEN [status |-> "OPEN", resolved |-> FALSE, by |-> by, looked |-> TRUE]
    ELSE [r EXCEPT !.status = "OPEN", !.resolved = FALSE, !.by = by]

\* Created, reopened or only updated, by the status that was read.
AfterDraft(r, copy, by) ==
    IF copy = "none" THEN [status |-> "OPEN", resolved |-> FALSE, by |-> by, looked |-> TRUE]
    ELSE IF copy = "RESOLVED" THEN [r EXCEPT !.status = "OPEN", !.resolved = FALSE, !.by = by]
    ELSE r

Kind(p) == IF p \in Scans THEN "scan" ELSE "audit"

\* A second INSERT of a fingerprint fails, and its transaction with it.
WriteDraft(p) ==
    /\ proc[p].pc = "write"
    /\ \E f \in proc[p].finding :
         /\ Free(p, f)
         /\ IF proc[p].copy = "none" /\ Seen(p, f).status # "none"
              THEN proc' = [proc EXCEPT ![p] = AtRest] /\ UNCHANGED stale
              ELSE /\ proc' = [proc EXCEPT ![p].pc = "sync", ![p].finding = {}, ![p].copy = "none",
                                 ![p].drafts = @ \ {f},
                                 ![p].own = Put(@, f, AfterDraft(Seen(p, f), proc[p].copy, Kind(p)))]
                   /\ stale' = IF proc[p].copy = "RESOLVED" /\ Seen(p, f).status # "RESOLVED"
                                 THEN stale \cup {f} ELSE stale
    /\ UNCHANGED <<row, present, snapshots, muddled, work>>

\* The updateMany of what was not detected; an audit has no incomplete categories.
Resolves(p) ==
    {f \in Mine(p) : /\ Seen(p, f).status \in OpenStatuses
                     /\ p \in Scans => CategoryOf[f] \in {CategoryOf[g] : g \in proc[p].looked}}

\* RiskScoresService.snapshot: what is open to this transaction now.
Snapshot(p, own) ==
    LET stamps == {proc[q].snap.stamp : q \in Processes} \cup {snapshots.stamp} IN
      proc' = [proc EXCEPT ![p].pc = "commit", ![p].own = own,
                           ![p].snap = [stamp |-> 1 + Max(stamps), open |-> OpenTo(own)]]

\* (What is no longer a draft was detected, unless it was never one.)
ResolveRest(p) ==
    /\ proc[p].pc = "sync" /\ proc[p].drafts = {}
    /\ LET gone == Resolves(p) \ DOMAIN proc[p].own IN
         /\ \A f \in gone : Free(p, f)
         /\ Snapshot(p, [f \in DOMAIN proc[p].own \cup gone |->
                 IF f \in gone THEN [status |-> "RESOLVED", resolved |-> TRUE, by |-> Kind(p),
                                     looked |-> f \in proc[p].looked]
                 ELSE proc[p].own[f]])
    /\ UNCHANGED <<row, present, snapshots, stale, muddled, work>>

\* Commit of any of the transactions: the newest snapshot is the one with the last stamp.
\* Those that took theirs and have not committed did not see this one.
Commit(p) ==
    LET changed == {f \in DOMAIN proc[p].own :
                      (proc[p].own[f].status \in OpenStatuses) # (row[f].status \in OpenStatuses)}
        mine == proc[p].snap
    IN  /\ proc[p].pc = "commit"
        /\ row' = [f \in Findings |-> Seen(p, f)]
        /\ snapshots' = IF mine.stamp > snapshots.stamp THEN mine ELSE snapshots
        /\ muddled' = IF mine.stamp > snapshots.stamp THEN proc[p].crossed
                      ELSE muddled \/ (IF mine = NoSnapshot THEN changed \cap stale ELSE changed) # {}
        /\ proc' = [q \in Processes |->
                      IF q = p THEN AtRest
                      ELSE [proc[q] EXCEPT !.crossed = @ \/ (proc[q].snap # NoSnapshot /\ changed # {})]]
        /\ UNCHANGED <<present, stale, work>>

\* A transaction that fails, times out or is chosen to break a deadlock leaves nothing.
Rollback(p) ==
    /\ proc[p].pc \in {"sync", "write", "commit"}
    /\ proc' = [proc EXCEPT ![p] = AtRest]
    /\ UNCHANGED <<row, present, snapshots, stale, muddled, work>>

------------------------------------------------------------------------------
(* Users.                                                                   *)

\* review and retest read the finding first.
ReadFinding(p, f, pc) ==
    /\ row[f].status # "none"
    /\ Start(p, [AtRest EXCEPT !.pc = pc, !.finding = {f}, !.copy = row[f].status])
    /\ UNCHANGED <<row, present, snapshots, stale, muddled>>

\* The UPDATE, and a snapshot when the status differs from the one that was read.
Update(p, f, r, snapshot) ==
    /\ Free(p, f)
    /\ stale' = IF proc[p].copy # row[f].status THEN stale \cup {f} ELSE stale
    /\ IF snapshot THEN Snapshot(p, [x \in {f} |-> r])
       ELSE proc' = [proc EXCEPT ![p].pc = "commit", ![p].own = [x \in {f} |-> r]]
    /\ UNCHANGED <<row, present, snapshots, muddled, work>>

\* A slip: only a decision changes the score.
ReviewChangesScore(copy, status) == status # copy /\ status \in Decisions

ChangesScore(copy, status) == status # copy

Review(p) ==
    /\ proc[p].pc = "review"
    /\ \E f \in proc[p].finding, status \in Reviewable :
         Update(p, f, [row[f] EXCEPT !.status = status, !.by = "review",
                         !.resolved = IF proc[p].copy = "RESOLVED" THEN FALSE ELSE @],
                ChangesScore(proc[p].copy, status))

\* probeFinding by category: still there or not; whether the probe really looked.  A web
\* probe takes an unreachable host as gone, the others as still there or as an error; a
\* category without a probe of its own is always still there.
Verdicts(f) ==
    {<<f \in present, TRUE>>}
    \cup CASE CategoryOf[f] \in {"HTTP_HEADERS", "SENSITIVE_PATH"} -> {<<FALSE, FALSE>>}
           [] CategoryOf[f] \in {"TLS_CERTIFICATE", "EMAIL_SECURITY"} -> {<<TRUE, FALSE>>}
           [] OTHER -> {}
ProbeVerdicts(f) ==
    IF CategoryOf[f] \in CloudCategories THEN {<<TRUE, FALSE>>} ELSE Verdicts(f)

Probe(p) ==
    /\ proc[p].pc = "retest"
    /\ \E f \in proc[p].finding : \E v \in ProbeVerdicts(f) :
         proc' = [proc EXCEPT ![p].pc = IF v[1] THEN "there" ELSE "gone",
                              ![p].looked = IF v[2] THEN {f} ELSE {}]
    /\ UNCHANGED <<row, present, snapshots, stale, muddled, work>>

Retest(p) ==
    /\ proc[p].pc \in {"there", "gone"}
    /\ \E f \in proc[p].finding :
         LET r == IF proc[p].pc = "gone"
                    THEN [status |-> "RESOLVED", resolved |-> TRUE, by |-> "retest",
                          looked |-> f \in proc[p].looked]
                  ELSE IF proc[p].copy = "RESOLVED"
                    THEN [row[f] EXCEPT !.status = "OPEN", !.resolved = FALSE, !.by = "retest"]
                  ELSE row[f]
         IN  Update(p, f, r, proc[p].copy # r.status)

------------------------------------------------------------------------------

\* The world: something is fixed or breaks.
Drift ==
    /\ work < MaxWork
    /\ work' = work + 1
    /\ \E f \in Findings : present' = IF f \in present THEN present \ {f} ELSE present \cup {f}
    /\ UNCHANGED <<row, proc, snapshots, stale, muddled>>

FindingNext ==
    \/ \E p \in Writers : Look(p) \/ ReadDraft(p) \/ WriteDraft(p) \/ ResolveRest(p) \/ Rollback(p)
    \/ \E p \in Processes : Commit(p)
    \/ \E p \in Requests : \/ Review(p) \/ Probe(p) \/ Retest(p)
                           \/ \E f \in Findings, pc \in {"review", "retest"} : ReadFinding(p, f, pc)
    \/ Drift

FindingSpec == FindingInit /\ [][FindingNext]_findingVars

------------------------------------------------------------------------------
(* Properties.                                                              *)

\* Types, and the shape of a row: it has a date of resolution exactly while it is
\* RESOLVED, unless its status was written from a copy that was out of date.
FindingTypeOK ==
    /\ row \in [Findings -> [status : {"none", "RESOLVED"} \cup OpenStatuses \cup Decisions,
                             resolved : BOOLEAN, looked : BOOLEAN,
                             by : {"none", "scan", "audit", "review", "retest"}]]
    /\ \A f \in Findings \ stale : row[f].resolved <=> row[f].status = "RESOLVED"
    /\ present \subseteq Findings /\ stale \subseteq Findings /\ muddled \in BOOLEAN
    /\ work \in 0..MaxWork

\* "Los hallazgos ACCEPTED o FALSE_POSITIVE conservan su estado": no scan or audit takes
\* back what a user decided, but one that had read the finding before the decision.
DecisionsSurvive ==
    [][\A f \in Findings : row[f].status \in Decisions /\ row'[f].status # row[f].status
                             => row'[f].by \in {"review", "retest"} \/ f \in stale]_findingVars

\* The newest snapshot counts the findings that are open, unless the transaction that
\* took it, or a later one that changed them, ran across another.
ScoreFollowsFindings ==
    ~muddled => snapshots.open = {f \in Findings : row[f].status \in OpenStatuses}
==============================================================================
