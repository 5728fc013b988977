------------------------------ MODULE Retention ------------------------------
(***************************************************************************)
(* The purge of old scans (RetentionService.runRetention): three statements *)
(* -- the latest scan of each asset, the old finished scans, the DELETE --  *)
(* while scans are queued and finish, and other purges run.                 *)
(***************************************************************************)
EXTENDS Naturals, FiniteSets

CONSTANTS
    Rows,           \* 1..n: rows of scans in the order of their creation
    Owned,          \* assets
    Purges          \* purges under way at once (one per instance, an administrator)

ASSUME RetentionAssumption == IsFiniteSet(Rows) /\ Rows = 1..Cardinality(Rows)

VARIABLES
    row,            \* row[s]: the state of row s
    assetOf,        \* assetOf[s]: asset of row s
    created,        \* rows created so far: 1..created
    expired,        \* rows 1..expired are older than the limit
    purge           \* purge[u]: what u has read

retentionVars == <<row, assetOf, created, expired, purge>>

NoPurge == [pc |-> "idle", limit |-> 0, protected |-> {}, doomed |-> {}]

RetentionInit ==
    /\ row = [s \in Rows |-> "none"]
    /\ assetOf \in [Rows -> Owned]
    /\ created = 0 /\ expired = 0
    /\ purge = [u \in Purges |-> NoPurge]

Present == {s \in Rows : row[s] \in {"open", "final"}}

\* A slip: ascending order.
EarliestRows == {s \in Present : \A t \in Present : assetOf[t] = assetOf[s] => t >= s}

\* findMany(distinct assetId, orderBy createdAt desc): of each asset its latest row.
LatestRows == {s \in Present : \A t \in Present : assetOf[t] = assetOf[s] => t <= s}

\* The limit is fixed when the purge starts.
ReadLatest(u) ==
    /\ purge[u].pc = "idle"
    /\ purge' = [purge EXCEPT ![u] = [NoPurge EXCEPT !.pc = "read", !.limit = expired,
                                                  !.protected = LatestRows]]
    /\ UNCHANGED <<row, assetOf, created, expired>>

\* COMPLETED, FAILED or CANCELLED and created before the limit, less the protected.
OldAndFinal(limit) == {s \in Present : s <= limit /\ row[s] = "final"}

ReadOld(u) ==
    /\ purge[u].pc = "read"
    /\ purge' = [purge EXCEPT ![u].pc = "delete", ![u].doomed = OldAndFinal(purge[u].limit) \ purge[u].protected]
    /\ UNCHANGED <<row, assetOf, created, expired>>

\* By identifier: a row that is gone by now is not counted.
DeleteOld(u) ==
    /\ purge[u].pc = "delete"
    /\ row' = [s \in Rows |-> IF s \in purge[u].doomed THEN "gone" ELSE row[s]]
    /\ purge' = [purge EXCEPT ![u] = NoPurge]
    /\ UNCHANGED <<assetOf, created, expired>>

\* The rest of the system: scans are queued, end, and get old (an unfinished one too).
CreateRow ==
    /\ created + 1 \in Rows
    /\ created' = created + 1
    /\ row' = [row EXCEPT ![created + 1] = "open"]
    /\ UNCHANGED <<assetOf, expired, purge>>

FinishRow(s) ==
    /\ row[s] = "open"
    /\ row' = [row EXCEPT ![s] = "final"]
    /\ UNCHANGED <<assetOf, created, expired, purge>>

ExpireRow ==
    /\ expired < created
    /\ expired' = expired + 1
    /\ UNCHANGED <<row, assetOf, created, purge>>

RetentionNext ==
    \/ \E u \in Purges : ReadLatest(u) \/ ReadOld(u) \/ DeleteOld(u)
    \/ CreateRow \/ ExpireRow
    \/ \E s \in Rows : FinishRow(s)

RetentionSpec == RetentionInit /\ [][RetentionNext]_retentionVars

------------------------------------------------------------------------------
(* Properties.                                                              *)

\* Every variable keeps its type.
RetentionTypeOK ==
    /\ row \in [Rows -> {"none", "open", "final", "gone"}]
    /\ assetOf \in [Rows -> Owned]
    /\ created \in 0..Cardinality(Rows) /\ expired \in 0..created
    /\ purge \in [Purges -> [pc : {"idle", "read", "delete"}, limit : 0..created,
                            protected : SUBSET Rows, doomed : SUBSET Rows]]

\* The latest scan of an asset is never purged, whatever was queued or purged between
\* the reads and the DELETE ("protegiendo siempre ... el ultimo escaneo de cada
\* activo"): an asset that was ever scanned shows its last scan.
LatestSurvives ==
    \A s \in 1..created :
        (\A t \in 1..created : assetOf[t] = assetOf[s] => t <= s) => row[s] # "gone"
==============================================================================
