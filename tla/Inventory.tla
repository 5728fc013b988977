----------------------------- MODULE Inventory ------------------------------
(***************************************************************************)
(* The asset inventory: assets are created (one by one, or imported from    *)
(* the subdomains a scan discovered), proved to belong to the organization  *)
(* by a DNS record or a file, and removed.  A proof found in the DNS covers *)
(* the subdomains too: an asset inherits it when it is created, and a       *)
(* verification hands it to the assets that exist.  The two are separate    *)
(* transactions and cross.                                                  *)
(***************************************************************************)
EXTENDS Naturals, FiniteSets, Sequences, SequencesExt

CONSTANTS
    Domains,        \* host names, as sequences of labels, the most specific first
    Addresses,      \* IP addresses
    Hosts,          \* the domains that the certificate logs may show
    DnsProofs,      \* domains where a check may find the DNS record
    FileProofs,     \* names where it may find the file
    Callers,        \* requests under way at once
    Methods,        \* what a verification may ask for: "any", "DNS_TXT", "HTTP_FILE"
    MaxAssets,      \* bound on the assets ever created
    MaxRequests     \* bound on the requests of a behaviour

ASSUME InventoryAssumption ==
    /\ Hosts \subseteq Domains /\ IsFiniteSet(Hosts) /\ MaxAssets \in Nat /\ MaxRequests \in Nat
    /\ \A d \in Domains : d # <<>> /\ d \in Seq(Range(d))

VARIABLES
    asset,          \* asset[n]: the row of assets with the value n
    host,           \* host[h]: the asset whose discovery inserted its row
    caller,         \* caller[c]: where a request is
    proved,         \* every proof a check has found (history)
    surveyed,       \* ids of assets with a completed discovery
    announced,      \* hosts reported as new whose row is still there (history)
    crossed,        \* ids of assets whose creation crossed a verification (history)
    created,        \* assets created so far
    requests        \* requests so far

inventoryVars == <<asset, host, caller, proved, surveyed, announced, crossed, created, requests>>

Names == Domains \cup Addresses
None == <<>>

NoAsset == [id |-> 0, method |-> "none", scope |-> None]
NoOwner == 0
NoCaller == [pc |-> "idle", todo |-> None, id |-> 0, left |-> None, inherit |-> None,
             method |-> "none", covered |-> {}, crossed |-> FALSE]

Exists(n) == asset[n].id # 0
Verified(n) == asset[n].method # "none"

\* isCoveredBy: the scope itself or a subdomain of it.
Covers(scope, n) == scope # None /\ n \in Domains /\ IsSuffix(scope, n)

\* dnsProofDomains: from the name itself up to two labels.
ProofDomains(n) == [i \in 1..(Len(n) - 1) |-> SubSeq(n, i, Len(n))]

InventoryInit ==
    /\ asset = [n \in Names |-> NoAsset]
    /\ host = [h \in Hosts |-> NoOwner]
    /\ caller = [c \in Callers |-> NoCaller]
    /\ proved = [dns |-> {}, file |-> {}]
    /\ surveyed = {} /\ announced = {} /\ crossed = {}
    /\ created = 0 /\ requests = 0

-----------------------------------------------------------------------------
(* Creating *)

Begin(c) ==
    /\ caller[c].pc = "idle" /\ requests < MaxRequests
    /\ requests' = requests + 1

\* The scopes an asset may hand down: proved in the DNS, or inherited.
\* A slip: any verified asset hands its scope down.
AnyScope == {asset[p].scope : p \in {q \in Names : Verified(q)}}

DnsScopes == {asset[p].scope : p \in {q \in Names : asset[q].method \in {"DNS_TXT", "INHERITED"}}}

Create(c, n) ==
    /\ Begin(c)
    /\ caller' = [caller EXCEPT ![c] = [NoCaller EXCEPT !.pc = "read", !.todo = <<n>>]]
    /\ UNCHANGED <<asset, host, proved, surveyed, announced, crossed, created>>

\* importAsAssets: every host must exist; they are created one after the other.
Import(c, hosts) ==
    /\ Begin(c)
    /\ hosts # {} /\ \A h \in hosts : host[h] # NoOwner
    /\ \E todo \in SetToSeqs(hosts) :
        caller' = [caller EXCEPT ![c] = [NoCaller EXCEPT !.pc = "read", !.todo = todo]]
    /\ UNCHANGED <<asset, host, proved, surveyed, announced, crossed, created>>

\* inheritedVerification: the first scope that covers the name, if there is one.
ReadInherited(c) ==
    /\ caller[c].pc = "read"
    /\ LET covering == {s \in DnsScopes : Covers(s, Head(caller[c].todo))}
       IN \E s \in IF covering = {} THEN {None} ELSE covering :
            caller' = [caller EXCEPT ![c].pc = "insert", ![c].inherit = s, ![c].crossed = FALSE]
    /\ UNCHANGED <<asset, host, proved, surveyed, announced, crossed, created, requests>>

\* The unverified assets a scope covers.
Uncovered(scope) == {n \in Domains : Exists(n) /\ ~Verified(n) /\ Covers(scope, n)}

\* The creations under way that read the inheritance before a scope was there to inherit.
Overtaken(scope) ==
    [d \in Callers |-> IF caller[d].pc = "insert" /\ Covers(scope, Head(caller[d].todo))
                       THEN [caller[d] EXCEPT !.crossed = TRUE] ELSE caller[d]]

\* The insertion; a duplicate answers 409, and an import goes on with the next host.
\* (With MaxAssets rows created the bound stands for one more duplicate.)
Insert(c) ==
    LET n == Head(caller[c].todo)
        rest == Tail(caller[c].todo)
        scope == caller[c].inherit
        stale == ~Exists(n) /\ scope # None /\ scope \notin DnsScopes
    IN  /\ caller[c].pc = "insert"
        /\ caller' = [(IF stale THEN Overtaken(scope) ELSE caller) EXCEPT
               ![c] = IF rest = <<>> THEN NoCaller ELSE [NoCaller EXCEPT !.pc = "read", !.todo = rest]]
        /\ IF Exists(n) \/ created = MaxAssets
           THEN UNCHANGED <<asset, crossed, created>>
           ELSE /\ created' = created + 1
                /\ asset' = [asset EXCEPT ![n] =
                       [id |-> created + 1, scope |-> scope,
                        method |-> IF scope = None THEN "none" ELSE "INHERITED"]]
                /\ crossed' = crossed
                       \cup (IF caller[c].crossed THEN {created + 1} ELSE {})
                       \cup (IF stale THEN {asset[m].id : m \in Uncovered(scope)} ELSE {})
        /\ UNCHANGED <<host, proved, surveyed, announced, requests>>

-----------------------------------------------------------------------------
(* Verifying *)

\* An address is proved by a file alone.
BeginVerify(c, n, method) ==
    /\ Begin(c) /\ Exists(n)
    /\ n \in Addresses => method # "DNS_TXT"
    /\ caller' = [caller EXCEPT ![c] = [NoCaller EXCEPT
            !.pc = "check", !.todo = <<n>>, !.id = asset[n].id, !.method = method,
            !.left = IF n \in Domains /\ method # "HTTP_FILE" THEN ProofDomains(n) ELSE None]]
    /\ UNCHANGED <<asset, host, proved, surveyed, announced, crossed, created>>

\* checkDns looks at one name after the other.  Records come and go, and resolvers fail:
\* a check may miss what another one finds.
CheckDns(c) ==
    /\ caller[c].pc = "check" /\ caller[c].left # None
    /\ LET domain == Head(caller[c].left)
       IN \/ /\ caller' = [caller EXCEPT ![c].left = Tail(@)]
             /\ UNCHANGED proved
          \/ /\ domain \in DnsProofs
             /\ caller' = [caller EXCEPT ![c].pc = "update", ![c].method = "DNS_TXT", ![c].inherit = domain]
             /\ proved' = [proved EXCEPT !.dns = @ \cup {domain}]
    /\ UNCHANGED <<asset, host, surveyed, announced, crossed, created, requests>>

\* A check without a proof writes the error of the asset and nothing else.
AfterMiss(n, id) == asset

\* checkFile, the last resort of "any" and all of "HTTP_FILE".
CheckFile(c) ==
    /\ caller[c].pc = "check" /\ caller[c].left = None
    /\ LET n == Head(caller[c].todo)
       IN \/ /\ caller' = [caller EXCEPT ![c] = NoCaller]
             /\ asset' = AfterMiss(n, caller[c].id)
             /\ UNCHANGED proved
          \/ /\ caller[c].method # "DNS_TXT" /\ n \in FileProofs
             /\ caller' = [caller EXCEPT ![c].pc = "update", ![c].method = "HTTP_FILE", ![c].inherit = n]
             /\ proved' = [proved EXCEPT !.file = @ \cup {n}]
             /\ UNCHANGED asset
    /\ UNCHANGED <<host, surveyed, announced, crossed, created, requests>>

\* A transaction between its two statements holds the row of the asset it verifies.
Locked(n) == \E c \in Callers : caller[c].pc = "propagate" /\ Head(caller[c].todo) = n
                                /\ caller[c].id = asset[n].id

\* The rows a propagation is about to write: the row may have been replaced meanwhile.
Pending(c) == {n \in Domains : Exists(n) /\ asset[n].id \in caller[c].covered}

\* The transaction updates the asset by its id -- gone, it fails -- and, for a proof
\* in the DNS, reads the unverified domains the scope covers.
UpdateVerified(c) ==
    LET n == Head(caller[c].todo)
        here == asset[n].id = caller[c].id
        scope == caller[c].inherit
    IN  /\ caller[c].pc = "update" /\ ~Locked(n)
        /\ IF here /\ caller[c].method = "DNS_TXT"
           THEN /\ caller' = [caller EXCEPT ![c].pc = "propagate",
                       ![c].covered = {asset[m].id : m \in Uncovered(scope) \ {n}}]
                /\ UNCHANGED asset
           ELSE /\ caller' = [caller EXCEPT ![c] = NoCaller]
                /\ asset' = IF here THEN [asset EXCEPT ![n].method = "HTTP_FILE", ![n].scope = scope]
                            ELSE asset
        /\ UNCHANGED <<host, proved, surveyed, announced, crossed, created, requests>>

\* A slip: the scope is handed to nobody.
VerifiedAlone(c, n) ==
    IF n = Head(caller[c].todo) THEN [asset[n] EXCEPT !.method = "DNS_TXT", !.scope = caller[c].inherit]
    ELSE asset[n]

\* A propagation's asset has the proof, the candidates inherit it.
VerifiedBy(c, n) ==
    IF n = Head(caller[c].todo) THEN [asset[n] EXCEPT !.method = "DNS_TXT", !.scope = caller[c].inherit]
    ELSE IF n \in Pending(c) THEN [asset[n] EXCEPT !.method = "INHERITED", !.scope = caller[c].inherit]
    ELSE asset[n]

\* updateMany by id, once no other transaction holds one of the rows; then the commit.
Propagate(c) ==
    LET scope == caller[c].inherit
    IN  /\ caller[c].pc = "propagate"
        /\ \A n \in Pending(c) : ~Locked(n)
        /\ asset' = [n \in Names |-> VerifiedBy(c, n)]
        /\ crossed' = crossed \cup {asset[m].id : m \in {k \in Uncovered(scope) :
                          asset[k].id \notin caller[c].covered /\ k # Head(caller[c].todo)}}
        /\ caller' = [Overtaken(scope) EXCEPT ![c] = NoCaller]
        /\ UNCHANGED <<host, proved, surveyed, announced, created, requests>>

\* Two propagations that wait for each other's row: the database aborts one.
DeadlockVictim(c) ==
    /\ caller[c].pc = "propagate"
    /\ \E d \in Callers \ {c} :
        /\ caller[d].pc = "propagate"
        /\ Head(caller[d].todo) \in Pending(c) /\ Head(caller[c].todo) \in Pending(d)
    /\ caller' = [caller EXCEPT ![c] = NoCaller]
    /\ UNCHANGED <<asset, host, proved, surveyed, announced, crossed, created, requests>>

-----------------------------------------------------------------------------
(* The rest of an asset's life *)

\* A slip: they stay.
KeptHosts(n) == {}

\* The hosts whose rows go with an asset.
DiscoveredBy(n) == {h \in Hosts : host[h] = asset[n].id}

\* remove(): the hosts it discovered and its scans go with it.
RemoveAsset(n) ==
    LET gone == DiscoveredBy(n)
    IN  /\ Exists(n) /\ ~Locked(n)
        /\ asset' = [asset EXCEPT ![n] = NoAsset]
        /\ host' = [h \in Hosts |-> IF h \in gone THEN NoOwner ELSE host[h]]
        /\ surveyed' = surveyed \ {asset[n].id}
        /\ announced' = announced \ gone
        /\ crossed' = crossed \ {asset[n].id}
        /\ UNCHANGED <<caller, proved, created, requests>>

\* A slip: every row the statement returns counts as inserted.
EveryFound(found) == found

\* ON CONFLICT keeps the row that is there: xmax = 0 tells the inserted ones.
Inserted(found) == {h \in found : host[h] = NoOwner}

\* syncForScan, in the transaction that completes the scan: the hosts without a row
\* are inserted; from the second discovery on, those not in the inventory are news.
Discover(n, found) ==
    LET new == Inserted(found)
    IN  /\ Exists(n) /\ n \in Domains /\ Verified(n)
        /\ \A h \in found : Covers(n, h)
        /\ host' = [h \in Hosts |-> IF h \in found /\ host[h] = NoOwner
                                    THEN asset[n].id ELSE host[h]]
        /\ surveyed' = surveyed \cup {asset[n].id}
        /\ announced' = announced \cup
               (IF asset[n].id \in surveyed THEN {h \in new : ~Exists(h)} ELSE {})
        /\ UNCHANGED <<asset, caller, proved, crossed, created, requests>>

InventoryNext ==
    \/ \E c \in Callers :
        \/ \E n \in Names : Create(c, n)
        \/ \E hosts \in SUBSET Hosts : Import(c, hosts)
        \/ ReadInherited(c) \/ Insert(c)
        \/ \E n \in Names, method \in Methods : BeginVerify(c, n, method)
        \/ CheckDns(c) \/ CheckFile(c) \/ UpdateVerified(c) \/ Propagate(c) \/ DeadlockVictim(c)
    \/ \E n \in Names : RemoveAsset(n)
    \/ \E n \in Domains, found \in SUBSET Hosts : Discover(n, found)

InventorySpec == InventoryInit /\ [][InventoryNext]_inventoryVars

-----------------------------------------------------------------------------
(* Properties *)

Scopes == Names \cup DnsProofs \cup {None}

\* Types; and no row of a discovered host outlives the asset it belongs to.
InventoryTypeOK ==
    /\ asset \in [Names -> [id : 0..MaxAssets, scope : Scopes,
                            method : {"none", "DNS_TXT", "HTTP_FILE", "INHERITED"}]]
    /\ \A c \in Callers :
        /\ caller[c].pc \in {"idle", "read", "insert", "check", "update", "propagate"}
        /\ caller[c].covered \subseteq 1..MaxAssets
    /\ LET living == {asset[n].id : n \in Names}
       IN host \in [Hosts -> living \cup {NoOwner}] /\ surveyed \cup crossed \subseteq living
    /\ created \in 0..MaxAssets /\ requests \in 0..MaxRequests

\* Whatever crosses, an asset counts as verified only if a check once found the proof of
\* the organization: a file on the asset itself, or a DNS record on a domain that covers
\* it.  (It outlives the record: a proof is never asked for again.)
VerifiedHasProof ==
    \A n \in Names :
        CASE asset[n].method = "none" -> asset[n].scope = None
          [] asset[n].method = "HTTP_FILE" -> asset[n].scope = n /\ n \in proved.file
          [] OTHER -> asset[n].scope \in proved.dns /\ Covers(asset[n].scope, n)

\* Beside an asset proved by the DNS no domain its scope covers stays unverified, except
\* one whose creation crossed the verification: it read the inheritance before the
\* verification committed and was inserted after the candidates were read.
CoveredIsVerified ==
    \A n, m \in Domains :
        /\ Exists(m) /\ Covers(asset[n].scope, m)
        /\ asset[n].method \in {"DNS_TXT", "INHERITED"}
        => Verified(m) \/ asset[m].id \in crossed

\* A subdomain is news at most once while its row lives, is never news when it is in the
\* inventory, and the first discovery of an asset brings no news.
NewsOnlyOnce ==
    [][\A h \in announced' \ announced : host[h] = NoOwner /\ ~Exists(h) /\ host'[h] \in surveyed]_inventoryVars
==============================================================================
