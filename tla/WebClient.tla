------------------------------ MODULE WebClient ------------------------------
(***************************************************************************)
(* The web front end between the user and the API: the session it keeps     *)
(* (AuthContext.tsx, lib/api.ts) and the answers it caches                  *)
(* (hooks/queries.ts).  Each query has an entry of its own in the cache, and *)
(* a behaviour follows one of them while the user signs in and out, goes     *)
(* from page to page and changes things, and requests cross one another.     *)
(***************************************************************************)
EXTENDS Naturals, Sequences, SequencesExt

CONSTANTS
    People,         \* accounts that sign in to this browser
    Nobody,
    MaxSignIns,     \* bound: tokens handed out
    MaxChanges      \* bound: changes made by the user

ASSUME WebAssumption ==
    /\ Nobody \notin People
    /\ MaxSignIns \in Nat /\ MaxChanges \in Nat

VARIABLES
    query,          \* the query that this behaviour follows
    place,          \* the page on screen
    bearer,         \* the token in localStorage: 0, or an index in holder
    holder,         \* the account of each token handed out
    accepted,       \* tokens that the API accepts
    entry,          \* the entry of the query in the cache
    asking,         \* its request under way
    change,         \* the mutation under way
    excused,        \* changes that the entry may lack, and why is said below (history)
    inherited,      \* the session began with the entry of another one (history)
    changes         \* mutations so far

session == <<place, bearer, holder, accepted>>
webVars == <<query, session, entry, asking, change, excused, inherited, changes>>

------------------------------------------------------------------------------
(* The queries: their key, and the data of the API they show.               *)

\* Keys of what concerns findings, scans and assets.  An id stands for a filter as well.
PostureKeys == [
    overview |-> <<"dashboard", "overview">>, history |-> <<"dashboard", "history", "id">>,
    dashboardAssets |-> <<"dashboard", "assets">>,
    dashboardAsset |-> <<"dashboard", "asset", "id">>,
    verification |-> <<"assets", "id", "verification">>,
    discovered |-> <<"assets", "id", "discovered-hosts">>,
    diagnosticLatest |-> <<"assets", "id", "diagnostic-360", "latest">>,
    postureDiff |-> <<"assets", "id", "posture-diff", "id">>,
    findings |-> <<"findings", "id">>, findingsSummary |-> <<"findings", "summary", "id">>,
    attackPaths |-> <<"findings", "attack-paths", "id">>,
    findingTriage |-> <<"findings", "id", "triage">>, scans |-> <<"scans", "id">>,
    complianceOverview |-> <<"compliance", "overview">>,
    complianceFramework |-> <<"compliance", "framework", "id">>,
    executiveSummary |-> <<"executive-summary", "id">>]

\* Keys of the rest.
OtherKeys == [
    cloudAccounts |-> <<"cloud", "accounts">>, cloudSummary |-> <<"cloud", "summary">>,
    cloudResources |-> <<"cloud", "resources", "id">>, cspmRules |-> <<"cloud", "rules", "id">>,
    cloudOnboarding |-> <<"cloud", "onboarding">>, users |-> <<"users">>,
    assignees |-> <<"users", "assignees">>, invitations |-> <<"users", "invitations">>,
    mfa |-> <<"auth", "mfa">>, audit |-> <<"audit", "id">>, auditActions |-> <<"audit", "actions">>,
    organization |-> <<"organization">>, alerts |-> <<"alerts", "list", "id">>,
    alertsSummary |-> <<"alerts", "summary">>, alertChannels |-> <<"alert-channels">>,
    monitoring |-> <<"monitoring">>, reports |-> <<"reports">>,
    retention |-> <<"system", "retention">>, apiKeys |-> <<"api-keys">>]

Queries == DOMAIN PostureKeys \cup DOMAIN OtherKeys
Key(q) == IF q \in DOMAIN PostureKeys THEN PostureKeys[q] ELSE OtherKeys[q]

\* The tables that the answer to a query comes from.
Reads(q) ==
    CASE q \in {"overview", "dashboardAsset", "postureDiff"} -> {"assets", "findings", "scans"}
      [] q \in {"dashboardAssets", "complianceOverview", "complianceFramework",
                "executiveSummary"} -> {"assets", "findings"}
      [] q \in {"history", "findings", "findingsSummary", "attackPaths", "findingTriage"} ->
           {"findings"}
      [] q = "verification" -> {"assets"}
      [] q = "discovered" -> {"hosts", "assets"}
      [] q = "diagnosticLatest" -> {"batches", "scans"}
      [] q = "cloudAccounts" -> {"accounts"}
      [] q = "cloudSummary" -> {"accounts", "resources", "findings"}
      [] q = "cloudResources" -> {"resources", "findings"}
      [] q = "alertsSummary" -> {"alerts"}
      [] q = "assignees" -> {"users"}
      [] q = "monitoring" -> {"organization", "assets", "scans"}
      [] q = "retention" -> {"audit", "scans", "reports"}
      [] q \in {"auditActions", "cspmRules", "cloudOnboarding"} -> {}
      [] OTHER -> {q}

\* Those with a refetchInterval (of a scan or a diagnostic in progress, at least).
Polled == {"overview", "dashboardAssets", "dashboardAsset", "findingsSummary", "attackPaths",
           "scans", "diagnosticLatest", "alerts", "alertsSummary"}

------------------------------------------------------------------------------
(* The mutations.                                                           *)

\* useInvalidateAll: "all that depends on scans and findings".
AllPosture == {<<"dashboard">>, <<"findings">>, <<"scans">>, <<"assets">>, <<"alerts">>,
               <<"monitoring">>}

\* What a mutation writes, the prefixes of the keys it invalidates, and the queries into
\* whose entry it puts its own answer.
Does(writes, touches, puts) == [writes |-> writes, touches |-> touches, puts |-> puts]

PostureMutations == [
    createAsset |-> Does({"assets"}, AllPosture, {}),
    updateAsset |-> Does({"assets"}, AllPosture, {}),
    deleteAsset |->
        Does({"assets", "scans", "batches", "findings", "hosts", "alerts"}, AllPosture, {}),
    requestScan |-> Does({"scans"}, AllPosture, {}),
    cancelScan |-> Does({"scans"}, AllPosture, {}),
    startDiagnostic |-> Does({"batches", "scans"}, AllPosture, {}),
    cancelDiagnostic |-> Does({"batches", "scans"}, AllPosture, {}),
    reviewFinding |-> Does({"findings"}, AllPosture, {}),
    retestFinding |-> Does({"findings"}, AllPosture, {})]

AssetCardMutations == [
    verifyAsset |-> Does({"assets"}, AllPosture, {"verification"}),
    setDiscoveredHostIgnored |-> Does({"hosts"}, {<<"assets", "id", "discovered-hosts">>}, {}),
    importDiscoveredHosts |-> Does({"assets", "hosts"}, AllPosture, {})]

CloudMutations == [
    createCloudAccount |->
        Does({"accounts", "assets"},
             {<<"cloud", "accounts">>, <<"assets">>, <<"dashboard", "assets">>}, {}),
    verifyCloudAccount |-> Does({"accounts", "assets"}, {<<"cloud", "accounts">>}, {}),
    deleteCloudAccount |->
        Does({"accounts", "resources", "assets", "findings", "alerts"},
             {<<"cloud", "accounts">>, <<"cloud", "summary">>, <<"assets">>,
              <<"dashboard", "assets">>}, {}),
    scanCloudAccount |->
        Does({"accounts", "resources", "assets", "findings"},
             AllPosture \cup {<<"cloud", "accounts">>, <<"cloud", "summary">>,
                              <<"cloud", "resources">>, <<"compliance", "overview">>}, {})]

AlertMutations == [
    acknowledgeAlert |-> Does({"alerts"}, {<<"alerts">>}, {}),
    retryAlert |->
        Does({"alerts"}, {<<"alerts">>, <<"alerts-summary">>, <<"alert-channels">>,
                          <<"audit-log">>}, {}),
    changeChannel |-> Does({"alertChannels"}, {<<"alert-channels">>}, {}),
    updateMonitoring |-> Does({"organization"}, {}, {"monitoring"})]

\* changeOwnPassword hands out another token.
UserMutations == [
    changeUser |-> Does({"users"}, {<<"users">>}, {}),
    changeOwnPassword |-> Does({"users"}, {}, {})]

AccessMutations == [
    changeMfa |-> Does({"mfa"}, {<<"auth", "mfa">>}, {}),
    changeInvitation |-> Does({"invitations"}, {<<"users", "invitations">>}, {})]

ApiKeyMutations == [changeApiKey |-> Does({"apiKeys"}, {<<"api-keys">>}, {})]

UpkeepMutations == [
    runRetention |->
        Does({"audit", "scans", "reports"},
             {<<"system", "retention">>, <<"audit">>, <<"scans">>, <<"reports">>}, {}),
    downloadReport |-> Does({"reports"}, {<<"reports">>}, {})]

Mutation(m) ==
    CASE m \in DOMAIN PostureMutations -> PostureMutations[m]
      [] m \in DOMAIN AssetCardMutations -> AssetCardMutations[m]
      [] m \in DOMAIN CloudMutations -> CloudMutations[m]
      [] m \in DOMAIN AlertMutations -> AlertMutations[m]
      [] m \in DOMAIN UserMutations -> UserMutations[m]
      [] m \in DOMAIN AccessMutations -> AccessMutations[m]
      [] m \in DOMAIN ApiKeyMutations -> ApiKeyMutations[m]
      [] OTHER -> UpkeepMutations[m]

\* A slip: a key is invalidated only when it is given in full.
TouchesOnly(m, q) == Key(q) \in Mutation(m).touches

\* invalidateQueries: a prefix stands for all the keys that begin with it.
Touches(m, q) == \E k \in Mutation(m).touches : IsPrefix(k, Key(q))
Affects(m, q) == Reads(q) \cap Mutation(m).writes # {}

------------------------------------------------------------------------------
(* The pages: the queries on them and the mutations they offer.             *)

Page(shows, offers) == [shows |-> shows, offers |-> offers]

DashboardPage == Page({"overview", "history", "dashboardAssets", "executiveSummary"}, {})
AssetsPage == Page({"dashboardAssets"}, {"createAsset", "requestScan", "deleteAsset"})
AssetDetailPage ==
    Page({"dashboardAsset", "verification", "diagnosticLatest", "attackPaths", "discovered",
          "postureDiff"},
         {"updateAsset", "deleteAsset", "requestScan", "startDiagnostic", "cancelDiagnostic"}
           \cup DOMAIN AssetCardMutations)
CloudSecurityPage ==
    Page({"cloudAccounts", "cloudSummary", "cloudResources", "cspmRules", "cloudOnboarding"},
         DOMAIN CloudMutations)
FindingsPage ==
    Page({"findings", "findingsSummary", "attackPaths", "assignees", "findingTriage"},
         {"reviewFinding", "retestFinding"})
CompliancePage == Page({"complianceOverview", "complianceFramework"}, {})
ScansPage == Page({"scans"}, {"cancelScan"})
AlertsPage == Page({"alerts", "alertsSummary"}, {"acknowledgeAlert", "retryAlert"})
ReportsPage == Page({"reports", "dashboardAssets", "executiveSummary"}, {"downloadReport"})
SettingsPage ==
    Page({"alertChannels", "monitoring", "retention", "apiKeys"},
         {"changeChannel", "updateMonitoring", "runRetention", "changeApiKey"})
UsersPage == Page({"users", "invitations"}, {"changeUser", "changeInvitation"})
AuditPage == Page({"audit", "auditActions", "users"}, {})
AccountPage == Page({"organization", "mfa"}, {"changeMfa", "changeOwnPassword"})

Pages == [
    dashboard |-> DashboardPage, assets |-> AssetsPage, asset |-> AssetDetailPage,
    cloud |-> CloudSecurityPage, findings |-> FindingsPage, compliance |-> CompliancePage,
    scans |-> ScansPage, alerts |-> AlertsPage, reports |-> ReportsPage,
    settings |-> SettingsPage, users |-> UsersPage, audit |-> AuditPage,
    account |-> AccountPage]

\* The menu shows the alerts that are pending on every page.
AndMenu(p) == Pages[p].shows \cup {"alertsSummary"}
Mounted == place # "login" /\ query \in AndMenu(place)

------------------------------------------------------------------------------
NoEntry == [of |-> Nobody, behind |-> {}, invalid |-> FALSE, young |-> FALSE]
NoRequest == [pc |-> "none", token |-> 0, behind |-> {}]
NoChange == [pc |-> "none", does |-> "none", token |-> 0]

WebInit ==
    /\ query \in Queries
    /\ place = "login" /\ bearer = 0 /\ holder = <<>> /\ accepted = {}
    /\ entry = NoEntry /\ asking = NoRequest /\ change = NoChange
    /\ excused = {} /\ inherited = FALSE /\ changes = 0

\* Data of an account that is not the one signed in.
Foreign(of) == of # Nobody /\ bearer # 0 /\ of # holder[bearer]

Sent(token) == [pc |-> "sent", token |-> token, behind |-> {}]
Has(e) == e.of # Nobody

\* A slip: what is in the cache is shown as it is.
FetchOnMountIfEmpty(e, a) == a.pc = "none" /\ ~Has(e)

\* A component that mounts asks for what is not there, was invalidated or is older than
\* staleTime, unless the query is being asked for.
FetchOnMount(e, a) == a.pc = "none" /\ (~Has(e) \/ e.invalid \/ ~e.young)

\* The components of p, of which those in shows mount: excused, what they show without
\* asking.
Mount(p, shows, token) ==
    /\ place' = p
    /\ asking' = IF query \in shows /\ FetchOnMount(entry, asking) THEN Sent(token) ELSE asking
    /\ excused' = IF asking' # asking THEN excused
                  ELSE excused \cup entry.behind \cup asking.behind

\* login, or the second step of it: the user lands on the page they were sent from.
SignIn(u) ==
    /\ place = "login" /\ bearer = 0 /\ Len(holder) < MaxSignIns
    /\ holder' = Append(holder, u)
    /\ bearer' = Len(holder')
    /\ accepted' = accepted \cup {bearer'}
    /\ \E p \in DOMAIN Pages : Mount(p, AndMenu(p), bearer')
    /\ inherited' = (entry.young \/ asking.pc # "none")
    /\ UNCHANGED <<query, entry, change, changes>>

\* logout: the cache is not emptied, nor is the session ended on the server.
SignOut ==
    /\ place # "login"
    /\ bearer' = 0 /\ place' = "login"
    /\ UNCHANGED <<query, holder, accepted, entry, asking, change, excused, inherited, changes>>

Visit(p) ==
    /\ place \notin {"login", p}
    /\ Mount(p, Pages[p].shows, bearer)
    /\ UNCHANGED <<query, bearer, holder, accepted, entry, change, inherited, changes>>

\* Somebody closes the sessions of an account: an administrator, another browser.
Revoke(u) ==
    /\ \E t \in accepted : holder[t] = u
    /\ accepted' = {t \in accepted : holder[t] # u}
    /\ UNCHANGED <<query, place, bearer, holder, entry, asking, change, excused, inherited, changes>>

------------------------------------------------------------------------------
(* The request of the query.                                                *)

Poll ==
    /\ Mounted /\ query \in Polled /\ asking.pc = "none"
    /\ asking' = Sent(bearer)
    /\ UNCHANGED <<query, session, entry, change, excused, inherited, changes>>

Respond ==
    /\ asking.pc = "sent"
    /\ asking' = [asking EXCEPT !.pc = IF asking.token \in accepted THEN "answered" ELSE "refused"]
    /\ UNCHANGED <<query, session, entry, change, excused, inherited, changes>>

\* The answer goes into the entry, whoever is signed in by now.
Store ==
    /\ asking.pc = "answered"
    /\ entry' = [of |-> holder[asking.token], behind |-> asking.behind, invalid |-> FALSE,
                 young |-> TRUE]
    /\ asking' = NoRequest
    /\ excused' = excused \cap asking.behind
    /\ inherited' = (inherited /\ bearer # 0 /\ holder[asking.token] # holder[bearer])
    /\ UNCHANGED <<query, session, change, changes>>

\* api: a 401 ends the session there is, which need not be the one that was refused.
SignedOut == bearer' = 0 /\ place' = "login" /\ UNCHANGED <<holder, accepted>>

Refused ==
    /\ asking.pc = "refused"
    /\ SignedOut
    /\ asking' = NoRequest
    /\ UNCHANGED <<query, entry, change, excused, inherited, changes>>

\* A request that fails, and the one that is made in its place too: what was there stays.
Fail ==
    /\ asking.pc \in {"sent", "answered"}
    /\ asking' = NoRequest
    /\ excused' = excused \cup entry.behind
    /\ inherited' = (inherited \/ Foreign(entry.of))
    /\ UNCHANGED <<query, session, entry, change, changes>>

\* staleTime goes by (for the names of the audit actions it never does), and gcTime since
\* the query was last on screen.
Age ==
    /\ entry.young /\ query # "auditActions"
    /\ entry' = [entry EXCEPT !.young = FALSE]
    /\ UNCHANGED <<query, session, asking, change, excused, inherited, changes>>
Forget ==
    /\ Has(entry) /\ ~Mounted /\ asking.pc = "none"
    /\ entry' = NoEntry
    /\ UNCHANGED <<query, session, asking, change, excused, inherited, changes>>

------------------------------------------------------------------------------
(* The mutation.                                                            *)

Mutate(m) ==
    /\ place # "login" /\ m \in Pages[place].offers
    /\ change = NoChange /\ changes < MaxChanges
    /\ change' = [pc |-> "sent", does |-> m, token |-> bearer]
    /\ changes' = changes + 1
    /\ UNCHANGED <<query, session, entry, asking, excused, inherited>>

\* The API carries it out.  What was read before it does not have it.
Execute ==
    LET m == change.does
        u == holder[change.token]
        later(x, of) == IF Affects(m, query) /\ of = u THEN x \cup {m} ELSE x
    IN  /\ change.pc = "sent" /\ change.token \in accepted
        /\ m = "changeOwnPassword" => Len(holder) < MaxSignIns
        /\ change' = [change EXCEPT !.pc = "done",
                        !.token = IF m = "changeOwnPassword" THEN Len(holder) + 1 ELSE @]
        /\ entry' = [entry EXCEPT !.behind = later(@, entry.of)]
        /\ asking' = IF asking.pc = "answered"
                     THEN [asking EXCEPT !.behind = later(@, holder[asking.token])] ELSE asking
        /\ IF m = "changeOwnPassword"
             THEN /\ holder' = Append(holder, u)
                  /\ accepted' = {t \in accepted : holder[t] # u} \cup {Len(holder')}
             ELSE UNCHANGED <<holder, accepted>>
        /\ UNCHANGED <<query, place, bearer, excused, inherited, changes>>

ExecuteNot ==
    /\ change.pc = "sent" /\ change.token \notin accepted
    /\ SignedOut
    /\ change' = NoChange
    /\ UNCHANGED <<query, entry, asking, excused, inherited, changes>>

\* invalidateQueries asks again for a query that is on screen, even when a request is
\* under way, but not when that is the first one.
AsksAgain(e, a) == Mounted /\ (a.pc = "none" \/ Has(e))

\* onSuccess, or what the page does after it.  excused: answers that were read before the
\* change and are waited for nevertheless.
Settle ==
    LET m == change.does
        put == query \in Mutation(m).puts
        shown == IF put THEN [of |-> holder[change.token], behind |-> {}, invalid |-> FALSE,
                              young |-> TRUE]
                 ELSE entry
    IN  /\ change.pc = "done" /\ m # "changeOwnPassword"
        /\ change' = NoChange
        /\ IF Touches(m, query)
             THEN /\ entry' = [shown EXCEPT !.invalid = TRUE]
                  /\ asking' = IF AsksAgain(shown, asking) THEN Sent(bearer) ELSE asking
             ELSE entry' = shown /\ UNCHANGED asking
        /\ excused' = IF Touches(m, query) /\ Mounted /\ Has(shown) THEN excused
                      ELSE excused \cup asking.behind
        /\ inherited' = (inherited \/ (put /\ Foreign(holder[change.token])))
        /\ UNCHANGED <<query, session, changes>>

\* applySession, for whoever is on screen by now: with nobody there, it signs in; with
\* somebody else there, the page stays as it is and asks for nothing.
SettlePassword ==
    /\ change.pc = "done" /\ change.does = "changeOwnPassword"
    /\ change' = NoChange
    /\ bearer' = change.token
    /\ IF place = "login" THEN Mount("dashboard", AndMenu("dashboard"), change.token)
       ELSE UNCHANGED <<place, asking, excused>>
    /\ inherited' = (\/ inherited \/ entry.young \/ asking.pc # "none"
                     \/ place # "login" /\ holder[bearer] # holder[change.token])
    /\ UNCHANGED <<query, holder, accepted, entry, changes>>

\* The answer is lost, and onSuccess does not run.
Lost ==
    /\ change.pc \in {"sent", "done"}
    /\ change' = NoChange
    /\ excused' = excused \cup (IF change.pc = "done" THEN {change.does} ELSE {})
    /\ UNCHANGED <<query, session, entry, asking, inherited, changes>>

WebNext ==
    \/ \E u \in People : SignIn(u) \/ Revoke(u)
    \/ \E p \in DOMAIN Pages : Visit(p)
    \/ SignOut \/ Poll \/ Respond \/ Store \/ Refused \/ Fail \/ Age \/ Forget
    \/ \E p \in DOMAIN Pages : \E m \in Pages[p].offers : Mutate(m)
    \/ Execute \/ ExecuteNot \/ Settle \/ SettlePassword \/ Lost

WebSpec == WebInit /\ [][WebNext]_webVars

------------------------------------------------------------------------------
(* Properties.                                                              *)

\* Every variable keeps its type.
WebTypeOK ==
    /\ query \in Queries /\ place \in DOMAIN Pages \cup {"login"}
    /\ bearer \in 0..Len(holder) /\ accepted \subseteq 1..Len(holder)
    /\ (bearer = 0) <=> (place = "login")
    /\ entry.of \in People \cup {Nobody} /\ inherited \in BOOLEAN

Quiet == asking.pc = "none" /\ change.pc = "none"

\* "Cada mutacion invalida las consultas afectadas": when nothing is under way any more, a
\* query on screen shows the changes that its user made, unless a request failed, an answer
\* was on its way before the change, or the page opened with an entry that was young.
EveryChangeShows == Mounted /\ Quiet /\ ~Foreign(entry.of) => entry.behind \subseteq excused

\* The mutations that leave out a query of their own page.
Omitted(q) ==
    CASE q = "cloudSummary" -> {"createCloudAccount", "verifyCloudAccount"}
      [] q \in {"cloudResources", "alertsSummary"} -> {"deleteCloudAccount"}
      [] q = "monitoring" -> {"runRetention"}
      [] OTHER -> {}

\* The same of the other mutations.
OwnChangesShow ==
    Mounted /\ Quiet /\ ~Foreign(entry.of) => entry.behind \subseteq excused \cup Omitted(query)

\* The cache outlives the session, and what it holds of another account stays on screen only
\* when it was young, or on its way, as the session began, when a request failed, or when a
\* password change of one account settled in the session of another.
OthersDataIsRecent == Mounted /\ Quiet /\ Foreign(entry.of) => inherited
==============================================================================
