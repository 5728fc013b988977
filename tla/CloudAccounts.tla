---------------------------- MODULE CloudAccounts ----------------------------
(***************************************************************************)
(* One cloud account of an organization, the asset that stands for it in    *)
(* the inventory and the resources audits find in it.  Registering,         *)
(* testing, auditing and deleting the account each read it, talk to the     *)
(* provider for seconds, and write what they found in several statements.   *)
(***************************************************************************)
EXTENDS Naturals, FiniteSets

CONSTANTS
    Resources,      \* what the provider may report
    Jobs,           \* requests under way at once
    MaxJobs,        \* bound on the requests of a behaviour
    MaxRows         \* bound on the accounts and on the assets ever created

ASSUME CloudAssumption == IsFiniteSet(Resources) /\ MaxJobs \in Nat /\ MaxRows \in Nat

VARIABLES
    cloudAccount,   \* the row of cloud_accounts
    cloudAsset,     \* the row of assets with the account's value
    job,            \* job[j]: where a request is
    rows,           \* accounts and assets created so far
    jobs,           \* requests so far
    mishaps,        \* why an asset may be left alone (history)
    mixed           \* audits that wrote their resources while another one did (history)

cloudVars == <<cloudAccount, cloudAsset, job, rows, jobs, mishaps, mixed>>

NoAccount == [id |-> 0, asset |-> 0, status |-> "PENDING", resources |-> {}, count |-> 0]
NoCloudAsset == [id |-> 0, verified |-> FALSE]
NoJob == [op |-> "none", pc |-> "idle", account |-> 0, asset |-> 0,
          answer |-> "none", found |-> {}, doomed |-> {}]

CloudInit ==
    /\ cloudAccount = NoAccount
    /\ cloudAsset = NoCloudAsset
    /\ job = [j \in Jobs |-> NoJob]
    /\ rows = 0 /\ jobs = 0 /\ mishaps = {} /\ mixed = FALSE

HasAccount == cloudAccount.id # 0
HasAsset == cloudAsset.id # 0
Reached(j) == job[j].answer = "CONNECTED"
Done(j) == job' = [job EXCEPT ![j] = NoJob]

\* Each request starts by reading the account: 409 if a new one is there already, 404 if
\* an old one is not.  What it read it keeps.
BeginJob(j, op) ==
    /\ job[j].pc = "idle" /\ jobs < MaxJobs
    /\ HasAccount <=> op # "create"
    /\ jobs' = jobs + 1
    /\ job' = [job EXCEPT ![j] = [NoJob EXCEPT
           !.op = op, !.pc = IF op = "delete" THEN "account" ELSE "ask",
           !.account = cloudAccount.id, !.asset = cloudAccount.asset]]
    /\ UNCHANGED <<cloudAccount, cloudAsset, rows, mishaps, mixed>>

\* The provider answers the test of the connection, or the audit with what it reports;
\* an account created without a test is PENDING.
Answers(op) == IF op = "create" THEN {"CONNECTED", "ERROR", "PENDING"} ELSE {"CONNECTED", "ERROR"}

Ask(j) ==
    /\ job[j].pc = "ask"
    /\ \E answer \in Answers(job[j].op), found \in SUBSET Resources :
        /\ found # {} => job[j].op = "audit" /\ answer = "CONNECTED"
        /\ job' = [job EXCEPT ![j].answer = answer, ![j].found = found,
               ![j].pc = IF job[j].op = "create"
                            \/ (job[j].op = "audit" /\ answer = "CONNECTED" /\ job[j].asset = 0)
                         THEN "asset" ELSE "account"]
    /\ UNCHANGED <<cloudAccount, cloudAsset, rows, jobs, mishaps, mixed>>

\* The asset is created, or the one that is there is reused; it counts as verified when
\* the provider answered.  createAccount and an audit of an account without an asset do
\* it before, and outside, the transaction that needs it.
Upserted(ok) == [id |-> IF HasAsset THEN cloudAsset.id ELSE rows + 1,
                 verified |-> ok \/ cloudAsset.verified]

UpsertAsset(j) ==
    /\ job[j].pc = "asset" /\ (HasAsset \/ rows < MaxRows)
    /\ cloudAsset' = Upserted(Reached(j))
    /\ rows' = IF HasAsset THEN rows ELSE rows + 1
    /\ job' = [job EXCEPT ![j].pc = "account", ![j].asset = cloudAsset'.id]
    /\ UNCHANGED <<cloudAccount, jobs, mishaps, mixed>>

\* Another account with the same number, or an asset that is gone: the insertion fails.
InsertAccount(j) ==
    /\ job[j].op = "create" /\ job[j].pc = "account"
    /\ IF ~HasAccount /\ cloudAsset.id = job[j].asset
       THEN /\ rows < MaxRows
            /\ rows' = rows + 1
            /\ cloudAccount' = [NoAccount EXCEPT !.id = rows + 1, !.asset = job[j].asset,
                                   !.status = job[j].answer]
            /\ UNCHANGED mishaps
       ELSE /\ UNCHANGED <<cloudAccount, rows>>
            /\ mishaps' = mishaps \cup {"creation failed"}
    /\ Done(j)
    /\ UNCHANGED <<cloudAsset, jobs, mixed>>

\* verifyExistingAccount: the status, by the account's id; then, in a statement whose
\* failure is ignored, the asset it read at the start.
UpdateStatus(j) ==
    /\ job[j].op = "verify" /\ job[j].pc = "account"
    /\ IF cloudAccount.id = job[j].account
       THEN /\ cloudAccount' = [cloudAccount EXCEPT !.status = job[j].answer]
            /\ IF Reached(j) /\ job[j].asset # 0
               THEN job' = [job EXCEPT ![j].pc = "confirm"] ELSE Done(j)
       ELSE UNCHANGED cloudAccount /\ Done(j)
    /\ UNCHANGED <<cloudAsset, rows, jobs, mishaps, mixed>>

ConfirmAsset(j) ==
    /\ job[j].op = "verify" /\ job[j].pc = "confirm"
    /\ cloudAsset' = IF cloudAsset.id = job[j].asset THEN [cloudAsset EXCEPT !.verified = TRUE]
                     ELSE cloudAsset
    /\ Done(j)
    /\ UNCHANGED <<cloudAccount, rows, jobs, mishaps, mixed>>

-----------------------------------------------------------------------------
(* Audits *)

\* The provider refused: the account shows the error, if it is still there.
AuditFails(j) ==
    /\ job[j].op = "audit" /\ job[j].pc = "account" /\ ~Reached(j)
    /\ cloudAccount' = IF cloudAccount.id = job[j].account
                       THEN [cloudAccount EXCEPT !.status = "ERROR"] ELSE cloudAccount
    /\ Done(j)
    /\ UNCHANGED <<cloudAsset, rows, jobs, mishaps, mixed>>

\* A slip: none of them goes.
NoRows(found) == {}

\* The rows the audit deletes: those it can see that were not reported.
Vanished(found) == cloudAccount.resources \ found

\* The transaction begins: resources are inserted, and the ones to go are chosen among
\* those that are committed.
WriteResources(j) ==
    /\ job[j].op = "audit" /\ job[j].pc = "account" /\ Reached(j)
    /\ job' = [job EXCEPT ![j].pc = "commit", ![j].doomed = Vanished(job[j].found)]
    /\ mixed' = (mixed \/ \E k \in Jobs : job[k].pc = "commit")
    /\ UNCHANGED <<cloudAccount, cloudAsset, rows, jobs, mishaps>>

\* It ends: the asset and the account must still be there, or all of it is undone.
CommitAudit(j) ==
    LET here == cloudAccount.id = job[j].account /\ cloudAsset.id = job[j].asset
                /\ cloudAccount.asset \in {0, job[j].asset}
    IN  /\ job[j].pc = "commit"
        /\ IF here
           THEN /\ cloudAccount' = [cloudAccount EXCEPT
                       !.status = "CONNECTED", !.asset = job[j].asset,
                       !.resources = (@ \ job[j].doomed) \cup job[j].found,
                       !.count = Cardinality(job[j].found)]
                /\ cloudAsset' = [cloudAsset EXCEPT !.verified = TRUE]
                /\ UNCHANGED mishaps
           ELSE /\ UNCHANGED <<cloudAccount, cloudAsset>>
                /\ mishaps' = mishaps \cup {"audit undone"}
        /\ Done(j)
        /\ UNCHANGED <<rows, jobs, mixed>>

-----------------------------------------------------------------------------
(* Deletions *)

\* A slip: it stays.
Spared(j) == 0

\* The asset to delete after the account.
AssetToDelete(j) == job[j].asset

\* deleteAccount: the account, with its resources ...
DeleteAccount(j) ==
    /\ job[j].op = "delete" /\ job[j].pc = "account"
    /\ IF cloudAccount.id = job[j].account
       THEN /\ cloudAccount' = NoAccount
            /\ mishaps' = IF cloudAccount.asset = job[j].asset THEN mishaps
                          ELSE mishaps \cup {"linked while deleted"}
            /\ IF AssetToDelete(j) = 0 THEN Done(j) ELSE job' = [job EXCEPT ![j].pc = "asset row"]
       ELSE UNCHANGED <<cloudAccount, mishaps>> /\ Done(j)
    /\ UNCHANGED <<cloudAsset, rows, jobs, mixed>>

\* The link of an account is cleared when its asset goes.
Unlinked(id) == IF cloudAccount.asset = id THEN [cloudAccount EXCEPT !.asset = 0] ELSE cloudAccount

\* ... then the asset it read, in a statement of its own whose failure is ignored.
DeleteAsset(j) ==
    /\ job[j].pc = "asset row"
    /\ \/ /\ cloudAsset' = IF cloudAsset.id = job[j].asset THEN NoCloudAsset ELSE cloudAsset
          /\ cloudAccount' = IF cloudAsset.id = job[j].asset THEN Unlinked(job[j].asset) ELSE cloudAccount
          /\ UNCHANGED mishaps
       \/ /\ mishaps' = mishaps \cup {"deletion half done"}
          /\ UNCHANGED <<cloudAccount, cloudAsset>>
    /\ Done(j)
    /\ UNCHANGED <<rows, jobs, mixed>>

\* AssetsService.remove: a user removes the asset from the inventory.
RemoveCloudAsset ==
    /\ HasAsset
    /\ cloudAccount' = Unlinked(cloudAsset.id)
    /\ cloudAsset' = NoCloudAsset
    /\ UNCHANGED <<job, rows, jobs, mishaps, mixed>>

CloudNext ==
    \/ \E j \in Jobs :
        \/ \E op \in {"create", "verify", "audit", "delete"} : BeginJob(j, op)
        \/ Ask(j) \/ UpsertAsset(j) \/ InsertAccount(j) \/ UpdateStatus(j) \/ ConfirmAsset(j)
        \/ AuditFails(j) \/ WriteResources(j) \/ CommitAudit(j)
        \/ DeleteAccount(j) \/ DeleteAsset(j)
    \/ RemoveCloudAsset

CloudSpec == CloudInit /\ [][CloudNext]_cloudVars

-----------------------------------------------------------------------------
(* Properties *)

\* Types; and an account never points at an asset that is gone.
CloudTypeOK ==
    /\ cloudAccount \in [id : 0..MaxRows, asset : {0, cloudAsset.id}, count : 0..Cardinality(Resources),
                         status : {"PENDING", "CONNECTED", "ERROR"}, resources : SUBSET Resources]
    /\ cloudAsset \in [id : 0..MaxRows, verified : BOOLEAN]
    /\ \A j \in Jobs : job[j].op \in {"none", "create", "verify", "audit", "delete"}
    /\ rows \in 0..MaxRows /\ jobs \in 0..MaxJobs

Idle == \A j \in Jobs : job[j].pc = "idle"

\* With no request under way, the asset of a cloud account is in the inventory without an
\* account that points at it only after one of the ways the code leaves it so: a creation
\* that lost the race, an audit undone after it had created the asset, an audit that
\* linked it while the account was being deleted, the second statement of a deletion
\* that did not happen.
OrphanHasCause ==
    Idle /\ HasAsset /\ cloudAccount.asset # cloudAsset.id => mishaps # {}

\* The inventory of resources is the one the last audit counted, unless two audits wrote
\* at once: neither then sees, and deletes, what the other inserts.
ResourcesAreCounted == cloudAccount.count = Cardinality(cloudAccount.resources) \/ mixed

==============================================================================
