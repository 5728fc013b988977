--------------------------- MODULE Inventory_proofs --------------------------
(***************************************************************************)
(* What the inventory of assets, a cloud account and the findings keep,     *)
(* with any numbers of requests, names, resources and findings.             *)
(***************************************************************************)
EXTENDS Holdings, FiniteSetTheorems, SequenceTheorems, TLAPS

------------------------------------------------------------------------------
(* The cloud account.                                                       *)

Job == [op : {"none", "create", "verify", "audit", "delete"},
        pc : {"idle", "ask", "asset", "account", "confirm", "commit", "asset row"},
        account : 0..MaxRows, asset : 0..MaxRows,
        answer : {"none", "CONNECTED", "ERROR", "PENDING"},
        found : SUBSET Resources, doomed : SUBSET Resources]

Cloud == [id : 0..MaxRows, asset : 0..MaxRows, count : 0..Cardinality(Resources),
          status : {"PENDING", "CONNECTED", "ERROR"}, resources : SUBSET Resources]

\* The types; an identifier in use, or read, is of a row that was created.
CloudTyped ==
    /\ cloudAccount \in Cloud
    /\ cloudAsset \in [id : 0..MaxRows, verified : BOOLEAN]
    /\ job \in [Jobs -> Job]
    /\ cloudAccount.asset \in {0, cloudAsset.id}
    /\ rows \in 0..MaxRows /\ jobs \in 0..MaxJobs /\ mixed \in BOOLEAN
    /\ cloudAccount.id <= rows /\ cloudAsset.id <= rows
    /\ \A j \in Jobs : job[j].account <= rows /\ job[j].asset <= rows
    /\ \A j \in Jobs : job[j].op \in {"create", "verify"} /\ job[j].pc \in {"asset", "account"}
                       => job[j].answer # "none"

\* Only a creation, or an audit with an answer, creates the asset; only a deletion deletes it.
Placed(j) ==
    /\ job[j].pc = "asset" => job[j].op = "create" \/ (job[j].op = "audit" /\ Reached(j))
    /\ job[j].pc = "asset row" => job[j].op = "delete"

\* An audit read an account that was there; while no two have met in their transactions,
\* the one that is in its own will leave what it found, if the account is still the one.
AuditInv ==
    /\ \A j \in Jobs : /\ job[j].op \in {"verify", "audit", "delete"} => job[j].account # 0
                       /\ job[j].pc = "commit" => job[j].op = "audit"
                       /\ Placed(j)
    /\ mixed \/ /\ cloudAccount.count = Cardinality(cloudAccount.resources)
                /\ \A j, k \in Jobs : job[j].pc = "commit" /\ job[k].pc = "commit" => j = k
                /\ \A j \in Jobs : job[j].pc = "commit" /\ job[j].account = cloudAccount.id
                                   => job[j].doomed = cloudAccount.resources \ job[j].found

\* A request that will link the asset to an account, remove it, or leave a cause: a
\* creation, an audit that got its answer, a deletion on its second statement.
Settles(j) ==
    \/ job[j].op = "create" /\ job[j].pc # "idle"
    \/ job[j].op = "audit" /\ Reached(j) /\ job[j].pc \in {"asset", "account", "commit"}
    \/ job[j].op = "delete" /\ job[j].pc = "asset row" /\ job[j].asset = cloudAsset.id

OrphanInv ==
    HasAsset /\ cloudAccount.asset # cloudAsset.id => mishaps # {} \/ \E j \in Jobs : Settles(j)

CloudInv == CloudTyped /\ AuditInv /\ OrphanInv

------------------------------------------------------------------------------
(* What a step does to the request it serves.                               *)

\* The step is of request j: the others keep their records.
OnlyJob(j) == job' \in [Jobs -> Job] /\ \A k \in Jobs \ {j} : job'[k] = job[k]

\* Writing the record of one request leaves the others alone.
LEMMA JobWritten ==
    ASSUME CloudTyped, NEW j \in Jobs, NEW r \in Job, job' = [job EXCEPT ![j] = r]
    PROVE  OnlyJob(j) /\ job'[j] = r
BY DEF CloudTyped, OnlyJob

\* The request at rest has the type.
LEMMA RestingJob == NoJob \in Job /\ NoJob.pc = "idle" /\ NoJob.asset = 0 /\ NoJob.account = 0
BY CloudAssumption DEF NoJob, Job

\* A request that ends is at rest.
LEMMA DoneEffect ==
    ASSUME CloudTyped, NEW j \in Jobs, Done(j)
    PROVE  OnlyJob(j) /\ job'[j] = NoJob
BY JobWritten, RestingJob DEF Done

\* A request that goes on keeps what it read.
Continues(j, pcs) ==
    /\ OnlyJob(j)
    /\ job'[j].pc \in pcs
    /\ job'[j].op = job[j].op /\ job'[j].account = job[j].account

\* What the first step of a request writes.
LEMMA BeginEffect ==
    ASSUME CloudTyped, NEW j \in Jobs, NEW op \in {"create", "verify", "audit", "delete"},
           BeginJob(j, op)
    PROVE  /\ OnlyJob(j) /\ job[j].pc = "idle" /\ job'[j].op = op
           /\ job'[j].pc = (IF op = "delete" THEN "account" ELSE "ask")
           /\ job'[j].account = cloudAccount.id /\ job'[j].asset = cloudAccount.asset
           /\ job'[j].answer = "none"
           /\ op # "create" => cloudAccount.id # 0
<1> DEFINE r == [NoJob EXCEPT !.op = op, !.pc = IF op = "delete" THEN "account" ELSE "ask",
                              !.account = cloudAccount.id, !.asset = cloudAccount.asset]
<1>1. /\ r.op = op /\ r.pc = (IF op = "delete" THEN "account" ELSE "ask")
      /\ r.account = cloudAccount.id /\ r.asset = cloudAccount.asset /\ r.answer = "none"
  BY DEF NoJob
<1>2. r \in Job
  BY CloudAssumption DEF CloudTyped, Cloud, NoJob, Job
<1>3. job' = [job EXCEPT ![j] = r] /\ job[j].pc = "idle" /\ (op # "create" => cloudAccount.id # 0)
  BY DEF BeginJob, HasAccount
<1> HIDE DEF r
<1> QED
  BY <1>1, <1>2, <1>3, JobWritten

\* What the answer of the provider writes.
LEMMA AskEffect ==
    ASSUME CloudTyped, NEW j \in Jobs, Ask(j)
    PROVE  /\ Continues(j, {"asset", "account"}) /\ job[j].pc = "ask"
           /\ job'[j].asset = job[j].asset
           /\ Placed(j)' /\ job'[j].answer # "none"
<1>1. PICK answer \in Answers(job[j].op), found \in SUBSET Resources :
        /\ found # {} => job[j].op = "audit" /\ answer = "CONNECTED"
        /\ job' = [job EXCEPT ![j].answer = answer, ![j].found = found,
               ![j].pc = IF job[j].op = "create"
                            \/ (job[j].op = "audit" /\ answer = "CONNECTED" /\ job[j].asset = 0)
                         THEN "asset" ELSE "account"]
  BY DEF Ask
<1> DEFINE r == [job[j] EXCEPT !.answer = answer, !.found = found,
                    !.pc = IF job[j].op = "create"
                              \/ (job[j].op = "audit" /\ answer = "CONNECTED" /\ job[j].asset = 0)
                           THEN "asset" ELSE "account"]
<1>2. answer \in {"CONNECTED", "ERROR", "PENDING"}
  BY DEF Answers
<1>3. /\ r \in Job /\ r.pc \in {"asset", "account"} /\ r.op = job[j].op
      /\ r.account = job[j].account /\ r.asset = job[j].asset /\ r.answer = answer
      /\ r.pc = "asset" => job[j].op = "create" \/ (job[j].op = "audit" /\ answer = "CONNECTED")
  BY ZenonT(40), <1>2 DEF CloudTyped, Job
<1>4. job' = [job EXCEPT ![j] = r] /\ job[j].pc = "ask"
  BY <1>1 DEF Ask, CloudTyped
<1> HIDE DEF r
<1>5. OnlyJob(j) /\ job'[j] = r
  BY <1>3, <1>4, JobWritten
<1> QED
  BY <1>2, <1>3, <1>4, <1>5 DEF Continues, Reached, Placed

\* What creating, or finding, the asset writes.
LEMMA UpsertEffect ==
    ASSUME CloudTyped, NEW j \in Jobs, UpsertAsset(j)
    PROVE  /\ Continues(j, {"account"}) /\ job[j].pc = "asset"
           /\ job'[j].answer = job[j].answer /\ job'[j].asset = cloudAsset'.id
           /\ cloudAsset' \in [id : 0..MaxRows, verified : BOOLEAN]
           /\ rows' \in 0..MaxRows /\ rows <= rows' /\ cloudAsset'.id <= rows'
           /\ cloudAsset.id # 0 => cloudAsset'.id = cloudAsset.id
<1>1. /\ cloudAsset' \in [id : 0..MaxRows, verified : BOOLEAN]
      /\ rows' \in 0..MaxRows /\ rows <= rows' /\ cloudAsset'.id <= rows'
      /\ cloudAsset.id # 0 => cloudAsset'.id = cloudAsset.id
  BY CloudAssumption DEF UpsertAsset, CloudTyped, Upserted, HasAsset, Reached
<1> DEFINE r == [job[j] EXCEPT !.pc = "account", !.asset = cloudAsset'.id]
<1>2. /\ r \in Job /\ r.pc = "account" /\ r.op = job[j].op /\ r.account = job[j].account
      /\ r.answer = job[j].answer /\ r.asset = cloudAsset'.id
  BY <1>1 DEF CloudTyped, Job
<1>3. job' = [job EXCEPT ![j] = r] /\ job[j].pc = "asset"
  BY DEF UpsertAsset, CloudTyped
<1> HIDE DEF r
<1> QED
  BY <1>1, <1>2, <1>3, JobWritten DEF Continues

\* What the status written by a verification writes of its request.
LEMMA StatusEffect ==
    ASSUME CloudTyped, NEW j \in Jobs, UpdateStatus(j)
    PROVE  /\ OnlyJob(j) /\ job[j].op = "verify"
           /\ job'[j] = NoJob \/ (job'[j].pc = "confirm" /\ job'[j].op = "verify"
                                  /\ job'[j].account = job[j].account /\ job'[j].asset = job[j].asset)
<1>1. CASE Done(j)
  BY <1>1, DoneEffect DEF UpdateStatus
<1>2. CASE job' = [job EXCEPT ![j].pc = "confirm"]
  <2> DEFINE r == [job[j] EXCEPT !.pc = "confirm"]
  <2>1. /\ r \in Job /\ r.pc = "confirm" /\ r.op = job[j].op /\ r.account = job[j].account
        /\ r.asset = job[j].asset
    BY DEF CloudTyped, Job
  <2>2. job' = [job EXCEPT ![j] = r] /\ job[j].op = "verify"
    BY <1>2 DEF UpdateStatus, CloudTyped
  <2> HIDE DEF r
  <2> QED
    BY <2>1, <2>2, JobWritten
<1> QED
  BY <1>1, <1>2 DEF UpdateStatus

\* What the start of the transaction of an audit writes.
LEMMA WriteEffect ==
    ASSUME CloudTyped, NEW j \in Jobs, WriteResources(j)
    PROVE  /\ Continues(j, {"commit"}) /\ job[j].pc = "account" /\ job[j].op = "audit"
           /\ Reached(j) /\ Reached(j)' /\ job'[j].asset = job[j].asset
           /\ job'[j].found = job[j].found
           /\ job'[j].doomed = cloudAccount.resources \ job[j].found
<1> DEFINE r == [job[j] EXCEPT !.pc = "commit", !.doomed = Vanished(job[j].found)]
<1>1. /\ r \in Job /\ r.pc = "commit" /\ r.op = job[j].op /\ r.account = job[j].account
      /\ r.asset = job[j].asset /\ r.answer = job[j].answer /\ r.found = job[j].found
      /\ r.doomed = cloudAccount.resources \ job[j].found
  BY ZenonT(40) DEF CloudTyped, Job, Cloud, Vanished
<1>2. /\ job' = [job EXCEPT ![j] = r] /\ job[j].pc = "account" /\ job[j].op = "audit" /\ Reached(j)
  BY DEF WriteResources, CloudTyped
<1> HIDE DEF r
<1>3. OnlyJob(j) /\ job'[j] = r
  BY <1>1, <1>2, JobWritten
<1> QED
  BY <1>1, <1>2, <1>3 DEF Continues, Reached

\* What the first statement of a deletion writes.
LEMMA DeleteEffect ==
    ASSUME CloudTyped, NEW j \in Jobs, DeleteAccount(j)
    PROVE  /\ OnlyJob(j) /\ job[j].op = "delete" /\ job[j].pc = "account"
           /\ \/ job'[j] = NoJob
              \/ /\ job'[j].pc = "asset row" /\ job'[j].op = "delete"
                 /\ job'[j].account = job[j].account /\ job'[j].asset = job[j].asset
           /\ cloudAccount.id = job[j].account /\ job[j].asset # 0
              => job'[j].pc = "asset row" /\ job'[j].op = "delete" /\ job'[j].asset = job[j].asset
<1>1. CASE Done(j) /\ (cloudAccount.id = job[j].account => job[j].asset = 0)
  BY <1>1, DoneEffect DEF DeleteAccount, AssetToDelete
<1>2. CASE job' = [job EXCEPT ![j].pc = "asset row"]
  <2> DEFINE r == [job[j] EXCEPT !.pc = "asset row"]
  <2>1. /\ r \in Job /\ r.pc = "asset row" /\ r.op = job[j].op /\ r.account = job[j].account
        /\ r.asset = job[j].asset
    BY DEF CloudTyped, Job
  <2>2. job' = [job EXCEPT ![j] = r] /\ job[j].op = "delete" /\ job[j].pc = "account"
    BY <1>2 DEF DeleteAccount, CloudTyped
  <2> HIDE DEF r
  <2> QED
    BY <2>1, <2>2, JobWritten
<1> QED
  BY <1>1, <1>2 DEF DeleteAccount, AssetToDelete

------------------------------------------------------------------------------
(* The types, and the audits, are kept.                                     *)

\* The types are kept when the records of the rows have them and the requests hold
\* identifiers of rows that were created.
LEMMA CloudTypesKept ==
    ASSUME CloudTyped, NEW j \in Jobs, OnlyJob(j),
           cloudAccount' \in Cloud, cloudAsset' \in [id : 0..MaxRows, verified : BOOLEAN],
           cloudAccount'.asset \in {0, cloudAsset'.id},
           rows' \in 0..MaxRows, rows <= rows', jobs' \in 0..MaxJobs, mixed' \in BOOLEAN,
           cloudAccount'.id <= rows', cloudAsset'.id <= rows',
           job'[j].account <= rows', job'[j].asset <= rows',
           job'[j].op \in {"create", "verify"} /\ job'[j].pc \in {"asset", "account"} => job'[j].answer # "none"
    PROVE  CloudTyped'
<1>1. ASSUME NEW k \in Jobs PROVE job'[k].account <= rows' /\ job'[k].asset <= rows'
  <2>1. CASE k = j
    BY <2>1
  <2>2. CASE k # j
    <3>1. job'[k] = job[k] /\ rows \in Nat /\ rows' \in Nat
      BY <2>2, CloudAssumption DEF CloudTyped, OnlyJob
    <3>2. job[k].account \in 0..MaxRows /\ job[k].asset \in 0..MaxRows
      BY DEF CloudTyped, Job
    <3>3. job[k].account <= rows /\ job[k].asset <= rows
      BY DEF CloudTyped
    <3> QED
      BY <3>1, <3>2, <3>3, CloudAssumption
  <2> QED
    BY <2>1, <2>2
<1>2. job' \in [Jobs -> Job]
  BY DEF OnlyJob
<1>3. ASSUME NEW k \in Jobs, job'[k].op \in {"create", "verify"}, job'[k].pc \in {"asset", "account"}
      PROVE  job'[k].answer # "none"
  BY <1>3 DEF OnlyJob, CloudTyped
<1> HIDE DEF Job, Cloud
<1> QED
  BY <1>1, <1>2, <1>3 DEF CloudTyped

\* A number of resources that may be counted.
LEMMA CountedResources ==
    ASSUME NEW S \in SUBSET Resources
    PROVE  Cardinality(S) \in 0..Cardinality(Resources)
<1>1. IsFiniteSet(Resources)
  BY CloudAssumption
<1>2. IsFiniteSet(S) /\ Cardinality(S) <= Cardinality(Resources)
  BY <1>1, FS_Subset
<1> QED
  BY <1>1, <1>2, FS_CardinalityType

\* The types are kept by every step.
LEMMA CloudTypesStep == CloudTyped /\ [CloudNext]_cloudVars => CloudTyped'
<1> SUFFICES ASSUME CloudTyped, [CloudNext]_cloudVars PROVE CloudTyped'
  OBVIOUS
<1> USE CloudAssumption
<1>0. /\ cloudAccount \in Cloud /\ cloudAsset \in [id : 0..MaxRows, verified : BOOLEAN]
      /\ cloudAccount.asset \in {0, cloudAsset.id}
      /\ rows \in 0..MaxRows /\ jobs \in 0..MaxJobs /\ mixed \in BOOLEAN
      /\ cloudAccount.id <= rows /\ cloudAsset.id <= rows /\ rows \in Nat
      /\ cloudAccount.id \in Nat /\ cloudAccount.asset \in Nat /\ cloudAsset.id \in Nat
      /\ cloudAccount.asset <= rows
  BY DEF CloudTyped, Cloud
<1>1. \A k \in Jobs : /\ job[k] \in Job /\ job[k].account <= rows /\ job[k].asset <= rows
                      /\ job[k].account \in 0..MaxRows /\ job[k].asset \in 0..MaxRows
                      /\ job[k].answer \in {"none", "CONNECTED", "ERROR", "PENDING"}
                      /\ job[k].found \in SUBSET Resources
                      /\ job[k].op \in {"create", "verify"} /\ job[k].pc \in {"asset", "account"} => job[k].answer # "none"
  BY DEF CloudTyped, Job
<1> DEFINE Answered(j) == job'[j].op \in {"create", "verify"} /\ job'[j].pc \in {"asset", "account"} => job'[j].answer # "none"
<1>2. ASSUME NEW j \in Jobs, NEW op \in {"create", "verify", "audit", "delete"}, BeginJob(j, op)
      PROVE  CloudTyped'
  <2>1. /\ OnlyJob(j) /\ job'[j].account <= rows /\ job'[j].asset <= rows /\ Answered(j)
    BY <1>0, <1>2, BeginEffect
  <2>2. UNCHANGED <<cloudAccount, cloudAsset, rows, mixed>> /\ jobs' \in 0..MaxJobs
    BY <1>0, <1>2 DEF BeginJob
  <2> QED
    BY <1>0, <2>1, <2>2, CloudTypesKept
<1>3. ASSUME NEW j \in Jobs, Ask(j) PROVE CloudTyped'
  <2>1. OnlyJob(j) /\ job'[j].account <= rows /\ job'[j].asset <= rows /\ Answered(j)
    BY <1>1, <1>3, AskEffect DEF Continues
  <2>2. UNCHANGED <<cloudAccount, cloudAsset, rows, jobs, mixed>>
    BY <1>3 DEF Ask
  <2> QED
    BY <1>0, <2>1, <2>2, CloudTypesKept
<1>4. ASSUME NEW j \in Jobs, UpsertAsset(j) PROVE CloudTyped'
  <2>1. /\ OnlyJob(j) /\ job'[j].account = job[j].account /\ job'[j].asset = cloudAsset'.id
        /\ cloudAsset' \in [id : 0..MaxRows, verified : BOOLEAN]
        /\ rows' \in 0..MaxRows /\ rows <= rows' /\ cloudAsset'.id <= rows'
        /\ cloudAsset.id # 0 => cloudAsset'.id = cloudAsset.id
    BY <1>4, UpsertEffect DEF Continues
  <2>2. UNCHANGED <<cloudAccount, jobs, mixed>>
    BY <1>4 DEF UpsertAsset
  <2>3. cloudAccount.asset \in {0, cloudAsset'.id} /\ cloudAccount.id <= rows' /\ Answered(j)
    BY <1>0, <1>1, <1>4, <2>1, UpsertEffect DEF Continues
  <2>4. job'[j].account <= rows' /\ job'[j].asset <= rows'
    BY <1>0, <1>1, <2>1
  <2> QED
    BY <1>0, <2>1, <2>2, <2>3, <2>4, CloudTypesKept
<1>5. ASSUME NEW j \in Jobs, InsertAccount(j) PROVE CloudTyped'
  <2>1. OnlyJob(j) /\ job'[j].account = 0 /\ job'[j].asset = 0 /\ Answered(j)
    BY <1>5, DoneEffect, RestingJob DEF InsertAccount
  <2>2. UNCHANGED <<cloudAsset, jobs, mixed>>
    BY <1>5 DEF InsertAccount
  <2>3. CASE UNCHANGED <<cloudAccount, rows>>
    BY <1>0, <2>1, <2>2, <2>3, CloudTypesKept
  <2>4. CASE ~UNCHANGED <<cloudAccount, rows>>
    <3>1. /\ ~HasAccount /\ cloudAsset.id = job[j].asset /\ rows < MaxRows /\ rows' = rows + 1
          /\ cloudAccount' = [NoAccount EXCEPT !.id = rows + 1, !.asset = job[j].asset,
                                 !.status = job[j].answer]
      BY <1>5, <2>4 DEF InsertAccount
    <3>2. job[j].answer \in {"PENDING", "CONNECTED", "ERROR"}
      BY <1>1, <1>5 DEF InsertAccount
    <3>3. 0 \in 0..Cardinality(Resources)
      BY CountedResources, FS_EmptySet
    <3>4. /\ cloudAccount' = [id |-> rows + 1, asset |-> job[j].asset, status |-> job[j].answer,
                              resources |-> {}, count |-> 0]
      BY <3>1 DEF NoAccount
    <3>5. rows + 1 \in 0..MaxRows /\ job[j].asset \in 0..MaxRows
      BY <1>0, <1>1, <3>1
    <3>6. cloudAccount' \in Cloud
      BY <3>2, <3>3, <3>4, <3>5 DEF Cloud
    <3> QED
      BY <1>0, <2>1, <2>2, <3>1, <3>4, <3>6, CloudTypesKept
  <2> QED
    BY <2>3, <2>4
<1>6. ASSUME NEW j \in Jobs, UpdateStatus(j) PROVE CloudTyped'
  <2>1. /\ OnlyJob(j) /\ job'[j].account <= rows /\ job'[j].asset <= rows /\ Answered(j)
    BY <1>0, <1>1, <1>6, StatusEffect, RestingJob
  <2>2. /\ UNCHANGED <<cloudAsset, rows, jobs, mixed>>
        /\ cloudAccount' \in Cloud /\ cloudAccount'.id = cloudAccount.id
        /\ cloudAccount'.asset = cloudAccount.asset
    <3>1. UNCHANGED cloudAccount \/ job[j].answer \in {"PENDING", "CONNECTED", "ERROR"}
      BY <1>1, <1>6 DEF UpdateStatus
    <3> QED
      BY <1>0, <1>6, <3>1 DEF UpdateStatus, Cloud
  <2> QED
    BY <1>0, <2>1, <2>2, CloudTypesKept
<1>7. ASSUME NEW j \in Jobs, ConfirmAsset(j) \/ AuditFails(j) PROVE CloudTyped'
  <2>1. OnlyJob(j) /\ job'[j].account = 0 /\ job'[j].asset = 0 /\ Answered(j)
    BY <1>7, DoneEffect, RestingJob DEF ConfirmAsset, AuditFails
  <2>2. /\ cloudAsset' \in [id : 0..MaxRows, verified : BOOLEAN] /\ cloudAsset'.id = cloudAsset.id
        /\ UNCHANGED <<rows, jobs, mixed>>
    BY <1>0, <1>7 DEF ConfirmAsset, AuditFails
  <2>3. /\ cloudAccount' \in Cloud /\ cloudAccount'.id = cloudAccount.id
        /\ cloudAccount'.asset = cloudAccount.asset
    BY <1>0, <1>7 DEF ConfirmAsset, AuditFails, Cloud
  <2> QED
    BY <1>0, <2>1, <2>2, <2>3, CloudTypesKept
<1>8. ASSUME NEW j \in Jobs, WriteResources(j) PROVE CloudTyped'
  <2>1. OnlyJob(j) /\ job'[j].account <= rows /\ job'[j].asset <= rows /\ Answered(j)
    BY <1>1, <1>8, WriteEffect DEF Continues
  <2>2. UNCHANGED <<cloudAccount, cloudAsset, rows, jobs>> /\ mixed' \in BOOLEAN
    BY <1>0, <1>8 DEF WriteResources
  <2> QED
    BY <1>0, <2>1, <2>2, CloudTypesKept
<1>9. ASSUME NEW j \in Jobs, CommitAudit(j) PROVE CloudTyped'
  <2>1. OnlyJob(j) /\ job'[j].account = 0 /\ job'[j].asset = 0 /\ Answered(j)
    BY <1>9, DoneEffect, RestingJob DEF CommitAudit
  <2>2. UNCHANGED <<rows, jobs, mixed>>
    BY <1>9 DEF CommitAudit
  <2>3. CASE UNCHANGED <<cloudAccount, cloudAsset>>
    BY <1>0, <2>1, <2>2, <2>3, CloudTypesKept
  <2>4. CASE ~UNCHANGED <<cloudAccount, cloudAsset>>
    <3>1. /\ cloudAsset.id = job[j].asset
          /\ cloudAccount' = [cloudAccount EXCEPT
                       !.status = "CONNECTED", !.asset = job[j].asset,
                       !.resources = (cloudAccount.resources \ job[j].doomed) \cup job[j].found,
                       !.count = Cardinality(job[j].found)]
          /\ cloudAsset' = [cloudAsset EXCEPT !.verified = TRUE]
      BY <1>0, <1>9, <2>4 DEF CommitAudit, Cloud
    <3>2. Cardinality(job[j].found) \in 0..Cardinality(Resources)
      BY <1>1, CountedResources
    <3>3. /\ cloudAccount' \in Cloud /\ cloudAccount'.id = cloudAccount.id
          /\ cloudAccount'.asset = job[j].asset
          /\ cloudAsset' \in [id : 0..MaxRows, verified : BOOLEAN] /\ cloudAsset'.id = job[j].asset
      BY <1>0, <1>1, <3>1, <3>2 DEF Cloud
    <3> QED
      BY <1>0, <1>1, <2>1, <2>2, <3>3, CloudTypesKept
  <2> QED
    BY <2>3, <2>4
<1>10. NoAccount \in Cloud /\ NoAccount.id = 0 /\ NoAccount.asset = 0
  BY CountedResources, FS_EmptySet DEF NoAccount, Cloud
<1>11. ASSUME NEW j \in Jobs, DeleteAccount(j) PROVE CloudTyped'
  <2>1. OnlyJob(j) /\ job'[j].account <= rows /\ job'[j].asset <= rows /\ Answered(j)
    <3>1. \/ job'[j] = NoJob
          \/ /\ job'[j].pc = "asset row" /\ job'[j].op = "delete"
             /\ job'[j].account = job[j].account /\ job'[j].asset = job[j].asset
      BY <1>11, DeleteEffect
    <3>2. OnlyJob(j)
      BY <1>11, DeleteEffect
    <3>3. CASE job'[j] = NoJob
      BY <1>0, <3>2, <3>3, RestingJob
    <3>4. CASE job'[j] # NoJob
      <4>1. job'[j].account <= rows /\ job'[j].asset <= rows
        BY <1>1, <3>1, <3>4
      <4> QED
        BY <3>1, <3>2, <3>4, <4>1
    <3> QED
      BY <3>3, <3>4
  <2>2. /\ UNCHANGED <<cloudAsset, rows, jobs, mixed>>
        /\ cloudAccount' = cloudAccount \/ cloudAccount' = NoAccount
    BY <1>11 DEF DeleteAccount
  <2>3. cloudAccount' \in Cloud /\ cloudAccount'.id <= rows /\ cloudAccount'.asset \in {0, cloudAsset.id}
    BY <1>0, <1>10, <2>2
  <2> QED
    BY <1>0, <2>1, <2>2, <2>3, CloudTypesKept
<1>12. NoCloudAsset \in [id : 0..MaxRows, verified : BOOLEAN] /\ NoCloudAsset.id = 0
  BY DEF NoCloudAsset
<1>13. /\ Unlinked(cloudAsset.id) \in Cloud /\ Unlinked(cloudAsset.id).asset = 0
       /\ Unlinked(cloudAsset.id).id = cloudAccount.id
  BY <1>0 DEF Unlinked, Cloud
<1>14. ASSUME NEW j \in Jobs, DeleteAsset(j) PROVE CloudTyped'
  <2>1. OnlyJob(j) /\ job'[j].account = 0 /\ job'[j].asset = 0 /\ Answered(j)
    BY <1>14, DoneEffect, RestingJob DEF DeleteAsset
  <2>2. /\ UNCHANGED <<rows, jobs, mixed>>
        /\ \/ cloudAsset' = cloudAsset /\ cloudAccount' = cloudAccount
           \/ cloudAsset' = NoCloudAsset /\ cloudAccount' = Unlinked(cloudAsset.id)
    BY <1>14 DEF DeleteAsset
  <2> QED
    BY <1>0, <1>12, <1>13, <2>1, <2>2, CloudTypesKept
<1>15. CASE RemoveCloudAsset
  <2>1. /\ UNCHANGED <<job, rows, jobs, mixed>>
        /\ cloudAsset' = NoCloudAsset /\ cloudAccount' = Unlinked(cloudAsset.id)
    BY <1>15 DEF RemoveCloudAsset
  <2> QED
    BY <1>0, <1>1, <1>12, <1>13, <2>1 DEF CloudTyped
<1>16. CASE UNCHANGED cloudVars
  BY <1>16 DEF cloudVars, CloudTyped
<1> QED
  BY <1>2, <1>3, <1>4, <1>5, <1>6, <1>7, <1>8, <1>9, <1>11, <1>14, <1>15, <1>16 DEF CloudNext

\* A step of a request that is not in the transaction of an audit afterwards keeps the
\* audits, when it leaves the resources alone or writes an account no audit has read.
LEMMA AuditKept ==
    ASSUME CloudTyped, AuditInv, NEW j \in Jobs, OnlyJob(j), mixed' = mixed,
           job'[j].pc # "commit", Placed(j)',
           job'[j].op \in {"verify", "audit", "delete"} => job'[j].account # 0,
           \/ mixed
           \/ /\ cloudAccount'.count = Cardinality(cloudAccount'.resources)
              /\ \A k \in Jobs \ {j} :
                   job[k].pc = "commit" /\ job[k].account = cloudAccount'.id =>
                     /\ cloudAccount'.id = cloudAccount.id
                     /\ cloudAccount'.resources = cloudAccount.resources
    PROVE  AuditInv'
<1>1. ASSUME NEW k \in Jobs
      PROVE  /\ job'[k].op \in {"verify", "audit", "delete"} => job'[k].account # 0
             /\ job'[k].pc = "commit" => job'[k].op = "audit"
             /\ Placed(k)'
  BY DEF AuditInv, OnlyJob, Placed, Reached
<1>2. ASSUME ~mixed
      PROVE  /\ cloudAccount'.count = Cardinality(cloudAccount'.resources)
             /\ \A k, l \in Jobs : job'[k].pc = "commit" /\ job'[l].pc = "commit" => k = l
             /\ \A k \in Jobs : job'[k].pc = "commit" /\ job'[k].account = cloudAccount'.id
                                => job'[k].doomed = cloudAccount'.resources \ job'[k].found
  BY <1>2 DEF AuditInv, OnlyJob
<1> QED
  BY <1>1, <1>2 DEF AuditInv

\* Every step keeps the audits.
LEMMA AuditStep == CloudTyped /\ AuditInv /\ [CloudNext]_cloudVars => AuditInv'
<1> SUFFICES ASSUME CloudTyped, AuditInv, [CloudNext]_cloudVars PROVE AuditInv'
  OBVIOUS
<1>0. /\ cloudAccount \in Cloud /\ rows \in Nat
      /\ mixed \/ cloudAccount.count = Cardinality(cloudAccount.resources)
  BY CloudAssumption DEF CloudTyped, AuditInv
<1>1. NoAccount.count = Cardinality(NoAccount.resources) /\ NoAccount.id = 0
  BY FS_EmptySet DEF NoAccount
<1>2. \A k \in Jobs : /\ job[k].op \in {"verify", "audit", "delete"} => job[k].account # 0
                      /\ job[k].pc = "commit" => job[k].op = "audit" /\ job[k].account # 0
                      /\ job[k].account <= rows
  BY DEF AuditInv, CloudTyped
<1>3. NoJob.pc = "idle" /\ NoJob.op = "none"
  BY DEF NoJob
<1>4. ASSUME NEW j \in Jobs, NEW op \in {"create", "verify", "audit", "delete"}, BeginJob(j, op)
      PROVE  AuditInv'
  <2>1. UNCHANGED <<cloudAccount, mixed>>
    BY <1>4 DEF BeginJob
  <2> QED
    BY <1>0, <1>4, <2>1, BeginEffect, AuditKept DEF Placed
<1>5. ASSUME NEW j \in Jobs, Ask(j) \/ UpsertAsset(j) PROVE AuditInv'
  <2>1. UNCHANGED <<cloudAccount, mixed>>
    BY <1>5 DEF Ask, UpsertAsset
  <2>2. Continues(j, {"asset", "account"}) /\ Placed(j)'
    BY <1>5, AskEffect, UpsertEffect DEF Continues, Placed
  <2> QED
    BY <1>0, <1>2, <2>1, <2>2, AuditKept DEF Continues
<1>6. ASSUME NEW j \in Jobs, InsertAccount(j) PROVE AuditInv'
  <2>1. OnlyJob(j) /\ job'[j] = NoJob /\ mixed' = mixed
    BY <1>6, DoneEffect DEF InsertAccount
  <2>2. CASE UNCHANGED cloudAccount
    BY <1>0, <1>3, <2>1, <2>2, AuditKept DEF Placed
  <2>3. CASE ~UNCHANGED cloudAccount
    <3>1. cloudAccount' = [NoAccount EXCEPT !.id = rows + 1, !.asset = job[j].asset,
                              !.status = job[j].answer]
      BY <1>6, <2>3 DEF InsertAccount
    <3>2. cloudAccount'.id = rows + 1 /\ cloudAccount'.count = Cardinality(cloudAccount'.resources)
      BY <1>1, <3>1 DEF NoAccount
    <3>3. ASSUME NEW k \in Jobs PROVE job[k].account # rows + 1
      <4>1. job[k].account \in 0..MaxRows
        BY DEF CloudTyped, Job
      <4> QED
        BY <1>0, <1>2, <4>1
    <3> QED
      BY <1>3, <2>1, <3>2, <3>3, AuditKept DEF Placed
  <2> QED
    BY <2>2, <2>3
<1>7. ASSUME NEW j \in Jobs, UpdateStatus(j) PROVE AuditInv'
  <2>1. /\ OnlyJob(j) /\ mixed' = mixed /\ job'[j].pc # "commit"
        /\ job'[j].op \in {"verify", "audit", "delete"} => job'[j].account # 0
        /\ Placed(j)'
    BY <1>2, <1>3, <1>7, StatusEffect DEF UpdateStatus, Placed
  <2>2. /\ cloudAccount'.id = cloudAccount.id /\ cloudAccount'.count = cloudAccount.count
        /\ cloudAccount'.resources = cloudAccount.resources
    BY <1>0, <1>7 DEF UpdateStatus, Cloud
  <2> QED
    BY <1>0, <2>1, <2>2, AuditKept DEF Placed
<1>8. ASSUME NEW j \in Jobs, ConfirmAsset(j) \/ AuditFails(j) PROVE AuditInv'
  <2>1. OnlyJob(j) /\ job'[j] = NoJob /\ mixed' = mixed
    BY <1>8, DoneEffect DEF ConfirmAsset, AuditFails
  <2>2. /\ cloudAccount'.id = cloudAccount.id /\ cloudAccount'.count = cloudAccount.count
        /\ cloudAccount'.resources = cloudAccount.resources
    BY <1>0, <1>8 DEF ConfirmAsset, AuditFails, Cloud
  <2> QED
    BY <1>0, <1>3, <2>1, <2>2, AuditKept DEF Placed
<1>9. ASSUME NEW j \in Jobs, WriteResources(j) PROVE AuditInv'
  <2>1. /\ Continues(j, {"commit"}) /\ job[j].pc = "account" /\ job[j].op = "audit"
        /\ job'[j].found = job[j].found
        /\ job'[j].doomed = cloudAccount.resources \ job[j].found
    BY <1>9, WriteEffect
  <2>2. /\ UNCHANGED cloudAccount
        /\ mixed' = (mixed \/ \E k \in Jobs : job[k].pc = "commit")
    BY <1>9 DEF WriteResources
  <2>3. ASSUME NEW k \in Jobs
        PROVE  /\ job'[k].op \in {"verify", "audit", "delete"} => job'[k].account # 0
               /\ job'[k].pc = "commit" => job'[k].op = "audit"
               /\ Placed(k)'
    BY ZenonT(40), <1>2, <2>1 DEF Continues, OnlyJob, Placed, Reached, AuditInv
  <2>4. CASE mixed'
    BY <2>3, <2>4 DEF AuditInv
  <2>5. CASE ~mixed'
    <3>1. ~mixed /\ \A k \in Jobs : job[k].pc # "commit"
      BY <2>2, <2>5
    <3>2. \A k \in Jobs : job'[k].pc = "commit" => k = j
      BY <3>1, <2>1 DEF Continues, OnlyJob
    <3> QED
      BY <1>0, <2>1, <2>2, <2>3, <3>1, <3>2 DEF AuditInv
  <2> QED
    BY <2>4, <2>5
<1>10. ASSUME NEW j \in Jobs, CommitAudit(j) PROVE AuditInv'
  <2>1. OnlyJob(j) /\ job'[j] = NoJob /\ mixed' = mixed /\ job[j].pc = "commit"
    BY <1>10, DoneEffect DEF CommitAudit
  <2>2. CASE UNCHANGED cloudAccount
    BY <1>0, <1>3, <2>1, <2>2, AuditKept DEF Placed
  <2>3. CASE ~UNCHANGED cloudAccount /\ ~mixed
    <3>1. /\ cloudAccount.id = job[j].account
          /\ cloudAccount' = [cloudAccount EXCEPT
                       !.status = "CONNECTED", !.asset = job[j].asset,
                       !.resources = (cloudAccount.resources \ job[j].doomed) \cup job[j].found,
                       !.count = Cardinality(job[j].found)]
      BY <1>0, <1>10, <2>3 DEF CommitAudit, Cloud
    <3>2. /\ cloudAccount'.resources = (cloudAccount.resources \ job[j].doomed) \cup job[j].found
          /\ cloudAccount'.count = Cardinality(job[j].found)
      BY <1>0, <3>1 DEF Cloud
    <3>3. job[j].doomed = cloudAccount.resources \ job[j].found
      BY <2>1, <2>3, <3>1 DEF AuditInv
    <3>4. cloudAccount'.resources = job[j].found
      BY <3>2, <3>3
    <3>5. \A k \in Jobs \ {j} : job[k].pc # "commit"
      BY <2>1, <2>3 DEF AuditInv
    <3> QED
      BY <1>3, <2>1, <3>2, <3>4, <3>5, AuditKept DEF Placed
  <2>4. CASE mixed
    BY <1>3, <2>1, <2>4, AuditKept DEF Placed
  <2> QED
    BY <2>2, <2>3, <2>4
<1>11. ASSUME NEW j \in Jobs, DeleteAccount(j) PROVE AuditInv'
  <2>1. /\ OnlyJob(j) /\ mixed' = mixed /\ job'[j].pc # "commit"
        /\ job'[j].op \in {"verify", "audit", "delete"} => job'[j].account # 0
        /\ Placed(j)'
    BY <1>2, <1>3, <1>11, DeleteEffect DEF DeleteAccount, Placed
  <2>2. cloudAccount' = cloudAccount \/ cloudAccount' = NoAccount
    BY <1>11 DEF DeleteAccount
  <2> QED
    BY <1>0, <1>1, <1>2, <2>1, <2>2, AuditKept DEF Placed
<1>12. ASSUME NEW id
       PROVE  /\ Unlinked(id).id = cloudAccount.id /\ Unlinked(id).count = cloudAccount.count
              /\ Unlinked(id).resources = cloudAccount.resources
  BY <1>0 DEF Unlinked, Cloud
<1>13. ASSUME NEW j \in Jobs, DeleteAsset(j) PROVE AuditInv'
  <2>1. OnlyJob(j) /\ job'[j] = NoJob /\ mixed' = mixed
    BY <1>13, DoneEffect DEF DeleteAsset
  <2>2. cloudAccount' = cloudAccount \/ cloudAccount' = Unlinked(job[j].asset)
    BY <1>13 DEF DeleteAsset
  <2>3. /\ cloudAccount'.id = cloudAccount.id /\ cloudAccount'.count = cloudAccount.count
        /\ cloudAccount'.resources = cloudAccount.resources
    BY <1>12, <2>2
  <2> QED
    BY <1>0, <1>3, <2>1, <2>3, AuditKept DEF Placed
<1>14. CASE RemoveCloudAsset
  <2>1. UNCHANGED <<job, mixed>> /\ cloudAccount' = Unlinked(cloudAsset.id)
    BY <1>14 DEF RemoveCloudAsset
  <2>2. /\ cloudAccount'.id = cloudAccount.id /\ cloudAccount'.count = cloudAccount.count
        /\ cloudAccount'.resources = cloudAccount.resources
    BY <1>12, <2>1
  <2> QED
    BY <2>1, <2>2 DEF AuditInv, Placed, Reached
<1>15. CASE UNCHANGED cloudVars
  BY <1>15 DEF cloudVars, AuditInv, Placed, Reached
<1> QED
  BY <1>4, <1>5, <1>6, <1>7, <1>8, <1>9, <1>10, <1>11, <1>13, <1>14, <1>15 DEF CloudNext

------------------------------------------------------------------------------
(* An asset left alone has a cause.                                         *)

Orphaned == cloudAsset.id # 0 /\ cloudAccount.asset # cloudAsset.id

\* A step that leaves the asset where it is keeps the cause, unless it is the step of the
\* request that answers for it: that one must go on answering, link the asset, or leave
\* a mishap.
LEMMA OrphanKept ==
    ASSUME OrphanInv, NEW j \in Jobs, OnlyJob(j), mishaps \subseteq mishaps',
           Orphaned' /\ mishaps' = {} =>
             \/ Settles(j)'
             \/ cloudAsset'.id = cloudAsset.id /\ Orphaned /\ ~Settles(j)
    PROVE  OrphanInv'
<1> SUFFICES ASSUME Orphaned', mishaps' = {} PROVE \E k \in Jobs : Settles(k)'
  BY DEF OrphanInv, Orphaned, HasAsset
<1>1. CASE Settles(j)'
  BY <1>1
<1>2. CASE cloudAsset'.id = cloudAsset.id /\ Orphaned /\ ~Settles(j)
  <2>1. PICK k \in Jobs : Settles(k)
    BY <1>2 DEF OrphanInv, Orphaned, HasAsset
  <2>2. job'[k] = job[k]
    BY <1>2, <2>1 DEF OnlyJob
  <2>3. Settles(k)'
    BY <1>2, <2>1, <2>2 DEF Settles, Reached
  <2> QED
    BY <2>3
<1> QED
  BY <1>1, <1>2

\* Every step keeps the cause.
LEMMA OrphanStep == CloudTyped /\ AuditInv /\ OrphanInv /\ [CloudNext]_cloudVars => OrphanInv'
<1> SUFFICES ASSUME CloudTyped, AuditInv, OrphanInv, [CloudNext]_cloudVars PROVE OrphanInv'
  OBVIOUS
<1>0. /\ cloudAccount \in Cloud /\ cloudAsset \in [id : 0..MaxRows, verified : BOOLEAN]
      /\ cloudAccount.asset \in {0, cloudAsset.id}
      /\ \A k \in Jobs : job[k].pc = "commit" => job[k].op = "audit"
  BY DEF CloudTyped, AuditInv
<1>1. NoJob.pc = "idle" /\ NoJob.op = "none"
  BY DEF NoJob
<1>2. ASSUME NEW j \in Jobs, NEW op \in {"create", "verify", "audit", "delete"}, BeginJob(j, op)
      PROVE  OrphanInv'
  <2>1. UNCHANGED <<cloudAccount, cloudAsset, mishaps>> /\ OnlyJob(j) /\ job[j].pc = "idle"
    BY <1>2, BeginEffect DEF BeginJob
  <2>2. ~Settles(j)
    BY <2>1 DEF Settles
  <2> QED
    BY <2>1, <2>2, OrphanKept DEF Orphaned
<1>3. ASSUME NEW j \in Jobs, Ask(j) PROVE OrphanInv'
  <2>1. /\ UNCHANGED <<cloudAccount, cloudAsset, mishaps>> /\ job[j].pc = "ask"
        /\ OnlyJob(j) /\ job'[j].pc \in {"asset", "account"} /\ job'[j].op = job[j].op
    BY <1>3, AskEffect DEF Ask, Continues
  <2>2. Settles(j) => Settles(j)'
    BY <2>1 DEF Settles
  <2> QED
    BY <2>1, <2>2, OrphanKept DEF Orphaned
<1>4. ASSUME NEW j \in Jobs, UpsertAsset(j) PROVE OrphanInv'
  <2>1. /\ OnlyJob(j) /\ job'[j].pc = "account" /\ job'[j].op = job[j].op
        /\ job'[j].answer = job[j].answer /\ job[j].pc = "asset"
        /\ UNCHANGED <<cloudAccount, mishaps>>
        /\ cloudAsset.id # 0 => cloudAsset'.id = cloudAsset.id
    BY <1>4, UpsertEffect DEF Continues, UpsertAsset
  <2>2. Settles(j)'
    BY <2>1 DEF AuditInv, Placed, Settles, Reached
  <2> QED
    BY <2>1, <2>2, OrphanKept
<1>5. ASSUME NEW j \in Jobs, InsertAccount(j) PROVE OrphanInv'
  <2>1. OnlyJob(j) /\ UNCHANGED cloudAsset
    BY <1>5, DoneEffect DEF InsertAccount
  <2>2. CASE mishaps' = mishaps \cup {"creation failed"}
    BY <2>1, <2>2, OrphanKept
  <2>3. CASE mishaps' # mishaps \cup {"creation failed"}
    <3>1. /\ cloudAsset.id = job[j].asset /\ UNCHANGED mishaps
          /\ cloudAccount' = [NoAccount EXCEPT !.id = rows + 1, !.asset = job[j].asset,
                                 !.status = job[j].answer]
      BY <1>5, <2>3 DEF InsertAccount
    <3>2. ~Orphaned'
      BY <2>1, <3>1 DEF Orphaned, NoAccount
    <3> QED
      BY <2>1, <3>1, <3>2, OrphanKept
  <2> QED
    BY <2>2, <2>3
<1>6. ASSUME NEW j \in Jobs, UpdateStatus(j) \/ ConfirmAsset(j) \/ AuditFails(j) PROVE OrphanInv'
  <2>1. OnlyJob(j) /\ UNCHANGED mishaps
    BY <1>6, DoneEffect, StatusEffect DEF UpdateStatus, ConfirmAsset, AuditFails
  <2>2. ~Settles(j)
    BY <1>6 DEF UpdateStatus, ConfirmAsset, AuditFails, Settles
  <2>3. cloudAsset'.id = cloudAsset.id /\ cloudAccount'.asset = cloudAccount.asset
    BY <1>0, <1>6 DEF UpdateStatus, ConfirmAsset, AuditFails, Cloud
  <2> QED
    BY <2>1, <2>2, <2>3, OrphanKept DEF Orphaned
<1>7. ASSUME NEW j \in Jobs, WriteResources(j) PROVE OrphanInv'
  <2>1. /\ OnlyJob(j) /\ job'[j].pc = "commit" /\ job'[j].op = "audit" /\ Reached(j)'
        /\ UNCHANGED <<cloudAccount, cloudAsset, mishaps>>
    BY <1>7, WriteEffect DEF WriteResources, Continues
  <2>2. Settles(j)'
    BY <2>1 DEF Settles, Reached
  <2> QED
    BY <2>1, <2>2, OrphanKept
<1>8. ASSUME NEW j \in Jobs, CommitAudit(j) PROVE OrphanInv'
  <2>1. OnlyJob(j)
    BY <1>8, DoneEffect DEF CommitAudit
  <2>2. CASE mishaps' = mishaps \cup {"audit undone"}
    BY <2>1, <2>2, OrphanKept
  <2>3. CASE mishaps' # mishaps \cup {"audit undone"}
    <3>1. /\ cloudAsset.id = job[j].asset /\ UNCHANGED mishaps
          /\ cloudAccount' = [cloudAccount EXCEPT
                       !.status = "CONNECTED", !.asset = job[j].asset,
                       !.resources = (cloudAccount.resources \ job[j].doomed) \cup job[j].found,
                       !.count = Cardinality(job[j].found)]
          /\ cloudAsset' = [cloudAsset EXCEPT !.verified = TRUE]
      BY <1>0, <1>8, <2>3 DEF CommitAudit, Cloud
    <3>2. cloudAccount'.asset = job[j].asset /\ cloudAsset'.id = job[j].asset
      BY <1>0, <3>1 DEF Cloud
    <3> QED
      BY <2>1, <3>1, <3>2, OrphanKept DEF Orphaned
  <2> QED
    BY <2>2, <2>3
<1>9. ASSUME NEW j \in Jobs, DeleteAccount(j) PROVE OrphanInv'
  <2>1. /\ OnlyJob(j) /\ job[j].op = "delete" /\ job[j].pc = "account" /\ UNCHANGED cloudAsset
        /\ cloudAccount.id = job[j].account /\ job[j].asset # 0
           => job'[j].pc = "asset row" /\ job'[j].op = "delete" /\ job'[j].asset = job[j].asset
        /\ mishaps \subseteq mishaps'
    BY <1>9, DeleteEffect DEF DeleteAccount
  <2>2. ~Settles(j)
    BY <2>1 DEF Settles
  <2>3. CASE UNCHANGED cloudAccount
    BY <2>1, <2>2, <2>3, OrphanKept DEF Orphaned
  <2>4. CASE ~UNCHANGED cloudAccount
    <3>1. SUFFICES ASSUME Orphaned', mishaps' = {}, ~Orphaned PROVE Settles(j)'
      BY <2>1, <2>2, OrphanKept
    <3>2. cloudAccount.id = job[j].account /\ cloudAccount.asset = job[j].asset
      BY <1>9, <2>4, <3>1 DEF DeleteAccount
    <3>3. job[j].asset = cloudAsset.id /\ job[j].asset # 0
      BY <2>1, <3>1, <3>2 DEF Orphaned
    <3> QED
      BY <2>1, <3>2, <3>3 DEF Settles
  <2> QED
    BY <2>3, <2>4
<1>10. ASSUME NEW id PROVE Unlinked(id).asset \in {0, cloudAccount.asset}
  BY <1>0 DEF Unlinked, Cloud
<1>11. NoCloudAsset.id = 0
  BY DEF NoCloudAsset
<1>12. ASSUME NEW j \in Jobs, DeleteAsset(j) PROVE OrphanInv'
  <2>1. OnlyJob(j) /\ mishaps \subseteq mishaps'
    BY <1>12, DoneEffect DEF DeleteAsset
  <2>2. CASE mishaps' = mishaps \cup {"deletion half done"}
    BY <2>1, <2>2, OrphanKept
  <2>3. CASE mishaps' # mishaps \cup {"deletion half done"} /\ cloudAsset.id = job[j].asset
    <3>1. cloudAsset' = NoCloudAsset
      BY <1>12, <2>3 DEF DeleteAsset
    <3> QED
      BY <1>11, <2>1, <3>1, OrphanKept DEF Orphaned
  <2>4. CASE mishaps' # mishaps \cup {"deletion half done"} /\ cloudAsset.id # job[j].asset
    <3>1. UNCHANGED <<cloudAsset, cloudAccount>> /\ job[j].pc = "asset row"
      BY <1>12, <2>4 DEF DeleteAsset
    <3>2. ~Settles(j)
      BY <2>4, <3>1 DEF AuditInv, Placed, Settles, Reached
    <3> QED
      BY <2>1, <3>1, <3>2, OrphanKept DEF Orphaned
  <2> QED
    BY <2>2, <2>3, <2>4
<1>13. CASE RemoveCloudAsset
  BY <1>11, <1>13 DEF RemoveCloudAsset, OrphanInv, HasAsset
<1>14. CASE UNCHANGED cloudVars
  BY <1>14 DEF cloudVars, OrphanInv, HasAsset, Settles, Reached
<1> QED
  BY <1>2, <1>3, <1>4, <1>5, <1>6, <1>7, <1>8, <1>9, <1>12, <1>13, <1>14 DEF CloudNext

\* The invariant of the cloud account holds in every state.
LEMMA CloudInvariant == CloudSpec => []CloudInv
<1>1. CloudInit => CloudInv
  <2> SUFFICES ASSUME CloudInit PROVE CloudInv
    OBVIOUS
  <2>1. job \in [Jobs -> Job] /\ \A j \in Jobs : job[j] = NoJob
    BY RestingJob DEF CloudInit
  <2>2. NoAccount \in Cloud /\ NoAccount.id = 0 /\ NoAccount.asset = 0
    BY CountedResources, FS_EmptySet, CloudAssumption DEF NoAccount, Cloud
  <2>3. /\ NoCloudAsset \in [id : 0..MaxRows, verified : BOOLEAN] /\ NoCloudAsset.id = 0
        /\ 0 \in 0..MaxRows /\ 0 \in 0..MaxJobs
    BY CloudAssumption DEF NoCloudAsset
  <2>4. NoJob.account = 0 /\ NoJob.asset = 0 /\ NoJob.op = "none" /\ NoJob.pc = "idle"
    BY DEF NoJob
  <2>5. CloudTyped
    <3>1. \A j \in Jobs : job[j].account = 0 /\ job[j].asset = 0 /\ job[j].op = "none"
      BY <2>1, <2>4
    <3>2. rows = 0 /\ cloudAccount.id <= 0 /\ cloudAsset.id <= 0
      BY <2>2, <2>3 DEF CloudInit
    <3> QED
      BY <2>1, <2>2, <2>3, <3>1, <3>2 DEF CloudInit, CloudTyped
  <2>6. AuditInv
    <3>1. NoAccount.count = Cardinality(NoAccount.resources)
      BY FS_EmptySet DEF NoAccount
    <3> QED
      BY <2>1, <2>4, <3>1 DEF CloudInit, AuditInv, Placed
  <2>7. OrphanInv
    BY <2>3 DEF CloudInit, OrphanInv, HasAsset
  <2> QED
    BY <2>5, <2>6, <2>7 DEF CloudInv
<1>2. CloudInv /\ [CloudNext]_cloudVars => CloudInv'
  BY CloudTypesStep, AuditStep, OrphanStep DEF CloudInv
<1> QED
  BY <1>1, <1>2, PTL DEF CloudSpec

\* Every variable of the cloud account keeps its type, and an account never points at an
\* asset that is gone.
THEOREM CloudTypeCorrect == CloudSpec => []CloudTypeOK
<1>1. CloudInv => CloudTypeOK
  BY DEF CloudInv, CloudTyped, CloudTypeOK, Cloud, Job
<1> QED
  BY <1>1, CloudInvariant, PTL

\* runAccountAudit: the resources of the account are those the last audit counted, unless
\* two audits wrote at once.
THEOREM AuditsCount == CloudSpec => []ResourcesAreCounted
<1>1. CloudInv => ResourcesAreCounted
  BY DEF CloudInv, AuditInv, ResourcesAreCounted
<1> QED
  BY <1>1, CloudInvariant, PTL

\* The three rows of a cloud account, written in separate statements: with no request under
\* way, an asset that no account points at has one of the known causes.
THEOREM OrphansHaveACause == CloudSpec => []OrphanHasCause
<1>1. CloudInv => OrphanHasCause
  <2> SUFFICES ASSUME CloudInv, Idle, HasAsset, cloudAccount.asset # cloudAsset.id
               PROVE  mishaps # {}
    BY DEF OrphanHasCause
  <2>1. \A j \in Jobs : ~Settles(j)
    BY DEF Idle, Settles
  <2> QED
    BY <2>1 DEF CloudInv, OrphanInv
<1> QED
  BY <1>1, CloudInvariant, PTL

------------------------------------------------------------------------------
(* The findings.                                                            *)

Statuses == {"none", "RESOLVED"} \cup OpenStatuses \cup Decisions
Finding == [status : Statuses, resolved : BOOLEAN, looked : BOOLEAN,
            by : {"none", "scan", "audit", "review", "retest"}]
\* The rows a transaction wrote.
Written == UNION {[S -> Finding] : S \in SUBSET Findings}
SnapshotRow == [stamp : Nat, open : SUBSET Findings]
Process == [pc : {"idle", "sync", "write", "commit", "review", "retest", "there", "gone"},
            finding : SUBSET Findings, copy : Statuses, drafts : SUBSET Findings,
            looked : SUBSET Findings, own : Written, snap : SnapshotRow, crossed : BOOLEAN]

FindingTyped ==
    /\ row \in [Findings -> Finding]
    /\ proc \in [Processes -> Process]
    /\ snapshots \in SnapshotRow
    /\ present \subseteq Findings /\ stale \subseteq Findings /\ muddled \in BOOLEAN
    /\ work \in 0..MaxWork

\* A row has a date of resolution exactly while it is RESOLVED.
Dated(f, r) == f \in stale \/ (r.resolved <=> r.status = "RESOLVED")

\* A row that p wrote over a decision is of a user, or was written from an old copy.
Justified(p, f) ==
    /\ Dated(f, proc[p].own[f])
    /\ row[f].status \in Decisions /\ proc[p].own[f].status # row[f].status
       => proc[p].own[f].by \in {"review", "retest"} \/ f \in stale

\* What a transaction has written and counted: a draft is written once; who takes no
\* snapshot changed no status, but from an old copy; a snapshot counts what its
\* transaction sees, until another one commits.
Sound(p) ==
    LET k == proc[p] IN
    /\ k.pc \in {"sync", "write"} => k.drafts \cap DOMAIN k.own = {}
    /\ k.pc = "write" => k.finding \subseteq k.drafts
    /\ k.pc # "commit" => k.snap = NoSnapshot
    /\ \A f \in DOMAIN k.own : Justified(p, f)
    /\ k.pc = "commit" /\ k.snap = NoSnapshot
         => \A f \in DOMAIN k.own : k.own[f].status = row[f].status \/ f \in stale
    /\ k.snap # NoSnapshot /\ ~k.crossed => k.snap.open = OpenTo(k.own)

\* The row of a finding has one lock.
Exclusive == \A p, q \in Processes : p # q => DOMAIN proc[p].own \cap DOMAIN proc[q].own = {}

\* The stamps given so far are bounded.
Stamped == \E m \in Nat : snapshots.stamp <= m /\ \A p \in Processes : proc[p].snap.stamp <= m

RowsDated == \A f \in Findings : Dated(f, row[f])

WorkInv == (\A p \in Processes : Sound(p)) /\ Exclusive /\ RowsDated /\ ScoreFollowsFindings

FindingInv == FindingTyped /\ WorkInv /\ Stamped

------------------------------------------------------------------------------
(* What a step writes.                                                      *)

\* The step is of process p: the others keep their records.
OnlyProc(p) == proc' \in [Processes -> Process] /\ \A q \in Processes \ {p} : proc'[q] = proc[q]

\* Writing the record of one process leaves the others alone.
LEMMA ProcWritten ==
    ASSUME FindingTyped, NEW p \in Processes, NEW r \in Process, proc' = [proc EXCEPT ![p] = r]
    PROVE  OnlyProc(p) /\ proc'[p] = r
BY DEF FindingTyped, OnlyProc

\* The rows a transaction wrote are rows of findings.
LEMMA WrittenRows ==
    /\ \A own \in Written : DOMAIN own \in SUBSET Findings /\ \A f \in DOMAIN own : own[f] \in Finding
    /\ \A S \in SUBSET Findings : [S -> Finding] \subseteq Written
BY DEF Written

\* The process at rest has the type and has written nothing.
LEMMA RestingProcess ==
    /\ AtRest \in Process /\ DOMAIN AtRest.own = {} /\ AtRest.snap = NoSnapshot
    /\ AtRest.pc = "idle" /\ AtRest.drafts = {} /\ AtRest.finding = {} /\ NoSnapshot \in SnapshotRow
<1>1. <<>> \in [{} -> Finding] /\ DOMAIN <<>> = {}
  OBVIOUS
<1>2. <<>> \in Written
  BY <1>1, WrittenRows
<1>3. NoSnapshot \in SnapshotRow
  BY DEF NoSnapshot, SnapshotRow
<1>4. "none" \in Statuses
  BY DEF Statuses
<1> HIDE DEF NoSnapshot, SnapshotRow, Written, Statuses
<1> QED
  BY <1>1, <1>2, <1>3, <1>4 DEF AtRest, Process

\* The fields of a process.
LEMMA FieldOfProcess ==
    ASSUME NEW k \in Process
    PROVE  /\ k.own \in Written /\ k.copy \in Statuses /\ k.drafts \in SUBSET Findings
           /\ k.finding \in SUBSET Findings /\ k.looked \in SUBSET Findings
           /\ k.snap \in SnapshotRow /\ k.crossed \in BOOLEAN
BY DEF Process

\* What p sees of a finding is a row.
LEMMA SeenIsRow ==
    ASSUME FindingTyped, NEW p \in Processes, NEW f \in Findings
    PROVE  Seen(p, f) \in Finding /\ row[f] \in Finding
BY FieldOfProcess, WrittenRows DEF FindingTyped, Seen

\* Putting a row among those written.
LEMMA PutWritten ==
    ASSUME NEW own \in Written, NEW f \in Findings, NEW r \in Finding
    PROVE  /\ Put(own, f, r) \in Written /\ DOMAIN Put(own, f, r) = DOMAIN own \cup {f}
           /\ Put(own, f, r)[f] = r
           /\ \A x \in DOMAIN own \ {f} : Put(own, f, r)[x] = own[x]
<1>1. DOMAIN own \in SUBSET Findings /\ \A x \in DOMAIN own : own[x] \in Finding
  BY WrittenRows
<1>2. Put(own, f, r) \in [DOMAIN own \cup {f} -> Finding]
  BY <1>1 DEF Put
<1>3. DOMAIN own \cup {f} \in SUBSET Findings
  BY <1>1
<1> QED
  BY <1>2, <1>3, WrittenRows DEF Put

\* Bounded natural numbers have a maximum.
LEMMA MaxOfNaturals ==
    ASSUME NEW S \in SUBSET Nat, S # {}, NEW m \in Nat, \A x \in S : x <= m
    PROVE  Max(S) \in S /\ \A x \in S : x <= Max(S)
<1> DEFINE Bounds == {n \in Nat : \A x \in S : x <= n}
<1>1. Bounds \in SUBSET Nat /\ Bounds # {}
  OBVIOUS
<1>2. PICK b \in Bounds : \A n \in Bounds : b <= n
  <2>1. PICK b \in Bounds : \A n \in Bounds : ~(<<n, b>> \in OpToRel(<, Nat))
    BY <1>1, NatLessThanWellFounded, WFMin
  <2>2. \A n \in Bounds : ~(n < b)
    BY <2>1 DEF OpToRel
  <2> QED
    BY <2>2
<1>3. b \in S
  <2>1. SUFFICES ASSUME b \notin S PROVE FALSE
    OBVIOUS
  <2>2. \A x \in S : x \in Nat /\ x # b /\ x <= b
    BY <2>1
  <2>3. b \in Nat /\ b # 0
    <3>1. PICK x \in S : TRUE
      OBVIOUS
    <3>2. x \in Nat /\ x # b /\ x <= b /\ b \in Nat
      BY <2>2
    <3> QED
      BY <3>2
  <2>4. b - 1 \in Bounds
    <3>1. b - 1 \in Nat /\ \A x \in S : x <= b - 1
      BY <2>2, <2>3
    <3> QED
      BY <3>1
  <2> QED
    BY <1>2, <2>4
<1>4. \E x \in S : \A y \in S : x >= y
  BY <1>3
<1> QED
  BY <1>4 DEF Max

\* A snapshot counts what its transaction sees, and its stamp is a new one.
LEMMA SnapshotEffect ==
    ASSUME FindingTyped, Stamped, NEW p \in Processes, NEW own \in Written, Snapshot(p, own)
    PROVE  /\ OnlyProc(p)
           /\ proc'[p].pc = "commit" /\ proc'[p].own = own /\ proc'[p].snap.open = OpenTo(own)
           /\ proc'[p].snap.stamp \in Nat /\ proc'[p].snap # NoSnapshot
           /\ proc'[p].drafts = proc[p].drafts
<1> DEFINE stamps == {proc[q].snap.stamp : q \in Processes} \cup {snapshots.stamp}
           s == [stamp |-> 1 + Max(stamps), open |-> OpenTo(own)]
           r == [proc[p] EXCEPT !.pc = "commit", !.own = own, !.snap = s]
<1>1. stamps \in SUBSET Nat /\ stamps # {}
  BY FieldOfProcess DEF FindingTyped, SnapshotRow
<1>2. PICK m \in Nat : \A x \in stamps : x <= m
  BY DEF Stamped
<1> HIDE DEF stamps
<1>3. 1 + Max(stamps) \in Nat \ {0}
  <2>1. Max(stamps) \in stamps
    BY <1>1, <1>2, MaxOfNaturals
  <2>2. Max(stamps) \in Nat
    BY <1>1, <2>1
  <2> QED
    BY <2>2
<1>4. s \in SnapshotRow /\ s # NoSnapshot /\ s.open = OpenTo(own) /\ s.stamp \in Nat
  BY <1>3 DEF SnapshotRow, NoSnapshot, OpenTo
<1>5. proc' = [proc EXCEPT ![p] = r]
  BY DEF Snapshot, stamps, FindingTyped
<1> HIDE DEF s
<1>6. /\ r \in Process /\ r.pc = "commit" /\ r.own = own /\ r.snap = s /\ r.drafts = proc[p].drafts
  BY <1>4 DEF FindingTyped, Process
<1> HIDE DEF r
<1> QED
  BY <1>4, <1>5, <1>6, ProcWritten

\* A step of one process that leaves the committed rows keeps the invariant, when what it
\* has written is sound and nobody else has the locks.
LEMMA FindingsKept ==
    ASSUME FindingInv, NEW p \in Processes, OnlyProc(p),
           UNCHANGED <<row, snapshots, muddled>>,
           stale \subseteq stale', stale' \subseteq Findings,
           present' \subseteq Findings, work' \in 0..MaxWork,
           Sound(p)', proc'[p].snap.stamp \in Nat,
           \A q \in Processes \ {p} : DOMAIN proc'[p].own \cap DOMAIN proc[q].own = {}
    PROVE  FindingInv'
<1>1. FindingTyped'
  <2> HIDE DEF Process, Finding, SnapshotRow
  <2> QED
    BY DEF FindingInv, FindingTyped, OnlyProc
<1>2. ASSUME NEW q \in Processes PROVE Sound(q)'
  <2>1. CASE q = p
    BY <2>1
  <2>2. CASE q # p
    <3>1. proc'[q] = proc[q] /\ Sound(q)
      BY <2>2 DEF OnlyProc, FindingInv, WorkInv
    <3> QED
      BY <3>1 DEF Sound, Justified, Dated, OpenTo
  <2> QED
    BY <2>1, <2>2
<1>3. Exclusive'
  BY DEF FindingInv, WorkInv, Exclusive, OnlyProc
<1>4. RowsDated'
  BY DEF FindingInv, WorkInv, RowsDated, Dated
<1>5. ScoreFollowsFindings'
  BY DEF FindingInv, WorkInv, ScoreFollowsFindings
<1>6. Stamped'
  <2>1. PICK m \in Nat : snapshots.stamp <= m /\ \A q \in Processes : proc[q].snap.stamp <= m
    BY DEF FindingInv, Stamped
  <2> DEFINE n == m + proc'[p].snap.stamp
  <2>2. snapshots.stamp \in Nat /\ \A q \in Processes : proc[q].snap.stamp \in Nat
    BY FieldOfProcess DEF FindingInv, FindingTyped, SnapshotRow
  <2>3. n \in Nat /\ m <= n /\ proc'[p].snap.stamp <= n
    OBVIOUS
  <2>4. snapshots'.stamp <= n
    BY <2>1, <2>2, <2>3
  <2>5. ASSUME NEW q \in Processes PROVE proc'[q].snap.stamp <= n
    <3>1. CASE q = p
      BY <2>3, <3>1
    <3>2. CASE q # p
      BY <2>1, <2>2, <2>3, <3>2 DEF OnlyProc
    <3> QED
      BY <3>1, <3>2
  <2> HIDE DEF n
  <2> QED
    BY <2>3, <2>4, <2>5 DEF Stamped
<1> QED
  BY <1>1, <1>2, <1>3, <1>4, <1>5, <1>6 DEF FindingInv, WorkInv

------------------------------------------------------------------------------
(* Each step keeps the invariant.                                           *)

\* A process that has written nothing and goes on without a snapshot is sound.
LEMMA SoundWithNothing ==
    ASSUME FindingInv, NEW p \in Processes, DOMAIN proc'[p].own = {}, proc'[p].snap = NoSnapshot,
           proc'[p].pc # "write"
    PROVE  /\ Sound(p)' /\ proc'[p].snap.stamp \in Nat
           /\ \A q \in Processes : DOMAIN proc'[p].own \cap DOMAIN proc[q].own = {}
BY DEF Sound, NoSnapshot

\* A step that begins a process with nothing written.
LEMMA StartKeeps ==
    ASSUME FindingInv, NEW p \in Processes, NEW r \in Process, Start(p, r),
           r.own = AtRest.own, r.snap = NoSnapshot, r.pc # "write",
           UNCHANGED <<row, present, snapshots, stale, muddled>>
    PROVE  FindingInv'
<1>1. FindingTyped /\ proc' = [proc EXCEPT ![p] = r] /\ work' = work + 1 /\ work < MaxWork
  BY DEF Start, FindingInv
<1>2. OnlyProc(p) /\ proc'[p] = r
  BY <1>1, ProcWritten
<1>3. work' \in 0..MaxWork /\ present' \subseteq Findings /\ stale' \subseteq Findings
  BY <1>1, FindingAssumption DEF FindingTyped
<1> QED
  BY <1>2, <1>3, RestingProcess, SoundWithNothing, FindingsKept

\* A process that comes to rest has nothing.
LEMMA RestKeeps ==
    ASSUME FindingInv, NEW p \in Processes, proc' = [proc EXCEPT ![p] = AtRest],
           UNCHANGED <<row, present, snapshots, stale, muddled, work>>
    PROVE  FindingInv'
<1>1. FindingTyped
  BY DEF FindingInv
<1>2. OnlyProc(p) /\ proc'[p] = AtRest
  BY <1>1, RestingProcess, ProcWritten
<1>3. work' \in 0..MaxWork /\ present' \subseteq Findings /\ stale' \subseteq Findings
  BY <1>1 DEF FindingTyped
<1> QED
  BY <1>2, <1>3, RestingProcess, SoundWithNothing, FindingsKept

\* A scan or an audit has looked.
LEMMA LookKeeps ==
    ASSUME FindingInv, NEW p \in Processes, Look(p) PROVE FindingInv'
<1>1. PICK looked \in SUBSET Findings, drafts \in SUBSET Findings :
        Start(p, [AtRest EXCEPT !.pc = "sync", !.drafts = drafts, !.looked = looked])
  BY DEF Look, Mine
<1> DEFINE r == [AtRest EXCEPT !.pc = "sync", !.drafts = drafts, !.looked = looked]
<1>2. r \in Process /\ r.own = AtRest.own /\ r.snap = AtRest.snap /\ r.pc = "sync"
  BY RestingProcess DEF Process
<1>3. Start(p, r) /\ UNCHANGED <<row, present, snapshots, stale, muddled>>
  BY <1>1 DEF Look
<1> HIDE DEF r
<1> QED
  BY <1>2, <1>3, RestingProcess, StartKeeps

\* A user asks for a review or a retest.
LEMMA ReadFindingKeeps ==
    ASSUME FindingInv, NEW p \in Processes, NEW f \in Findings, NEW pc \in {"review", "retest"},
           ReadFinding(p, f, pc)
    PROVE  FindingInv'
<1> DEFINE r == [AtRest EXCEPT !.pc = pc, !.finding = {f}, !.copy = row[f].status]
<1>1. row[f].status \in Statuses
  BY DEF FindingInv, FindingTyped, Finding
<1>2. r \in Process /\ r.own = AtRest.own /\ r.snap = AtRest.snap /\ r.pc = pc
  BY <1>1, RestingProcess DEF Process
<1>3. Start(p, r) /\ UNCHANGED <<row, present, snapshots, stale, muddled>>
  BY DEF ReadFinding
<1> HIDE DEF r
<1> QED
  BY <1>2, <1>3, RestingProcess, StartKeeps

\* A process that reads, with nothing more written.
LEMMA ReadKeeps ==
    ASSUME FindingInv, NEW p \in Processes, NEW r \in Process, proc' = [proc EXCEPT ![p] = r],
           r.own = proc[p].own, r.snap = proc[p].snap, r.drafts = proc[p].drafts,
           r.crossed = proc[p].crossed, proc[p].pc # "commit", r.pc # "commit",
           r.pc \in {"sync", "write"} => proc[p].pc \in {"sync", "write"},
           r.pc = "write" => r.finding \subseteq r.drafts,
           UNCHANGED <<row, present, snapshots, stale, muddled, work>>
    PROVE  FindingInv'
<1>1. FindingTyped /\ Sound(p)
  BY DEF FindingInv, WorkInv
<1>2. OnlyProc(p) /\ proc'[p] = r
  BY <1>1, ProcWritten
<1>3. work' \in 0..MaxWork /\ present' \subseteq Findings /\ stale' \subseteq Findings
  BY <1>1 DEF FindingTyped
<1>4. Sound(p)'
  BY <1>1, <1>2 DEF Sound, Justified, Dated, OpenTo
<1>5. proc'[p].snap.stamp \in Nat
  BY <1>1, <1>2, FieldOfProcess DEF FindingTyped, SnapshotRow
<1>6. \A q \in Processes \ {p} : DOMAIN proc'[p].own \cap DOMAIN proc[q].own = {}
  BY <1>2 DEF FindingInv, WorkInv, Exclusive
<1> QED
  BY <1>2, <1>3, <1>4, <1>5, <1>6, FindingsKept

\* A transaction reads the row of a draft.
LEMMA ReadDraftKeeps ==
    ASSUME FindingInv, NEW p \in Processes, ReadDraft(p) PROVE FindingInv'
<1>0. proc[p] \in Process /\ FindingTyped
  BY DEF FindingInv, FindingTyped
<1>1. PICK f \in proc[p].drafts :
        proc' = [proc EXCEPT ![p].pc = "write", ![p].finding = {f}, ![p].copy = Seen(p, f).status]
  BY DEF ReadDraft
<1> DEFINE r == [proc[p] EXCEPT !.pc = "write", !.finding = {f}, !.copy = Seen(p, f).status]
<1>2. f \in Findings /\ Seen(p, f).status \in Statuses
  BY <1>0, FieldOfProcess, SeenIsRow DEF Finding
<1>3. /\ r \in Process /\ r.own = proc[p].own /\ r.snap = proc[p].snap /\ r.drafts = proc[p].drafts
      /\ r.crossed = proc[p].crossed /\ r.pc = "write" /\ r.finding = {f}
  BY <1>0, <1>2 DEF Process
<1>4. /\ proc' = [proc EXCEPT ![p] = r] /\ proc[p].pc = "sync"
      /\ UNCHANGED <<row, present, snapshots, stale, muddled, work>>
  BY <1>0, <1>1 DEF ReadDraft, FindingTyped
<1> HIDE DEF r
<1> QED
  BY <1>3, <1>4, ReadKeeps

\* A probe has its verdict.
LEMMA ProbeKeeps ==
    ASSUME FindingInv, NEW p \in Processes, Probe(p) PROVE FindingInv'
<1>0. proc[p] \in Process /\ FindingTyped
  BY DEF FindingInv, FindingTyped
<1> PICK f \in proc[p].finding : \E v \in ProbeVerdicts(f) :
        proc' = [proc EXCEPT ![p].pc = IF v[1] THEN "there" ELSE "gone",
                              ![p].looked = IF v[2] THEN {f} ELSE {}]
  BY DEF Probe
<1>1. PICK v \in ProbeVerdicts(f) :
        proc' = [proc EXCEPT ![p].pc = IF v[1] THEN "there" ELSE "gone",
                              ![p].looked = IF v[2] THEN {f} ELSE {}]
  OBVIOUS
<1> DEFINE r == [proc[p] EXCEPT !.pc = IF v[1] THEN "there" ELSE "gone",
                                !.looked = IF v[2] THEN {f} ELSE {}]
<1>2. f \in Findings
  BY <1>0, FieldOfProcess
<1>3. /\ r \in Process /\ r.own = proc[p].own /\ r.snap = proc[p].snap /\ r.drafts = proc[p].drafts
      /\ r.crossed = proc[p].crossed /\ r.pc \in {"there", "gone"}
  BY <1>0, <1>2 DEF Process
<1>4. /\ proc' = [proc EXCEPT ![p] = r] /\ proc[p].pc = "retest"
      /\ UNCHANGED <<row, present, snapshots, stale, muddled, work>>
  BY <1>0, <1>1 DEF Probe, FindingTyped
<1> HIDE DEF r
<1> QED
  BY <1>3, <1>4, ReadKeeps

\* A row after a draft: it is dated like the row read, unless the copy was old, and it is
\* no decision taken back.
LEMMA DraftOnRow ==
    ASSUME NEW r \in Finding, NEW copy \in Statuses, NEW by \in {"scan", "audit"},
           copy = "none" => r.status = "none"
    PROVE  LET new == AfterDraft(r, copy, by) IN
           /\ new \in Finding
           /\ new = r \/ (new.status = "OPEN" /\ ~new.resolved)
           /\ r.status \in Decisions /\ new.status # r.status => copy = "RESOLVED"
<1> DEFINE fresh == [status |-> "OPEN", resolved |-> FALSE, by |-> by, looked |-> TRUE]
           again == [r EXCEPT !.status = "OPEN", !.resolved = FALSE, !.by = by]
<1>1. fresh \in Finding /\ fresh.status = "OPEN" /\ ~fresh.resolved
  BY DEF Finding, Statuses, OpenStatuses
<1>2. again \in Finding /\ again.status = "OPEN" /\ ~again.resolved
  BY DEF Finding, Statuses, OpenStatuses
<1>3. AfterDraft(r, copy, by) =
        IF copy = "none" THEN fresh ELSE IF copy = "RESOLVED" THEN again ELSE r
  BY DEF AfterDraft
<1>4. copy = "none" => r.status \notin Decisions
  BY DEF Decisions
<1> HIDE DEF fresh, again
<1> QED
  BY <1>1, <1>2, <1>3, <1>4

\* The upsert of one draft.
LEMMA WriteDraftKeeps ==
    ASSUME FindingInv, NEW p \in Processes, WriteDraft(p) PROVE FindingInv'
<1>0. proc[p] \in Process /\ FindingTyped /\ Sound(p) /\ RowsDated
  BY DEF FindingInv, FindingTyped, WorkInv
<1>f. PICK f \in proc[p].finding :
        /\ Free(p, f)
        /\ IF proc[p].copy = "none" /\ Seen(p, f).status # "none"
              THEN proc' = [proc EXCEPT ![p] = AtRest] /\ UNCHANGED stale
              ELSE /\ proc' = [proc EXCEPT ![p].pc = "sync", ![p].finding = {}, ![p].copy = "none",
                                 ![p].drafts = @ \ {f},
                                 ![p].own = Put(@, f, AfterDraft(Seen(p, f), proc[p].copy, Kind(p)))]
                   /\ stale' = IF proc[p].copy = "RESOLVED" /\ Seen(p, f).status # "RESOLVED"
                                 THEN stale \cup {f} ELSE stale
  BY DEF WriteDraft
<1> DEFINE new == AfterDraft(row[f], proc[p].copy, Kind(p))
           own == Put(proc[p].own, f, new)
           r == [proc[p] EXCEPT !.pc = "sync", !.finding = {}, !.copy = "none",
                                !.drafts = proc[p].drafts \ {f}, !.own = own]
<1>1. proc[p].pc = "write" /\ UNCHANGED <<row, present, snapshots, muddled, work>>
  BY DEF WriteDraft
<1>2. /\ f \in Findings /\ f \in proc[p].drafts /\ f \notin DOMAIN proc[p].own
      /\ proc[p].snap = NoSnapshot
  BY <1>0, <1>1, FieldOfProcess DEF Sound
<1>3. Seen(p, f) = row[f] /\ row[f] \in Finding
  BY <1>0, <1>2, SeenIsRow DEF Seen
<1>4. CASE proc[p].copy = "none" /\ row[f].status # "none"
  BY <1>f, <1>1, <1>3, <1>4, RestKeeps
<1>5. CASE ~(proc[p].copy = "none" /\ row[f].status # "none")
  <2>1. /\ stale' = IF proc[p].copy = "RESOLVED" /\ row[f].status # "RESOLVED"
                    THEN stale \cup {f} ELSE stale
        /\ proc' = [proc EXCEPT ![p] = r]
    BY <1>f, <1>0, <1>3, <1>5 DEF FindingTyped
  <2>2. proc[p].copy \in Statuses /\ Kind(p) \in {"scan", "audit"}
    BY <1>0, FieldOfProcess DEF Kind
  <2>3. /\ new \in Finding
        /\ new = row[f] \/ (new.status = "OPEN" /\ ~new.resolved)
        /\ row[f].status \in Decisions /\ new.status # row[f].status => proc[p].copy = "RESOLVED"
    BY <1>3, <1>5, <2>2, DraftOnRow
  <2> HIDE DEF new
  <2>4. /\ own \in Written /\ DOMAIN own = DOMAIN proc[p].own \cup {f} /\ own[f] = new
        /\ \A x \in DOMAIN proc[p].own \ {f} : own[x] = proc[p].own[x]
    <3>1. proc[p].own \in Written
      BY <1>0, FieldOfProcess
    <3>2. f \in Findings /\ new \in Finding
      BY <1>2, <2>3
    <3> QED
      BY SMTT(20), <3>1, <3>2, PutWritten
  <2> HIDE DEF own
  <2>5. /\ r \in Process /\ r.pc = "sync" /\ r.own = own /\ r.snap = NoSnapshot
        /\ r.drafts = proc[p].drafts \ {f}
    <3>1. "none" \in Statuses
      BY DEF Statuses
    <3> QED
      BY <1>0, <1>2, <2>4, <3>1 DEF Process
  <2> HIDE DEF r
  <2>6. OnlyProc(p) /\ proc'[p] = r
    BY <1>0, <2>1, <2>5, ProcWritten
  <2>7. stale \subseteq stale' /\ stale' \subseteq Findings
    BY <1>0, <1>2, <2>1 DEF FindingTyped
  <2>8. Justified(p, f)'
    <3>1. proc'[p].own[f] = new /\ row'[f] = row[f]
      BY <1>1, <2>4, <2>5, <2>6
    <3>2. f \in stale' \/ (new.resolved <=> new.status = "RESOLVED")
      BY <1>0, <1>2, <2>3, <2>7 DEF RowsDated, Dated
    <3>3. row[f].status \in Decisions /\ new.status # row[f].status => f \in stale'
      BY <2>1, <2>3 DEF Decisions
    <3> QED
      BY <3>1, <3>2, <3>3 DEF Justified, Dated
  <2>9. ASSUME NEW x \in DOMAIN own \ {f} PROVE Justified(p, x)'
    <3>1. proc'[p].own[x] = proc[p].own[x] /\ row' = row /\ Justified(p, x)
      BY <1>0, <1>1, <2>4, <2>5, <2>6 DEF Sound
    <3> QED
      BY <2>7, <3>1 DEF Justified, Dated
  <2>10. Sound(p)'
    <3>1. (proc[p].drafts \ {f}) \cap DOMAIN own = {}
      BY <1>0, <1>1, <2>4 DEF Sound
    <3>2. \A x \in DOMAIN own : Justified(p, x)'
      BY <2>8, <2>9
    <3> QED
      BY <2>5, <2>6, <3>1, <3>2 DEF Sound
  <2>11. \A q \in Processes \ {p} : DOMAIN proc'[p].own \cap DOMAIN proc[q].own = {}
    BY <1>f, <2>4, <2>5, <2>6 DEF FindingInv, WorkInv, Exclusive, Free
  <2>12. work' \in 0..MaxWork /\ present' \subseteq Findings /\ proc'[p].snap.stamp \in Nat
    BY <1>0, <1>1, <2>5, <2>6 DEF FindingTyped, NoSnapshot
  <2> QED
    BY <1>1, <2>6, <2>7, <2>10, <2>11, <2>12, FindingsKept
<1> QED
  BY <1>4, <1>5

\* Drafts written and the rest resolved, a transaction takes its snapshot.
LEMMA ResolveRestKeeps ==
    ASSUME FindingInv, NEW p \in Processes, ResolveRest(p) PROVE FindingInv'
<1>0. proc[p] \in Process /\ FindingTyped /\ Stamped /\ Sound(p)
  BY DEF FindingInv, FindingTyped, WorkInv
<1> DEFINE gone == Resolves(p) \ DOMAIN proc[p].own
           own == [f \in DOMAIN proc[p].own \cup gone |->
                 IF f \in gone THEN [status |-> "RESOLVED", resolved |-> TRUE, by |-> Kind(p),
                                     looked |-> f \in proc[p].looked]
                 ELSE proc[p].own[f]]
<1>1. /\ proc[p].pc = "sync" /\ proc[p].drafts = {} /\ \A f \in gone : Free(p, f)
      /\ Snapshot(p, own) /\ UNCHANGED <<row, present, snapshots, stale, muddled, work>>
  BY DEF ResolveRest
<1>2. gone \subseteq Findings /\ gone \cap DOMAIN proc[p].own = {}
  BY DEF Resolves, Mine
<1>3. \A f \in gone : row[f].status \in OpenStatuses
  BY DEF Resolves, Seen
<1> HIDE DEF gone
<1>4. \A f \in gone : own[f].status = "RESOLVED" /\ own[f].resolved /\ own[f] \in Finding
  BY DEF Finding, Statuses, Kind
<1>5. /\ DOMAIN own = DOMAIN proc[p].own \cup gone
      /\ \A f \in DOMAIN proc[p].own : own[f] = proc[p].own[f]
  BY <1>2
<1>6. own \in Written
  <2>1. DOMAIN proc[p].own \in SUBSET Findings /\ \A f \in DOMAIN proc[p].own : proc[p].own[f] \in Finding
    BY <1>0, FieldOfProcess, WrittenRows
  <2>2. own \in [DOMAIN proc[p].own \cup gone -> Finding]
    BY <1>4, <1>5, <2>1
  <2>3. DOMAIN proc[p].own \cup gone \in SUBSET Findings
    BY <1>2, <2>1
  <2> HIDE DEF own
  <2> QED
    BY <2>2, <2>3, WrittenRows
<1> HIDE DEF own
<1>7. /\ OnlyProc(p)
      /\ proc'[p].pc = "commit" /\ proc'[p].own = own /\ proc'[p].snap.open = OpenTo(own)
      /\ proc'[p].snap.stamp \in Nat /\ proc'[p].snap # NoSnapshot /\ proc'[p].drafts = {}
  BY <1>0, <1>1, <1>6, SnapshotEffect
<1>8. ASSUME NEW f \in DOMAIN own PROVE Justified(p, f)'
  <2>1. CASE f \in gone
    <3>1. row[f].status \notin Decisions
      BY <1>3, <2>1 DEF OpenStatuses, Decisions
    <3> QED
      BY <1>1, <1>4, <1>7, <2>1, <3>1 DEF Justified, Dated
  <2>2. CASE f \in DOMAIN proc[p].own
    <3>1. Justified(p, f)
      BY <1>0, <2>2 DEF Sound
    <3> QED
      BY <1>1, <1>5, <1>7, <2>2, <3>1 DEF Justified, Dated
  <2> QED
    BY <1>5, <2>1, <2>2
<1>9. Sound(p)'
  BY <1>1, <1>7, <1>8 DEF Sound, OpenTo
<1>10. \A q \in Processes \ {p} : DOMAIN proc'[p].own \cap DOMAIN proc[q].own = {}
  BY <1>1, <1>5, <1>7 DEF FindingInv, WorkInv, Exclusive, Free
<1> QED
  BY <1>0, <1>1, <1>7, <1>9, <1>10, FindingsKept DEF FindingTyped

\* The UPDATE of a review or a retest, with a snapshot unless the status is the one read.
LEMMA UpdateKeeps ==
    ASSUME FindingInv, NEW p \in Processes, NEW f \in Findings, NEW r \in Finding,
           NEW snapshot \in BOOLEAN, Update(p, f, r, snapshot), proc[p].pc # "commit",
           proc[p].copy = row[f].status => Dated(f, r),
           r.by \in {"review", "retest"} \/ r.status = row[f].status,
           ~snapshot => r.status = proc[p].copy
    PROVE  FindingInv'
<1>0. proc[p] \in Process /\ FindingTyped /\ Stamped /\ Sound(p)
  BY DEF FindingInv, FindingTyped, WorkInv
<1> DEFINE own == [x \in {f} |-> r]
           k == [proc[p] EXCEPT !.pc = "commit", !.own = own]
<1>1. /\ Free(p, f) /\ UNCHANGED <<row, present, snapshots, muddled, work>>
      /\ stale' = IF proc[p].copy # row[f].status THEN stale \cup {f} ELSE stale
  BY DEF Update
<1>2. own \in Written /\ DOMAIN own = {f} /\ own[f] = r
  <2>1. own \in [{f} -> Finding] /\ DOMAIN own = {f} /\ own[f] = r
    OBVIOUS
  <2>2. {f} \in SUBSET Findings
    OBVIOUS
  <2> HIDE DEF own
  <2> QED
    BY <2>1, <2>2, WrittenRows
<1>3. snapshot => Snapshot(p, own)
  BY DEF Update
<1>4. ~snapshot => proc' = [proc EXCEPT ![p] = k]
  BY <1>0 DEF Update, FindingTyped
<1> HIDE DEF own
<1>5. k \in Process /\ k.pc = "commit" /\ k.own = own /\ k.snap = proc[p].snap
  BY <1>0, <1>2 DEF Process
<1> HIDE DEF k
<1>6. OnlyProc(p) /\ proc'[p].pc = "commit" /\ proc'[p].own = own
  BY <1>0, <1>2, <1>3, <1>4, <1>5, ProcWritten, SnapshotEffect
<1>7. proc'[p].snap.stamp \in Nat /\ (proc'[p].snap # NoSnapshot => proc'[p].snap.open = OpenTo(own))
  <2>1. CASE snapshot
    BY <1>0, <1>2, <1>3, <2>1, SnapshotEffect
  <2>2. CASE ~snapshot
    <3>1. proc'[p].snap = NoSnapshot
      BY <1>0, <1>4, <1>5, <2>2, ProcWritten DEF Sound
    <3> QED
      BY <3>1 DEF NoSnapshot
  <2> QED
    BY <2>1, <2>2
<1>8. proc'[p].snap = NoSnapshot => r.status = row[f].status \/ f \in stale'
  <2>1. CASE snapshot
    BY <1>0, <1>2, <1>3, <2>1, SnapshotEffect
  <2>2. CASE ~snapshot
    BY <1>1, <2>2
  <2> QED
    BY <2>1, <2>2
<1>9. stale \subseteq stale' /\ stale' \subseteq Findings
  BY <1>0, <1>1 DEF FindingTyped
<1>10. Justified(p, f)'
  <2>1. f \in stale' \/ (r.resolved <=> r.status = "RESOLVED")
    BY <1>1 DEF Dated
  <2>2. proc'[p].own[f] = r /\ row' = row
    BY <1>1, <1>2, <1>6
  <2> QED
    BY <2>1, <2>2 DEF Justified, Dated
<1>11. Sound(p)'
  <2>1. \A x \in DOMAIN own : x = f
    BY <1>2
  <2>2. row' = row
    BY <1>1
  <2>3. proc'[p].snap # NoSnapshot => proc'[p].snap.open = OpenTo(proc[p].own)'
    BY <1>2, <1>6, <1>7, <2>2 DEF OpenTo
  <2> QED
    BY <1>2, <1>6, <1>8, <1>10, <2>1, <2>2, <2>3 DEF Sound
<1>12. \A q \in Processes \ {p} : DOMAIN proc'[p].own \cap DOMAIN proc[q].own = {}
  BY <1>1, <1>2, <1>6 DEF Free
<1>13. work' \in 0..MaxWork /\ present' \subseteq Findings
  BY <1>0, <1>1 DEF FindingTyped
<1> QED
  BY <1>1, <1>6, <1>7, <1>9, <1>11, <1>12, <1>13, FindingsKept

\* The decision of a user.
LEMMA ReviewKeeps ==
    ASSUME FindingInv, NEW p \in Processes, Review(p) PROVE FindingInv'
<1>0. proc[p] \in Process /\ FindingTyped /\ RowsDated
  BY DEF FindingInv, FindingTyped, WorkInv
<1>1. PICK f \in proc[p].finding, status \in Reviewable :
         Update(p, f, [row[f] EXCEPT !.status = status, !.by = "review",
                         !.resolved = IF proc[p].copy = "RESOLVED" THEN FALSE ELSE @],
                ChangesScore(proc[p].copy, status))
  BY DEF Review
<1> DEFINE r == [row[f] EXCEPT !.status = status, !.by = "review",
                               !.resolved = IF proc[p].copy = "RESOLVED" THEN FALSE ELSE @]
           snapshot == ChangesScore(proc[p].copy, status)
<1>2. f \in Findings /\ row[f] \in Finding /\ proc[p].pc = "review"
  BY <1>0, FieldOfProcess, SeenIsRow DEF Review
<1>3. status \in Statuses /\ status # "RESOLVED"
  BY DEF Reviewable, Statuses, OpenStatuses, Decisions
<1>4. /\ r \in Finding /\ r.status = status /\ r.by = "review"
      /\ r.resolved = IF proc[p].copy = "RESOLVED" THEN FALSE ELSE row[f].resolved
  BY <1>2, <1>3 DEF Finding
<1>5. Update(p, f, r, snapshot)
  BY <1>1
<1> HIDE DEF r
<1>6. snapshot \in BOOLEAN /\ (~snapshot => r.status = proc[p].copy)
  BY <1>4 DEF ChangesScore
<1> HIDE DEF snapshot
<1>7. proc[p].copy = row[f].status => Dated(f, r)
  BY <1>0, <1>2, <1>3, <1>4 DEF RowsDated, Dated
<1> QED
  BY <1>2, <1>4, <1>5, <1>6, <1>7, UpdateKeeps

\* What a retest found, written.
LEMMA RetestKeeps ==
    ASSUME FindingInv, NEW p \in Processes, Retest(p) PROVE FindingInv'
<1>0. proc[p] \in Process /\ FindingTyped /\ RowsDated
  BY DEF FindingInv, FindingTyped, WorkInv
<1> DEFINE row1(f) == [status |-> "RESOLVED", resolved |-> TRUE, by |-> "retest",
                       looked |-> f \in proc[p].looked]
           row2(f) == [row[f] EXCEPT !.status = "OPEN", !.resolved = FALSE, !.by = "retest"]
           result(f) == IF proc[p].pc = "gone" THEN row1(f)
                        ELSE IF proc[p].copy = "RESOLVED" THEN row2(f) ELSE row[f]
<1>1. PICK f \in proc[p].finding : Update(p, f, result(f), proc[p].copy # result(f).status)
  BY DEF Retest
<1>2. f \in Findings /\ row[f] \in Finding /\ proc[p].pc \in {"there", "gone"}
  BY <1>0, FieldOfProcess, SeenIsRow DEF Retest
<1>3. row1(f) \in Finding /\ row1(f).status = "RESOLVED" /\ row1(f).resolved /\ row1(f).by = "retest"
  BY DEF Finding, Statuses
<1>4. row2(f) \in Finding /\ row2(f).status = "OPEN" /\ ~row2(f).resolved /\ row2(f).by = "retest"
  BY <1>2 DEF Finding, Statuses, OpenStatuses
<1> HIDE DEF row1, row2
<1> DEFINE r == result(f)
           snapshot == proc[p].copy # r.status
<1>5. /\ r \in Finding /\ (r.by = "retest" \/ r.status = row[f].status)
      /\ r = row[f] \/ (r.resolved <=> r.status = "RESOLVED")
  BY <1>2, <1>3, <1>4
<1>6. Update(p, f, r, snapshot) /\ snapshot \in BOOLEAN /\ (~snapshot => r.status = proc[p].copy)
  BY <1>1
<1> HIDE DEF r, snapshot
<1>7. Dated(f, r)
  BY <1>0, <1>2, <1>5 DEF RowsDated, Dated
<1> QED
  BY <1>2, <1>5, <1>6, <1>7, UpdateKeeps

\* The findings whose rows p wrote and that are open only before, or only after, it commits.
Changed(p) == {f \in DOMAIN proc[p].own :
                 (proc[p].own[f].status \in OpenStatuses) # (row[f].status \in OpenStatuses)}

\* What a commit writes.
LEMMA CommitEffect ==
    ASSUME FindingInv, NEW p \in Processes, Commit(p)
    PROVE  /\ proc[p].pc = "commit" /\ UNCHANGED <<present, stale, work>>
           /\ row' \in [Findings -> Finding]
           /\ \A f \in DOMAIN proc[p].own : f \in Findings /\ row'[f] = proc[p].own[f]
           /\ \A f \in Findings \ DOMAIN proc[p].own : row'[f] = row[f]
           /\ proc' \in [Processes -> Process] /\ proc'[p] = AtRest
           /\ \A q \in Processes \ {p} :
                /\ proc'[q] = [proc[q] EXCEPT
                      !.crossed = proc[q].crossed \/ (proc[q].snap # NoSnapshot /\ Changed(p) # {})]
           /\ snapshots' = IF proc[p].snap.stamp > snapshots.stamp THEN proc[p].snap ELSE snapshots
           /\ muddled' = IF proc[p].snap.stamp > snapshots.stamp THEN proc[p].crossed
                         ELSE muddled \/ (IF proc[p].snap = NoSnapshot THEN Changed(p) \cap stale
                                          ELSE Changed(p)) # {}
<1>0. FindingTyped /\ proc \in [Processes -> Process]
  BY DEF FindingInv, FindingTyped
<1>1. /\ proc[p].pc = "commit" /\ UNCHANGED <<present, stale, work>>
      /\ row' = [f \in Findings |-> Seen(p, f)]
      /\ snapshots' = IF proc[p].snap.stamp > snapshots.stamp THEN proc[p].snap ELSE snapshots
      /\ muddled' = IF proc[p].snap.stamp > snapshots.stamp THEN proc[p].crossed
                    ELSE muddled \/ (IF proc[p].snap = NoSnapshot THEN Changed(p) \cap stale
                                     ELSE Changed(p)) # {}
      /\ proc' = [q \in Processes |->
                    IF q = p THEN AtRest
                    ELSE [proc[q] EXCEPT !.crossed =
                            proc[q].crossed \/ (proc[q].snap # NoSnapshot /\ Changed(p) # {})]]
  BY DEF Commit, Changed
<1>2. row' \in [Findings -> Finding]
  BY <1>0, <1>1, SeenIsRow
<1>3. DOMAIN proc[p].own \subseteq Findings
  BY <1>0, FieldOfProcess, WrittenRows
<1>4. /\ \A f \in DOMAIN proc[p].own : row'[f] = proc[p].own[f]
      /\ \A f \in Findings \ DOMAIN proc[p].own : row'[f] = row[f]
  BY <1>1, <1>3 DEF Seen
<1>5. /\ proc'[p] = AtRest
      /\ \A q \in Processes \ {p} :
            proc'[q] = [proc[q] EXCEPT !.crossed =
                          proc[q].crossed \/ (proc[q].snap # NoSnapshot /\ Changed(p) # {})]
  BY <1>1
<1>6. ASSUME NEW q \in Processes PROVE proc'[q] \in Process
  <2>1. CASE q = p
    BY <1>5, <2>1, RestingProcess
  <2>2. CASE q # p
    <3> DEFINE c == proc[q].crossed \/ (proc[q].snap # NoSnapshot /\ Changed(p) # {})
    <3>1. c \in BOOLEAN /\ proc[q] \in Process
      BY <1>0, FieldOfProcess
    <3>2. proc'[q] = [proc[q] EXCEPT !.crossed = c]
      BY <1>5, <2>2
    <3> HIDE DEF c
    <3> QED
      BY <3>1, <3>2 DEF Process
  <2> QED
    BY <2>1, <2>2
<1>7. proc' \in [Processes -> Process]
  <2>1. proc' = [q \in Processes |-> proc'[q]]
    BY <1>1
  <2> QED
    BY <1>6, <2>1
<1> QED
  BY <1>1, <1>2, <1>3, <1>4, <1>5, <1>7

\* A transaction commits.
LEMMA CommitKeeps ==
    ASSUME FindingInv, NEW p \in Processes, Commit(p) PROVE FindingInv'
<1>0. FindingTyped /\ Stamped /\ Exclusive /\ RowsDated /\ \A q \in Processes : Sound(q)
  BY DEF FindingInv, WorkInv
<1>1. /\ proc[p].pc = "commit" /\ UNCHANGED <<present, stale, work>>
      /\ row' \in [Findings -> Finding]
      /\ \A f \in DOMAIN proc[p].own : f \in Findings /\ row'[f] = proc[p].own[f]
      /\ \A f \in Findings \ DOMAIN proc[p].own : row'[f] = row[f]
      /\ proc' \in [Processes -> Process] /\ proc'[p] = AtRest
  BY CommitEffect
<1>2. \A q \in Processes \ {p} :
         proc'[q] = [proc[q] EXCEPT
                      !.crossed = proc[q].crossed \/ (proc[q].snap # NoSnapshot /\ Changed(p) # {})]
  BY CommitEffect
<1>3. /\ snapshots' = IF proc[p].snap.stamp > snapshots.stamp THEN proc[p].snap ELSE snapshots
      /\ muddled' = IF proc[p].snap.stamp > snapshots.stamp THEN proc[p].crossed
                    ELSE muddled \/ (IF proc[p].snap = NoSnapshot THEN Changed(p) \cap stale
                                     ELSE Changed(p)) # {}
  BY CommitEffect
<1>4. ASSUME NEW q \in Processes \ {p}
      PROVE  /\ proc'[q].pc = proc[q].pc /\ proc'[q].own = proc[q].own /\ proc'[q].snap = proc[q].snap
             /\ proc'[q].drafts = proc[q].drafts /\ proc'[q].finding = proc[q].finding
             /\ ~proc'[q].crossed /\ proc[q].snap # NoSnapshot => ~proc[q].crossed /\ Changed(p) = {}
  <2> DEFINE c == proc[q].crossed \/ (proc[q].snap # NoSnapshot /\ Changed(p) # {})
  <2>1. proc'[q] = [proc[q] EXCEPT !.crossed = c] /\ proc[q] \in Process
    BY <1>0, <1>2 DEF FindingTyped
  <2>2. ~c /\ proc[q].snap # NoSnapshot => ~proc[q].crossed /\ Changed(p) = {}
    OBVIOUS
  <2> HIDE DEF c
  <2> QED
    BY <2>1, <2>2 DEF Process
<1>5. ASSUME Changed(p) = {}, NEW f \in Findings
      PROVE  row'[f].status \in OpenStatuses <=> row[f].status \in OpenStatuses
  <2>1. CASE f \in DOMAIN proc[p].own
    BY <1>1, <1>5, <2>1 DEF Changed
  <2>2. CASE f \notin DOMAIN proc[p].own
    BY <1>1, <2>2
  <2> QED
    BY <2>1, <2>2
<1>6. FindingTyped'
  <2>1. proc[p].snap \in SnapshotRow /\ proc[p].crossed \in BOOLEAN
    BY <1>0, FieldOfProcess DEF FindingTyped
  <2>2. snapshots' \in SnapshotRow /\ muddled' \in BOOLEAN
    BY <1>0, <1>3, <2>1 DEF FindingTyped
  <2> QED
    BY <1>0, <1>1, <2>2 DEF FindingTyped
<1>7. ASSUME NEW q \in Processes PROVE Sound(q)'
  <2>1. CASE q = p
    BY <1>1, <2>1, RestingProcess DEF Sound
  <2>2. CASE q # p
    <3>1. \A f \in DOMAIN proc[q].own : f \in Findings /\ f \notin DOMAIN proc[p].own
      BY <1>0, <2>2, FieldOfProcess, WrittenRows DEF Exclusive, FindingTyped
    <3>2. \A f \in DOMAIN proc[q].own : row'[f] = row[f]
      BY <1>1, <3>1
    <3>3. ASSUME NEW f \in DOMAIN proc[q].own PROVE Justified(q, f)'
      <4>1. Justified(q, f)
        BY <1>0 DEF Sound
      <4> QED
        BY <1>1, <1>4, <2>2, <3>2, <4>1 DEF Justified, Dated
    <3>4. proc'[q].snap # NoSnapshot /\ ~proc'[q].crossed => proc'[q].snap.open = OpenTo(proc[q].own)'
      <4>1. SUFFICES ASSUME proc'[q].snap # NoSnapshot, ~proc'[q].crossed
                     PROVE  proc[q].snap.open = OpenTo(proc[q].own)'
        BY <1>4, <2>2
      <4>2. ~proc[q].crossed /\ Changed(p) = {} /\ proc[q].snap # NoSnapshot /\ proc'[q].own = proc[q].own
        BY <1>4, <2>2, <4>1
      <4>3. proc[q].snap.open = OpenTo(proc[q].own)
        BY <1>0, <4>2 DEF Sound
      <4> QED
        BY <1>5, <4>2, <4>3 DEF OpenTo
    <3>5. proc'[q].own = proc[q].own
      BY <1>4, <2>2
    <3> QED
      BY <1>0, <1>1, <1>4, <2>2, <3>2, <3>3, <3>4, <3>5 DEF Sound
  <2> QED
    BY <2>1, <2>2
<1>8. Exclusive'
  <2> SUFFICES ASSUME NEW q \in Processes, NEW o \in Processes, q # o
               PROVE  DOMAIN proc'[q].own \cap DOMAIN proc'[o].own = {}
    BY DEF Exclusive
  <2>1. CASE q = p \/ o = p
    BY <1>1, <2>1, RestingProcess
  <2>2. CASE q # p /\ o # p
    BY <1>0, <1>4, <2>2 DEF Exclusive
  <2> QED
    BY <2>1, <2>2
<1>9. RowsDated'
  <2> SUFFICES ASSUME NEW f \in Findings PROVE Dated(f, row[f])'
    BY DEF RowsDated
  <2>1. CASE f \in DOMAIN proc[p].own
    <3>1. Dated(f, proc[p].own[f])
      BY <1>0, <2>1 DEF Sound, Justified
    <3> QED
      BY <1>1, <2>1, <3>1 DEF Dated
  <2>2. CASE f \notin DOMAIN proc[p].own
    BY <1>0, <1>1, <2>2 DEF RowsDated, Dated
  <2> QED
    BY <2>1, <2>2
<1>10. ScoreFollowsFindings'
  <2> SUFFICES ASSUME ~muddled' PROVE snapshots'.open = {f \in Findings : row'[f].status \in OpenStatuses}
    BY DEF ScoreFollowsFindings
  <2>1. CASE proc[p].snap.stamp > snapshots.stamp
    <3>1. snapshots' = proc[p].snap /\ ~proc[p].crossed
      BY <1>3, <2>1
    <3>2. proc[p].snap # NoSnapshot
      BY <1>0, <2>1 DEF NoSnapshot, FindingTyped, SnapshotRow
    <3>3. proc[p].snap.open = OpenTo(proc[p].own)
      BY <1>0, <3>1, <3>2 DEF Sound
    <3> QED
      BY <1>1, <3>1, <3>3 DEF OpenTo
  <2>2. CASE ~(proc[p].snap.stamp > snapshots.stamp)
    <3>1. /\ ~muddled /\ snapshots' = snapshots
          /\ (IF proc[p].snap = NoSnapshot THEN Changed(p) \cap stale ELSE Changed(p)) = {}
      BY <1>3, <2>2
    <3>2. Changed(p) = {}
      BY <1>0, <1>1, <3>1 DEF Sound, Changed
    <3>3. snapshots.open = {f \in Findings : row[f].status \in OpenStatuses}
      BY <3>1 DEF FindingInv, WorkInv, ScoreFollowsFindings
    <3> QED
      BY <1>5, <3>1, <3>2, <3>3
  <2> QED
    BY <2>1, <2>2
<1>11. Stamped'
  <2>1. PICK m \in Nat : snapshots.stamp <= m /\ \A q \in Processes : proc[q].snap.stamp <= m
    BY <1>0 DEF Stamped
  <2>2. \A q \in Processes : proc'[q].snap.stamp <= m
    <3>1. NoSnapshot.stamp = 0
      BY DEF NoSnapshot
    <3>2. proc'[p].snap.stamp <= m
      BY <1>1, <2>1, <3>1, RestingProcess
    <3> QED
      BY <1>4, <2>1, <3>2
  <2>3. snapshots'.stamp <= m
    BY <1>3, <2>1
  <2> QED
    BY <2>2, <2>3 DEF Stamped
<1> QED
  BY <1>6, <1>7, <1>8, <1>9, <1>10, <1>11 DEF FindingInv, WorkInv

\* The world changes.
LEMMA DriftKeeps == FindingInv /\ Drift => FindingInv'
<1> SUFFICES ASSUME FindingInv, Drift PROVE FindingInv'
  OBVIOUS
<1>1. UNCHANGED <<row, proc, snapshots, stale, muddled>>
  BY DEF Drift
<1>2. FindingTyped'
  <2>1. work' \in 0..MaxWork
    BY FindingAssumption DEF Drift, FindingInv, FindingTyped
  <2>2. present' \subseteq Findings
    BY DEF Drift, FindingInv, FindingTyped
  <2> QED
    BY <1>1, <2>1, <2>2 DEF FindingInv, FindingTyped
<1> QED
  BY <1>1, <1>2 DEF FindingInv, WorkInv, Stamped, Sound, Justified, Dated, OpenTo, Exclusive,
                    RowsDated, ScoreFollowsFindings

\* The inductive invariant of the findings holds in every state.
LEMMA FindingInvariant == FindingSpec => []FindingInv
<1>1. FindingInit => FindingInv
  <2> SUFFICES ASSUME FindingInit PROVE FindingInv
    OBVIOUS
  <2>1. \A p \in Processes : proc[p] = AtRest
    BY DEF FindingInit
  <2>2. NoFinding \in Finding /\ ~NoFinding.resolved /\ NoFinding.status = "none"
    BY DEF NoFinding, Finding, Statuses
  <2>3. NoSnapshot.open = {} /\ NoSnapshot.stamp = 0
    BY DEF NoSnapshot
  <2>4. FindingTyped
    <3>1. proc \in [Processes -> Process]
      BY RestingProcess DEF FindingInit
    <3>2. row \in [Findings -> Finding] /\ 0 \in 0..MaxWork
      BY <2>2, FindingAssumption DEF FindingInit
    <3> QED
      BY <3>1, <3>2, RestingProcess DEF FindingInit, FindingTyped
  <2>5. \A p \in Processes : Sound(p)
    BY <2>1, RestingProcess DEF Sound
  <2>6. Exclusive
    BY <2>1, RestingProcess DEF Exclusive
  <2>7. \A f \in Findings : row[f] = NoFinding
    BY DEF FindingInit
  <2>8. RowsDated
    BY <2>2, <2>7 DEF RowsDated, Dated
  <2>9. ScoreFollowsFindings
    BY <2>2, <2>3, <2>7 DEF FindingInit, ScoreFollowsFindings, OpenStatuses
  <2>10. Stamped
    BY <2>1, <2>3, RestingProcess DEF FindingInit, Stamped
  <2> QED
    BY <2>4, <2>5, <2>6, <2>8, <2>9, <2>10 DEF FindingInv, WorkInv
<1>2. FindingInv /\ [FindingNext]_findingVars => FindingInv'
  <2> SUFFICES ASSUME FindingInv, [FindingNext]_findingVars PROVE FindingInv'
    OBVIOUS
  <2>1. ASSUME NEW p \in Processes, Look(p) \/ ReadDraft(p) \/ WriteDraft(p) \/ ResolveRest(p)
        PROVE  FindingInv'
    BY <2>1, LookKeeps, ReadDraftKeeps, WriteDraftKeeps, ResolveRestKeeps
  <2>2. ASSUME NEW p \in Processes, Rollback(p) PROVE FindingInv'
    BY <2>2, RestKeeps DEF Rollback
  <2>3. ASSUME NEW p \in Processes, Commit(p) PROVE FindingInv'
    BY <2>3, CommitKeeps
  <2>4. ASSUME NEW p \in Processes, Review(p) \/ Probe(p) \/ Retest(p) PROVE FindingInv'
    BY <2>4, ReviewKeeps, ProbeKeeps, RetestKeeps
  <2>5. ASSUME NEW p \in Processes, NEW f \in Findings, NEW pc \in {"review", "retest"},
               ReadFinding(p, f, pc)
        PROVE  FindingInv'
    BY <2>5, ReadFindingKeeps
  <2>6. CASE Drift
    BY <2>6, DriftKeeps
  <2>7. CASE UNCHANGED findingVars
    BY <2>7 DEF findingVars, FindingInv, FindingTyped, WorkInv, Stamped, Sound, Justified, Dated,
                OpenTo, Exclusive, RowsDated, ScoreFollowsFindings
  <2>8. Writers \subseteq Processes /\ Requests \subseteq Processes
    BY DEF Processes
  <2> QED
    BY <2>1, <2>2, <2>3, <2>4, <2>5, <2>6, <2>7, <2>8 DEF FindingNext
<1> QED
  BY <1>1, <1>2, PTL DEF FindingSpec

\* Every variable of the findings keeps its type, and a finding has a date of resolution
\* exactly while it is RESOLVED, unless somebody wrote it from an old copy.
THEOREM FindingTypeCorrect == FindingSpec => []FindingTypeOK
<1>1. FindingInv => FindingTypeOK
  BY DEF FindingInv, FindingTyped, FindingTypeOK, WorkInv, RowsDated, Dated, Finding, Statuses
<1> QED
  BY <1>1, FindingInvariant, PTL

\* RiskScoresService.snapshot: the newest snapshot counts the findings that are open,
\* unless the transaction that took it, or a later one, ran across another.
THEOREM ScoreFollows == FindingSpec => []ScoreFollowsFindings
<1>1. FindingInv => ScoreFollowsFindings
  BY DEF FindingInv, WorkInv
<1> QED
  BY <1>1, FindingInvariant, PTL

\* syncForScan and runAccountAudit: no scan or audit takes back the decision of a user,
\* but one that had read the finding before it.
THEOREM DecisionsKept == FindingSpec => DecisionsSurvive
<1> DEFINE Kept == \A f \in Findings : row[f].status \in Decisions /\ row'[f].status # row[f].status
                             => row'[f].by \in {"review", "retest"} \/ f \in stale
<1>1. FindingInv /\ [FindingNext]_findingVars => [Kept]_findingVars
  <2> SUFFICES ASSUME FindingInv, FindingNext, NEW f \in Findings,
                      row[f].status \in Decisions, row'[f].status # row[f].status
               PROVE  row'[f].by \in {"review", "retest"} \/ f \in stale
    OBVIOUS
  <2>1. PICK p \in Processes : Commit(p)
    <3>1. row' # row
      OBVIOUS
    <3> QED
      BY <3>1 DEF FindingNext, Look, ReadDraft, WriteDraft, ResolveRest, Rollback, Review, Probe,
                  Retest, Update, ReadFinding, Drift
  <2>2. f \in DOMAIN proc[p].own /\ row'[f] = proc[p].own[f]
    BY <2>1, CommitEffect
  <2> QED
    BY <2>2 DEF FindingInv, WorkInv, Sound, Justified
<1> QED
  BY <1>1, FindingInvariant, PTL DEF FindingSpec, DecisionsSurvive

------------------------------------------------------------------------------
(* The inventory.                                                           *)

\* The names of a certificate: a domain and those above it.
Labels == UNION {Seq(Range(d)) : d \in Domains}

AssetRow == [id : 0..MaxAssets, scope : Scopes,
             method : {"none", "DNS_TXT", "HTTP_FILE", "INHERITED"}]

Caller == [pc : {"idle", "read", "insert", "check", "update", "propagate"},
           todo : Seq(Names), id : 0..MaxAssets, left : Seq(Labels), inherit : Scopes,
           method : Methods \cup {"none", "DNS_TXT", "HTTP_FILE"},
           covered : SUBSET (1..MaxAssets), crossed : BOOLEAN]

\* The types; who is at work has a name in hand; an id in use was given, and to one asset;
\* nothing discovered outlives its asset.
InventoryTyped ==
    /\ asset \in [Names -> AssetRow]
    /\ caller \in [Callers -> Caller]
    /\ \A c \in Callers : caller[c].pc # "idle" => caller[c].todo # <<>>
    /\ proved \in [dns : SUBSET DnsProofs, file : SUBSET Names]
    /\ created \in 0..MaxAssets /\ requests \in 0..MaxRequests

\* An id in use, or about to be handed a proof, was given, and to one asset.
GivenOnce ==
    /\ \A n \in Names : asset[n].id <= created
    /\ \A c \in Callers : caller[c].covered \subseteq 1..created
    /\ \A n, m \in Names : Exists(n) /\ asset[n].id = asset[m].id => n = m

\* Nothing that hangs from an asset outlives it.
Living == {asset[n].id : n \in Names}
NoneOutlives ==
    host \in [Hosts -> Living \cup {NoOwner}] /\ surveyed \cup crossed \subseteq Living \ {0}

\* A proof of the organization for n.
ProofFor(n, scope) == scope \in proved.dns /\ Covers(scope, n)

\* What a request carries to the row it will write is a proof.
Carried(c) ==
    LET k == caller[c]
        n == Head(k.todo) IN
    /\ k.pc = "check" => \A i \in DOMAIN k.left : Covers(k.left[i], n)
    /\ k.pc = "insert" => k.inherit = None \/ ProofFor(n, k.inherit)
    /\ k.pc = "update" => IF k.method = "DNS_TXT" THEN ProofFor(n, k.inherit)
                          ELSE k.inherit = n /\ n \in proved.file
    /\ k.pc = "propagate" =>
         /\ ProofFor(n, k.inherit)
         /\ \A m \in Names : asset[m].id \in k.covered => Covers(k.inherit, m)

ProofInv == VerifiedHasProof /\ \A c \in Callers : Carried(c)

\* A creation that found nothing to inherit, with something to inherit now, was overtaken.
OvertakenKnown ==
    \A c \in Callers : caller[c].pc = "insert" /\ caller[c].inherit = None
       => \A s \in DnsScopes : Covers(s, Head(caller[c].todo)) => caller[c].crossed

CoverInv == CoveredIsVerified /\ OvertakenKnown

InventoryInv == InventoryTyped /\ GivenOnce /\ NoneOutlives /\ ProofInv /\ CoverInv

------------------------------------------------------------------------------
(* The operators of the inventory.                                          *)

\* isCoveredBy: a name is covered by each of the domains where its proof may be.
LEMMA ProofDomainsCover ==
    ASSUME NEW n \in Domains
    PROVE  /\ ProofDomains(n) \in Seq(Labels)
           /\ \A i \in DOMAIN ProofDomains(n) : Covers(ProofDomains(n)[i], n)
<1> DEFINE L == Len(n)
           R == Range(n)
<1>1. n \in Seq(R) /\ L \in Nat /\ n # <<>>
  BY InventoryAssumption
<1>2. L >= 1
  BY <1>1
<1> HIDE DEF R
<1>3. ASSUME NEW i \in 1..(L - 1) PROVE SubSeq(n, i, L) \in Labels /\ Covers(SubSeq(n, i, L), n)
  <2> DEFINE s == SubSeq(n, i, L)
             k == L - i + 1
  <2>1. i \in Nat /\ 1 <= i /\ i <= L /\ k \in Nat /\ k >= 1 /\ k <= L
    BY <1>1, <1>3
  <2>2. s = [j \in 1..k |-> n[i + j - 1]] /\ Len(s) = k /\ s \in Seq(R)
    BY <1>1, <2>1
  <2>3. s \in Labels
    BY <2>2 DEF Labels, R
  <2> DEFINE v == Reverse(s)
             w == Reverse(n)
  <2>4. v = [j \in 1..k |-> s[(k - j) + 1]] /\ w = [j \in 1..L |-> n[(L - j) + 1]]
    BY <2>2 DEF Reverse
  <2>5. ASSUME NEW j \in 1..k PROVE v[j] = w[j]
    <3>1. (k - j) + 1 \in 1..k /\ i + ((k - j) + 1) - 1 = (L - j) + 1 /\ j \in 1..L
      BY <2>1, <1>1
    <3>2. v[j] = s[(k - j) + 1]
      BY <2>4
    <3>3. s[(k - j) + 1] = n[i + ((k - j) + 1) - 1]
      BY <2>2, <3>1
    <3>4. w[j] = n[(L - j) + 1]
      BY <2>4, <3>1
    <3> QED
      BY <3>1, <3>2, <3>3, <3>4
  <2>6. /\ v \in Seq(R) /\ Len(v) = k
    <3>1. ASSUME NEW j \in 1..k PROVE s[(k - j) + 1] \in R
      <4>1. (k - j) + 1 \in 1..Len(s)
        BY <2>1, <2>2
      <4>2. s \in Seq(R)
        BY <2>2
      <4> HIDE DEF s, k
      <4> QED
        BY <4>1, <4>2, ElementOfSeq
    <3>2. v \in [1..k -> R]
      BY <2>4, <3>1
    <3> HIDE DEF v, k
    <3> QED
      BY <2>1, <3>2
  <2>7. /\ w \in Seq(R) /\ Len(w) = L
    <3>1. ASSUME NEW j \in 1..L PROVE n[(L - j) + 1] \in R
      <4>1. (L - j) + 1 \in 1..L
        BY <1>1
      <4> QED
        BY <1>1, <4>1
    <3>2. w \in [1..L -> R]
      BY <2>4, <3>1
    <3> HIDE DEF w, L
    <3> QED
      BY <1>1, <3>2
  <2>8. IsSuffix(s, n)
    <3>1. SubSeq(v, 1, k) = [j \in 1..k |-> v[j]] /\ SubSeq(w, 1, k) = [j \in 1..k |-> w[j]]
      <4> HIDE DEF v, w, k, L
      <4>1. 1 + k - 1 = k /\ \A j \in 1..k : 1 + j - 1 = j
        BY <2>1
      <4> QED
        BY <2>1, <2>6, <2>7, <4>1
    <3>2. SubSeq(v, 1, k) = SubSeq(w, 1, k)
      BY <2>5, <3>1
    <3>3. Len(v) <= Len(w)
      BY <2>1, <2>6, <2>7
    <3> QED
      BY <2>6, <3>2, <3>3 DEF IsSuffix, IsPrefix
  <2>9. s # <<>>
    <3>1. Len(s) = k
      BY <2>2
    <3> HIDE DEF s
    <3> QED
      BY <2>1, <3>1
  <2> QED
    BY <2>3, <2>8, <2>9 DEF Covers, None
<1>4. /\ DOMAIN ProofDomains(n) = 1..(L - 1)
      /\ \A i \in 1..(L - 1) : ProofDomains(n)[i] = SubSeq(n, i, L)
  BY DEF ProofDomains
<1>5. ProofDomains(n) \in [1..(L - 1) -> Labels]
  BY <1>3 DEF ProofDomains
<1>6. L - 1 \in Nat
  BY <1>1, <1>2
<1> HIDE DEF L
<1>7. ProofDomains(n) \in Seq(Labels)
  BY <1>5, <1>6
<1> QED
  BY <1>3, <1>4, <1>7

\* A request at rest.
LEMMA RestingCaller ==
    /\ NoCaller \in Caller /\ NoCaller.pc = "idle" /\ NoCaller.covered = {}
    /\ None \in Scopes /\ None = <<>>
BY InventoryAssumption DEF NoCaller, Caller, Scopes, None

\* What is handed down was proved.
LEMMA ScopesAreProved ==
    ASSUME InventoryTyped, VerifiedHasProof, NEW s \in DnsScopes
    PROVE  /\ s \in proved.dns /\ s \in Scopes /\ s # None
           /\ \E q \in Names : /\ asset[q].scope = s /\ Covers(s, q)
                               /\ asset[q].method \in {"DNS_TXT", "INHERITED"}
<1>1. PICK q \in Names : asset[q].scope = s /\ asset[q].method \in {"DNS_TXT", "INHERITED"}
  BY DEF DnsScopes
<1>2. s \in proved.dns /\ Covers(s, q)
  BY <1>1 DEF VerifiedHasProof
<1>3. asset[q] \in AssetRow
  BY DEF InventoryTyped
<1> QED
  BY <1>1, <1>2, <1>3 DEF AssetRow, Covers

\* The step is of request c: of the others, at most a creation learns that it was overtaken.
Others(c) ==
    /\ caller' \in [Callers -> Caller]
    /\ \A d \in Callers \ {c} :
        /\ caller'[d].pc = caller[d].pc /\ caller'[d].todo = caller[d].todo
        /\ caller'[d].id = caller[d].id /\ caller'[d].left = caller[d].left
        /\ caller'[d].inherit = caller[d].inherit /\ caller'[d].method = caller[d].method
        /\ caller'[d].covered = caller[d].covered /\ (caller[d].crossed => caller'[d].crossed)

\* Writing the record of one request leaves the others alone.
LEMMA CallerWritten ==
    ASSUME InventoryTyped, NEW c \in Callers, NEW r \in Caller, caller' = [caller EXCEPT ![c] = r]
    PROVE  Others(c) /\ caller'[c] = r
BY DEF InventoryTyped, Others

\* A new scope overtakes the creations it covers.
LEMMA OvertakenEffect ==
    ASSUME InventoryTyped, NEW c \in Callers, NEW r \in Caller, NEW scope,
           caller' = [Overtaken(scope) EXCEPT ![c] = r]
    PROVE  /\ Others(c) /\ caller'[c] = r
           /\ \A d \in Callers \ {c} :
                caller[d].pc = "insert" /\ Covers(scope, Head(caller[d].todo)) => caller'[d].crossed
<1> DEFINE more(d) == [caller[d] EXCEPT !.crossed = TRUE]
<1>1. ASSUME NEW d \in Callers
      PROVE  /\ more(d) \in Caller /\ caller[d] \in Caller /\ more(d).crossed
             /\ more(d).pc = caller[d].pc /\ more(d).todo = caller[d].todo
             /\ more(d).id = caller[d].id /\ more(d).left = caller[d].left
             /\ more(d).inherit = caller[d].inherit /\ more(d).method = caller[d].method
             /\ more(d).covered = caller[d].covered
  BY DEF InventoryTyped, Caller
<1>2. Overtaken(scope) = [d \in Callers |->
          IF caller[d].pc = "insert" /\ Covers(scope, Head(caller[d].todo)) THEN more(d) ELSE caller[d]]
  BY DEF Overtaken
<1> HIDE DEF more
<1>3. /\ caller'[c] = r
      /\ \A d \in Callers \ {c} : caller'[d] =
          IF caller[d].pc = "insert" /\ Covers(scope, Head(caller[d].todo)) THEN more(d) ELSE caller[d]
  BY <1>2
<1>4. caller' \in [Callers -> Caller]
  BY <1>1, <1>2
<1> QED
  BY <1>1, <1>3, <1>4 DEF Others

------------------------------------------------------------------------------
(* The steps that leave the assets.                                         *)

\* A step of a request that leaves the assets keeps the invariant, when what the request
\* carries now is a proof, and it inherits nothing only with nothing to inherit.
LEMMA InventoryKept ==
    ASSUME InventoryInv, NEW c \in Callers, Others(c),
           UNCHANGED <<asset, host, surveyed, crossed, created>>, requests' \in 0..MaxRequests,
           proved' \in [dns : SUBSET DnsProofs, file : SUBSET Names],
           proved.dns \subseteq proved'.dns, proved.file \subseteq proved'.file,
           caller'[c].pc # "idle" => caller'[c].todo # <<>>,
           caller'[c].covered \subseteq 1..created, Carried(c)',
           caller'[c].pc = "insert" /\ caller'[c].inherit = None
             => \A s \in DnsScopes : Covers(s, Head(caller'[c].todo)) => caller'[c].crossed
    PROVE  InventoryInv'
<1>0. InventoryTyped /\ GivenOnce /\ NoneOutlives /\ ProofInv /\ CoverInv
  BY DEF InventoryInv
<1>1. InventoryTyped'
  BY <1>0 DEF InventoryTyped, Others
<1>2. GivenOnce'
  <2>1. \A d \in Callers : caller'[d].covered \subseteq 1..created
    BY <1>0 DEF GivenOnce, Others
  <2> QED
    BY <1>0, <2>1 DEF GivenOnce, Exists
<1>3. NoneOutlives'
  BY <1>0 DEF NoneOutlives, Living
<1>4. ASSUME NEW d \in Callers PROVE Carried(d)'
  <2>1. CASE d = c
    BY <2>1
  <2>2. CASE d # c
    <3>1. Carried(d)
      BY <1>0 DEF ProofInv
    <3> QED
      BY <2>2, <3>1 DEF Carried, Others, ProofFor
  <2> QED
    BY <2>1, <2>2
<1>5. VerifiedHasProof'
  BY <1>0 DEF ProofInv, VerifiedHasProof
<1>6. DnsScopes' = DnsScopes
  BY DEF DnsScopes
<1>7. OvertakenKnown'
  <2> SUFFICES ASSUME NEW d \in Callers, caller'[d].pc = "insert", caller'[d].inherit = None,
                      NEW s \in DnsScopes, Covers(s, Head(caller'[d].todo))
               PROVE  caller'[d].crossed
    BY <1>6 DEF OvertakenKnown
  <2>1. CASE d # c
    BY <1>0, <2>1 DEF CoverInv, OvertakenKnown, Others
  <2> QED
    BY <2>1
<1>8. CoveredIsVerified'
  BY <1>0 DEF CoverInv, CoveredIsVerified, Exists, Verified
<1> QED
  BY <1>1, <1>2, <1>3, <1>4, <1>5, <1>7, <1>8 DEF InventoryInv, ProofInv, CoverInv

\* A request that begins, or goes on, with names in hand and no proof yet.
LEMMA RequestKeeps ==
    ASSUME InventoryInv, NEW c \in Callers, NEW r \in Caller, caller' = [caller EXCEPT ![c] = r],
           r.pc \in {"idle", "read"}, r.pc = "idle" \/ r.todo # <<>>, r.covered = {},
           UNCHANGED <<asset, host, proved, surveyed, crossed, created>>,
           requests' \in 0..MaxRequests
    PROVE  InventoryInv'
<1>1. InventoryTyped
  BY DEF InventoryInv
<1>2. Others(c) /\ caller'[c] = r
  BY <1>1, CallerWritten
<1>3. Carried(c)'
  BY <1>2 DEF Carried
<1> QED
  BY <1>1, <1>2, <1>3, InventoryKept DEF InventoryTyped

\* One more request is within the bound.
LEMMA BeginCounts ==
    ASSUME InventoryTyped, NEW c \in Callers, Begin(c)
    PROVE  requests' \in 0..MaxRequests
BY InventoryAssumption DEF Begin, InventoryTyped

\* An asset is to be created.
LEMMA CreateKeeps ==
    ASSUME InventoryInv, NEW c \in Callers, NEW n \in Names, Create(c, n)
    PROVE  InventoryInv'
<1>0. InventoryTyped
  BY DEF InventoryInv
<1> DEFINE r == [NoCaller EXCEPT !.pc = "read", !.todo = <<n>>]
<1>1. <<n>> \in Seq(Names) /\ <<n>> # <<>>
  OBVIOUS
<1>2. r \in Caller /\ r.pc = "read" /\ r.todo = <<n>> /\ r.covered = {}
  BY <1>1, RestingCaller DEF Caller
<1>3. caller' = [caller EXCEPT ![c] = r]
  BY DEF Create
<1>4. UNCHANGED <<asset, host, proved, surveyed, crossed, created>> /\ requests' \in 0..MaxRequests
  BY <1>0, BeginCounts DEF Create
<1> HIDE DEF r
<1> QED
  BY <1>1, <1>2, <1>3, <1>4, RequestKeeps

\* The hosts of a finite import, in some order.
LEMMA ImportedInOrder ==
    ASSUME NEW hosts \in SUBSET Hosts, hosts # {}, NEW todo \in SetToSeqs(hosts)
    PROVE  todo \in Seq(Names) /\ todo # <<>>
<1>1. IsFiniteSet(hosts)
  BY InventoryAssumption, FS_Subset
<1>2. Cardinality(hosts) \in Nat /\ Cardinality(hosts) # 0
  BY <1>1, FS_CardinalityType, FS_EmptySet
<1>3. todo \in [1..Cardinality(hosts) -> hosts]
  BY DEF SetToSeqs
<1>4. hosts \subseteq Names
  BY InventoryAssumption DEF Names
<1> QED
  BY <1>2, <1>3, <1>4

\* importAsAssets.
LEMMA ImportKeeps ==
    ASSUME InventoryInv, NEW c \in Callers, NEW hosts \in SUBSET Hosts, Import(c, hosts)
    PROVE  InventoryInv'
<1>0. InventoryTyped
  BY DEF InventoryInv
<1>1. PICK todo \in SetToSeqs(hosts) :
        caller' = [caller EXCEPT ![c] = [NoCaller EXCEPT !.pc = "read", !.todo = todo]]
  BY DEF Import
<1> DEFINE r == [NoCaller EXCEPT !.pc = "read", !.todo = todo]
<1>2. todo \in Seq(Names) /\ todo # <<>>
  BY ImportedInOrder DEF Import
<1>3. r \in Caller /\ r.pc = "read" /\ r.todo = todo /\ r.covered = {}
  BY <1>2, RestingCaller DEF Caller
<1>4. caller' = [caller EXCEPT ![c] = r]
  BY <1>1
<1>5. UNCHANGED <<asset, host, proved, surveyed, crossed, created>> /\ requests' \in 0..MaxRequests
  BY <1>0, BeginCounts DEF Import
<1> HIDE DEF r
<1> QED
  BY <1>2, <1>3, <1>4, <1>5, RequestKeeps

\* inheritedVerification.
LEMMA ReadInheritedKeeps ==
    ASSUME InventoryInv, NEW c \in Callers, ReadInherited(c) PROVE InventoryInv'
<1>0. InventoryTyped /\ VerifiedHasProof /\ caller[c] \in Caller
  BY DEF InventoryInv, ProofInv, InventoryTyped
<1> DEFINE covering == {s \in DnsScopes : Covers(s, Head(caller[c].todo))}
<1>1. PICK s \in IF covering = {} THEN {None} ELSE covering :
        caller' = [caller EXCEPT ![c].pc = "insert", ![c].inherit = s, ![c].crossed = FALSE]
  BY DEF ReadInherited
<1>2. caller[c].pc = "read" /\ UNCHANGED <<asset, host, proved, surveyed, crossed, created, requests>>
  BY DEF ReadInherited
<1> DEFINE r == [caller[c] EXCEPT !.pc = "insert", !.inherit = s, !.crossed = FALSE]
<1>3. /\ s \in Scopes
      /\ s = None \/ (s \in proved.dns /\ Covers(s, Head(caller[c].todo)))
      /\ s = None => covering = {}
  BY <1>0, <1>1, RestingCaller, ScopesAreProved
<1>4. /\ r \in Caller /\ r.pc = "insert" /\ r.inherit = s /\ r.todo = caller[c].todo
      /\ r.covered = caller[c].covered
  BY <1>0, <1>3 DEF Caller
<1>5. caller' = [caller EXCEPT ![c] = r]
  BY <1>0, <1>1 DEF InventoryTyped
<1>6. \A t \in DnsScopes : s = None => ~Covers(t, Head(caller[c].todo))
  BY <1>3
<1> HIDE DEF r, covering
<1>7. Others(c) /\ caller'[c] = r
  BY <1>0, <1>4, <1>5, CallerWritten
<1>8. Carried(c)'
  BY <1>2, <1>3, <1>4, <1>7 DEF Carried, ProofFor
<1>9. r.todo # <<>> /\ r.covered \subseteq 1..created
  BY <1>2, <1>4 DEF InventoryInv, InventoryTyped, GivenOnce
<1> QED
  BY <1>0, <1>2, <1>4, <1>6, <1>7, <1>8, <1>9, InventoryKept DEF InventoryTyped

\* A verification begins with the domains where the proof may be.
LEMMA BeginVerifyKeeps ==
    ASSUME InventoryInv, NEW c \in Callers, NEW n \in Names, NEW method \in Methods,
           BeginVerify(c, n, method)
    PROVE  InventoryInv'
<1>0. InventoryTyped /\ asset[n] \in AssetRow
  BY DEF InventoryInv, InventoryTyped
<1> DEFINE left == IF n \in Domains /\ method # "HTTP_FILE" THEN ProofDomains(n) ELSE None
           r == [NoCaller EXCEPT !.pc = "check", !.todo = <<n>>, !.id = asset[n].id,
                                 !.method = method, !.left = left]
<1>1. <<n>> \in Seq(Names) /\ <<n>> # <<>> /\ Head(<<n>>) = n
  OBVIOUS
<1>2. left \in Seq(Labels) /\ \A i \in DOMAIN left : Covers(left[i], n)
  <2>1. CASE n \in Domains /\ method # "HTTP_FILE"
    BY <2>1, ProofDomainsCover
  <2>2. CASE ~(n \in Domains /\ method # "HTTP_FILE")
    BY <2>2 DEF None
  <2> QED
    BY <2>1, <2>2
<1>3. caller' = [caller EXCEPT ![c] = r]
  BY DEF BeginVerify
<1>4. UNCHANGED <<asset, host, proved, surveyed, crossed, created>> /\ requests' \in 0..MaxRequests
  BY <1>0, BeginCounts DEF BeginVerify
<1> HIDE DEF left
<1>5. r \in Caller /\ r.pc = "check" /\ r.todo = <<n>> /\ r.left = left /\ r.covered = {}
  BY <1>0, <1>1, <1>2, RestingCaller DEF Caller, AssetRow
<1> HIDE DEF r
<1>6. Others(c) /\ caller'[c] = r
  BY <1>0, <1>3, <1>5, CallerWritten
<1>7. Carried(c)'
  BY <1>1, <1>2, <1>5, <1>6 DEF Carried
<1> QED
  BY <1>0, <1>1, <1>4, <1>5, <1>6, <1>7, InventoryKept DEF InventoryTyped

\* checkDns: one more name looked at, with a record or without.
LEMMA CheckDnsKeeps ==
    ASSUME InventoryInv, NEW c \in Callers, CheckDns(c) PROVE InventoryInv'
<1>0. InventoryTyped /\ caller[c] \in Caller /\ Carried(c)
  BY DEF InventoryInv, InventoryTyped, ProofInv
<1> DEFINE left == caller[c].left
           n == Head(caller[c].todo)
<1>1. /\ caller[c].pc = "check"
      /\ UNCHANGED <<asset, host, surveyed, crossed, created, requests>>
  BY DEF CheckDns
<1>2. left \in Seq(Labels) /\ left # <<>> /\ \A i \in DOMAIN left : Covers(left[i], n)
  BY <1>0, <1>1 DEF CheckDns, Caller, Carried, None
<1>3. caller[c].todo # <<>> /\ caller[c].covered \subseteq 1..created
  BY <1>1 DEF InventoryInv, InventoryTyped, GivenOnce
<1>4. CASE caller' = [caller EXCEPT ![c].left = Tail(@)] /\ UNCHANGED proved
  <2> DEFINE rest == Tail(left)
             r == [caller[c] EXCEPT !.left = rest]
  <2>1. rest \in Seq(Labels) /\ \A i \in DOMAIN rest : Covers(rest[i], n)
    <3>1. rest \in Seq(Labels)
      BY <1>2
    <3>2. ASSUME NEW i \in DOMAIN rest PROVE i + 1 \in DOMAIN left /\ rest[i] = left[i + 1]
      <4> HIDE DEF left
      <4> QED
        BY <1>2, <3>2
    <3> QED
      BY <1>2, <3>1, <3>2
  <2>2. caller' = [caller EXCEPT ![c] = r]
    BY <1>0, <1>4 DEF InventoryTyped
  <2> HIDE DEF rest
  <2>3. /\ r \in Caller /\ r.pc = "check" /\ r.left = rest /\ r.todo = caller[c].todo
        /\ r.covered = caller[c].covered
    BY <1>0, <1>1, <2>1 DEF Caller
  <2> HIDE DEF r
  <2>4. Others(c) /\ caller'[c] = r
    BY <1>0, <2>2, <2>3, CallerWritten
  <2>5. Carried(c)'
    BY <2>1, <2>3, <2>4 DEF Carried
  <2> QED
    BY <1>0, <1>1, <1>3, <1>4, <2>3, <2>4, <2>5, InventoryKept DEF InventoryTyped
<1>5. CASE /\ Head(left) \in DnsProofs
           /\ caller' = [caller EXCEPT ![c].pc = "update", ![c].method = "DNS_TXT",
                                       ![c].inherit = Head(left)]
           /\ proved' = [proved EXCEPT !.dns = @ \cup {Head(left)}]
  <2> DEFINE domain == Head(left)
             r == [caller[c] EXCEPT !.pc = "update", !.method = "DNS_TXT", !.inherit = domain]
  <2>1. Covers(domain, n)
    <3>1. 1 \in DOMAIN left /\ domain = left[1]
      <4> HIDE DEF left
      <4> QED
        BY <1>2
    <3> QED
      BY <1>2, <3>1
  <2>2. domain \in DnsProofs /\ domain \in Scopes
    BY <1>5 DEF Scopes
  <2>3. caller' = [caller EXCEPT ![c] = r]
    BY <1>0, <1>5 DEF InventoryTyped
  <2>4. /\ proved' \in [dns : SUBSET DnsProofs, file : SUBSET Names]
        /\ proved'.dns = proved.dns \cup {domain} /\ proved'.file = proved.file
    BY <1>0, <1>5, <2>2 DEF InventoryTyped
  <2> HIDE DEF domain
  <2>5. /\ r \in Caller /\ r.pc = "update" /\ r.inherit = domain /\ r.todo = caller[c].todo
        /\ r.covered = caller[c].covered /\ r.method = "DNS_TXT"
    BY <1>0, <2>2 DEF Caller
  <2> HIDE DEF r
  <2>6. Others(c) /\ caller'[c] = r
    BY <1>0, <2>3, <2>5, CallerWritten
  <2>7. Carried(c)'
    BY <2>1, <2>4, <2>5, <2>6 DEF Carried, ProofFor
  <2> QED
    BY <1>0, <1>1, <1>3, <2>4, <2>5, <2>6, <2>7, InventoryKept DEF InventoryTyped
<1> QED
  BY <1>4, <1>5 DEF CheckDns

\* checkFile, with the file or without.
LEMMA CheckFileKeeps ==
    ASSUME InventoryInv, NEW c \in Callers, CheckFile(c) PROVE InventoryInv'
<1>0. InventoryTyped /\ caller[c] \in Caller
  BY DEF InventoryInv, InventoryTyped
<1> DEFINE n == Head(caller[c].todo)
           r == [caller[c] EXCEPT !.pc = "update", !.method = "HTTP_FILE", !.inherit = n]
<1>1. caller[c].pc = "check" /\ UNCHANGED <<asset, host, surveyed, crossed, created, requests>>
  BY DEF CheckFile, AfterMiss
<1>2. CASE caller' = [caller EXCEPT ![c] = NoCaller] /\ UNCHANGED proved
  BY <1>0, <1>1, <1>2, RestingCaller, RequestKeeps DEF InventoryTyped
<1>3. CASE /\ caller' = [caller EXCEPT ![c].pc = "update", ![c].method = "HTTP_FILE", ![c].inherit = n]
           /\ proved' = [proved EXCEPT !.file = @ \cup {n}]
  <2>1. caller[c].todo # <<>> /\ caller[c].covered \subseteq 1..created
    BY <1>1 DEF InventoryInv, InventoryTyped, GivenOnce
  <2>2. n \in Names /\ n \in Scopes
    <3>1. caller[c].todo \in Seq(Names)
      BY <1>0 DEF Caller
    <3>2. n \in Names
      BY <2>1, <3>1
    <3> QED
      BY <3>2 DEF Scopes
  <2>3. caller' = [caller EXCEPT ![c] = r]
    BY <1>0, <1>3 DEF InventoryTyped
  <2>4. /\ proved' \in [dns : SUBSET DnsProofs, file : SUBSET Names]
        /\ proved'.file = proved.file \cup {n} /\ proved'.dns = proved.dns
    BY <1>0, <1>3, <2>2 DEF InventoryTyped
  <2>5. /\ r.pc = "update" /\ r.inherit = n /\ r.todo = caller[c].todo
        /\ r.covered = caller[c].covered /\ r.method = "HTTP_FILE" /\ r \in Caller
    <3> HIDE DEF n
    <3> QED
      BY <1>0, <2>2 DEF Caller
  <2> HIDE DEF r
  <2>6. Others(c) /\ caller'[c] = r
    BY <1>0, <2>3, <2>5, CallerWritten
  <2>7. Carried(c)'
    BY <2>4, <2>5, <2>6 DEF Carried
  <2> QED
    BY <1>0, <1>1, <2>1, <2>4, <2>5, <2>6, <2>7, InventoryKept DEF InventoryTyped
<1> QED
  BY <1>2, <1>3 DEF CheckFile

\* syncForScan: the hosts a discovery inserts hang from its asset.
LEMMA DiscoverKeeps ==
    ASSUME InventoryInv, NEW n \in Domains, NEW found \in SUBSET Hosts, Discover(n, found)
    PROVE  InventoryInv'
<1>1. /\ UNCHANGED <<asset, caller, proved, crossed, created, requests>>
      /\ host' = [h \in Hosts |-> IF h \in found /\ host[h] = NoOwner THEN asset[n].id ELSE host[h]]
      /\ surveyed' = surveyed \cup {asset[n].id}
  BY DEF Discover
<1>2. asset[n].id \in Living /\ asset[n].id # 0 /\ Living' = Living
  BY <1>1 DEF Living, Names, Discover, Exists
<1>3. NoneOutlives'
  <2>1. /\ host \in [Hosts -> Living \cup {NoOwner}]
        /\ surveyed \cup crossed \subseteq Living \ {0}
    BY DEF InventoryInv, NoneOutlives
  <2>2. host' \in [Hosts -> Living \cup {NoOwner}]
    BY <1>1, <1>2, <2>1
  <2> QED
    BY <1>1, <1>2, <2>1, <2>2 DEF NoneOutlives
<1> QED
  BY <1>1, <1>3 DEF InventoryInv, InventoryTyped, GivenOnce, Exists, ProofInv, VerifiedHasProof, Carried,
       ProofFor, CoverInv, CoveredIsVerified, Verified, OvertakenKnown, DnsScopes

------------------------------------------------------------------------------
(* The steps that write the assets.                                         *)

\* A step of a request that writes assets, ends or goes on to the next name, and gives at
\* most one new id.
LEMMA AssetsWritten ==
    ASSUME InventoryInv, NEW c \in Callers, Others(c),
           caller'[c].pc = "idle" \/ (caller'[c].pc = "read" /\ caller'[c].todo # <<>>),
           caller'[c].covered = {}, asset' \in [Names -> AssetRow],
           UNCHANGED <<host, proved, surveyed, requests>>,
           created' \in created..MaxAssets, crossed' \subseteq Living' \ {0},
           NEW n \in Names, \A m \in Names \ {n} : asset'[m].id = asset[m].id,
           \/ asset'[n].id = asset[n].id
           \/ ~Exists(n) /\ asset'[n].id = created + 1 /\ created' = created + 1,
           VerifiedHasProof', CoveredIsVerified',
           \A s \in DnsScopes' \ DnsScopes : \A d \in Callers \ {c} :
              caller[d].pc = "insert" /\ Covers(s, Head(caller[d].todo)) => caller'[d].crossed
    PROVE  InventoryInv'
<1>0. InventoryTyped /\ GivenOnce /\ NoneOutlives /\ ProofInv /\ CoverInv
  BY DEF InventoryInv
<1>1. created \in Nat /\ created' \in Nat /\ created <= created' /\ created' \in 0..MaxAssets
  BY <1>0, InventoryAssumption DEF InventoryTyped
<1>2. InventoryTyped'
  BY <1>0, <1>1 DEF InventoryTyped, Others
<1>3. ASSUME NEW m \in Names
      PROVE  /\ asset[m].id \in Nat /\ asset'[m].id \in Nat /\ asset[m].id <= created
             /\ asset'[m].id <= created'
             /\ asset'[m].id = asset[m].id \/ (m = n /\ asset[m].id = 0 /\ asset'[m].id = created + 1)
  <2>1. asset[m] \in AssetRow /\ asset'[m] \in AssetRow
    BY <1>0 DEF InventoryTyped
  <2>2. asset[m].id \in Nat /\ asset'[m].id \in Nat /\ asset[m].id <= created
    BY <1>0, <2>1, InventoryAssumption DEF GivenOnce, AssetRow
  <2>3. asset'[m].id = asset[m].id \/ (m = n /\ asset[m].id = 0 /\ asset'[m].id = created + 1
                                       /\ created' = created + 1)
    BY DEF Exists
  <2> QED
    BY <1>1, <2>2, <2>3
<1>4. GivenOnce'
  <2>1. ASSUME NEW d \in Callers PROVE caller'[d].covered \subseteq 1..created'
    <3>1. caller'[d].covered \subseteq 1..created
      BY <1>0 DEF GivenOnce, Others
    <3> QED
      BY <1>1, <3>1
  <2>2. ASSUME NEW k \in Names, NEW m \in Names, asset'[k].id # 0, asset'[k].id = asset'[m].id
        PROVE  k = m
    <3>1. CASE asset'[k].id = asset[k].id /\ asset'[m].id = asset[m].id
      BY <1>0, <2>2, <3>1 DEF GivenOnce, Exists
    <3>2. CASE asset'[k].id # asset[k].id \/ asset'[m].id # asset[m].id
      BY <1>1, <1>3, <2>2, <3>2
    <3> QED
      BY <3>1, <3>2
  <2> QED
    BY <1>3, <2>1, <2>2 DEF GivenOnce, Exists
<1>5. NoneOutlives'
  <2>1. ASSUME NEW i \in Living, i # 0 PROVE i \in Living'
    <3>1. PICK m \in Names : i = asset[m].id
      BY DEF Living
    <3>2. asset'[m].id = i
      BY <1>3, <2>1, <3>1
    <3> QED
      BY <3>2 DEF Living
  <2>2. host' \in [Hosts -> Living' \cup {NoOwner}]
    BY <1>0, <2>1 DEF NoneOutlives, NoOwner
  <2> QED
    BY <1>0, <2>1, <2>2 DEF NoneOutlives
<1>6. ASSUME NEW d \in Callers PROVE Carried(d)'
  <2>1. CASE d = c
    BY <2>1 DEF Carried
  <2>2. CASE d # c
    <3>1. Carried(d) /\ caller[d].covered \subseteq 1..created
      BY <1>0 DEF ProofInv, GivenOnce
    <3>2. ASSUME NEW m \in Names, asset'[m].id \in caller[d].covered PROVE asset[m].id = asset'[m].id
      BY <1>1, <1>3, <3>1, <3>2
    <3> QED
      BY <2>2, <3>1, <3>2 DEF Carried, Others, ProofFor
  <2> QED
    BY <2>1, <2>2
<1>7. OvertakenKnown'
  <2> SUFFICES ASSUME NEW d \in Callers, caller'[d].pc = "insert", caller'[d].inherit = None,
                      NEW s \in DnsScopes', Covers(s, Head(caller'[d].todo))
               PROVE  caller'[d].crossed
    BY DEF OvertakenKnown
  <2>1. d # c /\ caller[d].pc = "insert" /\ caller[d].inherit = None /\ caller'[d].todo = caller[d].todo
        /\ (caller[d].crossed => caller'[d].crossed)
    BY DEF Others
  <2>2. CASE s \in DnsScopes
    BY <1>0, <2>1, <2>2 DEF CoverInv, OvertakenKnown
  <2>3. CASE s \notin DnsScopes
    BY <2>1, <2>3
  <2> QED
    BY <2>2, <2>3
<1> QED
  BY <1>2, <1>4, <1>5, <1>6, <1>7 DEF InventoryInv, ProofInv, CoverInv

\* A scope handed down covers its holder and, with it, what it covered before.
LEMMA CoveredBefore ==
    ASSUME InventoryInv, NEW s \in DnsScopes, NEW m \in Domains, Exists(m), Covers(s, m)
    PROVE  Verified(m) \/ asset[m].id \in crossed
<1>1. PICK q \in Names : /\ asset[q].scope = s /\ Covers(s, q)
                         /\ asset[q].method \in {"DNS_TXT", "INHERITED"}
  BY ScopesAreProved DEF InventoryInv, ProofInv
<1>2. q \in Domains
  BY <1>1 DEF Covers
<1> QED
  BY <1>1, <1>2 DEF InventoryInv, CoverInv, CoveredIsVerified

\* Where a request is after an insertion.
LEMMA InsertGoesOn ==
    ASSUME InventoryInv, NEW c \in Callers, Insert(c)
    PROVE  LET n == Head(caller[c].todo)
               scope == caller[c].inherit IN
           /\ n \in Names /\ scope \in Scopes /\ caller[c].pc = "insert"
           /\ Others(c) /\ caller'[c].covered = {}
           /\ caller'[c].pc = "idle" \/ (caller'[c].pc = "read" /\ caller'[c].todo # <<>>)
           /\ ~Exists(n) /\ scope # None /\ scope \notin DnsScopes =>
                \A d \in Callers \ {c} :
                  caller[d].pc = "insert" /\ Covers(scope, Head(caller[d].todo)) => caller'[d].crossed
<1> DEFINE n == Head(caller[c].todo)
           rest == Tail(caller[c].todo)
           scope == caller[c].inherit
           stale1 == ~Exists(n) /\ scope # None /\ scope \notin DnsScopes
           r == IF rest = <<>> THEN NoCaller ELSE [NoCaller EXCEPT !.pc = "read", !.todo = rest]
<1>0. InventoryTyped /\ caller[c] \in Caller
  BY DEF InventoryInv, InventoryTyped
<1>1. /\ caller[c].pc = "insert"
      /\ caller' = [(IF stale1 THEN Overtaken(scope) ELSE caller) EXCEPT ![c] = r]
  BY DEF Insert
<1>2. caller[c].todo \in Seq(Names) /\ caller[c].todo # <<>> /\ scope \in Scopes
  BY <1>0, <1>1 DEF InventoryTyped, Caller
<1>3. n \in Names /\ rest \in Seq(Names)
  BY <1>2
<1> HIDE DEF n, rest, stale1
<1>4. /\ r \in Caller /\ r.covered = {}
      /\ r.pc = "idle" \/ (r.pc = "read" /\ r.todo # <<>>)
  BY <1>3, RestingCaller DEF Caller
<1> HIDE DEF r, scope
<1>5. CASE stale1
  <2>1. caller' = [Overtaken(scope) EXCEPT ![c] = r]
    BY <1>1, <1>5
  <2>2. /\ Others(c) /\ caller'[c] = r
        /\ \A d \in Callers \ {c} :
             caller[d].pc = "insert" /\ Covers(scope, Head(caller[d].todo)) => caller'[d].crossed
    BY <1>0, <1>4, <2>1, OvertakenEffect
  <2> QED
    BY <1>1, <1>2, <1>3, <1>4, <2>2 DEF n, scope
<1>6. CASE ~stale1
  <2>1. Others(c) /\ caller'[c] = r
    BY <1>0, <1>1, <1>4, <1>6, CallerWritten
  <2> QED
    BY <1>1, <1>2, <1>3, <1>4, <1>6, <2>1 DEF n, scope, stale1
<1> QED
  BY <1>5, <1>6

\* create, once the inheritance was read.
LEMMA InsertKeeps ==
    ASSUME InventoryInv, NEW c \in Callers, Insert(c) PROVE InventoryInv'
<1> DEFINE n == Head(caller[c].todo)
           scope == caller[c].inherit
           stale1 == ~Exists(n) /\ scope # None /\ scope \notin DnsScopes
           new == [id |-> created + 1, scope |-> scope,
                   method |-> IF scope = None THEN "none" ELSE "INHERITED"]
<1>0. InventoryTyped /\ GivenOnce /\ NoneOutlives /\ ProofInv /\ CoverInv
  BY DEF InventoryInv
<1>1. /\ n \in Names /\ scope \in Scopes /\ caller[c].pc = "insert"
      /\ Others(c) /\ caller'[c].covered = {}
      /\ caller'[c].pc = "idle" \/ (caller'[c].pc = "read" /\ caller'[c].todo # <<>>)
      /\ stale1 => \A d \in Callers \ {c} :
            caller[d].pc = "insert" /\ Covers(scope, Head(caller[d].todo)) => caller'[d].crossed
  BY InsertGoesOn
<1>2. UNCHANGED <<host, proved, surveyed, requests>>
  BY DEF Insert
<1>3. CASE Exists(n) \/ created = MaxAssets
  <2>1. UNCHANGED <<asset, crossed, created>>
    BY <1>3 DEF Insert
  <2>2. Carried(c)'
    BY <1>1 DEF Carried
  <2>3. caller'[c].pc # "insert" /\ (caller'[c].pc # "idle" => caller'[c].todo # <<>>)
    BY <1>1
  <2>4. caller'[c].covered \subseteq 1..created
    BY <1>1
  <2>5. requests' \in 0..MaxRequests /\ proved' \in [dns : SUBSET DnsProofs, file : SUBSET Names]
        /\ proved' = proved
    BY <1>0, <1>2 DEF InventoryTyped
  <2>6. proved.dns \subseteq proved'.dns /\ proved.file \subseteq proved'.file
    BY <2>5
  <2> HIDE DEF n, scope, stale1
  <2> QED
    BY <1>1, <1>2, <2>1, <2>2, <2>3, <2>4, <2>5, <2>6, InventoryKept
<1>4. CASE ~(Exists(n) \/ created = MaxAssets)
  <2>1. /\ created' = created + 1 /\ asset' = [asset EXCEPT ![n] = new]
        /\ crossed' = crossed
               \cup (IF caller[c].crossed THEN {created + 1} ELSE {})
               \cup (IF stale1 THEN {asset[m].id : m \in Uncovered(scope)} ELSE {})
    BY <1>4 DEF Insert
  <2>2. created \in Nat /\ created + 1 \in 1..MaxAssets /\ created' \in created..MaxAssets
    BY <1>0, <1>4, <2>1, InventoryAssumption DEF InventoryTyped
  <2>3. scope = None \/ ProofFor(n, scope)
    BY <1>0, <1>1 DEF ProofInv, Carried
  <2>4. scope = None => \A s \in DnsScopes : Covers(s, n) => caller[c].crossed
    BY <1>0, <1>1 DEF CoverInv, OvertakenKnown
  <2> HIDE DEF n, scope
  <2>5. /\ new \in AssetRow /\ new.id = created + 1 /\ new.scope = scope
        /\ scope = None => new.method = "none"
        /\ scope # None => new.method = "INHERITED"
    BY <1>1, <2>2 DEF AssetRow
  <2> HIDE DEF new
  <2>6. /\ asset' \in [Names -> AssetRow] /\ asset'[n] = new
        /\ \A m \in Names \ {n} : asset'[m] = asset[m]
    BY <1>0, <1>1, <2>1, <2>5 DEF InventoryTyped
  <2>7. VerifiedHasProof'
    <3> SUFFICES ASSUME NEW m \in Names
                 PROVE CASE asset'[m].method = "none" -> asset'[m].scope = None
                         [] asset'[m].method = "HTTP_FILE" -> asset'[m].scope = m /\ m \in proved.file
                         [] OTHER -> asset'[m].scope \in proved.dns /\ Covers(asset'[m].scope, m)
      BY <1>2 DEF VerifiedHasProof
    <3>1. CASE m = n /\ scope = None
      BY <2>5, <2>6, <3>1
    <3>2. CASE m = n /\ scope # None
      BY <2>3, <2>5, <2>6, <3>2 DEF ProofFor
    <3>3. CASE m # n
      BY <1>0, <2>6, <3>3 DEF ProofInv, VerifiedHasProof
    <3> QED
      BY <3>1, <3>2, <3>3
  <2>8. ASSUME NEW s \in DnsScopes' PROVE s \in DnsScopes \/ (s = scope /\ scope # None)
    <3>1. PICK k \in Names : asset'[k].scope = s /\ asset'[k].method \in {"DNS_TXT", "INHERITED"}
      BY DEF DnsScopes
    <3>2. CASE k = n
      BY <2>5, <2>6, <3>1, <3>2
    <3>3. CASE k # n
      BY <2>6, <3>1, <3>3 DEF DnsScopes
    <3> QED
      BY <3>2, <3>3
  <2>9. \A s \in DnsScopes' \ DnsScopes : \A d \in Callers \ {c} :
           caller[d].pc = "insert" /\ Covers(s, Head(caller[d].todo)) => caller'[d].crossed
    BY <1>1, <1>4, <2>8
  <2>10. CoveredIsVerified'
    <3> SUFFICES ASSUME NEW k \in Domains, NEW m \in Domains, Exists(m)', Covers(asset'[k].scope, m),
                        asset'[k].method \in {"DNS_TXT", "INHERITED"}
                 PROVE  Verified(m)' \/ asset'[m].id \in crossed'
      BY DEF CoveredIsVerified
    <3>1. k \in Names /\ m \in Names
      BY DEF Names
    <3>2. CASE m = n /\ scope # None
      BY <2>5, <2>6, <3>2 DEF Verified
    <3>3. CASE m = n /\ scope = None
      <4>1. k # n
        BY <2>5, <2>6, <3>3
      <4>2. asset[k].scope \in DnsScopes /\ Covers(asset[k].scope, n)
        BY <2>6, <3>1, <3>3, <4>1 DEF DnsScopes
      <4>3. caller[c].crossed
        BY <2>4, <3>3, <4>2
      <4> QED
        BY <2>1, <2>5, <2>6, <3>3, <4>3
    <3>4. CASE m # n /\ asset'[k].scope \in DnsScopes
      <4>1. Exists(m) /\ asset'[m] = asset[m]
        BY <2>6, <3>1, <3>4 DEF Exists
      <4>2. Verified(m) \/ asset[m].id \in crossed
        BY <3>4, <4>1, CoveredBefore
      <4> QED
        BY <2>1, <4>1, <4>2 DEF Verified
    <3>5. CASE m # n /\ asset'[k].scope \notin DnsScopes
      <4>1. asset'[k].scope \in DnsScopes'
        BY <3>1 DEF DnsScopes
      <4>2. asset'[k].scope = scope /\ stale1
        BY <1>4, <2>8, <3>5, <4>1
      <4>3. Exists(m) /\ asset'[m] = asset[m]
        BY <2>6, <3>1, <3>5 DEF Exists
      <4>4. Verified(m) \/ m \in Uncovered(scope)
        BY <4>2, <4>3 DEF Uncovered
      <4> QED
        BY <2>1, <4>2, <4>3, <4>4 DEF Verified
    <3> QED
      BY <3>2, <3>3, <3>4, <3>5
  <2>11. crossed' \subseteq Living' \ {0}
    <3>1. ASSUME NEW i \in crossed PROVE i \in Living' \ {0}
      <4>1. i \in Living /\ i # 0
        BY <1>0 DEF NoneOutlives
      <4>2. PICK m \in Names : asset[m].id = i
        BY <4>1 DEF Living
      <4>3. m # n
        BY <1>4, <4>1, <4>2 DEF Exists
      <4>4. asset'[m].id = i
        BY <2>6, <4>2, <4>3
      <4> QED
        BY <4>1, <4>4 DEF Living
    <3>2. created + 1 \in Living' \ {0}
      <4>1. asset'[n].id = created + 1
        BY <2>5, <2>6
      <4> QED
        BY <1>1, <2>2, <4>1 DEF Living
    <3>3. ASSUME NEW m \in Uncovered(scope) PROVE asset[m].id \in Living' \ {0}
      <4>1. m \in Names /\ m # n /\ asset[m].id # 0
        BY <1>4 DEF Uncovered, Names, Exists
      <4>2. asset'[m].id = asset[m].id
        BY <2>6, <4>1
      <4> QED
        BY <4>1, <4>2 DEF Living
    <3> QED
      BY <2>1, <3>1, <3>2, <3>3
  <2>12. /\ \A m \in Names \ {n} : asset'[m].id = asset[m].id
         /\ ~Exists(n) /\ asset'[n].id = created + 1 /\ created' = created + 1
    BY <1>4, <2>1, <2>5, <2>6
  <2> HIDE DEF stale1
  <2> QED
    BY <1>1, <1>2, <2>2, <2>6, <2>7, <2>9, <2>10, <2>11, <2>12, AssetsWritten
<1> QED
  BY <1>3, <1>4

\* A verification with its proof: a file verifies the asset, a record finds what it covers.
LEMMA UpdateVerifiedKeeps ==
    ASSUME InventoryInv, NEW c \in Callers, UpdateVerified(c) PROVE InventoryInv'
<1> DEFINE n == Head(caller[c].todo)
           here == asset[n].id = caller[c].id
           scope == caller[c].inherit
<1>0. InventoryTyped /\ GivenOnce /\ NoneOutlives /\ ProofInv /\ CoverInv /\ caller[c] \in Caller
  BY DEF InventoryInv, InventoryTyped
<1>1. caller[c].pc = "update" /\ UNCHANGED <<host, proved, surveyed, crossed, created, requests>>
  BY DEF UpdateVerified
<1>2. /\ caller[c].todo # <<>> /\ n \in Names
      /\ IF caller[c].method = "DNS_TXT" THEN ProofFor(n, scope) ELSE scope = n /\ n \in proved.file
  <2>1. caller[c].todo # <<>> /\ caller[c].todo \in Seq(Names)
    BY <1>0, <1>1 DEF InventoryTyped, Caller
  <2> QED
    BY <1>0, <1>1, <2>1 DEF ProofInv, Carried
<1>3. \A m \in Names : asset[m] \in AssetRow
  BY <1>0 DEF InventoryTyped
<1>4. CASE here /\ caller[c].method = "DNS_TXT"
  <2> DEFINE ids == {asset[m].id : m \in Uncovered(scope) \ {n}}
             r == [caller[c] EXCEPT !.pc = "propagate", !.covered = ids]
  <2>1. caller' = [caller EXCEPT ![c] = r] /\ UNCHANGED asset
    BY <1>0, <1>4 DEF UpdateVerified, InventoryTyped
  <2>2. ids \subseteq 1..created
    <3> SUFFICES ASSUME NEW m \in Uncovered(scope) PROVE asset[m].id \in 1..created
      OBVIOUS
    <3>1. m \in Names /\ asset[m].id # 0
      BY DEF Uncovered, Exists, Names
    <3>2. asset[m].id \in Nat /\ created \in Nat /\ asset[m].id <= created
      BY <1>0, <1>3, <3>1, InventoryAssumption DEF GivenOnce, AssetRow, InventoryTyped
    <3> QED
      BY <3>1, <3>2
  <2>3. ids \in SUBSET (1..MaxAssets)
    BY <1>0, <2>2, InventoryAssumption DEF InventoryTyped
  <2>4. ASSUME NEW m \in Names, asset[m].id \in ids PROVE Covers(scope, m)
    <3>1. PICK k \in Uncovered(scope) : asset[k].id = asset[m].id
      BY <2>4
    <3>2. k \in Names /\ Exists(k) /\ Covers(scope, k)
      BY DEF Uncovered, Names
    <3>3. k = m
      BY <1>0, <3>1, <3>2 DEF GivenOnce
    <3> QED
      BY <3>2, <3>3
  <2> HIDE DEF ids, n, here
  <2>5. /\ r \in Caller /\ r.pc = "propagate" /\ r.todo = caller[c].todo /\ r.covered = ids
        /\ r.inherit = scope
    BY <1>0, <2>3 DEF Caller
  <2> HIDE DEF r, scope
  <2>6. Others(c) /\ caller'[c] = r
    BY <1>0, <2>1, <2>5, CallerWritten
  <2>7. Carried(c)'
    <3>1. ProofFor(Head(r.todo), r.inherit)
      BY <1>2, <1>4, <2>5 DEF n
    <3>2. \A m \in Names : asset'[m].id \in r.covered => Covers(r.inherit, m)
      BY <2>1, <2>4, <2>5
    <3> QED
      BY <1>1, <2>5, <2>6, <3>1, <3>2 DEF Carried, ProofFor
  <2> QED
    BY <1>0, <1>1, <1>2, <2>1, <2>2, <2>5, <2>6, <2>7, InventoryKept DEF InventoryTyped
<1>5. CASE ~here
  <2>1. caller' = [caller EXCEPT ![c] = NoCaller] /\ UNCHANGED asset
    BY <1>5 DEF UpdateVerified
  <2> QED
    BY <1>0, <1>1, <2>1, RestingCaller, RequestKeeps DEF InventoryTyped
<1>6. CASE here /\ caller[c].method # "DNS_TXT"
  <2> DEFINE new == [asset[n] EXCEPT !.method = "HTTP_FILE", !.scope = n]
  <2>1. caller' = [caller EXCEPT ![c] = NoCaller] /\ scope = n /\ n \in proved.file
    BY <1>2, <1>6 DEF UpdateVerified
  <2>2. asset' = [asset EXCEPT ![n] = new]
    <3>1. asset' = [asset EXCEPT ![n].method = "HTTP_FILE", ![n].scope = scope]
      BY <1>6 DEF UpdateVerified
    <3> HIDE DEF n
    <3> QED
      BY <1>0, <1>2, <2>1, <3>1 DEF InventoryTyped
  <2> HIDE DEF n, scope, here
  <2>3. new \in AssetRow /\ new.method = "HTTP_FILE" /\ new.scope = n /\ new.id = asset[n].id
    BY <1>2, <1>3 DEF AssetRow, Scopes
  <2> HIDE DEF new
  <2>4. /\ asset' \in [Names -> AssetRow] /\ asset'[n] = new
        /\ \A m \in Names \ {n} : asset'[m] = asset[m]
    BY <1>0, <1>2, <2>2, <2>3 DEF InventoryTyped
  <2>5. \A m \in Names : asset'[m].id = asset[m].id
    BY <2>3, <2>4
  <2>6. VerifiedHasProof'
    <3> SUFFICES ASSUME NEW m \in Names
                 PROVE CASE asset'[m].method = "none" -> asset'[m].scope = None
                         [] asset'[m].method = "HTTP_FILE" -> asset'[m].scope = m /\ m \in proved.file
                         [] OTHER -> asset'[m].scope \in proved.dns /\ Covers(asset'[m].scope, m)
      BY <1>1 DEF VerifiedHasProof
    <3>1. CASE m = n
      BY <2>1, <2>3, <2>4, <3>1
    <3>2. CASE m # n
      BY <1>0, <2>4, <3>2 DEF ProofInv, VerifiedHasProof
    <3> QED
      BY <3>1, <3>2
  <2>7. DnsScopes' \subseteq DnsScopes
    BY <2>3, <2>4 DEF DnsScopes
  <2>8. CoveredIsVerified'
    <3> SUFFICES ASSUME NEW k \in Domains, NEW m \in Domains, Exists(m)', Covers(asset'[k].scope, m),
                        asset'[k].method \in {"DNS_TXT", "INHERITED"}
                 PROVE  Verified(m)' \/ asset'[m].id \in crossed'
      BY DEF CoveredIsVerified
    <3>1. k \in Names /\ m \in Names
      BY DEF Names
    <3>2. k # n /\ asset'[k] = asset[k] /\ Exists(m)
      BY <2>3, <2>4, <2>5, <3>1 DEF Exists
    <3>3. Verified(m) \/ asset[m].id \in crossed
      BY <1>0, <3>2 DEF CoverInv, CoveredIsVerified
    <3>4. Verified(m) => Verified(m)'
      BY <2>3, <2>4, <3>1 DEF Verified
    <3> QED
      BY <1>1, <2>5, <3>1, <3>3, <3>4
  <2>9. crossed' \subseteq Living' \ {0}
    BY <1>0, <1>1, <2>5 DEF NoneOutlives, Living
  <2>10. Others(c) /\ caller'[c] = NoCaller
    BY <1>0, <2>1, RestingCaller, CallerWritten
  <2>11. created' \in created..MaxAssets
    BY <1>0, <1>1, InventoryAssumption DEF InventoryTyped
  <2> QED
    BY <1>1, <1>2, <2>4, <2>5, <2>6, <2>7, <2>8, <2>9, <2>10, <2>11, RestingCaller, AssetsWritten
<1> QED
  BY <1>4, <1>5, <1>6

\* The rows a verification by the DNS writes when it commits.
LEMMA PropagateEffect ==
    ASSUME InventoryInv, NEW c \in Callers, Propagate(c)
    PROVE  LET n == Head(caller[c].todo)
               scope == caller[c].inherit IN
           /\ n \in Names /\ asset' \in [Names -> AssetRow]
           /\ \A m \in Names :
                /\ asset'[m].id = asset[m].id
                /\ \/ asset'[m] = asset[m] /\ m # n /\ m \notin Pending(c)
                   \/ /\ asset'[m].method \in {"DNS_TXT", "INHERITED"} /\ asset'[m].scope = scope
                      /\ ProofFor(m, scope)
<1> DEFINE n == Head(caller[c].todo)
           scope == caller[c].inherit
<1>0. InventoryTyped /\ ProofInv /\ caller[c] \in Caller /\ caller[c].pc = "propagate"
  BY DEF InventoryInv, InventoryTyped, Propagate
<1>1. n \in Names /\ scope \in Scopes
  <2>1. caller[c].todo # <<>> /\ caller[c].todo \in Seq(Names)
    BY <1>0 DEF InventoryTyped, Caller
  <2> QED
    BY <1>0, <2>1 DEF Caller
<1>2. /\ ProofFor(n, scope)
      /\ \A m \in Names : asset[m].id \in caller[c].covered => Covers(scope, m)
  BY <1>0 DEF ProofInv, Carried
<1>3. \A m \in Pending(c) : m \in Names /\ ProofFor(m, scope)
  BY <1>2 DEF Pending, ProofFor, Names
<1>4. asset' = [m \in Names |-> VerifiedBy(c, m)]
  BY DEF Propagate
<1>5. ASSUME NEW m \in Names
      PROVE  VerifiedBy(c, m) = IF m = n THEN [asset[m] EXCEPT !.method = "DNS_TXT", !.scope = scope]
                                ELSE IF m \in Pending(c)
                                THEN [asset[m] EXCEPT !.method = "INHERITED", !.scope = scope]
                                ELSE asset[m]
  BY DEF VerifiedBy
<1>6. ASSUME NEW m \in Names, NEW method \in {"DNS_TXT", "INHERITED"}
      PROVE  LET new == [asset[m] EXCEPT !.method = method, !.scope = scope] IN
             /\ new \in AssetRow /\ new.id = asset[m].id /\ new.method = method /\ new.scope = scope
  <2>1. asset[m] \in AssetRow
    BY <1>0 DEF InventoryTyped
  <2> HIDE DEF scope
  <2> QED
    BY <1>1, <2>1 DEF AssetRow
<1> HIDE DEF n, scope
<1>7. ASSUME NEW m \in Names
      PROVE  /\ VerifiedBy(c, m) \in AssetRow /\ VerifiedBy(c, m).id = asset[m].id
             /\ \/ VerifiedBy(c, m) = asset[m] /\ m # n /\ m \notin Pending(c)
                \/ /\ VerifiedBy(c, m).method \in {"DNS_TXT", "INHERITED"}
                   /\ VerifiedBy(c, m).scope = scope /\ ProofFor(m, scope)
  <2>1. asset[m] \in AssetRow
    BY <1>0 DEF InventoryTyped
  <2>2. CASE m = n
    BY <1>2, <1>5, <1>6, <2>2
  <2>3. CASE m # n /\ m \in Pending(c)
    BY <1>3, <1>5, <1>6, <2>3
  <2>4. CASE m # n /\ m \notin Pending(c)
    BY <1>5, <2>1, <2>4
  <2> QED
    BY <2>2, <2>3, <2>4
<1>8. asset' \in [Names -> AssetRow] /\ \A m \in Names : asset'[m] = VerifiedBy(c, m)
  BY <1>4, <1>7
<1> QED
  BY <1>1, <1>7, <1>8 DEF n, scope

\* A verification by the DNS commits.
LEMMA PropagateKeeps ==
    ASSUME InventoryInv, NEW c \in Callers, Propagate(c) PROVE InventoryInv'
<1> DEFINE n == Head(caller[c].todo)
           scope == caller[c].inherit
<1>0. InventoryTyped /\ NoneOutlives /\ ProofInv /\ CoverInv
  BY DEF InventoryInv
<1>1. /\ n \in Names /\ asset' \in [Names -> AssetRow]
      /\ \A m \in Names :
           /\ asset'[m].id = asset[m].id
           /\ \/ asset'[m] = asset[m] /\ m # n /\ m \notin Pending(c)
              \/ /\ asset'[m].method \in {"DNS_TXT", "INHERITED"} /\ asset'[m].scope = scope
                 /\ ProofFor(m, scope)
  BY PropagateEffect
<1>2. /\ caller' = [Overtaken(scope) EXCEPT ![c] = NoCaller]
      /\ crossed' = crossed \cup {asset[m].id : m \in {k \in Uncovered(scope) :
                          asset[k].id \notin caller[c].covered /\ k # n}}
      /\ UNCHANGED <<host, proved, surveyed, created, requests>>
  BY DEF Propagate
<1> HIDE DEF n, scope
<1>3. /\ Others(c) /\ caller'[c] = NoCaller
      /\ \A d \in Callers \ {c} :
           caller[d].pc = "insert" /\ Covers(scope, Head(caller[d].todo)) => caller'[d].crossed
  BY <1>0, <1>2, RestingCaller, OvertakenEffect
<1>4. VerifiedHasProof'
  <2> SUFFICES ASSUME NEW m \in Names
               PROVE CASE asset'[m].method = "none" -> asset'[m].scope = None
                       [] asset'[m].method = "HTTP_FILE" -> asset'[m].scope = m /\ m \in proved.file
                       [] OTHER -> asset'[m].scope \in proved.dns /\ Covers(asset'[m].scope, m)
    BY <1>2 DEF VerifiedHasProof
  <2>1. CASE asset'[m] = asset[m]
    BY <1>0, <2>1 DEF ProofInv, VerifiedHasProof
  <2>2. CASE asset'[m] # asset[m]
    BY <1>1, <2>2 DEF ProofFor
  <2> QED
    BY <2>1, <2>2
<1>5. DnsScopes' \subseteq DnsScopes \cup {scope}
  <2> SUFFICES ASSUME NEW k \in Names, asset'[k].method \in {"DNS_TXT", "INHERITED"},
                      asset'[k].scope # scope
               PROVE  asset'[k].scope \in DnsScopes
    BY DEF DnsScopes
  <2>1. asset'[k] = asset[k]
    BY <1>1
  <2> QED
    BY <2>1 DEF DnsScopes
<1>6. CoveredIsVerified'
  <2> SUFFICES ASSUME NEW k \in Domains, NEW m \in Domains, Exists(m)', Covers(asset'[k].scope, m),
                      asset'[k].method \in {"DNS_TXT", "INHERITED"}, ~Verified(m)'
               PROVE  asset'[m].id \in crossed'
    BY DEF CoveredIsVerified
  <2>1. k \in Names /\ m \in Names
    BY DEF Names
  <2>2. asset'[m] = asset[m] /\ m # n /\ m \notin Pending(c)
    BY <1>1, <2>1 DEF Verified
  <2>3. Exists(m) /\ ~Verified(m)
    BY <2>2 DEF Exists, Verified
  <2>4. CASE asset'[k].scope = scope
    <3>1. m \in Uncovered(scope) /\ asset[m].id \notin caller[c].covered
      BY <2>2, <2>3, <2>4 DEF Uncovered, Pending
    <3> QED
      BY <1>2, <2>2, <3>1
  <2>5. CASE asset'[k].scope # scope
    <3>1. asset'[k].scope \in DnsScopes
      BY <1>1, <2>1, <2>5 DEF DnsScopes
    <3>2. asset[m].id \in crossed
      BY <2>3, <3>1, CoveredBefore
    <3> QED
      BY <1>2, <2>2, <3>2
  <2> QED
    BY <2>4, <2>5
<1>7. Living' = Living
  BY <1>1 DEF Living
<1>8. crossed' \subseteq Living' \ {0}
  <2>1. \A m \in Uncovered(scope) : asset[m].id \in Living \ {0}
    BY DEF Uncovered, Living, Names, Exists
  <2> QED
    BY <1>0, <1>2, <1>7, <2>1 DEF NoneOutlives
<1>9. created' \in created..MaxAssets
  BY <1>0, <1>2, InventoryAssumption DEF InventoryTyped
<1>10. \A s \in DnsScopes' \ DnsScopes : \A d \in Callers \ {c} :
           caller[d].pc = "insert" /\ Covers(s, Head(caller[d].todo)) => caller'[d].crossed
  BY <1>3, <1>5
<1> QED
  BY <1>1, <1>2, <1>3, <1>4, <1>6, <1>8, <1>9, <1>10, RestingCaller, AssetsWritten

\* remove.
LEMMA RemoveAssetKeeps ==
    ASSUME InventoryInv, NEW n \in Names, RemoveAsset(n) PROVE InventoryInv'
<1>0. InventoryTyped /\ GivenOnce /\ NoneOutlives /\ ProofInv /\ CoverInv
  BY DEF InventoryInv
<1>1. /\ Exists(n) /\ asset' = [asset EXCEPT ![n] = NoAsset]
      /\ host' = [h \in Hosts |-> IF h \in DiscoveredBy(n) THEN NoOwner ELSE host[h]]
      /\ surveyed' = surveyed \ {asset[n].id} /\ crossed' = crossed \ {asset[n].id}
      /\ UNCHANGED <<caller, proved, created, requests>>
  BY DEF RemoveAsset
<1>2. NoAsset \in AssetRow /\ NoAsset.id = 0 /\ NoAsset.method = "none" /\ NoAsset.scope = None
  BY InventoryAssumption DEF NoAsset, AssetRow, Scopes
<1>3. /\ asset' \in [Names -> AssetRow] /\ asset'[n] = NoAsset
      /\ \A m \in Names \ {n} : asset'[m] = asset[m]
  BY <1>0, <1>1, <1>2 DEF InventoryTyped
<1>4. InventoryTyped'
  BY <1>0, <1>1, <1>3 DEF InventoryTyped
<1>5. created \in Nat
  BY <1>0 DEF InventoryTyped
<1>6. GivenOnce'
  <2>1. \A m \in Names : asset'[m].id <= created
    BY <1>0, <1>2, <1>3, <1>5 DEF GivenOnce
  <2>2. ASSUME NEW k \in Names, NEW m \in Names, asset'[k].id # 0, asset'[k].id = asset'[m].id
        PROVE  k = m
    BY <1>0, <1>2, <1>3, <2>2 DEF GivenOnce, Exists
  <2> QED
    BY <1>0, <1>1, <2>1, <2>2 DEF GivenOnce, Exists
<1>7. ASSUME NEW i \in Living \ {asset[n].id} PROVE i \in Living'
  <2>1. PICK m \in Names : asset[m].id = i
    BY DEF Living
  <2>2. m # n /\ asset'[m].id = i
    BY <1>3, <2>1
  <2> QED
    BY <2>2 DEF Living
<1>8. NoneOutlives'
  <2>1. host' \in [Hosts -> Living' \cup {NoOwner}]
    BY <1>0, <1>1, <1>7 DEF NoneOutlives, DiscoveredBy
  <2> QED
    BY <1>0, <1>1, <1>7, <2>1 DEF NoneOutlives
<1>9. VerifiedHasProof'
  <2> SUFFICES ASSUME NEW m \in Names
               PROVE CASE asset'[m].method = "none" -> asset'[m].scope = None
                       [] asset'[m].method = "HTTP_FILE" -> asset'[m].scope = m /\ m \in proved.file
                       [] OTHER -> asset'[m].scope \in proved.dns /\ Covers(asset'[m].scope, m)
    BY <1>1 DEF VerifiedHasProof
  <2>1. CASE m = n
    BY <1>2, <1>3, <2>1
  <2>2. CASE m # n
    BY <1>0, <1>3, <2>2 DEF ProofInv, VerifiedHasProof
  <2> QED
    BY <2>1, <2>2
<1>10. ASSUME NEW d \in Callers PROVE Carried(d)'
  <2>1. Carried(d) /\ caller[d].covered \subseteq 1..created
    BY <1>0 DEF ProofInv, GivenOnce
  <2>2. ASSUME NEW m \in Names, asset'[m].id \in caller[d].covered PROVE asset[m].id = asset'[m].id
    BY <1>2, <1>3, <1>5, <2>1, <2>2
  <2> QED
    BY <1>1, <2>1, <2>2 DEF Carried, ProofFor
<1>11. DnsScopes' \subseteq DnsScopes
  BY <1>2, <1>3 DEF DnsScopes
<1>12. OvertakenKnown'
  BY <1>0, <1>1, <1>11 DEF CoverInv, OvertakenKnown
<1>13. CoveredIsVerified'
  <2> SUFFICES ASSUME NEW k \in Domains, NEW m \in Domains, Exists(m)', Covers(asset'[k].scope, m),
                      asset'[k].method \in {"DNS_TXT", "INHERITED"}
               PROVE  Verified(m)' \/ asset'[m].id \in crossed'
    BY DEF CoveredIsVerified
  <2>1. k \in Names /\ m \in Names
    BY DEF Names
  <2>2. k # n /\ m # n /\ asset'[k] = asset[k] /\ asset'[m] = asset[m]
    BY <1>2, <1>3, <2>1 DEF Exists
  <2>3. Exists(m)
    BY <2>2 DEF Exists
  <2>4. Verified(m) \/ asset[m].id \in crossed
    BY <1>0, <2>2, <2>3 DEF CoverInv, CoveredIsVerified
  <2>5. asset[m].id # asset[n].id
    BY <1>0, <1>1, <2>1, <2>2 DEF GivenOnce
  <2> QED
    BY <1>1, <2>2, <2>4, <2>5 DEF Verified
<1> QED
  BY <1>4, <1>6, <1>8, <1>9, <1>10, <1>12, <1>13 DEF InventoryInv, ProofInv, CoverInv

\* The inductive invariant of the inventory holds in every state.
LEMMA InventoryInvariant == InventorySpec => []InventoryInv
<1>1. InventoryInit => InventoryInv
  <2> SUFFICES ASSUME InventoryInit PROVE InventoryInv
    OBVIOUS
  <2>1. /\ NoAsset \in AssetRow /\ NoAsset.id = 0 /\ NoAsset.method = "none" /\ NoAsset.scope = None
    BY InventoryAssumption DEF NoAsset, AssetRow, Scopes
  <2>2. \A n \in Names : asset[n] = NoAsset
    BY DEF InventoryInit
  <2>3. \A c \in Callers : caller[c] = NoCaller
    BY DEF InventoryInit
  <2>4. InventoryTyped
    BY <2>1, RestingCaller, InventoryAssumption DEF InventoryInit, InventoryTyped
  <2>5. GivenOnce
    BY <2>1, <2>2, <2>3, RestingCaller DEF InventoryInit, GivenOnce, Exists
  <2>6. NoneOutlives
    BY DEF InventoryInit, NoneOutlives
  <2>7. ProofInv
    BY <2>1, <2>2, <2>3, RestingCaller DEF ProofInv, VerifiedHasProof, Carried
  <2>8. CoverInv
    BY <2>1, <2>2, <2>3, RestingCaller DEF CoverInv, CoveredIsVerified, OvertakenKnown, Exists, Names
  <2> QED
    BY <2>4, <2>5, <2>6, <2>7, <2>8 DEF InventoryInv
<1>2. InventoryInv /\ [InventoryNext]_inventoryVars => InventoryInv'
  <2> SUFFICES ASSUME InventoryInv, [InventoryNext]_inventoryVars PROVE InventoryInv'
    OBVIOUS
  <2>1. ASSUME NEW c \in Callers, NEW n \in Names, Create(c, n) PROVE InventoryInv'
    BY <2>1, CreateKeeps
  <2>2. ASSUME NEW c \in Callers, NEW hosts \in SUBSET Hosts, Import(c, hosts) PROVE InventoryInv'
    BY <2>2, ImportKeeps
  <2>3. ASSUME NEW c \in Callers, ReadInherited(c) \/ Insert(c) PROVE InventoryInv'
    BY <2>3, ReadInheritedKeeps, InsertKeeps
  <2>4. ASSUME NEW c \in Callers, NEW n \in Names, NEW method \in Methods, BeginVerify(c, n, method)
        PROVE  InventoryInv'
    BY <2>4, BeginVerifyKeeps
  <2>5. ASSUME NEW c \in Callers,
               CheckDns(c) \/ CheckFile(c) \/ UpdateVerified(c) \/ Propagate(c)
        PROVE  InventoryInv'
    BY <2>5, CheckDnsKeeps, CheckFileKeeps, UpdateVerifiedKeeps, PropagateKeeps
  <2>6. ASSUME NEW c \in Callers, DeadlockVictim(c) PROVE InventoryInv'
    <3>1. /\ caller' = [caller EXCEPT ![c] = NoCaller]
          /\ UNCHANGED <<asset, host, proved, surveyed, crossed, created, requests>>
      BY <2>6 DEF DeadlockVictim
    <3> QED
      BY <3>1, RestingCaller, RequestKeeps DEF InventoryInv, InventoryTyped
  <2>7. ASSUME NEW n \in Names, RemoveAsset(n) PROVE InventoryInv'
    BY <2>7, RemoveAssetKeeps
  <2>8. ASSUME NEW n \in Domains, NEW found \in SUBSET Hosts, Discover(n, found) PROVE InventoryInv'
    BY <2>8, DiscoverKeeps
  <2>9. CASE UNCHANGED inventoryVars
    BY <2>9 DEF inventoryVars, InventoryInv, InventoryTyped, GivenOnce, Exists, NoneOutlives, Living,
         ProofInv, VerifiedHasProof, Carried, ProofFor, CoverInv, CoveredIsVerified, Verified,
         OvertakenKnown, DnsScopes
  <2> QED
    BY <2>1, <2>2, <2>3, <2>4, <2>5, <2>6, <2>7, <2>8, <2>9 DEF InventoryNext
<1> QED
  BY <1>1, <1>2, PTL DEF InventorySpec

\* Every variable of the inventory keeps its type, and nothing discovered outlives the asset
\* it hangs from.
THEOREM InventoryTypeCorrect == InventorySpec => []InventoryTypeOK
<1>1. InventoryInv => InventoryTypeOK
  <2> SUFFICES ASSUME InventoryInv PROVE InventoryTypeOK
    OBVIOUS
  <2>1. \A c \in Callers :
          /\ caller[c].pc \in {"idle", "read", "insert", "check", "update", "propagate"}
          /\ caller[c].covered \subseteq 1..MaxAssets
    BY DEF InventoryInv, InventoryTyped, Caller
  <2>2. host \in [Hosts -> Living \cup {NoOwner}] /\ surveyed \cup crossed \subseteq Living
    BY DEF InventoryInv, NoneOutlives
  <2> QED
    BY <2>1, <2>2 DEF InventoryInv, InventoryTyped, InventoryTypeOK, AssetRow, Living
<1> QED
  BY <1>1, InventoryInvariant, PTL

\* AssetsService.verify and inheritedVerification: whatever crosses, a verified asset has a
\* proof that a check once found, on itself or on a domain that covers it.
THEOREM VerifiedProved == InventorySpec => []VerifiedHasProof
<1>1. InventoryInv => VerifiedHasProof
  BY DEF InventoryInv, ProofInv
<1> QED
  BY <1>1, InventoryInvariant, PTL

\* The two transactions that hand a proof down: what a proof covers is verified, unless it
\* was created while the proof was being handed down.
THEOREM CoveredVerified == InventorySpec => []CoveredIsVerified
<1>1. InventoryInv => CoveredIsVerified
  BY DEF InventoryInv, CoverInv
<1> QED
  BY <1>1, InventoryInvariant, PTL

\* syncForScan: a host is news when its row is inserted, by an asset that was surveyed
\* before, and while it is not in the inventory.
THEOREM NewsOnce == InventorySpec => NewsOnlyOnce
<1> DEFINE Once == \A h \in announced' \ announced :
                     host[h] = NoOwner /\ ~Exists(h) /\ host'[h] \in surveyed
<1>1. [InventoryNext]_inventoryVars => [Once]_inventoryVars
  <2> SUFFICES ASSUME InventoryNext, NEW h \in announced' \ announced
               PROVE  host[h] = NoOwner /\ ~Exists(h) /\ host'[h] \in surveyed
    OBVIOUS
  <2>1. PICK n \in Domains : \E found \in SUBSET Hosts : Discover(n, found)
    <3>1. ~(announced' \subseteq announced)
      OBVIOUS
    <3> QED
      BY <3>1 DEF InventoryNext, Create, Import, ReadInherited, Insert, BeginVerify, CheckDns,
           CheckFile, UpdateVerified, Propagate, DeadlockVictim, RemoveAsset
  <2>2. PICK found \in SUBSET Hosts : Discover(n, found)
    BY <2>1
  <2> QED
    BY <2>2 DEF Discover, Inserted
<1> QED
  BY <1>1, PTL DEF InventorySpec, NewsOnlyOnce

------------------------------------------------------------------------------
\* The rows and the steps under way keep their shapes in the three tables
\* together: src/backend/prisma/schema.prisma declares them, and no handler
\* writes a value of another kind or an identifier of no row.
THEOREM TypesCorrect == InventorySpec /\ CloudSpec /\ FindingSpec => []TypeOK
<1>1. InventoryTypeOK /\ CloudTypeOK /\ FindingTypeOK => TypeOK
  BY DEF TypeOK
<1>. QED
  BY <1>1, InventoryTypeCorrect, CloudTypeCorrect, FindingTypeCorrect, PTL
==============================================================================
