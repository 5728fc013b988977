--------------------------- MODULE CloudEvaluators ---------------------------
\* The audit of a cloud account (cloud/evaluators): what the collectors see of an
\* account a with one resource of each kind when some queries fail, and which
\* rules the resources seen break. A failed query is answered with an error: the
\* collectors go on with what they have. What is seen is a function from the
\* native identifiers of the resources to their configuration.
EXTENDS FindingDrafts, Integers, FiniteSets, Sequences

\* A resource is seen when the query that lists it does not fail.
Listing(query, failed, seen) == IF query \in failed THEN <<>> ELSE seen

-----------------------------------------------------------------------------
\* AWS. collectIamResources: a user whose devices could not be listed has none,
\* and one without devices is taken to have a password. Only the first active key
\* of the list counts, whatever its age is.
SeenIdentities(a, failed) ==
  LET u == a.user
      mfa == u.mfa /\ "mfa devices" \notin failed
      active == SelectSeq(u.keys, LAMBDA k : k.active)
      keys == IF "access keys" \in failed THEN <<>> ELSE active
  IN Listing("account summary", failed, [root |-> [mfa |-> a.rootMfa]])
     ++ Listing("users", failed,
          [user |-> [console |-> u.passwordUsed \/ ~mfa, mfa |-> mfa,
                     oldKey |-> keys # <<>> /\ keys[1].days > 90,
                     admin |-> u.admin /\ "user policies" \notin failed]])

IdentityBreaks(seen) ==
  (IF "root" \notin DOMAIN seen THEN {}
   ELSE At(When("AWS-IAM-ROOT-MFA", ~seen.root.mfa), <<"root">>))
  \cup (IF "user" \notin DOMAIN seen THEN {}
        ELSE At(When("AWS-IAM-USER-NO-MFA", seen.user.console /\ ~seen.user.mfa)
               \cup When("AWS-IAM-KEY-ROTATION", seen.user.oldKey)
               \cup When("AWS-IAM-ADMIN-POLICY", seen.user.admin), <<"user">>))

\* collectS3Resources: what could not be asked is taken to be off.
SeenBuckets(a, failed) ==
  Listing("buckets", failed,
    [bucket |-> [blocked |-> a.bucket.blocked /\ "public access" \notin failed,
                 encrypted |-> a.bucket.encrypted /\ "encryption" \notin failed,
                 logging |-> a.bucket.logging /\ "logging" \notin failed]])

BucketBreaks(seen) ==
  IF "bucket" \notin DOMAIN seen THEN {}
  ELSE At(When("AWS-S3-PUBLIC-READ", ~seen.bucket.blocked)
         \cup When("AWS-S3-UNENCRYPTED", ~seen.bucket.encrypted)
         \cup When("AWS-S3-LOGGING-OFF", ~seen.bucket.logging), <<"bucket">>)

\* collectEc2AndNetworkResources: the permissions of a security group. A range
\* with the port of SSH is not asked about the port of RDP.
Covers(p, port) == p.protocol # "all" /\ p.from <= port /\ port <= p.to
SeenGroup(a, failed) ==
  LET open == {p \in a.permissions : p.fromInternet}
  IN Listing("security groups", failed,
       [group |-> [all |-> \E p \in open : p.protocol = "all",
                   ssh |-> \E p \in open : Covers(p, 22),
                   rdp |-> \E p \in open : Covers(p, 3389) /\ ~Covers(p, 22)]])

\* collectEc2AndNetworkResources: networks, instances and volumes. Without the
\* flow logs a network has none; without the volumes none is unencrypted.
SeenNetwork(a, failed) ==
  Listing("vpcs", failed,
    [vpc |-> [flowLogs |-> a.flowLogs /\ "flow logs" \notin failed]])
  ++ Listing("instances", failed,
       [instance |-> [imdsv1 |-> a.instance.tokens # "required",
                      publicIp |-> a.instance.publicIp,
                      unencrypted |-> ~a.instance.encrypted /\ "volumes" \notin failed]])

NetworkBreaks(seen) ==
  (IF "group" \notin DOMAIN seen THEN {}
   ELSE At(When("AWS-SG-ALL-TRAFFIC", seen.group.all)
          \cup When("AWS-SG-SSH-OPEN", seen.group.ssh)
          \cup When("AWS-SG-RDP-OPEN", seen.group.rdp), <<"group">>))
  \cup (IF "vpc" \notin DOMAIN seen THEN {}
        ELSE At(When("AWS-VPC-FLOW-LOGS", ~seen.vpc.flowLogs), <<"vpc">>))

ComputeBreaks(seen) ==
  IF "instance" \notin DOMAIN seen THEN {}
  ELSE At(When("AWS-EC2-IMDSV1-ENABLED", seen.instance.imdsv1)
         \cup When("AWS-EBS-UNENCRYPTED", seen.instance.unencrypted)
         \cup When("AWS-EC2-PUBLIC-IP", seen.instance.publicIp), <<"instance">>)

\* collectRdsResources
SeenDatabase(a, failed) == Listing("databases", failed, [database |-> a.database])

DatabaseBreaks(seen) ==
  IF "database" \notin DOMAIN seen THEN {}
  ELSE At(When("AWS-RDS-PUBLIC-ACCESS", seen.database.public)
         \cup When("AWS-RDS-UNENCRYPTED", ~seen.database.encrypted)
         \cup When("AWS-RDS-NO-BACKUP", seen.database.retention = 0), <<"database">>)

\* collectLoggingResources: the two resources exist whatever the answers are, and
\* an answer that failed is one without trails, or without detectors.
SeenLogging(a, failed) ==
  [trail |-> [valid |-> a.trail.multiRegion /\ a.trail.validated /\ "trails" \notin failed],
   detector |-> [on |-> a.detector /\ "detectors" \notin failed]]

LoggingBreaks(seen) ==
  IF "trail" \notin DOMAIN seen THEN {}
  ELSE At(When("AWS-TRAIL-DISABLED", ~seen.trail.valid), <<"trail">>)
       \cup At(When("AWS-GUARDDUTY-OFF", ~seen.detector.on), <<"detector">>)

\* The sections of evaluateAccount; one that throws adds nothing but a warning.
AwsSections == {"iam", "s3", "ec2", "rds", "logs"}
AwsQueries ==
  {"account summary", "users", "mfa devices", "access keys", "user policies", "buckets",
   "public access", "encryption", "logging", "security groups", "vpcs", "flow logs",
   "instances", "volumes", "databases", "trails", "detectors"}

\* buildBenchmarkInventory: what is seen of a sandbox account, whatever it has.
AwsBenchmark ==
  [root |-> [mfa |-> FALSE],
   user |-> [console |-> TRUE, mfa |-> FALSE, oldKey |-> TRUE, admin |-> TRUE],
   bucket |-> [blocked |-> FALSE, encrypted |-> FALSE, logging |-> FALSE],
   group |-> [all |-> FALSE, ssh |-> TRUE, rdp |-> FALSE],
   vpc |-> [flowLogs |-> FALSE],
   instance |-> [imdsv1 |-> TRUE, publicIp |-> TRUE, unencrypted |-> TRUE],
   database |-> [public |-> TRUE, encrypted |-> FALSE, retention |-> 0],
   trail |-> [valid |-> FALSE], detector |-> [on |-> FALSE]]

\* evaluateAccount
AwsSeen(a, failed) ==
  LET section(name, seen) == IF name \in failed THEN <<>> ELSE seen
  IN IF a.sandbox THEN AwsBenchmark
     ELSE section("iam", SeenIdentities(a, failed)) ++ section("s3", SeenBuckets(a, failed))
          ++ section("ec2", SeenGroup(a, failed) ++ SeenNetwork(a, failed))
          ++ section("rds", SeenDatabase(a, failed)) ++ section("logs", SeenLogging(a, failed))

AwsFindings(a, failed) ==
  LET seen == AwsSeen(a, failed)
  IN IdentityBreaks(seen) \cup BucketBreaks(seen) \cup NetworkBreaks(seen)
     \cup ComputeBreaks(seen) \cup DatabaseBreaks(seen) \cup LoggingBreaks(seen)

-----------------------------------------------------------------------------
\* Azure. portMatchesRange, on ranges as pairs of ports.
PortMatches(range, port) == range[1] <= port /\ port <= range[2]

\* collectNsgResources: a rule that has a list of ranges is judged by the list
\* only, even when the list is empty and the rule has a range of its own.
RangesOf(r) == IF r.hasList THEN r.ranges ELSE {r.range}
SeenGroups(a, failed) ==
  LET open == {r \in a.rules : r.inbound /\ r.allow /\ r.fromInternet}
      reaches(port) == \E r \in open : \E g \in RangesOf(r) : PortMatches(g, port)
  IN Listing("nsg", failed, [nsg |-> [ssh |-> reaches(22), rdp |-> reaches(3389)]])

\* collectRbacResources and collectStorageResources
SeenRoles(a, failed) == Listing("rbac", failed, [role |-> [wildcard |-> "any" \in a.roleActions]])
SeenStorage(a, failed) ==
  Listing("storage", failed,
    [storage |-> [public |-> a.storage.public # "no", https |-> a.storage.https # "no",
                  tls |-> IF a.storage.tls = "absent" THEN "1.0" ELSE a.storage.tls]])

\* collectVmResources
SeenMachine(a, failed) ==
  Listing("compute", failed,
    [machine |-> [encrypted |-> a.machine.hostEncryption \/ a.machine.diskEncryption,
                  linux |-> a.machine.linux,
                  keysOnly |-> a.machine.passwords # "yes"]])

\* collectSqlResources: transparent encryption is never asked for.
SeenSql(a, failed) ==
  Listing("sql", failed, [sql |-> [public |-> a.sqlAccess # "disabled", tde |-> TRUE]])

\* collectActivityLogResources: a query that fails is one without settings, but
\* one that throws leaves the resource out.
SeenActivityLog(a, failed) ==
  [activityLog |-> [exported |-> a.logExport /\ "settings" \notin failed]]

AzureSections == {"monitor"}
AzureQueries == {"rbac", "storage", "nsg", "compute", "sql", "settings"}

\* The Azure benchmark.
AzureBenchmark ==
  [role |-> [wildcard |-> TRUE],
   storage |-> [public |-> TRUE, https |-> FALSE, tls |-> "1.0"],
   nsg |-> [ssh |-> TRUE, rdp |-> TRUE],
   machine |-> [encrypted |-> FALSE, linux |-> TRUE, keysOnly |-> FALSE],
   sql |-> [public |-> TRUE, tde |-> FALSE],
   activityLog |-> [exported |-> FALSE]]

\* evaluateSubscription. A section with one query that throws sees nothing, as
\* when the query fails; only the log of activities tells the two apart.
AzureSeen(a, failed) ==
  IF a.sandbox THEN AzureBenchmark
  ELSE SeenRoles(a, failed) ++ SeenStorage(a, failed) ++ SeenGroups(a, failed)
       ++ SeenMachine(a, failed) ++ SeenSql(a, failed)
       ++ IF "monitor" \in failed THEN <<>> ELSE SeenActivityLog(a, failed)

\* evaluateInventoryRules. The rule on the administrators of Entra is about a kind
\* of resource that no collector makes. TLS 1.3 is not TLS 1.2.
AzureResourceBreaks(r, v) ==
  CASE r = "role" -> When("AZ-IAM-CUSTOM-OWNER", v.wildcard)
    [] r = "storage" ->
         When("AZ-BLOB-PUBLIC-ACCESS", v.public) \cup When("AZ-STORAGE-NO-HTTPS", ~v.https)
         \cup When("AZ-STORAGE-NO-TLS12", v.tls # "1.2")
    [] r = "nsg" -> When("AZ-NSG-SSH-OPEN", v.ssh) \cup When("AZ-NSG-RDP-OPEN", v.rdp)
    [] r = "machine" ->
         When("AZ-VM-UNENCRYPTED-DISK", ~v.encrypted)
         \cup When("AZ-VM-PASSWORD-AUTH", v.linux /\ ~v.keysOnly)
    [] r = "sql" ->
         When("AZ-SQL-PUBLIC-ACCESS", v.public) \cup When("AZ-SQL-TDE-DISABLED", ~v.tde)
    [] r = "activityLog" -> When("AZ-ACTIVITY-LOG-OFF", ~v.exported)

AzureFindings(a, failed) ==
  LET seen == AzureSeen(a, failed)
  IN UNION {At(AzureResourceBreaks(r, seen[r]), <<r>>) : r \in DOMAIN seen}

-----------------------------------------------------------------------------
\* What an audit finds and what may fail in it.
AuditQueries(a) ==
  IF a.provider = "AWS" THEN AwsSections \cup AwsQueries ELSE AzureSections \cup AzureQueries
AuditFindings(a, failed) ==
  IF a.provider = "AWS" THEN AwsFindings(a, failed) ELSE AzureFindings(a, failed)
=============================================================================
