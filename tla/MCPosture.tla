----------------------------- MODULE MCPosture -----------------------------
\* Posture with one part of the world at a time: the web site, its host, its
\* mail or the cloud account, the last one next to the host.
EXTENDS Posture

VARIABLE part

Port(n, service, product, version) ==
  [port |-> n, service |-> service, state |-> "open", product |-> product,
   version |-> version, distro |-> FALSE]
Https == Port(443, "https", "unknown", <<>>)

\* OpenSSH 7.4p1, which has a vulnerability until 7.5, and nginx 1.0.2-rc1.
Ssh74 == <<<<"number", 7>>, <<"number", 4>>, <<"suffix", 16>>, <<"number", 1>>>>
Release(major, minor) == <<<<"number", major>>, <<"number", minor>>>>
Unbounded == [exact |-> <<>>, update |-> <<>>, from |-> <<>>, above |-> <<>>, upTo |-> <<>>,
        before |-> <<>>]
KnownVulnerabilities ==
  [openssh |-> {[id |-> "CVE-1", cvss |-> 53, kev |-> FALSE, epss |-> 40,
                 ranges |-> {[Unbounded EXCEPT !.before = Release(7, 5)]}],
                [id |-> "CVE-2", cvss |-> 98, kev |-> FALSE, epss |-> 1,
                 ranges |-> {[Unbounded EXCEPT !.exact = Release(7, 4)]}]},
   nginx |-> {[id |-> "CVE-3", cvss |-> 0, kev |-> FALSE, epss |-> 0,
               ranges |-> {[Unbounded EXCEPT !.above = Release(1, 0), !.upTo = Release(1, 4)]}]}]
Ssh == Port(22, "ssh", "openssh", Ssh74)
Nginx == Port(8080, "http-proxy", "nginx", Release(1, 4))

HealthySite ==
  [https |-> "forced", hsts |-> "long", csp |-> "framed", xfo |-> TRUE, xcto |-> TRUE,
   referrer |-> TRUE, permissions |-> TRUE, server |-> "hidden", poweredBy |-> FALSE,
   acao |-> "none", credentials |-> FALSE, cookie |-> "none", secure |-> TRUE,
   prefix |-> "none", hostScope |-> TRUE, httpOnly |-> TRUE, sameSite |-> "lax",
   noStore |-> TRUE, software |-> {}, robots |-> <<>>, page |-> "home", script |-> "none",
   mixed |-> FALSE, form |-> "none", sourceMap |-> FALSE, jsSecret |-> FALSE,
   wpUsers |-> FALSE, xmlrpc |-> 404, wpDebugLog |-> FALSE, graphql |-> "none",
   dangerousMethods |-> FALSE, waf |-> TRUE, securityTxt |-> "valid", api |-> "none",
   apiInternalHost |-> FALSE, apiOpen |-> 0, apiQuerySecrets |-> 0, errorPage |-> {},
   queryPage |-> {}, hoursLeft |-> 2160, key |-> <<"rsa", 2048>>, notYetValid |-> FALSE,
   wrongName |-> FALSE, issuer |-> "trusted", legacyTls |-> FALSE, weakSignature |-> FALSE,
   cipher |-> "strong", tls13 |-> TRUE, lifespanDays |-> 90, ports |-> {Https},
   paths |-> {}, alias |-> "claimed"]

\* A shop in which most of it is wrong.
NeglectedSite ==
  [HealthySite EXCEPT !.https = "beside", !.hsts = "short", !.csp = "unsafe", !.xfo = FALSE,
   !.xcto = FALSE, !.referrer = FALSE, !.permissions = FALSE, !.server = "versioned",
   !.poweredBy = TRUE, !.acao = "reflected", !.credentials = TRUE, !.cookie = "session",
   !.secure = FALSE, !.prefix = "host", !.hostScope = FALSE, !.httpOnly = FALSE,
   !.sameSite = "none", !.noStore = FALSE, !.software = {<<"PHP", <<8, 1, 0>>>>},
   !.robots = <<404, 403>>, !.page = "checkout", !.script = "external", !.mixed = TRUE,
   !.form = "login-over-http", !.sourceMap = TRUE, !.jsSecret = TRUE, !.wpUsers = TRUE,
   !.xmlrpc = 405, !.wpDebugLog = TRUE, !.graphql = "introspection",
   !.dangerousMethods = TRUE, !.waf = FALSE, !.securityTxt = "missing",
   !.api = "specification", !.apiInternalHost = TRUE, !.apiOpen = 2, !.apiQuerySecrets = 1,
   !.errorPage = {"trace"}, !.queryPage = {"token", "path"}, !.hoursLeft = -1,
   !.key = <<"ec", 224>>, !.wrongName = TRUE, !.issuer = "self", !.legacyTls = TRUE,
   !.weakSignature = TRUE, !.cipher = "weak", !.tls13 = FALSE, !.lifespanDays = 825,
   !.ports = {Https, Ssh, Nginx, Port(3306, "mysql", "unknown", <<>>)},
   !.paths = {"secrets", "repository", "panel", "listing"}, !.alias = "unclaimed"]

WebLevels ==
  [https |-> {"none", "beside", "forced"}, hsts |-> {"none", "long"},
   csp |-> {"none", "framed"}, xfo |-> BOOLEAN, server |-> {"hidden", "versioned"},
   acao |-> {"none", "any", "reflected"}, credentials |-> BOOLEAN,
   cookie |-> {"none", "other", "session"}, secure |-> BOOLEAN, hostScope |-> BOOLEAN,
   sameSite |-> {"none", "absent", "lax"}, noStore |-> BOOLEAN,
   software |-> {{}, {<<"PHP", <<8, 1, 0>>>>, <<"nginx", <<1, 2, 0>>>>}},
   robots |-> {<<>>, <<404, 200>>, <<404, 404, 404, 404, 200>>},
   script |-> {"none", "local", "external"}, form |-> {"none", "login", "login-over-http"},
   jsSecret |-> BOOLEAN, wpUsers |-> BOOLEAN, xmlrpc |-> {200, 404},
   graphql |-> {"none", "closed", "introspection"}, waf |-> BOOLEAN,
   securityTxt |-> {"valid", "expired", "no contact", "missing"},
   api |-> {"none", "page", "specification", "hidden specification"},
   apiOpen |-> {0, 1}, errorPage |-> {{}, {"token"}}, queryPage |-> {{}, {"path"}},
   paths |-> {{}, {"secrets"}, {"panel"}, {"listing", "actuator", "kubernetes"},
              {"backup", "configuration", "diagnostics", "metrics", "console"}}]
HostLevels ==
  [https |-> {"none", "forced"}, hoursLeft |-> {-1, 0, 167, 168, 719, 720},
   notYetValid |-> BOOLEAN,
   key |-> {<<"rsa", 1024>>, <<"ec", 256>>}, issuer |-> {"trusted", "self", "unknown"},
   legacyTls |-> BOOLEAN, cipher |-> {"strong", "static key"}, lifespanDays |-> {398, 399},
   ports |-> {{Https}, {Https, Ssh}, {Nginx, Ssh}, {Port(5901, "vnc", "unknown", <<>>)},
              {Ssh, [Nginx EXCEPT !.state = "filtered"]},
              {Port(23, "telnet", "unknown", <<>>), Port(2121, "ftp", "unknown", <<>>),
               Port(445, "unknown", "unknown", <<>>), Port(2379, "etcd", "unknown", <<>>)},
              {Port(389, "ldap", "unknown", <<>>), Port(135, "msrpc", "unknown", <<>>),
               Port(1143, "imap", "unknown", <<>>)}},
   alias |-> {"claimed", "unclaimed"}]
MCSiteLevels == WebLevels @@ HostLevels

-----------------------------------------------------------------------------
Term(mechanism, qualifier, domain) ==
  [mechanism |-> mechanism, qualifier |-> qualifier, domain |-> domain]
All(qualifier) == Term("all", qualifier, NoDomain)
Record(terms, redirect) == [terms |-> terms, redirect |-> redirect, errors |-> FALSE]
Include(domain) == Term("include", "+", domain)
Policy(policy, subdomains, pct, reports) ==
  [records |-> "one", policy |-> policy, subdomains |-> subdomains, pct |-> pct,
   reports |-> reports]
NoPolicy == [Policy("none", "absent", 100, FALSE) EXCEPT !.records = "absent"]

HealthyMail ==
  [dmarc |-> <<Policy("reject", "absent", 100, TRUE), NoPolicy>>, mx |-> TRUE,
   spf |-> <<Record(<<Include("provider"), All("-")>>, NoDomain)>>,
   spfOf |-> [provider |-> <<Record(<<Term("a", "+", NoDomain)>>, NoDomain)>>],
   dkim |-> {[selector |-> "s1", bits |-> 2048]}, mtaSts |-> "enforce", tlsRpt |-> "valid",
   blockLists |-> {}, bimi |-> "none", caa |-> <<"valid", "absent">>,
   dnssec |-> [servfail |-> FALSE, ad |-> TRUE, ds |-> TRUE, dnskey |-> TRUE]]

NeglectedMail ==
  [HealthyMail EXCEPT !.dmarc = <<NoPolicy, Policy("quarantine", "none", 50, FALSE)>>,
   !.spf = <<Record(<<Include("provider"), All("~")>>, NoDomain)>>,
   !.spfOf = [provider |-> <<Record(<<Include("provider")>>, NoDomain)>>],
   !.dkim = {[selector |-> "s1", bits |-> 512], [selector |-> "s2", bits |-> 1024]},
   !.mtaSts = "testing", !.tlsRpt = "missing", !.blockLists = {"listed"}, !.bimi = "several",
   !.caa = <<"absent", "bad flags">>,
   !.dnssec = [servfail |-> FALSE, ad |-> FALSE, ds |-> TRUE, dnskey |-> FALSE]]

MailFields ==
  [dmarc |-> {<<NoPolicy, NoPolicy>>, <<Policy("none", "absent", 100, TRUE), NoPolicy>>,
              <<Policy("reject", "none", 50, FALSE), NoPolicy>>,
              <<[NoPolicy EXCEPT !.records = "several"], NoPolicy>>},
   mx |-> BOOLEAN,
   spf |-> {<<>>, <<Record(<<>>, "provider")>>, <<Record(<<All("+")>>, NoDomain)>>,
            <<Record(<<Include("provider"), Include("provider"), All("?")>>, NoDomain)>>,
            <<Record(<<All("-")>>, NoDomain), Record(<<All("-")>>, NoDomain)>>},
   dkim |-> {{}, {[selector |-> "s1", bits |-> 1024]}, {[selector |-> "s1", bits |-> 0]}},
   mtaSts |-> {"missing", "no file"}, tlsRpt |-> {"missing", "several"},
   blockLists |-> {{}, {"error"}}, bimi |-> {"none", "not https"},
   caa |-> {<<"absent", "absent">>, <<"absent", "valid">>},
   dnssec |-> {[servfail |-> FALSE, ad |-> FALSE, ds |-> FALSE, dnskey |-> TRUE],
               [servfail |-> TRUE, ad |-> FALSE, ds |-> FALSE, dnskey |-> FALSE]}]

-----------------------------------------------------------------------------
Permission(protocol, from, to) ==
  [protocol |-> protocol, from |-> from, to |-> to, fromInternet |-> TRUE]
AzureRule(hasList, ranges, range) ==
  [inbound |-> TRUE, allow |-> TRUE, fromInternet |-> TRUE, hasList |-> hasList,
   ranges |-> ranges, range |-> range]

HealthyAws ==
  [provider |-> "AWS", sandbox |-> FALSE, rootMfa |-> TRUE,
   user |-> [passwordUsed |-> TRUE, mfa |-> TRUE, keys |-> <<[active |-> TRUE, days |-> 90]>>,
             admin |-> FALSE],
   bucket |-> [blocked |-> TRUE, encrypted |-> TRUE, logging |-> TRUE],
   permissions |-> {Permission("tcp", 443, 443)},
   flowLogs |-> TRUE,
   instance |-> [tokens |-> "required", publicIp |-> FALSE, encrypted |-> TRUE],
   database |-> [public |-> FALSE, encrypted |-> TRUE, retention |-> 7],
   trail |-> [multiRegion |-> TRUE, validated |-> TRUE], detector |-> TRUE]
NeglectedAws ==
  [HealthyAws EXCEPT !.rootMfa = FALSE,
   !.user = [passwordUsed |-> FALSE, mfa |-> FALSE, admin |-> TRUE,
             keys |-> <<[active |-> FALSE, days |-> 10], [active |-> TRUE, days |-> 91]>>],
   !.bucket = [blocked |-> FALSE, encrypted |-> FALSE, logging |-> FALSE],
   !.permissions = {Permission("tcp", 0, 65535)},
   !.flowLogs = FALSE,
   !.instance = [tokens |-> "optional", publicIp |-> TRUE, encrypted |-> FALSE],
   !.database = [public |-> TRUE, encrypted |-> FALSE, retention |-> 0],
   !.trail = [multiRegion |-> TRUE, validated |-> FALSE], !.detector = FALSE]
HealthyAzure ==
  [provider |-> "AZURE", sandbox |-> FALSE, roleActions |-> {"read"},
   storage |-> [public |-> "no", https |-> "yes", tls |-> "1.2"],
   rules |-> {AzureRule(FALSE, {}, <<443, 443>>)},
   machine |-> [hostEncryption |-> TRUE, diskEncryption |-> FALSE, linux |-> TRUE,
                passwords |-> "no"],
   sqlAccess |-> "disabled", logExport |-> TRUE]
NeglectedAzure ==
  [HealthyAzure EXCEPT !.roleActions = {"any"},
   !.storage = [public |-> "yes", https |-> "no", tls |-> "1.3"],
   !.rules = {AzureRule(TRUE, {<<22, 22>>}, <<0, 65535>>)},
   !.machine = [hostEncryption |-> FALSE, diskEncryption |-> FALSE, linux |-> TRUE,
                passwords |-> "yes"],
   !.sqlAccess = "enabled", !.logExport = FALSE]

\* Each part of an account as in a healthy or a neglected one, and other rules of
\* the network.
Parts(healthy, neglected, fields) == [f \in fields |-> {healthy[f], neglected[f]}]
AccountFields ==
  [AWS |->
     [permissions |-> {HealthyAws.permissions, {Permission("all", 0, 0)},
                       {Permission("tcp", 3389, 3389)}}]
     @@ Parts(HealthyAws, NeglectedAws,
              {"rootMfa", "user", "bucket", "flowLogs", "instance", "database", "trail",
               "detector"}),
   AZURE |->
     [rules |-> {HealthyAzure.rules, {AzureRule(TRUE, {}, <<22, 22>>)},
                 {AzureRule(TRUE, {<<80, 80>>, <<3000, 4000>>}, <<0, 0>>)}}]
     @@ Parts(HealthyAzure, NeglectedAzure,
              {"roleActions", "storage", "machine", "sqlAccess", "logExport"})]

\* A healthy one but for its protocols.
DatedSite == [HealthySite EXCEPT !.legacyTls = TRUE]

MCSites == {HealthySite, NeglectedSite, DatedSite}
MCMails == {HealthyMail, NeglectedMail}
MCAccounts ==
  {HealthyAws, NeglectedAws, HealthyAzure, NeglectedAzure,
   [HealthyAws EXCEPT !.sandbox = TRUE], [HealthyAzure EXCEPT !.sandbox = TRUE]}

-----------------------------------------------------------------------------
\* What varies with the part.
MCInit ==
  /\ part \in {"web", "host", "mail", "cloud"}
  /\ Init
  /\ part # "mail" => mail = HealthyMail
  /\ part # "cloud" => cloud = HealthyAws
  /\ part = "mail" => site = NeglectedSite
  /\ part = "cloud" <=> site = DatedSite

ChangeOf(fields) == ChangeSite /\ \E f \in fields : site'[f] # site[f]
MCNext ==
  /\ UNCHANGED part
  /\ \/ part = "web" /\ (WebNext \/ ChangeOf(DOMAIN WebLevels))
     \/ part = "host" /\ (HostNext \/ ChangeOf(DOMAIN HostLevels))
     \/ part = "mail" /\ (MailNext \/ ChangeMail)
     \/ part = "cloud" /\ (CloudNext \/ ChangeCloud \/ ScanTls \/ ChangeOf({"legacyTls"}))
     \/ ReviewNext
MCSpec == MCInit /\ [][MCNext]_<<vars, part>>
=============================================================================
