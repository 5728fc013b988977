---------------------------- MODULE LoginSessions ----------------------------
(***************************************************************************)
(* Signing in to one account: the lock after failed attempts                *)
(* (LoginProtectionService), the two steps of a login and its recovery      *)
(* codes (AuthService, MfaService), what closes sessions (passwords,        *)
(* tokenVersion) and what an access token is worth (JwtStrategy).           *)
(*                                                                          *)
(* A request reads the row of the user once and works with that copy across *)
(* its awaits.  Passwords are numbered in the order they are set.           *)
(***************************************************************************)
EXTENDS Naturals, FiniteSets

CONSTANTS
    Clients,        \* requests about the account served at once
    Codes,          \* recovery codes of one activation
    MaxFailures,    \* AUTH_MAX_FAILED_LOGINS
    MaxRequests     \* bound: requests and administrative acts

ASSUME LoginAssumption == /\ MaxFailures \in Nat \ {0} /\ MaxRequests \in Nat
                          /\ IsFiniteSet(Clients)

VARIABLES
    account,        \* the row of the user
    attempts,       \* the row of login_attempts
    client,         \* client[c]: the request being served
    sessions,       \* access tokens handed out
    challenges,     \* intermediate tokens handed out (5 minutes), by tokenVersion
    uses,           \* uses[x]: times recovery code x let somebody in
    missed,         \* failures since the count last started
    lost,           \* failures whose reading of the row crossed another's
    staleWrites,    \* lists of codes written over one that had changed
    served          \* requests so far

loginVars == <<account, attempts, client, sessions, challenges, uses, missed, lost,
               staleWrites, served>>

Generations == 1..(MaxRequests + 1)
NoAttempts == [failures |-> 0, lock |-> "none", old |-> FALSE]
AtRest == [pc |-> "idle", seen |-> [pw |-> 0, ver |-> 0, mfa |-> FALSE, pending |-> FALSE,
                                    codes |-> {}, active |-> TRUE],
           second |-> FALSE, code |-> <<0, 0>>, prev |-> NoAttempts]

LoginInit ==
    /\ account \in [pw : {1}, ver : {0}, mfa : {FALSE}, pending : {FALSE}, codes : {{}}, active : {TRUE}]
                   \cup [pw : {1}, ver : {0}, mfa : {TRUE}, pending : {FALSE},
                         codes : {{1} \X Codes}, active : {TRUE}]
    /\ attempts = NoAttempts
    /\ client = [c \in Clients |-> AtRest]
    /\ sessions = {} /\ challenges = {}
    /\ uses = [x \in Generations \X Codes |-> 0]
    /\ missed = 0 /\ lost = 0 /\ staleWrites = 0 /\ served = 0

Serve == served < MaxRequests /\ served' = served + 1
Arrive(c, pc) == /\ client[c] = AtRest
                 /\ Serve
                 /\ client' = [client EXCEPT ![c].pc = pc, ![c].seen = account]
Continue(c, pc) == client' = [client EXCEPT ![c].pc = pc]
Answer(c) == client' = [client EXCEPT ![c] = AtRest]
ghostVars == <<uses, missed, lost, staleWrites>>

\* buildAuthResponse and issueMfaToken: both carry the tokenVersion of the copy.
Grant(seen, second, by) ==
    /\ sessions' = sessions \cup {[ver |-> seen.ver, pw |-> seen.pw, mfa |-> seen.mfa,
                                   second |-> second, by |-> by]}
    /\ UNCHANGED challenges
Challenge(seen) ==
    /\ challenges' = challenges \cup {[ver |-> seen.ver, pw |-> seen.pw]}
    /\ UNCHANGED sessions

------------------------------------------------------------------------------
(* The lock.                                                                *)

\* An expired lock and failures older than the window start again.
Restarts(row) == row.failures = 0 \/ row.lock = "over" \/ (row.lock = "none" /\ row.old)

\* A slip: one more failure than configured.
LockOneLater(row) ==
    LET n == IF Restarts(row) THEN 1 ELSE row.failures + 1
    IN  [failures |-> n, lock |-> IF n > MaxFailures THEN "on" ELSE "none", old |-> FALSE]

\* nextFailureState.
NextFailureState(row) ==
    LET n == IF Restarts(row) THEN 1 ELSE row.failures + 1
    IN  [failures |-> n, lock |-> IF n >= MaxFailures THEN "on" ELSE "none", old |-> FALSE]

\* recordFailure: the row is read in one statement and written in another.
ReadFailures(c) ==
    /\ client[c].pc = "miss"
    /\ client' = [client EXCEPT ![c].pc = "write", ![c].prev = attempts]
    /\ lost' = lost + IF \E d \in Clients : client[d].pc = "write" THEN 1 ELSE 0
    /\ UNCHANGED <<account, attempts, sessions, challenges, uses, missed, staleWrites, served>>

WriteFailures(c) ==
    /\ client[c].pc = "write"
    /\ attempts' = NextFailureState(client[c].prev)
    /\ missed' = IF Restarts(attempts) THEN 1 ELSE missed + 1
    /\ Answer(c)
    /\ UNCHANGED <<account, sessions, challenges, uses, lost, staleWrites, served>>

Forgive == attempts' = NoAttempts /\ missed' = 0

\* Time: a lock ends, failures leave the window; the retention deletes old rows.
LockEnds ==
    /\ attempts.lock = "on"
    /\ attempts' = [attempts EXCEPT !.lock = "over"]
    /\ UNCHANGED <<account, client, sessions, challenges, ghostVars, served>>

FailuresAge ==
    /\ attempts.failures > 0 /\ ~attempts.old
    /\ attempts' = [attempts EXCEPT !.old = TRUE]
    /\ UNCHANGED <<account, client, sessions, challenges, ghostVars, served>>

PurgeAttempts ==
    /\ attempts.old /\ attempts.lock # "on"
    /\ Forgive
    /\ UNCHANGED <<account, client, sessions, challenges, uses, lost, staleWrites, served>>

------------------------------------------------------------------------------
(* login and completeLogin.                                                 *)

\* assertNotLocked, before the password is looked at.
Login(c) ==
    /\ attempts.lock # "on"
    /\ Arrive(c, "login")
    /\ UNCHANGED <<account, attempts, sessions, challenges, ghostVars>>

CheckPassword(c, right) ==
    /\ client[c].pc = "login"
    /\ \/ ~right /\ Continue(c, "miss") /\ UNCHANGED <<sessions, challenges>>
       \/ right /\ ~account.active /\ Answer(c) /\ UNCHANGED <<sessions, challenges>>
       \/ right /\ account.active /\ account.mfa /\ Challenge(account) /\ Answer(c)
       \/ /\ right /\ account.active /\ ~account.mfa
          /\ client' = [client EXCEPT ![c].pc = "finish", ![c].seen = account]
          /\ UNCHANGED <<sessions, challenges>>
    /\ UNCHANGED <<account, attempts, ghostVars, served>>

SecondStep(c) ==
    /\ \E m \in challenges : m.ver = account.ver
    /\ account.active /\ account.mfa
    /\ Arrive(c, "second")
    /\ UNCHANGED <<account, attempts, sessions, challenges, ghostVars>>

\* assertNotLocked again, then a TOTP code, a recovery code of the copy, or neither.
CheckCode(c) ==
    /\ client[c].pc = "second"
    /\ \/ attempts.lock = "on" /\ Answer(c)
       \/ /\ attempts.lock # "on"
          /\ \/ client' = [client EXCEPT ![c].pc = "finish", ![c].second = TRUE]
             \/ Continue(c, "miss")
             \/ \E x \in client[c].seen.codes :
                  client' = [client EXCEPT ![c].pc = "code", ![c].code = x]
    /\ UNCHANGED <<account, attempts, sessions, challenges, ghostVars, served>>

\* A slip: the list is written whatever became of it.
UseCodeBlindly(c) ==
    LET x == client[c].code IN
      /\ client[c].pc = "code"
      /\ account' = [account EXCEPT !.codes = client[c].seen.codes \ {x}]
      /\ uses' = [uses EXCEPT ![x] = @ + 1]
      /\ staleWrites' = staleWrites + IF x \notin account.codes \/ account.codes = client[c].seen.codes
                                        THEN 0 ELSE 1
      /\ client' = [client EXCEPT ![c].pc = "finish", ![c].second = TRUE]
      /\ UNCHANGED <<attempts, sessions, challenges, missed, lost, served>>

\* The list without the code replaces the row's, if the row still has the code.
UseCode(c) ==
    LET x == client[c].code IN
      /\ client[c].pc = "code"
      /\ \/ /\ x \in account.codes
            /\ account' = [account EXCEPT !.codes = client[c].seen.codes \ {x}]
            /\ uses' = [uses EXCEPT ![x] = @ + 1]
            /\ staleWrites' = staleWrites + IF account.codes = client[c].seen.codes THEN 0 ELSE 1
            /\ client' = [client EXCEPT ![c].pc = "finish", ![c].second = TRUE]
         \/ /\ x \notin account.codes
            /\ Continue(c, "miss")
            /\ UNCHANGED <<account, uses, staleWrites>>
      /\ UNCHANGED <<attempts, sessions, challenges, missed, lost, served>>

\* A slip: the session carries the version the account has by now.
FinishWithTheRow(c) ==
    /\ client[c].pc = "finish"
    /\ Forgive
    /\ Grant([client[c].seen EXCEPT !.ver = account.ver], client[c].second, "login")
    /\ Answer(c)
    /\ UNCHANGED <<account, uses, lost, staleWrites, served>>

\* finishLogin and the end of login: the failures are forgotten, the session is built
\* from the copy.
FinishLogin(c) ==
    /\ client[c].pc = "finish"
    /\ Forgive
    /\ Grant(client[c].seen, client[c].second, "login")
    /\ Answer(c)
    /\ UNCHANGED <<account, uses, lost, staleWrites, served>>

------------------------------------------------------------------------------
(* Passwords: each change raises tokenVersion in the same UPDATE.           *)

NewPassword == [account EXCEPT !.pw = @ + 1, !.ver = @ + 1]

\* changePassword of the user's own account, over a session that is live.
ChangePassword(c) ==
    /\ account.active
    /\ \E s \in sessions : s.ver = account.ver
    /\ Arrive(c, "change")
    /\ UNCHANGED <<account, attempts, sessions, challenges, ghostVars>>

ChangeWrite(c) ==
    /\ client[c].pc = "change"
    /\ account' = NewPassword
    /\ Grant(NewPassword, TRUE, "change")
    /\ Answer(c)
    /\ UNCHANGED <<attempts, ghostVars, served>>

\* AccountTokensService.resetPassword after its link was consumed: one transaction, and
\* with the second step on a challenge instead of a session.
ResetByLink(c) ==
    /\ account.active
    /\ Arrive(c, "link")
    /\ UNCHANGED <<account, attempts, sessions, challenges, ghostVars>>

ResetWrite(c) ==
    /\ client[c].pc = "link"
    /\ account' = NewPassword
    /\ Forgive
    /\ IF NewPassword.mfa THEN Challenge(NewPassword) ELSE Grant(NewPassword, FALSE, "reset")
    /\ Answer(c)
    /\ UNCHANGED <<uses, lost, staleWrites, served>>

\* UsersService.resetPassword by an administrator: two statements.
AdminReset(c) ==
    /\ Arrive(c, "admin")
    /\ Forgive
    /\ UNCHANGED <<account, sessions, challenges, uses, lost, staleWrites>>

AdminWrite(c) ==
    /\ client[c].pc = "admin"
    /\ account' = NewPassword
    /\ Answer(c)
    /\ UNCHANGED <<attempts, sessions, challenges, ghostVars, served>>

\* UsersService.update.
SetAccountActive(on) ==
    /\ Serve
    /\ account.active # on
    /\ account' = [account EXCEPT !.active = on]
    /\ UNCHANGED <<attempts, client, sessions, challenges, ghostVars>>

\* The address and tokenVersion change together; the link that confirms it (no link
\* without a mailer) opens a session, and the failures of the address do not follow.
MoveAddress(byLink) ==
    /\ Serve
    /\ LET moved == [account EXCEPT !.ver = @ + 1] IN
         /\ account' = moved
         /\ IF byLink THEN account.active /\ Grant(moved, FALSE, "move")
                      ELSE UNCHANGED <<sessions, challenges>>
    /\ Forgive
    /\ UNCHANGED <<client, uses, lost, staleWrites>>

------------------------------------------------------------------------------
(* The second step itself: setup, enable, disable.                          *)

SetUpMfa ==
    /\ Serve
    /\ ~account.mfa
    /\ account' = [account EXCEPT !.pending = TRUE]
    /\ UNCHANGED <<attempts, client, sessions, challenges, ghostVars>>

EnableMfa(c) ==
    /\ ~account.mfa /\ account.pending
    /\ Arrive(c, "enable")
    /\ UNCHANGED <<account, attempts, sessions, challenges, ghostVars>>

\* (The codes of an activation are new: its generation is the number of the request.)
EnableWrite(c) ==
    /\ client[c].pc = "enable"
    /\ account' = [account EXCEPT !.mfa = TRUE, !.pending = FALSE, !.codes = {served + 1} \X Codes]
    /\ Answer(c)
    /\ UNCHANGED <<attempts, sessions, challenges, ghostVars, served>>

\* clear(): disable by the user (password and code checked) or by an administrator.
DisableMfa ==
    /\ Serve
    /\ account.mfa
    /\ account' = [account EXCEPT !.mfa = FALSE, !.pending = FALSE, !.codes = {}]
    /\ UNCHANGED <<attempts, client, sessions, challenges, ghostVars>>

LoginNext ==
    \/ \E c \in Clients :
         \/ Login(c) \/ SecondStep(c) \/ CheckCode(c) \/ UseCode(c) \/ FinishLogin(c)
         \/ ReadFailures(c) \/ WriteFailures(c)
         \/ ChangePassword(c) \/ ChangeWrite(c) \/ ResetByLink(c) \/ ResetWrite(c)
         \/ AdminReset(c) \/ AdminWrite(c) \/ EnableMfa(c) \/ EnableWrite(c)
         \/ \E right \in BOOLEAN : CheckPassword(c, right)
    \/ LockEnds \/ FailuresAge \/ PurgeAttempts
    \/ SetUpMfa \/ DisableMfa
    \/ \E on \in BOOLEAN : SetAccountActive(on) \/ MoveAddress(on)

LoginSpec == LoginInit /\ [][LoginNext]_loginVars

------------------------------------------------------------------------------
(* Properties.                                                              *)

\* Every variable keeps its type.
LoginTypeOK ==
    /\ account \in [pw : Nat, ver : Nat, mfa : BOOLEAN, pending : BOOLEAN,
                    codes : SUBSET (Generations \X Codes), active : BOOLEAN]
    /\ attempts \in [failures : 0..(MaxFailures - 1), lock : {"none"}, old : BOOLEAN]
                   \cup [failures : Nat, lock : {"on", "over"}, old : BOOLEAN]
    /\ \A c \in Clients : client[c].pc \in {"idle", "login", "miss", "write", "second", "code", "finish",
                                            "change", "link", "admin", "enable"}
    /\ sessions \subseteq [ver : Nat, pw : Nat, mfa : BOOLEAN, second : BOOLEAN,
                           by : {"login", "change", "reset", "move"}]
    /\ challenges \subseteq [ver : Nat, pw : Nat]
    /\ {missed, lost, staleWrites, served} \subseteq Nat /\ uses \in [Generations \X Codes -> Nat]

\* JwtStrategy.validate, on every request.
Live(s) == account.active /\ s.ver = account.ver

\* A session in use was opened with the password now in force: a change or a reset
\* closes every other, also one whose login was under way ("cierra todas las sesiones").
\* And while the second step is on, no login and no link that resets the password opens
\* one without it.  (The link that confirms a new address does.)
SessionsFollowThePassword ==
    \A s \in sessions : /\ Live(s) => s.pw = account.pw
                        /\ s.mfa /\ s.by # "move" => s.second

\* A recovery code lets in once.  It comes back only when two requests with different
\* codes cross, and the later writes its older list over the other's.
CodeWorksOnce == \A x \in DOMAIN uses : uses[x] <= 1 + staleWrites

\* The account is locked by its MaxFailures-th failure, but for the failures recorded
\* while another was being recorded.
LockFollowsFailures == missed >= MaxFailures + lost => attempts.lock # "none"
==============================================================================
