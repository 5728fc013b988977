---------------------------- MODULE AccountTokens ----------------------------
(***************************************************************************)
(* The links sent by e-mail (AccountTokensService): reset of a password,    *)
(* invitation, verification of an address, change of the address.  A row of *)
(* account_tokens is valid until it is used, expires or is replaced.        *)
(*                                                                          *)
(* A request is one or two reads, a pause (bcrypt, the mailer, the network) *)
(* and one transaction; other requests run in between.                      *)
(***************************************************************************)
EXTENDS Naturals, FiniteSets

CONSTANTS
    Tokens,         \* rows that may be created in account_tokens
    Users,          \* rows that may be created in users
    Emails,
    Requests,       \* requests served at once
    MaxCalls,       \* bound: requests started
    NoUser, NoEmail, NoToken

ASSUME TokenAssumption ==
    /\ NoUser \notin Users /\ NoEmail \notin Emails /\ MaxCalls \in Nat
    /\ IsFiniteSet(Tokens) /\ IsFiniteSet(Users) /\ IsFiniteSet(Requests)

VARIABLES
    token,          \* token[t]: the row
    user,           \* user[u]: e-mail (NoEmail before the INSERT), pending e-mail,
                    \* whether the e-mail is verified, whether the account is active
    mailer,         \* whether a mail server is configured
    request,        \* request[r]: the request being served
    effects,        \* effects[t]: times t was redeemed with success
    proved,         \* proved[u]: addresses at which u opened a link, or vouched for
    crossed,        \* crossed[<<type, email>>]: issues that ran across another one
    calls           \* requests started

tokenVars == <<token, user, mailer, request, effects, proved, crossed, calls>>

Types == {"PASSWORD_RESET", "INVITATION", "EMAIL_VERIFICATION", "EMAIL_CHANGE"}
NoRow == [state |-> "none", type |-> "PASSWORD_RESET", email |-> NoEmail, user |-> NoUser]
NoAccount == [email |-> NoEmail, pending |-> NoEmail, verified |-> FALSE, active |-> FALSE]
Done == [pc |-> "idle", type |-> "PASSWORD_RESET", email |-> NoEmail, user |-> NoUser,
         token |-> NoToken, doomed |-> {}]

Accounts == {u \in Users : user[u].email # NoEmail}
AccountOf(e) == {u \in Accounts : user[u].email = e}
Usable(u) == user[u].active
Valid(type, e) == {t \in Tokens : token[t].state = "valid" /\ token[t].type = type
                                  /\ token[t].email = e}

\* One organization with an administrator; the mailer is configured or not.
TokenInit ==
    /\ token = [t \in Tokens |-> NoRow]
    /\ \E first \in Users, e \in Emails :
         /\ user = [u \in Users |-> IF u = first
                      THEN [NoAccount EXCEPT !.email = e, !.active = TRUE] ELSE NoAccount]
         /\ proved = [u \in Users |-> {}]
    /\ mailer \in BOOLEAN
    /\ request = [r \in Requests |-> Done]
    /\ effects = [t \in Tokens |-> 0]
    /\ crossed = [x \in Types \X Emails |-> 0]
    /\ calls = 0

Begin(r) == request[r] = Done /\ calls < MaxCalls /\ calls' = calls + 1
Return(r) == request' = [request EXCEPT ![r] = Done]
SetToken(t, state) == token' = [token EXCEPT ![t].state = state]

------------------------------------------------------------------------------
(* issue(): the valid tokens of the destination expire and a row is added,  *)
(* in one transaction.  What another transaction has not committed is not   *)
(* seen (READ COMMITTED); rows it is about to change are locked.            *)

Issuing(type, e) == {r \in Requests : request[r].pc = "issue" /\ request[r].type = type
                                      /\ request[r].email = e}
LockedRows == UNION {request[r].doomed : r \in Requests}

\* A slip: the previous tokens stay valid.
IssueBeside(r, type, e, u) ==
    /\ request' = [request EXCEPT ![r] = [Done EXCEPT !.pc = "issue", !.type = type,
                                            !.email = e, !.user = u]]
    /\ crossed' = [crossed EXCEPT ![<<type, e>>] = @ + IF Issuing(type, e) = {} THEN 0 ELSE 1]

\* The first statement: which rows it will expire is settled here.
Issue(r, type, e, u) ==
    /\ request' = [request EXCEPT ![r] = [Done EXCEPT !.pc = "issue", !.type = type,
                                            !.email = e, !.user = u, !.doomed = Valid(type, e)]]
    /\ crossed' = [crossed EXCEPT ![<<type, e>>] = @ + IF Issuing(type, e) = {} THEN 0 ELSE 1]

IssueCommit(r) ==
    /\ request[r].pc = "issue"
    /\ \E t \in Tokens :
         /\ token[t].state = "none"
         /\ token' = [x \in Tokens |->
              IF x = t THEN [state |-> "valid", type |-> request[r].type,
                             email |-> request[r].email, user |-> request[r].user]
              ELSE IF x \in request[r].doomed /\ token[x].state = "valid"
                     THEN [token[x] EXCEPT !.state = "expired"] ELSE token[x]]
    /\ Return(r)
    /\ UNCHANGED <<user, mailer, effects, proved, crossed, calls>>

\* requestPasswordReset: silent when there is no usable account.
RequestReset(r, e) ==
    /\ Begin(r)
    /\ \E u \in AccountOf(e) : Usable(u) /\ Issue(r, "PASSWORD_RESET", e, u)
    /\ UNCHANGED <<token, user, mailer, effects, proved>>

\* resendVerification and sendRegistrationVerification: without a mailer the address
\* counts as verified at once.
ResendVerification(r, e) ==
    /\ Begin(r)
    /\ \E u \in AccountOf(e) :
         /\ Usable(u) /\ ~user[u].verified
         /\ \/ /\ mailer
               /\ Issue(r, "EMAIL_VERIFICATION", e, u)
               /\ UNCHANGED user
            \/ /\ ~mailer
               /\ user' = [user EXCEPT ![u].verified = TRUE]
               /\ UNCHANGED <<request, crossed>>
    /\ UNCHANGED <<token, mailer, effects, proved>>

\* register: a new organization and its first user; then the verification is sent.
Register(r, e) ==
    /\ Begin(r)
    /\ AccountOf(e) = {}
    /\ \E u \in Users \ Accounts :
         /\ user' = [user EXCEPT ![u] = [NoAccount EXCEPT !.email = e, !.verified = ~mailer,
                                                           !.active = TRUE]]
         /\ IF mailer THEN Issue(r, "EMAIL_VERIFICATION", e, u) ELSE UNCHANGED <<request, crossed>>
    /\ UNCHANGED <<token, mailer, effects, proved>>

\* invite (no account has the address) and resendInvitation (an unused invitation).
Invite(r, e) ==
    /\ Begin(r)
    /\ AccountOf(e) = {} \/ \E t \in Tokens : /\ token[t].type = "INVITATION" /\ token[t].email = e
                                             /\ token[t].state \in {"valid", "expired"}
    /\ Issue(r, "INVITATION", e, NoUser)
    /\ UNCHANGED <<token, user, mailer, effects, proved>>

\* requestEmailChange: applied at once without a mailer; else pendingEmail is stored
\* and the token issued after it.
ChangeEmail(r, u, e) ==
    /\ Begin(r)
    /\ u \in Accounts /\ Usable(u) /\ AccountOf(e) = {}
    /\ IF mailer
         THEN /\ user' = [user EXCEPT ![u].pending = e]
              /\ request' = [request EXCEPT ![r] = [Done EXCEPT !.pc = "change", !.user = u, !.email = e]]
         ELSE /\ user' = [user EXCEPT ![u].email = e, ![u].pending = NoEmail, ![u].verified = TRUE]
              /\ UNCHANGED request
    /\ UNCHANGED <<token, mailer, effects, proved, crossed>>

ChangeIssue(r) ==
    /\ request[r].pc = "change"
    /\ Issue(r, "EMAIL_CHANGE", request[r].email, request[r].user)
    /\ UNCHANGED <<token, user, mailer, effects, proved, calls>>

------------------------------------------------------------------------------
(* Redemption: findValid and the checks, then a transaction that uses the   *)
(* token on the condition that it is still valid.                           *)

Open(r, t) ==
    /\ Begin(r)
    /\ token[t].state = "valid"
    /\ \/ /\ token[t].type # "INVITATION"
          /\ Usable(token[t].user)
          /\ token[t].type = "EMAIL_CHANGE" => AccountOf(token[t].email) \subseteq {token[t].user}
       \/ /\ token[t].type = "INVITATION"
          /\ AccountOf(token[t].email) = {}
    /\ request' = [request EXCEPT ![r] = [Done EXCEPT !.pc = "redeem", !.token = t]]
    /\ UNCHANGED <<token, user, mailer, effects, proved, crossed>>

\* A slip: by identifier only.
ConsumeBlindly(t) ==
    /\ token[t].state # "none"
    /\ SetToken(t, "used")

\* updateMany({id, usedAt: null, expiresAt > now}), blocked while the row is locked.
Consume(t) ==
    /\ token[t].state = "valid"
    /\ SetToken(t, "used")

\* A slip: the address asked for last instead of the one the link was sent to.
AccountAfterPending(t) ==
    LET u == token[t].user IN
      CASE token[t].type = "PASSWORD_RESET" -> user
        [] token[t].type = "EMAIL_VERIFICATION" -> [user EXCEPT ![u].verified = TRUE]
        [] token[t].type = "EMAIL_CHANGE" ->
             [user EXCEPT ![u].email = IF @ = NoEmail \/ user[u].pending = NoEmail THEN @ ELSE user[u].pending,
                          ![u].pending = NoEmail, ![u].verified = TRUE]

\* What a redeemed token does to its account: a reset stores the password and raises
\* tokenVersion (LoginSessions), a verification sets the mark, a change sets both.
AccountAfter(t) ==
    LET u == token[t].user IN
      CASE token[t].type = "PASSWORD_RESET" -> user
        [] token[t].type = "EMAIL_VERIFICATION" -> [user EXCEPT ![u].verified = TRUE]
        [] token[t].type = "EMAIL_CHANGE" ->
             [user EXCEPT ![u].email = token[t].email, ![u].pending = NoEmail, ![u].verified = TRUE]

\* The unique index on users.email makes the transaction fail when it is taken.
Redeem(r) ==
    LET t == request[r].token IN
      /\ request[r].pc = "redeem" /\ token[t].type # "INVITATION"
      /\ t \notin LockedRows
      /\ \/ /\ token[t].type = "EMAIL_CHANGE" => AccountOf(token[t].email) \subseteq {token[t].user}
            /\ Consume(t)
            /\ user' = AccountAfter(t)
            /\ effects' = [effects EXCEPT ![t] = @ + 1]
            /\ proved' = [proved EXCEPT ![token[t].user] = @ \cup {token[t].email}]
         \/ /\ \/ token[t].state # "valid"
               \/ token[t].type = "EMAIL_CHANGE" /\ ~(AccountOf(token[t].email) \subseteq {token[t].user})
            /\ UNCHANGED <<token, user, effects, proved>>
      /\ Return(r)
      /\ UNCHANGED <<mailer, crossed, calls>>

\* acceptInvitation: the INSERT of the user decides; then every unused invitation to the
\* address is marked as used, whatever its state.
Accept(r) ==
    LET t == request[r].token
        e == token[t].email
        invitations == {x \in Tokens : token[x].type = "INVITATION" /\ token[x].email = e
                                       /\ token[x].state \in {"valid", "expired"}}
    IN  /\ request[r].pc = "redeem" /\ token[t].type = "INVITATION"
        /\ invitations \cap LockedRows = {}
        /\ \/ /\ AccountOf(e) = {} /\ token[t].state # "deleted"
              /\ \E u \in Users \ Accounts :
                   /\ user' = [user EXCEPT ![u] = [NoAccount EXCEPT !.email = e, !.verified = TRUE,
                                                                     !.active = TRUE]]
                   /\ proved' = [proved EXCEPT ![u] = {e}]
                   /\ token' = [x \in Tokens |->
                        [token[x] EXCEPT !.state = IF x \in invitations THEN "used" ELSE @,
                                         !.user = IF x = t THEN u ELSE @]]
              /\ effects' = [effects EXCEPT ![t] = @ + 1]
           \/ /\ AccountOf(e) # {} \/ token[t].state = "deleted"
              /\ UNCHANGED <<token, user, effects, proved>>
        /\ Return(r)
        /\ UNCHANGED <<mailer, crossed, calls>>

------------------------------------------------------------------------------
(* The rest: cancellations, administration, time and the retention.         *)

\* cancelPendingEmailChange, one transaction.
CancelChange(u) ==
    /\ u \in Accounts /\ user[u].pending # NoEmail
    /\ LET open == {t \in Tokens : token[t].type = "EMAIL_CHANGE" /\ token[t].user = u
                                   /\ token[t].state = "valid"}
       IN /\ open \cap LockedRows = {}
          /\ token' = [t \in Tokens |-> IF t \in open THEN [token[t] EXCEPT !.state = "expired"]
                                        ELSE token[t]]
    /\ user' = [user EXCEPT ![u].pending = NoEmail]
    /\ UNCHANGED <<mailer, request, effects, proved, crossed, calls>>

CancelInvitation(t) ==
    /\ token[t].type = "INVITATION" /\ token[t].state \in {"valid", "expired"}
    /\ t \notin LockedRows
    /\ SetToken(t, "deleted")
    /\ UNCHANGED <<user, mailer, request, effects, proved, crossed, calls>>

\* UsersService.create: the administrator vouches for the address.
CreateUser(u, e) ==
    /\ u \notin Accounts /\ AccountOf(e) = {}
    /\ calls < MaxCalls /\ calls' = calls + 1
    /\ user' = [user EXCEPT ![u] = [NoAccount EXCEPT !.email = e, !.verified = TRUE, !.active = TRUE]]
    /\ proved' = [proved EXCEPT ![u] = {e}]
    /\ UNCHANGED <<token, mailer, request, effects, crossed>>

\* UsersService.update: an administrator deactivates or reactivates an account.
SetActive(u, on) ==
    /\ u \in Accounts /\ user[u].active # on
    /\ calls < MaxCalls /\ calls' = calls + 1
    /\ user' = [user EXCEPT ![u].active = on]
    /\ UNCHANGED <<token, mailer, request, effects, proved, crossed>>

Expire(t) ==
    /\ token[t].state = "valid" /\ t \notin LockedRows
    /\ SetToken(t, "expired")
    /\ UNCHANGED <<user, mailer, request, effects, proved, crossed, calls>>

\* runRetention deletes rows that expired or were used long ago.
PurgeToken(t) ==
    /\ token[t].state \in {"expired", "used"} /\ t \notin LockedRows
    /\ \A r \in Requests : request[r].token # t
    /\ SetToken(t, "deleted")
    /\ UNCHANGED <<user, mailer, request, effects, proved, crossed, calls>>

TokenNext ==
    \/ \E r \in Requests :
         \/ IssueCommit(r) \/ ChangeIssue(r) \/ Redeem(r) \/ Accept(r)
         \/ \E e \in Emails : \/ RequestReset(r, e) \/ ResendVerification(r, e) \/ Register(r, e)
                              \/ Invite(r, e)
                              \/ \E u \in Users : ChangeEmail(r, u, e)
         \/ \E t \in Tokens : Open(r, t)
    \/ \E t \in Tokens : CancelInvitation(t) \/ Expire(t) \/ PurgeToken(t)
    \/ \E u \in Users : CancelChange(u) \/ (\E e \in Emails : CreateUser(u, e)) \/ \E on \in BOOLEAN : SetActive(u, on)

TokenSpec == TokenInit /\ [][TokenNext]_tokenVars

------------------------------------------------------------------------------
(* Properties.                                                              *)

\* Every variable keeps its type.
TokenTypeOK ==
    /\ token \in [Tokens -> [state : {"none", "valid", "expired", "used", "deleted"}, type : Types,
                             email : Emails \cup {NoEmail}, user : Users \cup {NoUser}]]
    /\ user \in [Users -> [email : Emails \cup {NoEmail}, pending : Emails \cup {NoEmail},
                           verified : BOOLEAN, active : BOOLEAN]]
    /\ mailer \in BOOLEAN
    /\ request \in [Requests -> [pc : {"idle", "issue", "change", "redeem"}, type : Types,
                        email : Emails \cup {NoEmail}, user : Users \cup {NoUser},
                        token : Tokens \cup {NoToken}, doomed : SUBSET Tokens]]
    /\ effects \in [Tokens -> Nat] /\ proved \in [Users -> SUBSET Emails]
    /\ crossed \in [Types \X Emails -> Nat] /\ calls \in 0..MaxCalls

\* A link works once: of two requests that redeem one token, at most one succeeds.  An
\* invitation is not consumed on a condition: what makes it work once is that the
\* account it made holds the address, until that account moves to another.
LinkWorksOnce ==
    \A t \in Tokens : effects[t] <= 1 +
        IF token[t].type # "INVITATION" THEN 0
        ELSE Cardinality({u \in Accounts : token[t].email \in proved[u] /\ user[u].email # token[t].email})

\* "Solo puede haber un token vigente por destino" as far as the code goes: there is a
\* second valid token of a type and destination only when two issues of it crossed.
OneValidToken ==
    \A type \in Types, e \in Emails : Cardinality(Valid(type, e)) <= 1 + crossed[<<type, e>>]

\* With a mail server, an address counts as verified only when a link sent to that very
\* address was opened, whatever was requested, replaced or cancelled meanwhile.
VerifiedIsProved ==
    mailer => \A u \in Accounts : user[u].verified => user[u].email \in proved[u]
==============================================================================
