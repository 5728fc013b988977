---------------------------- MODULE Accounts_proofs ----------------------------
(***************************************************************************)
(* Proofs about signing in and about the links sent by e-mail, for any      *)
(* number of requests served at once, accounts, addresses and codes.        *)
(*                                                                          *)
(* A request works with a copy of the row across its awaits: the invariants *)
(* say what is still true of the copy when the request writes.  Two of the  *)
(* properties bound what crossing requests may do by counting the requests  *)
(* between their read and their write.                                      *)
(***************************************************************************)
EXTENDS AccountTokens, LoginSessions, FiniteSetTheorems, TLAPS

------------------------------------------------------------------------------
(* Signing in: the types.                                                   *)

AccountRow == [pw : Nat, ver : Nat, mfa : BOOLEAN, pending : BOOLEAN,
               codes : SUBSET (Generations \X Codes), active : BOOLEAN]

\* An account without a lock is short of the failures that lock it.
AttemptsRow == {row \in [failures : Nat, lock : {"none", "on", "over"}, old : BOOLEAN] :
                  row.lock = "none" => row.failures < MaxFailures}

Steps == {"idle", "login", "miss", "write", "second", "code", "finish", "change", "link",
          "admin", "enable"}

ClientRecord == [pc : Steps, seen : AccountRow, second : BOOLEAN,
                 code : (Generations \X Codes) \cup {<<0, 0>>}, prev : AttemptsRow]

SessionRecord == [ver : Nat, pw : Nat, mfa : BOOLEAN, second : BOOLEAN,
                  by : {"login", "change", "reset", "move"}]

LoginTyped ==
    /\ account \in AccountRow
    /\ attempts \in AttemptsRow
    /\ client \in [Clients -> ClientRecord]
    /\ sessions \subseteq SessionRecord
    /\ challenges \subseteq [ver : Nat, pw : Nat]
    /\ uses \in [Generations \X Codes -> Nat]
    /\ missed \in Nat /\ lost \in Nat /\ staleWrites \in Nat
    /\ served \in 0..MaxRequests

\* Sessions and copies are of the row's version or an older one; those of the same
\* version know the password in force; and who finishes a login of an account with the
\* second step has passed it.
SessionInv ==
    /\ \A s \in sessions : /\ s.ver <= account.ver
                           /\ s.ver = account.ver => s.pw = account.pw
                           /\ s.mfa /\ s.by # "move" => s.second
    /\ \A c \in Clients : LET seen == client[c].seen IN
         client[c].pc # "idle" =>
           /\ seen.ver <= account.ver
           /\ seen.ver = account.ver => seen.pw = account.pw
           /\ client[c].pc = "finish" /\ seen.mfa => client[c].second

\* A code that is in the row has one more use to give; a code that was used, or that a
\* copy holds, is of an activation before the next request's.
CodeInv ==
    /\ \A x \in Generations \X Codes : /\ uses[x] <= 1 + staleWrites
                                       /\ uses[x] > 0 => x[1] <= served
    /\ \A x \in account.codes : uses[x] <= staleWrites /\ x[1] <= served + 1
    /\ \A c \in Clients : client[c].pc \in {"second", "code"} =>
         /\ \A x \in client[c].seen.codes : x[1] <= served
         /\ client[c].pc = "code" => client[c].code \in client[c].seen.codes

\* The requests between reading the row of the failures and writing it.
Writers == {c \in Clients : client[c].pc = "write"}

\* Every failure is in the row, is about to be, or was lost: the row as it stands and as
\* each writer will leave it count the failures but for those lost, and of several
\* writers all but one have been counted as lost.
LockInv ==
    /\ Cardinality(Writers) <= lost + 1
    /\ missed <= attempts.failures + lost
    /\ missed + Cardinality(Writers) <= attempts.failures + lost + 1
    /\ \A c \in Writers :
         Restarts(attempts) \/
         missed + Cardinality(Writers) <= NextFailureState(client[c].prev).failures + lost

LoginInv == LoginTyped /\ SessionInv /\ CodeInv /\ LockInv

------------------------------------------------------------------------------
(* What a step does to the request it serves.                               *)

\* The step is of request c: the others keep their records.
Only(c) ==
    /\ client' \in [Clients -> ClientRecord]
    /\ \A d \in Clients \ {c} : client'[d] = client[d]

\* The constants of the rows have the types.
LEMMA RowsAtRest ==
    /\ NoAttempts \in AttemptsRow /\ NoAttempts.failures = 0 /\ NoAttempts.lock = "none"
    /\ AtRest \in ClientRecord /\ AtRest.pc = "idle"
<1>1. NoAttempts \in AttemptsRow /\ NoAttempts.failures = 0 /\ NoAttempts.lock = "none"
  BY LoginAssumption DEF NoAttempts, AttemptsRow
<1>2. AtRest.seen \in AccountRow
  BY DEF AtRest, AccountRow
<1> QED
  BY <1>1, <1>2 DEF AtRest, ClientRecord, Steps

\* The fields of a request's record.
LEMMA FieldOfClient ==
    ASSUME NEW k \in ClientRecord
    PROVE  /\ k.pc \in Steps /\ k.seen \in AccountRow /\ k.second \in BOOLEAN
           /\ k.code \in (Generations \X Codes) \cup {<<0, 0>>} /\ k.prev \in AttemptsRow
BY DEF ClientRecord

\* A new record for one request leaves the others'.
LEMMA ClientWritten ==
    ASSUME client \in [Clients -> ClientRecord], NEW c \in Clients, NEW k \in ClientRecord,
           client' = [client EXCEPT ![c] = k]
    PROVE  Only(c) /\ client'[c] = k
BY DEF Only

\* A request moves on, with its record otherwise as it was.
LEMMA ContinueEffect ==
    ASSUME client \in [Clients -> ClientRecord], NEW c \in Clients, NEW pc \in Steps,
           Continue(c, pc)
    PROVE  /\ Only(c) /\ client'[c].pc = pc /\ client'[c].seen = client[c].seen
           /\ client'[c].second = client[c].second /\ client'[c].code = client[c].code
           /\ client'[c].prev = client[c].prev
<1> DEFINE k == [client[c] EXCEPT !.pc = pc]
<1>1. k \in ClientRecord
  BY DEF ClientRecord
<1>2. client' = [client EXCEPT ![c] = k]
  BY DEF Continue
<1>3. /\ k.pc = pc /\ k.seen = client[c].seen /\ k.second = client[c].second
      /\ k.code = client[c].code /\ k.prev = client[c].prev
  BY DEF ClientRecord
<1> HIDE DEF k
<1> QED
  BY <1>1, <1>2, <1>3, ClientWritten

\* A request that was answered is at rest.
LEMMA AnswerEffect ==
    ASSUME client \in [Clients -> ClientRecord], NEW c \in Clients, Answer(c)
    PROVE  Only(c) /\ client'[c].pc = "idle"
BY RowsAtRest, ClientWritten DEF Answer

\* A request starts with a copy of the row.
LEMMA ArriveEffect ==
    ASSUME LoginTyped, NEW c \in Clients, NEW pc \in Steps, Arrive(c, pc)
    PROVE  /\ Only(c) /\ client'[c].pc = pc /\ client'[c].seen = account
           /\ client[c].pc = "idle"
           /\ served' = served + 1 /\ served' \in 0..MaxRequests
<1> DEFINE k == [AtRest EXCEPT !.pc = pc, !.seen = account]
<1>1. k \in ClientRecord
  BY RowsAtRest DEF ClientRecord, LoginTyped
<1>2. client' = [client EXCEPT ![c] = k]
  BY DEF Arrive, LoginTyped
<1>3. k.pc = pc /\ k.seen = account
  BY DEF AtRest
<1> HIDE DEF k
<1>4. served' = served + 1 /\ served' \in 0..MaxRequests
  BY LoginAssumption DEF Arrive, Serve, LoginTyped
<1>5. client[c].pc = "idle"
  BY RowsAtRest DEF Arrive
<1> QED
  BY <1>1, <1>2, <1>3, <1>4, <1>5, ClientWritten DEF LoginTyped


\* A step that forgives leaves a row that starts again.
LEMMA ForgiveEffect ==
    ASSUME Forgive
    PROVE  /\ attempts' \in AttemptsRow /\ attempts'.failures = 0 /\ attempts'.lock = "none"
           /\ missed' = 0
BY RowsAtRest DEF Forgive

\* nextFailureState: one failure, or one more; the lock is on from MaxFailures on.
LEMMA NextFailure ==
    ASSUME NEW row \in AttemptsRow
    PROVE  /\ NextFailureState(row) \in AttemptsRow
           /\ ~Restarts(NextFailureState(row))
           /\ NextFailureState(row).failures = IF Restarts(row) THEN 1 ELSE row.failures + 1
           /\ row.failures \in Nat
<1> DEFINE n == IF Restarts(row) THEN 1 ELSE row.failures + 1
<1>1. row.failures \in Nat /\ n \in Nat /\ n # 0
  BY DEF AttemptsRow
<1>2. NextFailureState(row) = [failures |-> n, lock |-> IF n >= MaxFailures THEN "on" ELSE "none",
                               old |-> FALSE]
  BY DEF NextFailureState
<1> HIDE DEF n
<1>3. NextFailureState(row) \in AttemptsRow
  BY <1>1, <1>2, LoginAssumption DEF AttemptsRow
<1>4. ~Restarts(NextFailureState(row)) /\ NextFailureState(row).failures = n
  BY <1>1, <1>2 DEF Restarts
<1> QED
  BY <1>1, <1>3, <1>4 DEF n

\* A change of the password raises both numbers and leaves the rest.
LEMMA NewPasswordRow ==
    ASSUME account \in AccountRow
    PROVE  /\ NewPassword \in AccountRow
           /\ NewPassword.ver = account.ver + 1 /\ NewPassword.mfa = account.mfa
           /\ NewPassword.codes = account.codes
<1>1. /\ account.pw + 1 \in Nat /\ account.ver + 1 \in Nat
  BY DEF AccountRow
<1>2. NewPassword = [account EXCEPT !.pw = account.pw + 1, !.ver = account.ver + 1]
  BY DEF NewPassword
<1> QED
  BY <1>1, <1>2 DEF AccountRow

\* A new session carries the version, the password and the mark of the copy.
LEMMA GrantEffect ==
    ASSUME sessions \subseteq SessionRecord, NEW seen \in AccountRow, NEW second \in BOOLEAN,
           NEW by \in {"login", "change", "reset", "move"}, Grant(seen, second, by)
    PROVE  /\ sessions' \subseteq SessionRecord /\ challenges' = challenges
           /\ \A s \in sessions' : \/ s \in sessions
                                   \/ /\ s.ver = seen.ver /\ s.pw = seen.pw /\ s.mfa = seen.mfa
                                      /\ s.second = second /\ s.by = by
<1> DEFINE new == [ver |-> seen.ver, pw |-> seen.pw, mfa |-> seen.mfa, second |-> second, by |-> by]
<1>1. new \in SessionRecord
  BY DEF AccountRow, SessionRecord
<1>2. /\ new.ver = seen.ver /\ new.pw = seen.pw /\ new.mfa = seen.mfa /\ new.second = second
      /\ new.by = by
  OBVIOUS
<1>3. sessions' = sessions \cup {new} /\ challenges' = challenges
  BY DEF Grant
<1> HIDE DEF new
<1> QED
  BY <1>1, <1>2, <1>3

\* A challenge leaves the sessions as they were.
LEMMA ChallengeEffect ==
    ASSUME challenges \subseteq [ver : Nat, pw : Nat], NEW seen \in AccountRow, Challenge(seen)
    PROVE  challenges' \subseteq [ver : Nat, pw : Nat] /\ sessions' = sessions
<1>1. [ver |-> seen.ver, pw |-> seen.pw] \in [ver : Nat, pw : Nat]
  BY DEF AccountRow
<1> QED
  BY <1>1 DEF Challenge

\* The password is looked at: the request fails, is refused, gets a challenge, or goes on
\* with a fresh copy of a row without the second step.
LEMMA CheckPasswordEffect ==
    ASSUME LoginTyped, NEW c \in Clients, NEW right \in BOOLEAN, CheckPassword(c, right)
    PROVE  /\ Only(c) /\ client[c].pc = "login" /\ client'[c].pc \in {"miss", "idle", "finish"}
           /\ client'[c].pc = "miss" => client'[c].seen = client[c].seen
           /\ client'[c].pc = "finish" => client'[c].seen = account /\ ~account.mfa
           /\ challenges' \subseteq [ver : Nat, pw : Nat] /\ sessions' = sessions
           /\ UNCHANGED <<account, attempts, uses, missed, lost, staleWrites, served>>
<1>1. client[c].pc = "login" /\ UNCHANGED <<account, attempts, uses, missed, lost, staleWrites, served>>
  BY DEF CheckPassword, ghostVars
<1>2. CASE ~right /\ Continue(c, "miss") /\ UNCHANGED <<sessions, challenges>>
  BY <1>1, <1>2, ContinueEffect DEF LoginTyped, Steps
<1>3. CASE Answer(c) /\ UNCHANGED <<sessions, challenges>>
  BY <1>1, <1>3, AnswerEffect DEF LoginTyped
<1>4. CASE Challenge(account) /\ Answer(c)
  BY <1>1, <1>4, AnswerEffect, ChallengeEffect DEF LoginTyped
<1>5. CASE /\ ~account.mfa
           /\ client' = [client EXCEPT ![c].pc = "finish", ![c].seen = account]
           /\ UNCHANGED <<sessions, challenges>>
  <2> DEFINE k == [client[c] EXCEPT !.pc = "finish", !.seen = account]
  <2>1. k \in ClientRecord
    BY DEF ClientRecord, LoginTyped, Steps
  <2>2. client' = [client EXCEPT ![c] = k]
    BY <1>5 DEF LoginTyped
  <2>3. k.pc = "finish" /\ k.seen = account
    BY DEF LoginTyped, ClientRecord
  <2> HIDE DEF k
  <2> QED
    BY <1>1, <1>5, <2>1, <2>2, <2>3, ClientWritten DEF LoginTyped
<1> QED
  BY <1>2, <1>3, <1>4, <1>5 DEF CheckPassword

\* The second step: refused under a lock, passed, failed, or a code of the copy to use.
LEMMA CheckCodeEffect ==
    ASSUME LoginTyped, NEW c \in Clients, CheckCode(c)
    PROVE  /\ Only(c) /\ client[c].pc = "second"
           /\ client'[c].pc \in {"idle", "finish", "miss", "code"}
           /\ client'[c].pc # "idle" => client'[c].seen = client[c].seen
           /\ client'[c].pc = "finish" => client'[c].second
           /\ client'[c].pc = "code" => client'[c].code \in client[c].seen.codes
           /\ UNCHANGED <<account, attempts, sessions, challenges, uses, missed, lost, staleWrites,
                          served>>
<1>1. /\ client[c].pc = "second"
      /\ UNCHANGED <<account, attempts, sessions, challenges, uses, missed, lost, staleWrites, served>>
  BY DEF CheckCode, ghostVars
<1>2. client[c] \in ClientRecord /\ client \in [Clients -> ClientRecord]
  BY DEF LoginTyped
<1>3. CASE Answer(c)
  BY <1>1, <1>2, <1>3, AnswerEffect
<1>4. CASE client' = [client EXCEPT ![c].pc = "finish", ![c].second = TRUE]
  <2> DEFINE k == [client[c] EXCEPT !.pc = "finish", !.second = TRUE]
  <2>1. k \in ClientRecord /\ k.pc = "finish" /\ k.second /\ k.seen = client[c].seen
    BY <1>2 DEF ClientRecord, Steps
  <2>2. client' = [client EXCEPT ![c] = k]
    BY <1>2, <1>4
  <2> HIDE DEF k
  <2> QED
    BY <1>1, <1>2, <2>1, <2>2, ClientWritten
<1>5. CASE Continue(c, "miss")
  BY <1>1, <1>2, <1>5, ContinueEffect DEF Steps
<1>6. ASSUME NEW x \in client[c].seen.codes,
             client' = [client EXCEPT ![c].pc = "code", ![c].code = x]
      PROVE  Only(c) /\ client'[c].pc = "code" /\ client'[c].seen = client[c].seen
             /\ client'[c].code = x
  <2> DEFINE k == [client[c] EXCEPT !.pc = "code", !.code = x]
  <2>1. x \in Generations \X Codes
    BY <1>2 DEF ClientRecord, AccountRow
  <2>2. k \in ClientRecord /\ k.pc = "code" /\ k.code = x /\ k.seen = client[c].seen
    BY <1>2, <2>1 DEF ClientRecord, Steps
  <2>3. client' = [client EXCEPT ![c] = k]
    BY <1>2, <1>6
  <2> HIDE DEF k
  <2> QED
    BY <1>2, <2>2, <2>3, ClientWritten
<1> QED
  BY <1>1, <1>3, <1>4, <1>5, <1>6 DEF CheckCode

\* A recovery code: it was in the row and leaves with the codes the copy did not have, or
\* the attempt fails.
LEMMA UseCodeEffect ==
    ASSUME LoginTyped, NEW c \in Clients, UseCode(c)
    PROVE  /\ Only(c) /\ client[c].pc = "code" /\ client'[c].seen = client[c].seen
           /\ UNCHANGED <<attempts, sessions, challenges, missed, lost, served>>
           /\ \/ LET x == client[c].code IN
                 /\ client'[c].pc = "finish" /\ client'[c].second
                 /\ x \in account.codes
                 /\ account' \in AccountRow
                 /\ account'.ver = account.ver /\ account'.pw = account.pw
                 /\ account'.codes = client[c].seen.codes \ {x}
                 /\ uses' = [uses EXCEPT ![x] = uses[x] + 1]
                 /\ staleWrites' = staleWrites + IF account.codes = client[c].seen.codes THEN 0 ELSE 1
              \/ client'[c].pc = "miss" /\ UNCHANGED <<account, uses, staleWrites>>
<1> DEFINE x == client[c].code
<1>1. /\ client[c].pc = "code" /\ UNCHANGED <<attempts, sessions, challenges, missed, lost, served>>
      /\ client[c] \in ClientRecord /\ client \in [Clients -> ClientRecord]
  BY DEF UseCode, LoginTyped
<1>2. CASE /\ x \in account.codes
           /\ account' = [account EXCEPT !.codes = client[c].seen.codes \ {x}]
           /\ uses' = [uses EXCEPT ![x] = @ + 1]
           /\ staleWrites' = staleWrites + IF account.codes = client[c].seen.codes THEN 0 ELSE 1
           /\ client' = [client EXCEPT ![c].pc = "finish", ![c].second = TRUE]
  <2> DEFINE k == [client[c] EXCEPT !.pc = "finish", !.second = TRUE]
  <2>1. k \in ClientRecord /\ k.pc = "finish" /\ k.second /\ k.seen = client[c].seen
    BY <1>1 DEF ClientRecord, Steps
  <2>2. client' = [client EXCEPT ![c] = k]
    BY <1>1, <1>2
  <2>3. Only(c) /\ client'[c] = k
    <3> HIDE DEF k
    <3> QED
      BY <1>1, <2>1, <2>2, ClientWritten
  <2>4. /\ account' \in AccountRow /\ account'.codes = client[c].seen.codes \ {x}
        /\ account'.ver = account.ver /\ account'.pw = account.pw
    <3>1. client[c].seen.codes \ {x} \in SUBSET (Generations \X Codes)
      BY <1>1 DEF ClientRecord, AccountRow
    <3> HIDE DEF x
    <3> QED
      BY <1>2, <3>1 DEF AccountRow, LoginTyped
  <2>5. uses' = [uses EXCEPT ![x] = uses[x] + 1]
    BY <1>2
  <2> HIDE DEF k
  <2> QED
    BY <1>1, <1>2, <2>1, <2>3, <2>4, <2>5
<1>3. CASE Continue(c, "miss") /\ UNCHANGED <<account, uses, staleWrites>>
  BY <1>1, <1>3, ContinueEffect DEF Steps
<1> QED
  BY <1>2, <1>3 DEF UseCode

\* The row of the failures is read; it counts as lost while another has read it.
LEMMA ReadFailuresEffect ==
    ASSUME LoginTyped, NEW c \in Clients, ReadFailures(c)
    PROVE  /\ Only(c) /\ client[c].pc = "miss" /\ client'[c].pc = "write"
           /\ client'[c].seen = client[c].seen /\ client'[c].prev = attempts
           /\ lost' = lost + IF \E d \in Clients : client[d].pc = "write" THEN 1 ELSE 0
           /\ lost' \in Nat
           /\ UNCHANGED <<account, attempts, sessions, challenges, uses, missed, staleWrites, served>>
<1> DEFINE k == [client[c] EXCEPT !.pc = "write", !.prev = attempts]
<1>1. k \in ClientRecord /\ k.pc = "write" /\ k.prev = attempts /\ k.seen = client[c].seen
  BY DEF ClientRecord, Steps, LoginTyped
<1>2. client' = [client EXCEPT ![c] = k]
  BY DEF ReadFailures, LoginTyped
<1>3. Only(c) /\ client'[c] = k
  <2> HIDE DEF k
  <2> QED
    BY <1>1, <1>2, ClientWritten DEF LoginTyped
<1>4. lost' = lost + (IF \E d \in Clients : client[d].pc = "write" THEN 1 ELSE 0) /\ lost' \in Nat
  BY DEF ReadFailures, LoginTyped
<1> HIDE DEF k
<1> QED
  BY <1>1, <1>3, <1>4 DEF ReadFailures

\* The row of the failures is written from what was read.
LEMMA WriteFailuresEffect ==
    ASSUME LoginTyped, NEW c \in Clients, WriteFailures(c)
    PROVE  /\ Only(c) /\ client[c].pc = "write" /\ client'[c].pc = "idle"
           /\ attempts' = NextFailureState(client[c].prev) /\ attempts' \in AttemptsRow
           /\ missed' = (IF Restarts(attempts) THEN 1 ELSE missed + 1) /\ missed' \in Nat
           /\ UNCHANGED <<account, sessions, challenges, uses, lost, staleWrites, served>>
<1>1. client[c].prev \in AttemptsRow
  BY FieldOfClient DEF LoginTyped
<1>2. NextFailureState(client[c].prev) \in AttemptsRow
  BY <1>1, NextFailure
<1> QED
  BY <1>2, AnswerEffect DEF WriteFailures, LoginTyped

\* The row of the account, as the steps that change it leave it.
LEMMA AccountWritten ==
    ASSUME LoginTyped
    PROVE  /\ \A on \in BOOLEAN : [account EXCEPT !.active = on] \in AccountRow
           /\ [account EXCEPT !.pending = TRUE] \in AccountRow
           /\ [account EXCEPT !.ver = account.ver + 1] \in AccountRow
           /\ [account EXCEPT !.mfa = FALSE, !.pending = FALSE, !.codes = {}] \in AccountRow
<1>1. account \in AccountRow /\ account.ver + 1 \in Nat
  BY DEF LoginTyped, AccountRow
<1>2. \A on \in BOOLEAN : [account EXCEPT !.active = on] \in AccountRow
  BY <1>1 DEF AccountRow
<1>3. [account EXCEPT !.pending = TRUE] \in AccountRow
  BY <1>1 DEF AccountRow
<1>4. [account EXCEPT !.ver = account.ver + 1] \in AccountRow
  BY <1>1 DEF AccountRow
<1>5. [account EXCEPT !.mfa = FALSE, !.pending = FALSE, !.codes = {}] \in AccountRow
  BY <1>1 DEF AccountRow
<1> QED
  BY <1>2, <1>3, <1>4, <1>5

\* The codes of an activation are of the generation after the requests served.
LEMMA EnableWriteEffect ==
    ASSUME LoginTyped, NEW c \in Clients, EnableWrite(c)
    PROVE  /\ Only(c) /\ client[c].pc = "enable" /\ client'[c].pc = "idle"
           /\ account' \in AccountRow
           /\ account'.ver = account.ver /\ account'.pw = account.pw
           /\ account'.codes = {served + 1} \X Codes
           /\ UNCHANGED <<attempts, sessions, challenges, uses, missed, lost, staleWrites, served>>
<1> DEFINE new == {served + 1} \X Codes
<1>1. new \in SUBSET (Generations \X Codes)
  <2>1. served + 1 \in Generations
    BY LoginAssumption DEF LoginTyped, Generations
  <2> QED
    BY <2>1
<1>2. account' = [account EXCEPT !.mfa = TRUE, !.pending = FALSE, !.codes = new]
  BY DEF EnableWrite
<1>3. /\ account' \in AccountRow /\ account'.codes = new
      /\ account'.ver = account.ver /\ account'.pw = account.pw
  <2> HIDE DEF new
  <2> QED
    BY <1>1, <1>2 DEF LoginTyped, AccountRow
<1> QED
  BY <1>3, AnswerEffect DEF EnableWrite, ghostVars, LoginTyped

------------------------------------------------------------------------------
(* The types are kept.                                                      *)

\* The start has the types of the accounts and of the requests.
LEMMA LoginStarts == LoginInit => LoginTyped
<1> SUFFICES ASSUME LoginInit PROVE LoginTyped
  OBVIOUS
<1>1. account \in AccountRow
  <2>1. {1} \X Codes \in SUBSET (Generations \X Codes) /\ {} \in SUBSET (Generations \X Codes)
    BY LoginAssumption DEF Generations
  <2>2. ASSUME NEW all \in SUBSET (Generations \X Codes), NEW mfa \in BOOLEAN,
               account \in [pw : {1}, ver : {0}, mfa : {mfa}, pending : {FALSE}, codes : {all},
                            active : {TRUE}]
        PROVE  account \in AccountRow
    <3>1. account = [pw |-> 1, ver |-> 0, mfa |-> mfa, pending |-> FALSE, codes |-> all,
                     active |-> TRUE]
      BY <2>2
    <3> QED
      BY <3>1 DEF AccountRow
  <2> QED
    BY <2>1, <2>2 DEF LoginInit
<1>2. attempts \in AttemptsRow /\ client \in [Clients -> ClientRecord]
  BY RowsAtRest DEF LoginInit
<1>3. uses \in [Generations \X Codes -> Nat]
  BY DEF LoginInit
<1> QED
  BY <1>1, <1>2, <1>3, LoginAssumption DEF LoginInit, LoginTyped

\* Every step keeps the types of all variables.
LEMMA LoginTypesStep == LoginTyped /\ [LoginNext]_loginVars => LoginTyped'
<1> SUFFICES ASSUME LoginTyped, [LoginNext]_loginVars PROVE LoginTyped'
  OBVIOUS
<1>1. CASE UNCHANGED loginVars
  BY <1>1 DEF LoginTyped, loginVars
<1>2. ASSUME NEW c \in Clients, Login(c) PROVE LoginTyped'
  BY <1>2, ArriveEffect DEF Login, LoginTyped, ghostVars, Steps, Only
<1>3. ASSUME NEW c \in Clients, SecondStep(c) PROVE LoginTyped'
  BY <1>3, ArriveEffect DEF SecondStep, LoginTyped, ghostVars, Steps, Only
<1>4. ASSUME NEW c \in Clients, CheckCode(c) PROVE LoginTyped'
  BY <1>4, CheckCodeEffect DEF LoginTyped, Only
<1>5. ASSUME NEW c \in Clients, UseCode(c) PROVE LoginTyped'
  <2>1. uses' \in [Generations \X Codes -> Nat] /\ staleWrites' \in Nat /\ account' \in AccountRow
    BY <1>5, UseCodeEffect DEF LoginTyped
  <2> QED
    BY <1>5, <2>1, UseCodeEffect DEF LoginTyped, Only
<1>6. ASSUME NEW c \in Clients, FinishLogin(c) PROVE LoginTyped'
  <2>1. client[c].seen \in AccountRow /\ client[c].second \in BOOLEAN
    BY FieldOfClient DEF LoginTyped
  <2> QED
    BY <1>6, <2>1, AnswerEffect, GrantEffect, ForgiveEffect DEF FinishLogin, LoginTyped, Only
<1>7. ASSUME NEW c \in Clients, ReadFailures(c) PROVE LoginTyped'
  BY <1>7, ReadFailuresEffect DEF LoginTyped, Only
<1>8. ASSUME NEW c \in Clients, WriteFailures(c) PROVE LoginTyped'
  BY <1>8, WriteFailuresEffect DEF LoginTyped, Only
<1>9. ASSUME NEW c \in Clients, ChangePassword(c) PROVE LoginTyped'
  BY <1>9, ArriveEffect DEF ChangePassword, LoginTyped, ghostVars, Steps, Only
<1>10. ASSUME NEW c \in Clients, ChangeWrite(c) PROVE LoginTyped'
  BY <1>10, NewPasswordRow, AnswerEffect, GrantEffect DEF ChangeWrite, LoginTyped, ghostVars, Only
<1>11. ASSUME NEW c \in Clients, ResetByLink(c) PROVE LoginTyped'
  BY <1>11, ArriveEffect DEF ResetByLink, LoginTyped, ghostVars, Steps, Only
<1>12. ASSUME NEW c \in Clients, ResetWrite(c) PROVE LoginTyped'
  <2>1. sessions' \subseteq SessionRecord /\ challenges' \subseteq [ver : Nat, pw : Nat]
    BY <1>12, NewPasswordRow, GrantEffect, ChallengeEffect DEF ResetWrite, LoginTyped
  <2> QED
    BY <1>12, <2>1, NewPasswordRow, AnswerEffect, ForgiveEffect DEF ResetWrite, LoginTyped, Only
<1>13. ASSUME NEW c \in Clients, AdminReset(c) PROVE LoginTyped'
  BY <1>13, ArriveEffect, ForgiveEffect DEF AdminReset, LoginTyped, Steps, Only
<1>14. ASSUME NEW c \in Clients, AdminWrite(c) PROVE LoginTyped'
  BY <1>14, NewPasswordRow, AnswerEffect DEF AdminWrite, LoginTyped, ghostVars, Only
<1>15. ASSUME NEW c \in Clients, EnableMfa(c) PROVE LoginTyped'
  BY <1>15, ArriveEffect DEF EnableMfa, LoginTyped, ghostVars, Steps, Only
<1>16. ASSUME NEW c \in Clients, EnableWrite(c) PROVE LoginTyped'
  BY <1>16, EnableWriteEffect DEF LoginTyped, Only
<1>17. ASSUME NEW c \in Clients, NEW right \in BOOLEAN, CheckPassword(c, right) PROVE LoginTyped'
  BY <1>17, CheckPasswordEffect DEF LoginTyped, Only
<1>18. CASE LockEnds
  <2>1. attempts' \in AttemptsRow
    BY <1>18 DEF LockEnds, LoginTyped, AttemptsRow
  <2> QED
    BY <1>18, <2>1 DEF LockEnds, LoginTyped, ghostVars
<1>19. CASE FailuresAge
  <2>1. attempts' \in AttemptsRow
    BY <1>19 DEF FailuresAge, LoginTyped, AttemptsRow
  <2> QED
    BY <1>19, <2>1 DEF FailuresAge, LoginTyped, ghostVars
<1>20. CASE PurgeAttempts
  BY <1>20, ForgiveEffect DEF PurgeAttempts, LoginTyped
<1>21. Serve => served' \in 0..MaxRequests
  BY LoginAssumption DEF Serve, LoginTyped
<1>22. CASE SetUpMfa
  BY <1>22, <1>21, AccountWritten DEF SetUpMfa, LoginTyped, ghostVars
<1>23. CASE DisableMfa
  BY <1>23, <1>21, AccountWritten DEF DisableMfa, LoginTyped, ghostVars
<1>24. ASSUME NEW on \in BOOLEAN, SetAccountActive(on) PROVE LoginTyped'
  BY <1>24, <1>21, AccountWritten DEF SetAccountActive, LoginTyped, ghostVars
<1>25. ASSUME NEW on \in BOOLEAN, MoveAddress(on) PROVE LoginTyped'
  <2>1. account' = [account EXCEPT !.ver = account.ver + 1] /\ account' \in AccountRow
    BY <1>25, AccountWritten DEF MoveAddress, LoginTyped
  <2>2. \/ Grant(account', FALSE, "move")
        \/ UNCHANGED <<sessions, challenges>>
    BY <1>25, <2>1 DEF MoveAddress
  <2>3. sessions' \subseteq SessionRecord /\ challenges' = challenges
    BY <2>1, <2>2, GrantEffect DEF LoginTyped
  <2> QED
    BY <1>25, <1>21, <2>1, <2>3, ForgiveEffect DEF MoveAddress, LoginTyped
<1> QED
  BY <1>1, <1>2, <1>3, <1>4, <1>5, <1>6, <1>7, <1>8, <1>9, <1>10, <1>11, <1>12, <1>13, <1>14, <1>15,
     <1>16, <1>17, <1>18, <1>19, <1>20, <1>22, <1>23, <1>24, <1>25 DEF LoginNext

------------------------------------------------------------------------------
(* Sessions follow the password.                                            *)

\* A copy that was made in this step, or that the request has worked with.
Copied(d) ==
    /\ \/ client'[d].seen = account
       \/ client'[d].seen = client[d].seen /\ client[d].pc # "idle"
    /\ client'[d].pc = "finish" /\ client'[d].seen.mfa => client'[d].second

\* The numbers of the row stay: what is old stays old.
LEMMA VersionKept ==
    ASSUME LoginTyped, SessionInv,
           account'.ver = account.ver, account'.pw = account.pw,
           sessions' = sessions,
           \A d \in Clients : client'[d] = client[d] \/ client'[d].pc = "idle" \/ Copied(d)
    PROVE  SessionInv'
<1>1. \A s \in sessions' : /\ s.ver <= account'.ver
                           /\ s.ver = account'.ver => s.pw = account'.pw
                           /\ s.mfa /\ s.by # "move" => s.second
  BY DEF SessionInv
<1>2. account.ver \in Nat
  BY DEF LoginTyped, AccountRow
<1>3. ASSUME NEW c \in Clients, client'[c].pc # "idle"
      PROVE  /\ client'[c].seen.ver <= account'.ver
             /\ client'[c].seen.ver = account'.ver => client'[c].seen.pw = account'.pw
             /\ client'[c].pc = "finish" /\ client'[c].seen.mfa => client'[c].second
  <2>1. CASE client'[c] = client[c]
    BY <1>3, <2>1 DEF SessionInv
  <2>2. CASE Copied(c)
    BY <1>2, <1>3, <2>2 DEF SessionInv, Copied
  <2> QED
    BY <1>3, <2>1, <2>2
<1> QED
  BY <1>1, <1>3 DEF SessionInv

\* The version goes up: all that there was is old, and what is new knows the password.
LEMMA VersionRaised ==
    ASSUME LoginTyped, SessionInv, account'.ver = account.ver + 1,
           \A s \in sessions' : \/ s \in sessions
                                \/ /\ s.ver = account'.ver /\ s.pw = account'.pw
                                   /\ s.mfa /\ s.by # "move" => s.second,
           \A d \in Clients : client'[d] = client[d] \/ client'[d].pc = "idle"
    PROVE  SessionInv'
<1>1. account.ver \in Nat
  BY DEF LoginTyped, AccountRow
<1>2. ASSUME NEW s \in sessions'
      PROVE  /\ s.ver <= account'.ver
             /\ s.ver = account'.ver => s.pw = account'.pw
             /\ s.mfa /\ s.by # "move" => s.second
  <2>1. CASE s \in sessions
    <3>1. s.ver \in Nat /\ s.ver <= account.ver /\ (s.mfa /\ s.by # "move" => s.second)
      BY <2>1 DEF SessionInv, LoginTyped, SessionRecord
    <3> QED
      BY <1>1, <3>1
  <2>2. CASE s.ver = account'.ver /\ s.pw = account'.pw /\ (s.mfa /\ s.by # "move" => s.second)
    BY <1>1, <2>2
  <2> QED
    BY <2>1, <2>2
<1>3. ASSUME NEW c \in Clients, client'[c].pc # "idle"
      PROVE  /\ client'[c].seen.ver <= account'.ver
             /\ client'[c].seen.ver = account'.ver => client'[c].seen.pw = account'.pw
             /\ client'[c].pc = "finish" /\ client'[c].seen.mfa => client'[c].second
  <2>1. client'[c] = client[c]
    BY <1>3
  <2>2. client[c].seen.ver \in Nat
    BY FieldOfClient DEF LoginTyped, AccountRow
  <2> QED
    BY <1>1, <1>3, <2>1, <2>2 DEF SessionInv
<1> QED
  BY <1>2, <1>3 DEF SessionInv

\* A step keeps what a session records of the password and of the second factor it was
\* opened under: only a change of password or of the factor moves them, and both raise the
\* version of the account.
LEMMA SessionsStep == LoginTyped /\ SessionInv /\ [LoginNext]_loginVars => SessionInv'
<1> SUFFICES ASSUME LoginTyped, SessionInv, [LoginNext]_loginVars PROVE SessionInv'
  OBVIOUS
<1>1. CASE UNCHANGED loginVars
  BY <1>1 DEF SessionInv, loginVars
<1>2. ASSUME NEW c \in Clients, NEW pc \in Steps \ {"finish"}, Arrive(c, pc),
             UNCHANGED <<account, sessions>>
      PROVE  SessionInv'
  BY <1>2, ArriveEffect, VersionKept DEF Only, Copied
<1>3. ASSUME NEW c \in Clients, Login(c) \/ SecondStep(c) \/ ChangePassword(c) \/ ResetByLink(c)
                                \/ AdminReset(c) \/ EnableMfa(c)
      PROVE  SessionInv'
  BY <1>2, <1>3
     DEF Login, SecondStep, ChangePassword, ResetByLink, AdminReset, EnableMfa, Steps
<1>4. ASSUME NEW c \in Clients, CheckCode(c) PROVE SessionInv'
  BY <1>4, CheckCodeEffect, VersionKept DEF Only, Copied
<1>5. ASSUME NEW c \in Clients, UseCode(c) PROVE SessionInv'
  BY <1>5, UseCodeEffect, VersionKept DEF Only, Copied
<1>6. ASSUME NEW c \in Clients, FinishLogin(c) PROVE SessionInv'
  <2>1. /\ client[c].seen \in AccountRow /\ client[c].second \in BOOLEAN
        /\ client[c].pc = "finish" /\ account' = account
        /\ Grant(client[c].seen, client[c].second, "login") /\ Answer(c)
    BY <1>6, FieldOfClient DEF FinishLogin, LoginTyped
  <2>2. \A s \in sessions' : /\ s.ver <= account.ver
                             /\ s.ver = account.ver => s.pw = account.pw
                             /\ s.mfa /\ s.by # "move" => s.second
    BY <2>1, GrantEffect DEF SessionInv, LoginTyped
  <2>3. \A d \in Clients : client'[d] = client[d] \/ client'[d].pc = "idle"
    BY <2>1, AnswerEffect DEF LoginTyped, Only
  <2> QED
    BY <2>1, <2>2, <2>3 DEF SessionInv
<1>7. ASSUME NEW c \in Clients, ReadFailures(c) PROVE SessionInv'
  BY <1>7, ReadFailuresEffect, VersionKept DEF Only, Copied
<1>8. ASSUME NEW c \in Clients, WriteFailures(c) PROVE SessionInv'
  BY <1>8, WriteFailuresEffect, VersionKept DEF Only
<1>9. ASSUME NEW c \in Clients, NEW right \in BOOLEAN, CheckPassword(c, right) PROVE SessionInv'
  BY <1>9, CheckPasswordEffect, VersionKept DEF Only, Copied
<1>10. ASSUME NEW c \in Clients, EnableWrite(c) PROVE SessionInv'
  BY <1>10, EnableWriteEffect, VersionKept DEF Only
<1>11. ASSUME NEW c \in Clients, ChangeWrite(c) PROVE SessionInv'
  <2>1. /\ account' = NewPassword /\ Grant(NewPassword, TRUE, "change") /\ Answer(c)
    BY <1>11 DEF ChangeWrite
  <2> QED
    BY ZenonT(40), <2>1, NewPasswordRow, GrantEffect, AnswerEffect, VersionRaised DEF LoginTyped, Only
<1>12. ASSUME NEW c \in Clients, ResetWrite(c) PROVE SessionInv'
  <2>1. /\ account' = NewPassword /\ Answer(c)
        /\ IF NewPassword.mfa THEN Challenge(NewPassword) ELSE Grant(NewPassword, FALSE, "reset")
    BY <1>12 DEF ResetWrite
  <2>2. NewPassword \in AccountRow /\ NewPassword.ver = account.ver + 1
    BY NewPasswordRow DEF LoginTyped
  <2>3. \A s \in sessions' : \/ s \in sessions
                             \/ s.ver = account'.ver /\ s.pw = account'.pw /\ ~s.mfa
    BY <2>1, <2>2, GrantEffect, ChallengeEffect DEF LoginTyped
  <2> QED
    BY <2>1, <2>2, <2>3, AnswerEffect, VersionRaised DEF LoginTyped, Only
<1>13. ASSUME NEW c \in Clients, AdminWrite(c) PROVE SessionInv'
  <2>1. account' = NewPassword /\ sessions' = sessions /\ Answer(c)
    BY <1>13 DEF AdminWrite
  <2> QED
    BY <2>1, NewPasswordRow, AnswerEffect, VersionRaised DEF LoginTyped, Only
<1>14. CASE LockEnds \/ FailuresAge \/ PurgeAttempts
  BY <1>14 DEF LockEnds, FailuresAge, PurgeAttempts, SessionInv
<1>15. ASSUME SetUpMfa \/ DisableMfa \/ \E on \in BOOLEAN : SetAccountActive(on)
       PROVE  SessionInv'
  <2>1. account'.ver = account.ver /\ account'.pw = account.pw /\ UNCHANGED <<client, sessions>>
    BY <1>15 DEF SetUpMfa, DisableMfa, SetAccountActive, LoginTyped, AccountRow
  <2> QED
    BY <2>1, VersionKept
<1>16. ASSUME NEW on \in BOOLEAN, MoveAddress(on) PROVE SessionInv'
  <2>1. account' = [account EXCEPT !.ver = account.ver + 1] /\ account' \in AccountRow
    BY <1>16, AccountWritten DEF MoveAddress, LoginTyped
  <2>2. /\ Grant(account', FALSE, "move") \/ sessions' = sessions
        /\ client' = client
    BY <1>16, <2>1 DEF MoveAddress
  <2>3. account'.ver = account.ver + 1
    BY <2>1 DEF LoginTyped, AccountRow
  <2>4. \A s \in sessions' : \/ s \in sessions
                             \/ s.ver = account'.ver /\ s.pw = account'.pw /\ s.by = "move"
    BY <2>1, <2>2, GrantEffect DEF LoginTyped
  <2> QED
    BY <2>2, <2>3, <2>4, VersionRaised
<1> QED
  BY <1>1, <1>3, <1>4, <1>5, <1>6, <1>7, <1>8, <1>9, <1>10, <1>11, <1>12, <1>13, <1>14, <1>15, <1>16
     DEF LoginNext

------------------------------------------------------------------------------
(* Recovery codes.                                                          *)

\* The codes of a row are pairs of a generation and a code.
LEMMA CodesOfRow ==
    ASSUME NEW row \in AccountRow, NEW x \in row.codes
    PROVE  x \in Generations \X Codes /\ x[1] \in Nat
<1>1. x \in Generations \X Codes
  BY DEF AccountRow
<1>2. x[1] \in Generations
  BY <1>1
<1> QED
  BY <1>1, <1>2, LoginAssumption DEF Generations

\* A step that uses no code and adds none.
LEMMA CodesKept ==
    ASSUME LoginTyped, CodeInv, LoginTyped',
           account'.codes \subseteq account.codes, UNCHANGED <<uses, staleWrites>>,
           served' \in {served, served + 1},
           \A d \in Clients :
              \/ client'[d] = client[d]
              \/ client'[d].pc \notin {"second", "code"}
              \/ client'[d].pc = "second" /\ client'[d].seen = account /\ served' = served + 1
              \/ /\ client'[d].pc = "code" /\ client[d].pc = "second"
                 /\ client'[d].seen = client[d].seen
                 /\ client'[d].code \in client[d].seen.codes
    PROVE  CodeInv'
<1>1. served \in Nat /\ served <= served'
  BY LoginAssumption DEF LoginTyped
<1>2. \A x \in Generations \X Codes : x[1] \in Nat
  BY LoginAssumption DEF Generations
<1>3. ASSUME NEW x \in Generations \X Codes
      PROVE  uses'[x] <= 1 + staleWrites' /\ (uses'[x] > 0 => x[1] <= served')
  <2>1. x[1] \in Nat /\ uses' = uses /\ staleWrites' = staleWrites
    BY <1>2
  <2>2. uses[x] <= 1 + staleWrites /\ (uses[x] > 0 => x[1] <= served)
    BY DEF CodeInv
  <2> QED
    BY <1>1, <2>1, <2>2
<1>4. ASSUME NEW x \in account'.codes PROVE uses'[x] <= staleWrites' /\ x[1] <= served' + 1
  <2>1. x \in account.codes /\ x[1] \in Nat
    BY CodesOfRow DEF LoginTyped
  <2>2. uses[x] <= staleWrites /\ x[1] <= served + 1
    BY <2>1 DEF CodeInv
  <2> QED
    BY <1>1, <2>1, <2>2
<1>5. ASSUME NEW c \in Clients, client'[c].pc \in {"second", "code"}
      PROVE  /\ \A x \in client'[c].seen.codes : x[1] <= served'
             /\ client'[c].pc = "code" => client'[c].code \in client'[c].seen.codes
  <2>1. client[c] \in ClientRecord /\ client[c].seen \in AccountRow
    BY FieldOfClient DEF LoginTyped
  <2>2. \A x \in client[c].seen.codes : x[1] \in Nat
    BY <2>1, CodesOfRow
  <2>3. CASE client[c].pc \in {"second", "code"} /\ client'[c].seen = client[c].seen
    <3>1. \A x \in client[c].seen.codes : x[1] <= served
      BY <2>3 DEF CodeInv
    <3>2. \A x \in client'[c].seen.codes : x[1] <= served'
      BY <1>1, <2>2, <2>3, <3>1
    <3>3. client'[c].pc = "code" => client'[c].code \in client'[c].seen.codes
      BY <1>5, <2>3 DEF CodeInv
    <3> QED
      BY <3>2, <3>3
  <2>4. CASE client'[c].pc = "second" /\ client'[c].seen = account /\ served' = served + 1
    BY <2>4 DEF CodeInv
  <2> QED
    BY <1>5, <2>3, <2>4
<1> QED
  BY <1>3, <1>4, <1>5 DEF CodeInv

\* A code is used: it leaves the row, and what comes back is paid for by a stale write.
LEMMA CodeUsed ==
    ASSUME LoginTyped, CodeInv, NEW c \in Clients, UseCode(c)
    PROVE  CodeInv'
<1> DEFINE x == client[c].code
           seen == client[c].seen
<1>1. CASE client'[c].pc = "miss" /\ UNCHANGED <<account, uses, staleWrites>>
  <2>1. \A d \in Clients : client'[d] = client[d] \/ client'[d].pc \notin {"second", "code"}
    BY <1>1, UseCodeEffect DEF Only
  <2>2. served' = served
    BY UseCodeEffect
  <2> QED
    BY <1>1, <2>1, <2>2 DEF CodeInv
<1>2. CASE /\ client'[c].pc = "finish"
           /\ x \in account.codes
           /\ account'.codes = seen.codes \ {x}
           /\ uses' = [uses EXCEPT ![x] = uses[x] + 1]
           /\ staleWrites' = staleWrites + IF account.codes = seen.codes THEN 0 ELSE 1
  <2>1. /\ client[c].pc = "code" /\ served' = served /\ seen \in AccountRow
        /\ served \in Nat /\ staleWrites \in Nat
    BY UseCodeEffect, FieldOfClient, LoginAssumption DEF LoginTyped
  <2>2. /\ x \in seen.codes /\ x \in Generations \X Codes /\ x[1] \in Nat /\ x[1] <= served
        /\ uses[x] <= staleWrites
    <3>1. x \in seen.codes /\ x[1] <= served
      BY <2>1 DEF CodeInv
    <3>2. x \in Generations \X Codes /\ x[1] \in Nat
      BY <2>1, <3>1, CodesOfRow
    <3> QED
      BY <1>2, <3>1, <3>2 DEF CodeInv
  <2>3. staleWrites' \in Nat /\ staleWrites <= staleWrites'
    BY <1>2, <2>1
  <2> HIDE DEF x
  <2>4. ASSUME NEW y \in Generations \X Codes
        PROVE  uses'[y] <= 1 + staleWrites' /\ (uses'[y] > 0 => y[1] <= served')
    <3>1. uses[y] \in Nat /\ uses[y] <= 1 + staleWrites /\ (uses[y] > 0 => y[1] <= served)
      BY DEF CodeInv, LoginTyped
    <3>2. uses'[y] = IF y = x THEN uses[x] + 1 ELSE uses[y]
      BY <1>2, <2>2 DEF LoginTyped
    <3> QED
      BY <2>1, <2>2, <2>3, <3>1, <3>2
  <2>5. ASSUME NEW y \in account'.codes PROVE uses'[y] <= staleWrites' /\ y[1] <= served' + 1
    <3>1. y \in seen.codes /\ y # x
      BY <1>2
    <3>2. y \in Generations \X Codes /\ y[1] \in Nat
      BY <2>1, <3>1, CodesOfRow
    <3>3. y[1] <= served
      BY <2>1, <3>1 DEF CodeInv
    <3>4. uses'[y] = uses[y] /\ uses[y] \in Nat /\ uses[y] <= 1 + staleWrites
      BY <1>2, <3>1, <3>2 DEF LoginTyped, CodeInv
    <3>5. CASE account.codes = seen.codes
      <4>1. uses[y] <= staleWrites
        BY <3>1, <3>5 DEF CodeInv
      <4> QED
        BY <2>1, <2>3, <3>2, <3>3, <3>4, <4>1
    <3>6. CASE account.codes # seen.codes
      BY <1>2, <2>1, <3>2, <3>3, <3>4, <3>6
    <3> QED
      BY <3>5, <3>6
  <2>6. \A d \in Clients : client'[d].pc \in {"second", "code"} => client'[d] = client[d]
    BY <1>2, UseCodeEffect DEF Only
  <2> QED
    BY <2>1, <2>4, <2>5, <2>6 DEF CodeInv
<1> QED
  BY <1>1, <1>2, UseCodeEffect

\* A step uses up at most the code that a request saw in its own copy of the account.
LEMMA CodesStep == LoginTyped /\ CodeInv /\ [LoginNext]_loginVars => CodeInv'
<1> SUFFICES ASSUME LoginTyped, CodeInv, [LoginNext]_loginVars PROVE CodeInv'
  OBVIOUS
<1>1. CASE UNCHANGED loginVars
  BY <1>1 DEF CodeInv, loginVars
<1> LoginTyped'
  BY LoginTypesStep
<1>2. ASSUME NEW c \in Clients, NEW pc \in Steps \ {"code"}, Arrive(c, pc),
             UNCHANGED <<account, uses, staleWrites>>
      PROVE  CodeInv'
  BY <1>2, ArriveEffect, CodesKept DEF Only
<1>3. ASSUME NEW c \in Clients, Login(c) \/ SecondStep(c) \/ ChangePassword(c) \/ ResetByLink(c)
                                \/ AdminReset(c) \/ EnableMfa(c)
      PROVE  CodeInv'
  BY <1>2, <1>3
     DEF Login, SecondStep, ChangePassword, ResetByLink, AdminReset, EnableMfa, Steps, ghostVars
<1>4. ASSUME NEW c \in Clients, CheckCode(c) PROVE CodeInv'
  BY <1>4, CheckCodeEffect, CodesKept DEF Only
<1>5. ASSUME NEW c \in Clients, UseCode(c) PROVE CodeInv'
  BY <1>5, CodeUsed
<1>6. ASSUME NEW c \in Clients, FinishLogin(c) PROVE CodeInv'
  BY <1>6, AnswerEffect, CodesKept DEF FinishLogin, LoginTyped, Only
<1>7. ASSUME NEW c \in Clients, ReadFailures(c) PROVE CodeInv'
  BY <1>7, ReadFailuresEffect, CodesKept DEF Only
<1>8. ASSUME NEW c \in Clients, WriteFailures(c) PROVE CodeInv'
  BY <1>8, WriteFailuresEffect, CodesKept DEF Only
<1>9. ASSUME NEW c \in Clients, NEW right \in BOOLEAN, CheckPassword(c, right) PROVE CodeInv'
  BY <1>9, CheckPasswordEffect, CodesKept DEF Only
<1>10. ASSUME NEW c \in Clients, EnableWrite(c) PROVE CodeInv'
  <2>1. /\ account'.codes = {served + 1} \X Codes /\ UNCHANGED <<uses, staleWrites, served>>
        /\ \A d \in Clients : client'[d].pc \in {"second", "code"} => client'[d] = client[d]
    BY <1>10, EnableWriteEffect DEF Only
  <2>2. \A x \in account'.codes : x \in Generations \X Codes /\ x[1] = served + 1
    BY <2>1, CodesOfRow DEF LoginTyped
  <2>3. ASSUME NEW x \in account'.codes PROVE uses'[x] <= staleWrites' /\ x[1] <= served' + 1
    <3>1. x[1] = served + 1 /\ served \in Nat /\ uses[x] \in Nat /\ staleWrites \in Nat
      BY <2>2, LoginAssumption DEF LoginTyped
    <3>2. uses[x] > 0 => x[1] <= served
      BY <2>2 DEF CodeInv
    <3> QED
      BY <2>1, <3>1, <3>2
  <2> QED
    BY <2>1, <2>3 DEF CodeInv
<1>11. ASSUME NEW c \in Clients, ChangeWrite(c) \/ ResetWrite(c) \/ AdminWrite(c) PROVE CodeInv'
  <2>1. account' = NewPassword /\ Answer(c) /\ UNCHANGED <<uses, staleWrites, served>>
    BY <1>11 DEF ChangeWrite, ResetWrite, AdminWrite, ghostVars
  <2> QED
    BY <2>1, NewPasswordRow, AnswerEffect, CodesKept DEF LoginTyped, Only
<1>12. CASE LockEnds \/ FailuresAge \/ PurgeAttempts
  BY <1>12 DEF LockEnds, FailuresAge, PurgeAttempts, CodeInv, ghostVars
<1>13. ASSUME \/ SetUpMfa \/ DisableMfa
              \/ \E on \in BOOLEAN : SetAccountActive(on) \/ MoveAddress(on)
       PROVE  CodeInv'
  <2>1. /\ account'.codes \subseteq account.codes /\ served' = served + 1
        /\ UNCHANGED <<client, uses, staleWrites>>
    BY <1>13 DEF SetUpMfa, DisableMfa, SetAccountActive, MoveAddress, LoginTyped, AccountRow, Serve,
                 ghostVars
  <2> QED
    BY <2>1, CodesKept
<1> QED
  BY <1>1, <1>3, <1>4, <1>5, <1>6, <1>7, <1>8, <1>9, <1>10, <1>11, <1>12, <1>13 DEF LoginNext

------------------------------------------------------------------------------
(* The lock.                                                                *)

\* The number of writers is a number, and it follows a request in and out.
LEMMA WritersCount ==
    ASSUME NEW S \in SUBSET Clients, NEW c \in Clients
    PROVE  /\ Cardinality(S) \in Nat
           /\ c \notin S => Cardinality(S \cup {c}) = Cardinality(S) + 1
           /\ S = {} => Cardinality(S) = 0
           /\ S # {} => Cardinality(S) >= 1
<1>1. IsFiniteSet(S)
  BY LoginAssumption, FS_Subset
<1>2. Cardinality(S) \in Nat /\ (c \notin S => Cardinality(S \cup {c}) = Cardinality(S) + 1)
  BY <1>1, FS_CardinalityType, FS_AddElement
<1>3. S = {} <=> Cardinality(S) = 0
  BY <1>1, FS_EmptySet
<1> QED
  BY <1>2, <1>3

\* The numbers the lock counts with.
LEMMA LockNumbers ==
    ASSUME LoginTyped
    PROVE  /\ missed \in Nat /\ lost \in Nat /\ attempts.failures \in Nat
           /\ Cardinality(Writers) \in Nat
           /\ \A c \in Clients : /\ client[c].prev \in AttemptsRow
                                 /\ NextFailureState(client[c].prev).failures \in Nat
                                 /\ NextFailureState(client[c].prev).failures >= 1
<1>1. IsFiniteSet(Writers)
  BY LoginAssumption, FS_Subset DEF Writers
<1>2. Cardinality(Writers) \in Nat
  BY <1>1, FS_CardinalityType
<1>3. ASSUME NEW c \in Clients
      PROVE  /\ client[c].prev \in AttemptsRow
             /\ NextFailureState(client[c].prev).failures \in Nat
             /\ NextFailureState(client[c].prev).failures >= 1
  <2>1. client[c].prev \in AttemptsRow
    BY FieldOfClient DEF LoginTyped
  <2> QED
    BY <2>1, NextFailure
<1> QED
  BY <1>2, <1>3 DEF LoginTyped, AttemptsRow

\* The writers and what they read stay.
SameWriters ==
    \A d \in Clients : \/ client'[d] = client[d]
                       \/ client[d].pc # "write" /\ client'[d].pc # "write"

\* With the same writers, the row may start again or stay as good as it was.
LEMMA LockKept ==
    ASSUME LoginTyped, LockInv, SameWriters, lost' = lost,
           \/ missed' = 0 /\ Restarts(attempts)' /\ attempts'.failures = 0
           \/ /\ missed' = missed /\ attempts'.failures = attempts.failures
              /\ Restarts(attempts) => Restarts(attempts)'
    PROVE  LockInv'
<1>1. /\ Writers' = Writers
      /\ \A c \in Writers : c \in Clients /\ client'[c] = client[c]
  BY DEF SameWriters, Writers
<1>2. Cardinality(Writers)' = Cardinality(Writers)
  BY <1>1
<1>3. CASE missed' = 0 /\ Restarts(attempts)' /\ attempts'.failures = 0
  BY <1>2, <1>3, LockNumbers DEF LockInv
<1>4. CASE /\ missed' = missed /\ attempts'.failures = attempts.failures
           /\ Restarts(attempts) => Restarts(attempts)'
  <2>1. \A c \in Writers' :
          Restarts(attempts)' \/
          missed + Cardinality(Writers) <= NextFailureState(client[c].prev)'.failures + lost
    BY <1>1, <1>4 DEF LockInv, NextFailureState, Restarts
  <2> QED
    BY <1>2, <1>4, <2>1 DEF LockInv
<1> QED
  BY <1>3, <1>4

\* The row is read: the reader is one more writer, counted as lost if it is not alone.
LEMMA FailuresRead ==
    ASSUME LoginTyped, LockInv, NEW c \in Clients, ReadFailures(c)
    PROVE  LockInv'
<1> DEFINE n == Cardinality(Writers)
<1>1. /\ Writers' = Writers \cup {c} /\ c \notin Writers
      /\ \A d \in Writers : d \in Clients /\ client'[d] = client[d]
      /\ client'[c].prev = attempts /\ attempts' = attempts /\ missed' = missed
  BY ReadFailuresEffect DEF Writers, Only
<1>2. /\ Cardinality(Writers)' = n + 1 /\ n \in Nat
      /\ Writers = {} => n = 0
      /\ Writers # {} => n >= 1
  BY <1>1, WritersCount DEF Writers
<1>3. lost' = lost + IF Writers # {} THEN 1 ELSE 0
  BY ReadFailuresEffect DEF Writers
<1>4. /\ missed \in Nat /\ lost \in Nat /\ attempts.failures \in Nat
      /\ \A d \in Clients : NextFailureState(client[d].prev).failures \in Nat
  BY LockNumbers
<1>5. /\ n <= lost + 1 /\ missed <= attempts.failures + lost
      /\ missed + n <= attempts.failures + lost + 1
      /\ \A d \in Writers : Restarts(attempts) \/
                            missed + n <= NextFailureState(client[d].prev).failures + lost
  BY DEF LockInv
<1> HIDE DEF n
<1>6. /\ Cardinality(Writers)' <= lost' + 1 /\ missed' <= attempts'.failures + lost'
      /\ missed' + Cardinality(Writers)' <= attempts'.failures + lost' + 1
  BY <1>1, <1>2, <1>3, <1>4, <1>5
<1>7. ASSUME NEW d \in Writers', ~Restarts(attempts)
      PROVE  missed + n + 1 <= NextFailureState(client'[d].prev).failures + lost'
  <2>1. CASE d = c
    <3>1. NextFailureState(attempts).failures = attempts.failures + 1
      BY <1>7, NextFailure DEF LoginTyped
    <3> QED
      BY <1>1, <1>2, <1>3, <1>4, <1>5, <2>1, <3>1
  <2>2. CASE d # c
    <3>1. d \in Writers /\ d \in Clients /\ client'[d] = client[d]
      BY <1>1, <2>2
    <3>2. Writers # {}
      BY <3>1
    <3>3. missed + n <= NextFailureState(client[d].prev).failures + lost
      BY <1>5, <1>7, <3>1
    <3>4. lost' = lost + 1 /\ NextFailureState(client[d].prev).failures \in Nat
      BY <1>3, <1>4, <3>1, <3>2
    <3> QED
      BY <1>2, <1>4, <3>1, <3>3, <3>4
  <2> QED
    BY <2>1, <2>2
<1>8. \A d \in Writers' : Restarts(attempts)' \/
         missed' + Cardinality(Writers)' <= NextFailureState(client[d].prev)'.failures + lost'
  BY <1>1, <1>2, <1>4, <1>7 DEF NextFailureState, Restarts
<1> QED
  BY <1>6, <1>8 DEF LockInv

\* The row is written: it counts this failure, and the other writers are one fewer.
LEMMA FailuresWritten ==
    ASSUME LoginTyped, LockInv, NEW c \in Clients, WriteFailures(c)
    PROVE  LockInv'
<1> DEFINE n == Cardinality(Writers)
           m == Cardinality(Writers)'
           next == NextFailureState(client[c].prev)
<1>1. /\ Writers = Writers' \cup {c} /\ c \notin Writers' /\ c \in Writers
      /\ \A d \in Writers' : d \in Clients /\ d \in Writers /\ client'[d] = client[d]
      /\ attempts' = next /\ lost' = lost
      /\ missed' = (IF Restarts(attempts) THEN 1 ELSE missed + 1) /\ missed' \in Nat
  BY WriteFailuresEffect DEF Writers, Only
<1>2. n = m + 1 /\ m \in Nat
  <2>1. Writers' \in SUBSET Clients
    BY <1>1
  <2> QED
    BY <1>1, <2>1, WritersCount
<1>3. /\ missed \in Nat /\ lost \in Nat /\ attempts.failures \in Nat
      /\ \A d \in Clients : /\ NextFailureState(client[d].prev).failures \in Nat
                            /\ NextFailureState(client[d].prev).failures >= 1
      /\ client[c].prev \in AttemptsRow
  BY LockNumbers
<1>4. next.failures \in Nat /\ next.failures >= 1 /\ ~Restarts(next)
  BY <1>3, NextFailure
<1>5. /\ n <= lost + 1 /\ missed + n <= attempts.failures + lost + 1
      /\ \A d \in Writers : Restarts(attempts) \/
                            missed + n <= NextFailureState(client[d].prev).failures + lost
  BY DEF LockInv
<1>6. Restarts(attempts) \/ missed + n <= next.failures + lost
  BY <1>1, <1>5
<1> HIDE DEF n, m, next
<1>7. /\ m <= lost' + 1 /\ missed' <= attempts'.failures + lost'
      /\ missed' + m <= attempts'.failures + lost' + 1
  BY <1>1, <1>2, <1>3, <1>4, <1>5, <1>6
<1>8. ASSUME NEW d \in Writers'
      PROVE  missed' + m <= NextFailureState(client'[d].prev).failures + lost'
  <2>1. /\ client'[d] = client[d]
        /\ NextFailureState(client[d].prev).failures \in Nat
        /\ NextFailureState(client[d].prev).failures >= 1
        /\ \/ Restarts(attempts)
           \/ missed + n <= NextFailureState(client[d].prev).failures + lost
    BY <1>1, <1>3, <1>5
  <2> QED
    BY <1>1, <1>2, <1>3, <1>5, <2>1
<1>9. \A d \in Writers' : missed' + m <= NextFailureState(client[d].prev)'.failures + lost'
  BY <1>8 DEF NextFailureState, Restarts
<1> QED
  BY <1>7, <1>9 DEF LockInv, m

\* A step keeps the failures counted: those written, those that another write covered, and
\* those that a request is still to write.
LEMMA LockStep == LoginTyped /\ LockInv /\ [LoginNext]_loginVars => LockInv'
<1> SUFFICES ASSUME LoginTyped, LockInv, [LoginNext]_loginVars PROVE LockInv'
  OBVIOUS
<1>1. CASE UNCHANGED loginVars
  BY <1>1, LockKept DEF loginVars, SameWriters, Restarts
<1>2. ASSUME UNCHANGED <<attempts, missed, lost>>, SameWriters PROVE LockInv'
  BY <1>2, LockKept DEF Restarts
<1>3. ASSUME NEW c \in Clients, Login(c) \/ SecondStep(c) \/ ChangePassword(c) \/ ResetByLink(c)
                                \/ EnableMfa(c)
      PROVE  LockInv'
  <2>1. /\ UNCHANGED <<attempts, missed, lost>>
        /\ \E pc \in Steps \ {"write"} : Arrive(c, pc)
    BY <1>3 DEF Login, SecondStep, ChangePassword, ResetByLink, EnableMfa, Steps, ghostVars
  <2> QED
    BY <1>2, <2>1, ArriveEffect DEF Only, SameWriters
<1>4. ASSUME NEW c \in Clients, CheckCode(c) PROVE LockInv'
  BY <1>2, <1>4, CheckCodeEffect DEF Only, SameWriters
<1>5. ASSUME NEW c \in Clients, UseCode(c) PROVE LockInv'
  BY <1>2, <1>5, UseCodeEffect DEF Only, SameWriters
<1>6. ASSUME NEW c \in Clients, NEW right \in BOOLEAN, CheckPassword(c, right) PROVE LockInv'
  BY <1>2, <1>6, CheckPasswordEffect DEF Only, SameWriters
<1>7. ASSUME NEW c \in Clients, ChangeWrite(c) \/ AdminWrite(c) \/ EnableWrite(c) PROVE LockInv'
  <2>1. /\ UNCHANGED <<attempts, missed, lost>> /\ Answer(c)
        /\ client[c].pc # "write"
    BY <1>7 DEF ChangeWrite, AdminWrite, EnableWrite, ghostVars
  <2> QED
    BY <1>2, <2>1, AnswerEffect DEF Only, SameWriters, LoginTyped
<1>8. ASSUME Forgive, SameWriters, lost' = lost PROVE LockInv'
  BY <1>8, ForgiveEffect, LockKept DEF Restarts
<1>9. ASSUME NEW c \in Clients, FinishLogin(c) \/ ResetWrite(c) PROVE LockInv'
  <2>1. Forgive /\ lost' = lost /\ Answer(c) /\ client[c].pc # "write"
    BY <1>9 DEF FinishLogin, ResetWrite
  <2> QED
    BY <1>8, <2>1, AnswerEffect DEF Only, SameWriters, LoginTyped
<1>10. ASSUME NEW c \in Clients, AdminReset(c) PROVE LockInv'
  <2>1. Forgive /\ lost' = lost /\ Arrive(c, "admin")
    BY <1>10 DEF AdminReset
  <2> QED
    BY <1>8, <2>1, ArriveEffect DEF Only, SameWriters, Steps
<1>11. ASSUME PurgeAttempts \/ \E on \in BOOLEAN : MoveAddress(on) PROVE LockInv'
  <2>1. Forgive /\ lost' = lost /\ client' = client
    BY <1>11 DEF PurgeAttempts, MoveAddress
  <2> QED
    BY <1>8, <2>1 DEF SameWriters
<1>12. CASE LockEnds \/ FailuresAge
  <2>1. /\ attempts'.failures = attempts.failures
        /\ Restarts(attempts) => Restarts(attempts)'
        /\ UNCHANGED <<client, missed, lost>>
    BY <1>12 DEF LockEnds, FailuresAge, ghostVars, LoginTyped, AttemptsRow, Restarts
  <2> QED
    BY <2>1, LockKept DEF SameWriters
<1>13. ASSUME SetUpMfa \/ DisableMfa \/ \E on \in BOOLEAN : SetAccountActive(on) PROVE LockInv'
  <2>1. UNCHANGED <<attempts, client, missed, lost>>
    BY <1>13 DEF SetUpMfa, DisableMfa, SetAccountActive, ghostVars
  <2> QED
    BY <1>2, <2>1 DEF SameWriters
<1> QED
  BY <1>1, <1>3, <1>4, <1>5, <1>6, <1>7, <1>9, <1>10, <1>11, <1>12, <1>13,
     FailuresRead, FailuresWritten DEF LoginNext

------------------------------------------------------------------------------
(* What signing in keeps.                                                   *)

\* The invariant of signing in holds in every state: it starts so and each step keeps it.
LEMMA LoginInvariant == LoginSpec => []LoginInv
<1>1. LoginInit => LoginInv
  <2> SUFFICES ASSUME LoginInit PROVE LoginInv
    OBVIOUS
  <2>1. LoginTyped
    BY LoginStarts
  <2>2. /\ client = [c \in Clients |-> AtRest] /\ sessions = {} /\ attempts = NoAttempts
        /\ missed = 0 /\ lost = 0 /\ staleWrites = 0 /\ served = 0
        /\ uses = [x \in Generations \X Codes |-> 0]
    BY DEF LoginInit
  <2>3. \A c \in Clients : client[c].pc = "idle"
    BY <2>2, RowsAtRest
  <2>4. SessionInv
    BY <2>2, <2>3 DEF SessionInv
  <2>5. CodeInv
    <3>1. \A x \in account.codes : x \in Generations \X Codes /\ x[1] = 1
      <4>1. account.codes \subseteq {1} \X Codes
        BY DEF LoginInit
      <4>2. account.codes \subseteq Generations \X Codes
        BY <2>1 DEF LoginTyped, AccountRow
      <4> QED
        BY <4>1, <4>2
    <3>2. \A x \in Generations \X Codes : uses[x] = 0
      BY <2>2
    <3> QED
      BY <2>2, <2>3, <3>1, <3>2 DEF CodeInv
  <2>6. LockInv
    <3>1. Writers = {} /\ Cardinality(Writers) = 0
      BY <2>3, FS_EmptySet DEF Writers
    <3> QED
      BY <2>2, <3>1, RowsAtRest DEF LockInv
  <2> QED
    BY <2>1, <2>4, <2>5, <2>6 DEF LoginInv
<1>2. LoginInv /\ [LoginNext]_loginVars => LoginInv'
  BY LoginTypesStep, SessionsStep, CodesStep, LockStep DEF LoginInv
<1> QED
  BY <1>1, <1>2, PTL DEF LoginSpec

\* Every variable of signing in keeps its type; a row without a lock is short of the
\* failures that lock it.
THEOREM LoginTypeCorrect == LoginSpec => []LoginTypeOK
<1>1. LoginInv => LoginTypeOK
  <2> SUFFICES ASSUME LoginInv PROVE LoginTypeOK
    OBVIOUS
  <2>1. LoginTyped
    BY DEF LoginInv
  <2>2. attempts \in [failures : 0..(MaxFailures - 1), lock : {"none"}, old : BOOLEAN]
                    \cup [failures : Nat, lock : {"on", "over"}, old : BOOLEAN]
    <3>1. CASE attempts.lock = "none"
      <4>1. attempts.failures \in 0..(MaxFailures - 1)
        BY <2>1, <3>1, LoginAssumption DEF LoginTyped, AttemptsRow
      <4> QED
        BY <2>1, <3>1, <4>1 DEF LoginTyped, AttemptsRow
    <3>2. CASE attempts.lock # "none"
      BY <2>1, <3>2 DEF LoginTyped, AttemptsRow
    <3> QED
      BY <3>1, <3>2
  <2>3. \A c \in Clients : client[c].pc \in Steps
    BY <2>1, FieldOfClient DEF LoginTyped
  <2> QED
    BY <2>1, <2>2, <2>3, LoginAssumption DEF LoginTyped, LoginTypeOK, AccountRow, SessionRecord, Steps
<1> QED
  BY <1>1, LoginInvariant, PTL

\* JwtStrategy.validate and tokenVersion: whatever crosses, a session in use was opened
\* with the password now in force, and with the second step where the account asks for it.
THEOREM SessionsFollow == LoginSpec => []SessionsFollowThePassword
<1>1. LoginInv => SessionsFollowThePassword
  BY DEF LoginInv, SessionInv, SessionsFollowThePassword, Live
<1> QED
  BY <1>1, LoginInvariant, PTL

\* A recovery code lets in once, and once more for each list that was written over one
\* that had changed.
THEOREM CodesWorkOnce == LoginSpec => []CodeWorksOnce
<1>1. LoginInv => CodeWorksOnce
  BY DEF LoginInv, LoginTyped, CodeInv, CodeWorksOnce
<1> QED
  BY <1>1, LoginInvariant, PTL

\* LoginProtectionService: the failure that makes MaxFailures locks the account, counting
\* those that were not lost to another being recorded.
THEOREM FailuresLock == LoginSpec => []LockFollowsFailures
<1>1. LoginInv => LockFollowsFailures
  <2> SUFFICES ASSUME LoginInv, attempts.lock = "none", missed >= MaxFailures + lost
               PROVE  FALSE
    BY DEF LockFollowsFailures
  <2>1. attempts.failures < MaxFailures /\ missed <= attempts.failures + lost
    BY DEF LoginInv, LoginTyped, AttemptsRow, LockInv
  <2> QED
    BY <2>1, LockNumbers, LoginAssumption DEF LoginInv
<1> QED
  BY <1>1, LoginInvariant, PTL

------------------------------------------------------------------------------
(* The links sent by e-mail.                                                *)

TokenRow == [state : {"none", "valid", "expired", "used", "deleted"}, type : Types,
             email : Emails \cup {NoEmail}, user : Users \cup {NoUser}]

UserRow == [email : Emails \cup {NoEmail}, pending : Emails \cup {NoEmail},
            verified : BOOLEAN, active : BOOLEAN]

RequestRecord == [pc : {"idle", "issue", "change", "redeem"}, type : Types,
                  email : Emails \cup {NoEmail}, user : Users \cup {NoUser},
                  token : Tokens \cup {NoToken}, doomed : SUBSET Tokens]

\* A token, and a request for one, is of an address and, but for an invitation, of an
\* account.
LinkInv ==
    /\ \A t \in Tokens :
         /\ token[t].state = "none" => effects[t] = 0
         /\ token[t].state # "none" =>
              /\ token[t].email \in Emails
              /\ token[t].type # "INVITATION" => token[t].user \in Accounts
    /\ \A r \in Requests :
         /\ request[r].pc \in {"issue", "change"} => request[r].email \in Emails
         /\ request[r].pc = "change" => request[r].user \in Accounts
         /\ request[r].pc = "issue" /\ request[r].type # "INVITATION" => request[r].user \in Accounts
         /\ request[r].pc = "redeem" =>
              request[r].token \in Tokens /\ token[request[r].token].state # "none"

\* No two accounts have an address.
AddressInv == \A u, v \in Accounts : user[u].email = user[v].email => u = v

\* A link that verifies an address is of the account's address, or of one it left for
\* another that was verified.
SettledAddress(u, e) == user[u].email = e \/ user[u].verified
VerifiedInv ==
    mailer =>
      /\ \A u \in Accounts : user[u].verified => user[u].email \in proved[u]
      /\ \A t \in Tokens : token[t].state # "none" /\ token[t].type = "EMAIL_VERIFICATION" =>
                             SettledAddress(token[t].user, token[t].email)
      /\ \A r \in Requests : request[r].pc = "issue" /\ request[r].type = "EMAIL_VERIFICATION" =>
                               SettledAddress(request[r].user, request[r].email)

\* The accounts that opened a link at the address.
Opened(e) == {u \in Accounts : e \in proved[u]}

\* A token that had its effect is no longer valid; an invitation had it once for each
\* account that proved its address, at most.
EffectInv ==
    \A t \in Tokens :
       IF token[t].type = "INVITATION"
         THEN effects[t] <= Cardinality(Opened(token[t].email))
         ELSE /\ effects[t] <= 1
              /\ effects[t] = 1 => token[t].state \in {"used", "deleted"}

\* The issues under way of a type to an address, and the valid tokens that each of them
\* will leave, are bounded by those that crossed.
ValidInv ==
    \A type \in Types, e \in Emails :
      LET bound == 1 + crossed[<<type, e>>]
          issues == Cardinality(Issuing(type, e))
      IN  /\ issues <= bound
          /\ Cardinality(Valid(type, e)) <= bound
          /\ \A r \in Issuing(type, e) :
               Cardinality(Valid(type, e) \ request[r].doomed) + issues <= bound

TokenInv == TokenTypeOK /\ LinkInv /\ AddressInv /\ VerifiedInv /\ EffectInv /\ ValidInv

------------------------------------------------------------------------------
(* What a step does to a token, an account, a request.                      *)

OnlyRequest(r) ==
    /\ request' \in [Requests -> RequestRecord]
    /\ \A q \in Requests \ {r} : request'[q] = request[q]

OnlyToken(t) ==
    /\ token' \in [Tokens -> TokenRow]
    /\ \A x \in Tokens \ {t} : token'[x] = token[x]

OnlyUser(u) ==
    /\ user' \in [Users -> UserRow]
    /\ \A v \in Users \ {u} : user'[v] = user[v]

\* The types of the rows.
LEMMA LinkTypes ==
    ASSUME TokenTypeOK
    PROVE  /\ token \in [Tokens -> TokenRow] /\ user \in [Users -> UserRow]
           /\ request \in [Requests -> RequestRecord]
           /\ effects \in [Tokens -> Nat] /\ proved \in [Users -> SUBSET Emails]
           /\ crossed \in [Types \X Emails -> Nat] /\ calls \in 0..MaxCalls /\ mailer \in BOOLEAN
BY DEF TokenTypeOK, TokenRow, UserRow, RequestRecord

\* The fields of a row of account_tokens.
LEMMA FieldOfToken ==
    ASSUME NEW k \in TokenRow
    PROVE  /\ k.state \in {"none", "valid", "expired", "used", "deleted"} /\ k.type \in Types
           /\ k.email \in Emails \cup {NoEmail} /\ k.user \in Users \cup {NoUser}
BY DEF TokenRow

\* The fields of a row of users.
LEMMA FieldOfUser ==
    ASSUME NEW k \in UserRow
    PROVE  /\ k.email \in Emails \cup {NoEmail} /\ k.pending \in Emails \cup {NoEmail}
           /\ k.verified \in BOOLEAN /\ k.active \in BOOLEAN
BY DEF UserRow

\* The fields of a request.
LEMMA FieldOfRequest ==
    ASSUME NEW k \in RequestRecord
    PROVE  /\ k.pc \in {"idle", "issue", "change", "redeem"} /\ k.type \in Types
           /\ k.email \in Emails \cup {NoEmail} /\ k.user \in Users \cup {NoUser}
           /\ k.token \in Tokens \cup {NoToken} /\ k.doomed \in SUBSET Tokens
BY DEF RequestRecord

\* The constants of the rows have the types.
LEMMA LinkRowsAtRest ==
    /\ NoRow \in TokenRow /\ NoRow.state = "none"
    /\ NoAccount \in UserRow /\ NoAccount.email = NoEmail
    /\ Done \in RequestRecord /\ Done.pc = "idle" /\ Done.doomed = {}
BY DEF NoRow, NoAccount, Done, TokenRow, UserRow, RequestRecord, Types

\* A token changes its state only.
LEMMA SetTokenEffect ==
    ASSUME TokenTypeOK, NEW t \in Tokens, NEW state \in {"none", "valid", "expired", "used", "deleted"},
           SetToken(t, state)
    PROVE  /\ OnlyToken(t) /\ token'[t].state = state /\ token'[t].type = token[t].type
           /\ token'[t].email = token[t].email /\ token'[t].user = token[t].user
<1> DEFINE k == [token[t] EXCEPT !.state = state]
<1>1. token \in [Tokens -> TokenRow]
  BY LinkTypes
<1>2. /\ k \in TokenRow /\ k.state = state /\ k.type = token[t].type
      /\ k.email = token[t].email /\ k.user = token[t].user
  BY <1>1 DEF TokenRow
<1>3. token' = [token EXCEPT ![t] = k]
  BY <1>1 DEF SetToken
<1> HIDE DEF k
<1> QED
  BY <1>1, <1>2, <1>3 DEF OnlyToken

\* A request that returns is idle.
LEMMA ReturnEffect ==
    ASSUME TokenTypeOK, NEW r \in Requests, Return(r)
    PROVE  OnlyRequest(r) /\ request'[r].pc = "idle"
BY LinkTypes, LinkRowsAtRest DEF Return, OnlyRequest

\* The calls are counted up to the bound.
LEMMA BeginEffect ==
    ASSUME TokenTypeOK, calls < MaxCalls, calls' = calls + 1
    PROVE  calls' \in 0..MaxCalls
BY LinkTypes, TokenAssumption

\* The first statement of issue(): the request knows the rows it will expire.
LEMMA IssueEffect ==
    ASSUME TokenTypeOK, NEW r \in Requests, NEW type \in Types, NEW e \in Emails,
           NEW u \in Users \cup {NoUser}, Issue(r, type, e, u)
    PROVE  /\ OnlyRequest(r)
           /\ request'[r].pc = "issue" /\ request'[r].type = type /\ request'[r].email = e
           /\ request'[r].user = u /\ request'[r].doomed = Valid(type, e)
           /\ crossed' = [crossed EXCEPT ![<<type, e>>] =
                            crossed[<<type, e>>] + IF Issuing(type, e) = {} THEN 0 ELSE 1]
           /\ crossed' \in [Types \X Emails -> Nat]
<1> DEFINE doomed == Valid(type, e)
           k == [Done EXCEPT !.pc = "issue", !.type = type, !.email = e, !.user = u,
                             !.doomed = doomed]
<1>1. doomed \in SUBSET Tokens
  BY DEF Valid
<1>2. /\ k \in RequestRecord /\ k.pc = "issue" /\ k.type = type /\ k.email = e /\ k.user = u
      /\ k.doomed = doomed
  <2> HIDE DEF doomed
  <2> QED
    BY <1>1, LinkRowsAtRest DEF RequestRecord
<1>3. request' = [request EXCEPT ![r] = k]
  BY DEF Issue
<1>4. crossed' = [crossed EXCEPT ![<<type, e>>] =
                    crossed[<<type, e>>] + IF Issuing(type, e) = {} THEN 0 ELSE 1]
  BY DEF Issue
<1>5. crossed' \in [Types \X Emails -> Nat]
  BY <1>4, LinkTypes
<1> HIDE DEF k, doomed
<1>6. OnlyRequest(r) /\ request'[r] = k
  BY <1>2, <1>3, LinkTypes DEF OnlyRequest
<1> QED
  BY <1>2, <1>4, <1>5, <1>6 DEF doomed

------------------------------------------------------------------------------
(* What a step may do to an account.                                        *)

\* Account u moves: it stays an account, keeps what it proved and stays verified; it takes
\* an address that is free; and with a mailer it is verified at an address it proved.
UserMoves(u) ==
    /\ OnlyUser(u)
    /\ proved' \in [Users -> SUBSET Emails]
    /\ \A v \in Users \ {u} : proved'[v] = proved[v]
    /\ u \in Accounts =>
         /\ user'[u].email # NoEmail
         /\ user[u].verified => user'[u].verified
         /\ proved[u] \subseteq proved'[u]
         /\ mailer => user'[u].email = user[u].email \/ user'[u].verified
    /\ user'[u].email # NoEmail =>
         /\ \/ user'[u].email = user[u].email
            \/ \A v \in Accounts : user[v].email = user'[u].email => v = u
         /\ mailer /\ user'[u].verified => user'[u].email \in proved'[u]

\* A new row for one account leaves the others'.
LEMMA UserWritten ==
    ASSUME TokenTypeOK, NEW u \in Users, NEW k \in UserRow, user' = [user EXCEPT ![u] = k]
    PROVE  OnlyUser(u) /\ user'[u] = k
BY LinkTypes DEF OnlyUser

\* An account is created at an address nobody has.
LEMMA AccountCreated ==
    ASSUME TokenTypeOK, NEW u \in Users \ Accounts, NEW e \in Emails, AccountOf(e) = {},
           NEW verified \in BOOLEAN,
           user' = [user EXCEPT ![u] = [NoAccount EXCEPT !.email = e, !.verified = verified,
                                                         !.active = TRUE]],
           \/ proved' = proved /\ (mailer => ~verified)
           \/ proved' = [proved EXCEPT ![u] = {e}]
    PROVE  UserMoves(u) /\ user'[u].email = e
<1> DEFINE k == [NoAccount EXCEPT !.email = e, !.verified = verified, !.active = TRUE]
<1>1. k \in UserRow /\ k.email = e /\ k.verified = verified
  BY LinkRowsAtRest DEF UserRow
<1>2. OnlyUser(u) /\ user'[u] = k
  <2>1. user' = [user EXCEPT ![u] = k]
    OBVIOUS
  <2> HIDE DEF k
  <2> QED
    BY <1>1, <2>1, UserWritten
<1>3. /\ proved' \in [Users -> SUBSET Emails] /\ \A v \in Users \ {u} : proved'[v] = proved[v]
      /\ mailer /\ verified => e \in proved'[u]
  BY LinkTypes
<1> HIDE DEF k
<1>4. \A v \in Accounts : user[v].email = user'[u].email => v = u
  BY <1>1, <1>2 DEF AccountOf
<1> QED
  BY <1>1, <1>2, <1>3, <1>4 DEF UserMoves

\* A row with another pending address, or active or not.
LEMMA AccountMarked ==
    ASSUME TokenTypeOK, VerifiedInv, NEW u \in Accounts, proved' = proved,
           \/ \E e \in Emails \cup {NoEmail} : user' = [user EXCEPT ![u].pending = e]
           \/ \E on \in BOOLEAN : user' = [user EXCEPT ![u].active = on]
    PROVE  UserMoves(u)
<1>1. u \in Users /\ user[u] \in UserRow /\ user[u].email # NoEmail
  BY LinkTypes DEF Accounts
<1>2. OnlyUser(u) /\ user'[u].email = user[u].email /\ user'[u].verified = user[u].verified
  <2>1. ASSUME NEW e \in Emails \cup {NoEmail}, user' = [user EXCEPT ![u].pending = e]
        PROVE  OnlyUser(u) /\ user'[u].email = user[u].email /\ user'[u].verified = user[u].verified
    <3> DEFINE k == [user[u] EXCEPT !.pending = e]
    <3>1. k \in UserRow /\ k.email = user[u].email /\ k.verified = user[u].verified
      BY <1>1 DEF UserRow
    <3>2. user' = [user EXCEPT ![u] = k]
      BY <1>1, <2>1, LinkTypes
    <3> HIDE DEF k
    <3> QED
      BY <1>1, <3>1, <3>2, UserWritten
  <2>2. ASSUME NEW on \in BOOLEAN, user' = [user EXCEPT ![u].active = on]
        PROVE  OnlyUser(u) /\ user'[u].email = user[u].email /\ user'[u].verified = user[u].verified
    <3> DEFINE k == [user[u] EXCEPT !.active = on]
    <3>1. k \in UserRow /\ k.email = user[u].email /\ k.verified = user[u].verified
      BY <1>1 DEF UserRow
    <3>2. user' = [user EXCEPT ![u] = k]
      BY <1>1, <2>2, LinkTypes
    <3> HIDE DEF k
    <3> QED
      BY <1>1, <3>1, <3>2, UserWritten
  <2> QED
    BY <2>1, <2>2
<1>3. mailer /\ user[u].verified => user[u].email \in proved[u]
  BY DEF VerifiedInv
<1>4. proved' \in [Users -> SUBSET Emails]
  BY LinkTypes
<1> QED
  BY <1>1, <1>2, <1>3, <1>4 DEF UserMoves

\* An account is verified where it is, or moves verified to an address that is free or its
\* own: without a mailer, or having proved that address.
LEMMA AccountVerified ==
    ASSUME TokenTypeOK, VerifiedInv, NEW u \in Accounts,
           proved' \in [Users -> SUBSET Emails],
           \A v \in Users \ {u} : proved'[v] = proved[v],
           proved[u] \subseteq proved'[u],
           \/ /\ user' = [user EXCEPT ![u].verified = TRUE]
              /\ mailer /\ ~user[u].verified => user[u].email \in proved'[u]
           \/ \E e \in Emails :
                /\ user' = [user EXCEPT ![u].email = e, ![u].pending = NoEmail, ![u].verified = TRUE]
                /\ AccountOf(e) \subseteq {u}
                /\ mailer => e \in proved'[u]
    PROVE  UserMoves(u)
<1>1. u \in Users /\ user[u] \in UserRow /\ user[u].email # NoEmail
  BY LinkTypes DEF Accounts
<1>2. CASE /\ user' = [user EXCEPT ![u].verified = TRUE]
           /\ mailer /\ ~user[u].verified => user[u].email \in proved'[u]
  <2> DEFINE k == [user[u] EXCEPT !.verified = TRUE]
  <2>1. k \in UserRow /\ k.email = user[u].email /\ k.verified
    BY <1>1 DEF UserRow
  <2>2. user' = [user EXCEPT ![u] = k]
    BY <1>1, <1>2, LinkTypes
  <2>3. mailer => user[u].email \in proved'[u]
    BY <1>2 DEF VerifiedInv
  <2> HIDE DEF k
  <2>4. OnlyUser(u) /\ user'[u] = k
    BY <1>1, <2>1, <2>2, UserWritten
  <2> QED
    BY <1>1, <2>1, <2>3, <2>4 DEF UserMoves
<1>3. ASSUME NEW e \in Emails,
             user' = [user EXCEPT ![u].email = e, ![u].pending = NoEmail, ![u].verified = TRUE],
             AccountOf(e) \subseteq {u}, mailer => e \in proved'[u]
      PROVE  UserMoves(u)
  <2> DEFINE k == [user[u] EXCEPT !.email = e, !.pending = NoEmail, !.verified = TRUE]
  <2>1. k \in UserRow /\ k.email = e /\ k.verified
    BY <1>1 DEF UserRow
  <2>2. user' = [user EXCEPT ![u] = k]
    BY <1>1, <1>3, LinkTypes
  <2> HIDE DEF k
  <2>3. OnlyUser(u) /\ user'[u] = k
    BY <1>1, <2>1, <2>2, UserWritten
  <2>4. e # NoEmail /\ \A v \in Accounts : user[v].email = e => v = u
    BY <1>3, TokenAssumption DEF AccountOf
  <2> QED
    BY <1>1, <1>3, <2>1, <2>3, <2>4 DEF UserMoves
<1> QED
  BY <1>2, <1>3

\* How a step of the links changes the accounts.
LEMMA UsersStep ==
    TokenTypeOK /\ LinkInv /\ AddressInv /\ VerifiedInv /\ TokenNext =>
        UNCHANGED <<user, proved>> \/ \E u \in Users : UserMoves(u)
<1> SUFFICES ASSUME TokenTypeOK, LinkInv, AddressInv, VerifiedInv, TokenNext
             PROVE  UNCHANGED <<user, proved>> \/ \E u \in Users : UserMoves(u)
  OBVIOUS
<1>1. \A u \in Accounts : u \in Users
  BY DEF Accounts
<1>2. ASSUME NEW r \in Requests, NEW e \in Emails, ResendVerification(r, e)
      PROVE  UNCHANGED <<user, proved>> \/ \E u \in Users : UserMoves(u)
  <2>1. CASE user' = user
    BY <1>2, <2>1 DEF ResendVerification
  <2>2. CASE user' # user
    <3>1. PICK u \in AccountOf(e) : ~mailer /\ user' = [user EXCEPT ![u].verified = TRUE]
      BY <1>2, <2>2 DEF ResendVerification
    <3>2. u \in Accounts
      BY DEF AccountOf
    <3>3. proved' = proved
      BY <1>2 DEF ResendVerification
    <3>4. UserMoves(u)
      BY <3>1, <3>2, <3>3, AccountVerified, LinkTypes
    <3> QED
      BY <1>1, <3>2, <3>4
  <2> QED
    BY <2>1, <2>2
<1>3. ASSUME NEW r \in Requests, NEW e \in Emails, Register(r, e)
      PROVE  \E u \in Users : UserMoves(u)
  <2>1. PICK u \in Users \ Accounts :
          user' = [user EXCEPT ![u] = [NoAccount EXCEPT !.email = e, !.verified = ~mailer,
                                                         !.active = TRUE]]
    BY <1>3 DEF Register
  <2>2. AccountOf(e) = {} /\ proved' = proved /\ (~mailer) \in BOOLEAN
    BY <1>3 DEF Register
  <2>3. UserMoves(u)
    BY <2>1, <2>2, AccountCreated
  <2> QED
    BY <2>3
<1>4. ASSUME NEW r \in Requests, NEW u \in Users, NEW e \in Emails, ChangeEmail(r, u, e)
      PROVE  UserMoves(u)
  <2>1. u \in Accounts /\ AccountOf(e) = {} /\ proved' = proved
    BY <1>4 DEF ChangeEmail
  <2>2. CASE mailer
    BY <1>4, <2>1, <2>2, AccountMarked DEF ChangeEmail
  <2>3. CASE ~mailer
    BY <1>4, <2>1, <2>3, AccountVerified, LinkTypes DEF ChangeEmail
  <2> QED
    BY <2>2, <2>3
<1>5. ASSUME NEW r \in Requests, Redeem(r)
      PROVE  UNCHANGED <<user, proved>> \/ \E u \in Users : UserMoves(u)
  <2> DEFINE t == request[r].token
             u == token[t].user
             e == token[t].email
  <2>1. /\ request[r].pc = "redeem" /\ t \in Tokens /\ token[t].state # "none"
        /\ token[t].type # "INVITATION" /\ token[t].type \in Types
        /\ u \in Accounts /\ e \in Emails
    BY <1>5, LinkTypes, FieldOfToken DEF Redeem, LinkInv
  <2>2. CASE /\ token[t].type = "EMAIL_CHANGE" => AccountOf(e) \subseteq {u}
             /\ user' = AccountAfter(t)
             /\ proved' = [proved EXCEPT ![u] = @ \cup {e}]
    <3>1. /\ proved' \in [Users -> SUBSET Emails]
          /\ \A v \in Users \ {u} : proved'[v] = proved[v]
          /\ proved[u] \subseteq proved'[u] /\ e \in proved'[u]
      <4> HIDE DEF u, e
      <4>1. u \in Users
        BY <1>1, <2>1
      <4> QED
        BY <2>1, <2>2, <4>1, LinkTypes
    <3>2. CASE token[t].type = "PASSWORD_RESET"
      <4>1. user' = user
        BY <2>2, <3>2 DEF AccountAfter
      <4>2. OnlyUser(u)
        BY <4>1, LinkTypes DEF OnlyUser
      <4>3. mailer /\ user[u].verified => user[u].email \in proved[u]
        BY <2>1 DEF VerifiedInv
      <4>4. user[u].email # NoEmail
        BY <2>1 DEF Accounts
      <4>5. UserMoves(u)
        BY <3>1, <4>1, <4>2, <4>3, <4>4 DEF UserMoves
      <4> QED
        BY <1>1, <2>1, <4>5
    <3>3. CASE token[t].type = "EMAIL_VERIFICATION"
      <4>1. user' = [user EXCEPT ![u].verified = TRUE]
        BY <2>2, <3>3 DEF AccountAfter
      <4>2. mailer /\ ~user[u].verified => user[u].email = e
        BY <2>1, <3>3 DEF VerifiedInv, SettledAddress
      <4>3. UserMoves(u)
        BY <2>1, <3>1, <4>1, <4>2, AccountVerified
      <4> QED
        BY <1>1, <2>1, <4>3
    <3>4. CASE token[t].type = "EMAIL_CHANGE"
      <4>1. user' = [user EXCEPT ![u].email = e, ![u].pending = NoEmail, ![u].verified = TRUE]
        BY <2>2, <3>4 DEF AccountAfter
      <4>2. UserMoves(u)
        BY <2>1, <2>2, <3>1, <3>4, <4>1, AccountVerified
      <4> QED
        BY <1>1, <2>1, <4>2
    <3> QED
      BY <2>1, <3>2, <3>3, <3>4 DEF Types
  <2>3. CASE UNCHANGED <<user, proved>>
    BY <2>3
  <2> QED
    BY <1>5, <2>2, <2>3 DEF Redeem
<1>6. ASSUME NEW r \in Requests, Accept(r)
      PROVE  UNCHANGED <<user, proved>> \/ \E u \in Users : UserMoves(u)
  <2> DEFINE t == request[r].token
             e == token[t].email
  <2>1. e \in Emails
    BY <1>6 DEF Accept, LinkInv
  <2>2. CASE UNCHANGED <<user, proved>>
    BY <2>2
  <2>3. CASE ~UNCHANGED <<user, proved>>
    <3>1. AccountOf(e) = {}
      BY <1>6, <2>3 DEF Accept
    <3>2. PICK u \in Users \ Accounts :
            /\ user' = [user EXCEPT ![u] = [NoAccount EXCEPT !.email = e, !.verified = TRUE,
                                                              !.active = TRUE]]
            /\ proved' = [proved EXCEPT ![u] = {e}]
      BY <1>6, <2>3 DEF Accept
    <3> HIDE DEF e
    <3>3. UserMoves(u)
      BY <2>1, <3>1, <3>2, AccountCreated
    <3> QED
      BY <3>3
  <2> QED
    BY <2>2, <2>3
<1>7. ASSUME NEW u \in Users, CancelChange(u) PROVE UserMoves(u)
  <2>1. u \in Accounts /\ user' = [user EXCEPT ![u].pending = NoEmail] /\ proved' = proved
    BY <1>7 DEF CancelChange
  <2> QED
    BY <2>1, AccountMarked
<1>8. ASSUME NEW u \in Users, NEW e \in Emails, CreateUser(u, e) PROVE UserMoves(u)
  BY <1>8, AccountCreated DEF CreateUser
<1>9. ASSUME NEW u \in Users, NEW on \in BOOLEAN, SetActive(u, on) PROVE UserMoves(u)
  BY <1>9, AccountMarked DEF SetActive
<1>10. ASSUME NEW r \in Requests,
              \/ IssueCommit(r) \/ ChangeIssue(r)
              \/ \E e \in Emails : RequestReset(r, e) \/ Invite(r, e)
              \/ \E t \in Tokens : Open(r, t)
       PROVE  UNCHANGED <<user, proved>>
  BY <1>10 DEF IssueCommit, ChangeIssue, RequestReset, Invite, Open
<1>11. ASSUME NEW t \in Tokens, CancelInvitation(t) \/ Expire(t) \/ PurgeToken(t)
       PROVE  UNCHANGED <<user, proved>>
  BY <1>11 DEF CancelInvitation, Expire, PurgeToken
<1> QED
  BY <1>2, <1>3, <1>4, <1>5, <1>6, <1>7, <1>8, <1>9, <1>10, <1>11 DEF TokenNext

------------------------------------------------------------------------------
(* What a step may do to a token and to a request.                          *)

\* A token keeps what it is for, and is never valid again.
TokenAges(t) ==
    /\ token'[t].type = token[t].type /\ token'[t].email = token[t].email
    /\ token[t].type # "INVITATION" => token'[t].user = token[t].user
    /\ token'[t].state = "none" <=> token[t].state = "none"
    /\ token'[t].state = "valid" => token[t].state = "valid"
    /\ token[t].state \in {"used", "deleted"} => token'[t].state \in {"used", "deleted"}

\* Tokens that expire together.
LEMMA TokensExpire ==
    ASSUME TokenTypeOK, NEW S, \A t \in S : t \in Tokens => token[t].state = "valid",
           token' = [t \in Tokens |-> IF t \in S THEN [token[t] EXCEPT !.state = "expired"]
                                      ELSE token[t]]
    PROVE  /\ token' \in [Tokens -> TokenRow]
           /\ \A t \in Tokens : TokenAges(t)
           /\ \A t \in Tokens : t \in S => token'[t].state = "expired"
           /\ \A t \in Tokens \ S : token'[t] = token[t]
<1>1. ASSUME NEW t \in Tokens
      PROVE  /\ token'[t] \in TokenRow /\ TokenAges(t)
             /\ t \in S => token'[t].state = "expired"
             /\ t \notin S => token'[t] = token[t]
  <2> DEFINE k == [token[t] EXCEPT !.state = "expired"]
  <2>1. token[t] \in TokenRow
    BY LinkTypes
  <2>2. /\ k \in TokenRow /\ k.state = "expired" /\ k.type = token[t].type
        /\ k.email = token[t].email /\ k.user = token[t].user
    BY <2>1 DEF TokenRow
  <2>3. token'[t] = IF t \in S THEN k ELSE token[t]
    OBVIOUS
  <2> HIDE DEF k
  <2> QED
    BY <2>1, <2>2, <2>3 DEF TokenAges
<1>2. token' \in [Tokens -> TokenRow]
  <2>1. token' = [t \in Tokens |-> token'[t]]
    OBVIOUS
  <2> QED
    BY <1>1, <2>1
<1> QED
  BY <1>1, <1>2

\* An invitation is accepted: the unused ones to the address are used.
LEMMA AcceptTokens ==
    ASSUME TokenTypeOK, NEW S \in SUBSET Tokens, \A x \in S : token[x].state \in {"valid", "expired"},
           NEW t \in Tokens, token[t].type = "INVITATION", NEW u \in Users,
           token' = [x \in Tokens |-> [token[x] EXCEPT !.state = IF x \in S THEN "used" ELSE @,
                                                       !.user = IF x = t THEN u ELSE @]]
    PROVE  token' \in [Tokens -> TokenRow] /\ \A x \in Tokens : TokenAges(x)
<1>1. ASSUME NEW x \in Tokens PROVE token'[x] \in TokenRow /\ TokenAges(x)
  <2> DEFINE state == IF x \in S THEN "used" ELSE token[x].state
             owner == IF x = t THEN u ELSE token[x].user
             k == [token[x] EXCEPT !.state = state, !.user = owner]
  <2>1. token[x] \in TokenRow
    BY LinkTypes
  <2>2. /\ state \in {"none", "valid", "expired", "used", "deleted"}
        /\ owner \in Users \cup {NoUser}
    BY <2>1, FieldOfToken
  <2>3. token'[x] = k
    BY <2>1 DEF TokenRow
  <2>4. /\ k \in TokenRow /\ k.state = state /\ k.type = token[x].type
        /\ k.email = token[x].email /\ k.user = owner
    <3> HIDE DEF state, owner
    <3> QED
      BY <2>1, <2>2 DEF TokenRow
  <2>5. /\ state = "none" <=> token[x].state = "none"
        /\ state = "valid" => token[x].state = "valid"
        /\ token[x].state \in {"used", "deleted"} => state \in {"used", "deleted"}
        /\ token[x].type # "INVITATION" => owner = token[x].user
    BY <2>2
  <2> HIDE DEF k, state, owner
  <2> QED
    BY <2>3, <2>4, <2>5 DEF TokenAges
<1>2. token' \in [Tokens -> TokenRow]
  <2>1. token' = [y \in Tokens |-> token'[y]]
    OBVIOUS
  <2> QED
    BY <1>1, <2>1
<1> QED
  BY <1>1, <1>2

\* The second statement of issue(): a row that was free is the new token, the doomed rows
\* expire.
LEMMA IssueCommitEffect ==
    ASSUME TokenTypeOK, NEW r \in Requests, IssueCommit(r)
    PROVE  /\ OnlyRequest(r) /\ request[r].pc = "issue" /\ request'[r].pc = "idle"
           /\ token' \in [Tokens -> TokenRow]
           /\ \E t \in Tokens :
                /\ token[t].state = "none" /\ token'[t].state = "valid"
                /\ token'[t].type = request[r].type /\ token'[t].email = request[r].email
                /\ token'[t].user = request[r].user
                /\ \A x \in Tokens \ {t} : TokenAges(x)
                /\ \A x \in Tokens \ {t} : x \in request[r].doomed => token'[x].state # "valid"
           /\ UNCHANGED <<user, mailer, effects, proved, crossed, calls>>
<1>1. request[r].pc = "issue" /\ Return(r) /\ UNCHANGED <<user, mailer, effects, proved, crossed, calls>>
  BY DEF IssueCommit
<1>2. OnlyRequest(r) /\ request'[r].pc = "idle"
  BY <1>1, ReturnEffect
<1>3. PICK t \in Tokens :
        /\ token[t].state = "none"
        /\ token' = [x \in Tokens |->
              IF x = t THEN [state |-> "valid", type |-> request[r].type,
                             email |-> request[r].email, user |-> request[r].user]
              ELSE IF x \in request[r].doomed /\ token[x].state = "valid"
                     THEN [token[x] EXCEPT !.state = "expired"] ELSE token[x]]
  BY DEF IssueCommit
<1> DEFINE new == [state |-> "valid", type |-> request[r].type,
                   email |-> request[r].email, user |-> request[r].user]
<1>4. new \in TokenRow /\ token'[t] = new
  <2>1. request[r] \in RequestRecord
    BY LinkTypes
  <2> QED
    BY <1>3, <2>1, FieldOfRequest DEF TokenRow
<1>5. ASSUME NEW x \in Tokens \ {t}
      PROVE  /\ token'[x] \in TokenRow /\ TokenAges(x)
             /\ x \in request[r].doomed => token'[x].state # "valid"
  <2> DEFINE k == [token[x] EXCEPT !.state = "expired"]
  <2>1. token[x] \in TokenRow
    BY LinkTypes
  <2>2. /\ k \in TokenRow /\ k.state = "expired" /\ k.type = token[x].type
        /\ k.email = token[x].email /\ k.user = token[x].user
    BY <2>1 DEF TokenRow
  <2>3. token'[x] = IF x \in request[r].doomed /\ token[x].state = "valid" THEN k ELSE token[x]
    BY <1>3
  <2> HIDE DEF k
  <2> QED
    BY <2>1, <2>2, <2>3 DEF TokenAges
<1>6. token' \in [Tokens -> TokenRow]
  <2>1. token' = [x \in Tokens |-> token'[x]]
    BY <1>3
  <2> QED
    BY <1>4, <1>5, <2>1
<1> QED
  BY <1>1, <1>2, <1>3, <1>4, <1>5, <1>6

\* How a step changes the tokens, but for the issue of one.
LEMMA TokensStep ==
    TokenTypeOK /\ LinkInv /\ TokenNext =>
        \/ \E r \in Requests : IssueCommit(r)
        \/ token' \in [Tokens -> TokenRow] /\ \A t \in Tokens : TokenAges(t)
<1> SUFFICES ASSUME TokenTypeOK, LinkInv, TokenNext, ~\E r \in Requests : IssueCommit(r)
             PROVE  token' \in [Tokens -> TokenRow] /\ \A t \in Tokens : TokenAges(t)
  OBVIOUS
<1>1. ASSUME token' = token
      PROVE  token' \in [Tokens -> TokenRow] /\ \A t \in Tokens : TokenAges(t)
  BY <1>1, LinkTypes DEF TokenAges
<1>2. ASSUME NEW t \in Tokens, NEW state \in {"expired", "used", "deleted"}, SetToken(t, state),
             token[t].state # "none",
             token[t].state \in {"used", "deleted"} => state # "expired"
      PROVE  token' \in [Tokens -> TokenRow] /\ \A x \in Tokens : TokenAges(x)
  BY <1>2, SetTokenEffect DEF OnlyToken, TokenAges
<1>3. ASSUME NEW r \in Requests, Redeem(r)
      PROVE  token' \in [Tokens -> TokenRow] /\ \A t \in Tokens : TokenAges(t)
  <2> DEFINE t == request[r].token
  <2>1. t \in Tokens
    BY <1>3 DEF Redeem, LinkInv
  <2>2. token' = token \/ Consume(t)
    BY <1>3 DEF Redeem
  <2> QED
    BY <1>1, <1>2, <2>1, <2>2 DEF Consume
<1>4. ASSUME NEW r \in Requests, Accept(r)
      PROVE  token' \in [Tokens -> TokenRow] /\ \A t \in Tokens : TokenAges(t)
  <2> DEFINE t == request[r].token
             S == {x \in Tokens : token[x].type = "INVITATION" /\ token[x].email = token[t].email
                                  /\ token[x].state \in {"valid", "expired"}}
  <2>1. t \in Tokens /\ token[t].type = "INVITATION"
    BY <1>4 DEF Accept, LinkInv
  <2>2. CASE token' = token
    BY <1>1, <2>2
  <2>3. CASE token' # token
    <3>1. PICK u \in Users \ Accounts :
            token' = [x \in Tokens |-> [token[x] EXCEPT !.state = IF x \in S THEN "used" ELSE @,
                                                        !.user = IF x = t THEN u ELSE @]]
      BY <1>4, <2>3 DEF Accept
    <3>2. S \in SUBSET Tokens /\ \A x \in S : token[x].state \in {"valid", "expired"}
      OBVIOUS
    <3> HIDE DEF S, t
    <3> QED
      BY <2>1, <3>1, <3>2, AcceptTokens
  <2> QED
    BY <2>2, <2>3
<1>5. ASSUME NEW u \in Users, CancelChange(u)
      PROVE  token' \in [Tokens -> TokenRow] /\ \A t \in Tokens : TokenAges(t)
  <2> DEFINE S == {t \in Tokens : token[t].type = "EMAIL_CHANGE" /\ token[t].user = u
                                  /\ token[t].state = "valid"}
  <2>1. token' = [t \in Tokens |-> IF t \in S THEN [token[t] EXCEPT !.state = "expired"]
                                   ELSE token[t]]
    BY <1>5 DEF CancelChange
  <2>2. \A t \in S : token[t].state = "valid"
    OBVIOUS
  <2> HIDE DEF S
  <2> QED
    BY <2>1, <2>2, TokensExpire
<1>6. ASSUME NEW t \in Tokens, CancelInvitation(t) \/ Expire(t) \/ PurgeToken(t)
      PROVE  token' \in [Tokens -> TokenRow] /\ \A x \in Tokens : TokenAges(x)
  BY <1>2, <1>6 DEF CancelInvitation, Expire, PurgeToken
<1>7. ASSUME NEW r \in Requests,
             \/ ChangeIssue(r)
             \/ \E e \in Emails : \/ RequestReset(r, e) \/ ResendVerification(r, e) \/ Register(r, e)
                                  \/ Invite(r, e) \/ \E u \in Users : ChangeEmail(r, u, e)
             \/ \E t \in Tokens : Open(r, t)
      PROVE  token' = token
  BY <1>7 DEF ChangeIssue, RequestReset, ResendVerification, Register, Invite, ChangeEmail, Open
<1>8. ASSUME NEW u \in Users, \/ \E e \in Emails : CreateUser(u, e)
                              \/ \E on \in BOOLEAN : SetActive(u, on)
      PROVE  token' = token
  BY <1>8 DEF CreateUser, SetActive
<1> QED
  BY <1>1, <1>3, <1>4, <1>5, <1>6, <1>7, <1>8 DEF TokenNext

\* A request rests, or is about to do what the step found it may.
RequestMoves(r) ==
    LET k == request'[r] IN
      /\ OnlyRequest(r)
      /\ \/ k.pc = "idle"
         \/ /\ k.pc = "issue" /\ k.email \in Emails
            /\ \/ k.type = "INVITATION"
               \/ /\ k.user \in Users /\ user'[k.user].email # NoEmail
                  /\ k.type = "EMAIL_VERIFICATION" => user'[k.user].email = k.email
         \/ k.pc = "change" /\ k.email \in Emails /\ k.user \in Accounts
         \/ /\ k.pc = "redeem" /\ k.token \in Tokens /\ token[k.token].state # "none"
            /\ token' = token

\* A step moves one request at most, the one that takes it.
LEMMA RequestsStep ==
    TokenTypeOK /\ LinkInv /\ TokenNext =>
        request' = request \/ \E r \in Requests : RequestMoves(r)
<1> SUFFICES ASSUME TokenTypeOK, LinkInv, TokenNext
             PROVE  request' = request \/ \E r \in Requests : RequestMoves(r)
  OBVIOUS
<1>1. ASSUME NEW r \in Requests, NEW type \in Types, NEW e \in Emails,
             NEW u \in Users \cup {NoUser}, Issue(r, type, e, u),
             \/ type = "INVITATION"
             \/ /\ u \in Users /\ user'[u].email # NoEmail
                /\ type = "EMAIL_VERIFICATION" => user'[u].email = e
      PROVE  RequestMoves(r)
  BY ZenonT(40), <1>1, IssueEffect DEF RequestMoves
<1>2. \A u \in Accounts : u \in Users /\ user[u].email # NoEmail
  BY DEF Accounts
<1>3. \A e \in Emails : e # NoEmail /\ \A u \in AccountOf(e) : u \in Users /\ user[u].email = e
  BY TokenAssumption DEF AccountOf, Accounts
<1>4. ASSUME NEW r \in Requests, NEW e \in Emails, RequestReset(r, e) PROVE RequestMoves(r)
  BY <1>1, <1>3, <1>4 DEF RequestReset, Types
<1>5. ASSUME NEW r \in Requests, NEW e \in Emails, ResendVerification(r, e)
      PROVE  request' = request \/ RequestMoves(r)
  BY <1>1, <1>3, <1>5 DEF ResendVerification, Types
<1>6. ASSUME NEW r \in Requests, NEW e \in Emails, Register(r, e)
      PROVE  request' = request \/ RequestMoves(r)
  <2>1. PICK u \in Users \ Accounts :
          /\ user' = [user EXCEPT ![u] = [NoAccount EXCEPT !.email = e, !.verified = ~mailer,
                                                           !.active = TRUE]]
          /\ \/ Issue(r, "EMAIL_VERIFICATION", e, u)
             \/ request' = request
    BY <1>6 DEF Register
  <2> DEFINE k == [NoAccount EXCEPT !.email = e, !.verified = ~mailer, !.active = TRUE]
  <2>2. k.email = e
    BY DEF NoAccount
  <2>3. user'[u].email = e
    <3>1. user'[u] = k
      BY <2>1, LinkTypes
    <3> QED
      BY <2>2, <3>1
  <2> QED
    BY <1>1, <1>3, <2>1, <2>3 DEF Types
<1>7. ASSUME NEW r \in Requests, NEW e \in Emails, Invite(r, e) PROVE RequestMoves(r)
  BY <1>1, <1>7 DEF Invite, Types
<1>8. ASSUME NEW r \in Requests, NEW u \in Users, NEW e \in Emails, ChangeEmail(r, u, e)
      PROVE  request' = request \/ RequestMoves(r)
  <2>1. CASE mailer
    <3> DEFINE k == [Done EXCEPT !.pc = "change", !.user = u, !.email = e]
    <3>1. request' = [request EXCEPT ![r] = k]
      BY <1>8, <2>1 DEF ChangeEmail
    <3>2. k \in RequestRecord /\ k.pc = "change" /\ k.email = e /\ k.user = u
      BY LinkRowsAtRest DEF RequestRecord
    <3> HIDE DEF k
    <3>3. OnlyRequest(r) /\ request'[r] = k
      BY <3>1, <3>2, LinkTypes DEF OnlyRequest
    <3>4. u \in Accounts
      BY <1>8 DEF ChangeEmail
    <3> QED
      BY <3>2, <3>3, <3>4 DEF RequestMoves
  <2>2. CASE ~mailer
    BY <1>8, <2>2 DEF ChangeEmail
  <2> QED
    BY <2>1, <2>2
<1>9. ASSUME NEW r \in Requests, ChangeIssue(r) PROVE RequestMoves(r)
  <2>1. /\ request[r].email \in Emails /\ request[r].user \in Accounts
        /\ Issue(r, "EMAIL_CHANGE", request[r].email, request[r].user) /\ user' = user
    BY <1>9 DEF ChangeIssue, LinkInv
  <2> QED
    BY <1>1, <1>2, <2>1 DEF Types
<1>10. ASSUME NEW r \in Requests, NEW t \in Tokens, Open(r, t) PROVE RequestMoves(r)
  <2> DEFINE k == [Done EXCEPT !.pc = "redeem", !.token = t]
  <2>1. request' = [request EXCEPT ![r] = k] /\ token' = token /\ token[t].state = "valid"
    BY <1>10 DEF Open
  <2>2. k \in RequestRecord /\ k.pc = "redeem" /\ k.token = t
    BY LinkRowsAtRest DEF RequestRecord
  <2> HIDE DEF k
  <2>3. OnlyRequest(r) /\ request'[r] = k
    BY <2>1, <2>2, LinkTypes DEF OnlyRequest
  <2> QED
    BY <2>1, <2>2, <2>3 DEF RequestMoves
<1>11. ASSUME NEW r \in Requests, IssueCommit(r) \/ Redeem(r) \/ Accept(r) PROVE RequestMoves(r)
  <2>1. Return(r)
    BY <1>11 DEF IssueCommit, Redeem, Accept
  <2> QED
    BY <2>1, ReturnEffect DEF RequestMoves
<1>12. ASSUME NEW t \in Tokens, CancelInvitation(t) \/ Expire(t) \/ PurgeToken(t)
       PROVE  request' = request
  BY <1>12 DEF CancelInvitation, Expire, PurgeToken
<1>13. ASSUME NEW u \in Users, \/ CancelChange(u)
                               \/ \E e \in Emails : CreateUser(u, e)
                               \/ \E on \in BOOLEAN : SetActive(u, on)
       PROVE  request' = request
  BY <1>13 DEF CancelChange, CreateUser, SetActive
<1> QED
  BY <1>4, <1>5, <1>6, <1>7, <1>8, <1>9, <1>10, <1>11, <1>12, <1>13 DEF TokenNext

------------------------------------------------------------------------------
(* Types, addresses and verified accounts.                                  *)

\* Accounts stay, and keep what they have.
LEMMA AccountsGrow ==
    ASSUME TokenTypeOK, UNCHANGED <<user, proved>> \/ \E u \in Users : UserMoves(u)
    PROVE  \A v \in Accounts :
              /\ v \in Accounts' /\ v \in Users /\ user'[v].email # NoEmail
              /\ user[v].verified => user'[v].verified
              /\ proved[v] \subseteq proved'[v]
              /\ mailer => user'[v].email = user[v].email \/ user'[v].verified
<1> SUFFICES ASSUME NEW v \in Accounts
             PROVE  /\ v \in Accounts' /\ v \in Users /\ user'[v].email # NoEmail
                    /\ user[v].verified => user'[v].verified
                    /\ proved[v] \subseteq proved'[v]
                    /\ mailer => user'[v].email = user[v].email \/ user'[v].verified
  OBVIOUS
<1>1. v \in Users /\ user[v].email # NoEmail
  BY DEF Accounts
<1>2. CASE UNCHANGED <<user, proved>>
  BY <1>1, <1>2 DEF Accounts
<1>3. ASSUME NEW u \in Users, UserMoves(u)
      PROVE  /\ user'[v].email # NoEmail
             /\ user[v].verified => user'[v].verified
             /\ proved[v] \subseteq proved'[v]
             /\ mailer => user'[v].email = user[v].email \/ user'[v].verified
  BY <1>1, <1>3 DEF UserMoves, OnlyUser
<1> QED
  BY <1>1, <1>2, <1>3 DEF Accounts

\* A redeemed token has one effect more.
LEMMA RedeemEffects ==
    ASSUME TokenTypeOK, LinkInv, NEW r \in Requests, Redeem(r) \/ Accept(r)
    PROVE  /\ request[r].token \in Tokens
           /\ \/ effects' = effects
              \/ effects' = [effects EXCEPT ![request[r].token] = effects[request[r].token] + 1]
           /\ effects' \in [Tokens -> Nat]
<1> DEFINE t == request[r].token
<1>1. t \in Tokens
  BY DEF Redeem, Accept, LinkInv
<1>2. effects' = effects \/ effects' = [effects EXCEPT ![t] = effects[t] + 1]
  BY DEF Redeem, Accept
<1> HIDE DEF t
<1>3. effects' \in [Tokens -> Nat]
  BY <1>1, <1>2, LinkTypes
<1> QED
  BY <1>1, <1>2, <1>3 DEF t

\* Only a redemption has effects.
LEMMA EffectsStep == TokenNext => effects' = effects \/ \E r \in Requests : Redeem(r) \/ Accept(r)
BY ZenonT(40) DEF TokenNext, IssueCommit, ChangeIssue, RequestReset, ResendVerification,
       Register, Invite, ChangeEmail, Open, CancelInvitation, Expire, PurgeToken, CancelChange,
       CreateUser, SetActive

\* Every step keeps the types of all variables, and the mailer.
LEMMA TokenTypesStep ==
    TokenTypeOK /\ LinkInv /\ AddressInv /\ VerifiedInv /\ TokenNext =>
        TokenTypeOK' /\ mailer' = mailer
<1> SUFFICES ASSUME TokenTypeOK, LinkInv, AddressInv, VerifiedInv, TokenNext
             PROVE  TokenTypeOK' /\ mailer' = mailer
  OBVIOUS
<1>1. user' \in [Users -> UserRow] /\ proved' \in [Users -> SUBSET Emails]
  BY UsersStep, LinkTypes DEF UserMoves, OnlyUser
<1>2. token' \in [Tokens -> TokenRow]
  BY TokensStep, IssueCommitEffect
<1>3. request' \in [Requests -> RequestRecord]
  BY RequestsStep, LinkTypes DEF RequestMoves, OnlyRequest
<1>4. /\ mailer' = mailer
      /\ calls' \in 0..MaxCalls
  <2>1. mailer' = mailer /\ (calls' = calls \/ (calls < MaxCalls /\ calls' = calls + 1))
    <3>1. \A r \in Requests : Begin(r) => calls < MaxCalls /\ calls' = calls + 1
      BY DEF Begin
    <3>2. ASSUME NEW r \in Requests, ChangeIssue(r) \/ IssueCommit(r) \/ Redeem(r) \/ Accept(r)
          PROVE  mailer' = mailer /\ calls' = calls
      BY <3>2 DEF ChangeIssue, IssueCommit, Redeem, Accept
    <3>3. ASSUME NEW r \in Requests, NEW e \in Emails,
                 \/ RequestReset(r, e) \/ ResendVerification(r, e) \/ Register(r, e) \/ Invite(r, e)
                 \/ \E u \in Users : ChangeEmail(r, u, e)
          PROVE  mailer' = mailer /\ Begin(r)
      BY <3>3 DEF RequestReset, ResendVerification, Register, Invite, ChangeEmail
    <3>4. ASSUME NEW r \in Requests, NEW t \in Tokens, Open(r, t) PROVE mailer' = mailer /\ Begin(r)
      BY <3>4 DEF Open
    <3>5. ASSUME NEW t \in Tokens, CancelInvitation(t) \/ Expire(t) \/ PurgeToken(t)
          PROVE  mailer' = mailer /\ calls' = calls
      BY <3>5 DEF CancelInvitation, Expire, PurgeToken
    <3>6. ASSUME NEW u \in Users, \/ CancelChange(u)
                                  \/ \E e \in Emails : CreateUser(u, e)
                                  \/ \E on \in BOOLEAN : SetActive(u, on)
          PROVE  mailer' = mailer /\ (calls' = calls \/ (calls < MaxCalls /\ calls' = calls + 1))
      BY <3>6 DEF CancelChange, CreateUser, SetActive
    <3> QED
      BY <3>1, <3>2, <3>3, <3>4, <3>5, <3>6 DEF TokenNext
  <2> QED
    BY <2>1, BeginEffect, LinkTypes
<1>5. effects' \in [Tokens -> Nat]
  BY EffectsStep, RedeemEffects, LinkTypes
<1>6. crossed' \in [Types \X Emails -> Nat]
  <2>1. \/ crossed' = crossed
        \/ \E r \in Requests, type \in Types, e \in Emails, u \in Users \cup {NoUser} :
              Issue(r, type, e, u)
    <3>1. \A r \in Requests : ChangeIssue(r) =>
             request[r].email \in Emails /\ request[r].user \in Users \cup {NoUser}
      BY LinkTypes, FieldOfRequest DEF ChangeIssue, LinkInv
    <3>2. \A e \in Emails : \A u \in AccountOf(e) : u \in Users
      BY DEF AccountOf, Accounts
    <3>3. ASSUME NEW r \in Requests, ChangeIssue(r)
          PROVE  \E type \in Types, e \in Emails, u \in Users \cup {NoUser} : Issue(r, type, e, u)
      BY <3>1, <3>3 DEF ChangeIssue, Types
    <3>4. ASSUME NEW r \in Requests, NEW e \in Emails,
                 RequestReset(r, e) \/ ResendVerification(r, e) \/ Register(r, e) \/ Invite(r, e)
          PROVE  \/ crossed' = crossed
                 \/ \E type \in Types, u \in Users \cup {NoUser} : Issue(r, type, e, u)
      BY <3>2, <3>4 DEF RequestReset, ResendVerification, Register, Invite, Types
    <3> QED
      BY ZenonT(40), <3>3, <3>4 DEF TokenNext, IssueCommit, Redeem, Accept, ChangeEmail, Open, CancelInvitation,
           Expire, PurgeToken, CancelChange, CreateUser, SetActive
  <2> QED
    BY <2>1, IssueEffect, LinkTypes
<1> QED
  BY <1>1, <1>2, <1>3, <1>4, <1>5, <1>6, LinkTypes
     DEF TokenTypeOK, TokenRow, UserRow, RequestRecord

\* A token that is there stays there, with its address and its account.
LEMMA TokensStay ==
    ASSUME TokenTypeOK, LinkInv, TokenNext
    PROVE  \A t \in Tokens : token[t].state # "none" =>
              /\ token'[t].state # "none"
              /\ token'[t].type = token[t].type /\ token'[t].email = token[t].email
              /\ token[t].type # "INVITATION" => token'[t].user = token[t].user
<1> SUFFICES ASSUME NEW t \in Tokens, token[t].state # "none"
             PROVE  /\ token'[t].state # "none"
                    /\ token'[t].type = token[t].type /\ token'[t].email = token[t].email
                    /\ token[t].type # "INVITATION" => token'[t].user = token[t].user
  OBVIOUS
<1>1. TokenAges(t)
  BY TokensStep, IssueCommitEffect
<1> QED
  BY <1>1 DEF TokenAges

\* A step keeps what a link in the table says of the account it is for.
LEMMA LinksStep ==
    TokenTypeOK /\ LinkInv /\ AddressInv /\ VerifiedInv /\ TokenNext => LinkInv'
<1> SUFFICES ASSUME TokenTypeOK, LinkInv, AddressInv, VerifiedInv, TokenNext PROVE LinkInv'
  OBVIOUS
<1>1. \A v \in Accounts : v \in Accounts' /\ v \in Users /\ user'[v].email # NoEmail
  BY UsersStep, AccountsGrow
<1>2. \A t \in Tokens : token[t].state # "none" =>
         /\ token'[t].state # "none"
         /\ token'[t].type = token[t].type /\ token'[t].email = token[t].email
         /\ token[t].type # "INVITATION" => token'[t].user = token[t].user
  BY TokensStay
<1>3. ASSUME NEW t \in Tokens, token[t].state # "none"
      PROVE  /\ token'[t].state # "none" /\ token'[t].email \in Emails
             /\ token'[t].type # "INVITATION" => token'[t].user \in Accounts'
  BY <1>1, <1>2, <1>3 DEF LinkInv
<1>4. ASSUME NEW t \in Tokens, token[t].state = "none" PROVE effects'[t] = 0
  <2>1. effects[t] = 0
    BY <1>4 DEF LinkInv
  <2>2. CASE effects' = effects
    BY <2>1, <2>2
  <2>3. ASSUME NEW r \in Requests, Redeem(r) \/ Accept(r) PROVE effects'[t] = effects[t]
    <3>1. request[r].pc = "redeem"
      BY <2>3 DEF Redeem, Accept
    <3>2. request[r].token # t
      BY <1>4, <3>1 DEF LinkInv
    <3> QED
      BY <2>3, <3>2, RedeemEffects, LinkTypes
  <2> QED
    BY <2>1, <2>2, <2>3, EffectsStep
<1>5. ASSUME NEW t \in Tokens, token[t].state = "none", token'[t].state # "none"
      PROVE  /\ token'[t].email \in Emails
             /\ token'[t].type # "INVITATION" => token'[t].user \in Accounts'
  <2>1. PICK r \in Requests : IssueCommit(r)
    BY <1>5, TokensStep DEF TokenAges
  <2>2. PICK x \in Tokens :
          /\ token'[x].type = request[r].type /\ token'[x].email = request[r].email
          /\ token'[x].user = request[r].user /\ request[r].pc = "issue"
          /\ \A y \in Tokens \ {x} : TokenAges(y)
    BY <2>1, IssueCommitEffect
  <2>3. x = t
    BY <1>5, <2>2 DEF TokenAges
  <2> QED
    BY <1>1, <2>2, <2>3 DEF LinkInv
<1>6. \A t \in Tokens : /\ token'[t].state = "none" => effects'[t] = 0
                        /\ token'[t].state # "none" =>
                             /\ token'[t].email \in Emails
                             /\ token'[t].type # "INVITATION" => token'[t].user \in Accounts'
  BY <1>3, <1>4, <1>5
<1>7. ASSUME NEW r \in Requests, request'[r] = request[r]
      PROVE  /\ request'[r].pc \in {"issue", "change"} => request'[r].email \in Emails
             /\ request'[r].pc = "change" => request'[r].user \in Accounts'
             /\ request'[r].pc = "issue" /\ request'[r].type # "INVITATION" =>
                  request'[r].user \in Accounts'
             /\ request'[r].pc = "redeem" =>
                  request'[r].token \in Tokens /\ token'[request'[r].token].state # "none"
  BY <1>1, <1>2, <1>7 DEF LinkInv
<1>8. ASSUME NEW r \in Requests, RequestMoves(r)
      PROVE  /\ request'[r].pc \in {"issue", "change"} => request'[r].email \in Emails
             /\ request'[r].pc = "change" => request'[r].user \in Accounts'
             /\ request'[r].pc = "issue" /\ request'[r].type # "INVITATION" =>
                  request'[r].user \in Accounts'
             /\ request'[r].pc = "redeem" =>
                  request'[r].token \in Tokens /\ token'[request'[r].token].state # "none"
  BY <1>1, <1>8 DEF RequestMoves, Accounts
<1>9. \A r \in Requests : request'[r] = request[r] \/ RequestMoves(r)
  BY RequestsStep DEF RequestMoves, OnlyRequest
<1> QED
  BY <1>6, <1>7, <1>8, <1>9 DEF LinkInv

\* The unique index on the addresses.
LEMMA AddressesStep ==
    TokenTypeOK /\ LinkInv /\ AddressInv /\ VerifiedInv /\ TokenNext => AddressInv'
<1> SUFFICES ASSUME TokenTypeOK, LinkInv, AddressInv, VerifiedInv, TokenNext PROVE AddressInv'
  OBVIOUS
<1>1. CASE user' = user
  BY <1>1 DEF AddressInv, Accounts
<1>2. ASSUME NEW u \in Users, UserMoves(u) PROVE AddressInv'
  <2>1. \A v \in Users \ {u} : user'[v] = user[v]
    BY <1>2 DEF UserMoves, OnlyUser
  <2>2. ASSUME NEW v \in Accounts', v # u, u \in Accounts', user'[v].email = user'[u].email
        PROVE  FALSE
    <3>1. v \in Users /\ v \in Accounts /\ user'[v] = user[v] /\ user'[u].email # NoEmail
      BY <2>1, <2>2 DEF Accounts
    <3>2. user'[u].email = user[u].email \/ \A w \in Accounts : user[w].email = user'[u].email => w = u
      BY <1>2, <3>1 DEF UserMoves
    <3>3. user'[u].email = user[u].email
      BY <2>2, <3>1, <3>2
    <3>4. u \in Accounts
      BY <1>2, <3>1, <3>3 DEF Accounts
    <3> QED
      BY <2>2, <3>1, <3>3, <3>4 DEF AddressInv
  <2>3. ASSUME NEW v \in Accounts', NEW w \in Accounts', v # u, w # u, user'[v].email = user'[w].email
        PROVE  v = w
    BY <2>1, <2>3 DEF AddressInv, Accounts
  <2> QED
    BY <2>2, <2>3 DEF AddressInv
<1> QED
  BY <1>1, <1>2, UsersStep

\* A step keeps it that, with a mailer, a verified address was proved.
LEMMA VerifiedStep ==
    TokenTypeOK /\ LinkInv /\ AddressInv /\ VerifiedInv /\ TokenNext => VerifiedInv'
<1> SUFFICES ASSUME TokenTypeOK, LinkInv, AddressInv, VerifiedInv, TokenNext, mailer
             PROVE  VerifiedInv'
  BY TokenTypesStep DEF VerifiedInv
<1>1. ASSUME NEW v \in Accounts', user'[v].verified PROVE user'[v].email \in proved'[v]
  <2>1. v \in Users /\ user'[v].email # NoEmail
    BY DEF Accounts
  <2>2. CASE UNCHANGED <<user, proved>>
    BY <1>1, <2>1, <2>2 DEF VerifiedInv, Accounts
  <2>3. ASSUME NEW u \in Users, UserMoves(u) PROVE user'[v].email \in proved'[v]
    BY <1>1, <2>1, <2>3 DEF UserMoves, OnlyUser, VerifiedInv, Accounts
  <2> QED
    BY <2>2, <2>3, UsersStep
<1>2. \A v \in Accounts : /\ user[v].verified => user'[v].verified
                          /\ user'[v].email = user[v].email \/ user'[v].verified
  BY UsersStep, AccountsGrow
<1>3. ASSUME NEW v \in Accounts, NEW e, SettledAddress(v, e)
      PROVE  user'[v].email = e \/ user'[v].verified
  BY <1>2, <1>3 DEF SettledAddress
<1>4. ASSUME NEW t \in Tokens, token'[t].state # "none", token'[t].type = "EMAIL_VERIFICATION"
      PROVE  user'[token'[t].user].email = token'[t].email \/ user'[token'[t].user].verified
  <2>1. CASE token[t].state # "none"
    <3>1. /\ token'[t].type = token[t].type /\ token'[t].email = token[t].email
          /\ token[t].type # "INVITATION" => token'[t].user = token[t].user
      BY <2>1, TokensStay
    <3>2. token[t].user \in Accounts /\ SettledAddress(token[t].user, token[t].email)
      BY <1>4, <2>1, <3>1 DEF LinkInv, VerifiedInv
    <3> QED
      BY <1>3, <1>4, <3>1, <3>2
  <2>2. CASE token[t].state = "none"
    <3>1. PICK r \in Requests : IssueCommit(r)
      BY <1>4, <2>2, TokensStep DEF TokenAges
    <3>2. PICK x \in Tokens :
            /\ token'[x].type = request[r].type /\ token'[x].email = request[r].email
            /\ token'[x].user = request[r].user /\ request[r].pc = "issue"
            /\ \A y \in Tokens \ {x} : TokenAges(y)
      BY <3>1, IssueCommitEffect
    <3>3. x = t
      BY <1>4, <2>2, <3>2 DEF TokenAges
    <3>4. request[r].user \in Accounts /\ SettledAddress(request[r].user, request[r].email)
      BY <1>4, <3>2, <3>3 DEF LinkInv, VerifiedInv
    <3> QED
      BY <1>3, <3>2, <3>3, <3>4
  <2> QED
    BY <2>1, <2>2
<1>5. ASSUME NEW r \in Requests, request'[r].pc = "issue", request'[r].type = "EMAIL_VERIFICATION"
      PROVE  user'[request'[r].user].email = request'[r].email \/ user'[request'[r].user].verified
  <2>1. CASE request'[r] = request[r]
    <3>1. request[r].user \in Accounts /\ SettledAddress(request[r].user, request[r].email)
      BY <1>5, <2>1 DEF LinkInv, VerifiedInv
    <3> QED
      BY <1>3, <2>1, <3>1
  <2>2. CASE RequestMoves(r)
    BY <1>5, <2>2 DEF RequestMoves
  <2> QED
    BY <2>1, <2>2, RequestsStep DEF RequestMoves, OnlyRequest
<1> QED
  BY <1>1, <1>4, <1>5 DEF VerifiedInv, SettledAddress

------------------------------------------------------------------------------
(* What a token did.                                                        *)

\* The accounts that proved an address become more.
LEMMA OpenedGrows ==
    ASSUME TokenTypeOK, LinkInv, AddressInv, VerifiedInv, TokenNext, NEW e
    PROVE  /\ Opened(e) \subseteq Opened(e)'
           /\ Cardinality(Opened(e)) \in Nat /\ Cardinality(Opened(e)') \in Nat
           /\ Cardinality(Opened(e)) <= Cardinality(Opened(e)')
           /\ \A u \in Opened(e)' : u \notin Opened(e) =>
                 Cardinality(Opened(e)) + 1 <= Cardinality(Opened(e)')
<1>1. Opened(e) \subseteq Opened(e)'
  <2>1. \A v \in Accounts : v \in Accounts' /\ proved[v] \subseteq proved'[v]
    BY UsersStep, AccountsGrow
  <2> QED
    BY <2>1 DEF Opened
<1> DEFINE S == Opened(e)
           T == Opened(e)'
<1>2. IsFiniteSet(S) /\ IsFiniteSet(T)
  BY TokenAssumption, FS_Subset DEF Opened, Accounts
<1> HIDE DEF S, T
<1>3. S \subseteq T
  BY <1>1 DEF S, T
<1>4. Cardinality(S) \in Nat /\ Cardinality(T) \in Nat /\ Cardinality(S) <= Cardinality(T)
  BY <1>2, <1>3, FS_Subset, FS_CardinalityType
<1>5. ASSUME NEW u \in T, u \notin S PROVE Cardinality(S) + 1 <= Cardinality(T)
  <2>1. S \cup {u} \subseteq T /\ Cardinality(S \cup {u}) = Cardinality(S) + 1
    BY <1>2, <1>3, <1>5, FS_AddElement
  <2> QED
    BY <1>2, <2>1, FS_Subset
<1> QED
  BY <1>1, <1>4, <1>5 DEF S, T

\* The effect of a redemption on the token itself.
LEMMA RedeemedOnce ==
    ASSUME TokenTypeOK, LinkInv, AddressInv, VerifiedInv, EffectInv, TokenNext,
           NEW r \in Requests, Redeem(r), NEW t \in Tokens, t = request[r].token,
           effects' # effects
    PROVE  effects'[t] = 1 /\ token'[t].state = "used" /\ token'[t].type # "INVITATION"
<1>1. /\ token[t].state = "valid" /\ SetToken(t, "used") /\ token[t].type # "INVITATION"
      /\ effects' = [effects EXCEPT ![t] = effects[t] + 1]
  BY DEF Redeem, Consume
<1>2. effects[t] \in Nat /\ effects[t] <= 1 /\ effects[t] # 1
  BY <1>1, LinkTypes DEF EffectInv
<1>3. effects'[t] = 1
  BY <1>1, <1>2, LinkTypes
<1>4. token'[t].state = "used" /\ token'[t].type = token[t].type
  BY <1>1, SetTokenEffect
<1> QED
  BY <1>1, <1>3, <1>4

\* An accepted invitation makes one more account with its address.
LEMMA AcceptedByAnother ==
    ASSUME TokenTypeOK, LinkInv, AddressInv, VerifiedInv, EffectInv, TokenNext,
           NEW r \in Requests, Accept(r), NEW t \in Tokens, t = request[r].token,
           effects' # effects
    PROVE  /\ token'[t].type = "INVITATION"
           /\ effects'[t] <= Cardinality(Opened(token[t].email)')
<1> DEFINE e == token[t].email
<1>1. /\ token[t].type = "INVITATION" /\ token[t].state # "none" /\ AccountOf(e) = {}
      /\ effects' = [effects EXCEPT ![t] = effects[t] + 1]
  BY DEF Accept, LinkInv
<1>2. token'[t].type = "INVITATION" /\ token'[t].email = e
  BY <1>1, TokensStay
<1>3. PICK u \in Users \ Accounts :
        /\ user' = [user EXCEPT ![u] = [NoAccount EXCEPT !.email = e, !.verified = TRUE,
                                                          !.active = TRUE]]
        /\ proved' = [proved EXCEPT ![u] = {e}]
  BY DEF Accept
<1>4. e \in Emails
  BY <1>1 DEF LinkInv
<1> SUFFICES ASSUME NEW x, x = e PROVE effects'[t] <= Cardinality(Opened(x)')
  BY <1>2 DEF Opened
<1> HIDE DEF e
<1>5. user'[u].email = e /\ e \in proved'[u]
  <2>1. user'[u].email = e
    BY <1>1, <1>3, <1>4, AccountCreated
  <2> QED
    BY <1>3, <2>1, LinkTypes
<1>6. u \in Opened(x)' /\ u \notin Opened(x)
  BY <1>4, <1>5, TokenAssumption DEF Opened, Accounts
<1>7. Cardinality(Opened(x)) + 1 <= Cardinality(Opened(x)') /\ Cardinality(Opened(x)) \in Nat
      /\ Cardinality(Opened(x)') \in Nat
  BY <1>6, OpenedGrows
<1>8. effects[t] \in Nat /\ effects[t] <= Cardinality(Opened(x))
  BY <1>1, LinkTypes DEF EffectInv, e
<1>9. effects'[t] = effects[t] + 1
  BY <1>1, LinkTypes
<1> QED
  BY <1>7, <1>8, <1>9

\* A step keeps the effects of a link counted: one for a link that is used, and for an
\* invitation no more than the accounts that hold its address.
LEMMA EffectsKept ==
    TokenTypeOK /\ LinkInv /\ AddressInv /\ VerifiedInv /\ EffectInv /\ TokenNext => EffectInv'
<1> SUFFICES ASSUME TokenTypeOK, LinkInv, AddressInv, VerifiedInv, EffectInv, TokenNext,
                    NEW t \in Tokens
             PROVE  IF token'[t].type = "INVITATION"
                      THEN effects'[t] <= Cardinality(Opened(token[t].email)')
                      ELSE /\ effects'[t] <= 1
                           /\ effects'[t] = 1 => token'[t].state \in {"used", "deleted"}
  BY DEF EffectInv, Opened, Accounts
<1>1. effects[t] \in Nat
  BY LinkTypes
<1>2. CASE token'[t].state = "none" \/ token[t].state = "none"
  <2>1. effects'[t] = 0
    <3>1. CASE token'[t].state = "none"
      BY <3>1, LinksStep DEF LinkInv
    <3>2. CASE token[t].state = "none"
      <4>1. effects[t] = 0
        BY <3>2 DEF LinkInv
      <4>2. ASSUME NEW r \in Requests, Redeem(r) \/ Accept(r) PROVE effects'[t] = effects[t]
        <5>1. request[r].pc = "redeem"
          BY <4>2 DEF Redeem, Accept
        <5>2. request[r].token # t
          BY <3>2, <5>1 DEF LinkInv
        <5> QED
          BY <4>2, <5>2, RedeemEffects, LinkTypes
      <4> QED
        BY <4>1, <4>2, EffectsStep
    <3> QED
      BY <1>2, <3>1, <3>2
  <2>2. Cardinality(Opened(token[t].email)') \in Nat
    <3>1. PICK e : e = token'[t].email
      OBVIOUS
    <3>2. Cardinality(Opened(e)') \in Nat
      BY OpenedGrows
    <3> QED
      BY <3>1, <3>2 DEF Opened
  <2> QED
    BY <2>1, <2>2
<1>3. CASE token[t].state # "none" /\ effects'[t] = effects[t]
  <2>1. /\ token'[t].type = token[t].type /\ token'[t].email = token[t].email
        /\ token[t].state \in {"used", "deleted"} => token'[t].state \in {"used", "deleted"}
    <3>1. TokenAges(t)
      BY <1>3, TokensStep, IssueCommitEffect
    <3> QED
      BY <3>1 DEF TokenAges
  <2>2. CASE token[t].type = "INVITATION"
    <3>1. PICK e : e = token[t].email
      OBVIOUS
    <3>2. effects[t] <= Cardinality(Opened(e))
      BY <2>2, <3>1 DEF EffectInv
    <3>3. /\ Cardinality(Opened(e)) \in Nat /\ Cardinality(Opened(e)') \in Nat
          /\ Cardinality(Opened(e)) <= Cardinality(Opened(e)')
      BY OpenedGrows
    <3>4. effects'[t] <= Cardinality(Opened(e)')
      BY <1>1, <1>3, <3>2, <3>3
    <3> QED
      BY <2>1, <2>2, <3>1, <3>4 DEF Opened
  <2>3. CASE token[t].type # "INVITATION"
    BY <1>3, <2>1, <2>3 DEF EffectInv
  <2> QED
    BY <2>2, <2>3
<1>4. CASE effects'[t] # effects[t]
  <2>1. PICK r \in Requests : Redeem(r) \/ Accept(r)
    BY <1>4, EffectsStep
  <2>2. t = request[r].token
    BY <1>4, <2>1, RedeemEffects, LinkTypes
  <2>3. effects' # effects
    BY <1>4
  <2>4. CASE Redeem(r)
    BY <2>2, <2>3, <2>4, RedeemedOnce
  <2>5. CASE Accept(r)
    BY <2>2, <2>3, <2>5, AcceptedByAnother
  <2> QED
    BY <2>1, <2>4, <2>5
<1> QED
  BY <1>2, <1>3, <1>4

------------------------------------------------------------------------------
(* The valid tokens of a destination.                                       *)

\* How a step changes what is being issued: not at all, by one issue more, or by one that
\* commits.
LEMMA IssuesStep ==
    TokenTypeOK /\ LinkInv /\ TokenNext =>
      \/ \E r \in Requests : IssueCommit(r)
      \/ \E r \in Requests, type \in Types, e \in Emails, u \in Users \cup {NoUser} :
            Issue(r, type, e, u) /\ request[r].pc # "issue" /\ token' = token
      \/ /\ crossed' = crossed
         /\ \A r \in Requests : request[r].pc = "issue" \/ request'[r].pc = "issue" =>
                                  request'[r] = request[r]
<1> DEFINE Quiet == /\ crossed' = crossed
                    /\ \A r \in Requests : request[r].pc = "issue" \/ request'[r].pc = "issue" =>
                                             request'[r] = request[r]
           Issues == \E r \in Requests, type \in Types, e \in Emails, u \in Users \cup {NoUser} :
                        Issue(r, type, e, u) /\ request[r].pc # "issue" /\ token' = token
<1> SUFFICES ASSUME TokenTypeOK, LinkInv, TokenNext, ~\E r \in Requests : IssueCommit(r)
             PROVE  Quiet \/ Issues
  OBVIOUS
<1>1. ASSUME UNCHANGED <<request, crossed>> PROVE Quiet
  BY <1>1
<1>2. ASSUME NEW r \in Requests, OnlyRequest(r), crossed' = crossed, request[r].pc # "issue",
             request'[r].pc # "issue"
      PROVE  Quiet
  BY <1>2 DEF OnlyRequest
<1>3. \A r \in Requests : Begin(r) => request[r].pc = "idle"
  BY LinkRowsAtRest DEF Begin
<1>4. \A e \in Emails : \A u \in AccountOf(e) : u \in Users
  BY DEF AccountOf, Accounts
<1>5. ASSUME NEW r \in Requests, NEW e \in Emails,
             RequestReset(r, e) \/ ResendVerification(r, e) \/ Register(r, e) \/ Invite(r, e)
      PROVE  Quiet \/ Issues
  <2>1. Begin(r) /\ token' = token
    BY <1>5 DEF RequestReset, ResendVerification, Register, Invite
  <2>2. \/ UNCHANGED <<request, crossed>>
        \/ \E type \in Types, u \in Users \cup {NoUser} : Issue(r, type, e, u)
    BY <1>4, <1>5 DEF RequestReset, ResendVerification, Register, Invite, Types
  <2> QED
    BY <1>1, <1>3, <2>1, <2>2
<1>6. ASSUME NEW r \in Requests, ChangeIssue(r) PROVE Issues
  <2>1. /\ request[r].email \in Emails /\ request[r].user \in Users \cup {NoUser}
        /\ request[r].pc = "change" /\ token' = token
        /\ Issue(r, "EMAIL_CHANGE", request[r].email, request[r].user)
    BY <1>6, LinkTypes, FieldOfRequest DEF ChangeIssue, LinkInv
  <2> QED
    BY <2>1 DEF Types
<1>7. ASSUME NEW r \in Requests, NEW u \in Users, NEW e \in Emails, ChangeEmail(r, u, e)
      PROVE  Quiet
  <2>1. Begin(r) /\ crossed' = crossed
    BY <1>7 DEF ChangeEmail
  <2>2. CASE mailer
    <3> DEFINE k == [Done EXCEPT !.pc = "change", !.user = u, !.email = e]
    <3>1. request' = [request EXCEPT ![r] = k]
      BY <1>7, <2>2 DEF ChangeEmail
    <3>2. k \in RequestRecord /\ k.pc = "change"
      BY LinkRowsAtRest DEF RequestRecord
    <3> HIDE DEF k
    <3>3. OnlyRequest(r) /\ request'[r] = k
      BY <3>1, <3>2, LinkTypes DEF OnlyRequest
    <3> QED
      BY <1>2, <1>3, <2>1, <3>2, <3>3
  <2>3. CASE ~mailer
    BY <1>1, <1>7, <2>3 DEF ChangeEmail
  <2> QED
    BY <2>2, <2>3
<1>8. ASSUME NEW r \in Requests, NEW t \in Tokens, Open(r, t) PROVE Quiet
  <2> DEFINE k == [Done EXCEPT !.pc = "redeem", !.token = t]
  <2>1. request' = [request EXCEPT ![r] = k] /\ Begin(r) /\ crossed' = crossed
    BY <1>8 DEF Open
  <2>2. k \in RequestRecord /\ k.pc = "redeem"
    BY LinkRowsAtRest DEF RequestRecord
  <2> HIDE DEF k
  <2>3. OnlyRequest(r) /\ request'[r] = k
    BY <2>1, <2>2, LinkTypes DEF OnlyRequest
  <2> QED
    BY <1>2, <1>3, <2>1, <2>2, <2>3
<1>9. ASSUME NEW r \in Requests, Redeem(r) \/ Accept(r) PROVE Quiet
  <2>1. Return(r) /\ request[r].pc = "redeem" /\ crossed' = crossed
    BY <1>9 DEF Redeem, Accept
  <2> QED
    BY <1>2, <2>1, ReturnEffect
<1>10. ASSUME NEW t \in Tokens, CancelInvitation(t) \/ Expire(t) \/ PurgeToken(t) PROVE Quiet
  BY <1>1, <1>10 DEF CancelInvitation, Expire, PurgeToken
<1>11. ASSUME NEW u \in Users, \/ CancelChange(u)
                               \/ \E e \in Emails : CreateUser(u, e)
                               \/ \E on \in BOOLEAN : SetActive(u, on)
       PROVE  Quiet
  BY <1>1, <1>11 DEF CancelChange, CreateUser, SetActive
<1> HIDE DEF Quiet, Issues
<1> QED
  BY <1>5, <1>6, <1>7, <1>8, <1>9, <1>10, <1>11 DEF TokenNext

\* Sizes of sets of tokens.
LEMMA TokensCount ==
    ASSUME NEW S \in SUBSET Tokens, NEW T \in SUBSET Tokens
    PROVE  /\ Cardinality(T) \in Nat
           /\ T = {} => Cardinality(T) = 0
           /\ T \subseteq S => Cardinality(T) <= Cardinality(S)
           /\ \A t : T \subseteq S \cup {t} => Cardinality(T) <= Cardinality(S) + 1
<1>1. IsFiniteSet(T) /\ IsFiniteSet(S)
  BY TokenAssumption, FS_Subset
<1>2. Cardinality(S) \in Nat /\ Cardinality(T) \in Nat
  BY <1>1, FS_CardinalityType
<1>3. (T = {} => Cardinality(T) = 0) /\ (T \subseteq S => Cardinality(T) <= Cardinality(S))
  BY <1>1, FS_EmptySet, FS_Subset
<1>4. ASSUME NEW t, T \subseteq S \cup {t} PROVE Cardinality(T) <= Cardinality(S) + 1
  <2>1. CASE t \in S
    <3>1. T \subseteq S
      BY <1>4, <2>1
    <3> QED
      BY <1>2, <1>3, <3>1
  <2>2. CASE t \notin S
    <3>1. IsFiniteSet(S \cup {t}) /\ Cardinality(S \cup {t}) = Cardinality(S) + 1
      BY <1>1, <2>2, FS_AddElement
    <3> QED
      BY <1>4, <3>1, FS_Subset
  <2> QED
    BY <2>1, <2>2
<1> QED
  BY <1>2, <1>3, <1>4

\* Sizes of sets of requests.
LEMMA IssuesCount ==
    ASSUME NEW S \in SUBSET Requests, NEW r \in Requests, r \notin S
    PROVE  /\ Cardinality(S) \in Nat /\ Cardinality(S \cup {r}) = Cardinality(S) + 1
           /\ S = {} <=> Cardinality(S) = 0
<1>1. IsFiniteSet(S)
  BY TokenAssumption, FS_Subset
<1> QED
  BY <1>1, FS_CardinalityType, FS_AddElement, FS_EmptySet

\* One destination: what ValidInv says of it.
Bounded(type, e) ==
    /\ Cardinality(Issuing(type, e)) <= 1 + crossed[<<type, e>>]
    /\ Cardinality(Valid(type, e)) <= 1 + crossed[<<type, e>>]
    /\ \A r \in Issuing(type, e) :
         Cardinality(Valid(type, e) \ request[r].doomed) + Cardinality(Issuing(type, e))
           <= 1 + crossed[<<type, e>>]

\* The issues of a destination and its crossings stay, and no token becomes valid.
LEMMA BoundedKept ==
    ASSUME TokenTypeOK, NEW type \in Types, NEW e \in Emails, Bounded(type, e),
           Issuing(type, e)' = Issuing(type, e),
           \A r \in Issuing(type, e) : request'[r] = request[r],
           crossed'[<<type, e>>] = crossed[<<type, e>>],
           Valid(type, e)' \subseteq Valid(type, e)
    PROVE  Bounded(type, e)'
<1> DEFINE V == Valid(type, e)
           W == Valid(type, e)'
           c == crossed[<<type, e>>]
           n == Cardinality(Issuing(type, e))
<1>1. V \in SUBSET Tokens /\ W \in SUBSET V
  BY DEF Valid
<1>2. c \in Nat /\ n \in Nat
  <2>1. IsFiniteSet(Issuing(type, e))
    BY TokenAssumption, FS_Subset DEF Issuing
  <2> QED
    BY <2>1, FS_CardinalityType, LinkTypes
<1>3. /\ n <= 1 + c /\ Cardinality(V) <= 1 + c
      /\ \A r \in Issuing(type, e) : Cardinality(V \ request[r].doomed) + n <= 1 + c
  BY DEF Bounded
<1>4. Cardinality(Issuing(type, e))' = n /\ crossed'[<<type, e>>] = c
  OBVIOUS
<1> HIDE DEF V, W, c, n
<1>5. Cardinality(W) <= 1 + c
  <2>1. Cardinality(W) \in Nat /\ Cardinality(V) \in Nat /\ Cardinality(W) <= Cardinality(V)
    BY <1>1, TokensCount
  <2> QED
    BY <1>2, <1>3, <2>1
<1>6. ASSUME NEW r \in Issuing(type, e)' PROVE Cardinality(W \ request'[r].doomed) + n <= 1 + c
  <2>1. r \in Issuing(type, e) /\ request'[r] = request[r]
    OBVIOUS
  <2> DEFINE S == V \ request[r].doomed
             T == W \ request[r].doomed
  <2>2. S \in SUBSET Tokens /\ T \in SUBSET Tokens /\ T \subseteq S
    BY <1>1
  <2>3. Cardinality(S) + n <= 1 + c
    BY <1>3, <2>1
  <2> HIDE DEF S, T
  <2>4. Cardinality(S) \in Nat /\ Cardinality(T) \in Nat /\ Cardinality(T) <= Cardinality(S)
    BY <2>2, TokensCount
  <2>5. Cardinality(T) + n <= 1 + c
    BY <1>2, <2>3, <2>4
  <2> QED
    BY <2>1, <2>5 DEF T
<1> QED
  BY <1>3, <1>4, <1>5, <1>6 DEF Bounded, W

\* One issue more: it will leave its own token, and crosses those under way.
LEMMA BoundedIssue ==
    ASSUME TokenTypeOK, NEW type \in Types, NEW e \in Emails, Bounded(type, e),
           NEW r \in Requests, NEW u \in Users \cup {NoUser}, Issue(r, type, e, u),
           request[r].pc # "issue", token' = token
    PROVE  Bounded(type, e)'
<1> DEFINE V == Valid(type, e)
           I == Issuing(type, e)
           c == crossed[<<type, e>>]
           n == Cardinality(I)
<1>1. /\ OnlyRequest(r)
      /\ request'[r].pc = "issue" /\ request'[r].type = type /\ request'[r].email = e
      /\ request'[r].doomed = V
      /\ crossed'[<<type, e>>] = c + IF I = {} THEN 0 ELSE 1
  BY IssueEffect, LinkTypes
<1>2. Issuing(type, e)' = I \cup {r} /\ r \notin I /\ Valid(type, e)' = V
  BY <1>1 DEF Issuing, OnlyRequest, Valid
<1>3. /\ n \in Nat /\ Cardinality(Issuing(type, e)') = n + 1 /\ (I = {} <=> n = 0) /\ c \in Nat
  <2>1. I \in SUBSET Requests
    BY DEF Issuing
  <2> QED
    BY <1>2, <2>1, IssuesCount, LinkTypes
<1>4. /\ n <= 1 + c /\ Cardinality(V) <= 1 + c
      /\ \A q \in I : Cardinality(V \ request[q].doomed) + n <= 1 + c
  BY DEF Bounded
<1>5. V \in SUBSET Tokens /\ Cardinality(V) \in Nat
  <2>1. V \in SUBSET Tokens
    BY DEF Valid
  <2> QED
    BY <2>1, TokensCount
<1>6. \A q \in I : q \in Requests /\ q # r /\ request'[q] = request[q]
  BY <1>1, <1>2 DEF Issuing, OnlyRequest
<1> HIDE DEF V, I, c, n
<1>7. /\ n + 1 <= 1 + crossed'[<<type, e>>]
      /\ Cardinality(V) <= 1 + crossed'[<<type, e>>]
  BY <1>1, <1>3, <1>4, <1>5
<1>8. ASSUME NEW q \in I \cup {r}
      PROVE  Cardinality(V \ request'[q].doomed) + (n + 1) <= 1 + crossed'[<<type, e>>]
  <2>1. CASE q = r
    <3>1. V \ request'[q].doomed = {}
      BY <1>1, <2>1
    <3>2. Cardinality(V \ request'[q].doomed) = 0
      BY <3>1, FS_EmptySet
    <3> QED
      BY <1>3, <1>7, <3>2
  <2>2. CASE q \in I
    <3>1. request'[q] = request[q] /\ I # {}
      BY <1>6, <2>2
    <3>2. Cardinality(V \ request[q].doomed) + n <= 1 + c
      BY <1>4, <2>2
    <3>3. Cardinality(V \ request[q].doomed) \in Nat
      BY <1>5, TokensCount
    <3>4. crossed'[<<type, e>>] = c + 1
      BY <1>1, <3>1
    <3> QED
      BY <1>3, <3>1, <3>2, <3>3, <3>4
  <2> QED
    BY <2>1, <2>2
<1> QED
  BY <1>2, <1>3, <1>7, <1>8 DEF Bounded

\* An issue commits: what it did not expire stays, and its token is added.
LEMMA BoundedCommit ==
    ASSUME TokenTypeOK, NEW type \in Types, NEW e \in Emails, Bounded(type, e),
           NEW r \in Requests, IssueCommit(r), request[r].type = type, request[r].email = e
    PROVE  Bounded(type, e)'
<1> DEFINE V == Valid(type, e)
           W == Valid(type, e)'
           I == Issuing(type, e)
           J == Issuing(type, e)'
           c == crossed[<<type, e>>]
           n == Cardinality(I)
           m == Cardinality(J)
<1>1. OnlyRequest(r) /\ request[r].pc = "issue" /\ request'[r].pc = "idle" /\ crossed' = crossed
  BY IssueCommitEffect
<1>2. PICK t \in Tokens :
        /\ \A x \in Tokens \ {t} : TokenAges(x)
        /\ \A x \in Tokens \ {t} : x \in request[r].doomed => token'[x].state # "valid"
  BY IssueCommitEffect
<1>3. W \subseteq (V \ request[r].doomed) \cup {t} /\ V \in SUBSET Tokens /\ W \in SUBSET Tokens
  BY <1>2 DEF Valid, TokenAges
<1>4. /\ J = I \ {r} /\ r \in I
      /\ \A q \in J : q \in I /\ request'[q] = request[q]
  BY <1>1 DEF Issuing, OnlyRequest
<1>5. n = m + 1 /\ m \in Nat /\ c \in Nat
  <2>1. J \in SUBSET Requests /\ r \notin J /\ I = J \cup {r}
    BY <1>4 DEF Issuing
  <2> HIDE DEF I, J
  <2> QED
    BY <2>1, IssuesCount, LinkTypes
<1>6. n <= 1 + c /\ \A q \in I : Cardinality(V \ request[q].doomed) + n <= 1 + c
  BY DEF Bounded
<1>7. crossed'[<<type, e>>] = c
  BY <1>1
<1> HIDE DEF V, W, I, J, c, n, m
<1>8. Cardinality(W) <= 1 + c
  <2> DEFINE S == V \ request[r].doomed
  <2>1. S \in SUBSET Tokens
    BY <1>3
  <2>2. Cardinality(S) + n <= 1 + c
    BY <1>4, <1>6
  <2>3. W \subseteq S \cup {t}
    BY <1>3
  <2> HIDE DEF S
  <2>4. Cardinality(S) \in Nat /\ Cardinality(W) \in Nat /\ Cardinality(W) <= Cardinality(S) + 1
    BY <1>3, <2>1, <2>3, TokensCount
  <2> QED
    BY <1>5, <2>2, <2>4
<1>9. ASSUME NEW q \in J PROVE Cardinality(W \ request'[q].doomed) + m <= 1 + c
  <2>1. q \in I /\ request'[q] = request[q]
    BY <1>4
  <2> DEFINE S == V \ request[q].doomed
             T == W \ request[q].doomed
  <2>2. S \in SUBSET Tokens /\ T \in SUBSET Tokens /\ T \subseteq S \cup {t}
    BY <1>3
  <2>3. Cardinality(S) + n <= 1 + c
    BY <1>6, <2>1
  <2> HIDE DEF S, T
  <2>4. Cardinality(S) \in Nat /\ Cardinality(T) \in Nat /\ Cardinality(T) <= Cardinality(S) + 1
    BY <2>2, TokensCount
  <2>5. Cardinality(T) + m <= 1 + c
    BY <1>5, <2>3, <2>4
  <2> QED
    BY <2>1, <2>5 DEF T
<1> QED
  BY <1>5, <1>6, <1>7, <1>8, <1>9 DEF Bounded, W, J, m

\* A step keeps the valid links of a destination bounded by one and the issues that crossed.
LEMMA ValidStep == TokenTypeOK /\ LinkInv /\ ValidInv /\ TokenNext => ValidInv'
<1> SUFFICES ASSUME TokenTypeOK, LinkInv, ValidInv, TokenNext,
                    NEW type \in Types, NEW e \in Emails
             PROVE  Bounded(type, e)'
  BY DEF ValidInv, Bounded
<1>1. Bounded(type, e)
  BY DEF ValidInv, Bounded
<1>2. ASSUME NEW r \in Requests, IssueCommit(r) PROVE Bounded(type, e)'
  <2>1. CASE request[r].type = type /\ request[r].email = e
    BY <1>1, <1>2, <2>1, BoundedCommit
  <2>2. CASE ~(request[r].type = type /\ request[r].email = e)
    <3>1. /\ OnlyRequest(r) /\ request[r].pc = "issue" /\ request'[r].pc = "idle"
          /\ crossed' = crossed
      BY <1>2, IssueCommitEffect
    <3>2. PICK t \in Tokens :
            /\ token'[t].type = request[r].type /\ token'[t].email = request[r].email
            /\ \A x \in Tokens \ {t} : TokenAges(x)
      BY <1>2, IssueCommitEffect
    <3>3. Valid(type, e)' \subseteq Valid(type, e)
      BY <2>2, <3>2 DEF Valid, TokenAges
    <3>4. /\ Issuing(type, e)' = Issuing(type, e)
          /\ \A q \in Issuing(type, e) : request'[q] = request[q]
      BY <2>2, <3>1 DEF Issuing, OnlyRequest
    <3> QED
      BY <1>1, <3>1, <3>3, <3>4, BoundedKept
  <2> QED
    BY <2>1, <2>2
<1>3. ASSUME NEW r \in Requests, NEW type_1 \in Types, NEW e_1 \in Emails,
             NEW u \in Users \cup {NoUser}, Issue(r, type_1, e_1, u), request[r].pc # "issue",
             token' = token
      PROVE  Bounded(type, e)'
  <2>1. CASE type_1 = type /\ e_1 = e
    BY <1>1, <1>3, <2>1, BoundedIssue
  <2>2. CASE ~(type_1 = type /\ e_1 = e)
    <3>0. /\ OnlyRequest(r) /\ request'[r].type = type_1 /\ request'[r].email = e_1
          /\ crossed' = [crossed EXCEPT ![<<type_1, e_1>>] =
                            crossed[<<type_1, e_1>>] + IF Issuing(type_1, e_1) = {} THEN 0 ELSE 1]
      BY <1>3, IssueEffect
    <3>1. crossed'[<<type, e>>] = crossed[<<type, e>>]
      <4>1. <<type, e>> # <<type_1, e_1>> /\ <<type, e>> \in Types \X Emails
        BY <2>2
      <4> QED
        BY <3>0, <4>1, LinkTypes
    <3>2. Valid(type, e)' = Valid(type, e)
      BY <1>3 DEF Valid
    <3>3. /\ Issuing(type, e)' = Issuing(type, e)
          /\ \A q \in Issuing(type, e) : request'[q] = request[q]
      BY <1>3, <2>2, <3>0 DEF Issuing, OnlyRequest
    <3> QED
      BY <1>1, <3>1, <3>2, <3>3, BoundedKept
  <2> QED
    BY <2>1, <2>2
<1>4. ASSUME crossed' = crossed, ~\E r \in Requests : IssueCommit(r),
             \A r \in Requests : request[r].pc = "issue" \/ request'[r].pc = "issue" =>
                                   request'[r] = request[r]
      PROVE  Bounded(type, e)'
  <2>1. Valid(type, e)' \subseteq Valid(type, e)
    BY <1>4, TokensStep DEF Valid, TokenAges
  <2>2. /\ Issuing(type, e)' = Issuing(type, e)
        /\ \A q \in Issuing(type, e) : request'[q] = request[q]
    BY <1>4 DEF Issuing
  <2> QED
    BY <1>1, <1>4, <2>1, <2>2, BoundedKept
<1> QED
  BY <1>2, <1>3, <1>4, IssuesStep

------------------------------------------------------------------------------
(* What the links keep.                                                     *)

\* The start satisfies the invariant of the links.
LEMMA TokenStarts == TokenInit => TokenInv
<1> SUFFICES ASSUME TokenInit PROVE TokenInv
  OBVIOUS
<1>1. PICK first \in Users, e \in Emails :
        /\ user = [u \in Users |-> IF u = first THEN [NoAccount EXCEPT !.email = e, !.active = TRUE]
                                   ELSE NoAccount]
        /\ proved = [u \in Users |-> {}]
  BY DEF TokenInit
<1> DEFINE row == [NoAccount EXCEPT !.email = e, !.active = TRUE]
<1>2. row \in UserRow /\ ~row.verified
  BY LinkRowsAtRest DEF UserRow, NoAccount
<1>3. /\ token = [t \in Tokens |-> NoRow] /\ request = [r \in Requests |-> Done]
      /\ effects = [t \in Tokens |-> 0] /\ crossed = [x \in Types \X Emails |-> 0]
      /\ calls = 0 /\ mailer \in BOOLEAN
  BY DEF TokenInit
<1>4. /\ \A t \in Tokens : token[t] = NoRow /\ token[t].state = "none" /\ effects[t] = 0
      /\ \A r \in Requests : request[r] = Done /\ request[r].pc = "idle"
  BY <1>3, LinkRowsAtRest
<1>5. \A u \in Users : user[u] = IF u = first THEN row ELSE NoAccount
  BY <1>1
<1>6. user \in [Users -> UserRow]
  <2>1. user = [u \in Users |-> IF u = first THEN row ELSE NoAccount]
    BY <1>1
  <2> HIDE DEF row
  <2> QED
    BY <1>2, <2>1, LinkRowsAtRest
<1> HIDE DEF row
<1>7. \A u \in Accounts : u = first /\ ~user[u].verified
  BY <1>2, <1>5, LinkRowsAtRest DEF Accounts
<1>8. TokenTypeOK
  BY <1>1, <1>3, <1>6, LinkRowsAtRest, TokenAssumption
     DEF TokenTypeOK, TokenRow, UserRow, RequestRecord
<1>9. LinkInv /\ AddressInv /\ VerifiedInv
  BY <1>4, <1>7 DEF LinkInv, AddressInv, VerifiedInv
<1>10. EffectInv
  <2>1. ASSUME NEW x PROVE Cardinality(Opened(x)) \in Nat
    <3>1. IsFiniteSet(Opened(x))
      BY TokenAssumption, FS_Subset DEF Opened, Accounts
    <3> QED
      BY <3>1, FS_CardinalityType
  <2> QED
    BY <1>4, <2>1 DEF EffectInv
<1>11. ValidInv
  <2>1. ASSUME NEW type \in Types, NEW x \in Emails
        PROVE  /\ Issuing(type, x) = {} /\ Valid(type, x) = {}
               /\ crossed[<<type, x>>] = 0
    BY <1>3, <1>4 DEF Issuing, Valid
  <2>2. Cardinality({}) = 0
    BY FS_EmptySet
  <2>3. ASSUME NEW type \in Types, NEW x \in Emails PROVE Bounded(type, x)
    BY <2>1, <2>2 DEF Bounded
  <2> QED
    BY <2>3 DEF ValidInv, Bounded
<1> QED
  BY <1>8, <1>9, <1>10, <1>11 DEF TokenInv

\* The invariant of the links holds in every state.
LEMMA TokenInvariant == TokenSpec => []TokenInv
<1>1. TokenInv /\ [TokenNext]_tokenVars => TokenInv'
  <2> SUFFICES ASSUME TokenInv, [TokenNext]_tokenVars PROVE TokenInv'
    OBVIOUS
  <2>1. CASE TokenNext
    BY <2>1, TokenTypesStep, LinksStep, AddressesStep, VerifiedStep, EffectsKept, ValidStep
       DEF TokenInv
  <2>2. CASE UNCHANGED tokenVars
    <3>1. UNCHANGED <<token, user, mailer, request, effects, proved, crossed, calls, Accounts>>
      BY <2>2 DEF tokenVars, Accounts
    <3>2. TokenTypeOK' /\ LinkInv' /\ AddressInv'
      BY <3>1 DEF TokenInv, TokenTypeOK, LinkInv, AddressInv
    <3>3. VerifiedInv' /\ EffectInv'
      BY <3>1 DEF TokenInv, VerifiedInv, SettledAddress, EffectInv, Opened
    <3>4. ValidInv'
      BY ZenonT(40), <3>1 DEF TokenInv, ValidInv, Issuing, Valid
    <3> QED
      BY <3>2, <3>3, <3>4 DEF TokenInv
  <2> QED
    BY <2>1, <2>2
<1> QED
  BY <1>1, TokenStarts, PTL DEF TokenSpec

\* Every variable of the links keeps its type.
THEOREM LinkTypeCorrect == TokenSpec => []TokenTypeOK
BY TokenInvariant, PTL DEF TokenInv

\* With a mail server, whatever requests cross, an address counts as verified only when a
\* link sent to that very address was opened.
THEOREM VerifiedWasProved == TokenSpec => []VerifiedIsProved
<1>1. TokenInv => VerifiedIsProved
  BY DEF TokenInv, VerifiedInv, VerifiedIsProved
<1> QED
  BY <1>1, TokenInvariant, PTL

\* issue() and its locks: there are more valid tokens of a type and destination than one
\* only for the issues of it that crossed.
THEOREM ValidTokensCounted == TokenSpec => []OneValidToken
<1>1. TokenInv => OneValidToken
  BY DEF TokenInv, ValidInv, OneValidToken
<1> QED
  BY <1>1, TokenInvariant, PTL

\* The condition of the redemption, and the unique index on the addresses: of the requests
\* that redeem a link one succeeds; an invitation works again only once the account it
\* made has left the address.
THEOREM LinksWorkOnce == TokenSpec => []LinkWorksOnce
<1>1. TokenInv => LinkWorksOnce
  <2> SUFFICES ASSUME TokenInv, NEW t \in Tokens
               PROVE  effects[t] <= 1 +
                        IF token[t].type # "INVITATION" THEN 0
                        ELSE Cardinality({u \in Accounts : token[t].email \in proved[u]
                                                           /\ user[u].email # token[t].email})
    BY DEF LinkWorksOnce
  <2>1. CASE token[t].type # "INVITATION"
    BY <2>1 DEF TokenInv, EffectInv
  <2>2. CASE token[t].type = "INVITATION"
    <3> DEFINE e == token[t].email
               S == {u \in Accounts : e \in proved[u] /\ user[u].email # e}
               T == Opened(e)
    <3>1. effects[t] \in Nat /\ effects[t] <= Cardinality(T)
      BY <2>2, LinkTypes DEF TokenInv, EffectInv
    <3>2. IsFiniteSet(S) /\ IsFiniteSet(T) /\ S \subseteq T
      BY TokenAssumption, FS_Subset DEF Opened, Accounts
    <3>3. Cardinality(S) \in Nat /\ Cardinality(T) \in Nat
      BY <3>2, FS_CardinalityType
    <3>4. Cardinality(T) <= Cardinality(S) + 1
      <4>1. CASE \E u \in T : user[u].email = e
        <5>1. PICK u \in T : user[u].email = e
          BY <4>1
        <5>2. T = S \cup {u} /\ u \notin S
          BY <5>1 DEF Opened, TokenInv, AddressInv
        <5> HIDE DEF S, T
        <5> QED
          BY <3>2, <3>3, <5>2, FS_AddElement
      <4>2. CASE ~\E u \in T : user[u].email = e
        <5>1. T = S
          BY <4>2 DEF Opened
        <5> HIDE DEF S, T
        <5> QED
          BY <3>3, <5>1
      <4> QED
        BY <4>1, <4>2
    <3> HIDE DEF T
    <3>5. effects[t] <= 1 + Cardinality(S)
      <4> HIDE DEF S
      <4> QED
        BY <3>1, <3>3, <3>4
    <3> QED
      BY <2>2, <3>5
  <2> QED
    BY <2>1, <2>2
<1> QED
  BY <1>1, TokenInvariant, PTL
==============================================================================
