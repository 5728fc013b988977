---------------------------- MODULE WebClient_proofs ----------------------------
(***************************************************************************)
(* Proofs about the front end, for any number of people, sign-ins and       *)
(* changes, every query and every page.                                     *)
(*                                                                          *)
(* What the cache holds of another account is recent wherever the user      *)
(* goes.  That a user sees what they changed depends on the lists of keys   *)
(* written by hand, which are right for the queries of the page that offers *)
(* the mutation: the theorem takes a user who waits there for the answer.   *)
(***************************************************************************)
EXTENDS WebClient, SequenceTheorems, TLAPS

------------------------------------------------------------------------------
(* The types.                                                               *)

Mutations == UNION {Pages[p].offers : p \in DOMAIN Pages}

EntryRecord == [of : People \cup {Nobody}, behind : SUBSET Mutations, invalid : BOOLEAN,
                young : BOOLEAN]
RequestRecord == [pc : {"none", "sent", "answered", "refused"}, token : Nat,
                  behind : SUBSET Mutations]
ChangeRecord == [pc : {"none", "sent", "done"}, does : Mutations \cup {"none"}, token : Nat]

\* A request and a mutation under way carry a token that was handed out.
WebTyped ==
    /\ query \in Queries
    /\ place \in DOMAIN Pages \cup {"login"}
    /\ holder \in Seq(People)
    /\ bearer \in 0..Len(holder)
    /\ (bearer = 0) <=> (place = "login")
    /\ accepted \subseteq 1..Len(holder)
    /\ entry \in EntryRecord
    /\ asking \in RequestRecord
    /\ asking.pc # "none" => asking.token \in 1..Len(holder)
    /\ change \in ChangeRecord
    /\ change.pc # "none" => change.token \in 1..Len(holder) /\ change.does \in Mutations
    /\ inherited \in BOOLEAN /\ changes \in Nat

\* Data of another account that is shown without asking, or on its way, or shown with
\* nothing on its way, was there as the session began.
OthersInv ==
    /\ bearer # 0 /\ asking.pc # "none" /\ holder[asking.token] # holder[bearer] => inherited
    /\ Foreign(entry.of) /\ entry.young => inherited
    /\ Mounted /\ Foreign(entry.of) => inherited \/ asking.pc # "none"

\* The change that was carried out and waits for its onSuccess.
Waiting == IF change.pc = "done" THEN {change.does} ELSE {}

\* What a query on screen may lack.
MayLack == excused \cup Omitted(query) \cup Waiting

\* What is missing in the entry, or in the answer awaited instead of it, is excused or due.
ChangesInv ==
    /\ ~Has(entry) => entry.behind = {}
    /\ \A m \in entry.behind \cup asking.behind : Affects(m, query)
    /\ Mounted => (IF asking.pc = "none" THEN entry.behind ELSE asking.behind) \subseteq MayLack

\* The user waits for a change on a page that offers it.
AtItsPage ==
    change.pc # "none" /\ place # "login" => change.does \in Pages[place].offers

------------------------------------------------------------------------------
(* Types.                                                                   *)

LEMMA LoginIsNoPage == "login" \notin DOMAIN Pages
  BY DEF Pages

LEMMA OffersAreMutations ==
  ASSUME NEW p \in DOMAIN Pages, NEW m \in Pages[p].offers
  PROVE  m \in Mutations
  BY DEF Mutations

\* An account that was handed a token keeps it.
LEMMA HolderGrows ==
  ASSUME WebTyped, [WebNext]_webVars
  PROVE  /\ holder' \in Seq(People)
         /\ Len(holder) \in Nat /\ Len(holder') \in Nat /\ Len(holder) <= Len(holder')
         /\ \A i \in 1..Len(holder) : holder[i] \in People /\ holder'[i] = holder[i]
<1>1. /\ holder \in Seq(People) /\ Len(holder) \in Nat
      /\ \A i \in 1..Len(holder) : holder[i] \in People
  BY ElementOfSeq, LenProperties DEF WebTyped
<1>2. ASSUME NEW u \in People, holder' = Append(holder, u)
      PROVE  /\ holder' \in Seq(People) /\ Len(holder') = Len(holder) + 1
             /\ \A i \in 1..Len(holder) : holder'[i] = holder[i]
  BY <1>1, <1>2, AppendProperties
<1>3. holder' = holder \/ \E u \in People : holder' = Append(holder, u)
  <2>1. ASSUME NEW u \in People, SignIn(u) PROVE holder' = Append(holder, u)
    BY <2>1 DEF SignIn
  <2>2. ASSUME Execute PROVE holder' = holder \/ holder' = Append(holder, holder[change.token])
    BY <2>2 DEF Execute
  <2>3. ASSUME Execute PROVE holder[change.token] \in People
    BY <1>1, <2>3 DEF Execute, WebTyped
  <2>4. ASSUME NEW u \in People, Revoke(u) PROVE holder' = holder
    BY <2>4 DEF Revoke
  <2>5. ASSUME NEW p, Visit(p) PROVE holder' = holder
    BY <2>5 DEF Visit
  <2>6. ASSUME NEW m, Mutate(m) PROVE holder' = holder
    BY <2>6 DEF Mutate, session
  <2>7. ASSUME \/ SignOut \/ Poll \/ Respond \/ Store \/ Refused \/ Fail \/ Age \/ Forget
               \/ ExecuteNot \/ Settle \/ SettlePassword \/ Lost
        PROVE  holder' = holder
    BY <2>7 DEF SignOut, Poll, Respond, Store, Refused, Fail, Age, Forget, ExecuteNot, Settle,
                SettlePassword, Lost, SignedOut, session
  <2>8. CASE UNCHANGED webVars
    BY <2>8 DEF webVars, session
  <2> QED
    BY <2>1, <2>2, <2>3, <2>4, <2>5, <2>6, <2>7, <2>8 DEF WebNext
<1> QED
  BY <1>1, <1>2, <1>3

\* What mounting does to the request of the query.
LEMMA MountAsks ==
  ASSUME NEW p, NEW shows, NEW token, Mount(p, shows, token), WebTyped
  PROVE  /\ place' = p
         /\ \/ asking' = asking /\ excused' = excused \cup entry.behind \cup asking.behind
            \/ asking' = Sent(token) /\ asking.pc = "none" /\ excused' = excused
         /\ query \in shows /\ asking.pc = "none" /\ (~Has(entry) \/ entry.invalid \/ ~entry.young) =>
              asking' = Sent(token)
<1>1. asking.pc = "none" => asking # Sent(token)
  BY DEF Sent
<1> QED
  BY <1>1 DEF Mount, FetchOnMount

LEMMA SentIsRequest ==
  ASSUME NEW token \in Nat
  PROVE  Sent(token) \in RequestRecord /\ Sent(token).pc = "sent" /\ Sent(token).token = token
         /\ Sent(token).behind = {}
  BY DEF Sent, RequestRecord

LEMMA WebInitTyped == WebInit => WebTyped
<1> SUFFICES ASSUME WebInit PROVE WebTyped
  OBVIOUS
<1>1. /\ NoEntry \in EntryRecord /\ NoRequest \in RequestRecord /\ NoChange \in ChangeRecord
      /\ NoRequest.pc = "none" /\ NoChange.pc = "none"
  BY DEF NoEntry, NoRequest, NoChange, EntryRecord, RequestRecord, ChangeRecord
<1>2. holder \in Seq(People) /\ Len(holder) = 0
  BY DEF WebInit
<1>3. /\ query \in Queries /\ place = "login" /\ bearer = 0 /\ accepted = {}
      /\ entry = NoEntry /\ asking = NoRequest /\ change = NoChange
      /\ inherited = FALSE /\ changes = 0
  BY DEF WebInit
<1>4. bearer \in 0..Len(holder) /\ accepted \subseteq 1..Len(holder) /\ changes \in Nat
  BY <1>2, <1>3
<1>5. entry \in EntryRecord /\ asking \in RequestRecord /\ change \in ChangeRecord
      /\ asking.pc = "none" /\ change.pc = "none"
  BY <1>1, <1>3
<1>6. inherited \in BOOLEAN
  BY <1>3
<1> QED
  BY <1>2, <1>3, <1>4, <1>5, <1>6 DEF WebTyped

LEMMA WebTypeStep ==
  ASSUME WebTyped, [WebNext]_webVars
  PROVE  WebTyped'
<1> DEFINE n == Len(holder)
<1>1. /\ holder' \in Seq(People) /\ n \in Nat /\ Len(holder') \in Nat /\ n <= Len(holder')
      /\ \A i \in 1..n : holder[i] \in People /\ holder'[i] = holder[i]
  BY HolderGrows
<1>2. /\ NoEntry \in EntryRecord /\ NoRequest \in RequestRecord /\ NoChange \in ChangeRecord
      /\ NoRequest.pc = "none" /\ NoChange.pc = "none"
  BY DEF NoEntry, NoRequest, NoChange, EntryRecord, RequestRecord, ChangeRecord
<1>3. ASSUME NEW u \in People, SignIn(u) PROVE WebTyped'
  <2>1. PICK p \in DOMAIN Pages : Mount(p, AndMenu(p), bearer')
    BY <1>3 DEF SignIn
  <2>2. Len(holder') = n + 1 /\ bearer' = n + 1
    BY <1>3, AppendProperties DEF SignIn, WebTyped
  <2>3. asking' \in RequestRecord /\ (asking'.pc # "none" => asking'.token \in 1..Len(holder'))
    BY <1>1, <2>1, <2>2, MountAsks, SentIsRequest DEF WebTyped
  <2>4. inherited' \in BOOLEAN
    BY <1>3 DEF SignIn, WebTyped, EntryRecord
  <2>5. accepted' \subseteq 1..Len(holder') /\ bearer' \in 0..Len(holder')
    <3>1. accepted \subseteq 1..n /\ accepted' = accepted \cup {n + 1}
      BY <1>3, <2>2 DEF SignIn, WebTyped
    <3>2. n \in Nat
      BY <1>1
    <3> HIDE DEF n
    <3>3. 1..n \subseteq 1..(n + 1) /\ n + 1 \in 1..(n + 1) /\ n + 1 \in 0..(n + 1)
      BY <3>2
    <3>4. accepted' \subseteq 1..(n + 1)
      BY <3>1, <3>3
    <3> QED
      BY <2>2, <3>3, <3>4
  <2>6. place' = p /\ place' # "login" /\ bearer' # 0
    BY <1>1, <2>1, <2>2, MountAsks, LoginIsNoPage
  <2>7. change'.pc # "none" => change'.token \in 1..Len(holder') /\ change'.does \in Mutations
    BY <1>1, <1>3, <2>2 DEF SignIn, WebTyped
  <2>8. UNCHANGED <<query, entry, change, changes>>
    BY <1>3 DEF SignIn
  <2> QED
    BY <1>1, <2>3, <2>4, <2>5, <2>6, <2>7, <2>8 DEF WebTyped
<1>4. ASSUME NEW u \in People, Revoke(u) PROVE WebTyped'
  BY <1>4 DEF Revoke, WebTyped
<1>5. ASSUME NEW p \in DOMAIN Pages, Visit(p) PROVE WebTyped'
  <2>1. bearer \in 1..n
    BY <1>1, <1>5 DEF Visit, WebTyped
  <2>2. asking' \in RequestRecord /\ (asking'.pc # "none" => asking'.token \in 1..Len(holder'))
    BY <1>5, <2>1, MountAsks, SentIsRequest DEF WebTyped, Visit
  <2> QED
    BY <1>5, <2>1, <2>2, MountAsks, LoginIsNoPage DEF Visit, WebTyped
<1>6. CASE SignOut
  BY <1>6, <1>1 DEF SignOut, WebTyped
<1>7. CASE Poll
  BY <1>1, <1>7, SentIsRequest DEF Poll, Mounted, WebTyped, session
<1>8. CASE Respond
  BY <1>8 DEF Respond, WebTyped, RequestRecord, session
<1>9. CASE Store
  BY <1>1, <1>2, <1>9 DEF Store, WebTyped, EntryRecord, RequestRecord, session
<1>10. CASE Refused
  BY <1>1, <1>2, <1>10 DEF Refused, SignedOut, WebTyped
<1>11. CASE Fail
  BY <1>2, <1>11 DEF Fail, Foreign, WebTyped, session
<1>12. CASE Age
  BY <1>12 DEF Age, WebTyped, EntryRecord, session
<1>13. CASE Forget
  BY <1>2, <1>13 DEF Forget, WebTyped, session
<1>14. ASSUME NEW p \in DOMAIN Pages, NEW m \in Pages[p].offers, Mutate(m) PROVE WebTyped'
  <2>1. m \in Mutations
    BY <1>14, OffersAreMutations
  <2>2. bearer \in 1..n
    BY <1>1, <1>14 DEF Mutate, WebTyped
  <2> QED
    BY <1>14, <2>1, <2>2 DEF Mutate, WebTyped, ChangeRecord, session
<1>15. CASE Execute
  <2> DEFINE m == change.does  u == holder[change.token]
  <2>1. m \in Mutations /\ u \in People /\ change.token \in 1..n
    BY <1>1, <1>15 DEF Execute, WebTyped
  <2>2. entry' \in EntryRecord
    <3>1. entry' \in {[entry EXCEPT !.behind = @ \cup {m}], [entry EXCEPT !.behind = @]}
      BY <1>15 DEF Execute
    <3> QED
      BY <2>1, <3>1 DEF WebTyped, EntryRecord
  <2>3. asking' \in RequestRecord /\ asking'.pc = asking.pc /\ asking'.token = asking.token
    <3>1. asking' \in {asking, [asking EXCEPT !.behind = @ \cup {m}], [asking EXCEPT !.behind = @]}
      BY <1>15 DEF Execute
    <3> QED
      BY <2>1, <3>1 DEF WebTyped, RequestRecord
  <2>4. accepted' \subseteq 1..Len(holder') /\ change' \in ChangeRecord
        /\ change'.does = m /\ change'.token \in 1..Len(holder')
    <3>1. CASE m = "changeOwnPassword"
      <4>1. Len(holder') = n + 1
        BY <1>15, <2>1, <3>1, AppendProperties DEF Execute, WebTyped
      <4>2. change' = [change EXCEPT !.pc = "done", !.token = n + 1]
        BY <1>15, <3>1 DEF Execute
      <4>3. accepted' \subseteq accepted \cup {Len(holder')}
        BY <1>15, <3>1 DEF Execute
      <4>4. change'.does = m /\ change'.token = n + 1 /\ change' \in ChangeRecord
        <5>1. change \in ChangeRecord /\ n + 1 \in Nat
          BY <1>1 DEF WebTyped
        <5> HIDE DEF n
        <5> QED
          BY <4>2, <5>1 DEF ChangeRecord
      <4>5. accepted' \subseteq 1..Len(holder')
        <5>1. accepted \subseteq 1..n
          BY DEF WebTyped
        <5> HIDE DEF n
        <5> QED
          BY <1>1, <4>1, <4>3, <5>1
      <4> QED
        BY <1>1, <4>1, <4>4, <4>5
    <3>2. CASE m # "changeOwnPassword"
      <4>1. change'.token = change.token /\ change'.does = m /\ change' \in ChangeRecord
        BY <1>15, <3>2 DEF Execute, WebTyped, ChangeRecord
      <4> QED
        BY <1>15, <2>1, <3>2, <4>1 DEF Execute, WebTyped
    <3> QED
      BY <3>1, <3>2
  <2>5. UNCHANGED <<query, place, bearer, inherited, changes>>
    BY <1>15 DEF Execute
  <2> QED
    BY <1>1, <2>1, <2>2, <2>3, <2>4, <2>5 DEF WebTyped
<1>16. CASE ExecuteNot
  BY <1>1, <1>2, <1>16 DEF ExecuteNot, SignedOut, WebTyped
<1>17. CASE Settle
  <2> DEFINE given == [of |-> holder[change.token], behind |-> {}, invalid |-> FALSE, young |-> TRUE]
  <2>1. entry' \in EntryRecord
    <3>1. given \in EntryRecord /\ entry \in EntryRecord
      BY <1>1, <1>17 DEF Settle, WebTyped, EntryRecord
    <3>2. entry' \in {entry, given, [entry EXCEPT !.invalid = TRUE], [given EXCEPT !.invalid = TRUE]}
      BY <1>17 DEF Settle
    <3> HIDE DEF given
    <3> QED
      BY <3>1, <3>2 DEF EntryRecord
  <2>2. asking' = asking \/ (asking' = Sent(bearer) /\ (asking.pc = "none" \/ Mounted \/ bearer # 0) /\ Mounted)
    BY <1>17 DEF Settle, AsksAgain
  <2>3. asking' \in RequestRecord /\ (asking'.pc # "none" => asking'.token \in 1..n)
    BY <1>1, <2>2, SentIsRequest DEF WebTyped, Mounted
  <2>4. inherited' \in BOOLEAN
    BY <1>17 DEF Settle, Foreign, WebTyped
  <2> QED
    BY <1>2, <1>17, <2>1, <2>3, <2>4 DEF Settle, WebTyped, session
<1>18. CASE SettlePassword
  <2>1. change.token \in 1..n
    BY <1>18 DEF SettlePassword, WebTyped
  <2>2. /\ place' \in DOMAIN Pages
        /\ asking' \in RequestRecord /\ (asking'.pc # "none" => asking'.token \in 1..n)
    <3>1. CASE place = "login"
      <4>1. Mount("dashboard", AndMenu("dashboard"), change.token)
        BY <1>18, <3>1 DEF SettlePassword
      <4>2. "dashboard" \in DOMAIN Pages
        BY DEF Pages
      <4> QED
        BY <2>1, <4>1, <4>2, MountAsks, SentIsRequest DEF WebTyped
    <3>2. CASE place # "login"
      BY <1>18, <3>2 DEF SettlePassword, WebTyped
    <3> QED
      BY <3>1, <3>2
  <2>3. inherited' \in BOOLEAN
    BY <1>18 DEF SettlePassword, WebTyped
  <2> QED
    BY <1>1, <1>2, <1>18, <2>1, <2>2, <2>3, LoginIsNoPage DEF SettlePassword, WebTyped
<1>19. CASE Lost
  BY <1>2, <1>19 DEF Lost, WebTyped, session
<1>20. CASE UNCHANGED webVars
  BY <1>20 DEF webVars, session, WebTyped
<1> QED
  BY <1>3, <1>4, <1>5, <1>6, <1>7, <1>8, <1>9, <1>10, <1>11, <1>12, <1>13, <1>14, <1>15, <1>16,
     <1>17, <1>18, <1>19, <1>20 DEF WebNext

------------------------------------------------------------------------------
(* Data of others.                                                          *)

\* A session that begins, with components of the page p that show the query mounting.
LEMMA SessionBegins ==
  ASSUME WebTyped, [WebNext]_webVars, NEW p, Mount(p, AndMenu(p), bearer'), bearer' # 0,
         entry' = entry, query' = query,
         entry.young \/ asking.pc # "none" => inherited'
  PROVE  OthersInv'
<1> DEFINE b == bearer'
<1>1. WebTyped' /\ b \in Nat
  BY WebTypeStep DEF WebTyped
<1>2. /\ place' = p
      /\ asking' = asking \/ asking' = Sent(b)
      /\ query \in AndMenu(p) /\ asking.pc = "none" /\ ~entry.young => asking' = Sent(b)
  BY MountAsks
<1>3. Sent(b).pc = "sent" /\ Sent(b).token = b
  BY <1>1, SentIsRequest
<1>4. asking'.pc # "none" /\ holder'[asking'.token] # holder'[b] => inherited'
  BY <1>2, <1>3
<1>5. Mounted' => query \in AndMenu(p)
  BY <1>2 DEF Mounted
<1>6. Mounted' => inherited' \/ asking'.pc # "none"
  BY <1>2, <1>3, <1>5
<1> QED
  BY <1>4, <1>6 DEF OthersInv

LEMMA OthersStep ==
  ASSUME WebTyped, OthersInv, [WebNext]_webVars
  PROVE  OthersInv'
<1> DEFINE n == Len(holder)
<1>1. /\ n \in Nat
      /\ \A i \in 1..n : holder[i] \in People /\ holder'[i] = holder[i]
  BY HolderGrows
<1>2. NoRequest.pc = "none" /\ NoEntry.of = Nobody
  BY DEF NoRequest, NoEntry
<1>3. ASSUME NEW u \in People, SignIn(u) PROVE OthersInv'
  <2>1. PICK p \in DOMAIN Pages : Mount(p, AndMenu(p), bearer')
    BY <1>3 DEF SignIn
  <2>2. bearer' # 0
    BY <1>1, <1>3, AppendProperties DEF SignIn, WebTyped
  <2>3. entry' = entry /\ query' = query /\ inherited' = (entry.young \/ asking.pc # "none")
    BY <1>3 DEF SignIn
  <2> QED
    BY <2>1, <2>2, <2>3, SessionBegins
<1>4. ASSUME NEW u \in People, Revoke(u) PROVE OthersInv'
  BY <1>4 DEF Revoke, OthersInv, Foreign, Mounted
<1>5. ASSUME NEW p \in DOMAIN Pages, Visit(p) PROVE OthersInv'
  <2>1. /\ UNCHANGED <<query, bearer, holder, entry, inherited>> /\ place # "login"
        /\ Mount(p, Pages[p].shows, bearer) /\ bearer \in Nat
    BY <1>5 DEF Visit, WebTyped
  <2>2. /\ place' = p
        /\ asking' = asking \/ asking' = Sent(bearer)
        /\ query \in Pages[p].shows /\ asking.pc = "none" /\ ~entry.young => asking' = Sent(bearer)
    BY <2>1, MountAsks
  <2>3. Sent(bearer).pc = "sent" /\ Sent(bearer).token = bearer
    BY <2>1, SentIsRequest
  <2>4. Mounted' => query \in Pages[p].shows \/ Mounted
    BY <2>1, <2>2 DEF Mounted, AndMenu
  <2>5. Foreign(entry.of)' = Foreign(entry.of)
    BY <2>1 DEF Foreign
  <2> QED
    BY <2>1, <2>2, <2>3, <2>4, <2>5 DEF OthersInv
<1>6. CASE SignOut
  BY <1>6 DEF SignOut, OthersInv, Foreign
<1>7. CASE Poll
  <2>1. bearer \in Nat
    BY DEF WebTyped
  <2> QED
    BY <1>7, <2>1, SentIsRequest DEF Poll, session, OthersInv, Foreign, Mounted
<1>8. CASE Respond
  <2>1. asking'.pc # "none" /\ asking.pc # "none" /\ asking'.token = asking.token
    BY <1>8 DEF Respond, WebTyped, RequestRecord
  <2> QED
    BY <1>8, <2>1 DEF Respond, session, OthersInv, Foreign, Mounted
<1>9. CASE Store
  BY <1>2, <1>9 DEF Store, session, OthersInv, Foreign, Mounted
<1>10. CASE Refused
  BY <1>10 DEF Refused, SignedOut, OthersInv, Foreign
<1>11. CASE Fail
  BY <1>2, <1>11 DEF Fail, session, OthersInv, Foreign, Mounted
<1>12. CASE Age
  <2>1. entry'.of = entry.of /\ ~entry'.young
    BY <1>12 DEF Age, WebTyped, EntryRecord
  <2> QED
    BY <1>12, <2>1 DEF Age, session, OthersInv, Foreign, Mounted
<1>13. CASE Forget
  BY <1>2, <1>13 DEF Forget, session, OthersInv, Foreign, Mounted
<1>14. ASSUME NEW m, Mutate(m) PROVE OthersInv'
  BY <1>14 DEF Mutate, session, OthersInv, Foreign, Mounted
<1>15. CASE Execute
  <2>1. entry'.of = entry.of /\ entry'.young = entry.young
    BY <1>15 DEF Execute, WebTyped, EntryRecord
  <2>2. asking'.pc = asking.pc /\ asking'.token = asking.token
    BY <1>15 DEF Execute, WebTyped, RequestRecord
  <2>3. UNCHANGED <<query, place, bearer, inherited>>
    BY <1>15 DEF Execute
  <2>4. bearer # 0 => holder'[bearer] = holder[bearer]
    BY <1>1 DEF WebTyped
  <2>5. asking.pc # "none" => holder'[asking.token] = holder[asking.token]
    BY <1>1 DEF WebTyped
  <2> QED
    BY <2>1, <2>2, <2>3, <2>4, <2>5 DEF OthersInv, Foreign, Mounted
<1>16. CASE ExecuteNot
  BY <1>16 DEF ExecuteNot, SignedOut, OthersInv, Foreign
<1>17. CASE Settle
  <2> DEFINE put == query \in Mutation(change.does).puts
  <2>1. UNCHANGED <<query, place, bearer, holder>> /\ bearer \in Nat
    BY <1>17 DEF Settle, session, WebTyped
  <2>2. \/ entry'.of = entry.of /\ entry'.young = entry.young
        \/ put /\ entry'.of = holder[change.token]
    BY <1>17 DEF Settle, WebTyped, EntryRecord
  <2>3. inherited' = (inherited \/ (put /\ Foreign(holder[change.token])))
    BY <1>17 DEF Settle
  <2>4. asking' = asking \/ (asking'.pc = "sent" /\ asking'.token = bearer)
    BY <1>17, <2>1, SentIsRequest DEF Settle
  <2> QED
    BY <2>1, <2>2, <2>3, <2>4 DEF OthersInv, Foreign, Mounted
<1>18. CASE SettlePassword
  <2>1. change.token \in 1..n /\ bearer' = change.token /\ entry' = entry /\ query' = query
        /\ holder' = holder
    BY <1>18 DEF SettlePassword, WebTyped
  <2>2. inherited' = (\/ inherited \/ entry.young \/ asking.pc # "none"
                      \/ place # "login" /\ holder[bearer] # holder[change.token])
    BY <1>18 DEF SettlePassword
  <2>3. CASE place = "login"
    <3>1. Mount("dashboard", AndMenu("dashboard"), bearer')
      BY <1>18, <2>1, <2>3 DEF SettlePassword
    <3>2. bearer' # 0
      BY <1>1, <2>1
    <3>3. entry.young \/ asking.pc # "none" => inherited'
      BY <2>2
    <3> QED
      BY <2>1, <3>1, <3>2, <3>3, SessionBegins
  <2>4. CASE place # "login"
    <3>1. UNCHANGED <<place, asking>> /\ bearer # 0
      BY <1>18, <2>4 DEF SettlePassword, WebTyped
    <3> QED
      BY <2>1, <2>2, <2>4, <3>1 DEF OthersInv, Foreign, Mounted
  <2> QED
    BY <2>3, <2>4
<1>19. CASE Lost
  BY <1>19 DEF Lost, session, OthersInv, Foreign, Mounted
<1>20. CASE UNCHANGED webVars
  BY <1>20 DEF webVars, session, OthersInv, Foreign, Mounted
<1> QED
  BY <1>3, <1>4, <1>5, <1>6, <1>7, <1>8, <1>9, <1>10, <1>11, <1>12, <1>13, <1>14, <1>15, <1>16,
     <1>17, <1>18, <1>19, <1>20 DEF WebNext

------------------------------------------------------------------------------
(* The lists of keys.                                                       *)

LEMMA PrefixByElements ==
  ASSUME NEW S, NEW k \in Seq(S), NEW s \in Seq(S), Len(k) <= Len(s),
         \A i \in 1..Len(k) : k[i] = s[i]
  PROVE  IsPrefix(k, s)
<1> DEFINE a == SubSeq(k, 1, Len(k))  b == SubSeq(s, 1, Len(k))
<1>1. Len(k) \in Nat /\ Len(s) \in Nat
  BY LenProperties
<1>2. /\ a \in Seq(S) /\ Len(a) = Len(k)
      /\ \A i \in 1..Len(k) : a[i] = k[i]
  BY <1>1, SubSeqProperties
<1>3. /\ b \in Seq(S) /\ Len(b) = Len(k)
      /\ \A i \in 1..Len(k) : b[i] = s[i]
  BY <1>1, SubSeqProperties
<1>4. a = b
  BY <1>2, <1>3, SeqEqual
<1> QED
  BY <1>4 DEF IsPrefix

\* Keys have up to four parts, and the prefixes in use up to three.
LEMMA ShortPrefixes ==
  ASSUME NEW a, NEW b, NEW c, NEW d
  PROVE  /\ IsPrefix(<<a>>, <<a>>) /\ IsPrefix(<<a>>, <<a, b>>)
         /\ IsPrefix(<<a>>, <<a, b, c>>) /\ IsPrefix(<<a>>, <<a, b, c, d>>)
         /\ IsPrefix(<<a, b>>, <<a, b>>) /\ IsPrefix(<<a, b>>, <<a, b, c>>)
         /\ IsPrefix(<<a, b, c>>, <<a, b, c>>)
<1> DEFINE S == {a, b, c, d}
           one == <<a>>  two == <<a, b>>  three == <<a, b, c>>  four == <<a, b, c, d>>
<1>1. /\ one \in Seq(S) /\ Len(one) = 1 /\ one[1] = a
      /\ two \in Seq(S) /\ Len(two) = 2 /\ two[1] = a /\ two[2] = b
  OBVIOUS
<1>2. /\ three \in Seq(S) /\ Len(three) = 3 /\ three[1] = a /\ three[2] = b
      /\ four \in Seq(S) /\ Len(four) = 4 /\ four[1] = a
  OBVIOUS
<1> HIDE DEF S, one, two, three, four
<1>3. IsPrefix(one, one) /\ IsPrefix(one, two) /\ IsPrefix(one, three) /\ IsPrefix(one, four)
  BY <1>1, <1>2, PrefixByElements
<1>4. IsPrefix(two, two) /\ IsPrefix(three, three)
  BY <1>1, <1>2, PrefixByElements
<1>5. IsPrefix(two, three)
  <2>1. \A i \in 1..Len(two) : two[i] = three[i]
    <3>1. \A i \in 1..Len(two) : i = 1 \/ i = 2
      BY <1>1
    <3> QED
      BY <1>1, <1>2, <3>1
  <2> QED
    BY <1>1, <1>2, <2>1, PrefixByElements
<1> QED
  BY <1>3, <1>4, <1>5 DEF one, two, three, four

\* A mutation that changes what a query shows invalidates it, or answers in its place, or
\* is one of the omissions.
Covered(m, q) ==
    Affects(m, q) => Touches(m, q) \/ q \in Mutation(m).puts \/ m \in Omitted(q)

\* The queries whose key begins with one that useInvalidateAll invalidates.
UnderAll == {"overview", "history", "dashboardAssets", "dashboardAsset", "verification",
             "discovered", "diagnosticLatest", "postureDiff", "findings", "findingsSummary",
             "attackPaths", "findingTriage", "scans", "alerts", "alertsSummary", "monitoring"}

LEMMA KeysUnderAll ==
  ASSUME NEW q \in UnderAll
  PROVE  \E k \in AllPosture : IsPrefix(k, Key(q))
<1>1. /\ Key("overview") = <<"dashboard", "overview">>
      /\ Key("history") = <<"dashboard", "history", "id">>
      /\ Key("dashboardAssets") = <<"dashboard", "assets">>
      /\ Key("dashboardAsset") = <<"dashboard", "asset", "id">>
      /\ Key("verification") = <<"assets", "id", "verification">>
      /\ Key("discovered") = <<"assets", "id", "discovered-hosts">>
      /\ Key("diagnosticLatest") = <<"assets", "id", "diagnostic-360", "latest">>
      /\ Key("postureDiff") = <<"assets", "id", "posture-diff", "id">>
  BY DEF Key, PostureKeys
<1>2. /\ Key("findings") = <<"findings", "id">>
      /\ Key("findingsSummary") = <<"findings", "summary", "id">>
      /\ Key("attackPaths") = <<"findings", "attack-paths", "id">>
      /\ Key("findingTriage") = <<"findings", "id", "triage">>
      /\ Key("scans") = <<"scans", "id">>
  BY DEF Key, PostureKeys
<1>3. /\ Key("alerts") = <<"alerts", "list", "id">>
      /\ Key("alertsSummary") = <<"alerts", "summary">>
      /\ Key("monitoring") = <<"monitoring">>
  BY DEF Key, PostureKeys, OtherKeys
<1>4. {<<"dashboard">>, <<"findings">>, <<"scans">>, <<"assets">>, <<"alerts">>,
       <<"monitoring">>} = AllPosture
  BY DEF AllPosture
<1>5. CASE q \in {"overview", "history", "dashboardAssets", "dashboardAsset"}
  BY <1>1, <1>4, <1>5, ShortPrefixes
<1>6. CASE q \in {"verification", "discovered", "diagnosticLatest", "postureDiff"}
  BY <1>1, <1>4, <1>6, ShortPrefixes
<1>7. CASE q \in {"findings", "findingsSummary", "attackPaths", "findingTriage", "scans"}
  BY <1>2, <1>4, <1>7, ShortPrefixes
<1>8. CASE q \in {"alerts", "alertsSummary", "monitoring"}
  BY <1>3, <1>4, <1>8, ShortPrefixes
<1> QED
  BY <1>5, <1>6, <1>7, <1>8 DEF UnderAll

LEMMA AllCovers ==
  ASSUME NEW m, AllPosture \subseteq Mutation(m).touches, NEW q \in UnderAll
  PROVE  Covered(m, q)
  BY KeysUnderAll DEF Touches, Covered

\* The families of mutations are disjoint.
LEMMA Families ==
  /\ \A m \in DOMAIN PostureMutations : Mutation(m) = PostureMutations[m]
  /\ \A m \in DOMAIN AssetCardMutations : Mutation(m) = AssetCardMutations[m]
  /\ \A m \in DOMAIN CloudMutations : Mutation(m) = CloudMutations[m]
  /\ \A m \in DOMAIN AlertMutations : Mutation(m) = AlertMutations[m]
  /\ \A m \in DOMAIN UserMutations : Mutation(m) = UserMutations[m]
  /\ \A m \in DOMAIN AccessMutations : Mutation(m) = AccessMutations[m]
  /\ \A m \in DOMAIN ApiKeyMutations : Mutation(m) = ApiKeyMutations[m]
  /\ \A m \in DOMAIN UpkeepMutations : Mutation(m) = UpkeepMutations[m]
<1> DEFINE D1 == DOMAIN PostureMutations  D2 == DOMAIN AssetCardMutations
           D3 == DOMAIN CloudMutations    D4 == DOMAIN AlertMutations
           D5 == DOMAIN UserMutations     D6 == DOMAIN AccessMutations
           D7 == DOMAIN ApiKeyMutations   D8 == DOMAIN UpkeepMutations
<1>1. D1 = {"createAsset", "updateAsset", "deleteAsset", "requestScan", "cancelScan",
            "startDiagnostic", "cancelDiagnostic", "reviewFinding", "retestFinding"}
  BY DEF PostureMutations
<1>2. /\ D2 = {"verifyAsset", "setDiscoveredHostIgnored", "importDiscoveredHosts"}
      /\ D3 = {"createCloudAccount", "verifyCloudAccount", "deleteCloudAccount",
               "scanCloudAccount"}
  BY DEF AssetCardMutations, CloudMutations
<1>3. /\ D4 = {"acknowledgeAlert", "retryAlert", "changeChannel", "updateMonitoring"}
      /\ D5 = {"changeUser", "changeOwnPassword"} /\ D6 = {"changeMfa", "changeInvitation"}
      /\ D7 = {"changeApiKey"} /\ D8 = {"runRetention", "downloadReport"}
  BY DEF AlertMutations, UserMutations, AccessMutations, ApiKeyMutations, UpkeepMutations
<1>4. \A m : Mutation(m) =
        CASE m \in D1 -> PostureMutations[m]
          [] m \in D2 -> AssetCardMutations[m]
          [] m \in D3 -> CloudMutations[m]
          [] m \in D4 -> AlertMutations[m]
          [] m \in D5 -> UserMutations[m]
          [] m \in D6 -> AccessMutations[m]
          [] m \in D7 -> ApiKeyMutations[m]
          [] OTHER -> UpkeepMutations[m]
  BY DEF Mutation
<1> HIDE DEF D1, D2, D3, D4, D5, D6, D7, D8
<1>5. ASSUME NEW m \in D1 PROVE Mutation(m) = PostureMutations[m]
  BY <1>1, <1>2, <1>3, <1>4
<1>6. ASSUME NEW m \in D2 PROVE Mutation(m) = AssetCardMutations[m]
  BY <1>1, <1>2, <1>3, <1>4
<1>7. ASSUME NEW m \in D3 PROVE Mutation(m) = CloudMutations[m]
  BY <1>1, <1>2, <1>3, <1>4
<1>8. ASSUME NEW m \in D4 PROVE Mutation(m) = AlertMutations[m]
  BY <1>1, <1>2, <1>3, <1>4
<1>9. ASSUME NEW m \in D5 PROVE Mutation(m) = UserMutations[m]
  BY <1>1, <1>2, <1>3, <1>4
<1>10. ASSUME NEW m \in D6 PROVE Mutation(m) = AccessMutations[m]
  BY <1>1, <1>2, <1>3, <1>4
<1>11. ASSUME NEW m \in D7 PROVE Mutation(m) = ApiKeyMutations[m]
  BY <1>1, <1>2, <1>3, <1>4
<1>12. ASSUME NEW m \in D8 PROVE Mutation(m) = UpkeepMutations[m]
  BY <1>1, <1>2, <1>3, <1>4
<1> QED
  BY <1>5, <1>6, <1>7, <1>8, <1>9, <1>10, <1>11, <1>12 DEF D1, D2, D3, D4, D5, D6, D7, D8

LEMMA TouchedIsCovered ==
  ASSUME NEW m, NEW q, NEW k \in Mutation(m).touches, IsPrefix(k, Key(q))
  PROVE  Covered(m, q)
  BY DEF Covered, Touches

LEMMA PostureCovers ==
  ASSUME NEW m \in DOMAIN PostureMutations, NEW q \in UnderAll
  PROVE  Covered(m, q)
<1>1. \A x \in DOMAIN PostureMutations : PostureMutations[x].touches = AllPosture
  BY DEF PostureMutations, Does
<1>2. Mutation(m) = PostureMutations[m]
  BY Families
<1> QED
  BY <1>1, <1>2, AllCovers

LEMMA AssetCardCovers ==
  ASSUME NEW m \in DOMAIN AssetCardMutations, NEW q \in UnderAll
  PROVE  Covered(m, q)
<1>1. m \in {"verifyAsset", "setDiscoveredHostIgnored", "importDiscoveredHosts"}
  BY DEF AssetCardMutations
<1>3. Mutation(m) = AssetCardMutations[m]
  BY Families
<1>4. CASE m # "setDiscoveredHostIgnored"
  <2>1. Mutation(m).touches = AllPosture
    BY <1>1, <1>3, <1>4 DEF AssetCardMutations, Does
  <2> QED
    BY <2>1, AllCovers
<1>5. CASE m = "setDiscoveredHostIgnored"
  <2>1. /\ Mutation(m).touches = {<<"assets", "id", "discovered-hosts">>}
        /\ Mutation(m).writes = {"hosts"}
    BY <1>3, <1>5 DEF AssetCardMutations, Does
  <2>2. ASSUME Affects(m, q) PROVE q = "discovered"
    BY <2>1, <2>2 DEF Affects, Reads, UnderAll
  <2>3. Key("discovered") = <<"assets", "id", "discovered-hosts">>
    BY DEF Key, PostureKeys
  <2>4. IsPrefix(<<"assets", "id", "discovered-hosts">>, Key("discovered"))
    BY <2>3, ShortPrefixes
  <2> QED
    BY <2>1, <2>2, <2>4 DEF Covered, Touches
<1> QED
  BY <1>4, <1>5

LEMMA CloudCovers ==
  ASSUME NEW m \in DOMAIN CloudMutations, NEW q \in AndMenu("cloud")
  PROVE  Covered(m, q)
<1>1. m \in {"createCloudAccount", "verifyCloudAccount", "deleteCloudAccount", "scanCloudAccount"}
  BY DEF CloudMutations
<1>3. Mutation(m) = CloudMutations[m]
  BY Families
<1>4. q \in {"cloudAccounts", "cloudSummary", "cloudResources", "cspmRules", "cloudOnboarding",
             "alertsSummary"}
  BY DEF AndMenu, Pages, CloudSecurityPage, Page
<1>5. /\ Reads("cloudAccounts") = {"accounts"}
      /\ Reads("cloudSummary") = {"accounts", "resources", "findings"}
      /\ Reads("cloudResources") = {"resources", "findings"}
      /\ Reads("cspmRules") = {} /\ Reads("cloudOnboarding") = {}
      /\ Reads("alertsSummary") = {"alerts"}
  BY DEF Reads
<1>6. /\ IsPrefix(<<"cloud", "accounts">>, Key("cloudAccounts"))
      /\ IsPrefix(<<"cloud", "summary">>, Key("cloudSummary"))
      /\ IsPrefix(<<"cloud", "resources">>, Key("cloudResources"))
  <2>1. /\ Key("cloudAccounts") = <<"cloud", "accounts">>
        /\ Key("cloudSummary") = <<"cloud", "summary">>
        /\ Key("cloudResources") = <<"cloud", "resources", "id">>
    BY DEF Key, PostureKeys, OtherKeys
  <2> QED
    BY <2>1, ShortPrefixes
<1>7. /\ Omitted("cloudSummary") = {"createCloudAccount", "verifyCloudAccount"}
      /\ Omitted("cloudResources") = {"deleteCloudAccount"}
      /\ Omitted("alertsSummary") = {"deleteCloudAccount"}
  BY DEF Omitted
<1>8. CASE m \in {"createCloudAccount", "verifyCloudAccount"}
  <2>1. Mutation(m).writes = {"accounts", "assets"} /\ <<"cloud", "accounts">> \in Mutation(m).touches
    BY <1>3, <1>8 DEF CloudMutations, Does
  <2> QED
    BY <1>4, <1>5, <1>6, <1>7, <1>8, <2>1, TouchedIsCovered DEF Covered, Affects
<1>9. CASE m = "deleteCloudAccount"
  <2>1. <<"cloud", "accounts">> \in Mutation(m).touches /\ <<"cloud", "summary">> \in Mutation(m).touches
    BY <1>3, <1>9 DEF CloudMutations, Does
  <2> QED
    BY <1>4, <1>5, <1>6, <1>7, <1>9, <2>1, TouchedIsCovered DEF Covered, Affects
<1>10. CASE m = "scanCloudAccount"
  <2>1. /\ Mutation(m).writes = {"accounts", "resources", "assets", "findings"}
        /\ {<<"cloud", "accounts">>, <<"cloud", "summary">>, <<"cloud", "resources">>}
             \subseteq Mutation(m).touches
    BY <1>3, <1>10 DEF CloudMutations, Does
  <2> QED
    BY <1>4, <1>5, <1>6, <2>1, TouchedIsCovered DEF Covered, Affects
<1> QED
  BY <1>1, <1>8, <1>9, <1>10

LEMMA AlertsCover ==
  ASSUME NEW m \in {"acknowledgeAlert", "retryAlert"}, NEW q \in AndMenu("alerts")
  PROVE  Covered(m, q)
<1>2. Mutation(m) = AlertMutations[m]
  <2>1. m \in DOMAIN AlertMutations
    BY DEF AlertMutations
  <2> QED
    BY <2>1, Families
<1>3. <<"alerts">> \in Mutation(m).touches
  BY <1>2 DEF AlertMutations, Does
<1>4. q \in {"alerts", "alertsSummary"}
  BY DEF AndMenu, Pages, AlertsPage, Page
<1>5. Key("alerts") = <<"alerts", "list", "id">> /\ Key("alertsSummary") = <<"alerts", "summary">>
  BY DEF Key, PostureKeys, OtherKeys
<1> QED
  BY <1>3, <1>4, <1>5, ShortPrefixes DEF Covered, Touches

LEMMA SettingsCover ==
  ASSUME NEW m \in Pages["settings"].offers, NEW q \in AndMenu("settings")
  PROVE  Covered(m, q)
<1>1. m \in {"changeChannel", "updateMonitoring", "runRetention", "changeApiKey"}
  BY DEF Pages, SettingsPage, Page
<1>2. q \in {"alertChannels", "monitoring", "retention", "apiKeys", "alertsSummary"}
  BY DEF AndMenu, Pages, SettingsPage, Page
<1>4. /\ Reads("alertChannels") = {"alertChannels"} /\ Reads("apiKeys") = {"apiKeys"}
      /\ Reads("monitoring") = {"organization", "assets", "scans"}
      /\ Reads("retention") = {"audit", "scans", "reports"} /\ Reads("alertsSummary") = {"alerts"}
  BY DEF Reads
<1>5. /\ IsPrefix(<<"alert-channels">>, Key("alertChannels"))
      /\ IsPrefix(<<"api-keys">>, Key("apiKeys"))
      /\ IsPrefix(<<"system", "retention">>, Key("retention"))
  <2>1. /\ Key("alertChannels") = <<"alert-channels">> /\ Key("apiKeys") = <<"api-keys">>
        /\ Key("retention") = <<"system", "retention">>
    BY DEF Key, PostureKeys, OtherKeys
  <2> QED
    BY <2>1, ShortPrefixes
<1>6. CASE m \in {"changeChannel", "updateMonitoring"}
  <2>1. Mutation(m) = AlertMutations[m]
    <3>1. m \in DOMAIN AlertMutations
      BY <1>6 DEF AlertMutations
    <3> QED
      BY <3>1, Families
  <2>2. CASE m = "changeChannel"
    <3>1. Mutation(m).writes = {"alertChannels"} /\ <<"alert-channels">> \in Mutation(m).touches
      BY <2>1, <2>2 DEF AlertMutations, Does
    <3> QED
      BY <1>2, <1>4, <1>5, <3>1, TouchedIsCovered DEF Covered, Affects
  <2>3. CASE m = "updateMonitoring"
    <3>1. Mutation(m).writes = {"organization"} /\ "monitoring" \in Mutation(m).puts
      BY <2>1, <2>3 DEF AlertMutations, Does
    <3> QED
      BY <1>2, <1>4, <3>1 DEF Covered, Affects
  <2> QED
    BY <1>6, <2>2, <2>3
<1>7. CASE m = "runRetention"
  <2>1. Mutation(m) = UpkeepMutations[m]
    <3>1. m \in DOMAIN UpkeepMutations
      BY <1>7 DEF UpkeepMutations
    <3> QED
      BY <3>1, Families
  <2>2. /\ Mutation(m).writes = {"audit", "scans", "reports"}
        /\ <<"system", "retention">> \in Mutation(m).touches
    BY <1>7, <2>1 DEF UpkeepMutations, Does
  <2>3. Omitted("monitoring") = {"runRetention"}
    BY DEF Omitted
  <2> QED
    BY <1>2, <1>4, <1>5, <1>7, <2>2, <2>3, TouchedIsCovered DEF Covered, Affects
<1>8. CASE m = "changeApiKey"
  <2>1. Mutation(m) = ApiKeyMutations[m]
    <3>1. m \in DOMAIN ApiKeyMutations
      BY <1>8 DEF ApiKeyMutations
    <3> QED
      BY <3>1, Families
  <2>2. Mutation(m).writes = {"apiKeys"} /\ <<"api-keys">> \in Mutation(m).touches
    BY <1>8, <2>1 DEF ApiKeyMutations, Does
  <2> QED
    BY <1>2, <1>4, <1>5, <2>2, TouchedIsCovered DEF Covered, Affects
<1> QED
  BY <1>1, <1>6, <1>7, <1>8

LEMMA PeopleCover ==
  /\ \A m \in Pages["users"].offers : \A q \in AndMenu("users") : Covered(m, q)
  /\ \A m \in Pages["account"].offers : \A q \in AndMenu("account") : Covered(m, q)
  /\ \A m \in Pages["reports"].offers : \A q \in AndMenu("reports") : Covered(m, q)
<1>1. /\ Pages["users"].offers = {"changeUser", "changeInvitation"}
      /\ AndMenu("users") = {"users", "invitations", "alertsSummary"}
  BY DEF AndMenu, Pages, UsersPage, Page
<1>2. /\ Pages["account"].offers = {"changeMfa", "changeOwnPassword"}
      /\ AndMenu("account") = {"organization", "mfa", "alertsSummary"}
  BY DEF AndMenu, Pages, AccountPage, Page
<1>3. /\ Pages["reports"].offers = {"downloadReport"}
      /\ AndMenu("reports") = {"reports", "dashboardAssets", "executiveSummary", "alertsSummary"}
  BY DEF AndMenu, Pages, ReportsPage, Page
<1>4. /\ Reads("users") = {"users"} /\ Reads("invitations") = {"invitations"}
      /\ Reads("organization") = {"organization"} /\ Reads("mfa") = {"mfa"}
      /\ Reads("alertsSummary") = {"alerts"} /\ Reads("reports") = {"reports"}
      /\ Reads("dashboardAssets") = {"assets", "findings"}
      /\ Reads("executiveSummary") = {"assets", "findings"}
  BY DEF Reads
<1>5. /\ IsPrefix(<<"users">>, Key("users"))
      /\ IsPrefix(<<"users", "invitations">>, Key("invitations"))
      /\ IsPrefix(<<"auth", "mfa">>, Key("mfa")) /\ IsPrefix(<<"reports">>, Key("reports"))
  <2>1. /\ Key("users") = <<"users">> /\ Key("invitations") = <<"users", "invitations">>
        /\ Key("mfa") = <<"auth", "mfa">> /\ Key("reports") = <<"reports">>
    BY DEF Key, PostureKeys, OtherKeys
  <2> QED
    BY <2>1, ShortPrefixes
<1>7. /\ Mutation("changeUser") = UserMutations["changeUser"]
      /\ Mutation("changeOwnPassword") = UserMutations["changeOwnPassword"]
      /\ Mutation("changeMfa") = AccessMutations["changeMfa"]
      /\ Mutation("changeInvitation") = AccessMutations["changeInvitation"]
      /\ Mutation("downloadReport") = UpkeepMutations["downloadReport"]
  <2>1. /\ "changeUser" \in DOMAIN UserMutations /\ "changeOwnPassword" \in DOMAIN UserMutations
        /\ "changeMfa" \in DOMAIN AccessMutations
        /\ "changeInvitation" \in DOMAIN AccessMutations
        /\ "downloadReport" \in DOMAIN UpkeepMutations
    BY DEF UserMutations, AccessMutations, UpkeepMutations
  <2> QED
    BY <2>1, Families
<1>8. /\ Mutation("changeUser").writes = {"users"} /\ Mutation("changeUser").touches = {<<"users">>}
      /\ Mutation("changeOwnPassword").writes = {"users"}
      /\ Mutation("changeMfa").writes = {"mfa"} /\ Mutation("changeMfa").touches = {<<"auth", "mfa">>}
      /\ Mutation("changeInvitation").writes = {"invitations"}
      /\ Mutation("changeInvitation").touches = {<<"users", "invitations">>}
      /\ Mutation("downloadReport").writes = {"reports"}
      /\ Mutation("downloadReport").touches = {<<"reports">>}
  BY <1>7 DEF UserMutations, AccessMutations, UpkeepMutations, Does
<1>9. \A m \in Pages["users"].offers : \A q \in AndMenu("users") : Covered(m, q)
  BY <1>1, <1>4, <1>5, <1>8, TouchedIsCovered DEF Covered, Affects
<1>10. \A m \in Pages["account"].offers : \A q \in AndMenu("account") : Covered(m, q)
  BY <1>2, <1>4, <1>5, <1>8, TouchedIsCovered DEF Covered, Affects
<1>11. \A m \in Pages["reports"].offers : \A q \in AndMenu("reports") : Covered(m, q)
  BY <1>3, <1>4, <1>5, <1>8, TouchedIsCovered DEF Covered, Affects
<1> QED
  BY <1>9, <1>10, <1>11

\* On every page, of every query it shows, and the menu: the lists of keys are complete but
\* for the omissions.
THEOREM KeysAreComplete ==
  ASSUME NEW p \in DOMAIN Pages, NEW m \in Pages[p].offers, NEW q \in AndMenu(p)
  PROVE  Covered(m, q)
<1>1. p \in {"dashboard", "assets", "asset", "cloud", "findings", "compliance", "scans", "alerts",
             "reports", "settings", "users", "audit", "account"}
  BY DEF Pages
<1>2. CASE p \in {"dashboard", "compliance", "audit"}
  BY <1>2 DEF Pages, DashboardPage, CompliancePage, AuditPage, Page
<1>3. CASE p = "assets"
  <2>1. m \in DOMAIN PostureMutations
    BY <1>3 DEF Pages, AssetsPage, Page, PostureMutations
  <2>2. q \in UnderAll
    BY <1>3 DEF AndMenu, Pages, AssetsPage, Page, UnderAll
  <2> QED
    BY <2>1, <2>2, PostureCovers
<1>4. CASE p = "asset"
  <2>1. m \in DOMAIN PostureMutations \/ m \in DOMAIN AssetCardMutations
    BY <1>4 DEF Pages, AssetDetailPage, Page, PostureMutations
  <2>2. q \in UnderAll
    BY <1>4 DEF AndMenu, Pages, AssetDetailPage, Page, UnderAll
  <2> QED
    BY <2>1, <2>2, PostureCovers, AssetCardCovers
<1>5. CASE p = "cloud"
  <2>1. m \in DOMAIN CloudMutations
    BY <1>5 DEF Pages, CloudSecurityPage, Page
  <2> QED
    BY <1>5, <2>1, CloudCovers
<1>6. CASE p = "findings"
  <2>1. m \in DOMAIN PostureMutations
    BY <1>6 DEF Pages, FindingsPage, Page, PostureMutations
  <2>2. q \in UnderAll \/ q = "assignees"
    BY <1>6 DEF AndMenu, Pages, FindingsPage, Page, UnderAll
  <2>3. CASE q = "assignees"
    <3>1. m \in {"reviewFinding", "retestFinding"}
      BY <1>6 DEF Pages, FindingsPage, Page
    <3>2. Mutation(m).writes = {"findings"}
      <4>1. PostureMutations[m].writes = {"findings"}
        BY <3>1 DEF PostureMutations, Does
      <4> QED
        BY <2>1, <4>1, Families
    <3>3. Reads("assignees") = {"users"}
      BY DEF Reads
    <3> QED
      BY <2>3, <3>2, <3>3 DEF Covered, Affects
  <2> QED
    BY <2>1, <2>2, <2>3, PostureCovers
<1>7. CASE p = "scans"
  <2>1. m \in DOMAIN PostureMutations
    BY <1>7 DEF Pages, ScansPage, Page, PostureMutations
  <2>2. q \in UnderAll
    BY <1>7 DEF AndMenu, Pages, ScansPage, Page, UnderAll
  <2> QED
    BY <2>1, <2>2, PostureCovers
<1>8. CASE p = "alerts"
  <2>1. m \in {"acknowledgeAlert", "retryAlert"}
    BY <1>8 DEF Pages, AlertsPage, Page
  <2> QED
    BY <1>8, <2>1, AlertsCover
<1>9. CASE p \in {"settings", "users", "account", "reports"}
  BY <1>9, SettingsCover, PeopleCover
<1> QED
  BY <1>1, <1>2, <1>3, <1>4, <1>5, <1>6, <1>7, <1>8, <1>9

LEMMA OnlyOnAccount ==
  ASSUME NEW p \in DOMAIN Pages, "changeOwnPassword" \in Pages[p].offers
  PROVE  p = "account"
<1>1. p \in {"dashboard", "assets", "asset", "cloud", "findings", "compliance", "scans", "alerts",
             "reports", "settings", "users", "audit", "account"}
  BY DEF Pages
<1>2. /\ Pages["dashboard"].offers = {} /\ Pages["compliance"].offers = {}
      /\ Pages["audit"].offers = {} /\ Pages["scans"].offers = {"cancelScan"}
      /\ Pages["alerts"].offers = {"acknowledgeAlert", "retryAlert"}
      /\ Pages["reports"].offers = {"downloadReport"}
  BY DEF Pages, DashboardPage, CompliancePage, AuditPage, ScansPage, AlertsPage, ReportsPage, Page
<1>3. /\ Pages["assets"].offers = {"createAsset", "requestScan", "deleteAsset"}
      /\ Pages["findings"].offers = {"reviewFinding", "retestFinding"}
      /\ Pages["settings"].offers = {"changeChannel", "updateMonitoring", "runRetention",
                                     "changeApiKey"}
      /\ Pages["users"].offers = {"changeUser", "changeInvitation"}
  BY DEF Pages, AssetsPage, FindingsPage, SettingsPage, UsersPage, Page
<1>4. "changeOwnPassword" \notin Pages["asset"].offers
  BY DEF Pages, AssetDetailPage, AssetCardMutations, Page
<1>5. "changeOwnPassword" \notin Pages["cloud"].offers
  BY DEF Pages, CloudSecurityPage, CloudMutations, Page
<1> QED
  BY <1>1, <1>2, <1>3, <1>4, <1>5

LEMMA PasswordShowsNowhere ==
  ASSUME NEW q \in AndMenu("account")
  PROVE  ~Affects("changeOwnPassword", q)
<1>1. q \in {"organization", "mfa", "alertsSummary"}
  BY DEF AndMenu, Pages, AccountPage, Page
<1>2. /\ Reads("organization") = {"organization"} /\ Reads("mfa") = {"mfa"}
      /\ Reads("alertsSummary") = {"alerts"}
  BY DEF Reads
<1>3. Mutation("changeOwnPassword").writes = {"users"}
  <2>1. "changeOwnPassword" \in DOMAIN UserMutations
        /\ UserMutations["changeOwnPassword"].writes = {"users"}
    BY DEF UserMutations, Does
  <2> QED
    BY <2>1, Families
<1> QED
  BY <1>1, <1>2, <1>3 DEF Affects

------------------------------------------------------------------------------
(* One's own changes.                                                       *)

\* A session that begins, or a page that opens.
LEMMA PageOpens ==
  ASSUME WebTyped, ChangesInv, NEW p, NEW shows, NEW token \in Nat, Mount(p, shows, token),
         entry' = entry, query' = query
  PROVE  ChangesInv'
<1>1. \/ asking' = asking /\ excused' = excused \cup entry.behind \cup asking.behind
      \/ asking' = Sent(token)
  BY MountAsks
<1>2. Sent(token).pc = "sent" /\ Sent(token).behind = {}
  BY SentIsRequest
<1>3. \A m : Affects(m, query') = Affects(m, query)
  BY DEF Affects
<1>4. /\ ~Has(entry) => entry.behind = {}
      /\ \A m \in entry.behind \cup asking.behind : Affects(m, query)
  BY DEF ChangesInv
<1>5. (IF asking'.pc = "none" THEN entry'.behind ELSE asking'.behind) \subseteq MayLack'
  BY <1>1, <1>2 DEF MayLack
<1>6. (~Has(entry) => entry.behind = {})'
  BY <1>4 DEF Has
<1>7. \A m \in entry'.behind \cup asking'.behind : Affects(m, query)
  BY <1>1, <1>2, <1>4
<1> QED
  BY <1>3, <1>5, <1>6, <1>7 DEF ChangesInv

LEMMA ChangesStep ==
  ASSUME WebTyped, ChangesInv, AtItsPage, [WebNext]_webVars
  PROVE  ChangesInv'
<1>1. ASSUME NEW u \in People, SignIn(u) PROVE ChangesInv'
  <2>1. PICK p \in DOMAIN Pages : Mount(p, AndMenu(p), bearer')
    BY <1>1 DEF SignIn
  <2>2. bearer' \in Nat
    BY WebTypeStep DEF WebTyped
  <2> QED
    BY <1>1, <2>1, <2>2, PageOpens DEF SignIn
<1>2. ASSUME NEW u \in People, Revoke(u) PROVE ChangesInv'
  BY <1>2 DEF Revoke, ChangesInv, Has, Mounted, MayLack, Waiting, Affects
<1>3. ASSUME NEW p \in DOMAIN Pages, Visit(p) PROVE ChangesInv'
  BY <1>3, PageOpens DEF Visit, WebTyped
<1>4. CASE SignOut
  BY <1>4 DEF SignOut, ChangesInv, Has, Mounted, Affects
<1>5. CASE Poll
  <2>1. Sent(bearer).pc = "sent" /\ Sent(bearer).behind = {}
    BY SentIsRequest DEF WebTyped
  <2> QED
    BY <1>5, <2>1 DEF Poll, session, ChangesInv, Has, Mounted, MayLack, Waiting, Affects
<1>6. CASE Respond
  <2>1. asking'.pc # "none" /\ asking.pc # "none" /\ asking'.behind = asking.behind
    BY <1>6 DEF Respond, WebTyped, RequestRecord
  <2> QED
    BY <1>6, <2>1 DEF Respond, session, ChangesInv, Has, Mounted, MayLack, Waiting, Affects
<1>7. CASE Store
  <2>1. /\ entry'.behind = asking.behind /\ entry'.of = holder[asking.token]
        /\ asking'.pc = "none" /\ asking'.behind = {} /\ asking.pc # "none"
        /\ excused' = excused \cap asking.behind
        /\ UNCHANGED <<query, place, change>>
    BY <1>7 DEF Store, NoRequest, session
  <2>2. Has(entry)'
    <3>1. holder[asking.token] \in People
      BY <2>1, ElementOfSeq DEF WebTyped
    <3> QED
      BY <2>1, <3>1, WebAssumption DEF Has
  <2> QED
    BY <2>1, <2>2 DEF ChangesInv, Mounted, MayLack, Waiting, Affects
<1>8. CASE Refused
  <2>1. asking'.behind = {} /\ place' = "login" /\ UNCHANGED <<query, entry>>
    BY <1>8 DEF Refused, SignedOut, NoRequest
  <2> QED
    BY <2>1 DEF ChangesInv, Has, Mounted, Affects
<1>9. CASE Fail
  <2>1. asking'.behind = {} /\ asking'.pc = "none" /\ UNCHANGED <<query, entry, change>>
        /\ excused' = excused \cup entry.behind
    BY <1>9 DEF Fail, NoRequest
  <2> QED
    BY <2>1 DEF ChangesInv, Has, Mounted, Affects, MayLack
<1>10. CASE Age
  <2>1. entry'.behind = entry.behind /\ entry'.of = entry.of
    BY <1>10 DEF Age, WebTyped, EntryRecord
  <2> QED
    BY <1>10, <2>1 DEF Age, session, ChangesInv, Has, Mounted, MayLack, Waiting, Affects
<1>11. CASE Forget
  <2>1. entry'.behind = {}
    BY <1>11 DEF Forget, NoEntry
  <2> QED
    BY <1>11, <2>1 DEF Forget, session, ChangesInv, Has, Mounted, MayLack, Waiting, Affects
<1>12. ASSUME NEW p, NEW m \in Pages[p].offers, Mutate(m) PROVE ChangesInv'
  <2>1. Waiting = {}
    BY <1>12 DEF Mutate, NoChange, Waiting
  <2> QED
    BY <1>12, <2>1 DEF Mutate, session, ChangesInv, Has, Mounted, MayLack, Affects
<1>13. CASE Execute
  <2> DEFINE m == change.does
  <2>1. /\ UNCHANGED <<query, place, excused>> /\ change.pc = "sent"
        /\ change'.pc = "done" /\ change'.does = m
    BY <1>13 DEF Execute, WebTyped, ChangeRecord
  <2>2. /\ entry'.of = entry.of
        /\ \/ entry'.behind = entry.behind
           \/ entry'.behind = entry.behind \cup {m} /\ Affects(m, query) /\ Has(entry)
    <3>1. holder[change.token] \in People
      BY <2>1, ElementOfSeq DEF WebTyped
    <3>2. \/ entry' = [entry EXCEPT !.behind = @ \cup {m}] /\ Affects(m, query)
             /\ entry.of = holder[change.token]
          \/ entry' = [entry EXCEPT !.behind = @]
      BY <1>13 DEF Execute
    <3> QED
      BY <3>1, <3>2, WebAssumption DEF WebTyped, EntryRecord, Has
  <2>3. /\ asking'.pc = asking.pc
        /\ \/ asking'.behind = asking.behind
           \/ asking'.behind = asking.behind \cup {m} /\ Affects(m, query)
    <3>1. \/ asking' = asking \/ asking' = [asking EXCEPT !.behind = @]
          \/ asking' = [asking EXCEPT !.behind = @ \cup {m}] /\ Affects(m, query)
      BY <1>13 DEF Execute
    <3> QED
      BY <3>1 DEF WebTyped, RequestRecord
  <2>4. Waiting = {} /\ Waiting' = {m}
    BY <2>1 DEF Waiting
  <2> QED
    BY <2>1, <2>2, <2>3, <2>4 DEF ChangesInv, Has, Mounted, MayLack, Affects
<1>14. CASE ExecuteNot
  BY <1>14 DEF ExecuteNot, SignedOut, ChangesInv, Has, Mounted, Affects
<1>15. CASE Settle
  <2> DEFINE m == change.does
             put == query \in Mutation(m).puts
             asks == Touches(m, query) /\ Mounted /\ (asking.pc = "none" \/ Has(entry'))
  <2>1. /\ UNCHANGED <<query, place>> /\ Waiting = {m} /\ Waiting' = {}
        /\ change.pc = "done"
    BY <1>15 DEF Settle, session, Waiting, NoChange
  <2>2. holder[change.token] \in People
    BY <2>1, ElementOfSeq DEF WebTyped
  <2>3. /\ entry'.of = IF put THEN holder[change.token] ELSE entry.of
        /\ entry'.behind = IF put THEN {} ELSE entry.behind
    <3> DEFINE given == [of |-> holder[change.token], behind |-> {}, invalid |-> FALSE,
                         young |-> TRUE]
               shown == IF put THEN given ELSE entry
    <3>1. given \in EntryRecord /\ entry \in EntryRecord
      BY <2>2 DEF WebTyped, EntryRecord
    <3>2. given.of = holder[change.token] /\ given.behind = {}
      OBVIOUS
    <3>3. entry' = shown \/ entry' = [shown EXCEPT !.invalid = TRUE]
      BY <1>15 DEF Settle
    <3>4. shown = IF put THEN given ELSE entry
      OBVIOUS
    <3> HIDE DEF given, shown, put
    <3>5. shown \in EntryRecord
      BY <3>1, <3>4
    <3>6. entry'.of = shown.of /\ entry'.behind = shown.behind
      BY <3>3, <3>5 DEF EntryRecord
    <3> QED
      BY <3>2, <3>4, <3>6
  <2>4. asking' = IF asks THEN Sent(bearer) ELSE asking
    BY <1>15, <2>3 DEF Settle, AsksAgain, Has
  <2>5. Sent(bearer).pc = "sent" /\ Sent(bearer).behind = {}
    BY SentIsRequest DEF WebTyped
  <2>6. excused' = IF Touches(m, query) /\ Mounted /\ Has(entry') THEN excused
                   ELSE excused \cup asking.behind
    BY <1>15, <2>3 DEF Settle, Has
  <2>7. /\ ~Has(entry') => entry'.behind = {}
        /\ \A x \in entry'.behind \cup asking'.behind : Affects(x, query')
    BY <2>1, <2>2, <2>3, <2>4, <2>5, WebAssumption DEF ChangesInv, Has, Affects
  <2>8. ASSUME Mounted
        PROVE  (IF asking'.pc = "none" THEN entry'.behind ELSE asking'.behind) \subseteq MayLack'
    <3>1. CASE asks
      BY <2>4, <2>5, <3>1
    <3>2. CASE ~asks /\ asking.pc # "none"
      <4>1. asking' = asking /\ asking.behind \subseteq excused'
        BY <2>4, <2>6, <2>8, <3>2
      <4> QED
        BY <3>2, <4>1 DEF MayLack
    <3>3. CASE ~asks /\ asking.pc = "none"
      <4>1. asking' = asking /\ ~Touches(m, query)
        BY <2>4, <2>8, <3>3
      <4>2. CASE put
        BY <2>3, <3>3, <4>1, <4>2
      <4>3. CASE ~put
        <5>1. entry'.behind = entry.behind /\ entry.behind \subseteq MayLack
          BY <2>3, <2>8, <3>3, <4>3 DEF ChangesInv
        <5>2. m \in entry.behind => m \in Omitted(query)
          <6>1. place \in DOMAIN Pages /\ m \in Pages[place].offers /\ query \in AndMenu(place)
            BY <2>1, <2>8 DEF AtItsPage, Mounted, WebTyped
          <6>2. Covered(m, query)
            BY <6>1, KeysAreComplete
          <6>3. m \in entry.behind => Affects(m, query)
            BY DEF ChangesInv
          <6> QED
            BY <4>1, <4>3, <6>2, <6>3 DEF Covered
        <5> QED
          BY <2>1, <2>6, <3>3, <4>1, <5>1, <5>2 DEF MayLack
      <4> QED
        BY <4>2, <4>3
    <3> QED
      BY <3>1, <3>2, <3>3
  <2>9. Mounted' = Mounted
    BY <2>1 DEF Mounted
  <2> QED
    BY <2>7, <2>8, <2>9 DEF ChangesInv, Has
<1>16. CASE SettlePassword
  <2>1. change.pc = "done" /\ change.does = "changeOwnPassword" /\ entry' = entry /\ query' = query
        /\ change.token \in Nat
    BY <1>16 DEF SettlePassword, WebTyped
  <2>2. CASE place = "login"
    <3>1. Mount("dashboard", AndMenu("dashboard"), change.token)
      BY <1>16, <2>2 DEF SettlePassword
    <3> QED
      BY <2>1, <3>1, PageOpens
  <2>3. CASE place # "login"
    <3>1. UNCHANGED <<place, asking, excused>> /\ Waiting = {"changeOwnPassword"}
      BY <1>16, <2>3 DEF SettlePassword, Waiting
    <3>2. place = "account"
      <4>1. place \in DOMAIN Pages /\ "changeOwnPassword" \in Pages[place].offers
        BY <2>1, <2>3 DEF AtItsPage, WebTyped
      <4> QED
        BY <4>1, OnlyOnAccount
    <3>3. Mounted => ~Affects("changeOwnPassword", query)
      BY <3>2, PasswordShowsNowhere DEF Mounted
    <3> QED
      BY <2>1, <3>1, <3>3 DEF ChangesInv, Has, Mounted, MayLack, Affects
  <2> QED
    BY <2>2, <2>3
<1>17. CASE Lost
  <2>1. Waiting \subseteq excused'
    BY <1>17 DEF Lost, Waiting
  <2> QED
    BY <1>17, <2>1 DEF Lost, session, ChangesInv, Has, Mounted, MayLack, Affects
<1>18. CASE UNCHANGED webVars
  BY <1>18 DEF webVars, session, ChangesInv, Has, Mounted, MayLack, Waiting, Affects
<1> QED
  BY <1>1, <1>2, <1>3, <1>4, <1>5, <1>6, <1>7, <1>8, <1>9, <1>10, <1>11, <1>12, <1>13, <1>14, <1>15,
     <1>16, <1>17, <1>18 DEF WebNext

------------------------------------------------------------------------------
(* The theorems.                                                            *)

\* Tokens, requests, entries and mutations keep their types, and a token is held exactly
\* while a page other than the login is on screen.
THEOREM WebTypeCorrect == WebSpec => []WebTypeOK
<1>1. WebInit => WebTyped
  BY WebInitTyped
<1>2. WebTyped /\ [WebNext]_webVars => WebTyped'
  BY WebTypeStep
<1>3. WebTyped => WebTypeOK
  BY DEF WebTyped, WebTypeOK, EntryRecord
<1> QED
  BY <1>1, <1>2, <1>3, PTL DEF WebSpec

\* Data of another account stays on screen, with nothing on its way, only when it was young
\* or on its way as the session began, when a request failed, or when a change of password
\* settled in the session of another (OthersDataIsRecent).
THEOREM OthersDataProved == WebSpec => []OthersDataIsRecent
<1>1. WebInit => WebTyped /\ OthersInv
  <2>1. WebInit => WebTyped
    BY WebInitTyped
  <2> QED
    BY <2>1 DEF WebInit, OthersInv, Foreign
<1>2. WebTyped /\ OthersInv /\ [WebNext]_webVars => (WebTyped /\ OthersInv)'
  BY WebTypeStep, OthersStep
<1>3. OthersInv => OthersDataIsRecent
  BY DEF OthersInv, OthersDataIsRecent, Quiet
<1> QED
  BY <1>1, <1>2, <1>3, PTL DEF WebSpec

\* A user who waits for a change on a page that offers it sees it, on every query of that
\* page and afterwards on any other, but for the omissions (OwnChangesShow).
THEOREM OwnChangesProved == WebSpec /\ []AtItsPage => []OwnChangesShow
<1>1. WebInit => WebTyped /\ ChangesInv
  <2>1. WebInit => WebTyped
    BY WebInitTyped
  <2>2. WebInit => ChangesInv
    BY DEF WebInit, NoEntry, NoRequest, ChangesInv, Mounted
  <2> QED
    BY <2>1, <2>2
<1>2. WebTyped /\ ChangesInv /\ AtItsPage /\ [WebNext]_webVars => (WebTyped /\ ChangesInv)'
  BY WebTypeStep, ChangesStep
<1>3. ChangesInv => OwnChangesShow
  BY DEF ChangesInv, OwnChangesShow, Quiet, MayLack, Waiting
<1> QED
  BY <1>1, <1>2, <1>3, PTL DEF WebSpec
===============================================================================
