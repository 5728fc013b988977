----------------------------- MODULE MCAccounts ------------------------------
(* Instances, for TLC, of the links sent by e-mail, of signing in and of the *)
(* front end.  A behaviour looks at one of them and leaves the others at     *)
(* their start.                                                              *)
EXTENDS AccountTokens, LoginSessions, WebClient, TLC

CONSTANTS t1, t2, u1, u2, e1, e2, e3, r1, r2, c1, c2, k1, k2, w1, w2

VARIABLES
    part,       \* the component this behaviour looks at
    home        \* the page of the query, on which the user works

Symmetry == Permutations(Tokens) \cup Permutations(Users) \cup Permutations(Emails)
            \cup Permutations(Requests)

\* One of the pages that show the query: the one that offers more, when there are several.
HomeOf(q) ==
    CASE q = "dashboardAssets" -> "assets"
      [] q = "attackPaths" -> "findings"
      [] q = "executiveSummary" -> "reports"
      [] q \in {"alertsSummary", "users"} -> IF q = "users" THEN "users" ELSE "alerts"
      [] OTHER -> CHOOSE p \in DOMAIN Pages : q \in Pages[p].shows

Init ==
    /\ TokenInit /\ LoginInit /\ WebInit
    /\ part \in {"links", "sign-in", "web"}
    /\ part = "links" => ~account.mfa
    /\ part # "links" => mailer
    /\ part = "web" => ~account.mfa
    /\ part # "web" => query = "overview"
    /\ home \in {HomeOf(query)} \cup (IF query = "alertsSummary" THEN {"cloud"} ELSE {})

\* The user leaves the page only for the account page.  There, as on every page, the menu
\* shows "alertsSummary"; only with that query and one of the settings is there a second
\* session, and a third token, by a change of password, only with the former.  The first to
\* sign in is w1.
AtHome ==
    /\ place' \in {"login", home, "account"}
    /\ holder' # <<>> => holder'[1] = w1
    /\ Len(holder') > 1 => query \in {"monitoring", "alertsSummary"}
    /\ Len(holder') > 2 =>
         /\ query = "alertsSummary" /\ home = "alerts"
         /\ Len(holder) > 2 \/ change.does = "changeOwnPassword"

Next ==
    /\ UNCHANGED <<part, home>>
    /\ \/ part = "links" /\ TokenNext /\ UNCHANGED <<loginVars, webVars>>
       \/ part = "sign-in" /\ LoginNext /\ UNCHANGED <<tokenVars, webVars>>
       \/ part = "web" /\ WebNext /\ AtHome /\ UNCHANGED <<tokenVars, loginVars>>

Spec == Init /\ [][Next]_<<part, home, tokenVars, loginVars, webVars>>

TypeOK == TokenTypeOK /\ LoginTypeOK /\ WebTypeOK
==============================================================================
