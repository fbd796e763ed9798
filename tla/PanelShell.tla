----------------------------- MODULE PanelShell -----------------------------
(***************************************************************************)
(* Which page a tab of the panel shows, and to whom: the redirects of the      *)
(* start page, of login, of the forced change of a temporary password and of   *)
(* the layout around all other pages, which asks the API once who is there.    *)
(* The tabs of a browser share one session in localStorage (module             *)
(* PanelSession has its tokens), and any of them may replace or end it while   *)
(* another waits for an answer or shows a page.                                *)
(***************************************************************************)
EXTENDS Naturals

CONSTANTS Person, Tab, Nobody
ASSUME ShellAssumption == Nobody \notin Person

Role == {"admin", "member"}
DashPage == {"/chat", "/connections", "/dashboard"}   \* pages inside the layout
Path == DashPage \cup {"/", "/login", "/change-password"}

VARIABLES must, rank,   \* the API: temporary passwords, roles
          session,      \* localStorage: whose tokens, rafine_role
          tab,
          outside       \* history: tabs whose session was changed elsewhere since they asked
shellVars == <<must, rank, session, tab, outside>>

NoSession == [user |-> Nobody, role |-> "member"]
Blank(p) == [path |-> p, at |-> "mount", user |-> Nobody, role |-> "member"]
Reached(t, at) == tab[t].at = at
Goes(t, p) == tab' = [tab EXCEPT ![t] = Blank(p)]
getToken == session # NoSession

ShellInit ==
  /\ must \in [Person -> BOOLEAN] /\ rank \in [Person -> Role]
  /\ session = NoSession /\ tab = [t \in Tab |-> Blank("/")] /\ outside = {}

-----------------------------------------------------------------------------
(* Pages and their effects *)

\* An address typed by the user: everything is mounted anew.
Visit(t, p) == /\ Reached(t, "ready") /\ Goes(t, p) /\ outside' = outside \ {t}
               /\ UNCHANGED <<must, rank, session>>

Home(t) == /\ tab[t].path = "/" /\ Reached(t, "mount") /\ Goes(t, IF getToken THEN "/chat" ELSE "/login")
           /\ UNCHANGED <<must, rank, session, outside>>

Asking == {"me", "temporary", "known"}

\* Mutant: the account's password is not asked about.
MustChangeNever(u) == FALSE

MustChange(u) == must[u]

\* DashLayout's effect, once per mount: no token, or GET /api/auth/me.
LayoutAsks(t) ==
  /\ tab[t].path \in DashPage /\ Reached(t, "mount")
  /\ tab' = [tab EXCEPT ![t] = IF getToken THEN [@ EXCEPT !.at = "me", !.user = session.user]
                               ELSE Blank("/login")]
  /\ outside' = outside \ {t} /\ UNCHANGED <<must, rank, session>>

MeRead(t) ==
  /\ Reached(t, "me")
  /\ tab' = [tab EXCEPT ![t].at = IF MustChange(tab[t].user) THEN "temporary" ELSE "known"]
  /\ UNCHANGED <<must, rank, session, outside>>

\* The role is read from localStorage when the answer is here.
LayoutTold(t) ==
  /\ \/ Reached(t, "temporary") /\ Goes(t, "/change-password")
     \/ Reached(t, "known") /\ tab' = [tab EXCEPT ![t].at = "ready", ![t].role = session.role]
  /\ UNCHANGED <<must, rank, session, outside>>

LayoutFails(t) == /\ tab[t].at \in Asking /\ Goes(t, "/login")
                  /\ UNCHANGED <<must, rank, session, outside>>

\* A click in the rail or on the chat page's links (an admin's to the connections
\* is there when no model can be used); the layout stays mounted.
Links(t) ==
  IF tab[t].path = "/chat"
    THEN {"/connections"} \cup (IF session.role = "admin" THEN {"/dashboard"} ELSE {})
  ELSE IF tab[t].role = "admin" THEN {"/chat", "/dashboard"} ELSE {}

Navigate(t, p) == /\ Reached(t, "ready") /\ p \in Links(t) \ {tab[t].path}
                  /\ tab' = [tab EXCEPT ![t].path = p] /\ UNCHANGED <<must, rank, session, outside>>

-----------------------------------------------------------------------------
(* Session *)

\* Every other tab that has asked is now beside the session.
Elsewhere(t) == outside \cup {x \in Tab \ {t} : tab[x].at \in Asking \cup {"ready"}}

onSubmit(t, u) == /\ tab[t].path = "/login" /\ Reached(t, "mount")
                  /\ tab' = [tab EXCEPT ![t].at = "login", ![t].user = u]
                  /\ UNCHANGED <<must, rank, session, outside>>

LoggedIn(t) == /\ Reached(t, "login") /\ Goes(t, "/chat")
               /\ session' = [user |-> tab[t].user, role |-> rank[tab[t].user]]
               /\ outside' = Elsewhere(t) /\ UNCHANGED <<must, rank>>

LoginFails(t) == Reached(t, "login") /\ Goes(t, "/login") /\ UNCHANGED <<must, rank, session, outside>>

\* Mutant: the tab stays where it is.
logoutTabStays(t) == /\ Reached(t, "ready") /\ session' = NoSession /\ UNCHANGED tab
                     /\ outside' = Elsewhere(t) /\ UNCHANGED <<must, rank>>

logoutTab(t) == /\ Reached(t, "ready") /\ session' = NoSession /\ Goes(t, "/login")
                /\ outside' = Elsewhere(t) /\ UNCHANGED <<must, rank>>

\* tryRefresh in any call: the session gets the role the account has now.
Renews == /\ getToken /\ session' = [session EXCEPT !.role = rank[session.user]]
          /\ session' # session /\ outside' = {x \in Tab : tab[x].at \in Asking \cup {"ready"}} \cup outside
          /\ UNCHANGED <<must, rank, tab>>

RoleChanges(u, r) == /\ rank[u] # r /\ rank' = [rank EXCEPT ![u] = r]
                     /\ UNCHANGED <<must, session, tab, outside>>

-----------------------------------------------------------------------------
(* The change of a temporary password *)

PasswordEffect(t) == /\ tab[t].path = "/change-password" /\ Reached(t, "mount")
                     /\ tab' = [tab EXCEPT ![t] = IF getToken THEN [@ EXCEPT !.at = "form"]
                                                  ELSE Blank("/login")]
                     /\ UNCHANGED <<must, rank, session, outside>>

\* submit, once the new password is long enough and confirmed; the call is made
\* with the token that is stored by now, if any.
submit(t) == /\ Reached(t, "form") /\ tab' = [tab EXCEPT ![t].at = "change", ![t].user = session.user]
             /\ UNCHANGED <<must, rank, session, outside>>

PasswordChanged(t) ==
  /\ Reached(t, "change") /\ tab[t].user # Nobody /\ must' = [must EXCEPT ![tab[t].user] = FALSE]
  /\ Goes(t, "/chat") /\ UNCHANGED <<rank, session, outside>>

PasswordFails(t) == /\ Reached(t, "change") /\ tab' = [tab EXCEPT ![t].at = "form", ![t].user = Nobody]
                    /\ UNCHANGED <<must, rank, session, outside>>

ShellNext ==
  \/ Renews \/ \E u \in Person, r \in Role : RoleChanges(u, r)
  \/ \E t \in Tab : \/ Home(t) \/ LayoutAsks(t) \/ MeRead(t) \/ LayoutTold(t) \/ LayoutFails(t)
                    \/ LoggedIn(t) \/ LoginFails(t) \/ logoutTab(t)
                    \/ PasswordEffect(t) \/ submit(t) \/ PasswordChanged(t) \/ PasswordFails(t)
                    \/ \E p \in Path : Visit(t, p) \/ Navigate(t, p)
                    \/ \E u \in Person : onSubmit(t, u)
ShellSpec == ShellInit /\ [][ShellNext]_shellVars

-----------------------------------------------------------------------------
(* Properties *)

\* A page inside the layout is shown for an account whose temporary password has
\* been changed, whatever tabs did meanwhile; and a tab shows the account and the
\* role of the session, and none after a logout, unless the session was replaced,
\* ended or renewed elsewhere since the tab asked who is there (DashLayout).
ShellSound ==
  \A t \in Tab : Reached(t, "ready") =>
    /\ tab[t].path \in DashPage /\ ~must[tab[t].user]
    /\ t \notin outside => session.user = tab[t].user /\ session.role = tab[t].role
=============================================================================
