---------------------------- MODULE PanelSession ----------------------------
(***************************************************************************)
(* The API client of the panel (api.ts): the tokens in localStorage, shared by *)
(* all requests of the page.  A request that is refused tries to renew them    *)
(* and is then repeated once, while others do the same and the user logs out.  *)
(* Tokens are numbers, in the order the API issued them; an access and a       *)
(* refresh token are issued together.  Access tokens expire, refresh tokens    *)
(* outlive the modelled time.                                                  *)
(***************************************************************************)
EXTENDS Naturals

CONSTANTS Fetch,      \* concurrent requests of api() and uploadFile()
          MaxTokens   \* bound: tokens issued

VARIABLES access, refresh,   \* localStorage; 0 is no token
          issued, expired,   \* the newest token, and the newest that has expired
          enabled,           \* the account is active
          fetch,
          loggedIn,
          revived,           \* history: a renewal was under way at the last logout
          excused            \* history: requests that lost the session, or whose second token expired

storageVars == <<access, refresh>>
serverVars == <<issued, expired, enabled>>
sessionVars == <<storageVars, serverVars, fetch, loggedIn, revived, excused>>

Ended == [at |-> "none"]
SessionTypeOK ==
  /\ access \in 0 .. MaxTokens /\ refresh \in 0 .. MaxTokens
  /\ (access = 0) = (refresh = 0)                \* set and removed together
  /\ issued \in 0 .. MaxTokens /\ expired \in 0 .. issued
  /\ enabled \in BOOLEAN /\ loggedIn \in BOOLEAN /\ revived \in BOOLEAN
  /\ \A f \in Fetch : \/ fetch[f] = Ended
                      \/ fetch[f].at \in {"sent", "refused", "renewing", "failed"}
                         /\ fetch[f].token \in 0 .. issued /\ fetch[f].again \in BOOLEAN
  /\ excused \subseteq Fetch

SessionInit ==
  /\ access = 0 /\ refresh = 0 /\ issued = 0 /\ expired = 0 /\ enabled = TRUE
  /\ fetch = [f \in Fetch |-> Ended] /\ loggedIn = FALSE /\ revived = FALSE /\ excused = {}

Running(at) == {f \in Fetch : fetch[f].at = at}

setSession(n) == access' = n /\ refresh' = n

\* Mutant: the refresh token stays.
clearSessionHalf == access' = 0 /\ UNCHANGED refresh

clearSession == access' = 0 /\ refresh' = 0

-----------------------------------------------------------------------------
(* The user and the API *)

login ==
  /\ enabled /\ issued < MaxTokens
  /\ issued' = issued + 1 /\ setSession(issued + 1)
  /\ loggedIn' = TRUE /\ revived' = FALSE
  /\ UNCHANGED <<expired, enabled, fetch, excused>>

logout ==
  /\ loggedIn \/ access # 0
  /\ clearSession /\ loggedIn' = FALSE
  /\ revived' = (Running("renewing") # {})
  /\ excused' = Fetch
  /\ UNCHANGED <<serverVars, fetch>>

ExpireAccess ==
  /\ expired < issued /\ expired' = expired + 1
  /\ excused' = excused \cup {f \in Fetch : fetch[f] # Ended /\ fetch[f].again}
  /\ UNCHANGED <<storageVars, issued, enabled, fetch, loggedIn, revived>>

SetEnabled(b) ==
  /\ enabled # b /\ enabled' = b /\ excused' = IF b THEN excused ELSE Fetch
  /\ UNCHANGED <<storageVars, issued, expired, fetch, loggedIn, revived>>

-----------------------------------------------------------------------------
(* api, uploadFile and tryRefresh *)

\* A call from a page, which layout.tsx shows only with a token.
api(f) ==
  /\ fetch[f] = Ended /\ refresh # 0
  /\ fetch' = [fetch EXCEPT ![f] = [at |-> "sent", token |-> access, again |-> FALSE]]
  /\ excused' = IF enabled THEN excused \ {f} ELSE excused \cup {f}
  /\ UNCHANGED <<storageVars, serverVars, loggedIn, revived>>

\* get_current_user.
TokenAccepted(f) == enabled /\ fetch[f].token > expired

\* The API answers; 401 is repeated once, anything else ends the call.
Checked(f) ==
  /\ fetch[f].at = "sent"
  /\ fetch' = [fetch EXCEPT ![f] = IF TokenAccepted(f) THEN Ended
                                   ELSE [fetch[f] EXCEPT !.at = IF fetch[f].again THEN "failed" ELSE "refused"]]
  /\ UNCHANGED <<storageVars, serverVars, loggedIn, revived, excused>>

\* tryRefresh: without a refresh token nothing can be renewed.
Renew(f) ==
  /\ fetch[f].at = "refused"
  /\ fetch' = [fetch EXCEPT ![f].at = IF refresh = 0 THEN "failed" ELSE "renewing"]
  /\ UNCHANGED <<storageVars, serverVars, loggedIn, revived, excused>>

\* Mutant: the call is repeated with the token it had.
TokenOfRetryOld(f) == fetch[f].token

\* api() reads the token again.
TokenOfRetry(f) == access'

\* /api/auth/refresh refuses a disabled account; otherwise new tokens are stored
\* and the call is repeated.
Renewed(f) ==
  /\ fetch[f].at = "renewing"
  /\ IF enabled
       THEN /\ issued < MaxTokens /\ issued' = issued + 1 /\ setSession(issued + 1)
            /\ fetch' = [fetch EXCEPT ![f] = [at |-> "sent", token |-> TokenOfRetry(f), again |-> TRUE]]
       ELSE fetch' = [fetch EXCEPT ![f].at = "failed"] /\ UNCHANGED <<issued, storageVars>>
  /\ UNCHANGED <<expired, enabled, loggedIn, revived, excused>>

\* The error has been shown.
Seen(f) == /\ fetch[f].at = "failed" /\ fetch' = [fetch EXCEPT ![f] = Ended]
           /\ UNCHANGED <<storageVars, serverVars, loggedIn, revived, excused>>

SessionNext ==
  \/ login \/ logout \/ ExpireAccess \/ (\E b \in BOOLEAN : SetEnabled(b))
  \/ \E f \in Fetch : api(f) \/ Checked(f) \/ Renew(f) \/ Renewed(f) \/ Seen(f)
SessionSpec == SessionInit /\ [][SessionNext]_sessionVars

-----------------------------------------------------------------------------
(* Properties *)

\* A request fails for want of a valid token only if the session ended (logout,
\* account disabled) while it ran, or the renewed token expired before it was
\* used: requests that renew the tokens at the same time do not spoil each
\* other's (api, tryRefresh).
SessionSurvives == \A f \in Fetch : fetch[f].at = "failed" => f \in excused

\* After a logout localStorage stays empty, whatever answers still arrive, unless
\* a renewal was already under way, which stores its tokens (clearSession,
\* tryRefresh).
LogoutStays == access # 0 \/ refresh # 0 => loggedIn \/ revived

\* Both: renewals neither end a session nor, unless they were under way, revive one.
SessionSound == SessionSurvives /\ LogoutStays
=============================================================================
