-------------------------------- MODULE MCApi -------------------------------
(* Four parts of the API that share no state but the users, each run while      *)
(* the others are at rest.  Documents: one document, three requests (two        *)
(* indexers and a delete).  The bot: one mention delivered twice, two admins.   *)
(* Accounts: two processes that start, two requests of the owner and one other  *)
(* person.  Access: two teams, two providers, one user, two editors, a caller.  *)
EXTENDS Documents, SlackBot, Accounts, TeamAccess, TLC

CONSTANTS d1, c1, c2, c3, e1, k1, k2, a1, a2, p1, p2, u1, r1, r2, s, t, q1, q2, w1, w2, c

Symmetry == Permutations(Delivery) \cup Permutations(Request)

VARIABLE part   \* the part that runs
Parts == {"documents", "bot", "accounts", "access"}

\* What an idle editor or caller was last about is of no account.
AccessStart == Init /\ (\A e \in Editor : team[e] = s) /\ prov[c] = q1
AccessRest == AccessStart /\ teams = {}

ApiInit ==
  /\ part \in Parts
  /\ DocInit
  /\ BotInit
  /\ AccountInit
  /\ IF part = "access" THEN AccessStart ELSE AccessRest

ApiNext ==
  \/ /\ part = "documents" /\ DocNext
     /\ UNCHANGED <<part, botVars, allVars, vars>>
  \/ /\ part = "bot" /\ BotNext
     /\ UNCHANGED <<part, docVars, allVars, vars>>
  \/ /\ part = "accounts" /\ AccountNext
     /\ UNCHANGED <<part, docVars, botVars, vars>>
  \/ /\ part = "access" /\ Next
     /\ UNCHANGED <<part, docVars, botVars, allVars>>

ApiSpec == ApiInit /\ [][ApiNext]_<<part, docVars, botVars, allVars, vars>>
=============================================================================
