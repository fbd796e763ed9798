--------------------------- MODULE LimitResolution ---------------------------
(***************************************************************************)
(* Which limits a request is admitted under: Handler.limitsFor with            *)
(* Snapshot.TeamLimitFor and mostRestrictive.  A limit has two dimensions;     *)
(* in each, -1 is unset (a NULL column), 0 unlimited, a positive value a cap.  *)
(* The loop over the user's teams is a step per team, in the order in which    *)
(* team_members returned them.                                                 *)
(***************************************************************************)
EXTENDS Integers, Sequences

CONSTANTS Team,
          Value,     \* the values a limit column can hold, with -1 for NULL
          Default,   \* Handler.DefaultLimits
          MaxTeams   \* bound: teams a user belongs to

Dim == {"rpm", "daily"}
UserLimit == [Dim -> Value]
None == [d \in Dim |-> -1]     \* no row, or a row with both columns NULL

ASSUME ResolutionAssumption ==
  /\ Value \subseteq Int /\ \A v \in Value : v >= -1
  /\ -1 \in Value
  /\ Default \in [Dim -> Nat] /\ MaxTeams \in Nat

VARIABLES own,         \* UserLimits[userID]; None when the map has no entry
          teams,       \* UserTeams[userID]
          hasLimits,   \* the teams with an entry in TeamLimits
          teamLimits,  \* their entries
          i,           \* teams looked at so far
          out, found,  \* TeamLimitFor's locals
          lim,         \* limitsFor's result so far
          phase

resolveVars == <<own, teams, hasLimits, teamLimits, i, out, found, lim, phase>>
snapshot == <<own, teams, hasLimits, teamLimits>>

ResolutionTypeOK ==
  /\ own \in UserLimit
  /\ teams \in Seq(Team)
  /\ hasLimits \subseteq Team
  /\ teamLimits \in [Team -> UserLimit]
  /\ i \in 0 .. Len(teams)
  /\ out \in UserLimit /\ found \in BOOLEAN
  /\ lim \in [Dim -> Nat]     \* what Allow gets never holds the unset marker
  /\ phase \in {"start", "teams", "done"}

\* team_members has one row per user and team; a membership may name a team
\* the earlier teams query did not return yet (hasLimits).
ResolveInit ==
  /\ own \in UserLimit
  /\ teams \in UNION {{s \in [1 .. n -> Team] : \A j, k \in 1 .. n : j # k => s[j] # s[k]}
                        : n \in 0 .. MaxTeams}
  /\ hasLimits \in SUBSET Team /\ teamLimits \in [Team -> UserLimit]
  /\ i = 0 /\ out = None /\ found = FALSE
  /\ lim = Default /\ phase = "start"

\* lim with the set dimensions of l put over it.
Override(l) == [d \in Dim |-> IF l[d] >= 0 THEN l[d] ELSE lim[d]]

\* UserLimitFor: a personal override returns at once, whatever the teams say.
Personal == /\ phase = "start" /\ own # None
            /\ lim' = Override(own) /\ phase' = "done"
            /\ UNCHANGED <<snapshot, i, out, found>>

AskTeams == /\ phase = "start" /\ own = None
            /\ phase' = "teams"
            /\ UNCHANGED <<snapshot, i, out, found, lim>>

\* Mutant: unlimited is treated as the smallest cap.
mostRestrictiveMin(cur, next) ==
  IF next < 0 THEN cur ELSE IF cur < 0 \/ next < cur THEN next ELSE cur

mostRestrictive(cur, next) ==
  IF next < 0 THEN cur
  ELSE IF cur <= 0 THEN next
  ELSE IF next > 0 /\ next < cur THEN next
  ELSE cur

NextTeam ==
  /\ phase = "teams" /\ i < Len(teams)
  /\ i' = i + 1
  /\ LET tid == teams[i + 1] IN
       IF tid \in hasLimits
         THEN /\ found' = TRUE
              /\ out' = [d \in Dim |-> mostRestrictive(out[d], teamLimits[tid][d])]
         ELSE UNCHANGED <<found, out>>
  /\ UNCHANGED <<snapshot, lim, phase>>

TeamsDone == /\ phase = "teams" /\ i = Len(teams)
             /\ lim' = IF found THEN Override(out) ELSE lim
             /\ phase' = "done"
             /\ UNCHANGED <<snapshot, i, out, found>>

ResolveNext == Personal \/ AskTeams \/ NextTeam \/ TeamsDone
ResolveSpec == ResolveInit /\ [][ResolveNext]_resolveVars

-----------------------------------------------------------------------------
(* Properties *)

\* The caps that the first n teams set in dimension d, unlimited (0) included.
Set(d, n) == {v \in Value : v >= 0 /\ \E j \in 1 .. n :
                               teams[j] \in hasLimits /\ v = teamLimits[teams[j]][d]}

\* v is the tightest of the caps S: the least positive one, else unlimited,
\* else fallback.
Tightest(v, S, fallback) ==
  \/ S = {} /\ v = fallback
  \/ S = {0} /\ v = 0
  \/ v \in S /\ v > 0 /\ \A p \in S : p > 0 => v <= p

\* For a user without an override the admitted limits are, in each dimension,
\* the tightest any of his teams sets, whatever the order of the teams, which
\* dimensions they leave unset and which are missing from the snapshot.  (With
\* an override, even of the other dimension only, no team cap applies.)
TeamLimitTightest ==
  phase = "done" /\ own = None =>
    \A d \in Dim : Tightest(lim[d], Set(d, Len(teams)), Default[d])
==============================================================================
