----------------------------- MODULE TeamAccess -----------------------------
(***************************************************************************)
(* Who may use which provider: the team routes of the API (teams.py), the      *)
(* check user_can_use_provider and the conversation routes that use it.  Every *)
(* statement is a transaction of its own and every await lets other requests   *)
(* run, so an edit of a team's grants and a check take several steps.  Users   *)
(* are ordinary ones: owners and admins pass the check at once.                *)
(***************************************************************************)
EXTENDS Naturals, FiniteSets

CONSTANTS Team, User, Provider,
          Editor,     \* admin requests that may run at the same time
          Caller,     \* conversation requests that may run at the same time
          MaxEdits    \* bound: changes of teams, members and providers

ASSUME AccessAssumption == MaxEdits \in Nat

VARIABLES teams, fresh,      \* rows of teams, and the ids no team has had yet
          providers, active, \* rows of llm_providers, and those with is_active
          members,           \* team_members
          access,            \* team_provider_access
          edits,
          epc, team, want, todo,  \* an editor: where it is, its team, its list
          cpc, user, prov,        \* a caller: where it is, its user and provider
          conv,              \* <<user, provider>> of the conversations written
          assigned,          \* history: what the admins asked for, <<team, provider>>
          tornTeams,              \* history: teams with overlapping or failed edits
          held,              \* history: grants that were stored and not withdrawn since
          granted,          \* history: the caller was granted at some moment of the check
          proper             \* history: ... at some, going by the grants held

tables == <<teams, fresh, providers, active, members, access>>
editors == <<epc, team, want, todo>>
callers == <<cpc, user, prov, conv>>
history == <<granted, proper>>
vars == <<tables, edits, editors, callers, assigned, tornTeams, held, history>>

\* provider_id of a conversation whose provider was deleted (ON DELETE SET NULL).
Null == "null"

TypeOK ==
  /\ teams \subseteq Team /\ fresh \subseteq Team \ teams
  /\ providers \subseteq Provider /\ active \subseteq providers
  /\ members \subseteq teams \X User
  /\ access \subseteq teams \X providers        \* the foreign keys
  /\ edits \in 0 .. MaxEdits
  /\ epc \in [Editor -> {"idle", "clear", "grant"}]
  /\ team \in [Editor -> Team]
  /\ want \in [Editor -> SUBSET Provider] /\ todo \in [Editor -> SUBSET Provider]
  /\ cpc \in [Caller -> {"idle", "restricted", "member", "insert", "done", "denied"}]
  /\ user \in [Caller -> User] /\ prov \in [Caller -> Provider]
  /\ conv \subseteq User \X (providers \cup {Null})
  /\ assigned \subseteq Team \X Provider /\ tornTeams \subseteq Team
  /\ held \subseteq Team \X Provider
  /\ granted \in [Caller -> BOOLEAN] /\ proper \in [Caller -> BOOLEAN]

\* The rule itself, on grants g and memberships m: unrestricted, or a member of
\* a granting team.
MayUse(u, p, g, m) ==
  \/ \A t \in Team : <<t, p>> \notin g
  \/ \E t \in Team : <<t, p>> \in g /\ <<t, u>> \in m

\* Every step that changes grants or memberships may entitle a waiting caller,
\* or end his entitlement.
Observe ==
  /\ granted' = [c \in Caller |-> granted[c] \/
        (cpc[c] \in {"restricted", "member"} /\ MayUse(user[c], prov[c], access', members'))]
  /\ proper' = [c \in Caller |-> proper[c] \/
        (cpc[c] \in {"restricted", "member", "insert"}
           /\ MayUse(user[c], prov[c], held', members'))]

Init ==
  /\ teams \in SUBSET Team /\ fresh = Team \ teams
  /\ providers = Provider /\ active = Provider
  /\ members \in SUBSET (teams \X User)
  /\ access \in SUBSET (teams \X providers) /\ assigned = access /\ held = access
  /\ edits = 0 /\ tornTeams = {}
  /\ epc = [e \in Editor |-> "idle"] /\ team \in [Editor -> Team]
  /\ want = [e \in Editor |-> {}] /\ todo = [e \in Editor |-> {}]
  /\ cpc = [c \in Caller |-> "idle"]
  /\ user \in [Caller -> User] /\ prov \in [Caller -> Provider] /\ conv = {}
  /\ granted = [c \in Caller |-> FALSE] /\ proper = [c \in Caller |-> FALSE]

-----------------------------------------------------------------------------
(* Admins *)

Edit == edits < MaxEdits /\ edits' = edits + 1
EditorBusy(t) == \E e \in Editor : epc[e] # "idle" /\ team[e] = t

\* The team's row is written; _set_provider_access(t, P) is next.
SetsAccess(e, t, P) ==
  /\ epc[e] = "idle" /\ Edit
  /\ epc' = [epc EXCEPT ![e] = "clear"] /\ team' = [team EXCEPT ![e] = t]
  /\ want' = [want EXCEPT ![e] = P]
  /\ tornTeams' = IF EditorBusy(t) THEN tornTeams \cup {t} ELSE tornTeams
  /\ UNCHANGED <<providers, active, members, access, todo, callers, assigned, held>>
  /\ Observe

create_team(e, t, P) ==
  /\ t \in fresh
  /\ teams' = teams \cup {t} /\ fresh' = fresh \ {t}
  /\ SetsAccess(e, t, P)

\* An update of the provider list alone does not look whether the team is there
\* (one that names another column answers 404 when it is not; without a list it
\* changes nothing here).
update_team(e, t, P) ==
  /\ t \notin fresh
  /\ UNCHANGED <<teams, fresh>> /\ SetsAccess(e, t, P)

\* Mutant: the old grants are not deleted first.
ClearNot(e) ==
  /\ epc[e] = "clear" /\ epc' = [epc EXCEPT ![e] = "grant"]
  /\ todo' = [todo EXCEPT ![e] = want[e]]
  /\ assigned' = {a \in assigned : a[1] # team[e]} \cup {team[e]} \X want[e]
  /\ UNCHANGED <<tables, edits, team, want, callers, tornTeams, held>> /\ Observe

\* DELETE FROM team_provider_access WHERE team_id = ...  A grant the new list
\* names again is not withdrawn.
Clear(e) ==
  /\ epc[e] = "clear" /\ epc' = [epc EXCEPT ![e] = "grant"]
  /\ access' = {a \in access : a[1] # team[e]}
  /\ todo' = [todo EXCEPT ![e] = want[e]]
  /\ assigned' = {a \in assigned : a[1] # team[e]} \cup {team[e]} \X want[e]
  /\ held' = {a \in held : a[1] = team[e] => a[2] \in want[e]}
  /\ UNCHANGED <<teams, fresh, providers, active, members, edits, team, want, callers, tornTeams>>
  /\ Observe

\* INSERT ... ON CONFLICT DO NOTHING, one provider after the other.  A foreign
\* key that no longer exists raises, and the rest of the list is not written.
Grant(e, p) ==
  /\ epc[e] = "grant" /\ p \in todo[e]
  /\ IF team[e] \in teams /\ p \in providers
       THEN /\ access' = access \cup {<<team[e], p>>} /\ held' = held \cup {<<team[e], p>>}
            /\ todo' = [todo EXCEPT ![e] = @ \ {p}]
            /\ UNCHANGED <<epc, tornTeams>>
       ELSE /\ epc' = [epc EXCEPT ![e] = "idle"]
            /\ tornTeams' = tornTeams \cup {team[e]}
            /\ UNCHANGED <<access, todo, held>>
  /\ UNCHANGED <<teams, fresh, providers, active, members, edits, team, want, callers, assigned>>
  /\ Observe

Granted(e) ==
  /\ epc[e] = "grant" /\ todo[e] = {}
  /\ epc' = [epc EXCEPT ![e] = "idle"]
  /\ UNCHANGED <<tables, edits, team, want, todo, callers, assigned, tornTeams, held>> /\ Observe

\* Deletes cascade to memberships and grants.
delete_team(t) ==
  /\ t \in teams /\ Edit
  /\ teams' = teams \ {t}
  /\ members' = {m \in members : m[1] # t} /\ access' = {a \in access : a[1] # t}
  /\ assigned' = {a \in assigned : a[1] # t} /\ held' = {a \in held : a[1] # t}
  /\ tornTeams' = IF EditorBusy(t) THEN tornTeams \cup {t} ELSE tornTeams
  /\ UNCHANGED <<fresh, providers, active, editors, callers>> /\ Observe

delete_provider(p) ==
  /\ p \in providers /\ Edit
  /\ providers' = providers \ {p} /\ active' = active \ {p}
  /\ access' = {a \in access : a[2] # p}
  /\ assigned' = {a \in assigned : a[2] # p} /\ held' = {a \in held : a[2] # p}
  /\ conv' = {IF x[2] = p THEN <<x[1], Null>> ELSE x : x \in conv}
  /\ UNCHANGED <<teams, fresh, members, editors, cpc, user, prov, tornTeams>> /\ Observe

\* update_provider, of which only is_active matters here.
update_provider(p) ==
  /\ p \in providers /\ Edit
  /\ active' = IF p \in active THEN active \ {p} ELSE active \cup {p}
  /\ UNCHANGED <<teams, fresh, providers, members, access, editors, callers, assigned, tornTeams, held>>
  /\ Observe

add_member(t, u) ==
  /\ t \in teams /\ <<t, u>> \notin members /\ Edit
  /\ members' = members \cup {<<t, u>>}
  /\ UNCHANGED <<teams, fresh, providers, active, access, editors, callers, assigned, tornTeams, held>>
  /\ Observe

remove_member(t, u) ==
  /\ <<t, u>> \in members /\ Edit
  /\ members' = members \ {<<t, u>>}
  /\ UNCHANGED <<teams, fresh, providers, active, access, editors, callers, assigned, tornTeams, held>>
  /\ Observe

-----------------------------------------------------------------------------
(* Users *)

go(c, l) == cpc' = [cpc EXCEPT ![c] = l]
unchangedByCaller == <<tables, edits, editors, assigned, tornTeams, held>>

\* create_conversation: the provider is there and active; then
\* user_can_use_provider.
create_conversation(c, u, p) ==
  /\ cpc[c] = "idle" /\ p \in active /\ go(c, "restricted")
  /\ user' = [user EXCEPT ![c] = u] /\ prov' = [prov EXCEPT ![c] = p]
  /\ granted' = [granted EXCEPT ![c] = MayUse(u, p, access, members)]
  /\ proper' = [proper EXCEPT ![c] = MayUse(u, p, held, members)]
  /\ UNCHANGED <<unchangedByCaller, conv>>

\* SELECT EXISTS(... WHERE provider_id = ...)
Restricted(c) ==
  /\ cpc[c] = "restricted"
  /\ go(c, IF \E t \in Team : <<t, prov[c]>> \in access THEN "member" ELSE "insert")
  /\ UNCHANGED <<unchangedByCaller, user, prov, conv, history>>

\* Mutant: being a member of any team is enough.
MemberOfAny(c) ==
  /\ cpc[c] = "member"
  /\ go(c, IF \E t \in Team : <<t, user[c]>> \in members THEN "insert" ELSE "denied")
  /\ UNCHANGED <<unchangedByCaller, user, prov, conv, history>>

\* SELECT EXISTS(... JOIN team_members ...)
Member(c) ==
  /\ cpc[c] = "member"
  /\ go(c, IF \E t \in Team : <<t, prov[c]>> \in access /\ <<t, user[c]>> \in members
             THEN "insert" ELSE "denied")
  /\ UNCHANGED <<unchangedByCaller, user, prov, conv, history>>

\* INSERT INTO conversations; the foreign key refuses a provider deleted since.
Insert(c) ==
  /\ cpc[c] = "insert"
  /\ IF prov[c] \in providers
       THEN /\ conv' = conv \cup {<<user[c], prov[c]>>} /\ go(c, "done")
       ELSE go(c, "denied") /\ UNCHANGED conv
  /\ UNCHANGED <<unchangedByCaller, user, prov, history>>

\* patch_conversation moves a conversation to any active provider, and does not
\* ask user_can_use_provider.
patch_conversation(u, p, q) ==
  /\ <<u, p>> \in conv /\ q \in active /\ p # q
  /\ conv' = (conv \ {<<u, p>>}) \cup {<<u, q>>}
  /\ UNCHANGED <<unchangedByCaller, cpc, user, prov, history>>

Next ==
  \/ \E e \in Editor, t \in Team, P \in SUBSET Provider :
        create_team(e, t, P) \/ update_team(e, t, P)
  \/ \E e \in Editor : Clear(e) \/ Granted(e) \/ \E p \in Provider : Grant(e, p)
  \/ \E t \in Team : \/ delete_team(t)
                     \/ \E u \in User : add_member(t, u) \/ remove_member(t, u)
  \/ \E p \in Provider : delete_provider(p) \/ update_provider(p)
  \/ \E c \in Caller : \/ \E u \in User, p \in Provider : create_conversation(c, u, p)
                       \/ Restricted(c) \/ Member(c) \/ Insert(c)
  \/ \E u \in User, p \in Provider \cup {Null}, q \in Provider : patch_conversation(u, p, q)

Spec == Init /\ [][Next]_vars

-----------------------------------------------------------------------------
(* Properties *)

\* Although user_can_use_provider asks twice, it never lets a user pass who was
\* not granted at any moment of the check, whatever teams, grants and
\* memberships changed between the two questions.
CreateJustified == \A c \in Caller : cpc[c] \in {"insert", "done"} => granted[c]

\* When no edit of a team is under way, its grants are the list last asked for,
\* unless edits of it overlapped or one failed half way.
GrantsSettle ==
  \A t \in teams : ~EditorBusy(t) /\ t \notin tornTeams =>
     \A p \in Provider : <<t, p>> \in access <=> <<t, p>> \in assigned

\* docs/FLOW.md: once a provider is assigned to a team, only its members can use
\* it.  A conversation is created only if its user could use the provider at
\* some moment, going by the grants that have been stored and that no admin has
\* withdrawn: an update of the team that names the provider again does not.
OnlyMembersCreate == \A c \in Caller : cpc[c] = "done" => proper[c]
=============================================================================
