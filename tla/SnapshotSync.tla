---------------------------- MODULE SnapshotSync ----------------------------
(***************************************************************************)
(* How configuration reaches the gateway: store.LoadSnapshot reads nine        *)
(* tables one query after the other, outside any transaction, while the API    *)
(* keeps writing them; main loads once before serving and runSync reloads on   *)
(* a ticker; state.Store swaps the finished snapshot in atomically.  A table's *)
(* content is its version, the number of writes it has seen.                   *)
(***************************************************************************)
EXTENDS Integers, Sequences

CONSTANTS MaxWrites,   \* bound: transactions of the API
          MaxOutages   \* bound: times the database becomes unreachable

ASSUME SyncAssumption == MaxWrites \in Nat /\ MaxOutages \in Nat

\* The queries of LoadSnapshot, in order.
Order == <<"user_own_keys", "teams", "team_members", "app_settings",
           "llm_providers", "user_provider_tokens", "users", "policy_rules",
           "gateway_keys">>
Table == {Order[k] : k \in 1 .. Len(Order)}

\* loadUserOwnKeys, loadTeams and loadSettings swallow every error; the other
\* queries make LoadSnapshot return it.
Soft == {"user_own_keys", "teams", "team_members", "app_settings"}

Missing == -1   \* the empty map of emptySnapshot, or of a swallowed error

VARIABLES db,        \* version of each table
          writes,    \* transactions of the API so far
          up,        \* the database answers
          outages,
          snap,      \* state.Store's current snapshot
          pos,       \* LoadSnapshot: queries done, 0 when no load is running
          draft,     \* the snapshot under construction
          begun,     \* history: db when the running or last load started
          serving    \* main has started the server

vars == <<db, writes, up, outages, snap, pos, draft, begun, serving>>
load == <<snap, pos, draft, begun, serving>>

Empty == [t \in Table |-> Missing]

TypeOK ==
  /\ db \in [Table -> Nat] /\ writes \in 0 .. MaxWrites
  /\ up \in BOOLEAN /\ outages \in 0 .. MaxOutages
  /\ snap \in [Table -> Int] /\ draft \in [Table -> Int]
  /\ pos \in 0 .. Len(Order) + 1
  /\ begun \in [Table -> Nat] /\ serving \in BOOLEAN

Init ==
  /\ db = [t \in Table |-> 0] /\ writes = 0
  /\ up = TRUE /\ outages = 0           \* store.Open has pinged the database
  /\ snap = Empty /\ draft = Empty      \* state.New
  /\ pos = 0 /\ begun = db /\ serving = FALSE

-----------------------------------------------------------------------------
(* The API's writes, each one statement and so one transaction; deletes      *)
(* cascade along the foreign keys of the migrations.                         *)

SaveTeam == {"teams"}
SetMember == {"team_members"}
DeleteTeam == {"teams", "team_members"}
SaveUser == {"users"}
DeleteUser == {"users", "team_members", "user_own_keys", "user_provider_tokens",
               "gateway_keys"}
SaveProvider == {"llm_providers"}
DeleteProvider == {"llm_providers", "user_provider_tokens"}
SaveToken == {"user_provider_tokens"}
SaveOwnKey == {"user_own_keys"}
SaveRule == {"policy_rules"}
SaveSetting == {"app_settings"}

Writes == {SaveTeam, SetMember, DeleteTeam, SaveUser, DeleteUser, SaveProvider,
           DeleteProvider, SaveToken, SaveOwnKey, SaveRule, SaveSetting}

Commit(ts) ==
  /\ writes < MaxWrites /\ writes' = writes + 1
  /\ db' = [t \in Table |-> IF t \in ts THEN db[t] + 1 ELSE db[t]]
  /\ UNCHANGED <<up, outages, load>>

\* The gateway loses and regains its connection to the database.
GoDown == /\ up /\ outages < MaxOutages
          /\ up' = FALSE /\ outages' = outages + 1
          /\ UNCHANGED <<db, writes, load>>
ComeUp == ~up /\ up' = TRUE /\ UNCHANGED <<db, writes, outages, load>>

-----------------------------------------------------------------------------
(* LoadSnapshot, called by main and then by runSync *)

\* Mutant: a tick reloads only when the providers changed.
StartLoadLazy ==
  /\ pos = 0
  /\ IF serving /\ snap["llm_providers"] = db["llm_providers"]
       THEN UNCHANGED <<pos, draft, begun>>
       ELSE pos' = 1 /\ draft' = Empty /\ begun' = db
  /\ UNCHANGED <<db, writes, up, outages, snap, serving>>

StartLoad == /\ pos = 0
             /\ pos' = 1 /\ draft' = Empty /\ begun' = db
             /\ UNCHANGED <<db, writes, up, outages, snap, serving>>

\* Mutant: a table that the previous snapshot already holds is not read again.
ReadCached ==
  /\ pos \in 1 .. Len(Order) /\ up
  /\ LET t == Order[pos] IN
       draft' = [draft EXCEPT ![t] = IF t \in Soft /\ snap[t] # Missing THEN snap[t] ELSE db[t]]
  /\ pos' = pos + 1
  /\ UNCHANGED <<db, writes, up, outages, snap, begun, serving>>

Read == /\ pos \in 1 .. Len(Order) /\ up
        /\ draft' = [draft EXCEPT ![Order[pos]] = db[Order[pos]]]
        /\ pos' = pos + 1
        /\ UNCHANGED <<db, writes, up, outages, snap, begun, serving>>

\* A swallowed error leaves the table empty, or cut short where it broke off,
\* which counts as lost too.  loadTeams returns when the query of teams fails,
\* without that of team_members, but goes on to it when the rows break off.
ReadSoftFails ==
  /\ pos \in 1 .. Len(Order) /\ ~up /\ Order[pos] \in Soft
  /\ \/ pos' = pos + 1
     \/ Order[pos] = "teams" /\ pos' = pos + 2
  /\ UNCHANGED <<db, writes, up, outages, snap, draft, begun, serving>>

\* Mutant: the sync loop installs what LoadSnapshot had read before the error.
ReadHardInstalls ==
  /\ pos \in 1 .. Len(Order) /\ ~up /\ Order[pos] \notin Soft
  /\ snap' = draft /\ pos' = 0 /\ serving' = TRUE
  /\ UNCHANGED <<db, writes, up, outages, draft, begun>>

\* Any other error: the previous snapshot stays; main starts empty.
ReadHardFails ==
  /\ pos \in 1 .. Len(Order) /\ ~up /\ Order[pos] \notin Soft
  /\ pos' = 0 /\ serving' = TRUE
  /\ UNCHANGED <<db, writes, up, outages, snap, draft, begun>>

\* state.Store.Replace.
Replace == /\ pos = Len(Order) + 1
           /\ snap' = draft /\ pos' = 0 /\ serving' = TRUE
           /\ UNCHANGED <<db, writes, up, outages, draft, begun>>

Loader == StartLoad \/ Read \/ ReadSoftFails \/ ReadHardFails \/ Replace

Next == \/ \E ts \in Writes : Commit(ts)
        \/ GoDown \/ ComeUp
        \/ Loader

\* The ticker keeps firing and queries return; the database comes back.
Fairness == WF_vars(Loader) /\ WF_vars(ComeUp)
Spec == Init /\ [][Next]_vars
FairSpec == Spec /\ Fairness

-----------------------------------------------------------------------------
(* Properties *)

\* A finished load is regular: every table that LoadSnapshot did not lose to a
\* swallowed error is no older than the database was when the load began (a
\* change committed before the tick is in force after it) and is a version the
\* table really had.
LoadRegular ==
  \A t \in Table : /\ snap[t] <= db[t]
                   /\ pos = Len(Order) + 1 /\ draft[t] # Missing => draft[t] >= begun[t]

\* What Replace swaps in never takes a strictly checked table (providers,
\* tokens, limits, rules, blocklist) back to an earlier version: a failed load
\* keeps the previous snapshot, and loads do not overlap.
NeverRegresses == [][\A t \in Table \ Soft : snap'[t] >= snap[t]]_snap

\* Once the API stops writing and the database stays up, the gateway's snapshot
\* becomes and stays the database: failed and partial loads are made good by
\* the next tick.
Converges == <>[](snap = db)

\* gateway/README.md: "If the DB is unreachable, the previous snapshot keeps
\* serving".  No reload may replace a table's content by nothing.
KeepsPrevious == [][\A t \in Table : snap[t] # Missing => snap'[t] # Missing]_snap
=============================================================================
