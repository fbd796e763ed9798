------------------------------ MODULE Accounts ------------------------------
(***************************************************************************)
(* Start-up and user management of the API.  Several processes (the container  *)
(* runs migrate_cli and then the server, whose lifespan does the same again)   *)
(* migrate and seed the owner side by side, crash and are restarted.  A        *)
(* serving API takes requests of admins: get_current_user, then a query for    *)
(* the target's role, then the write, each a transaction of its own.           *)
(***************************************************************************)
EXTENDS Naturals, Sequences, FiniteSets

CONSTANTS Process,
          LastFile,    \* migrations are 1 .. LastFile, in lexical order
          Person,      \* ids of accounts other than the seeded one, each drawn once
          Request,     \* concurrent requests
          MaxCrashes   \* bound: crashes of processes

ASSUME AccountAssumption == LastFile \in Nat /\ MaxCrashes \in Nat /\ "owner" \notin Person

VARIABLES boot,       \* where a process is: label, files it knows as applied, its file
          migrated,   \* bodies of migrations committed, with their rows of schema_migrations
          account,    \* rows of users
          claim,      \* the role in the latest token a person holds, or "none"
          req,
          crashes,
          entitled    \* history: requests whose actor was an active admin at some moment of theirs

startVars == <<boot, migrated, crashes>>
accountVars == <<account, claim, req, entitled>>
allVars == <<startVars, accountVars>>

Owner == "owner"               \* the account of OWNER_EMAIL
Id == Person \cup {Owner}
Unborn == [role |-> "none", active |-> TRUE]     \* not created yet
Gone == [role |-> "none", active |-> FALSE]
Row(role, active) == [role |-> role, active |-> active]
Exists(u) == account[u].role # "none"
Admins == {u \in Id : account[u].active /\ account[u].role \in {"owner", "admin"}}
Served == \E p \in Process : boot[p].at = "serving"
NoReq == [at |-> "none"]
Boot(l) == [at |-> l, known |-> {}, file |-> 1]
Down == Boot("down")

AccountTypeOK ==
  /\ boot \in [Process -> [at : {"down", "list", "next", "commit", "check", "seed", "serving"},
                           known : SUBSET (1 .. LastFile), file : 1 .. LastFile + 1]]
  /\ account \in [Id -> [role : {"none", "owner", "admin", "user"}, active : BOOLEAN]]
  /\ \A u \in Person : account[u].role # "owner"
  /\ claim \in [Id -> {"none", "owner", "admin", "user"}]
  /\ entitled \subseteq Request /\ crashes \in 0 .. MaxCrashes

AccountInit ==
  /\ boot = [p \in Process |-> Down] /\ migrated = <<>> /\ crashes = 0
  /\ account = [u \in Id |-> Unborn] /\ claim = [u \in Id |-> "none"]
  /\ req = [r \in Request |-> NoReq] /\ entitled = {}

-----------------------------------------------------------------------------
(* run_migrations and seed_owner *)

\* lifespan or migrate_cli: CREATE TABLE IF NOT EXISTS schema_migrations.
Start(p) ==
  /\ boot[p].at = "down" /\ boot' = [boot EXCEPT ![p].at = "list"]
  /\ UNCHANGED <<migrated, crashes, accountVars>>

List(p) ==
  /\ boot[p].at = "list"
  /\ boot' = [boot EXCEPT ![p] = [at |-> "next", file |-> 1,
                                  known |-> {migrated[i] : i \in 1 .. Len(migrated)}]]
  /\ UNCHANGED <<migrated, crashes, accountVars>>

\* The next file: skipped if known, otherwise a transaction begins with its body.
NextFile(p) ==
  LET f == boot[p].file IN
  /\ boot[p].at = "next"
  /\ boot' = IF f > LastFile THEN [boot EXCEPT ![p].at = "check"]
             ELSE IF f \in boot[p].known THEN [boot EXCEPT ![p].file = f + 1]
             ELSE [boot EXCEPT ![p].at = "commit"]
  /\ UNCHANGED <<migrated, crashes, accountVars>>

\* Mutant: the file is recorded without its primary key.
DuplicateIgnored(f) == FALSE

Duplicate(f) == \E i \in 1 .. Len(migrated) : migrated[i] = f

\* The INSERT into schema_migrations ends the transaction: body and row become
\* visible together, or another process was first, the primary key is violated,
\* the body is rolled back and the start-up fails.
CommitFile(p) ==
  LET f == boot[p].file IN
  /\ boot[p].at = "commit"
  /\ IF Duplicate(f)
       THEN boot' = [boot EXCEPT ![p] = Down] /\ UNCHANGED migrated
       ELSE /\ migrated' = Append(migrated, f)
            /\ boot' = [boot EXCEPT ![p].at = "next", ![p].file = f + 1]
  /\ UNCHANGED <<crashes, accountVars>>

SeedCheck(p) ==
  /\ boot[p].at = "check"
  /\ boot' = [boot EXCEPT ![p] = Boot(IF \E u \in Id : account[u].role = "owner" THEN "serving" ELSE "seed")]
  /\ UNCHANGED <<migrated, crashes, accountVars>>

\* INSERT ... ON CONFLICT (email) DO NOTHING.
SeedInsert(p) ==
  /\ boot[p].at = "seed" /\ boot' = [boot EXCEPT ![p] = Boot("serving")]
  /\ account' = IF Exists(Owner) THEN account ELSE [account EXCEPT ![Owner] = Row("owner", TRUE)]
  /\ UNCHANGED <<migrated, crashes, claim, req, entitled>>

\* The process dies (a transaction it had open is rolled back) and the container
\* is restarted; requests fail on their own (Fail).
Crash(p) ==
  /\ boot[p].at # "down" /\ crashes < MaxCrashes
  /\ crashes' = crashes + 1 /\ boot' = [boot EXCEPT ![p] = Down]
  /\ UNCHANGED <<migrated, accountVars>>

-----------------------------------------------------------------------------
(* auth.py *)

\* login and refresh read the row and put its role into the token they issue.
Login(u) ==
  /\ Served /\ Exists(u) /\ account[u].active /\ claim' = [claim EXCEPT ![u] = account[u].role]
  /\ UNCHANGED <<startVars, account, req, entitled>>

-----------------------------------------------------------------------------
(* deps.py and users.py *)

\* Whoever is an active admin now is entitled to the requests he has under way.
Track(newAccount, newReq) ==
  LET admins == {u \in Id : newAccount[u].active /\ newAccount[u].role \in {"owner", "admin"}}
  IN entitled' = {r \in Request : /\ newReq[r] # NoReq
                                  /\ \/ newReq[r].actor \in admins
                                     \/ r \in entitled /\ req[r] # NoReq}

moves(r, l) == req' = [req EXCEPT ![r].at = l] /\ UNCHANGED account
leaves(r) == req' = [req EXCEPT ![r] = NoReq] /\ UNCHANGED account
writes(r, u, row) == req' = [req EXCEPT ![r] = NoReq] /\ account' = [account EXCEPT ![u] = row]

\* A request to create, change or delete target, with an access token.
Ask(r, u, op, target) ==
  /\ req[r] = NoReq /\ Served /\ claim[u] # "none" /\ (op = "create" => target \in Person)
  /\ req' = [req EXCEPT ![r] = [at |-> "auth", actor |-> u, op |-> op, target |-> target]]
  /\ UNCHANGED account

\* Mutant: the role in the token is trusted.
RoleOfClaim(u) == claim[u]

\* What get_current_user finds: the role in the row, none for a missing or
\* inactive user.
RoleOf(u) == IF account[u].active THEN account[u].role ELSE "none"

\* require_admin.
Authorize(r) ==
  /\ req[r].at = "auth"
  /\ IF RoleOf(req[r].actor) \in {"owner", "admin"}
       THEN moves(r, IF req[r].op = "create" THEN "write" ELSE "target")
       ELSE leaves(r)

\* Mutant: nothing protects the owner.
ProtectedNever(r) == req[r].op = "delete" /\ req[r].target = req[r].actor

Protected(r) == \/ account[req[r].target].role = "owner"
                \/ req[r].op = "delete" /\ req[r].target = req[r].actor

Target(r) ==
  /\ req[r].at = "target"
  /\ IF Exists(req[r].target) /\ ~Protected(r) THEN moves(r, "write") ELSE leaves(r)

\* update_user: any of role and is_active; a target deleted meanwhile raises.
UpdateUser(r, role, active) ==
  /\ req[r].at = "write" /\ req[r].op = "update"
  /\ IF Exists(req[r].target) THEN writes(r, req[r].target, Row(role, active)) ELSE leaves(r)

DeleteUser(r) ==
  /\ req[r].at = "write" /\ req[r].op = "delete" /\ writes(r, req[r].target, Gone)

\* create_user: the schema admits the roles admin and user; a new id every time.
CreateUser(r, role) ==
  /\ req[r].at = "write" /\ req[r].op = "create"
  /\ IF account[req[r].target] = Unborn THEN writes(r, req[r].target, Row(role, TRUE)) ELSE leaves(r)

\* A statement fails, or the process dies.
Fail(r) == req[r] # NoReq /\ leaves(r)

Manage(r) ==
  /\ \/ \E u \in Id, op \in {"create", "update", "delete"}, t \in Id : Ask(r, u, op, t)
     \/ Authorize(r) \/ Target(r) \/ DeleteUser(r) \/ Fail(r)
     \/ \E role \in {"admin", "user"} : CreateUser(r, role) \/ \E a \in BOOLEAN : UpdateUser(r, role, a)
  /\ Track(account', req') /\ UNCHANGED <<startVars, claim>>

AccountNext ==
  \/ \E p \in Process : \/ Start(p) \/ List(p) \/ NextFile(p) \/ CommitFile(p)
                        \/ SeedCheck(p) \/ SeedInsert(p) \/ Crash(p)
  \/ \E u \in Id : Login(u)
  \/ \E r \in Request : Manage(r)
AccountSpec == AccountInit /\ [][AccountNext]_allVars

-----------------------------------------------------------------------------
(* Properties *)

\* Every migration takes effect exactly once and in order, whichever processes
\* run it at the same time and wherever they crash (run_migrations: "re-runs are
\* no-ops").
MigratedOnce == \A i \in 1 .. Len(migrated) : migrated[i] = i

\* A process that serves has found or finished every migration and the owner, and
\* from then on there is exactly one owner, active, whatever concurrent admins
\* change: the organisation is never locked out (lifespan, seed_owner, the guards
\* of update_user and delete_user).
OwnerStays ==
  /\ \A p \in Process : boot[p].at = "serving" => Len(migrated) = LastFile /\ Exists(Owner)
  /\ Exists(Owner) => account[Owner] = Row("owner", TRUE)
                      /\ \A u \in Person : account[u].role # "owner"

\* Both: starting and crashing processes leave one schema and one owner.
StartSound == MigratedOnce /\ OwnerStays

\* A request is only about to write if its actor was an active admin at some
\* moment since it came in: the token of someone demoted, disabled or deleted
\* before that gives no rights any more (get_current_user, require_admin).
WriterEntitled == \A r \in Request : req[r].at \in {"target", "write"} => r \in entitled
=============================================================================
