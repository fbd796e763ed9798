----------------------------- MODULE ListPages -----------------------------
(***************************************************************************)
(* The panel's list pages: users, policy rules, marketplace, own keys,       *)
(* providers, teams, documents, knowledge base, fine-tuning jobs and saved   *)
(* requests.                                                                 *)
(* Each keeps the rows of its last load and follows every change by another  *)
(* load; nothing serialises two clicks, so calls and loads of several        *)
(* handlers are under way together and answers arrive in any order.          *)
(*                                                                           *)
(* A row is absent, off or on: a user disabled or active, a rule, an app not *)
(* installed, installed, enabled, a document not indexed or indexed; rows    *)
(* without a flag are on.  A click is one run of an event handler.           *)
(***************************************************************************)
EXTENDS Naturals, Sequences, FiniteSetsExt

CONSTANTS Id, Click, Mount, None
ASSUME ListAssumption == Mount \in Click /\ None \notin Id \cup {"uploading", "creating"}

Pages == {"users", "policy", "marketplace", "connections", "providers", "teams",
          "documents", "knowledge", "finetune", "apiclient"}
Row == {"absent", "off", "on"}
Op == {"create", "on", "off", "delete", "load"}

VARIABLES page,      \* the mounted page
          rows,      \* the API's rows
          shown,     \* the rows of the page's state
          task,      \* what each click has reached
          busy,      \* indexing, creating, uploading
          reads,     \* loads the API has served
          last,      \* the load on the screen
          newest,    \* the latest load that ever was
          owed       \* an effect no load has followed was seen by no load up to this one
listVars == <<page, rows, shown, task, busy, reads, last, newest, owed>>

Nothing == [i \in Id |-> "absent"]
Task == [at : {"idle", "sent", "served", "refused", "asked", "read", "over"}, op : Op,
         ids : Seq(Id), k : Nat, flagged : BOOLEAN, mark : Nat, read : Nat, got : [Id -> Row]]
Idle == [at |-> "idle", op |-> "load", ids |-> <<>>, k |-> 0, flagged |-> FALSE,
         mark |-> 0, read |-> 0, got |-> Nothing]

\* Every page's effect: refresh() on mount.
ListInit ==
  /\ page \in Pages /\ rows \in [Id -> Row] /\ shown = Nothing
  /\ task = [c \in Click |-> IF c = Mount THEN [Idle EXCEPT !.at = "asked"] ELSE Idle]
  /\ busy = None /\ reads = 0 /\ last = 0 /\ newest = 0 /\ owed = 0

-----------------------------------------------------------------------------
(* The handlers *)

\* A handler runs up to its first awaited call, with what it captured.
Calls(c, op, ids, flag) ==
  /\ task[c].at = "idle"
  /\ task' = [task EXCEPT ![c] = [Idle EXCEPT !.at = "sent", !.op = op, !.ids = ids,
                                              !.flagged = flag # busy]]
  /\ busy' = flag
  /\ UNCHANGED <<page, rows, shown, reads, last, newest, owed>>

Negated(i) == IF shown[i] = "on" THEN "off" ELSE "on"
Listed(i) == shown[i] # "absent"
Targeted(i) == \E c \in Click : /\ task[c].at \in {"sent", "served"} /\ task[c].op = "create"
                                /\ \E k \in 1 .. Len(task[c].ids) : task[c].ids[k] = i
Fresh(i) == rows[i] = "absent" /\ ~Targeted(i)

\* Users: the e-mail names the row, as names do for rules and teams; the owner's row has no buttons and is not in Id.
UsersButtons(i) == IF Listed(i) THEN {"toggleActive", "remove"} ELSE {}
UsersCreate(c, i) == page = "users" /\ Calls(c, "create", <<i>>, busy)
UsersToggleActive(c, i) == /\ page = "users" /\ "toggleActive" \in UsersButtons(i)
                           /\ Calls(c, Negated(i), <<i>>, busy)
UsersRemove(c, i) == /\ page = "users" /\ "remove" \in UsersButtons(i)
                     /\ Calls(c, "delete", <<i>>, busy)

PolicyButtons(i) == IF Listed(i) THEN {"toggle", "remove"} ELSE {}
PolicyCreate(c, i) == page = "policy" /\ Calls(c, "create", <<i>>, busy)
PolicyToggle(c, i) == /\ page = "policy" /\ "toggle" \in PolicyButtons(i)
                      /\ Calls(c, Negated(i), <<i>>, busy)
PolicyRemove(c, i) == /\ page = "policy" /\ "remove" \in PolicyButtons(i)
                      /\ Calls(c, "delete", <<i>>, busy)

\* Marketplace, as an administrator sees it (module Dialogs has the configuration).
MarketButtons(i) == IF Listed(i) THEN {"toggle", "uninstall"} ELSE {"quickInstall"}
MarketQuickInstall(c, i) == /\ page = "marketplace" /\ "quickInstall" \in MarketButtons(i)
                            /\ Calls(c, "create", <<i>>, busy)
MarketToggle(c, i) == /\ page = "marketplace" /\ "toggle" \in MarketButtons(i)
                      /\ Calls(c, Negated(i), <<i>>, busy)
MarketUninstall(c, i) == /\ page = "marketplace" /\ "uninstall" \in MarketButtons(i)
                         /\ Calls(c, "delete", <<i>>, busy)

\* Own keys, one per provider type (module Dialogs has the dialog).
ConnectionsSave(c, i) == page = "connections" /\ Calls(c, "create", <<i>>, busy)
ConnectionsDelete(c, i) == page = "connections" /\ Listed(i) /\ Calls(c, "delete", <<i>>, busy)

ProvidersButtons(i) == IF Listed(i) THEN {"remove"} ELSE {}
ProvidersCreate(c, i) == page = "providers" /\ Fresh(i) /\ Calls(c, "create", <<i>>, busy)
ProvidersRemove(c, i) == /\ page = "providers" /\ "remove" \in ProvidersButtons(i)
                         /\ Calls(c, "delete", <<i>>, busy)

TeamsButtons(i) == IF Listed(i) THEN {"delTeam"} ELSE {}
TeamsCreate(c, i) == page = "teams" /\ Calls(c, "create", <<i>>, busy)
TeamsDelete(c, i) == /\ page = "teams" /\ "delTeam" \in TeamsButtons(i)
                     /\ Calls(c, "delete", <<i>>, busy)

\* One POST per chosen file, in order; the first that fails ends the upload.
DocumentsUpload(c, ids) ==
  /\ page = "documents" /\ busy = None /\ ids # <<>>
  /\ \A k \in 1 .. Len(ids) : Fresh(ids[k])
  /\ Calls(c, "create", ids, "uploading")
DocumentsButtons(i) == IF Listed(i) THEN {"del"} ELSE {}
DocumentsDelete(c, i) == /\ page = "documents" /\ "del" \in DocumentsButtons(i)
                         /\ Calls(c, "delete", <<i>>, busy)

\* `indexing` holds one document: the button of any other stays enabled.
KnowledgeButtons(i) == IF shown[i] = "off" /\ busy # i THEN {"indexDoc"} ELSE {}
KnowledgeIndex(c, i) == /\ page = "knowledge" /\ "indexDoc" \in KnowledgeButtons(i)
                        /\ Calls(c, "on", <<i>>, i)

FinetuneCreate(c, i) == /\ page = "finetune" /\ busy = None /\ Fresh(i)
                        /\ Calls(c, "create", <<i>>, "creating")

ApiClientButtons(i) == IF Listed(i) THEN {"del"} ELSE {}
ApiClientSave(c, i) == page = "apiclient" /\ Fresh(i) /\ Calls(c, "create", <<i>>, busy)
ApiClientDelete(c, i) == /\ page = "apiclient" /\ "del" \in ApiClientButtons(i)
                         /\ Calls(c, "delete", <<i>>, busy)

Handler(c) ==
  \/ \E i \in Id :
       \/ UsersCreate(c, i) \/ UsersToggleActive(c, i) \/ UsersRemove(c, i)
       \/ PolicyCreate(c, i) \/ PolicyToggle(c, i) \/ PolicyRemove(c, i)
       \/ MarketQuickInstall(c, i) \/ MarketToggle(c, i) \/ MarketUninstall(c, i)
       \/ ConnectionsSave(c, i) \/ ConnectionsDelete(c, i)
       \/ ProvidersCreate(c, i) \/ ProvidersRemove(c, i)
       \/ TeamsCreate(c, i) \/ TeamsDelete(c, i)
       \/ DocumentsDelete(c, i) \/ KnowledgeIndex(c, i) \/ FinetuneCreate(c, i)
       \/ ApiClientSave(c, i) \/ ApiClientDelete(c, i)
  \/ \E i, j \in Id : DocumentsUpload(c, IF i = j THEN <<i>> ELSE <<i, j>>)
-----------------------------------------------------------------------------
(* The API, the network and the rest of a handler *)

Effect(op) == IF op = "create" THEN "on" ELSE IF op = "delete" THEN "absent" ELSE op

\* 404 for a row that is gone, 409 for a user, rule or team that exists; apps and
\* own keys are stored and deleted idempotently, saved requests deleted so.
Accepts(op, i) == \/ page \in {"marketplace", "connections"} /\ op \in {"create", "delete"}
                  \/ page = "apiclient" /\ op = "delete"
                  \/ (op = "create") <=> (rows[i] = "absent")

Serve(c) ==
  /\ task[c].at = "sent"
  /\ LET i == task[c].ids[task[c].k + 1] IN
       IF Accepts(task[c].op, i)
         THEN /\ rows' = [rows EXCEPT ![i] = Effect(task[c].op)]
              /\ task' = [task EXCEPT ![c].at = "served", ![c].k = @ + 1,
                                      ![c].mark = reads]
         ELSE task' = [task EXCEPT ![c].at = "refused"] /\ UNCHANGED rows
  /\ UNCHANGED <<page, shown, busy, reads, last, newest, owed>>

\* The call never arrives, or its answer does not.
Lost(c) == /\ task[c].at \in {"sent", "served"}
           /\ task' = [task EXCEPT ![c].at = "refused"]
           /\ UNCHANGED <<page, rows, shown, busy, reads, last, newest, owed>>

\* Mutant: the handler of a change ends without refresh().
CallDoneNoRefresh(c) == /\ task[c].at = "served"
                        /\ task' = [task EXCEPT ![c].at = "over"]
                        /\ UNCHANGED <<page, rows, shown, busy, reads, last, newest, owed>>

\* The next file of an upload, or refresh().
CallDone(c) == /\ task[c].at = "served"
               /\ task' = [task EXCEPT ![c].at = IF task[c].k = Len(task[c].ids)
                                                    THEN "asked" ELSE "sent"]
               /\ UNCHANGED <<page, rows, shown, busy, reads, last, newest, owed>>

\* What was indexed is kept, for OneAtATime.
TaskOver(c) == [Idle EXCEPT !.at = "over", !.ids = IF page = "knowledge" THEN task[c].ids ELSE <<>>]

\* Mutant: the flag is cleared by every handler of the page.
HandlerOverAll(c) == task' = [task EXCEPT ![c] = TaskOver(c)] /\ busy' = None

\* The handler ends; its finally block clears the flag it set.
HandlerOver(c) == /\ task' = [task EXCEPT ![c] = TaskOver(c)]
                  /\ busy' = IF task[c].flagged THEN None ELSE busy

\* A rejected call or load: the rest of the handler, refresh() included, is skipped.
Rejected(c) == /\ task[c].at \in {"refused", "asked", "read"}
               /\ HandlerOver(c) /\ owed' = Max({owed, task[c].mark})
               /\ UNCHANGED <<page, rows, shown, reads, last, newest>>

Read(c) == /\ task[c].at = "asked"
           /\ reads' = reads + 1
           /\ task' = [task EXCEPT ![c].at = "read", ![c].read = reads + 1, ![c].got = rows]
           /\ UNCHANGED <<page, rows, shown, busy, last, newest, owed>>

\* setUsers, setRules, setApps, setProviders, setTeams, setDocs, setJobs, setSaved.
Show(c) == /\ task[c].at = "read"
           /\ shown' = task[c].got /\ last' = task[c].read
           /\ newest' = Max({newest, task[c].read})
           /\ HandlerOver(c) /\ UNCHANGED <<page, rows, reads, owed>>

ListNext == \E c \in Click : \/ Handler(c) \/ Serve(c) \/ Lost(c) \/ CallDone(c)
                             \/ Rejected(c) \/ Read(c) \/ Show(c)

ListSpec == ListInit /\ [][ListNext]_listVars

-----------------------------------------------------------------------------
(* Properties *)

Settled == \A c \in Click : task[c].at \in {"idle", "over"}

\* Whatever was clicked together and in whatever order it was served, the list on
\* a page at rest is the API's, unless a later load was shown before an earlier
\* one, or a change took effect and its answer or the load after it failed.
ListsSettle == Settled => \/ last < newest \/ last <= owed \/ shown = rows

Busy(c) == task[c].flagged /\ task[c].at \notin {"idle", "over"}

\* A flagged handler (an upload, a fine-tuning job) never runs twice at once, and
\* a document is not indexed twice at once unless another one is, or was, being
\* indexed besides it.
OneAtATime ==
  \A c, d \in Click : c # d /\ Busy(c) /\ Busy(d) =>
     page = "knowledge" /\ \E e \in Click : task[e].ids \notin {<<>>, task[c].ids}
=============================================================================
