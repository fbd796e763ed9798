------------------------------ MODULE Viewers ------------------------------
(***************************************************************************)
(* The panel's master/detail pages: a heading names what was chosen (a       *)
(* conversation, team, channel, project, directory, filter, period, issue or *)
(* question) and the detail below it is what some request answered.  Nothing *)
(* cancels a request: whatever answer arrives last is what is shown.         *)
(*                                                                           *)
(* A handler goes on after an await with the values of the render it was     *)
(* clicked in (`sel`), not with those on the screen by then.                 *)
(***************************************************************************)
EXTENDS Naturals, FiniteSetsExt

CONSTANTS Item, VClick, Nil
ASSUME ViewerAssumption == Nil \notin Item \cup VClick

Views == {"conversations", "teams", "slack", "sentry", "analysis", "github", "alerts",
          "dashboard", "ask", "apiclient"}
Clears == {"slack", "sentry"}                   \* setMsgs([]), setIssues([]) on failure
Blanks == {"analysis", "ask"}                   \* setResult(null), setAnswer("") at the start

VARIABLES view,      \* the mounted page
          title,     \* activeId, selected, active, repo/path, onlyOpen, days, ...
          body,      \* what the detail shown belongs to
          aside,     \* what a second detail belongs to: file, explanation
          req,       \* what each click has reached
          sent,      \* requests for a detail so far
          asked,     \* what the latest of them asked for
          lastShown, newestShown, missed,
          late       \* history: the second detail came after the heading had changed, or
                     \* was clicked below a heading that was ahead of its list
viewVars == <<view, title, body, aside, req, sent, asked, lastShown, newestShown,
              missed, late>>

Unclicked == [at |-> "idle", item |-> Nil, sel |-> Nil, n |-> 0]

\* A request for the detail of k, clicked below heading t.
Get(k, t, n) == [at |-> "get", item |-> k, sel |-> t, n |-> n]

\* onlyOpen and days have a value, and load, on mount.
ViewInit ==
  /\ view \in Views
  /\ IF view \in {"alerts", "dashboard"}
       THEN /\ title \in Item /\ sent = 1
            /\ \E m \in VClick : req = [c \in VClick |-> IF c = m THEN Get(title, title, 1)
                                                              ELSE Unclicked]
       ELSE title = Nil /\ sent = 0 /\ req = [c \in VClick |-> Unclicked]
  /\ body = Nil /\ aside = Nil /\ asked = title
  /\ lastShown = 0 /\ newestShown = 0 /\ missed = 0 /\ late = FALSE

-----------------------------------------------------------------------------
(* Handlers, up to their first await *)

\* setActive(k), then the GET for its detail.
Opens(c, k) ==
  /\ req' = [req EXCEPT ![c] = Get(k, title, sent + 1)]
  /\ sent' = sent + 1 /\ asked' = k

Chooses(c, k) == /\ req[c].at = "idle" /\ Opens(c, k) /\ title' = k
                 /\ UNCHANGED <<view, lastShown, newestShown, missed, late>>

\* A change first; what follows depends on the handler.
Posts(c, at, k) == /\ req[c].at = "idle" /\ title # Nil
                   /\ req' = [req EXCEPT ![c] = [Unclicked EXCEPT !.at = at, !.item = k,
                                                                  !.sel = title]]
                   /\ UNCHANGED <<view, title, body, aside, sent, asked, lastShown,
                                  newestShown, missed, late>>

\* A click on a row, or the list's answer when an alert's link named one (convId).
ConversationsOpen(c, k) == view = "conversations" /\ Chooses(c, k) /\ UNCHANGED <<body, aside>>

TeamsOpen(c, k) == view = "teams" /\ Chooses(c, k) /\ UNCHANGED <<body, aside>>
TeamsMember(c) == view = "teams" /\ Posts(c, "reopens", Nil)      \* addMember, removeMember
TeamsDelTeam(c, k) == view = "teams" /\ Posts(c, "closes", k)
TeamsClose == /\ view = "teams" /\ title # Nil /\ title' = Nil
              /\ UNCHANGED <<view, body, aside, req, sent, asked, lastShown, newestShown, missed, late>>

SlackOpenChannel(c, k) == view = "slack" /\ Chooses(c, k) /\ UNCHANGED <<body, aside>>
SlackSend(c) == view = "slack" /\ Posts(c, "reopens", Nil)
SlackUnfollow(c, k) == view = "slack" /\ Posts(c, "closes", k)

SentryOpenProject(c, k) == view = "sentry" /\ Chooses(c, k) /\ UNCHANGED <<body, aside>>
\* Enter in the link field is not held back by `analyzing`.
SentryExplain(c, k) == /\ view = "analysis" /\ Chooses(c, k)
                       /\ body' = Nil /\ UNCHANGED aside
SentryClose == /\ view = "analysis" /\ body # Nil /\ title' = Nil /\ body' = Nil
               /\ UNCHANGED <<view, aside, req, sent, asked, lastShown, newestShown, missed, late>>

\* A directory, from the list, a row or the link to its parent; the file is closed.
GithubOpenRepo(c, k) == view = "github" /\ Chooses(c, k) /\ aside' = Nil /\ UNCHANGED body
\* The list on the screen is the latest that was asked for: none is loading, none
\* arrived out of order, none has failed since.
UpToDate == /\ \A c \in VClick : req[c].at # "get"
            /\ lastShown = newestShown /\ missed <= lastShown
\* A file of the directory whose entries are listed, be it the heading's or, while the
\* list of a new heading loads or after it failed, an earlier one's.
GithubOpenFile(c) ==
  /\ view = "github" /\ aside = Nil /\ req[c].at = "idle" /\ title # Nil /\ body # Nil
  /\ req' = [req EXCEPT ![c] = [Unclicked EXCEPT !.at = "aside", !.item = IF UpToDate THEN title ELSE Nil,
                                                 !.sel = body]]
  /\ UNCHANGED <<view, title, body, aside, sent, asked, lastShown, newestShown, missed, late>>
GithubCloseFile == /\ view = "github" /\ aside # Nil /\ aside' = Nil
                   /\ UNCHANGED <<view, title, body, req, sent, asked, lastShown, newestShown,
                                  missed, late>>

AlertsFilter(c, k) == /\ view = "alerts" /\ k # title /\ Chooses(c, k)
                      /\ UNCHANGED <<body, aside>>
AlertsResolve(c) == view = "alerts" /\ Posts(c, "reloads", Nil)

\* The four metrics of a period, as one Promise.all.
DashboardDays(c, k) == /\ view = "dashboard" /\ k # title /\ Chooses(c, k)
                       /\ UNCHANGED <<body, aside>>

\* The button is disabled, and Enter ignored, while `asking`.
KnowledgeAsk(c, k) == /\ view = "ask" /\ \A d \in VClick : req[d].at # "get"
                      /\ Chooses(c, k) /\ body' = Nil /\ UNCHANGED aside

\* The API client: the response is the detail, its explanation the second one.
ApiClientSend(c) ==
  /\ view = "apiclient" /\ \A d \in VClick : req[d].at # "get"
  /\ req[c].at = "idle" /\ Opens(c, c)
  /\ title' = Nil /\ body' = Nil /\ aside' = Nil
  /\ UNCHANGED <<view, lastShown, newestShown, missed, late>>
ApiClientLoad == /\ view = "apiclient" /\ title # Nil
                 /\ title' = Nil /\ body' = Nil /\ aside' = Nil
                 /\ UNCHANGED <<view, req, sent, asked, lastShown, newestShown, missed, late>>
ApiClientExplain(c) ==
  /\ view = "apiclient" /\ req[c].at = "idle" /\ title # Nil
  /\ \A d \in VClick : req[d].at # "aside"
  /\ req' = [req EXCEPT ![c] = [Unclicked EXCEPT !.at = "aside", !.item = title, !.sel = title]]
  /\ aside' = Nil
  /\ UNCHANGED <<view, title, body, sent, asked, lastShown, newestShown, missed, late>>

Clicked(c) ==
  \/ \E k \in Item :
       \/ ConversationsOpen(c, k) \/ TeamsOpen(c, k) \/ TeamsDelTeam(c, k)
       \/ SlackOpenChannel(c, k) \/ SlackUnfollow(c, k) \/ SentryOpenProject(c, k)
       \/ SentryExplain(c, k) \/ GithubOpenRepo(c, k) \/ AlertsFilter(c, k)
       \/ DashboardDays(c, k) \/ KnowledgeAsk(c, k)
  \/ TeamsMember(c) \/ SlackSend(c) \/ GithubOpenFile(c) \/ AlertsResolve(c)
  \/ ApiClientSend(c) \/ ApiClientExplain(c)

-----------------------------------------------------------------------------
(* Handlers, after their await *)

Ends(c) == req' = [req EXCEPT ![c] = [Unclicked EXCEPT !.at = "over"]]

\* setMessages, setMembers, setMsgs, setIssues, setResult, setEntries, setAlerts,
\* the dashboard's four setters, setAnswer, setResp.
DetailArrives(c) ==
  /\ req[c].at = "get" /\ Ends(c)
  /\ body' = req[c].item
  /\ title' = IF view = "apiclient" THEN req[c].item ELSE title
  /\ lastShown' = req[c].n /\ newestShown' = Max({newestShown, req[c].n})
  /\ UNCHANGED <<view, aside, sent, asked, missed, late>>

\* Mutant: a failed load of a channel or project leaves the old detail on screen.
DetailFailsKeeping(c) ==
  /\ req[c].at = "get" /\ Ends(c)
  /\ missed' = Max({missed, req[c].n}) /\ lastShown' = req[c].n
  /\ newestShown' = Max({newestShown, req[c].n})
  /\ UNCHANGED <<view, title, body, aside, sent, asked, late>>

\* The detail stays as it was, except on the pages that clear it.
DetailFails(c) ==
  /\ req[c].at = "get" /\ Ends(c)
  /\ missed' = Max({missed, req[c].n})
  /\ IF view \in Clears
       THEN /\ body' = Nil /\ lastShown' = req[c].n
            /\ newestShown' = Max({newestShown, req[c].n})
       ELSE UNCHANGED <<body, lastShown, newestShown>>
  /\ UNCHANGED <<view, title, aside, sent, asked, late>>

\* openTeam(selected), openChannel(active).
Reopens(c) == /\ req[c].at = "reopens" /\ Opens(c, req[c].sel) /\ title' = req[c].sel
              /\ UNCHANGED <<view, body, aside, lastShown, newestShown, missed, late>>

\* refresh() with the filter of the render the click was in.
Reloads(c) == /\ req[c].at = "reloads" /\ Opens(c, req[c].sel)
              /\ UNCHANGED <<view, title, body, aside, lastShown, newestShown, missed, late>>

\* if (selected?.id === t.id) setSelected(null), with the selection of that render.
Closes(c) == /\ req[c].at = "closes" /\ Ends(c)
             /\ title' = IF req[c].sel = req[c].item THEN Nil ELSE title
             /\ UNCHANGED <<view, body, aside, sent, asked, lastShown, newestShown, missed, late>>

\* setFile, setExplanation, whatever the heading is by now.
AsideArrives(c) == /\ req[c].at = "aside" /\ Ends(c) /\ aside' = req[c].sel
                   /\ late' = ~(title # Nil /\ req[c].item = title)
                   /\ UNCHANGED <<view, title, body, sent, asked, lastShown, newestShown, missed>>

PostFails(c) == /\ req[c].at \in {"reopens", "reloads", "closes", "aside"} /\ Ends(c)
                /\ UNCHANGED <<view, title, body, aside, sent, asked, lastShown, newestShown,
                               missed, late>>

Resumed(c) == \/ DetailArrives(c) \/ DetailFails(c) \/ Reopens(c) \/ Reloads(c) \/ Closes(c)
              \/ AsideArrives(c) \/ PostFails(c)

ViewNext == \/ \E c \in VClick : Clicked(c) \/ Resumed(c)
            \/ TeamsClose \/ SentryClose \/ GithubCloseFile \/ ApiClientLoad

ViewSpec == ViewInit /\ [][ViewNext]_viewVars

-----------------------------------------------------------------------------
(* Properties *)

\* The request sent last is always for what the heading says; only the list of
\* alerts is reloaded by the filter of an earlier render.
AsksForTitle == title # Nil /\ view # "alerts" => asked = title

\* Once every call is answered, the detail below the heading is the heading's own,
\* unless an answer was overtaken by a later request's or the latest request
\* failed: then a channel or a project shows nothing rather than another's.
DetailBelongs ==
  /\ title # Nil /\ asked = title /\ lastShown = newestShown
  /\ \A c \in VClick : req[c].at \in {"idle", "over"}
  => \/ body = title
     \/ missed > lastShown
     \/ view \in Clears /\ missed = lastShown /\ body = Nil

\* A file or an explanation on the screen is of the directory or response in the
\* heading, unless it was still being fetched when that changed, or the file was
\* clicked in a list that had not settled: openRepo sets the heading and leaves the
\* entries of the directory before until the new ones arrive, if they do.
AsideBelongs == aside # Nil /\ ~late => aside = title

\* What the detail pages show is what their headings say.
ViewsAgree == AsksForTitle /\ DetailBelongs /\ AsideBelongs
=============================================================================
