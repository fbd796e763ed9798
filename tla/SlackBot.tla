------------------------------ MODULE SlackBot ------------------------------
(***************************************************************************)
(* The Slack bot (slack.py) and the configuration it runs on (marketplace.py,  *)
(* integrations.py).  Slack delivers a mention again until it is acknowledged  *)
(* in time; slack_events claims it with an INSERT that ignores conflicts and   *)
(* answers in a background task.  Admins install, reconfigure, disable and     *)
(* remove the integration meanwhile.  The answer itself is quick_complete,     *)
(* which always returns some text; the policy is the gateway's.                *)
(***************************************************************************)
EXTENDS Naturals, FiniteSets

CONSTANTS Mention,     \* app_mention events, by event_id
          Delivery,    \* deliveries by Slack, each of one mention
          Admin,
          MaxInstalls  \* bound: configurations submitted

ASSUME BotAssumption == MaxInstalls \in Nat

VARIABLES installed,  \* the row of installed_integrations, or NoRow
          standing,   \* of the admins: active, disabled or deleted
          seen,       \* slack_events_seen
          work,       \* what a delivery, and then its task, does next
          acked,      \* mentions Slack got its 200 for, in time
          replies,    \* messages posted
          form,       \* the install request of an admin, with what it read
          submitted,  \* configurations submitted so far; the next value of a field
          handled,    \* history: mentions whose task came to its end
          lost,       \* history: mentions whose claimer failed
          wanted,     \* history: the last value submitted for each field
          clash       \* history: an install had read before another change

slackVars == <<seen, work, acked, replies, handled, lost>>
marketVars == <<installed, standing, form, submitted, wanted, clash>>
botVars == <<slackVars, marketVars>>

NoRow == [enabled |-> FALSE, token |-> 0, secret |-> 0, by |-> "null"]
Fresh == [at |-> "none"]
NoForm == [at |-> "none"]

BotTypeOK ==
  /\ installed \in [enabled : BOOLEAN, token : 0 .. MaxInstalls, secret : 0 .. MaxInstalls,
                    by : Admin \cup {"null"}]
  /\ installed = NoRow \/ installed.token # 0      \* bot_token is a required field
  /\ standing \in [Admin -> {"active", "disabled", "deleted"}]
  /\ seen \cup acked \cup handled \cup lost \subseteq Mention
  /\ \A k \in Delivery : work[k] = Fresh \/ work[k].mention \in Mention
  /\ replies \in [Mention -> Nat]
  /\ submitted \in 0 .. MaxInstalls /\ clash \in BOOLEAN

BotInit ==
  /\ installed = NoRow /\ standing = [a \in Admin |-> "active"]
  /\ seen = {} /\ work = [k \in Delivery |-> Fresh] /\ acked = {}
  /\ replies = [e \in Mention |-> 0]
  /\ form = [a \in Admin |-> NoForm] /\ submitted = 0
  /\ handled = {} /\ lost = {} /\ wanted = [token |-> 0, secret |-> 0] /\ clash = FALSE

Doing(k, l) == work[k].at = l
mention(k) == work[k].mention
next(k, l) == work' = [work EXCEPT ![k].at = l]

-----------------------------------------------------------------------------
(* slack_events *)

\* Slack delivers a mention it holds no acknowledgement for, the first time or again.
Deliver(k, e) ==
  /\ work[k] = Fresh /\ e \notin acked
  /\ work' = [work EXCEPT ![k] = [at |-> "verify", mention |-> e, first |-> FALSE, as |-> "null"]]
  /\ UNCHANGED <<seen, acked, replies, handled, lost, marketVars>>

\* get_config(required=False) and _verify_signature: without an enabled row that
\* holds the signing secret the delivery is refused, and Slack will try again.
Verify(k) ==
  /\ Doing(k, "verify")
  /\ next(k, IF installed.enabled /\ installed.secret # 0 THEN "mark" ELSE "end")
  /\ UNCHANGED <<seen, acked, replies, handled, lost, marketVars>>

\* Mutant: the result of the INSERT is not looked at.
MarkEventBlind(k) ==
  /\ Doing(k, "mark") /\ seen' = seen \cup {mention(k)}
  /\ work' = [work EXCEPT ![k].at = "ack", ![k].first = TRUE]
  /\ UNCHANGED <<acked, replies, handled, lost, marketVars>>

MarkEvent(k) ==
  /\ Doing(k, "mark") /\ seen' = seen \cup {mention(k)}
  /\ work' = [work EXCEPT ![k].at = "ack", ![k].first = mention(k) \notin seen]
  /\ UNCHANGED <<acked, replies, handled, lost, marketVars>>

\* Mutant: a request that Slack gave up on starts no task.
AckOrNothing(k, intime) ==
  /\ Doing(k, "ack")
  /\ next(k, IF work[k].first /\ intime THEN "installer" ELSE "end")
  /\ acked' = IF intime THEN acked \cup {mention(k)} ELSE acked
  /\ UNCHANGED <<seen, replies, handled, lost, marketVars>>

\* create_task for the first delivery, and the answer 200, which Slack may get too
\* late to count.
Ack(k, intime) ==
  /\ Doing(k, "ack")
  /\ next(k, IF work[k].first THEN "installer" ELSE "end")
  /\ acked' = IF intime THEN acked \cup {mention(k)} ELSE acked
  /\ UNCHANGED <<seen, replies, handled, lost, marketVars>>

-----------------------------------------------------------------------------
(* _handle_mention *)

EndTask(k) == handled' = handled \cup {mention(k)}

\* Messages of bots and empty ones are left alone.  _bot_user, first query: who
\* installed the integration.
Installer(k, usable) ==
  /\ Doing(k, "installer")
  /\ IF usable /\ installed.by \in Admin
       THEN /\ work' = [work EXCEPT ![k].at = "user", ![k].as = installed.by]
            /\ UNCHANGED handled
       ELSE next(k, "end") /\ EndTask(k)
  /\ UNCHANGED <<seen, acked, replies, lost, marketVars>>

\* _bot_user, second query: only an active user answers.  quick_complete follows.
BotUser(k) ==
  /\ Doing(k, "user")
  /\ IF standing[work[k].as] = "active"
       THEN next(k, "post") /\ UNCHANGED handled
       ELSE next(k, "end") /\ EndTask(k)
  /\ UNCHANGED <<seen, acked, replies, lost, marketVars>>

\* _call(chat.postMessage), with the configuration of this moment.
Post(k, ok) ==
  /\ Doing(k, "post") /\ next(k, "end") /\ EndTask(k)
  /\ replies' = IF installed.enabled /\ ok THEN [replies EXCEPT ![mention(k)] = @ + 1] ELSE replies
  /\ UNCHANGED <<seen, acked, lost, marketVars>>

\* A statement raises, or the process dies, and the task with it.
Drop(k) ==
  /\ work[k].at \in {"verify", "mark", "ack", "installer", "user", "post"} /\ next(k, "end")
  /\ lost' = IF work[k].first THEN lost \cup {mention(k)} ELSE lost
  /\ UNCHANGED <<seen, acked, replies, handled, marketVars>>

-----------------------------------------------------------------------------
(* marketplace.py *)

\* Requests that have read the row are overtaken by a change of it.
Overtaken == [a \in Admin |-> IF form[a] = NoForm THEN NoForm ELSE [form[a] EXCEPT !.late = TRUE]]

\* install: the existing configuration is read; the master key has not changed,
\* so that it is deciphered.
InstallRead(a) ==
  /\ form[a] = NoForm /\ standing[a] = "active"
  /\ form' = [form EXCEPT ![a] = [at |-> "write", token |-> installed.token,
                                  secret |-> installed.secret, late |-> FALSE]]
  /\ UNCHANGED <<slackVars, installed, standing, submitted, wanted, clash>>

\* Mutant: fields that were not submitted are not kept.
MergeNothing(a, fields) ==
  [f \in {"token", "secret"} |-> IF f \in fields THEN submitted + 1 ELSE 0]

\* The submitted fields over those read; blank and redacted ones count as not
\* submitted.
Merge(a, fields) ==
  [f \in {"token", "secret"} |->
     IF f \in fields THEN submitted + 1 ELSE IF f = "token" THEN form[a].token ELSE form[a].secret]

Complete(cfg) == cfg.token # 0

\* install: refused if a required field is missing, otherwise the row is inserted
\* or its configuration replaced; installed_by is only set by the insert.  A
\* deleted admin violates its foreign key.
InstallWrite(a, fields) ==
  LET cfg == Merge(a, fields) IN
  /\ form[a] # NoForm /\ submitted < MaxInstalls
  /\ submitted' = submitted + 1
  /\ IF Complete(cfg) /\ (installed = NoRow => standing[a] # "deleted")
       THEN /\ installed' = [enabled |-> TRUE, token |-> cfg.token, secret |-> cfg.secret,
                             by |-> IF installed = NoRow THEN a ELSE installed.by]
            /\ wanted' = [f \in {"token", "secret"} |-> IF f \in fields THEN submitted' ELSE wanted[f]]
            /\ form' = [Overtaken EXCEPT ![a] = NoForm]
            /\ clash' = (clash \/ form[a].late)
       ELSE form' = [form EXCEPT ![a] = NoForm] /\ UNCHANGED <<installed, wanted, clash>>
  /\ UNCHANGED <<slackVars, standing>>

Toggle(b) ==
  /\ installed # NoRow /\ installed.enabled # b /\ installed' = [installed EXCEPT !.enabled = b]
  /\ UNCHANGED <<slackVars, standing, form, submitted, wanted, clash>>

Uninstall ==
  /\ installed # NoRow /\ installed' = NoRow
  /\ wanted' = [token |-> 0, secret |-> 0] /\ clash' = FALSE /\ form' = Overtaken
  /\ UNCHANGED <<slackVars, standing, submitted>>

\* update_user and delete_user: installed_by is ON DELETE SET NULL.
ChangeUser(a, s) ==
  /\ standing[a] # "deleted" /\ s # standing[a]
  /\ standing' = [standing EXCEPT ![a] = s]
  /\ installed' = IF s = "deleted" /\ installed.by = a THEN [installed EXCEPT !.by = "null"] ELSE installed
  /\ UNCHANGED <<slackVars, form, submitted, wanted, clash>>

Serve(k) == \/ \E e \in Mention : Deliver(k, e)
            \/ Verify(k) \/ MarkEvent(k) \/ (\E intime \in BOOLEAN : Ack(k, intime))
            \/ (\E usable \in BOOLEAN : Installer(k, usable)) \/ BotUser(k)
            \/ (\E ok \in BOOLEAN : Post(k, ok)) \/ Drop(k)
Administer(a) == \/ InstallRead(a)
                 \/ \E fields \in SUBSET {"token", "secret"} : InstallWrite(a, fields)
                 \/ \E s \in {"active", "disabled", "deleted"} : ChangeUser(a, s)

BotNext == \/ \E k \in Delivery : Serve(k)
           \/ \E a \in Admin : Administer(a)
           \/ (\E b \in BOOLEAN : Toggle(b)) \/ Uninstall
BotSpec == BotInit /\ [][BotNext]_botVars

-----------------------------------------------------------------------------
(* Properties *)

\* A mention is answered at most once, however often Slack delivers it, whichever
\* deliveries overlap, and wherever one fails ("never reply twice to the same
\* mention", 0019_slack_events.sql; _mark_event).
RepliedOnce == \A e \in Mention : replies[e] <= 1

\* A mention that was claimed is being worked on, or its task came to an end, or
\* its claimer failed: late acknowledgements and repeated deliveries lose none
\* (slack_events, _handle_mention).
ClaimKept ==
  \A e \in seen : \/ e \in handled \cup lost
                  \/ \E k \in Delivery : work[k] # Fresh /\ mention(k) = e /\ work[k].first
                                         /\ work[k].at # "end"

\* Both: at most one answer, and none lost but with its claimer.
MentionsSettle == RepliedOnce /\ ClaimKept

\* The stored configuration holds the last value submitted for every field, those
\* left out of later submissions included, unless an install was overtaken by
\* another change between its SELECT and its upsert (install: "unchanged secrets
\* are preserved").
ConfigAsSubmitted ==
  installed # NoRow /\ ~clash => installed.token = wanted.token /\ installed.secret = wanted.secret
=============================================================================
