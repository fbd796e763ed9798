# Verification of RafineAI self-hosted

TLA+ modules for the Go gateway, for the configuration that reaches it, for
the parts of the Python API that keep state between requests and for the pages of
the panel; TLC runs that check them on small instances; TLAPS proofs for every
instance.

* [The system](#the-system)
* [Modules and the code they model](#modules-and-the-code-they-model)
* [Runs](#runs)
* [Bounds](#bounds)
* [Fairness](#fairness)
* [Proofs](#proofs)
* [Where the code and its documentation disagree](#where-the-code-and-its-documentation-disagree)
* [Abstractions](#abstractions)
* [Not modelled](#not-modelled)
* [Plan](#plan)

## The system

An organisation runs three programs on one PostgreSQL database.

| Part | State | Operations | Interacts through |
|---|---|---|---|
| Gateway request pipeline (`gateway/internal/proxy`) | counters, the request's own locals | `ChatCompletions`, `streamChat`, `audit` | snapshot pointer, limiter, audit and alert channels, upstream HTTP |
| Gateway writers (`audit`, `alert`) | bounded channel, batch | `Enqueue`, `Run`, `flush` | channel, database, root context |
| Rate limiter (`ratelimit`) | request window and daily counter per user, one mutex | `Allow`, `AddTokens` | called by concurrent handlers |
| Effective limits (`state`, `proxy`) | none of its own | `limitsFor`, `TeamLimitFor`, `mostRestrictive` | reads a snapshot |
| Configuration sync (`store`, `state`, `cmd/gateway`) | atomic snapshot pointer | `LoadSnapshot`, `Replace`, `runSync` | database that the API writes |
| Content policy (`policy`) | package-level slice of built-in rules, masker buffer | `Apply`, `ApplyResponse`, `StreamMasker.Push/Close` | shared by all handlers |
| Teams and provider access (API) | `teams`, `team_members`, `team_provider_access` | team routes, `user_can_use_provider`, conversation routes | rows, statement by statement |
| Conversations (API) | `conversations`, `messages` | `chat`, `chat_stream`, create, patch, delete | rows, HTTP stream from the gateway |
| Users, providers, keys, OAuth, rules, settings (API) | one table each | CRUD routes | rows that the gateway loads |
| Provider adapters (`provider`) | locals of a decoder | `scanSSE`, `DecodeStream`, `ParseResponse` | upstream body |
| Users and start-up (API) | `users`, `schema_migrations` | `run_migrations`, `seed_owner`, login, refresh, user routes | rows, other API processes, tokens |
| Documents and RAG (API) | file store, `documents`, `document_chunks` | upload, delete, `index_document` | rows and files, embedding call |
| Slack bot and marketplace (API) | `installed_integrations`, `slack_events_seen` | `slack_events`, `_handle_mention`, install, toggle, uninstall | rows, background task, Slack |
| Panel: session (`lib/api.ts`) | tokens and role in localStorage, shared by all tabs | `api`, `uploadFile`, `tryRefresh`, `streamChat`, `login`, `clearSession` | HTTP, body in chunks |
| Panel: shell (`layout.tsx`, `login`, `change-password`) | account and role a tab has asked for | redirects, login, logout, change of password | localStorage, `GET /api/auth/me` |
| Panel: chat page | open conversation, messages, attached files and contexts, selected model | `openConversation`, `newChat`, `send`, `attachFile`, `addContext`, `switchProvider`, `loadProviders` | HTTP; answers arrive whatever the user did meanwhile |
| Panel: list pages (users, policy, marketplace, connections, providers, teams, documents, knowledge, fine-tuning, API client) | rows of the last load, busy flags | create, toggle, remove, upload, index, each followed by a load | HTTP |
| Panel: detail pages (conversations, teams, Slack, Sentry, GitHub, alerts, dashboard, knowledge, API client, documents) | what is chosen, what is shown for it, object URLs | open, filter, explain, preview, close | HTTP |
| Panel: dialogs, forms, settings | one form per page | open, save, close, install, presets, sections, theme, masking switch | HTTP, `PUT` that answers with all settings |

What makes it hard:

* **Threads.** Handlers of the gateway share the limiter, the channels, the
  counters and, by accident, the backing array of the built-in rules.
* **Awaits.** Every SQL statement of the API is a transaction of its own and
  every `await` lets other requests run: a check, and the write that follows it,
  can be separated by anybody's writes.
* **Stale values.** The snapshot of a request, the clock reading of a limiter
  call, the rows of a two-query check are old when they are used.
* **Callbacks.** A handler of the panel goes on after an await with the values of
  the render it was clicked in, while the screen shows those of a later one; nothing
  cancels a request, and nothing orders the answers of two.
* **Failure.** The database goes away in the middle of a load or a flush, the
  upstream breaks off in the middle of a stream, the client leaves, the process
  is told to stop while handlers still run; a request of the API dies between two
  of its statements; Slack delivers an event again.

What correctness means, component by component, is the list of properties in
[Runs](#runs); `PROJECT.json` lists the hazards with their lines and the
properties that cover them.

## Modules and the code they model

Names follow the source where TLA+ allows it. `PROJECT.json` maps every
definition to its lines. Definitions commented *Mutant* are plausible bugs: put
in the place of the definition that follows them, they break the property they
were written for.

**AuditTrail** — the abstract specification of a writer: entries are accepted in
some order, and runs of them are stored whole or lost whole, in that order, each
at most once.

**AsyncWriter** — `audit.Writer` and `alert.Writer` (they differ in two numbers).
`Enqueue` is the non-blocking send; `Receive`, `Tick`, `SeeDone`, `DrainOne`,
`DrainEmpty` are the cases of `Run`'s select and drain loop, which Go chooses
freely among those that are ready; a flush is a step of its own so that handlers
run during it, and may fail. `Cancel`, `Shutdown`, `Exit` are `main`.
`AsyncWriter` implements `AuditTrail` under `settled <- Len(flushed)`.

**RateLimiter** — `Allow` and `AddTokens` read the clock and *then* take the
mutex: each is two actions, and the reading may be old, even of the previous
day, in the second. `LimitsOf` is the set of limits snapshots may hand to a call,
so that limits change between calls. `admits`, `used`, `rewound` are history.

**LimitResolution** — `limitsFor`, with the loop of `TeamLimitFor` a step per
team, in the order the membership query returned. `-1` is a NULL column, `0`
unlimited.

**SnapshotSync** — `LoadSnapshot`, one action per query, because each is a
transaction of its own; the API's writes (with the cascades of the migrations)
and an outage fall between them. `Soft` are the queries whose errors are
swallowed. A table's content is its version.

**Policy**, **StreamMasking** — `Apply` and `ApplyResponse` as functions on short
texts; a regular expression is the finite set of words it matches on the small
alphabet, with `\b` modelled as it works. `StreamMasker` is a value; `Push` and
`Close` are functions of it; the actions are those of `streamChat`, which feeds it
deltas of any size until the stream ends or breaks off. `Straddled` says that some
detector, when the whole reply is masked at once, matches across a separator, as
`credit_card`, `secret_bearer`, `secret_private_key` and the keywords of two words may.

**RuleSlice** — `append(policy.Builtins(), snap.Rules...)`: the slice has spare
capacity, so `append` stores into an array that every request in flight reads.
Stores and loads are single steps.

**Gateway** — the whole handler for concurrent requests: verification, the
snapshot, the early returns in their order, credential resolution, limiter,
prompt screening with alerts, dispatch, the ways an upstream call ends (stream or
not), billing, counters, audit entry. `Configure` and `Sync` change what is in
force meanwhile; `installed`, `since`, `taken` record when.

**TeamAccess** — the team routes, statement by statement (`Clear` and one `Grant`
per provider are `_set_provider_access`), deletion and (de)activation of
providers, the two queries of `user_can_use_provider` as used by
`create_conversation`, and `patch_conversation`. `assigned` records what admins
asked for and `held` the grants that were stored and that no list has left out since;
`granted` and `proper` record whether a caller satisfied the rule at some moment of its
check, going by the table and by `held`.

**Conversations** — `chat` and `chat_stream`: store the turn, read the history,
ask, collect, store the reply; an INSERT takes its `created_at` and becomes
visible in two steps. The stream ends by its sentinel, by a broken connection, or
because the client left (generator closed, or cancelled).

**Selection** — `WHERE` and `Array.prototype.filter`: the elements of a sequence at some
of its indices, defined by counting, which the prover can reason about, rather than
recursively.

**StreamDecoding** — `scanSSE` and the three `DecodeStream`: one action per kind of
line (event, data, blank, comment or unknown field, OpenAI's sentinel) and the end
of the body at any line. `ParseResponse` on the body that would have held the same
messages is the reference.

**Documents** — upload (file, then row), delete (read, file, row) and
`index_document` (read, embed, clear, one insert per chunk, mark), each statement a
step that may be the last one (`Breaks`). `DeleteOwner` is the cascade of
`delete_user`, which leaves files alone.

**SlackBot** — deliveries of a mention (first ones, retries, overlapping ones)
through `slack_events`, the claim in `slack_events_seen`, the background task with
the two queries of `_bot_user`, and the post; beside it `install` (read, merge and
check, upsert), `toggle` and `uninstall` of the configuration they all read.

**Accounts** — `run_migrations` and `seed_owner` by several processes that crash and
restart, then `login`/`refresh` and the user routes: `get_current_user`, the query
for the target, the write, with other requests between any two.

**ChatPage** — the chat page of the panel: `openConversation`, `newChat`, `send`
(create, provisional messages, stream, reload), `attachFile`, `addContext` and the
chips that remove what is attached, with answers that arrive in any order while the
user goes on. The API sends `[DONE]` before it inserts the reply: `StreamEnds` leaves the
reply among those `owed`, `Stores` inserts it at any later moment, and the reload may come
first. `crossed` and `strayed` record that the user went on, `late` that a reply was stored
with no request under way that would still show it. What is attached is known by
the conversation it was attached in; in a new chat that is the one created for it.

**ChatModel** — the model selector of the same page against the provider each
conversation is stored with: loads of providers on mount and on focus, opening,
creating and switching. `behind` and `upset` record a list known to be old and
handlers that overlapped or failed.

**PanelSession** — `api`, `uploadFile` and `tryRefresh` of concurrent requests on the
tokens in localStorage, with login, logout, expiry and a disabled account.

**EventStream** — `streamChat`, chunk by chunk: a body of events (each with or without
a comment line) is cut anywhere, and the buffer is split at blank lines.

**PanelShell** — what each of several tabs shows and to whom: the start page, the
layout with its one question to the API, login, logout, the forced change of a
temporary password, with the session they share replaced, renewed or ended by any of
them. `outside` records the tabs to which that happened after they had asked.

**ListPages** — ten pages, one action per handler. A handler is a call (or one per
file), served or lost, then a load, served at one moment and shown at another. A row
is absent, off or on, which is all that buttons and routes tell apart.

**Viewers** — ten views with a heading and the detail fetched for it; `sel` is the
selection of the render the handler was clicked in. Alerts and dashboard load on mount.
On the GitHub page a file is opened from the entries that are listed (`body`), which may
be those of an earlier directory than the heading's; `UpToDate` says that the list had
settled when it was clicked. `Clears` and `Blanks` are the
views that empty the detail on failure and at the start.

**Previews** — `openPreview`, `closePreview` and `del` of the documents page with the
object URLs they make and revoke.

**Dialogs** — the two dialogs that take secrets. A text is the set of services it was
typed for or loaded from, so that a mixture shows.

**ProviderForm** — the form for a provider: presets that follow the type unless the
user typed over them, credentials of the chosen mode, and the submitted form put back
by the answer.

**SettingsPages** — the sections of the settings page, logo and theme, the theme of
the tab, and the masking switch of the policy page, which is set before its call and
set back when that fails.

The composition is by reference rather than by one large product: `Gateway` takes
the verdict of `Allow` as a free choice (`RateLimiter` and `LimitResolution` say
which), treats `Enqueue` as a hand-over (`AsyncWriter` says what follows) and a
sync as one step (`SnapshotSync` splits it). Modules that share no
state are put into one run, where each runs while the others are at rest:
`RuleSlice`, `StreamMasking`, `StreamDecoding`, `EventStream`, `RateLimiter` and
`LimitResolution` (`MCPolicy`), `Conversations`, `ChatPage`,
`ChatModel`, `PanelSession`, `PanelShell` and `SettingsPages` (`MCConversations`),
`Documents`, `SlackBot`, `Accounts` and `TeamAccess` (`MCApi`), `ListPages`, `Viewers`,
`Previews`, `Dialogs` and `ProviderForm` (`MCPanel`).

## Runs

Passing:

| Run | Shows |
|---|---|
| `writer` | `Conservation`: what was accepted is always flushed, then batch, then channel, in order. `CancelFlushed`: when `Run` returns, all that was accepted before the cancel is flushed. `ImplementsTrail`: refinement of `AuditTrail`. `EntrySettled`: an entry never waits for a full batch. `RunReturns`: the drain ends although handlers still enqueue. |
| `sync` | `LoadRegular`: a finished load holds, for every table it did not lose, a version no older than when it began. `NeverRegresses`: strictly checked tables never go back. `Converges`: after the last write and outage the snapshot becomes the database. |
| `policy` | `RulesApplied`: the race on the array never costs a built-in detector (`BuiltinsApplied`), and only requests whose snapshots carry different rules disturb each other (`ExactUnlessMixed`). `StreamsAsWhole`: with a detector of each kind (masking, blocking, flagging, and one that matches digits with a separator between them), all cuts of all replies mask like the whole reply and report the same rules, unless something that is matched in this reply holds a separator. `DecodesAsWhole`: a decoded stream gives the text and the token counts that parsing the same messages at once gives, wherever noise stands and the stream stops. `CutsInvisible`: the panel's reader calls back for every event that arrived whole, once and in order, wherever the chunks are cut. `CounterExact`: the daily counter equals the tokens recorded under its day, unless a stale reading rewound it. `QuotaBound`: a day costs at most the quota plus one request per goroutine. `RollingBound`: admissions in any rolling minute are bounded by the fixed windows that can overlap it. `TeamLimitTightest`: without an override, the limits are the tightest caps of all teams, for every order and every mix of unset, unlimited and positive. |
| `gateway` | `CallJustified`: every upstream call is backed by one snapshot in force since the request arrived, with a credential it is entitled to. `AuditedOnce`: no request leaves two entries, and one that the limiter refused, the policy blocked or the upstream was called for leaves one, with its outcome and tokens. `PoliciesAccounted`: an entry names the places alerts were raised for. `Reconciled`: when nothing is under way, metrics, quota counters and trail agree. |
| `chat` | `TurnsSound` (`TurnsPaired`, `HistoryCurrent`, `NoErrorTurns`): turns and replies stay paired and in order, the history sent is part of the conversation and contains the turn it is sent for, failed exchanges store no reply. Panel: `ScreenAgrees` (once everything has arrived, the screen shows the open conversation as stored, unless a reply was stored after the messages were read), `SentAsTyped` (`SentWhereTyped`, `FilesStay`: a message goes to the conversation it was typed in, with files and contexts of that conversation only), `ModelShown` (the selector shows the model that will answer), `SessionSound` (`SessionSurvives`: concurrent renewals do not spoil each other; `LogoutStays`), `ShellSound` (no page past an unchanged temporary password, and the session's account and role in every tab that asked since they last changed), `SettingsSettle` (`FormSettles`, `MaskSettles`: what is shown at rest is what the API has). |
| `api` | Documents: `StoreSound` (`StoreAgrees`: rows and files, except between two writes or after an interruption there; `IndexSound`: every chunk exactly once, and no more copies of a chunk from overlapping indexers than requests run at a time). Slack: `MentionsSettle` (`RepliedOnce`: at most one answer per mention; `ClaimKept`: a claimed mention is lost only with its claimer), `ConfigAsSubmitted`. Accounts: `StartSound` (`MigratedOnce`, `OwnerStays`: a serving process implies all migrations and one active owner, whatever admins do), `WriterEntitled` (only who was an active admin during the request gets to write). Teams: `CreateJustified` (nobody passes the two-query check who was not entitled at some moment of it), `GrantsSettle` (edits that neither overlap nor fail leave the list asked for). |
| `panel` | `ListsSettle`: the list on a page at rest is the API's, unless an older load was shown last or a change's answer or load failed. `OneAtATime`: an upload, a fine-tuning job, an indexing does not run twice. `ViewsAgree`: the latest request is for what the heading says, the detail belongs to it once all is answered in order, and so does a file or explanation beside it, unless the file was opened from a list that had not settled. `PreviewSound`: a preview shown can be read and its document exists. `DialogsSound`: secrets are saved for nothing but what they were typed for, and the button is not left disabled. `FormSound`: fields left alone hold the preset of the chosen type, and no key is stored twice. |

The modules state their type invariants too (`TypeOK`, or a prefixed name such as
`DocTypeOK` where several modules share a run); those of the panel other than
`ChatPage`, `PanelSession` and `Dialogs` stand in the proof modules. The former hold under the same
configurations when added to the `INVARIANTS` line, and the inductive invariants of
[Proofs](#proofs) contain what all of them say of types; they are left out of the runs to keep
these to the properties that say something about the code.

Violated, each by what the code does (see
[below](#where-the-code-and-its-documentation-disagree)): `sync_keeps`,
`rules_race`, `leak`, `access_window`, `chat_image`.

`CHECK_DEADLOCK FALSE` is set where the system may stop: the process exits
(`writer`), all requests have been answered or all clicks handled (`gateway`, `chat`,
`api`, `panel`), the
bounded clock has run out or the calculation is finished (`policy`).

## Bounds

| Run | Bound | Why it is enough |
|---|---|---|
| `writer` | 4 entries, capacity 2, batch 2 | overflow, a full batch, a partial one, entries before, during and after the drain |
| `policy`, limiter | 2 goroutines, window of 2 ticks, day of 3, clock to 5, 5 calls, waits of 1 tick | a window and a day boundary are crossed with one goroutine holding an old reading; 5 calls exceed every bound of the properties by what a mutant adds |
| `policy`, teams | 2 teams, values -1, 0, 1, 2 | every pair of cases of `mostRestrictive`; the proof covers any number |
| `sync` | 2 writes, 1 outage | a write before and one after a query tear a load; the outage begins and ends at any query |
| `policy` | 2 requests, 2 built-ins, 2 spare slots, lists of 0 to 3 rules; replies of 6 characters | lists that fit and one that does not; a match of three characters with a boundary on both sides, another of digits with a separator between them, and text around both |
| `policy`, decoders | 3 messages, 2 lines of noise | a repeated count, text before and after, a stop inside every message |
| `gateway` | 2 requests, 7 inputs, 4 configurations, 1 change | every early return and outcome; each field of the configuration changes under a request |
| `api`, teams | 2 teams, 1 user, 2 providers, 2 editors, 1 caller, 2 edits | two edits of one team overlap; an edit falls between the queries |
| `chat` | 2 conversations, 2 calls | calls share a conversation or not; deletion at every point |
| `policy`, panel | 3 events of 5 kinds | a text, an error and the sentinel, with comments before any of them, cut at every symbol |
| `chat`, panel | 2 conversations, 2 loads, 1 message, 1 upload or context at a time; 2 requests, 4 tokens | answers of two loads and a stream overtake each other, and the reply is stored before, between or after them; both requests renew, and one of them after a logout and a login |
| `chat`, model, shell, settings | 2 providers, 2 handlers; 2 tabs, 2 accounts; the two loads on mount and 2 handlers on one section of text, theme and logo | a handler overtakes another or fails; one tab changes the session under the other; two answers that carry all settings |
| `panel` | 2 rows, items, documents, services, types; 2 to 3 handlers besides the load on mount; 1 credential | several handlers on one row or on two; three requests that answer in any order; a key that could be submitted twice |
| `api` | 1 document of 2 chunks, 3 requests; 1 mention delivered twice, 2 admins, 2 installs; 2 processes, 2 migrations, 1 crash, 2 requests, 1 account besides the owner | two indexers and a delete; overlapping deliveries; two processes at the same migration; two admins who change each other |

The bounds on edits, writes, changes, outages, calls and the clock are constants
in guards (`MaxEdits`, `MaxWrites`, `MaxChanges`, `MaxOutages`, `MaxCalls`,
`MaxClock`, `MaxWait`, `MaxMessages`, `MaxNoise`, `MaxSends`, `MaxTokens`,
`MaxInstalls`, `MaxCrashes`, `MaxEvents`, `MaxKeys`); a click of the panel is a run of a
handler, of which there are as many as the constants have. Symmetry is used for requests, goroutines, calls and
conversations, only in runs without temporal properties over them.

## Fairness

* `AsyncWriter!Fairness`: `Run` is a goroutine that the scheduler keeps running;
  Go's select chooses at random among ready cases, so a case that stays ready is
  taken; the ticker keeps firing; pgx returns from a flush with success or an
  error. Nothing is assumed of handlers or of `main`.
* `SnapshotSync!Fairness`: the ticker of `runSync` keeps firing and queries
  return, and the database comes back. `Converges` needs the latter; writes and
  outages are finite by their bounds.

## Proofs

All proofs are checked by TLAPS to the last leaf and hold for every value of the
constants that satisfies the named assumptions.

* **AsyncWriterProofs** (`WriterAssumption`: capacity and batch size are
  positive). `IInv` is the type invariant, `Conservation`, `DrainInv` and
  `CancelFlushed`. `Conservation` is inductive by lemmas on moving a sequence's
  head. `CancelFlushed` is not: `DrainInv` records that a final flush starts from
  an empty channel for all that was accepted by the cancel, that the drain runs
  only after a cancel, and that nothing accepted is forgotten in between.
  `WriterImplementsTrail` maps every step to a step or stutter of `AuditTrail`.
* **LimitProofs**, the limiter (`LimiterAssumption`: finitely many goroutines,
  positive window and day, the caps bound the limits). `QuotaBound` is about days, the
  counter about the current one: `FutureUnused` and `CounterExact` connect them.
  `LiveQuota` carries the argument: a goroutine is admitted below the quota, so
  the excess is at most `MaxTok` per goroutine that owes nothing any more.
  `RollingBound` counts admissions and the state holds only the current window, so
  `WindowInv` says that the admissions so far *can* be stamped with the start of the
  window that counted them and their number there: stamps differ, starts lie a minute
  apart, and a start is at most a window and a wait older than the admission.
  `WindowsCover` embeds the admissions of a rolling minute into windows times numbers
  and counts.
* **LimitProofs**, the team loop (`ResolutionAssumption`). `Loop`: `out` is the
  tightest cap of the teams seen so far; `MostRestrictiveStep` is its step.
* **SnapshotSyncProofs** (`SyncAssumption`). `Loading`: what a load has read is at
  least as new as the tables when it began, and the snapshot in force no newer than
  that; `HardRead`: what it passed without an error it has read. `NeverRegresses` is an
  action property and follows for the step of `Replace`.
* **PolicyProofs**, RuleSlice (`SliceAssumption`). `SlotsHeld`: the slots a request has stored
  hold its own rules, or some request's, if it is mixed; `ClashSeen`: two requests in
  flight on the array with different rules are both mixed. Built-in slots are never
  stored to.
* **PolicyProofs**, the readers of streams. They compare a loop over pieces with a
  recursive function of the whole, so they need induction over the length of a reply.
  `NatSet` is induction over a set of naturals instead of a predicate, from the
  library's well-foundedness of `<`; `Rounds` is the set of functions that satisfy a
  recursion up to `n`, shown to have exactly one member, and with it each recursive
  function of the models (`Upto`, `Due`, `Texts`, `Apply`; `Scans` for
  `ReplaceAllString`, which recurs from the end) is shown to satisfy its own equation.
  * StreamMasking (`StreamAssumption`: the detectors are rules; nothing is assumed of what
    they match). `Released` text ends with a separator. Where no match holds one, matches
    and word boundaries on one side of it do not see the other (`MatchLeft`,
    `MatchRight`), and that no match of the whole does carries over to its parts
    (`StraddlesParts`), rule after rule; so replacing, and with it a list of rules, distributes
    over released text followed by anything (`ReplaceConcat`, `ApplyConcat`), and
    masking keeps the separator (`ReplaceReleased`). `MaskInv`: what was emitted masks
    a released prefix of the reply, unless the reply is `Straddled`, and the buffer is the
    rest.
  * StreamDecoding. `DecodeInv`: everything read has been handled, but for at most one
    message that is complete and waits for its blank line; a further message adds to the
    text and replaces the counts as it does in the whole (`TextsAppend`,
    `LastReportedAppend`, `UsageOfMessage`).
  * EventStream (`EventAssumption`). `EventInv`: the reader stands between two events and
    the buffer is what has arrived behind the first of them; the first blank line in it
    is the end of the next event (`NoBreak`, `HasBreak`), and what is cut off leaves such
    a buffer (`AfterEvent`).
* **GatewayProofs** (`GatewayAssumption`: configurations and inputs are
  well-formed). `Stage` says what each program counter has checked, `Owes` what
  entry is due, `Fires` that alerts, `fired` and the entry agree, `History` that
  the current snapshot is the last one installed. Per request, so the number of
  requests is arbitrary. `Reconciled` compares counters with sets that change at other
  steps: `Books` says at every moment which requests and tokens each counter has
  counted (`Counted`, `Erred`, `Spent`, `Charged`), and these sets are the trail's when
  all requests are idle or done. A sum of tokens is the cardinality of a set of them.
* **ApiProofs**, Documents (`DocAssumption`: finitely many requests at a time, some
  chunk). `OpSound` says what a request knows of its id, `IndexAt` what an undisturbed
  document's chunks are while its one indexer puts them, and `CopyAt` bounds the copies
  of a chunk together with those still to be put by the number of requests.
* **ApiProofs**, SlackBot (`BotAssumption`). `OneClaim`: one delivery at most has
  claimed a mention, and a reply was its last step. `FormSeen`: what an install read
  that nothing overtook is what is stored.
* **ApiProofs**, Accounts (`AccountAssumption`: the owner is no person of the user
  routes). `MigratedPrefix`: the migrations committed are the first ones, in order;
  `ProcessSound`: what a process passed over is committed, and past its loop all are;
  `RequestSound`: a request past its check was entitled and is not about the owner.
* **ApiProofs**, TeamAccess (`AccessAssumption`). `CallersSeen` follows a caller
  through its two queries; `EditSettles` says that of an edit past its DELETE what is
  not granted yet is still on its list, `OneEditor` that a team that is not torn has
  one editor at a time.
* **ChatProofs**, Conversations. `RowsSound` and `CallSound`: which rows a call has
  inserted follows from where it is, in its own conversation. `HistorySound` carries
  what was sent through the steps of other calls: `RowsGrow` says that a step keeps
  committed rows where they are and commits no copy of one. ChatPage
  (`PageAssumption`): `SenderSound` and `PendingSound` say where the message under way
  and what is attached belong, through the creation of the conversation; `ScreenInv`
  says, step by step of a message or a load, how far the screen agrees with what is
  stored (`Shown`), and that nothing else is under way meanwhile unless the user went
  on or a reply came `late`; `OwedSound` that a reply still to be stored has a
  conversation, so that storing it adds to what a load under way will read
  (`StoresShown`). ChatModel
  (`ModelAssumption`): `Undisturbed` says what the one relevant handler under way will
  make of the conversation and the selection; `ListFresh` that the list is current or
  being loaded. PanelSession: `RetrySound` and `Renewable`, a call that repeats
  carries a good token and one that may renew finds a refresh token, unless it is
  excused. SettingsPages (`SettingsAssumption`): `CellSound`, what a load brought for a
  section is the API's, or some answer on its way or already shown is newer.
* **ChatProofs**, PanelShell (`ShellAssumption`). `ShellSound` speaks of tabs that show a
  page; `TabSound` follows a tab from the moment it asks: it has an account, whose
  password the API has found permanent once it is `known` (passwords only become
  permanent), and that is the session's unless the tab is `outside`. Per tab, so the
  number of tabs and accounts is arbitrary.
* **PagesProofs**, Dialogs (`DialogAssumption`). `DialogsSound` speaks of what is saved;
  `Own` says that, unless a failed load was ignored, the form holds texts of the open
  dialog only and every call under way those of its own service, so what it saves is
  its own; `SavingTrue` that `saving` is on only while some save is under way or the
  page is left.
* **PagesProofs**, the other pages. ListPages (`ListAssumption`): `Current`, the rows a
  load brought are the API's, or a change since is still followed by a handler, has
  failed or was shown by a later load; `Alone`, a flagged handler has the flag to
  itself. Viewers (`ViewerAssumption`): `Latest` and `ScreenLatest` follow the request
  sent last until it was shown or failed, from the one on mount on; `UpToDateShown`: a
  list of entries that has settled is the heading's, so a file opened from it belongs
  there. Previews (`PreviewAssumption`): the URL of
  every preview shown, or remembered by a deletion, is from a click that is over, and
  no two clicks make the same. ProviderForm (`FormAssumption`): without overlap at most
  one submission is under way, and the key it carries is stored nowhere else.

The components of a module above share no state and have an inductive invariant each.
Assumptions on constants are of two kinds: numbers are numbers (positive where the code
uses them as a size), and a marker for "nothing" (`Nil`, `NoDoc`, `Nobody`, ...) is none
of the values it stands beside. Nothing is assumed finite but the goroutines and the
document requests, whose number is in a bound that is proved.

Only model-checked: liveness (`EntrySettled`, `RunReturns`, `Converges`), which is out
of the prover's reach. Every other property that a passing run checks is a theorem.

## Where the code and its documentation disagree

With a run:

* `sync_keeps`: "If the DB is unreachable, the previous snapshot keeps serving"
  (`gateway/README.md:34`). `loadUserOwnKeys`, `loadTeams` and `loadSettings`
  swallow every error; when the connection returns before the provider query, a
  snapshot without own keys, team limits and settings replaces the previous one.
* `rules_race`: custom rules are "applied in addition to the gateway's built-in
  detectors" (`state.go:55`). A request of a newer snapshot overwrites the rules
  that another one is still applying.
* `access_window`: once a provider is assigned to a team only its members can use
  it (`docs/FLOW.md:120`). When a team to which the provider is assigned is updated with
  a list that names it again, it has no grant between the DELETE and the INSERTs of
  `_set_provider_access` and counts as unrestricted.
* `leak`: "boşluk sınırında tamponlu maskeleme ile token sınırını aşan hassas veri
  sızmaz" (`docs/FLOW.md:131`; in the same sense the comment at `policy.go:91` and
  `policy/page.tsx:98`). The `credit_card` detector (`policy.go:199`) matches digits with
  spaces between them; `Push` releases them up to the last space before the match is
  complete. `secret_bearer`, `secret_private_key` (`policy.go:193`, `:194`) and the keywords
  of two words (`:204`, `:208`) match across separators too.
* `chat_image`: image turns are expanded "so the model can see them"
  (`conversations.py:199`). The gateway decodes `content` as a string and answers
  400; the turn stays in the history and every later request fails too.

Visible in how a property had to be weakened:

* `RollingBound`: `ratelimit.go:16` says "max requests per rolling 60s window";
  the window is fixed, so about twice the RPM passes around its renewal.
* `CounterExact`, `QuotaBound` except after a rewind: a reading from before
  midnight used after a call of the new day resets the new day's counter
  (`ratelimit.go:55`, `:62`).
* `CancelFlushed` and not all of `accepted`: handlers that `Shutdown` waits for may
  enqueue after `Run` has returned (`audit.go:64`, "then flushes the remainder").
* `TeamLimitTightest` only without an override: `limitsFor` returns at an override
  of either dimension, so a team's cap on the other is not applied (`README.md:27`).
* `StreamsAsWhole` unless a match of the reply holds a separator: see `leak`.
* `LoadRegular` and not one point in time: `state.go:40` calls a snapshot a
  "point-in-time view"; its queries share no transaction.
* `AuditedOnce` only of requests that were limited, blocked or forwarded: "Her istek
  asenkron olarak loglanır" (`docs/FLOW.md:77`, every request is logged), but the early
  returns before the limiter (`handler.go:116-169`), and those for tools the provider does
  not support or a request that cannot be built, leave no entry.
* `CreateJustified` has no converse: if the last granting team is deleted between
  the two queries, a user is refused who was entitled before and after.
* `patch_conversation` does not ask `user_can_use_provider` (`teams.py:5` says
  users cannot bypass the check).
* `NoErrorTurns` is about failed exchanges: a stream that broke off upstream ends
  with `[DONE]`, and a client that leaves may close the generator, so a truncated
  reply can be stored (`conversations.py:271`).

* `StoreAgrees` except after interruptions and the deletion of the owner: a failed
  INSERT leaves a file nobody can reach (`documents.py:68`), a failed DELETE a row
  without a file, and `delete_user` leaves all files of the user behind.
* `IndexSettled` except after overlaps and interruptions: two indexers store chunks
  twice, and a document that was indexed before stays marked while a second, failed
  indexing has left only some of its chunks (`rag.py:53`).
* `ClaimKept` names the mentions lost with their claimer: the event is recorded
  before the task that answers it, so Slack's retry is ignored after a crash
  (`slack.py:269`).
* `ConfigAsSubmitted` unless an install was overtaken: "unchanged secrets are
  preserved" (`marketplace.py:77`) at the value that was read, over a concurrent
  change.
* `WriterEntitled` and not at the moment of the write: the check and the write are
  separate statements, so a request of an admin who is demoted meanwhile completes.
* `ScreenAgrees` unless a reply was stored after the messages were read: the generator
  yields `[DONE]` and inserts the reply afterwards (`conversations.py:335`, `:359`), the
  page asks for the messages as soon as it has `[DONE]` (`api.ts:125`), and what it shows
  then lacks the reply until the conversation is opened again.
* `ScreenAgrees`, `FilesStay` except when the user goes on: answers of a load or a
  stream are shown in whatever conversation is open when they arrive, and
  `openConversation` leaves attached files in place, unlike `newChat`
  (`page.tsx:160`).
* `LogoutStays` unless a renewal is under way: its answer stores new tokens after
  the logout (`api.ts:42`). `streamChat` and `authedBlobUrl` do not renew at all.
* `ListsSettle` except for loads shown in the wrong order, and after failures: no
  handler reloads when its call fails, although the call may have taken effect
  (`documents/page.tsx:40`: files uploaded before the one that failed are not listed).
* `OneAtATime` except when two documents are indexed: `indexing` holds one id.
* `ViewsAgree` except for overtaken answers, and for alerts: `resolve` reloads with the
  filter of its click (`alerts/page.tsx:52`). Nor for a file of the GitHub page that was
  opened from a list that had not settled: `openRepo` sets the heading and leaves the
  entries of the previous directory in place (`tools/github/page.tsx:25`).
* `DialogsSound` unless a load of an app's configuration fails while another app's is
  in the form (`marketplace/page.tsx:39`).
* `ModelShown` unless a load finds the model of the open conversation unusable: the
  selector then shows another one, and the conversation keeps its own
  (`chat/page.tsx:79`).
* `ShellSound` only until another tab changes the session: the role is read once
  (`layout.tsx:55`).

## Abstractions

* Signatures, JSON and regular expressions are their verdicts; texts of messages
  occur only in `Policy`.
* `anthropic` in `Gateway` stands for the two provider types without tools. An
  adapter that is missing cannot happen: the database checks the type.
* The metrics page only reads the three counters.
* Goroutines that execute `append` store in ascending order, as the compiled copy
  does; each load or store of a slot is atomic.
* A swallowed error in the middle of the rows of a table counts as a lost table; of
  `teams`, the query of `team_members` may still follow it.
* `updated_at` and ties of `created_at` are left out; `patch_conversation` is one
  step; owners and admins pass the access check at once and are not modelled in
  `TeamAccess`.
* In `StreamDecoding` JSON parses when all its lines have come; roles, tool calls
  and errors inside a message are left out, a provider reports positive counts, and the
  error returns of `ParseResponse` are not part of the reference.
* In `Documents` the text of a file is a fixed number of chunks or none; reading and
  cutting it is one step, and sharing with a team, which only concerns reading, is
  left out.
* In `SlackBot` signatures are those of the installed secret, `quick_complete` always
  returns some text, and messages without an `event_id`, which Slack does not send,
  are left out. The configuration has two fields, one required and one optional. The
  master key does not change, so that `install` can decipher what is stored; if it could
  not, it would start from an empty configuration (`marketplace.py:86`).
* In `Accounts` a migration is one effect and passwords are left out; the e-mail of
  the owner belongs to nobody else.
* In `ChatPage` error banners and the search are left out, and one upload or context is
  under way at a time; files and contexts are told apart by their conversation only.
* In `ListPages` users, rules, teams, apps and keys are named by what was typed: a user,
  rule or team that exists is refused, an app or key is replaced. A saved request, a
  document, a provider or a fine-tuning job created twice is two rows, so that its
  create takes a row that is not there. In
  `SettingsPages` the keys of a section are one value. In `ProviderForm` the preset of
  a type is the type itself.
* Messages, banners, spinners and confirmation prompts of the panel are left out; a
  prompt that is declined is a click that did not happen.

## Not modelled

Building requests and routing (translations between JSON shapes), cryptography,
environment configuration, schemas, reporting (SELECT statements), `ask` and the
other routes that only read, the OAuth exchange, and integrations that only call
third parties (GitHub, Sentry, web, API client, fine-tuning, context; the pages that
use them are in `Viewers`). Of the panel: how a message, a chart or an icon is drawn
(`message-content.tsx`, `charts.tsx`, `icons.tsx`), the audit page (one load), the
Swagger page (which parses a document and fills in a request of the API client), the
dark mode, the search fields, unfolded rows, the list of followed Slack channels, the
live feed of the dashboard, and the name and logo other pages show, which are read
once. `PROJECT.json` lists each with its reason.

## Plan

The modules were written in the order in which they stand above: first the gateway,
which every message passes, then the configuration that reaches it, then the API and
the panel. What is left, in order of what can go wrong:

1. Type correctness as theorems of their own for the modules of the panel.
2. OAuth callbacks (state parameter, token refresh); `change_password` against tokens
   already issued.
3. Routing as a pure operator checked inside the gateway run.
