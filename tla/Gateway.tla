------------------------------ MODULE Gateway ------------------------------
(***************************************************************************)
(* One chat completion through the gateway: Handler.ChatCompletions,           *)
(* streamChat and audit, for requests that run concurrently while the sync     *)
(* worker replaces the snapshot.  A request takes the snapshot pointer once    *)
(* and decides everything on it; it meets the others only at the limiter       *)
(* (module RateLimiter says when Allow refuses), the counters and the audit    *)
(* and alert queues (module AsyncWriter says what becomes of an entry).        *)
(***************************************************************************)
EXTENDS Integers, Sequences, FiniteSets

CONSTANTS Request, User, Provider, KeyId,
          Config,      \* the contents the database may have
          Input,       \* the requests clients may send
          MaxTok,      \* most tokens one completion can cost
          MaxChanges   \* bound: changes of the database

None == "none"
Type == {"openai", "anthropic"}    \* anthropic stands for gemini too: no tools
Providers == [type : Type, auth : {"api_key", "oauth2"}, active : BOOLEAN,
              key : BOOLEAN]       \* key: the shared APIKey is not empty

Snapshot ==
  [providers  : UNION {[D -> Providers] : D \in SUBSET Provider},
   userTokens : SUBSET (User \X Provider), userOwnKeys : SUBSET (User \X Type),
   blocked    : SUBSET KeyId, mask : BOOLEAN]

\* state.New: what is in force when the initial load of main failed.
emptySnapshot == [providers |-> <<>>, userTokens |-> {}, userOwnKeys |-> {},
                  blocked |-> {}, mask |-> FALSE]
InForce == Config \cup {emptySnapshot}

\* What a client sends: signed (the key verifies), the claims, the provider
\* (claim or header), the body (sound, or not decodable / without messages),
\* what the policy finds in the prompt, tools, stream.
ChatRequest ==
  [signed : BOOLEAN, user : User, kid : KeyId \cup {None}, provider : Provider,
   sound : BOOLEAN, finding : {None, "mask", "block"}, tools : BOOLEAN,
   stream : BOOLEAN]

ASSUME GatewayAssumption ==
  /\ Config # {} /\ Config \subseteq Snapshot
  /\ Input # {} /\ Input \subseteq ChatRequest
  /\ None \notin KeyId /\ MaxTok \in Nat /\ MaxChanges \in Nat

\* Answers that end the request without an audit entry, and those with one.
Unaudited == {"invalid_api_key", "key_revoked", "bad_request", "unknown_provider",
              "provider_disabled", "oauth_required", "missing_credential",
              "tools_unsupported", "build_failed"}
Refused == {"rate_limited", "quota_exceeded", "policy_blocked"}
Failed == {"upstream_error", "upstream_status", "parse_error", "stream_error"}
Audited == Refused \cup Failed \cup {"ok"}

VARIABLES db, changes,  \* the database and how often it changed
          current,      \* state.Store: the snapshot in force
          installed,    \* history: every snapshot that was in force, in order
          since,        \* history: Len(installed) when the request arrived
          taken,        \* history: Len(installed) when it took its snapshot
          pc, input, snap,
          cred,         \* the credential of the upstream request
          called,       \* the upstream has been asked
          outcome,      \* how the request ended, or will once it is audited
          tokens,       \* usage the upstream reported for it
          fired,        \* appliedSet: where the policy fired
          alerts,       \* <<request, where>> handed to Alerts.Enqueue
          trail,        \* the entries handed to Audit.Enqueue, per request
          billed,       \* Limiter.AddTokens, per user
          mRequests, mErrors, mTokens

config == <<db, changes, current, installed>>
journal == <<alerts, trail, billed, mRequests, mErrors, mTokens>>
vars == <<config, since, taken, pc, input, snap, cred, called, outcome, tokens,
          fired, journal>>

Where == {"prompt", "response"}
Entry == [user : User, status : Audited, tokens : 0 .. MaxTok, policies : SUBSET Where]
NoCred == <<None>>
Credential == {NoCred} \cup {<<"shared", p>> : p \in Provider}
                \cup {<<"oauth", u, p>> : u \in User, p \in Provider}
                \cup {<<"own", u, t>> : u \in User, t \in Type}

TypeOK ==
  /\ db \in Config /\ changes \in 0 .. MaxChanges
  /\ current \in InForce /\ installed \in Seq(InForce)
  /\ since \in [Request -> Nat] /\ taken \in [Request -> Nat]
  /\ pc \in [Request -> {"idle", "arrived", "resolve", "limit", "screen", "dispatch",
                         "waiting", "bill", "count", "enqueue", "done"}]
  /\ input \in [Request -> Input] /\ snap \in [Request -> InForce]
  /\ cred \in [Request -> Credential] /\ called \in [Request -> BOOLEAN]
  /\ outcome \in [Request -> Unaudited \cup Audited \cup {None}]
  /\ tokens \in [Request -> 0 .. MaxTok]
  /\ fired \in [Request -> SUBSET Where]
  /\ alerts \subseteq Request \X Where
  /\ trail \in [Request -> Seq(Entry)]
  /\ billed \in [User -> Nat]
  /\ mRequests \in Nat /\ mErrors \in Nat /\ mTokens \in Nat

Init ==
  /\ db \in Config /\ changes = 0
  /\ current \in {db, emptySnapshot} /\ installed = <<current>>   \* main's first load
  /\ since = [r \in Request |-> 0] /\ taken = [r \in Request |-> 0]
  /\ pc = [r \in Request |-> "idle"]
  /\ input \in [Request -> Input] /\ snap = [r \in Request |-> current]
  /\ cred = [r \in Request |-> NoCred] /\ called = [r \in Request |-> FALSE]
  /\ outcome = [r \in Request |-> None] /\ tokens = [r \in Request |-> 0]
  /\ fired = [r \in Request |-> {}] /\ alerts = {}
  /\ trail = [r \in Request |-> <<>>] /\ billed = [u \in User |-> 0]
  /\ mRequests = 0 /\ mErrors = 0 /\ mTokens = 0

-----------------------------------------------------------------------------
(* Configuration *)

Configure(c) == /\ changes < MaxChanges /\ c # db
                /\ db' = c /\ changes' = changes + 1
                /\ UNCHANGED <<current, installed, since, taken, pc, input, snap, cred,
                               called, outcome, tokens, fired, journal>>

\* A load of the sync worker, here without the changes that overlap it (module
\* SnapshotSync has those).
Sync == /\ current # db
        /\ current' = db /\ installed' = Append(installed, db)
        /\ UNCHANGED <<db, changes, since, taken, pc, input, snap, cred, called,
                       outcome, tokens, fired, journal>>

-----------------------------------------------------------------------------
(* The handler *)

goto(r, l) == pc' = [pc EXCEPT ![r] = l]
ends(r, o) == outcome' = [outcome EXCEPT ![r] = o]

Arrive(r) ==
  /\ pc[r] = "idle" /\ goto(r, "arrived")
  /\ since' = [since EXCEPT ![r] = Len(installed)]
  /\ UNCHANGED <<config, taken, input, snap, cred, called, outcome, tokens, fired, journal>>

\* claimsFromRequest, then snap := h.State.Current().
Verify(r) ==
  /\ pc[r] = "arrived"
  /\ IF input[r].signed
       THEN /\ snap' = [snap EXCEPT ![r] = current]
            /\ taken' = [taken EXCEPT ![r] = Len(installed)]
            /\ goto(r, "resolve") /\ UNCHANGED outcome
       ELSE /\ ends(r, "invalid_api_key") /\ goto(r, "done")
            /\ UNCHANGED <<snap, taken>>
  /\ UNCHANGED <<config, since, input, cred, called, tokens, fired, journal>>

HasOwnKey(s, in) == <<in.user, s.providers[in.provider].type>> \in s.userOwnKeys

\* Mutant: the user's own key is looked up by provider type alone.
ResolveCredentialAny(s, in) ==
  LET p == s.providers[in.provider] IN
  IF \E u \in User : <<u, p.type>> \in s.userOwnKeys
    THEN <<"own", CHOOSE u \in User : <<u, p.type>> \in s.userOwnKeys, p.type>>
  ELSE IF p.auth = "oauth2" /\ <<in.user, in.provider>> \in s.userTokens
    THEN <<"oauth", in.user, in.provider>>
  ELSE IF p.key THEN <<"shared", in.provider>> ELSE NoCred

\* Own key before OAuth token before the provider's shared key.
ResolveCredential(s, in) ==
  LET p == s.providers[in.provider] IN
  IF HasOwnKey(s, in) THEN <<"own", in.user, p.type>>
  ELSE IF p.auth = "oauth2" /\ <<in.user, in.provider>> \in s.userTokens
    THEN <<"oauth", in.user, in.provider>>
  ELSE IF p.key THEN <<"shared", in.provider>> ELSE NoCred

\* The early returns between the snapshot and the limiter, in their order.
Refusal(s, in) ==
  LET p == s.providers[in.provider] IN
  IF in.kid \in s.blocked THEN "key_revoked"
  ELSE IF ~in.sound THEN "bad_request"
  ELSE IF in.provider \notin DOMAIN s.providers THEN "unknown_provider"
  ELSE IF ~p.active /\ ~HasOwnKey(s, in) THEN "provider_disabled"
  ELSE IF ResolveCredential(s, in) # NoCred THEN "ok"
  ELSE IF p.auth = "oauth2" THEN "oauth_required" ELSE "missing_credential"

Resolve(r) ==
  /\ pc[r] = "resolve"
  /\ LET o == Refusal(snap[r], input[r]) IN
       IF o = "ok"
         THEN /\ cred' = [cred EXCEPT ![r] = ResolveCredential(snap[r], input[r])]
              /\ goto(r, "limit") /\ UNCHANGED outcome
         ELSE ends(r, o) /\ goto(r, "done") /\ UNCHANGED cred
  /\ UNCHANGED <<config, since, taken, input, snap, called, tokens, fired, journal>>

\* Mutant: a refusal is answered without an audit entry.
LimitSilent(r, verdict) ==
  /\ pc[r] = "limit"
  /\ IF verdict = "ok" THEN goto(r, "screen") /\ UNCHANGED outcome
                       ELSE goto(r, "done") /\ ends(r, verdict)
  /\ UNCHANGED <<config, since, taken, input, snap, cred, called, tokens, fired, journal>>

\* Limiter.Allow; a refusal is audited and answered with 429.
Limit(r, verdict) ==
  /\ pc[r] = "limit"
  /\ IF verdict = "ok" THEN goto(r, "screen") /\ UNCHANGED outcome
                       ELSE goto(r, "count") /\ ends(r, verdict)
  /\ UNCHANGED <<config, since, taken, input, snap, cred, called, tokens, fired, journal>>

\* policy.Apply on the prompt: every firing raises an alert, a block is audited
\* and answered with 422.
Screen(r) ==
  LET f == input[r].finding IN
  /\ pc[r] = "screen"
  /\ fired' = [fired EXCEPT ![r] = IF f = None THEN {} ELSE {"prompt"}]
  /\ alerts' = IF f = None THEN alerts ELSE alerts \cup {<<r, "prompt">>}
  /\ IF f = "block" THEN goto(r, "count") /\ ends(r, "policy_blocked")
                    ELSE goto(r, "dispatch") /\ UNCHANGED outcome
  /\ UNCHANGED <<config, since, taken, input, snap, cred, called, tokens,
                 trail, billed, mRequests, mErrors, mTokens>>

\* Tools for a provider without them, or a base URL no request can be built
\* from; otherwise Client.Do sends the request.
Dispatch(r, built) ==
  LET o == IF input[r].tools /\ snap[r].providers[input[r].provider].type # "openai"
             THEN "tools_unsupported" ELSE IF built THEN "ok" ELSE "build_failed" IN
  /\ pc[r] = "dispatch"
  /\ IF o = "ok" THEN /\ called' = [called EXCEPT ![r] = TRUE]
                      /\ goto(r, "waiting") /\ UNCHANGED outcome
                 ELSE ends(r, o) /\ goto(r, "done") /\ UNCHANGED called
  /\ UNCHANGED <<config, since, taken, input, snap, cred, tokens, fired, journal>>

\* No answer (a refused connection, the 120 s timeout, a client that left), a
\* status of 400 or more, or a body that does not parse.
Fails(r, o) ==
  /\ pc[r] = "waiting" /\ o \in Failed \ {"stream_error"}
  /\ o = "parse_error" => ~input[r].stream
  /\ ends(r, o) /\ goto(r, "count")
  /\ UNCHANGED <<config, since, taken, input, snap, cred, called, tokens, fired, journal>>

\* A completion with n tokens; with response masking its findings are alerts
\* too.  A stream may break off (whole is FALSE), with the usage decoded so far.
Replies(r, n, found, whole) ==
  LET hits == IF found /\ snap[r].mask THEN {"response"} ELSE {} IN
  /\ pc[r] = "waiting" /\ (whole \/ input[r].stream)
  /\ tokens' = [tokens EXCEPT ![r] = n]
  /\ fired' = [fired EXCEPT ![r] = @ \cup hits]
  /\ alerts' = alerts \cup {<<r, h>> : h \in hits}
  /\ ends(r, IF whole THEN "ok" ELSE "stream_error") /\ goto(r, "bill")
  /\ UNCHANGED <<config, since, taken, input, snap, cred, called,
                 trail, billed, mRequests, mErrors, mTokens>>

\* Mutant: only a complete answer is billed.
BillWhole(r) ==
  /\ pc[r] = "bill" /\ goto(r, "count")
  /\ billed' = [billed EXCEPT ![input[r].user] =
                  IF outcome[r] = "ok" THEN @ + tokens[r] ELSE @]
  /\ UNCHANGED <<config, since, taken, input, snap, cred, called, outcome, tokens,
                 fired, alerts, trail, mRequests, mErrors, mTokens>>

Bill(r) ==
  /\ pc[r] = "bill" /\ goto(r, "count")
  /\ billed' = [billed EXCEPT ![input[r].user] = @ + tokens[r]]
  /\ UNCHANGED <<config, since, taken, input, snap, cred, called, outcome, tokens,
                 fired, alerts, trail, mRequests, mErrors, mTokens>>

\* audit(): the three atomic counters, then Audit.Enqueue.
Count(r) ==
  /\ pc[r] = "count" /\ goto(r, "enqueue")
  /\ mRequests' = mRequests + 1
  /\ mTokens' = mTokens + tokens[r]
  /\ mErrors' = IF outcome[r] = "ok" THEN mErrors ELSE mErrors + 1
  /\ UNCHANGED <<config, since, taken, input, snap, cred, called, outcome, tokens,
                 fired, alerts, trail, billed>>

\* Mutant: the entry is built without the policies that fired.
EnqueueBare(r) ==
  /\ pc[r] = "enqueue" /\ goto(r, "done")
  /\ trail' = [trail EXCEPT ![r] =
                 Append(@, [user |-> input[r].user, status |-> outcome[r],
                            tokens |-> tokens[r], policies |-> {}])]
  /\ UNCHANGED <<config, since, taken, input, snap, cred, called, outcome, tokens,
                 fired, alerts, billed, mRequests, mErrors, mTokens>>

Enqueue(r) ==
  /\ pc[r] = "enqueue" /\ goto(r, "done")
  /\ trail' = [trail EXCEPT ![r] =
                 Append(@, [user |-> input[r].user, status |-> outcome[r],
                            tokens |-> tokens[r], policies |-> fired[r]])]
  /\ UNCHANGED <<config, since, taken, input, snap, cred, called, outcome, tokens,
                 fired, alerts, billed, mRequests, mErrors, mTokens>>

\* The upstream's part, and the handler's.
Upstream(r) == \/ \E o \in Failed : Fails(r, o)
               \/ \E n \in 0 .. MaxTok, found, whole \in BOOLEAN :
                     Replies(r, n, found, whole)
Handle(r) == \/ Verify(r) \/ Resolve(r) \/ Screen(r)
             \/ \E v \in {"ok", "rate_limited", "quota_exceeded"} : Limit(r, v)
             \/ \E built \in BOOLEAN : Dispatch(r, built)
             \/ Upstream(r) \/ Bill(r) \/ Count(r) \/ Enqueue(r)

Next == \/ \E c \in Config : Configure(c)
        \/ Sync
        \/ \E r \in Request : Arrive(r) \/ Handle(r)

Spec == Init /\ [][Next]_vars

-----------------------------------------------------------------------------
(* Properties *)

\* The credential c entitles request in under snapshot s: the user's own key,
\* his token for this very provider, or the shared key of an active provider.
Entitled(s, in, c) ==
  LET p == s.providers[in.provider] IN
  \/ c = <<"own", in.user, p.type>> /\ <<in.user, p.type>> \in s.userOwnKeys
  \/ /\ c = <<"oauth", in.user, in.provider>> /\ p.auth = "oauth2" /\ p.active
     /\ <<in.user, in.provider>> \in s.userTokens
  \/ c = <<"shared", in.provider>> /\ p.key /\ p.active

\* Whatever is configured and synced meanwhile, an upstream call is backed by ONE
\* snapshot, in force at some moment since the request arrived: its key is not
\* revoked there, its provider exists, and the credential sent is one it is
\* entitled to; its prompt was not to be blocked.
CallJustified ==
  \A r \in Request : called[r] =>
     /\ taken[r] \in since[r] .. Len(installed) /\ snap[r] = installed[taken[r]]
     /\ input[r].signed /\ input[r].kid \notin snap[r].blocked
     /\ input[r].provider \in DOMAIN snap[r].providers
     /\ Entitled(snap[r], input[r], cred[r])
     /\ input[r].finding # "block"

\* No request is audited twice, and every path out of the handler after the
\* limiter refused, the policy blocked or the upstream was called leaves an
\* entry, with that outcome and the tokens reported.  (docs/FLOW.md, 7, promises
\* an entry for every request; the answers in Unaudited return without one.)
AuditedOnce ==
  \A r \in Request :
     /\ Len(trail[r]) <= 1
     /\ pc[r] = "done" /\ (called[r] \/ outcome[r] \in Refused) =>
          /\ trail[r] # <<>>
          /\ trail[r][1].status = outcome[r] /\ trail[r][1].tokens = tokens[r]

\* The policies an entry names are those the request raised alerts for.
PoliciesAccounted ==
  \A r \in Request : pc[r] = "done" /\ trail[r] # <<>> =>
     trail[r][1].policies = {w \in Where : <<r, w>> \in alerts}

Done == {r \in Request : pc[r] = "done" /\ trail[r] # <<>>}

\* The tokens that the entries of the requests in S report, each told apart by
\* its request and its number there.
Tokens(S) == {x \in S \X (1 .. MaxTok) : x[2] <= trail[x[1]][1].tokens}

\* Whenever no request is under way, the quota counters, the metrics and the
\* audit trail tell the same story: requests, errors, and tokens per user.
Reconciled ==
  (\A r \in Request : pc[r] \in {"idle", "done"}) =>
    /\ mRequests = Cardinality(Done)
    /\ mErrors = Cardinality({r \in Done : trail[r][1].status # "ok"})
    /\ mTokens = Cardinality(Tokens(Done))
    /\ \A u \in User :
         billed[u] = Cardinality(Tokens({r \in Done : trail[r][1].user = u}))
=============================================================================
