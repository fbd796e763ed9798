--------------------------- MODULE GatewayProofs ---------------------------
(***************************************************************************)
(* For every set of requests, configurations and inputs: upstream calls are   *)
(* backed by one snapshot, the audit trail has exactly the entries the        *)
(* handler owes, and the counters agree with it.                              *)
(***************************************************************************)
EXTENDS Gateway, FiniteSetTheorems, SequenceTheorems, TLAPS

\* The snapshots in force form a history that ends in the current one.
History == /\ Len(installed) \in Nat \ {0}
           /\ current = installed[Len(installed)]

\* Request r holds a snapshot that was in force since it arrived.
Holds(r) == /\ since[r] \in Nat /\ taken[r] \in Nat \ {0}
            /\ taken[r] \in since[r] .. Len(installed)
            /\ snap[r] = installed[taken[r]]
            /\ input[r].signed

\* What Resolve has checked.
Admitted(r) == /\ input[r].kid \notin snap[r].blocked
               /\ input[r].provider \in DOMAIN snap[r].providers
               /\ Entitled(snap[r], input[r], cred[r])

Checked == {"limit", "screen", "dispatch", "waiting", "bill"}

Stage(r) ==
  /\ pc[r] = "arrived" => since[r] \in Nat /\ since[r] <= Len(installed)
  /\ pc[r] \in Checked \cup {"resolve"} => Holds(r)
  /\ pc[r] \in Checked => Admitted(r)
  /\ pc[r] \in {"dispatch", "waiting", "bill"} => input[r].finding # "block"
  /\ called[r] => /\ pc[r] \in {"waiting", "bill", "count", "enqueue", "done"}
                  /\ Holds(r) /\ Admitted(r) /\ input[r].finding # "block"
  /\ pc[r] \in {"waiting", "bill"} => called[r]

\* The audit side of request r.
Owes(r) ==
  /\ pc[r] # "done" => trail[r] = <<>>
  /\ pc[r] = "bill" => outcome[r] \in {"ok", "stream_error"}
  /\ pc[r] \in {"count", "enqueue"} =>
        outcome[r] \in Audited /\ (called[r] \/ outcome[r] \in Refused)
  /\ pc[r] = "done" =>
       IF called[r] \/ outcome[r] \in Refused
         THEN /\ Len(trail[r]) = 1
              /\ trail[r][1].status = outcome[r] /\ trail[r][1].tokens = tokens[r]
         ELSE trail[r] = <<>>

\* What fired for request r is what it raised alerts for, and what its entry says.
Fires(r) ==
  /\ pc[r] \in {"idle", "arrived", "resolve", "limit", "screen"} => fired[r] = {}
  /\ \A w : w \in fired[r] <=> <<r, w>> \in alerts
  /\ fired[r] \subseteq Where
  /\ pc[r] = "done" /\ trail[r] # <<>> => trail[r][1].policies = fired[r]

IInv == TypeOK /\ History /\ \A r \in Request : Stage(r) /\ Owes(r) /\ Fires(r)

-----------------------------------------------------------------------------
(* Types *)

LEMMA InputType ==
  ASSUME TypeOK, NEW r \in Request
  PROVE  input[r] \in ChatRequest /\ input[r].user \in User
         /\ input[r].provider \in Provider /\ input[r].finding \in {None, "mask", "block"}
BY GatewayAssumption DEF TypeOK, ChatRequest

\* A provider found in a snapshot is a well-formed provider.
LEMMA ProviderType ==
  ASSUME NEW s \in InForce, NEW p \in DOMAIN s.providers
  PROVE  s.providers[p] \in Providers
<1>1. CASE s \in Config
  <2>1. s \in Snapshot
    BY <1>1, GatewayAssumption
  <2>2. PICK D \in SUBSET Provider : s.providers \in [D -> Providers]
    BY <2>1 DEF Snapshot
  <2> QED BY <2>2
<1>2. CASE s = emptySnapshot
  <2>1. s.providers = <<>>
    BY <1>2 DEF emptySnapshot
  <2>2. DOMAIN s.providers = {}
    BY <2>1
  <2> QED BY <2>2
<1> QED BY <1>1, <1>2 DEF InForce

\* ResolveCredential hands out nothing the request is not entitled to.
LEMMA CredentialEntitled ==
  ASSUME NEW s \in InForce, NEW in \in ChatRequest,
         Refusal(s, in) = "ok"
  PROVE  /\ ResolveCredential(s, in) \in Credential
         /\ in.kid \notin s.blocked /\ in.provider \in DOMAIN s.providers
         /\ Entitled(s, in, ResolveCredential(s, in))
<1> DEFINE p == s.providers[in.provider]
<1>1. /\ in.kid \notin s.blocked /\ in.provider \in DOMAIN s.providers
      /\ p.active \/ HasOwnKey(s, in)
      /\ ResolveCredential(s, in) # NoCred
  BY DEF Refusal
<1>2. p \in Providers /\ p.type \in Type
  BY <1>1, ProviderType DEF Providers
<1>3. in.user \in User /\ in.provider \in Provider
  BY DEF ChatRequest
<1>4. CASE HasOwnKey(s, in)
  <2>1. ResolveCredential(s, in) = <<"own", in.user, p.type>>
    BY <1>4 DEF ResolveCredential
  <2> QED BY <1>1, <1>2, <1>3, <1>4, <2>1 DEF Credential, Entitled, HasOwnKey
<1>5. CASE ~HasOwnKey(s, in) /\ p.auth = "oauth2" /\ <<in.user, in.provider>> \in s.userTokens
  <2>1. ResolveCredential(s, in) = <<"oauth", in.user, in.provider>>
    BY <1>5 DEF ResolveCredential
  <2> QED BY <1>1, <1>3, <1>5, <2>1 DEF Credential, Entitled
<1>6. CASE ~HasOwnKey(s, in) /\ ~(p.auth = "oauth2" /\ <<in.user, in.provider>> \in s.userTokens)
  <2>1. p.key /\ ResolveCredential(s, in) = <<"shared", in.provider>>
    BY <1>1, <1>6 DEF ResolveCredential
  <2> QED BY <1>1, <1>3, <1>6, <2>1 DEF Credential, Entitled
<1> QED BY <1>4, <1>5, <1>6

-----------------------------------------------------------------------------
(* The inductive invariant *)

Same(q) == /\ since'[q] = since[q] /\ taken'[q] = taken[q] /\ pc'[q] = pc[q]
           /\ input'[q] = input[q] /\ snap'[q] = snap[q] /\ cred'[q] = cred[q]
           /\ called'[q] = called[q] /\ outcome'[q] = outcome[q]
           /\ tokens'[q] = tokens[q] /\ fired'[q] = fired[q] /\ trail'[q] = trail[q]

Parts(q) == Stage(q) /\ Owes(q) /\ Fires(q)

\* A request keeps its invariant while another one moves.
LEMMA Frame ==
  ASSUME NEW q \in Request, Parts(q), Same(q), installed' = installed,
         \A w : <<q, w>> \in alerts' <=> <<q, w>> \in alerts
  PROVE  Parts(q)'
<1>1. Stage(q)'
  BY DEF Parts, Same, Stage, Holds, Admitted, Checked
<1>2. Owes(q)'
  BY DEF Parts, Same, Owes
<1>3. Fires(q)'
  BY DEF Parts, Same, Fires
<1> QED BY <1>1, <1>2, <1>3 DEF Parts

\* So does every request when the history of snapshots grows.
LEMMA FrameSync ==
  ASSUME NEW q \in Request, TypeOK, History, Parts(q), Same(q),
         NEW c \in InForce, installed' = Append(installed, c),
         alerts' = alerts
  PROVE  Parts(q)'
<1>1. /\ Len(installed') = Len(installed) + 1 /\ Len(installed) \in Nat
      /\ \A i \in 1 .. Len(installed) : installed'[i] = installed[i]
  BY AppendProperties DEF TypeOK, History
<1>2. Holds(q) => Holds(q)'
  BY <1>1 DEF Same, Holds
<1>3. Admitted(q) => Admitted(q)'
  BY DEF Same, Admitted
<1>4. Stage(q)'
  BY <1>1, <1>2, <1>3 DEF Parts, Same, Stage, Checked
<1>5. Owes(q)'
  BY DEF Parts, Same, Owes
<1>6. Fires(q)'
  BY DEF Parts, Same, Fires
<1> QED BY <1>4, <1>5, <1>6 DEF Parts

LEMMA InitIInv == Init => IInv
<1> SUFFICES ASSUME Init PROVE IInv
  OBVIOUS
<1>1. current \in InForce /\ installed \in Seq(InForce) /\ Len(installed) = 1
      /\ installed[1] = current
  BY DEF Init, InForce
<1>2. TypeOK
  BY <1>1, GatewayAssumption DEF Init, TypeOK, Credential, Where
<1>3. History
  BY <1>1 DEF History
<1>4. ASSUME NEW r \in Request PROVE Stage(r) /\ Owes(r) /\ Fires(r)
  BY DEF Init, Stage, Owes, Fires, Checked
<1> QED BY <1>2, <1>3, <1>4 DEF IInv

LEMMA NextIInv == IInv /\ [Next]_vars => IInv'
<1> SUFFICES ASSUME IInv, [Next]_vars PROVE IInv'
  OBVIOUS
<1>0. TypeOK /\ History /\ \A r \in Request : Parts(r)
  BY DEF IInv, Parts
<1> USE <1>0
<1> USE DEF IInv
<1>1. ASSUME NEW c \in Config, Configure(c) PROVE IInv'
  <2>1. TypeOK' /\ History'
    BY <1>1, GatewayAssumption DEF Configure, TypeOK, History, journal
  <2>2. ASSUME NEW q \in Request PROVE Parts(q)'
    BY <1>1, Frame DEF Configure, Same, journal
  <2> QED BY <2>1, <2>2 DEF Parts
<1>2. ASSUME Sync PROVE IInv'
  <2>1. db \in InForce /\ installed \in Seq(InForce)
    BY DEF TypeOK, InForce
  <2>2. TypeOK'
    BY <1>2, <2>1, AppendProperties DEF Sync, TypeOK, journal
  <2>3. History'
    BY <1>2, <2>1, AppendProperties DEF Sync, History
  <2>4. ASSUME NEW q \in Request PROVE Parts(q)'
    BY <1>2, <2>1, FrameSync DEF Sync, Same, journal
  <2> QED BY <2>2, <2>3, <2>4 DEF Parts
<1>3. ASSUME NEW r \in Request, Arrive(r) PROVE IInv'
  <2>1. TypeOK'
    BY <1>3 DEF Arrive, TypeOK, goto, ends, config, journal
  <2>2. History'
    BY <1>3 DEF Arrive, History, config
  <2>3. ASSUME NEW q \in Request, q # r PROVE Parts(q)'
    <3>1. Same(q) /\ installed' = installed /\ \A w : <<q, w>> \in alerts' <=> <<q, w>> \in alerts
      BY <1>3, <2>3 DEF Arrive, Same, TypeOK, goto, ends, config, journal
    <3> QED BY <3>1, Frame
  <2>4. Parts(r)'
    <3>1. Stage(r)'
      <4>1. ~called[r] /\ pc[r] = "idle"
        BY <1>3 DEF Arrive, Parts, Stage
      <4>2. ~called'[r] /\ pc'[r] = "arrived" /\ since'[r] = Len(installed)
            /\ installed' = installed
        BY <1>3, <4>1 DEF Arrive, TypeOK, goto, config
      <4> QED BY <4>2 DEF Stage, Checked, History
    <3>2. Owes(r)'
      BY <1>3 DEF Arrive, Parts, Owes, Stage, TypeOK, goto, ends, config, journal, Refused, Failed, Audited, Unaudited
    <3>3. Fires(r)'
      BY <1>3 DEF Arrive, Parts, Fires, Owes, TypeOK, goto, ends, config, journal, Where
    <3> QED BY <3>1, <3>2, <3>3 DEF Parts
  <2> QED BY <2>1, <2>2, <2>3, <2>4 DEF Parts
<1>4. ASSUME NEW r \in Request, Verify(r) PROVE IInv'
  <2>1. TypeOK'
    <3>1. snap' \in [Request -> InForce] /\ taken' \in [Request -> Nat]
      BY <1>4 DEF Verify, TypeOK, History
    <3>2. outcome' \in [Request -> Unaudited \cup Audited \cup {None}]
      BY <1>4 DEF Verify, TypeOK, ends, Unaudited
    <3> QED BY <1>4, <3>1, <3>2 DEF Verify, TypeOK, goto, config, journal
  <2>2. History'
    BY <1>4 DEF Verify, History, config
  <2>3. ASSUME NEW q \in Request, q # r PROVE Parts(q)'
    <3>1. Same(q) /\ installed' = installed /\ \A w : <<q, w>> \in alerts' <=> <<q, w>> \in alerts
      BY <1>4, <2>3 DEF Verify, Same, TypeOK, goto, ends, config, journal
    <3> QED BY <3>1, Frame
  <2>4. Parts(r)'
    <3>0. ~called[r] /\ ~called'[r] /\ trail'[r] = trail[r] /\ trail[r] = <<>>
      BY <1>4 DEF Verify, Parts, Stage, Owes, journal
    <3>1. Stage(r)'
      <4>1. CASE input[r].signed
        <5>1. pc'[r] = "resolve" /\ taken'[r] = Len(installed) /\ snap'[r] = current
              /\ UNCHANGED <<since, input, installed>>
          BY <1>4, <4>1 DEF Verify, TypeOK, goto, config
        <5>2. since[r] \in Nat /\ since[r] <= Len(installed)
          BY <1>4 DEF Verify, Parts, Stage
        <5>3. Holds(r)'
          BY <4>1, <5>1, <5>2 DEF Holds, History
        <5> QED BY <3>0, <5>1, <5>3 DEF Stage, Checked
      <4>2. CASE ~input[r].signed
        <5>1. pc'[r] = "done"
          BY <1>4, <4>2 DEF Verify, TypeOK, goto
        <5> QED BY <3>0, <5>1 DEF Stage, Checked
      <4> QED BY <4>1, <4>2
    <3>2. Owes(r)'
      <4>1. \/ pc'[r] = "resolve"
            \/ pc'[r] = "done" /\ outcome'[r] = "invalid_api_key"
        BY <1>4 DEF Verify, TypeOK, goto, ends
      <4> QED BY <3>0, <4>1 DEF Owes, Refused
    <3>3. Fires(r)'
      BY <1>4 DEF Verify, Parts, Fires, Owes, TypeOK, goto, ends, config, journal, Where
    <3> QED BY <3>1, <3>2, <3>3 DEF Parts
  <2> QED BY <2>1, <2>2, <2>3, <2>4 DEF Parts
<1>5. ASSUME NEW r \in Request, Resolve(r) PROVE IInv'
  <2>1. TypeOK'
    <3>1. Refusal(snap[r], input[r]) \in Unaudited \cup {"ok"}
      BY DEF Refusal, Unaudited
    <3>2. Refusal(snap[r], input[r]) = "ok" =>
            ResolveCredential(snap[r], input[r]) \in Credential
      BY CredentialEntitled, InputType DEF TypeOK
    <3> HIDE DEF IInv
    <3>3. pc' \in [Request -> {"idle", "arrived", "resolve", "limit", "screen", "dispatch",
                              "waiting", "bill", "count", "enqueue", "done"}]
      <4>1. pc' = [pc EXCEPT ![r] = "limit"] \/ pc' = [pc EXCEPT ![r] = "done"]
        BY <1>5 DEF Resolve, goto
      <4> QED BY <4>1 DEF TypeOK
    <3>4. outcome' \in [Request -> Unaudited \cup Audited \cup {None}]
      BY <1>5, <3>1 DEF Resolve, TypeOK, ends
    <3>5. cred' \in [Request -> Credential]
      BY <1>5, <3>2 DEF Resolve, TypeOK
    <3>6. UNCHANGED <<config, since, taken, input, snap, called, tokens, fired, journal>>
      BY <1>5 DEF Resolve
    <3> QED BY <3>3, <3>4, <3>5, <3>6 DEF TypeOK, config, journal
  <2>2. History'
    BY <1>5 DEF Resolve, History, config
  <2>3. ASSUME NEW q \in Request, q # r PROVE Parts(q)'
    <3>1. Same(q) /\ installed' = installed /\ \A w : <<q, w>> \in alerts' <=> <<q, w>> \in alerts
      BY <1>5, <2>3 DEF Resolve, Same, TypeOK, goto, ends, config, journal
    <3> QED BY <3>1, Frame
  <2>4. Parts(r)'
    <3>0. ~called[r] /\ ~called'[r] /\ trail'[r] = trail[r] /\ trail[r] = <<>>
      BY <1>5 DEF Resolve, Parts, Stage, Owes, journal
    <3>1. Stage(r)'
      <4>1. CASE Refusal(snap[r], input[r]) = "ok"
        <5>1. pc'[r] = "limit" /\ cred'[r] = ResolveCredential(snap[r], input[r])
              /\ UNCHANGED <<since, taken, snap, input, installed>>
          BY <1>5, <4>1 DEF Resolve, TypeOK, goto, config
        <5>2. Holds(r)'
          BY <1>5, <5>1 DEF Resolve, Parts, Stage, Holds
        <5>3. Admitted(r)'
          <6>1. snap[r] \in InForce /\ input[r] \in ChatRequest /\ input[r].signed
            BY <1>5, InputType DEF TypeOK, Resolve, Parts, Stage, Holds
          <6>2. /\ input[r].kid \notin snap[r].blocked
                /\ input[r].provider \in DOMAIN snap[r].providers
                /\ Entitled(snap[r], input[r], ResolveCredential(snap[r], input[r]))
            BY <4>1, <6>1, CredentialEntitled
          <6> QED BY <5>1, <6>1, <6>2 DEF Admitted
        <5> QED BY <3>0, <5>1, <5>2, <5>3 DEF Stage, Checked
      <4>2. CASE Refusal(snap[r], input[r]) # "ok"
        <5>1. pc'[r] = "done"
          BY <1>5, <4>2 DEF Resolve, TypeOK, goto
        <5> QED BY <3>0, <5>1 DEF Stage, Checked
      <4> QED BY <4>1, <4>2
    <3>2. Owes(r)'
      <4>1. Refusal(snap[r], input[r]) \notin Refused
        BY DEF Refusal, Refused
      <4>2. \/ pc'[r] = "limit"
            \/ pc'[r] = "done" /\ outcome'[r] = Refusal(snap[r], input[r])
        BY <1>5 DEF Resolve, TypeOK, goto, ends
      <4> QED BY <3>0, <4>1, <4>2 DEF Owes
    <3>3. Fires(r)'
      BY <1>5 DEF Resolve, Parts, Fires, Owes, TypeOK, goto, ends, config, journal, Where
    <3> QED BY <3>1, <3>2, <3>3 DEF Parts
  <2> QED BY <2>1, <2>2, <2>3, <2>4 DEF Parts
<1>6. ASSUME NEW r \in Request, NEW v \in {"ok", "rate_limited", "quota_exceeded"}, Limit(r, v) PROVE IInv'
  <2>1. TypeOK'
    BY <1>6
    DEF Limit, TypeOK, goto, ends, config, journal, Audited, Refused
  <2>2. History'
    BY <1>6 DEF Limit, History, config
  <2>3. ASSUME NEW q \in Request, q # r PROVE Parts(q)'
    <3>1. Same(q) /\ installed' = installed /\ \A w : <<q, w>> \in alerts' <=> <<q, w>> \in alerts
      BY <1>6, <2>3 DEF Limit, Same, TypeOK, goto, ends, config, journal
    <3> QED BY <3>1, Frame
  <2>4. Parts(r)'
    <3>1. Stage(r)'
      <4>1. pc'[r] \in {"screen", "count"} /\ ~called'[r]
        BY <1>6 DEF Limit, Parts, Stage, TypeOK, goto
      <4>2. Holds(r)' /\ Admitted(r)'
        BY <1>6 DEF Limit, Parts, Stage, Checked, Holds, Admitted, config
      <4> QED BY <4>1, <4>2 DEF Stage
    <3>2. Owes(r)'
      BY <1>6 DEF Limit, Parts, Owes, Stage, TypeOK, goto, ends, config, journal, Refused, Failed, Audited, Unaudited
    <3>3. Fires(r)'
      BY <1>6 DEF Limit, Parts, Fires, Owes, TypeOK, goto, ends, config, journal, Where
    <3> QED BY <3>1, <3>2, <3>3 DEF Parts
  <2> QED BY <2>1, <2>2, <2>3, <2>4 DEF Parts
<1>7. ASSUME NEW r \in Request, Screen(r) PROVE IInv'
  <2>1. TypeOK'
    <3>1. fired' \in [Request -> SUBSET Where]
      BY <1>7 DEF Screen, TypeOK, Where
    <3>2. alerts' \subseteq Request \X Where
      BY <1>7 DEF Screen, TypeOK, Where
    <3>3. outcome' \in [Request -> Unaudited \cup Audited \cup {None}]
      BY <1>7 DEF Screen, TypeOK, ends, Audited, Refused
    <3>4. pc' \in [Request -> {"idle", "arrived", "resolve", "limit", "screen", "dispatch",
                              "waiting", "bill", "count", "enqueue", "done"}]
      <4>1. pc' = [pc EXCEPT ![r] = "count"] \/ pc' = [pc EXCEPT ![r] = "dispatch"]
        BY <1>7 DEF Screen, goto
      <4> QED BY <4>1 DEF TypeOK
    <3>5. UNCHANGED <<config, since, taken, input, snap, cred, called, tokens,
                      trail, billed, mRequests, mErrors, mTokens>>
      BY <1>7 DEF Screen
    <3> QED BY <3>1, <3>2, <3>3, <3>4, <3>5 DEF TypeOK, config
  <2>2. History'
    BY <1>7 DEF Screen, History, config
  <2>3. ASSUME NEW q \in Request, q # r PROVE Parts(q)'
    <3>1. Same(q) /\ installed' = installed /\ \A w : <<q, w>> \in alerts' <=> <<q, w>> \in alerts
      BY <1>7, <2>3 DEF Screen, Same, TypeOK, goto, ends, config, journal
    <3> QED BY <3>1, Frame
  <2>4. Parts(r)'
    <3>1. Stage(r)'
      <4>1. ~called[r] /\ ~called'[r] /\ Holds(r) /\ Admitted(r)
        BY <1>7 DEF Screen, Parts, Stage, Checked
      <4>2. Holds(r)' /\ Admitted(r)'
        BY <1>7, <4>1 DEF Screen, Holds, Admitted, config
      <4>3. pc'[r] = IF input[r].finding = "block" THEN "count" ELSE "dispatch"
        BY <1>7 DEF Screen, TypeOK, goto
      <4>4. input' = input
        BY <1>7 DEF Screen
      <4> QED BY <4>1, <4>2, <4>3, <4>4 DEF Stage, Checked
    <3>2. Owes(r)'
      BY <1>7 DEF Screen, Parts, Owes, Stage, TypeOK, goto, ends, config, journal, Refused, Failed, Audited, Unaudited
    <3>3. Fires(r)'
      BY <1>7 DEF Screen, Parts, Fires, Owes, TypeOK, goto, ends, config, journal, Where
    <3> QED BY <3>1, <3>2, <3>3 DEF Parts
  <2> QED BY <2>1, <2>2, <2>3, <2>4 DEF Parts
<1>8. ASSUME NEW r \in Request, NEW built \in BOOLEAN, Dispatch(r, built) PROVE IInv'
  <2>1. TypeOK'
    BY <1>8
    DEF Dispatch, TypeOK, goto, ends, config, journal, Unaudited
  <2>2. History'
    BY <1>8 DEF Dispatch, History, config
  <2>3. ASSUME NEW q \in Request, q # r PROVE Parts(q)'
    <3>1. Same(q) /\ installed' = installed /\ \A w : <<q, w>> \in alerts' <=> <<q, w>> \in alerts
      BY <1>8, <2>3 DEF Dispatch, Same, TypeOK, goto, ends, config, journal
    <3> QED BY <3>1, Frame
  <2>4. Parts(r)'
    <3>1. Stage(r)'
      BY <1>8 DEF Dispatch, Parts, Stage, Holds, Admitted, Checked, TypeOK, History, goto, ends, config, journal
    <3>2. Owes(r)'
      BY <1>8 DEF Dispatch, Parts, Owes, Stage, TypeOK, goto, ends, config, journal, Refused, Failed, Audited, Unaudited
    <3>3. Fires(r)'
      BY <1>8 DEF Dispatch, Parts, Fires, Owes, TypeOK, goto, ends, config, journal, Where
    <3> QED BY <3>1, <3>2, <3>3 DEF Parts
  <2> QED BY <2>1, <2>2, <2>3, <2>4 DEF Parts
<1>9. ASSUME NEW r \in Request, NEW o \in Failed, Fails(r, o) PROVE IInv'
  <2>1. TypeOK'
    BY <1>9
    DEF Fails, TypeOK, goto, ends, config, journal, Audited, Failed
  <2>2. History'
    BY <1>9 DEF Fails, History, config
  <2>3. ASSUME NEW q \in Request, q # r PROVE Parts(q)'
    <3>1. Same(q) /\ installed' = installed /\ \A w : <<q, w>> \in alerts' <=> <<q, w>> \in alerts
      BY <1>9, <2>3 DEF Fails, Same, TypeOK, goto, ends, config, journal
    <3> QED BY <3>1, Frame
  <2>4. Parts(r)'
    <3>1. Stage(r)'
      BY <1>9 DEF Fails, Parts, Stage, Holds, Admitted, Checked, TypeOK, History, goto, ends, config, journal
    <3>2. Owes(r)'
      BY <1>9 DEF Fails, Parts, Owes, Stage, TypeOK, goto, ends, config, journal, Refused, Failed, Audited, Unaudited
    <3>3. Fires(r)'
      BY <1>9 DEF Fails, Parts, Fires, Owes, TypeOK, goto, ends, config, journal, Where
    <3> QED BY <3>1, <3>2, <3>3 DEF Parts
  <2> QED BY <2>1, <2>2, <2>3, <2>4 DEF Parts
<1>10. ASSUME NEW r \in Request, NEW n \in 0 .. MaxTok, NEW found \in BOOLEAN, NEW whole \in BOOLEAN,
              Replies(r, n, found, whole) PROVE IInv'
  <2>1. TypeOK'
    BY <1>10
    DEF Replies, TypeOK, goto, ends, config, journal, Audited, Failed, Where
  <2>2. History'
    BY <1>10 DEF Replies, History, config
  <2>3. ASSUME NEW q \in Request, q # r PROVE Parts(q)'
    <3>1. Same(q) /\ installed' = installed /\ \A w : <<q, w>> \in alerts' <=> <<q, w>> \in alerts
      BY <1>10, <2>3 DEF Replies, Same, TypeOK, goto, ends, config, journal
    <3> QED BY <3>1, Frame
  <2>4. Parts(r)'
    <3>1. Stage(r)'
      BY <1>10 DEF Replies, Parts, Stage, Holds, Admitted, Checked, TypeOK, History, goto, ends, config, journal
    <3>2. Owes(r)'
      BY <1>10 DEF Replies, Parts, Owes, Stage, TypeOK, goto, ends, config, journal, Refused, Failed, Audited, Unaudited
    <3>3. Fires(r)'
      BY <1>10 DEF Replies, Parts, Fires, Owes, TypeOK, goto, ends, config, journal, Where
    <3> QED BY <3>1, <3>2, <3>3 DEF Parts
  <2> QED BY <2>1, <2>2, <2>3, <2>4 DEF Parts
<1>11. ASSUME NEW r \in Request, Bill(r) PROVE IInv'
  <2>1. TypeOK'
    <3>1. tokens[r] \in Nat
      BY GatewayAssumption DEF TypeOK
    <3>2. input[r].user \in User
      BY InputType
    <3>3. billed' \in [User -> Nat]
      BY <1>11, <3>1, <3>2 DEF Bill, TypeOK
    <3> QED BY <1>11, <3>3 DEF Bill, TypeOK, goto, config
  <2>2. History'
    BY <1>11 DEF Bill, History, config
  <2>3. ASSUME NEW q \in Request, q # r PROVE Parts(q)'
    <3>1. Same(q) /\ installed' = installed /\ \A w : <<q, w>> \in alerts' <=> <<q, w>> \in alerts
      BY <1>11, <2>3 DEF Bill, Same, TypeOK, goto, ends, config, journal
    <3> QED BY <3>1, Frame
  <2>4. Parts(r)'
    <3>1. Stage(r)'
      BY <1>11 DEF Bill, Parts, Stage, Holds, Admitted, Checked, TypeOK, History, goto, ends, config, journal
    <3>2. Owes(r)'
      BY <1>11 DEF Bill, Parts, Owes, Stage, TypeOK, goto, ends, config, journal, Refused, Failed, Audited, Unaudited
    <3>3. Fires(r)'
      BY <1>11 DEF Bill, Parts, Fires, Owes, TypeOK, goto, ends, config, journal, Where
    <3> QED BY <3>1, <3>2, <3>3 DEF Parts
  <2> QED BY <2>1, <2>2, <2>3, <2>4 DEF Parts
<1>12. ASSUME NEW r \in Request, Count(r) PROVE IInv'
  <2>1. TypeOK'
    <3>1. tokens[r] \in Nat
      BY GatewayAssumption DEF TypeOK
    <3>2. mRequests' \in Nat /\ mTokens' \in Nat /\ mErrors' \in Nat
      BY <1>12, <3>1 DEF Count, TypeOK
    <3> QED BY <1>12, <3>2 DEF Count, TypeOK, goto, config
  <2>2. History'
    BY <1>12 DEF Count, History, config
  <2>3. ASSUME NEW q \in Request, q # r PROVE Parts(q)'
    <3>1. Same(q) /\ installed' = installed /\ \A w : <<q, w>> \in alerts' <=> <<q, w>> \in alerts
      BY <1>12, <2>3 DEF Count, Same, TypeOK, goto, ends, config, journal
    <3> QED BY <3>1, Frame
  <2>4. Parts(r)'
    <3>1. Stage(r)'
      BY <1>12 DEF Count, Parts, Stage, Holds, Admitted, Checked, TypeOK, History, goto, ends, config, journal
    <3>2. Owes(r)'
      BY <1>12 DEF Count, Parts, Owes, Stage, TypeOK, goto, ends, config, journal, Refused, Failed, Audited, Unaudited
    <3>3. Fires(r)'
      BY <1>12 DEF Count, Parts, Fires, Owes, TypeOK, goto, ends, config, journal, Where
    <3> QED BY <3>1, <3>2, <3>3 DEF Parts
  <2> QED BY <2>1, <2>2, <2>3, <2>4 DEF Parts
<1>13. ASSUME NEW r \in Request, Enqueue(r) PROVE IInv'
  <2>1. TypeOK'
    <3> DEFINE e == [user |-> input[r].user, status |-> outcome[r],
                     tokens |-> tokens[r], policies |-> fired[r]]
    <3>1. outcome[r] \in Audited /\ tokens[r] \in 0 .. MaxTok /\ fired[r] \in SUBSET Where
      BY <1>13 DEF Enqueue, Parts, Owes, TypeOK
    <3>2. e \in Entry
      BY <3>1, InputType DEF Entry
    <3>3. Append(trail[r], e) \in Seq(Entry)
      BY <3>2, AppendProperties DEF TypeOK
    <3> QED BY <1>13, <3>3 DEF Enqueue, TypeOK, goto, config
  <2>2. History'
    BY <1>13 DEF Enqueue, History, config
  <2>3. ASSUME NEW q \in Request, q # r PROVE Parts(q)'
    <3>1. Same(q) /\ installed' = installed /\ \A w : <<q, w>> \in alerts' <=> <<q, w>> \in alerts
      BY <1>13, <2>3 DEF Enqueue, Same, TypeOK, goto, ends, config, journal
    <3> QED BY <3>1, Frame
  <2>4. Parts(r)'
    <3>1. Stage(r)'
      BY <1>13 DEF Enqueue, Parts, Stage, Holds, Admitted, Checked, TypeOK, History, goto, ends, config, journal
    <3>2. Owes(r)'
      BY <1>13 DEF Enqueue, Parts, Owes, Stage, TypeOK, goto, ends, config, journal, Refused, Failed, Audited, Unaudited
    <3>3. Fires(r)'
      BY <1>13 DEF Enqueue, Parts, Fires, Owes, TypeOK, goto, ends, config, journal, Where
    <3> QED BY <3>1, <3>2, <3>3 DEF Parts
  <2> QED BY <2>1, <2>2, <2>3, <2>4 DEF Parts
<1>14. CASE UNCHANGED vars
  <2>1. TypeOK' /\ History'
    BY <1>14 DEF TypeOK, History, vars, config, journal
  <2>2. ASSUME NEW q \in Request PROVE Parts(q)'
    BY <1>14, Frame DEF Same, vars, config, journal
  <2> QED BY <2>1, <2>2 DEF Parts
<1> QED
  BY <1>1, <1>2, <1>3, <1>4, <1>5, <1>6, <1>7, <1>8, <1>9, <1>10, <1>11, <1>12,
     <1>13, <1>14 DEF Next, Handle, Upstream
-----------------------------------------------------------------------------
(* The theorems *)

LEMMA Invariance == Spec => []IInv
BY InitIInv, NextIInv, PTL DEF Spec

\* The handler's state stays well formed; in particular only outcomes that are
\* audited reach the trail.
THEOREM TypeCorrect == Spec => []TypeOK
<1>1. IInv => TypeOK
  BY DEF IInv
<1> QED BY <1>1, Invariance, PTL

\* Every upstream call is backed by one snapshot in force since the request
\* arrived, however many snapshots are installed while the request runs.
THEOREM CallJustifiedHolds == Spec => []CallJustified
<1>1. IInv => CallJustified
  BY DEF IInv, Stage, Holds, Admitted, CallJustified
<1> QED BY <1>1, Invariance, PTL

\* The handler leaves at most one audit entry, and the one it owes after a
\* refusal, a block or an upstream call, however requests interleave.
THEOREM AuditedOnceHolds == Spec => []AuditedOnce
<1>1. IInv => AuditedOnce
  <2> SUFFICES ASSUME IInv, NEW r \in Request
               PROVE  /\ Len(trail[r]) <= 1
                      /\ pc[r] = "done" /\ (called[r] \/ outcome[r] \in Refused) =>
                           /\ trail[r] # <<>>
                           /\ trail[r][1].status = outcome[r] /\ trail[r][1].tokens = tokens[r]
    BY DEF AuditedOnce
  <2>1. Owes(r)
    BY DEF IInv
  <2>2. Len(<<>>) = 0
    OBVIOUS
  <2>3. trail[r] = <<>> \/ Len(trail[r]) = 1
    BY <2>1 DEF Owes
  <2>4. Len(trail[r]) <= 1
    <3>1. PICK n \in {0, 1} : n = Len(trail[r])
      BY <2>2, <2>3, Zenon
    <3>2. n <= 1
      OBVIOUS
    <3> QED BY <3>1, <3>2, Zenon
  <2>5. ASSUME pc[r] = "done", called[r] \/ outcome[r] \in Refused
        PROVE  trail[r] # <<>> /\ trail[r][1].status = outcome[r] /\ trail[r][1].tokens = tokens[r]
    BY <2>1, <2>2, <2>5 DEF Owes
  <2> QED BY <2>4, <2>5
<1> QED BY <1>1, Invariance, PTL

\* An entry names the policies the request raised alerts for, no more, no less.
THEOREM PoliciesAccountedHolds == Spec => []PoliciesAccounted
<1>1. IInv => PoliciesAccounted
  <2> SUFFICES ASSUME IInv, NEW r \in Request, pc[r] = "done", trail[r] # <<>>
               PROVE  trail[r][1].policies = {w \in Where : <<r, w>> \in alerts}
    BY DEF PoliciesAccounted
  <2>1. /\ trail[r][1].policies = fired[r] /\ fired[r] \subseteq Where
        /\ \A w : w \in fired[r] <=> <<r, w>> \in alerts
    BY DEF IInv, Fires
  <2> QED BY <2>1
<1> QED BY <1>1, Invariance, PTL

-----------------------------------------------------------------------------
(* The books: what the counters count *)

Counts(S, n) == IsFiniteSet(S) /\ Cardinality(S) = n

\* Request r has been counted in the metrics; it has been billed.
Filed(r) == pc[r] = "enqueue" \/ (pc[r] = "done" /\ trail[r] # <<>>)
Paid(r) == pc[r] = "count" \/ Filed(r)

Unit == Request \X (1 .. MaxTok)
Counted == {r \in Request : Filed(r)}
Erred == {r \in Request : Filed(r) /\ outcome[r] # "ok"}
Spent == {x \in Unit : Filed(x[1]) /\ x[2] <= tokens[x[1]]}
Charged(u) == {x \in Unit : Paid(x[1]) /\ x[2] <= tokens[x[1]] /\ input[x[1]].user = u}

\* Tokens come with a reply only, and an entry is the user's who asked.
Unspent(r) ==
  /\ pc[r] \notin {"bill", "count", "enqueue", "done"} => tokens[r] = 0
  /\ trail[r] # <<>> => trail[r][1].user = input[r].user

Books ==
  /\ Counts(Counted, mRequests) /\ Counts(Erred, mErrors) /\ Counts(Spent, mTokens)
  /\ \A u \in User : Counts(Charged(u), billed[u])
  /\ \A r \in Request : Unspent(r)

\* The n tokens of request r.
Units(r, n) == {r} \X (1 .. n)

\* There are n of them.
LEMMA CountsUnits ==
  ASSUME NEW r, NEW n \in Nat PROVE Counts(Units(r, n), n)
<1>1. IsFiniteSet({r}) /\ Cardinality({r}) = 1
  BY FS_Singleton
<1>2. IsFiniteSet(1 .. n) /\ Cardinality(1 .. n) = n
  <2>1. PICK k \in Int, m \in Int : k = 1 /\ m = n
    OBVIOUS
  <2>2. IsFiniteSet(k .. m) /\ Cardinality(k .. m) = IF k > m THEN 0 ELSE m - k + 1
    BY FS_Interval
  <2> QED BY <2>1, <2>2
<1>3. PICK S, T : S = {r} /\ T = 1 .. n
  OBVIOUS
<1>4. IsFiniteSet(S \X T) /\ Cardinality(S \X T) = Cardinality(S) * Cardinality(T)
  BY <1>1, <1>2, <1>3, FS_Product
<1> QED BY <1>1, <1>2, <1>3, <1>4 DEF Counts, Units

\* Counting sets without common elements.
LEMMA CountsUnion ==
  ASSUME NEW S, NEW T, NEW m \in Nat, NEW n \in Nat, Counts(S, m), Counts(T, n), S \cap T = {}
  PROVE  Counts(S \cup T, m + n)
<1>1. IsFiniteSet(S \cup T) /\ Cardinality(S \cup T) = Cardinality(S) + Cardinality(T) - Cardinality({})
  BY FS_Union DEF Counts
<1>2. Cardinality({}) = 0
  BY FS_EmptySet
<1> QED BY <1>1, <1>2 DEF Counts

LEMMA CountsAdd ==
  ASSUME NEW S, NEW n \in Nat, Counts(S, n), NEW r, r \notin S
  PROVE  Counts(S \cup {r}, n + 1)
BY FS_AddElement DEF Counts

\* A step that neither files nor bills anything.
LEMMA QuietBooks ==
  ASSUME Books, UNCHANGED <<input, billed, mRequests, mErrors, mTokens>>,
         \A q \in Request : /\ Filed(q)' <=> Filed(q)
                            /\ Filed(q) => outcome'[q] = outcome[q] /\ tokens'[q] = tokens[q]
                            /\ \/ (Paid(q)' <=> Paid(q)) /\ (Paid(q) => tokens'[q] = tokens[q])
                               \/ tokens'[q] = 0 /\ tokens[q] = 0
                            /\ Unspent(q)'
  PROVE  Books'
<1>0. \A x \in Unit : x[1] \in Request /\ x[2] \in 1 .. MaxTok
  BY DEF Unit
<1>1. Counted' = Counted /\ Erred' = Erred
  BY DEF Counted, Erred
<1>2. Spent' = Spent
  BY <1>0 DEF Spent, Unit
<1>3. ASSUME NEW u \in User PROVE Charged(u)' = Charged(u)
  <2>1. ASSUME NEW x \in Unit PROVE x \in Charged(u)' <=> x \in Charged(u)
    BY <1>0 DEF Charged, Unit
  <2> QED BY <2>1 DEF Charged, Unit
<1> QED BY <1>1, <1>2, <1>3 DEF Books

\* Everything about request q that the books look at.
Kept(q) == pc'[q] = pc[q] /\ trail'[q] = trail[q] /\ tokens'[q] = tokens[q] /\ outcome'[q] = outcome[q]

\* A request that did not move is filed, billed and unspent as before.
LEMMA KeptBooks ==
  ASSUME NEW q \in Request, Kept(q), input' = input, Books
  PROVE  /\ Filed(q)' <=> Filed(q)
         /\ Paid(q)' <=> Paid(q)
         /\ Unspent(q)'
BY DEF Books, Kept, Filed, Paid, Unspent

\* Request r moves without being filed or billed, before it has any tokens.
LEMMA MoveBooks ==
  ASSUME Books, UNCHANGED <<input, billed, mRequests, mErrors, mTokens, trail>>, NEW r \in Request,
         \A q \in Request : q # r => Kept(q),
         ~Filed(r), ~Filed(r)', ~Paid(r), tokens'[r] = 0 \/ pc'[r] = "bill", tokens[r] = 0,
         trail[r] = <<>>
  PROVE  Books'
<1>1. ASSUME NEW q \in Request
      PROVE  /\ Filed(q)' <=> Filed(q)
             /\ Filed(q) => outcome'[q] = outcome[q] /\ tokens'[q] = tokens[q]
             /\ \/ (Paid(q)' <=> Paid(q)) /\ (Paid(q) => tokens'[q] = tokens[q])
                \/ tokens'[q] = 0 /\ tokens[q] = 0
             /\ Unspent(q)'
  <2>1. CASE q # r
    BY <2>1, KeptBooks DEF Kept
  <2>2. CASE q = r
    <3>1. pc'[r] = "bill" => ~Paid(r)'
      BY DEF Paid, Filed
    <3>2. Unspent(r)'
      BY DEF Unspent
    <3> QED BY <2>2, <3>1, <3>2
  <2> QED BY <2>1, <2>2
<1> QED BY <1>1, QuietBooks

\* Bill adds the tokens of one request to what its user is charged.
LEMMA BillBooks == ASSUME IInv, Books, NEW r \in Request, Bill(r) PROVE Books'
<1>0. TypeOK /\ Owes(r) /\ input[r].user \in User /\ tokens[r] \in Nat /\ tokens[r] <= MaxTok /\ MaxTok \in Nat
  <2>1. TypeOK /\ Owes(r)
    BY DEF IInv
  <2>2. tokens[r] \in 0 .. MaxTok /\ MaxTok \in Nat
    BY <2>1, GatewayAssumption DEF TypeOK
  <2> QED BY <2>1, <2>2, InputType
<1>1. /\ pc[r] = "bill" /\ pc'[r] = "count" /\ trail[r] = <<>>
      /\ UNCHANGED <<input, outcome, tokens, trail, mRequests, mErrors, mTokens>>
      /\ \A q \in Request : q # r => Kept(q)
  BY <1>0 DEF Bill, goto, TypeOK, Owes, Kept
<1>2. /\ \A q \in Request : (Filed(q)' <=> Filed(q)) /\ Unspent(q)'
      /\ \A q \in Request : q # r => (Paid(q)' <=> Paid(q))
      /\ ~Paid(r) /\ Paid(r)'
  <2>1. ASSUME NEW q \in Request, q # r PROVE (Filed(q)' <=> Filed(q)) /\ Unspent(q)' /\ (Paid(q)' <=> Paid(q))
    BY <1>1, <2>1, KeptBooks
  <2>2. ~Filed(r) /\ ~Filed(r)' /\ ~Paid(r) /\ Paid(r)' /\ Unspent(r)'
    BY <1>1 DEF Filed, Paid, Unspent
  <2> QED BY <2>1, <2>2
<1>3. Counted' = Counted /\ Erred' = Erred
  BY <1>1, <1>2 DEF Counted, Erred
<1>4. Spent' = Spent
  BY <1>1, <1>2 DEF Spent, Unit
<1>5. ASSUME NEW u \in User PROVE Counts(Charged(u)', billed'[u])
  <2>0. Counts(Charged(u), billed[u]) /\ billed[u] \in Nat
    BY <1>0 DEF Books, TypeOK
  <2>1. CASE u = input[r].user
    <3>1. billed'[u] = billed[u] + tokens[r]
      BY <1>0, <2>1 DEF Bill, TypeOK
    <3>2. Charged(u) \cap Units(r, tokens[r]) = {}
      BY <1>2 DEF Charged, Units
    <3>3. Charged(u)' = Charged(u) \cup Units(r, tokens[r])
      <4>1. ASSUME NEW x \in Unit PROVE x \in Charged(u)' <=> x \in Charged(u) \/ x \in Units(r, tokens[r])
        <5>1. x[1] \in Request /\ x[2] \in 1 .. MaxTok /\ x = <<x[1], x[2]>>
          BY DEF Unit
        <5>2. CASE x[1] = r
          BY <1>0, <1>1, <1>2, <2>1, <5>1, <5>2 DEF Charged, Units
        <5>3. CASE x[1] # r
          BY <1>1, <1>2, <5>1, <5>3 DEF Charged, Units
        <5> QED BY <5>2, <5>3
      <4>2. Units(r, tokens[r]) \subseteq Unit
        BY <1>0 DEF Units, Unit
      <4>3. Charged(u)' \subseteq Unit /\ Charged(u) \subseteq Unit
        BY DEF Charged, Unit
      <4> QED BY <4>1, <4>2, <4>3
    <3> QED BY <1>0, <2>0, <3>1, <3>2, <3>3, CountsUnits, CountsUnion
  <2>2. CASE u # input[r].user
    <3>1. billed'[u] = billed[u]
      BY <1>0, <2>2 DEF Bill, TypeOK
    <3>2. Charged(u)' = Charged(u)
      <4>1. ASSUME NEW x \in Unit PROVE x \in Charged(u)' <=> x \in Charged(u)
        <5>1. x[1] \in Request
          BY DEF Unit
        <5> QED BY <1>1, <1>2, <2>2, <5>1 DEF Charged, Unit
      <4> QED BY <4>1 DEF Charged, Unit
    <3> QED BY <2>0, <3>1, <3>2
  <2> QED BY <2>1, <2>2
<1> QED BY <1>1, <1>2, <1>3, <1>4, <1>5 DEF Books, Counts

\* Count files one request, with its outcome and its tokens.
LEMMA CountBooks == ASSUME IInv, Books, NEW r \in Request, Count(r) PROVE Books'
<1>0. /\ TypeOK /\ Owes(r) /\ tokens[r] \in Nat /\ tokens[r] <= MaxTok /\ MaxTok \in Nat
      /\ mRequests \in Nat /\ mErrors \in Nat /\ mTokens \in Nat
  BY GatewayAssumption DEF IInv, TypeOK
<1>1. /\ pc[r] = "count" /\ pc'[r] = "enqueue" /\ trail[r] = <<>>
      /\ UNCHANGED <<input, outcome, tokens, trail, billed>>
      /\ mRequests' = mRequests + 1 /\ mTokens' = mTokens + tokens[r]
      /\ mErrors' = IF outcome[r] = "ok" THEN mErrors ELSE mErrors + 1
      /\ \A q \in Request : q # r => Kept(q)
  BY <1>0 DEF Count, goto, TypeOK, Owes, Kept
<1>2. /\ \A q \in Request : (Paid(q)' <=> Paid(q)) /\ Unspent(q)'
      /\ \A q \in Request : q # r => (Filed(q)' <=> Filed(q))
      /\ ~Filed(r) /\ Filed(r)'
  <2>1. ASSUME NEW q \in Request, q # r PROVE (Filed(q)' <=> Filed(q)) /\ Unspent(q)' /\ (Paid(q)' <=> Paid(q))
    BY <1>1, <2>1, KeptBooks
  <2>2. ~Filed(r) /\ Filed(r)' /\ Paid(r) /\ Paid(r)' /\ Unspent(r)'
    BY <1>1 DEF Filed, Paid, Unspent
  <2> QED BY <2>1, <2>2
<1>3. Counts(Counted', mRequests')
  <2>1. Counted' = Counted \cup {r} /\ r \notin Counted
    BY <1>2 DEF Counted
  <2> QED BY <1>0, <1>1, <2>1, CountsAdd DEF Books
<1>4. Counts(Erred', mErrors')
  <2>1. CASE outcome[r] = "ok"
    <3>1. Erred' = Erred
      BY <1>1, <1>2, <2>1 DEF Erred
    <3> QED BY <1>1, <2>1, <3>1 DEF Books
  <2>2. CASE outcome[r] # "ok"
    <3>1. Erred' = Erred \cup {r} /\ r \notin Erred
      BY <1>1, <1>2, <2>2 DEF Erred
    <3> QED BY <1>0, <1>1, <2>2, <3>1, CountsAdd DEF Books
  <2> QED BY <2>1, <2>2
<1>5. Counts(Spent', mTokens')
  <2>1. Spent \cap Units(r, tokens[r]) = {}
    BY <1>2 DEF Spent, Units
  <2>2. Spent' = Spent \cup Units(r, tokens[r])
    <3>1. ASSUME NEW x \in Unit PROVE x \in Spent' <=> x \in Spent \/ x \in Units(r, tokens[r])
      <4>1. x[1] \in Request /\ x[2] \in 1 .. MaxTok /\ x = <<x[1], x[2]>>
        BY DEF Unit
      <4>2. CASE x[1] = r
        BY <1>0, <1>1, <1>2, <4>1, <4>2 DEF Spent, Units
      <4>3. CASE x[1] # r
        BY <1>1, <1>2, <4>1, <4>3 DEF Spent, Units
      <4> QED BY <4>2, <4>3
    <3>2. Units(r, tokens[r]) \subseteq Unit
      BY <1>0 DEF Units, Unit
    <3>3. Spent' \subseteq Unit /\ Spent \subseteq Unit
      BY DEF Spent, Unit
    <3> QED BY <3>1, <3>2, <3>3
  <2> QED BY <1>0, <1>1, <2>1, <2>2, CountsUnits, CountsUnion DEF Books
<1>6. ASSUME NEW u \in User PROVE Charged(u)' = Charged(u)
  <2>1. ASSUME NEW x \in Unit PROVE x \in Charged(u)' <=> x \in Charged(u)
    <3>1. x[1] \in Request
      BY DEF Unit
    <3> QED BY <1>1, <1>2, <3>1 DEF Charged, Unit
  <2> QED BY <2>1 DEF Charged, Unit
<1> QED BY <1>1, <1>2, <1>3, <1>4, <1>5, <1>6 DEF Books, Counts

\* Enqueue moves no counter: the request was filed by Count.
LEMMA EnqueueBooks == ASSUME IInv, Books, NEW r \in Request, Enqueue(r) PROVE Books'
<1>0. TypeOK /\ Owes(r) /\ Unspent(r)
  BY DEF IInv, Books
<1>1. /\ pc[r] = "enqueue" /\ pc'[r] = "done" /\ trail[r] = <<>>
      /\ trail'[r] = Append(<<>>, [user |-> input[r].user, status |-> outcome[r],
                                   tokens |-> tokens[r], policies |-> fired[r]])
      /\ UNCHANGED <<input, outcome, tokens, billed, mRequests, mErrors, mTokens>>
      /\ \A q \in Request : q # r => Kept(q)
  BY <1>0 DEF Enqueue, goto, TypeOK, Owes, Kept
<1>2. trail'[r] # <<>> /\ trail'[r][1].user = input[r].user
  BY <1>1
<1>3. Filed(r) /\ Filed(r)' /\ Paid(r) /\ Paid(r)' /\ Unspent(r)'
  BY <1>1, <1>2 DEF Filed, Paid, Unspent
<1>4. \A q \in Request : /\ Filed(q)' <=> Filed(q)
                         /\ Filed(q) => outcome'[q] = outcome[q] /\ tokens'[q] = tokens[q]
                         /\ (Paid(q)' <=> Paid(q)) /\ (Paid(q) => tokens'[q] = tokens[q])
                         /\ Unspent(q)'
  BY <1>1, <1>3, KeptBooks
<1> QED BY <1>1, <1>4, QuietBooks

LEMMA InitBooks == Init => Books
<1> SUFFICES ASSUME Init PROVE Books
  OBVIOUS
<1>1. \A r \in Request : ~Filed(r) /\ ~Paid(r) /\ Unspent(r)
  BY DEF Init, Filed, Paid, Unspent
<1>2. Counted = {} /\ Erred = {}
  BY <1>1 DEF Counted, Erred
<1>3. Spent = {} /\ \A u \in User : Charged(u) = {}
  BY <1>1 DEF Spent, Charged, Unit
<1>4. Counts({}, 0)
  BY FS_EmptySet DEF Counts
<1> QED BY <1>1, <1>2, <1>3, <1>4 DEF Init, Books

LEMMA NextBooks == IInv /\ Books /\ [Next]_vars => Books'
<1> SUFFICES ASSUME IInv, Books, [Next]_vars PROVE Books'
  OBVIOUS
<1>0. TypeOK /\ \A r \in Request : Owes(r) /\ Unspent(r)
  BY DEF IInv, Books
<1>1. CASE UNCHANGED <<pc, trail, tokens, outcome, input, billed, mRequests, mErrors, mTokens>>
  <2>1. \A q \in Request : Kept(q)
    BY <1>1 DEF Kept
  <2>2. \A q \in Request : (Filed(q)' <=> Filed(q)) /\ (Paid(q)' <=> Paid(q)) /\ Unspent(q)'
    BY <1>1, <2>1, KeptBooks
  <2> QED BY <1>1, <2>2, QuietBooks
<1>2. CASE \E c \in Config : Configure(c)
  BY <1>1, <1>2 DEF Configure, journal
<1>3. CASE Sync
  BY <1>1, <1>3 DEF Sync, journal
<1>4. ASSUME NEW r \in Request, Arrive(r) PROVE Books'
  <2>1. /\ pc[r] \notin {"bill", "count", "enqueue", "done"} /\ pc'[r] # "enqueue"
        /\ UNCHANGED <<input, billed, mRequests, mErrors, mTokens, trail>>
        /\ tokens'[r] = tokens[r] \/ pc'[r] = "bill"
        /\ \A q \in Request : q # r => Kept(q)
    BY <1>0, <1>4 DEF Arrive, goto, ends, Kept, TypeOK, journal
  <2> QED BY <1>0, <2>1, MoveBooks DEF Owes, Unspent, Filed, Paid
<1>5. ASSUME NEW r \in Request, Verify(r) PROVE Books'
  <2>1. /\ pc[r] \notin {"bill", "count", "enqueue", "done"} /\ pc'[r] # "enqueue"
        /\ UNCHANGED <<input, billed, mRequests, mErrors, mTokens, trail>>
        /\ tokens'[r] = tokens[r] \/ pc'[r] = "bill"
        /\ \A q \in Request : q # r => Kept(q)
    BY <1>0, <1>5 DEF Verify, goto, ends, Kept, TypeOK, journal
  <2> QED BY <1>0, <2>1, MoveBooks DEF Owes, Unspent, Filed, Paid
<1>6. ASSUME NEW r \in Request, Resolve(r) PROVE Books'
  <2>1. /\ pc[r] \notin {"bill", "count", "enqueue", "done"} /\ pc'[r] # "enqueue"
        /\ UNCHANGED <<input, billed, mRequests, mErrors, mTokens, trail>>
        /\ tokens'[r] = tokens[r] \/ pc'[r] = "bill"
        /\ \A q \in Request : q # r => Kept(q)
    BY <1>0, <1>6 DEF Resolve, goto, ends, Kept, TypeOK, journal
  <2> QED BY <1>0, <2>1, MoveBooks DEF Owes, Unspent, Filed, Paid
<1>7. ASSUME NEW r \in Request, Screen(r) PROVE Books'
  <2>1. /\ pc[r] \notin {"bill", "count", "enqueue", "done"} /\ pc'[r] # "enqueue"
        /\ UNCHANGED <<input, billed, mRequests, mErrors, mTokens, trail>>
        /\ tokens'[r] = tokens[r] \/ pc'[r] = "bill"
        /\ \A q \in Request : q # r => Kept(q)
    BY <1>0, <1>7 DEF Screen, goto, ends, Kept, TypeOK, journal
  <2> QED BY <1>0, <2>1, MoveBooks DEF Owes, Unspent, Filed, Paid
<1>8. ASSUME NEW r \in Request, NEW v, Limit(r, v) PROVE Books'
  <2>1. /\ pc[r] \notin {"bill", "count", "enqueue", "done"} /\ pc'[r] # "enqueue"
        /\ UNCHANGED <<input, billed, mRequests, mErrors, mTokens, trail>>
        /\ tokens'[r] = tokens[r] \/ pc'[r] = "bill"
        /\ \A q \in Request : q # r => Kept(q)
    BY <1>0, <1>8 DEF Limit, goto, ends, Kept, TypeOK, journal
  <2> QED BY <1>0, <2>1, MoveBooks DEF Owes, Unspent, Filed, Paid
<1>9. ASSUME NEW r \in Request, NEW built, Dispatch(r, built) PROVE Books'
  <2>1. /\ pc[r] \notin {"bill", "count", "enqueue", "done"} /\ pc'[r] # "enqueue"
        /\ UNCHANGED <<input, billed, mRequests, mErrors, mTokens, trail>>
        /\ tokens'[r] = tokens[r] \/ pc'[r] = "bill"
        /\ \A q \in Request : q # r => Kept(q)
    BY <1>0, <1>9 DEF Dispatch, goto, ends, Kept, TypeOK, journal
  <2> QED BY <1>0, <2>1, MoveBooks DEF Owes, Unspent, Filed, Paid
<1>10. ASSUME NEW r \in Request, NEW o, Fails(r, o) PROVE Books'
  <2>1. /\ pc[r] \notin {"bill", "count", "enqueue", "done"} /\ pc'[r] # "enqueue"
        /\ UNCHANGED <<input, billed, mRequests, mErrors, mTokens, trail>>
        /\ tokens'[r] = tokens[r] \/ pc'[r] = "bill"
        /\ \A q \in Request : q # r => Kept(q)
    BY <1>0, <1>10 DEF Fails, goto, ends, Kept, TypeOK, journal
  <2> QED BY <1>0, <2>1, MoveBooks DEF Owes, Unspent, Filed, Paid
<1>11. ASSUME NEW r \in Request, NEW n, NEW found, NEW whole, Replies(r, n, found, whole) PROVE Books'
  <2>1. /\ pc[r] \notin {"bill", "count", "enqueue", "done"} /\ pc'[r] # "enqueue"
        /\ UNCHANGED <<input, billed, mRequests, mErrors, mTokens, trail>>
        /\ tokens'[r] = tokens[r] \/ pc'[r] = "bill"
        /\ \A q \in Request : q # r => Kept(q)
    BY <1>0, <1>11 DEF Replies, goto, ends, Kept, TypeOK, journal
  <2> QED BY <1>0, <2>1, MoveBooks DEF Owes, Unspent, Filed, Paid
<1>12. CASE UNCHANGED vars
  BY <1>1, <1>12 DEF vars, journal
<1> QED
  BY <1>2, <1>3, <1>4, <1>5, <1>6, <1>7, <1>8, <1>9, <1>10, <1>11, <1>12, BillBooks, CountBooks,
     EnqueueBooks DEF Next, Handle, Upstream

\* Whenever no request is under way, the limiter's token counters, the metrics and the
\* audit trail agree, for any number of requests and users: Bill, Count and Enqueue are
\* separate steps that the steps of other requests may separate.
THEOREM ReconciledHolds == Spec => []Reconciled
<1>1. IInv /\ Books => Reconciled
  <2> SUFFICES ASSUME IInv, Books, \A r \in Request : pc[r] \in {"idle", "done"}
               PROVE  /\ mRequests = Cardinality(Done)
                      /\ mErrors = Cardinality({r \in Done : trail[r][1].status # "ok"})
                      /\ mTokens = Cardinality(Tokens(Done))
                      /\ \A u \in User :
                           billed[u] = Cardinality(Tokens({r \in Done : trail[r][1].user = u}))
    BY DEF Reconciled
  <2>1. /\ \A r \in Request : (Filed(r) <=> r \in Done) /\ (Paid(r) <=> r \in Done)
        /\ Done \subseteq Request
    BY DEF Filed, Paid, Done
  <2>2. \A r \in Done : /\ trail[r][1].status = outcome[r] /\ trail[r][1].tokens = tokens[r]
                        /\ trail[r][1].user = input[r].user
    BY DEF IInv, Books, Owes, Unspent, Done
  <2>3. Counted = Done /\ Erred = {r \in Done : trail[r][1].status # "ok"}
    BY <2>1, <2>2 DEF Counted, Erred
  <2>4. Spent = Tokens(Done)
    BY <2>1, <2>2 DEF Spent, Tokens, Unit
  <2>5. ASSUME NEW u \in User PROVE Charged(u) = Tokens({r \in Done : trail[r][1].user = u})
    BY <2>1, <2>2 DEF Charged, Tokens, Unit
  <2> QED BY <2>3, <2>4, <2>5 DEF Books, Counts
<1> QED BY <1>1, Invariance, InitBooks, NextBooks, PTL DEF Spec
=============================================================================
