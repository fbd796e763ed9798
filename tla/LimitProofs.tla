---------------------------- MODULE LimitProofs ----------------------------
(***************************************************************************)
(* The rate limiter, for every set of users and goroutines, all limits,      *)
(* window and day lengths, and every delay between reading the clock and     *)
(* taking the lock; and the loop of TeamLimitFor that computes the limits it  *)
(* is asked with, for any number of teams and all limit values.              *)
(***************************************************************************)
EXTENDS RateLimiter, LimitResolution, FiniteSetTheorems, SequenceTheorems, TLAPS

-----------------------------------------------------------------------------
(* The rate limiter *)

\* The day of a tick is monotone and so stays within the horizon.
LEMMA DayKeyInDays == \A t \in 0 .. MaxClock : dayKey(t) \in Days
<1> SUFFICES ASSUME NEW t \in 0 .. MaxClock PROVE t \div Day \in 0 .. MaxClock \div Day
  BY DEF dayKey, Days
<1> DEFINE q == t \div Day  r == t % Day  Q == MaxClock \div Day  R == MaxClock % Day
<1>1. Day \in Nat /\ Day > 0 /\ t \in Nat /\ MaxClock \in Nat /\ t <= MaxClock
  BY LimiterAssumption
<1>2. q \in Int /\ r \in 0 .. Day - 1 /\ t = Day * q + r
  BY <1>1
<1>3. Q \in Int /\ R \in 0 .. Day - 1 /\ MaxClock = Day * Q + R
  BY <1>1
<1> HIDE DEF q, r, Q, R
<1>4. q >= 0
  BY <1>1, <1>2
<1>5. q <= Q
  BY <1>1, <1>2, <1>3
<1> QED BY <1>2, <1>3, <1>4, <1>5 DEF q, Q

\* Days are integers, and -1 is none of them.
LEMMA DaysInt == /\ \A d \in Days : d \in Int /\ d # -1
                 /\ \A d \in {-1} \cup Days : d \in Int
BY LimiterAssumption DEF Days

\* Products with MaxTok, as the quota argument uses them.
LEMMA TokProduct ==
  \A a, b \in Nat : /\ MaxTok * a \in Nat
                    /\ a <= b => MaxTok * a <= MaxTok * b
                    /\ MaxTok * (a + 1) = MaxTok * a + MaxTok
BY LimiterAssumption

-----------------------------------------------------------------------------
(* The inductive invariant. *)

\* The goroutines that owe user u no bill.
Free(u) == {t \in Thread : ~(pc[t] \in {"serving", "billing"} /\ user[t] = u)}

\* No tokens are recorded yet for days after the counter's.
FutureUnused ==
  \A u \in User : ~rewound[u] => \A d \in Days : d > toks[u].day => used[u][d] = 0

\* The counter may exceed the quota only by requests that are no longer owed:
\* a goroutine is admitted while the counter is below the quota, and it pays
\* for its share of the excess by becoming free.
LiveQuota ==
  \A u \in User : DailyCap[u] > 0 =>
     toks[u].tokens <= DailyCap[u] - 1 + MaxTok * Cardinality(Free(u))

IInv == TypeOK /\ CounterExact /\ FutureUnused /\ LiveQuota /\ QuotaBound

\* Free(u) is a finite set of goroutines.
LEMMA FreeFinite ==
  \A u : /\ IsFiniteSet(Free(u)) /\ Cardinality(Free(u)) \in Nat
         /\ Cardinality(Free(u)) <= Cardinality(Thread)
         /\ Cardinality(Thread) \in Nat
<1> SUFFICES ASSUME NEW u
             PROVE  /\ IsFiniteSet(Free(u)) /\ Cardinality(Free(u)) \in Nat
                    /\ Cardinality(Free(u)) <= Cardinality(Thread)
                    /\ Cardinality(Thread) \in Nat
  OBVIOUS
<1>1. IsFiniteSet(Thread) /\ Free(u) \in SUBSET Thread
  BY LimiterAssumption DEF Free
<1>2. IsFiniteSet(Free(u)) /\ Cardinality(Free(u)) <= Cardinality(Thread)
  BY <1>1, FS_Subset
<1> QED BY <1>1, <1>2, FS_CardinalityType

LEMMA InitIInv == Init => IInv
<1> SUFFICES ASSUME Init PROVE IInv
  OBVIOUS
<1>1. TypeOK
  <2>1. 0 \in 0 .. MaxClock /\ 0 \in 0 .. MaxTok /\ -Minute \in Int
    BY LimiterAssumption
  <2> QED BY <2>1 DEF Init, TypeOK, NoWindow, NoDay
<1>2. CounterExact /\ FutureUnused
  BY DEF Init, CounterExact, FutureUnused, NoDay
<1>3. LiveQuota
  <2> SUFFICES ASSUME NEW u \in User, DailyCap[u] > 0
               PROVE  0 <= DailyCap[u] - 1 + MaxTok * Cardinality(Free(u))
    BY DEF LiveQuota, Init, NoDay
  <2>1. MaxTok * Cardinality(Free(u)) \in Nat
    BY FreeFinite, TokProduct
  <2>2. DailyCap[u] \in Nat
    BY LimiterAssumption
  <2> QED BY <2>1, <2>2
<1>4. QuotaBound
  <2> SUFFICES ASSUME NEW u \in User, DailyCap[u] > 0
               PROVE  0 <= Overshoot(u)
    BY DEF QuotaBound, Init
  <2>1. MaxTok * Cardinality(Thread) \in Nat
    BY FreeFinite, TokProduct
  <2>2. DailyCap[u] \in Nat
    BY LimiterAssumption
  <2> QED BY <2>1, <2>2 DEF Overshoot
<1> QED BY <1>1, <1>2, <1>3, <1>4 DEF IInv

\* A step that leaves counters and history alone and lets no goroutine owe more.
LEMMA QuietIInv ==
  ASSUME IInv, TypeOK', UNCHANGED <<toks, used, rewound>>,
         \A u \in User : Free(u) \subseteq Free(u)'
  PROVE  IInv'
<1> USE DEF IInv
<1>1. CounterExact' /\ FutureUnused' /\ QuotaBound'
  BY DEF CounterExact, FutureUnused, QuotaBound, Overshoot
<1>2. LiveQuota'
  <2> SUFFICES ASSUME NEW u \in User, DailyCap[u] > 0
               PROVE  toks[u].tokens <= DailyCap[u] - 1 + MaxTok * Cardinality(Free(u)')
    BY DEF LiveQuota
  <2>1. IsFiniteSet(Free(u)')
    <3>1. Free(u)' \in SUBSET Thread
      BY DEF Free
    <3> QED BY <3>1, FS_Subset, LimiterAssumption
  <2>2. Cardinality(Free(u)) <= Cardinality(Free(u)')
    BY <2>1, FS_Subset
  <2>3. Cardinality(Free(u)) \in Nat /\ Cardinality(Free(u)') \in Nat
    BY <2>1, FreeFinite, FS_CardinalityType
  <2>4. MaxTok * Cardinality(Free(u)) <= MaxTok * Cardinality(Free(u)')
    BY <2>2, <2>3, TokProduct
  <2>5. /\ MaxTok * Cardinality(Free(u)) \in Nat /\ MaxTok * Cardinality(Free(u)') \in Nat
        /\ DailyCap[u] \in Nat /\ toks[u].tokens \in Nat
    BY <2>3, TokProduct, LimiterAssumption DEF TypeOK
  <2>6. toks[u].tokens <= DailyCap[u] - 1 + MaxTok * Cardinality(Free(u))
    BY DEF LiveQuota
  <2> QED BY <2>4, <2>5, <2>6
<1> QED BY <1>1, <1>2

\* The counter that a call works on has the call's day, and holds the recorded
\* tokens of that day unless the call rewinds.
LEMMA DayCountFacts ==
  ASSUME IInv, NEW t \in Thread, NEW u \in User
  PROVE  /\ DayCount(u, t) \in [day : {-1} \cup Days, tokens : Nat]
         /\ DayCount(u, t).day = dayKey(now[t]) /\ dayKey(now[t]) \in Days
         /\ DayCount(u, t).tokens \in {0, toks[u].tokens}
         /\ ~rewound[u] /\ ~Rewinds(u, t) =>
              DayCount(u, t).tokens = used[u][dayKey(now[t])]
<1> USE DEF IInv
<1>1. dayKey(now[t]) \in Days
  BY DayKeyInDays DEF TypeOK
<1>2. toks[u] \in [day : {-1} \cup Days, tokens : Nat]
  BY DEF TypeOK
<1>4. /\ DayCount(u, t) \in [day : {-1} \cup Days, tokens : Nat]
      /\ DayCount(u, t).day = dayKey(now[t])
      /\ DayCount(u, t).tokens \in {0, toks[u].tokens}
  BY <1>1, <1>2 DEF DayCount
<1>5. ASSUME ~rewound[u], ~Rewinds(u, t)
      PROVE  DayCount(u, t).tokens = used[u][dayKey(now[t])]
  <2>1. CASE toks[u].day = dayKey(now[t])
    <3>1. toks[u].day # -1
      BY <2>1, <1>1, DaysInt
    <3>2. toks[u].tokens = used[u][toks[u].day]
      BY <1>5, <3>1 DEF CounterExact
    <3> QED BY <2>1, <3>2 DEF DayCount
  <2>2. CASE toks[u].day # dayKey(now[t])
    <3>1. dayKey(now[t]) > toks[u].day
      <4>1. toks[u].day \in Int /\ dayKey(now[t]) \in Int
        BY <1>1, <1>2, DaysInt
      <4> QED BY <1>5, <2>2, <4>1 DEF Rewinds
    <3>2. used[u][dayKey(now[t])] = 0
      BY <1>1, <1>5, <3>1 DEF FutureUnused
    <3> QED BY <2>2, <3>2 DEF DayCount
  <2> QED BY <2>1, <2>2
<1> QED BY <1>1, <1>4, <1>5

\* Replacing the counter by the one of a call's day keeps it exact.
LEMMA RenewExact ==
  ASSUME IInv, NEW t \in Thread, NEW u \in User, used' = used,
         toks' = [toks EXCEPT ![u] = DayCount(u, t)],
         rewound' = [rewound EXCEPT ![u] = @ \/ Rewinds(u, t)]
  PROVE  CounterExact' /\ FutureUnused'
<1> USE DEF IInv
<1>1. ASSUME NEW v \in User, ~rewound'[v]
      PROVE  /\ toks'[v].day # -1 => toks'[v].tokens = used[v][toks'[v].day]
             /\ \A d \in Days : d > toks'[v].day => used[v][d] = 0
  <2>1. CASE v # u
    <3>1. toks'[v] = toks[v] /\ ~rewound[v]
      BY <1>1, <2>1 DEF TypeOK
    <3> QED BY <3>1 DEF CounterExact, FutureUnused
  <2>2. CASE v = u
    <3>1. toks'[v] = DayCount(u, t) /\ ~rewound[u] /\ ~Rewinds(u, t)
      BY <1>1, <2>2 DEF TypeOK
    <3>2. /\ toks'[v].day = dayKey(now[t]) /\ dayKey(now[t]) \in Days
          /\ toks'[v].tokens = used[u][dayKey(now[t])]
      BY <3>1, DayCountFacts
    <3>3. toks[u].day <= dayKey(now[t])
      <4>1. toks[u].day \in {-1} \cup Days
        BY DEF TypeOK
      <4>2. toks[u].day \in Int /\ dayKey(now[t]) \in Int
        BY <3>2, <4>1, DaysInt
      <4> QED BY <3>1, <4>2 DEF Rewinds
    <3>4. ASSUME NEW d \in Days, d > toks'[v].day PROVE used[v][d] = 0
      <4>1. d > toks[u].day
        <5>1. toks[u].day \in {-1} \cup Days
          BY DEF TypeOK
        <5>2. toks[u].day \in Int /\ dayKey(now[t]) \in Int /\ d \in Int
          BY <3>2, <5>1, DaysInt
        <5> QED BY <3>2, <3>3, <3>4, <5>2
      <4> QED BY <2>2, <3>1, <4>1 DEF FutureUnused
    <3> QED BY <2>2, <3>2, <3>4
  <2> QED BY <2>1, <2>2
<1>2. CounterExact'
  BY <1>1 DEF CounterExact
<1>3. FutureUnused'
  BY <1>1 DEF FutureUnused
<1> QED BY <1>2, <1>3

\* Allow: an admitted goroutine owes a bill, but finds the counter below the cap.
LEMMA AllowIInv ==
  ASSUME IInv, NEW t \in Thread, NEW l \in LimitsOf[user[t]], Allow(t, l)
  PROVE  IInv'
<1> USE DEF IInv
<1> DEFINE u == user[t]  dc == DayCount(u, t)  w == Window(u, t)
           quota == l.daily > 0 /\ dc.tokens >= l.daily
           rate == l.rpm > 0 /\ w.count >= l.rpm
<1>1. /\ u \in User /\ l \in Limits /\ now[t] \in 0 .. MaxClock /\ pc[t] = "asking"
      /\ clock \in Nat
  <2>1. u \in User /\ now[t] \in 0 .. MaxClock /\ clock \in 0 .. MaxClock
    BY DEF TypeOK
  <2>2. l \in Limits
    BY <2>1, LimiterAssumption
  <2> QED BY <2>1, <2>2, LimiterAssumption DEF Allow
<1>2. /\ dc \in [day : {-1} \cup Days, tokens : Nat]
      /\ dc.tokens \in {0, toks[u].tokens}
  BY <1>1, DayCountFacts
<1>3. w \in [start : Int, count : Nat]
  BY <1>1 DEF TypeOK, Window
<1>4. /\ toks' = IF l.daily > 0 THEN [toks EXCEPT ![u] = dc] ELSE toks
      /\ rewound' = [rewound EXCEPT ![u] = @ \/ (l.daily > 0 /\ Rewinds(u, t))]
      /\ reqs' = IF quota \/ l.rpm = 0 THEN reqs
                 ELSE [reqs EXCEPT ![u] = [w EXCEPT !.count = IF rate THEN @ ELSE @ + 1]]
      /\ admits' = IF quota \/ l.rpm = 0 \/ rate THEN admits
                   ELSE [admits EXCEPT ![u] = Append(@, clock)]
      /\ pc' = [pc EXCEPT ![t] = IF quota \/ rate THEN "idle" ELSE "serving"]
      /\ now' = [now EXCEPT ![t] = 0]
      /\ UNCHANGED <<clock, user, bill, calls, used>>
  BY DEF Allow
<1>5. l.daily \in Nat /\ l.rpm \in Nat
  BY <1>1 DEF Limits
<1> HIDE DEF dc, w, quota, rate, u
<1>6. TypeOK'
  <2>1. toks' \in [User -> [day : {-1} \cup Days, tokens : Nat]]
    BY <1>1, <1>2, <1>4 DEF TypeOK
  <2>2. reqs' \in [User -> [start : Int, count : Nat]]
    <3>1. [w EXCEPT !.count = IF rate THEN @ ELSE @ + 1] \in [start : Int, count : Nat]
      BY <1>3
    <3> QED BY <1>1, <1>4, <3>1 DEF TypeOK
  <2>3. admits' \in [User -> Seq(Nat)]
    <3>1. Append(admits[u], clock) \in Seq(Nat)
      BY <1>1 DEF TypeOK
    <3> QED BY <1>1, <1>4, <3>1 DEF TypeOK
  <2>4. now' \in [Thread -> 0 .. MaxClock]
    BY <1>4, LimiterAssumption DEF TypeOK
  <2>5. pc' \in [Thread -> {"idle", "asking", "serving", "billing"}]
    BY <1>4 DEF TypeOK
  <2>6. rewound' \in [User -> BOOLEAN]
    BY <1>1, <1>4 DEF TypeOK
  <2> QED BY <1>4, <2>1, <2>2, <2>3, <2>4, <2>5, <2>6 DEF TypeOK
<1>7. CounterExact' /\ FutureUnused'
  <2>1. CASE l.daily > 0
    <3>1. /\ toks' = [toks EXCEPT ![u] = DayCount(u, t)] /\ used' = used
          /\ rewound' = [rewound EXCEPT ![u] = @ \/ Rewinds(u, t)]
      BY <1>4, <2>1 DEF dc
    <3> QED BY <1>1, <3>1, RenewExact
  <2>2. CASE ~(l.daily > 0)
    <3>1. toks' = toks /\ rewound' = rewound /\ used' = used
      BY <1>4, <2>2 DEF TypeOK
    <3> QED BY <3>1 DEF CounterExact, FutureUnused
  <2> QED BY <2>1, <2>2
<1>8. QuotaBound'
  <2>1. \A v \in User : ~rewound'[v] => ~rewound[v]
    BY <1>1, <1>4 DEF TypeOK
  <2> QED BY <1>4, <2>1 DEF QuotaBound, Overshoot
<1>9. LiveQuota'
  <2> SUFFICES ASSUME NEW v \in User, DailyCap[v] > 0
               PROVE  toks'[v].tokens <= DailyCap[v] - 1 + MaxTok * Cardinality(Free(v)')
    BY DEF LiveQuota
  <2>0. /\ IsFiniteSet(Free(v)') /\ Cardinality(Free(v)') \in Nat
        /\ MaxTok * Cardinality(Free(v)') \in Nat
        /\ DailyCap[v] \in Nat
    <3>1. Free(v)' \in SUBSET Thread
      BY DEF Free
    <3>2. IsFiniteSet(Free(v)')
      BY <3>1, FS_Subset, LimiterAssumption
    <3>3. Cardinality(Free(v)') \in Nat
      BY <3>2, FS_CardinalityType
    <3>4. MaxTok * Cardinality(Free(v)') \in Nat
      BY ONLY <3>3, TokProduct
    <3>5. DailyCap[v] \in Nat
      BY ONLY v \in User, LimiterAssumption
    <3> QED BY <3>2, <3>3, <3>4, <3>5
  <2>1. CASE v = u /\ ~quota
    <3>1. l.daily \in 1 .. DailyCap[v]
      BY <2>1, LimiterAssumption DEF u
    <3>2. toks'[v] = dc /\ dc.tokens < l.daily
      BY <1>1, <1>2, <1>4, <1>5, <2>1, <3>1 DEF quota, TypeOK
    <3> QED BY <1>2, <2>0, <3>1, <3>2
  <2>2. CASE ~(v = u /\ ~quota)
    <3>1. toks'[v].tokens = toks[v].tokens \/ toks'[v].tokens = 0
      BY <1>1, <1>2, <1>4 DEF TypeOK
    <3>2. Free(v) \subseteq Free(v)'
      BY <1>1, <1>4, <2>2 DEF Free, u, TypeOK
    <3>3. /\ Cardinality(Free(v)) <= Cardinality(Free(v)')
          /\ Cardinality(Free(v)) \in Nat
      BY <2>0, <3>2, FS_Subset, FreeFinite
    <3>4. MaxTok * Cardinality(Free(v)) <= MaxTok * Cardinality(Free(v)')
      BY <2>0, <3>3, TokProduct
    <3>5. MaxTok * Cardinality(Free(v)) \in Nat /\ toks[v].tokens \in Nat
      BY <3>3, TokProduct DEF TypeOK
    <3>6. toks[v].tokens <= DailyCap[v] - 1 + MaxTok * Cardinality(Free(v))
      BY DEF LiveQuota
    <3> QED BY <2>0, <3>1, <3>4, <3>5, <3>6
  <2> QED BY <2>1, <2>2
<1> QED BY <1>6, <1>7, <1>8, <1>9

\* AddTokens: the counter grows by what the day's record grows by, and the
\* goroutine becomes free, which makes room for one request's tokens.
LEMMA AddTokensIInv == ASSUME IInv, NEW t \in Thread, AddTokens(t) PROVE IInv'
<1> USE DEF IInv
<1> DEFINE u == user[t]  dc == DayCount(u, t)  k == dayKey(now[t])
<1>1. u \in User /\ bill[t] \in Nat /\ bill[t] <= MaxTok /\ pc[t] = "billing"
  BY LimiterAssumption DEF TypeOK, AddTokens
<1>2. /\ dc \in [day : {-1} \cup Days, tokens : Nat] /\ dc.day = k /\ k \in Days
      /\ dc.tokens \in {0, toks[u].tokens}
      /\ ~rewound[u] /\ ~Rewinds(u, t) => dc.tokens = used[u][k]
  BY <1>1, DayCountFacts
<1>3. /\ toks' = [toks EXCEPT ![u] = [dc EXCEPT !.tokens = @ + bill[t]]]
      /\ rewound' = [rewound EXCEPT ![u] = @ \/ Rewinds(u, t)]
      /\ used' = [used EXCEPT ![u][k] = @ + bill[t]]
      /\ pc' = [pc EXCEPT ![t] = "idle"]
      /\ now' = [now EXCEPT ![t] = 0] /\ bill' = [bill EXCEPT ![t] = 0]
      /\ UNCHANGED <<clock, reqs, user, calls, admits>>
  BY DEF AddTokens
<1>4. u = user[t] /\ (Rewinds(u, t) <=> toks[u].day > k)
  BY DEF Rewinds
<1> HIDE DEF u, dc, k
<1> DEFINE dc2 == [dc EXCEPT !.tokens = @ + bill[t]]
<1>5. /\ dc2 \in [day : {-1} \cup Days, tokens : Nat] /\ dc2.day = k
      /\ dc2.tokens = dc.tokens + bill[t]
  BY <1>1, <1>2
<1>6. /\ toks'[u] = dc2 /\ used'[u][k] = used[u][k] + bill[t]
      /\ used[u][k] \in Nat
      /\ \A d \in Days \ {k} : used'[u][d] = used[u][d]
      /\ rewound'[u] <=> (rewound[u] \/ Rewinds(u, t))
      /\ \A v \in User \ {u} :
            toks'[v] = toks[v] /\ used'[v] = used[v] /\ rewound'[v] = rewound[v]
  <2>1. /\ used \in [User -> [Days -> Nat]] /\ used[u] \in [Days -> Nat]
        /\ used[u][k] \in Nat
    <3>1. used \in [User -> [Days -> Nat]]
      BY DEF TypeOK
    <3> QED BY ONLY <3>1, <1>1, <1>2
  <2>2. used' = [used EXCEPT ![u] = [used[u] EXCEPT ![k] = used[u][k] + bill[t]]]
    BY <1>3
  <2>3. used'[u] = [used[u] EXCEPT ![k] = used[u][k] + bill[t]]
    BY <1>1, <2>1, <2>2
  <2>4. /\ used'[u][k] = used[u][k] + bill[t]
        /\ \A d \in Days \ {k} : used'[u][d] = used[u][d]
    BY <1>2, <2>1, <2>3
  <2>5. toks'[u] = dc2 /\ \A v \in User \ {u} : toks'[v] = toks[v] /\ used'[v] = used[v]
    BY <1>1, <1>3, <2>1, <2>2 DEF TypeOK
  <2>6. /\ rewound'[u] <=> (rewound[u] \/ Rewinds(u, t))
        /\ \A v \in User \ {u} : rewound'[v] = rewound[v]
    BY <1>1, <1>3 DEF TypeOK
  <2> QED BY <2>1, <2>4, <2>5, <2>6
<1> HIDE DEF dc2
<1>7. TypeOK'
  <2>1. toks' \in [User -> [day : {-1} \cup Days, tokens : Nat]]
    BY <1>1, <1>3, <1>5 DEF TypeOK, dc2
  <2>2. used' \in [User -> [Days -> Nat]]
    <3>0. used[u][k] + bill[t] \in Nat
      BY <1>1, <1>6
    <3>1. used \in [User -> [Days -> Nat]] /\ used[u] \in [Days -> Nat]
      BY <1>1 DEF TypeOK
    <3>2. [used[u] EXCEPT ![k] = used[u][k] + bill[t]] \in [Days -> Nat]
      BY <3>0, <3>1
    <3>3. used' = [used EXCEPT ![u] = [used[u] EXCEPT ![k] = used[u][k] + bill[t]]]
      BY <1>3
    <3> QED BY <1>1, <3>1, <3>2, <3>3
  <2>3. rewound' \in [User -> BOOLEAN]
    BY <1>1, <1>3 DEF TypeOK
  <2>4. /\ now' \in [Thread -> 0 .. MaxClock] /\ bill' \in [Thread -> 0 .. MaxTok]
        /\ pc' \in [Thread -> {"idle", "asking", "serving", "billing"}]
    BY <1>3, LimiterAssumption DEF TypeOK
  <2> QED BY <1>3, <2>1, <2>2, <2>3, <2>4 DEF TypeOK
<1>8. CounterExact'
  <2> SUFFICES ASSUME NEW v \in User, ~rewound'[v], toks'[v].day # -1
               PROVE  toks'[v].tokens = used'[v][toks'[v].day]
    BY DEF CounterExact
  <2>1. CASE v = u
    BY <1>2, <1>5, <1>6, <2>1
  <2>2. CASE v # u
    BY <1>6, <2>2 DEF CounterExact
  <2> QED BY <2>1, <2>2
<1>9. FutureUnused'
  <2> SUFFICES ASSUME NEW v \in User, ~rewound'[v], NEW d \in Days, d > toks'[v].day
               PROVE  used'[v][d] = 0
    BY DEF FutureUnused
  <2>1. CASE v = u
    <3>1. toks[u].day \in {-1} \cup Days
      BY <1>1 DEF TypeOK
    <3>2. toks[u].day \in Int /\ k \in Int /\ d \in Int
      BY <1>2, <3>1, DaysInt
    <3>3. d # k /\ d > toks[u].day
      BY <1>4, <1>5, <1>6, <2>1, <3>2
    <3> QED BY <1>6, <2>1, <3>3 DEF FutureUnused
  <2>2. CASE v # u
    BY <1>6, <2>2 DEF FutureUnused
  <2> QED BY <2>1, <2>2
<1>10. LiveQuota'
  <2> SUFFICES ASSUME NEW v \in User, DailyCap[v] > 0
               PROVE  toks'[v].tokens <= DailyCap[v] - 1 + MaxTok * Cardinality(Free(v)')
    BY DEF LiveQuota
  <2>1. /\ IsFiniteSet(Free(v)) /\ Cardinality(Free(v)) \in Nat
        /\ MaxTok * Cardinality(Free(v)) \in Nat
        /\ DailyCap[v] \in Nat /\ toks[v].tokens \in Nat /\ MaxTok \in Nat
    BY FreeFinite, TokProduct, LimiterAssumption DEF TypeOK
  <2>2. toks[v].tokens <= DailyCap[v] - 1 + MaxTok * Cardinality(Free(v))
    BY DEF LiveQuota
  <2>3. CASE v = u
    <3>1. Free(v)' = Free(v) \cup {t} /\ t \notin Free(v)
      BY <1>1, <1>3, <1>4, <2>3 DEF Free, TypeOK
    <3>2. Cardinality(Free(v)') = Cardinality(Free(v)) + 1
      BY <2>1, <3>1, FS_AddElement
    <3>3. MaxTok * Cardinality(Free(v)') = MaxTok * Cardinality(Free(v)) + MaxTok
      BY <2>1, <3>2, TokProduct
    <3>4. dc.tokens <= DailyCap[v] - 1 + MaxTok * Cardinality(Free(v)) /\ dc.tokens \in Nat
      BY <1>2, <2>1, <2>2, <2>3
    <3>5. toks'[v].tokens = dc.tokens + bill[t]
      BY <1>5, <1>6, <2>3
    <3> QED BY <1>1, <2>1, <3>3, <3>4, <3>5
  <2>4. CASE v # u
    <3>1. Free(v)' = Free(v)
      BY <1>3, <1>4, <2>4 DEF Free, TypeOK
    <3> QED BY <1>6, <2>2, <2>4, <3>1
  <2> QED BY <2>3, <2>4
<1>11. QuotaBound'
  <2> SUFFICES ASSUME NEW v \in User, DailyCap[v] > 0, ~rewound'[v], NEW d \in Days
               PROVE  used'[v][d] <= Overshoot(v)
    BY DEF QuotaBound, Overshoot
  <2>1. CASE v = u /\ d = k
    <3>1. used'[v][d] = toks'[v].tokens /\ toks'[v].tokens \in Nat
      BY <1>2, <1>5, <1>6, <2>1
    <3>2. toks'[v].tokens <= DailyCap[v] - 1 + MaxTok * Cardinality(Free(v)')
      BY <1>10 DEF LiveQuota
    <3>3. Free(v)' \in SUBSET Thread
      BY DEF Free
    <3>4. Cardinality(Free(v)') <= Cardinality(Thread) /\ IsFiniteSet(Free(v)')
      BY <3>3, FS_Subset, LimiterAssumption
    <3>5. Cardinality(Free(v)') \in Nat /\ Cardinality(Thread) \in Nat
      BY <3>4, FS_CardinalityType, LimiterAssumption
    <3>6. MaxTok * Cardinality(Free(v)') <= MaxTok * Cardinality(Thread)
      BY <3>4, <3>5, TokProduct
    <3>7. /\ MaxTok * Cardinality(Free(v)') \in Nat /\ MaxTok * Cardinality(Thread) \in Nat
          /\ DailyCap[v] \in Nat
      BY <3>5, TokProduct, LimiterAssumption
    <3> QED BY <3>1, <3>2, <3>6, <3>7 DEF Overshoot
  <2>2. CASE ~(v = u /\ d = k)
    <3>1. used'[v][d] = used[v][d] /\ ~rewound[v]
      BY <1>6, <2>2
    <3> QED BY <3>1 DEF QuotaBound
  <2> QED BY <2>1, <2>2
<1> QED BY <1>7, <1>8, <1>9, <1>10, <1>11

LEMMA NextIInv == IInv /\ [Next]_vars => IInv'
<1> SUFFICES ASSUME IInv, [Next]_vars PROVE IInv'
  OBVIOUS
<1>1. ASSUME NEW t \in Thread, NEW u \in User, CallAllow(t, u) PROVE IInv'
  <2>1. TypeOK'
    <3>1. /\ pc' \in [Thread -> {"idle", "asking", "serving", "billing"}]
          /\ user' \in [Thread -> User] /\ now' \in [Thread -> 0 .. MaxClock]
          /\ calls' \in [User -> Nat]
      BY <1>1 DEF IInv, TypeOK, CallAllow
    <3>2. UNCHANGED <<clock, reqs, toks, bill, admits, used, rewound>>
      BY <1>1 DEF CallAllow
    <3> QED BY <3>1, <3>2 DEF IInv, TypeOK
  <2>2. \A v \in User : Free(v) \subseteq Free(v)'
    BY <1>1 DEF IInv, TypeOK, CallAllow, Free
  <2> QED BY <1>1, <2>1, <2>2, QuietIInv DEF CallAllow
<1>2. ASSUME NEW t \in Thread, NEW l \in LimitsOf[user[t]], Allow(t, l) PROVE IInv'
  BY <1>2, AllowIInv
<1>3. ASSUME NEW t \in Thread, NEW n \in 0 .. MaxTok, CallAddTokens(t, n) PROVE IInv'
  <2>1. TypeOK'
    <3>1. /\ pc' \in [Thread -> {"idle", "asking", "serving", "billing"}]
          /\ now' \in [Thread -> 0 .. MaxClock] /\ bill' \in [Thread -> 0 .. MaxTok]
      BY <1>3 DEF IInv, TypeOK, CallAddTokens
    <3> QED BY <1>3, <3>1 DEF IInv, TypeOK, CallAddTokens
  <2>2. \A v \in User : Free(v) \subseteq Free(v)'
    BY <1>3 DEF IInv, TypeOK, CallAddTokens, Free
  <2> QED BY <1>3, <2>1, <2>2, QuietIInv DEF CallAddTokens
<1>4. ASSUME NEW t \in Thread, AddTokens(t) PROVE IInv'
  BY <1>4, AddTokensIInv
<1>5. CASE Tick
  <2>1. TypeOK'
    BY <1>5, LimiterAssumption DEF IInv, TypeOK, Tick
  <2>2. \A v \in User : Free(v) \subseteq Free(v)'
    BY <1>5 DEF Tick, Free
  <2> QED BY <1>5, <2>1, <2>2, QuietIInv DEF Tick
<1>6. CASE UNCHANGED vars
  <2>1. TypeOK'
    BY <1>6 DEF IInv, TypeOK, vars
  <2>2. \A v \in User : Free(v) \subseteq Free(v)'
    BY <1>6 DEF vars, Free
  <2> QED BY <1>6, <2>1, <2>2, QuietIInv DEF vars
<1> QED BY <1>1, <1>2, <1>3, <1>4, <1>5, <1>6 DEF Next

LEMMA InvariantIInv == Spec => []IInv
BY InitIInv, NextIInv, PTL DEF Spec

-----------------------------------------------------------------------------
(* The theorems. *)

\* The limiter's maps and the goroutines' locals keep their types.
THEOREM TypeCorrect == Spec => []TypeOK
<1>1. IInv => TypeOK
  BY DEF IInv
<1> QED BY <1>1, InvariantIInv, PTL

\* Only a clock reading carried over midnight past a call of the new day makes
\* the daily counter forget recorded tokens.
THEOREM CounterExactHolds == Spec => []CounterExact
<1>1. IInv => CounterExact
  BY DEF IInv
<1> QED BY <1>1, InvariantIInv, PTL

\* The pre-check of Allow bounds a day's tokens by the quota plus one request
\* per goroutine, for all limits and any number of goroutines.
THEOREM QuotaBoundHolds == Spec => []QuotaBound
<1>1. IInv => QuotaBound
  BY DEF IInv
<1> QED BY <1>1, InvariantIInv, PTL

-----------------------------------------------------------------------------
(* The rolling minute *)

\* An admission is stamped with the start of the window that counts it and its
\* number there; stamps are ordered, and windows start at least a minute apart.
Stamp == [start : Int, nr : Int]
Before(a, b) == (a.start = b.start /\ a.nr < b.nr) \/ b.start - a.start >= Minute

Stamped(u, s) ==
  \A j \in 1 .. Len(admits[u]) :
    /\ s[j] \in Stamp /\ s[j].nr \in 1 .. RpmCap[u]
    /\ admits[u][j] - Minute - MaxWait < s[j].start /\ s[j].start <= admits[u][j]
    /\ Before(s[j], [start |-> reqs[u].start, nr |-> reqs[u].count + 1])
    /\ \A k \in 1 .. Len(admits[u]) : k < j => Before(s[k], s[j])

\* A goroutine that asks took its reading at most MaxWait ticks ago.
ReadingsFresh == \A t \in Thread : pc[t] = "asking" => now[t] <= clock /\ clock - now[t] <= MaxWait

WindowInv ==
  /\ ReadingsFresh
  /\ \A u \in User : reqs[u].start <= clock
  /\ \A u \in User : RpmCap[u] > 0 => \E s : Stamped(u, s)


\* Integer division is monotone, and strictly so over a whole divisor.
LEMMA DivMonotone ==
  ASSUME NEW m \in Nat \ {0}, NEW a \in Nat, NEW b \in Nat
  PROVE  /\ a \div m \in Nat
         /\ a <= b => a \div m <= b \div m
         /\ b - a >= m => a \div m < b \div m
<1> DEFINE q == a \div m  r == a % m  Q == b \div m  R == b % m
<1>1. q \in Int /\ r \in 0 .. m - 1 /\ a = m * q + r
  OBVIOUS
<1>2. Q \in Int /\ R \in 0 .. m - 1 /\ b = m * Q + R
  OBVIOUS
<1> HIDE DEF q, r, Q, R
<1>3. q >= 0
  BY <1>1
<1>4. a <= b => q <= Q
  BY <1>1, <1>2
<1>5. b - a >= m => q < Q
  BY <1>1, <1>2
<1> QED BY <1>1, <1>3, <1>4, <1>5 DEF q, Q

\* Stamps embed the admissions of a rolling minute into windows times numbers.
LEMMA WindowsCover ==
  ASSUME TypeOK, NEW u \in User, RpmCap[u] > 0, NEW s, Stamped(u, s),
         NEW hi \in 1 .. Len(admits[u])
  PROVE  Cardinality(Recent(u, hi)) <= Windows * RpmCap[u]
<1> DEFINE R == Recent(u, hi)
           span == 2 * Minute + MaxWait - 2
           lo == admits[u][hi] - span
           T == (0 .. Windows - 1) \X (1 .. RpmCap[u])
           f == [j \in R |-> <<(s[j].start - lo) \div Minute, s[j].nr>>]
<1>1. /\ Minute \in Nat \ {0} /\ MaxWait \in Nat /\ span \in Nat /\ RpmCap[u] \in Nat
      /\ admits[u] \in Seq(Nat) /\ Len(admits[u]) \in Nat
  BY LimiterAssumption DEF TypeOK
<1>2. span \div Minute \in Nat /\ Windows = span \div Minute + 1
  BY <1>1, DivMonotone DEF Windows
<1>3. ASSUME NEW j \in R
      PROVE  /\ j \in 1 .. Len(admits[u]) /\ j <= hi /\ s[j] \in Stamp /\ s[j].nr \in 1 .. RpmCap[u]
             /\ s[j].start - lo \in Nat /\ s[j].start - lo <= span
  <2>1. j \in 1 .. hi /\ j \in 1 .. Len(admits[u]) /\ admits[u][hi] - admits[u][j] < Minute
    BY <1>1 DEF Recent
  <2>2. /\ admits[u][hi] \in Nat /\ admits[u][j] \in Nat
    <3>1. PICK a \in Seq(Nat) : a = admits[u]
      BY <1>1
    <3>2. \A k \in 1 .. Len(a) : a[k] \in Nat
      OBVIOUS
    <3> QED BY <2>1, <3>1, <3>2
  <2>3. /\ s[j] \in Stamp /\ s[j].nr \in 1 .. RpmCap[u] /\ s[hi] \in Stamp
        /\ admits[u][j] - Minute - MaxWait < s[j].start /\ s[hi].start <= admits[u][hi]
        /\ j < hi => Before(s[j], s[hi])
    BY <2>1 DEF Stamped
  <2>4. s[j].start \in Int /\ s[hi].start \in Int
    BY <2>3 DEF Stamp
  <2>5. PICK x \in Int, y \in Int, a \in Nat, b \in Nat :
          x = s[j].start /\ y = s[hi].start /\ a = admits[u][j] /\ b = admits[u][hi]
    BY <2>2, <2>4
  <2>6. x <= y
    <3>1. CASE j = hi
      BY <2>5, <3>1
    <3>2. CASE j < hi
      <4>1. x = y \/ y - x >= Minute
        BY <2>3, <2>5, <3>2 DEF Before
      <4> QED BY <1>1, <4>1
    <3> QED BY <2>1, <3>1, <3>2
  <2>7. a - Minute - MaxWait < x /\ y <= b /\ b - a < Minute
    BY <2>1, <2>3, <2>5
  <2>8. x - lo \in Nat /\ x - lo <= span
    <3>1. lo = b - span /\ span = 2 * Minute + MaxWait - 2
      BY <2>5
    <3> HIDE DEF lo, span
    <3> QED BY <1>1, <2>6, <2>7, <3>1
  <2> QED BY <2>1, <2>3, <2>5, <2>8
<1> HIDE DEF R, lo, span
<1>4. f \in [R -> T]
  <2>1. ASSUME NEW j \in R PROVE (s[j].start - lo) \div Minute \in 0 .. Windows - 1
    <3>1. PICK a \in Nat : a = s[j].start - lo /\ a <= span
      BY <1>3
    <3>2. a \div Minute \in Nat /\ a \div Minute <= span \div Minute
      BY <1>1, <3>1, DivMonotone
    <3> QED BY <1>2, <3>1, <3>2
  <2> QED BY <1>3, <2>1
<1>5. ASSUME NEW j \in R, NEW k \in R, j < k PROVE f[j] # f[k]
  <2>1. Before(s[j], s[k])
    BY <1>3, <1>5 DEF Stamped
  <2>2. /\ s[j].start \in Int /\ s[k].start \in Int /\ s[j].start - lo \in Nat /\ s[k].start - lo \in Nat
        /\ s[j].nr \in Int /\ s[k].nr \in Int
    BY <1>3 DEF Stamp
  <2>0. lo \in Int
    BY <1>1 DEF lo, span
  <2>3. CASE s[j].nr < s[k].nr
    BY <2>2, <2>3
  <2>4. CASE s[k].start - s[j].start >= Minute
    <3>1. PICK a \in Nat, b \in Nat : a = s[j].start - lo /\ b = s[k].start - lo
      BY <2>2
    <3>2. b - a >= Minute
      <4>1. PICK x \in Int, y \in Int : x = s[j].start /\ y = s[k].start
        BY <2>2
      <4>2. a = x - lo /\ b = y - lo /\ y - x >= Minute
        BY <2>4, <3>1, <4>1
      <4> QED BY <1>1, <2>0, <4>2
    <3>3. a \div Minute < b \div Minute /\ a \div Minute \in Nat /\ b \div Minute \in Nat
      BY <1>1, <3>2, DivMonotone
    <3> QED BY <3>1, <3>3
  <2> QED BY <2>1, <2>3, <2>4 DEF Before
<1>6. f \in Injection(R, T)
  <2>1. \A j, k \in R : f[j] = f[k] => j = k
    <3> SUFFICES ASSUME NEW j \in R, NEW k \in R, j # k PROVE f[j] # f[k]
      OBVIOUS
    <3>1. j < k \/ k < j
      BY <1>1, <1>3
    <3> QED BY <1>5, <3>1
  <2> HIDE DEF f
  <2> QED BY <1>4, <2>1 DEF Injection, IsInjective
<1>7. IsFiniteSet(T) /\ Cardinality(T) = Windows * RpmCap[u]
  <2>1. Windows - 1 \in Int /\ RpmCap[u] \in Int /\ Windows \in Nat /\ Windows > 0
    BY <1>1, <1>2
  <2>2. IsFiniteSet(0 .. Windows - 1) /\ Cardinality(0 .. Windows - 1) = Windows
    <3>1. PICK n \in Int : n = Windows - 1 /\ ~(0 > n)
      BY <2>1
    <3>2. IsFiniteSet(0 .. n) /\ Cardinality(0 .. n) = n - 0 + 1
      BY <3>1, FS_Interval
    <3> QED BY <2>1, <3>1, <3>2
  <2>3. IsFiniteSet(1 .. RpmCap[u]) /\ Cardinality(1 .. RpmCap[u]) = RpmCap[u]
    <3>1. PICK n \in Int : n = RpmCap[u] /\ ~(1 > n)
      BY <2>1
    <3>2. PICK k \in Int : k = 1
      OBVIOUS
    <3>3. IsFiniteSet(k .. n) /\ Cardinality(k .. n) = IF k > n THEN 0 ELSE n - k + 1
      BY FS_Interval
    <3> QED BY <3>1, <3>2, <3>3
  <2>4. PICK A, B : A = 0 .. Windows - 1 /\ B = 1 .. RpmCap[u]
    OBVIOUS
  <2>5. IsFiniteSet(A \X B) /\ Cardinality(A \X B) = Cardinality(A) * Cardinality(B)
    BY <2>2, <2>3, <2>4, FS_Product
  <2> QED BY <2>2, <2>3, <2>4, <2>5
<1>8. Cardinality(R) <= Cardinality(T)
  <2> HIDE DEF f, T
  <2> QED BY <1>6, <1>7, FS_Injection
<1> QED BY <1>7, <1>8 DEF R

LEMMA InitWindowInv == Init => WindowInv
<1> SUFFICES ASSUME Init PROVE WindowInv
  OBVIOUS
<1>1. \A u \in User : reqs[u].start <= clock
  BY LimiterAssumption DEF Init, NoWindow
<1>2. \A u \in User : Stamped(u, <<>>)
  BY DEF Init, Stamped
<1> QED BY <1>1, <1>2 DEF Init, WindowInv, ReadingsFresh

\* Admissions and windows are kept.
LEMMA QuietWindow ==
  ASSUME TypeOK, WindowInv, UNCHANGED <<reqs, admits>>, ReadingsFresh', clock' \in Int, clock' >= clock
  PROVE  WindowInv'
<1>1. \A u \in User : reqs'[u].start <= clock'
  BY DEF TypeOK, WindowInv
<1>2. ASSUME NEW u \in User, NEW s, Stamped(u, s) PROVE Stamped(u, s)'
  BY <1>2 DEF Stamped
<1> QED BY <1>1, <1>2 DEF WindowInv

LEMMA AllowWindow ==
  ASSUME TypeOK, WindowInv, NEW t \in Thread, NEW l, Allow(t, l) PROVE WindowInv'
<1>1. PICK u \in User : u = user[t]
  BY DEF TypeOK
<1>2. PICK w : w = Window(u, t)
  OBVIOUS
<1>3. /\ l \in Limits /\ pc[t] = "asking" /\ clock' = clock /\ user' = user
      /\ RpmCap[u] \in Nat /\ Minute \in Nat \ {0} /\ MaxWait \in Nat
      /\ l.rpm \in Nat
      /\ RpmCap[u] > 0 => l.rpm <= RpmCap[u] /\ l.rpm > 0
  BY <1>1, LimiterAssumption DEF Allow, Limits
<1>4. /\ pc' = [pc EXCEPT ![t] = pc'[t]] /\ pc'[t] \in {"idle", "serving"}
      /\ \A q \in Thread : q # t => pc'[q] = pc[q] /\ now'[q] = now[q]
  BY DEF Allow, TypeOK
<1>5. ReadingsFresh'
  BY <1>3, <1>4 DEF ReadingsFresh, WindowInv
<1>6. /\ reqs[u].start \in Int /\ reqs[u].count \in Nat /\ now[t] \in Int /\ clock \in Int
      /\ now[t] <= clock /\ clock - now[t] <= MaxWait /\ reqs[u].start <= clock
  BY <1>1, <1>3, LimiterAssumption DEF TypeOK, WindowInv, ReadingsFresh
<1>7. /\ w.start \in Int /\ w.count \in Nat /\ w.start <= clock /\ clock - Minute - MaxWait < w.start
      /\ \/ w = reqs[u]
         \/ w = [start |-> now[t], count |-> 0] /\ now[t] - reqs[u].start >= Minute
  BY <1>2, <1>3, <1>6 DEF Window
<1>8. PICK quota \in BOOLEAN, rate \in BOOLEAN :
        /\ rate = TRUE <=> l.rpm > 0 /\ w.count >= l.rpm
        /\ quota = TRUE \/ l.rpm = 0 => reqs' = reqs /\ admits' = admits
        /\ ~(quota = TRUE \/ l.rpm = 0) =>
             /\ reqs' = [reqs EXCEPT ![u] = [w EXCEPT !.count = IF rate = TRUE THEN w.count ELSE w.count + 1]]
             /\ admits' = IF rate = TRUE THEN admits ELSE [admits EXCEPT ![u] = Append(admits[u], clock)]
  <2> DEFINE qt == l.daily > 0 /\ DayCount(u, t).tokens >= l.daily
             rt == l.rpm > 0 /\ w.count >= l.rpm
  <2>1. qt \in BOOLEAN /\ rt \in BOOLEAN
    OBVIOUS
  <2>2. /\ reqs' = IF qt \/ l.rpm = 0 THEN reqs
                ELSE [reqs EXCEPT ![u] = [w EXCEPT !.count = IF rt THEN @ ELSE @ + 1]]
        /\ admits' = IF qt \/ l.rpm = 0 \/ rt THEN admits
                  ELSE [admits EXCEPT ![u] = Append(@, clock)]
    BY <1>1, <1>2 DEF Allow
  <2>3. rt = TRUE <=> l.rpm > 0 /\ w.count >= l.rpm
    OBVIOUS
  <2> HIDE DEF qt, rt
  <2>4. /\ qt = TRUE \/ l.rpm = 0 => reqs' = reqs /\ admits' = admits
        /\ ~(qt = TRUE \/ l.rpm = 0) =>
             /\ reqs' = [reqs EXCEPT ![u] = [w EXCEPT !.count = IF rt = TRUE THEN w.count ELSE w.count + 1]]
             /\ admits' = IF rt = TRUE THEN admits ELSE [admits EXCEPT ![u] = Append(admits[u], clock)]
    BY <2>1, <2>2
  <2> QED BY <2>1, <2>3, <2>4
<1>9. CASE quota = TRUE \/ l.rpm = 0
  BY <1>3, <1>5, <1>6, <1>8, <1>9, QuietWindow
<1>10. CASE ~(quota = TRUE \/ l.rpm = 0)
  <2>1. PICK n \in Nat : n = IF rate = TRUE THEN w.count ELSE w.count + 1
    BY <1>7
  <2>2. reqs' = [reqs EXCEPT ![u] = [w EXCEPT !.count = n]]
    BY <1>8, <1>10, <2>1
  <2>3. w \in [start : Int, count : Nat]
    BY <1>1, <1>6, <1>7 DEF TypeOK
  <2>4. /\ \A x \in User : x # u => reqs'[x] = reqs[x] /\ admits'[x] = admits[x]
        /\ reqs'[u].start = w.start /\ reqs'[u].count = n
    BY <1>1, <1>8, <1>10, <2>2, <2>3 DEF TypeOK
  <2>5. \A x \in User : reqs'[x].start <= clock'
    BY <1>3, <1>7, <2>4 DEF WindowInv
  <2>6. ASSUME NEW x \in User, x # u, NEW s, Stamped(x, s) PROVE Stamped(x, s)'
    BY <2>4, <2>6 DEF Stamped
  <2>7. ASSUME RpmCap[u] > 0, NEW s, Stamped(u, s) PROVE \E z : Stamped(u, z)'
    <3>0. admits[u] \in Seq(Nat) /\ Len(admits[u]) \in Nat /\ clock \in Nat
      BY <1>1, LimiterAssumption DEF TypeOK
    <3>1. ASSUME NEW j \in 1 .. Len(admits[u]), NEW m \in Int, m > w.count
          PROVE  Before(s[j], [start |-> w.start, nr |-> m])
      <4>1. /\ Before(s[j], [start |-> reqs[u].start, nr |-> reqs[u].count + 1])
            /\ s[j].start \in Int /\ s[j].nr \in Int
        BY <2>7 DEF Stamped, Stamp
      <4>2. CASE w = reqs[u]
        BY <1>6, <3>1, <4>1, <4>2 DEF Before
      <4>3. CASE w = [start |-> now[t], count |-> 0] /\ now[t] - reqs[u].start >= Minute
        BY <1>3, <1>6, <4>1, <4>3 DEF Before
      <4> QED BY <1>7, <4>2, <4>3
    <3>2. CASE rate = TRUE
      <4>1. admits'[u] = admits[u] /\ n = w.count
        BY <1>8, <1>10, <2>1, <3>2
      <4>2. n + 1 \in Int /\ n + 1 > w.count
        BY <1>7, <4>1
      <4>3. ASSUME NEW j \in 1 .. Len(admits[u])
            PROVE  Before(s[j], [start |-> reqs'[u].start, nr |-> reqs'[u].count + 1])
        BY <2>4, <3>1, <4>2
      <4>4. Stamped(u, s)'
        BY <2>7, <4>1, <4>3 DEF Stamped, Before
      <4> QED BY <4>4
    <3>3. CASE rate = FALSE
      <4>1. PICK e \in Nat : e = Len(admits[u]) + 1
        BY <3>0
      <4>2. PICK q \in Stamp : q.start = w.start /\ q.nr = n
        <5>1. [start |-> w.start, nr |-> n] \in Stamp
          BY <1>7 DEF Stamp
        <5> QED BY <5>1
      <4>3. PICK z : z = [j \in 1 .. e |-> IF j = e THEN q ELSE s[j]]
        OBVIOUS
      <4>4. n = w.count + 1 /\ n \in 1 .. RpmCap[u]
        <5>1. n = w.count + 1
          BY <2>1, <3>3
        <5>2. l.rpm <= RpmCap[u] /\ l.rpm > 0 /\ ~(w.count >= l.rpm)
          BY <1>3, <1>8, <2>7, <3>3
        <5>3. PICK a \in Nat, b \in Nat, c \in Nat : a = w.count /\ b = l.rpm /\ c = RpmCap[u]
          BY <1>3, <1>7
        <5> QED BY <5>1, <5>2, <5>3
      <4>5. admits' = [admits EXCEPT ![u] = Append(admits[u], clock)]
        BY <1>8, <1>10, <3>3
      <4>6. /\ Len(admits'[u]) = e /\ admits'[u][e] = clock
            /\ \A j \in 1 .. Len(admits[u]) : admits'[u][j] = admits[u][j] /\ z[j] = s[j] /\ j < e
            /\ z[e] = q /\ \A j \in 1 .. e : j = e \/ j \in 1 .. Len(admits[u])
        BY <1>1, <3>0, <4>1, <4>3, <4>5 DEF TypeOK
      <4>7. ASSUME NEW j \in 1 .. Len(admits[u])
            PROVE  /\ Before(s[j], [start |-> reqs'[u].start, nr |-> reqs'[u].count + 1])
                   /\ Before(s[j], q)
        <5>1. n + 1 \in Int /\ n + 1 > w.count /\ n > w.count
          BY <1>7, <4>4
        <5>2. /\ Before(s[j], [start |-> w.start, nr |-> n + 1])
              /\ Before(s[j], [start |-> w.start, nr |-> n])
          BY <3>1, <5>1
        <5> QED BY <2>4, <4>2, <5>2 DEF Before
      <4>8. Before(q, [start |-> reqs'[u].start, nr |-> reqs'[u].count + 1])
        BY <2>4, <4>2 DEF Before
      <4>9. ASSUME NEW j \in 1 .. e
            PROVE  /\ z[j] \in Stamp /\ z[j].nr \in 1 .. RpmCap[u]
                   /\ admits'[u][j] - Minute - MaxWait < z[j].start /\ z[j].start <= admits'[u][j]
                   /\ Before(z[j], [start |-> reqs'[u].start, nr |-> reqs'[u].count + 1])
                   /\ \A k \in 1 .. e : k < j => Before(z[k], z[j])
        <5>1. CASE j = e
          BY <1>7, <4>2, <4>4, <4>6, <4>7, <4>8, <5>1
        <5>2. CASE j \in 1 .. Len(admits[u])
          <6>1. \A k \in 1 .. e : k < j => k \in 1 .. Len(admits[u])
            BY <3>0, <4>1, <5>2
          <6> QED BY <2>7, <4>6, <4>7, <5>2, <6>1 DEF Stamped
        <5> QED BY <4>6, <5>1, <5>2
      <4>10. Stamped(u, z)'
        BY <4>6, <4>9 DEF Stamped, Before
      <4> QED BY <4>10
    <3> QED BY <3>2, <3>3
  <2> QED BY <1>5, <2>5, <2>6, <2>7 DEF WindowInv
<1> QED BY <1>9, <1>10

\* How many requests the limiter lets through in a rolling minute (Allow): the windows
\* that overlap it times the limit, for any limits, any length of the minute and any
\* wait for the lock.
THEOREM RollingBoundHolds == Spec => []RollingBound
<1>1. TypeOK /\ WindowInv /\ [Next]_vars => WindowInv'
  <2> SUFFICES ASSUME TypeOK, WindowInv, [Next]_vars PROVE WindowInv'
    OBVIOUS
  <2>0. clock \in Int
    BY LimiterAssumption DEF TypeOK
  <2>1. ASSUME NEW t \in Thread, NEW u \in User, CallAllow(t, u) PROVE WindowInv'
    <3>1. /\ clock' = clock /\ reqs' = reqs /\ admits' = admits /\ pc'[t] = "asking" /\ now'[t] = clock
          /\ \A q \in Thread : q # t => pc'[q] = pc[q] /\ now'[q] = now[q]
      BY <2>1 DEF CallAllow, TypeOK
    <3>2. ReadingsFresh'
      BY <2>0, <3>1, LimiterAssumption DEF ReadingsFresh, WindowInv
    <3> QED BY <2>0, <3>1, <3>2, QuietWindow
  <2>2. ASSUME NEW t \in Thread, NEW l \in LimitsOf[user[t]], Allow(t, l) PROVE WindowInv'
    BY <2>2, AllowWindow
  <2>3. ASSUME NEW t \in Thread, NEW n \in 0 .. MaxTok, CallAddTokens(t, n) PROVE WindowInv'
    <3>1. /\ clock' = clock /\ reqs' = reqs /\ admits' = admits /\ pc'[t] # "asking"
          /\ \A q \in Thread : q # t => pc'[q] = pc[q] /\ now'[q] = now[q]
      BY <2>3 DEF CallAddTokens, TypeOK
    <3>2. ReadingsFresh'
      BY <3>1 DEF ReadingsFresh, WindowInv
    <3> QED BY <2>0, <3>1, <3>2, QuietWindow
  <2>4. ASSUME NEW t \in Thread, AddTokens(t) PROVE WindowInv'
    <3>1. /\ clock' = clock /\ reqs' = reqs /\ admits' = admits /\ pc'[t] # "asking"
          /\ \A q \in Thread : q # t => pc'[q] = pc[q] /\ now'[q] = now[q]
      BY <2>4 DEF AddTokens, TypeOK
    <3>2. ReadingsFresh'
      BY <3>1 DEF ReadingsFresh, WindowInv
    <3> QED BY <2>0, <3>1, <3>2, QuietWindow
  <2>5. CASE Tick
    <3>1. /\ clock' = clock + 1 /\ UNCHANGED <<reqs, admits, pc, now>>
          /\ \A t \in Thread : pc[t] = "asking" => clock - now[t] < MaxWait
      BY <2>5 DEF Tick
    <3>2. \A t \in Thread : now[t] \in Int
      BY LimiterAssumption DEF TypeOK
    <3>3. ReadingsFresh'
      BY <2>0, <3>1, <3>2, LimiterAssumption DEF ReadingsFresh, WindowInv
    <3> QED BY <2>0, <3>1, <3>3, QuietWindow
  <2>6. CASE UNCHANGED vars
    <3>1. UNCHANGED <<clock, reqs, admits, pc, now>>
      BY <2>6 DEF vars
    <3>2. ReadingsFresh'
      BY <3>1 DEF ReadingsFresh, WindowInv
    <3> QED BY <2>0, <3>1, <3>2, QuietWindow
  <2> QED BY <2>1, <2>2, <2>3, <2>4, <2>5, <2>6 DEF Next
<1>2. TypeOK /\ WindowInv => RollingBound
  BY WindowsCover DEF WindowInv, RollingBound
<1> QED BY <1>1, <1>2, InitWindowInv, TypeCorrect, PTL DEF Spec

-----------------------------------------------------------------------------
(* The team limits *)

\* One application of mostRestrictive extends the tightest of S to S and next.
LEMMA MostRestrictiveStep ==
  ASSUME NEW S \in SUBSET Nat, NEW cur \in Int, NEW next \in Int, next >= -1,
         Tightest(cur, S, -1)
  PROVE  /\ next < 0 => Tightest(mostRestrictive(cur, next), S, -1)
         /\ next >= 0 => Tightest(mostRestrictive(cur, next), S \cup {next}, -1)
<1>1. CASE S = {} /\ cur = -1
  BY <1>1 DEF Tightest, mostRestrictive
<1>2. CASE S = {0} /\ cur = 0
  BY <1>2 DEF Tightest, mostRestrictive
<1>3. CASE cur \in S /\ cur > 0 /\ \A p \in S : p > 0 => cur <= p
  <2>1. CASE next > 0 /\ next < cur
    <3>1. mostRestrictive(cur, next) = next
      BY <1>3, <2>1 DEF mostRestrictive
    <3>2. \A p \in S \cup {next} : p > 0 => next <= p
      BY <1>3, <2>1
    <3> QED BY <2>1, <3>1, <3>2 DEF Tightest
  <2>2. CASE ~(next > 0 /\ next < cur)
    <3>1. mostRestrictive(cur, next) = cur
      BY <1>3, <2>2 DEF mostRestrictive
    <3>2. \A p \in S \cup {next} : p > 0 => cur <= p
      BY <1>3, <2>2
    <3> QED BY <1>3, <3>1, <3>2 DEF Tightest
  <2> QED BY <2>1, <2>2
<1> QED BY <1>1, <1>2, <1>3 DEF Tightest

-----------------------------------------------------------------------------
(* The inductive invariant: out is the tightest limit of the teams seen. *)

Loop ==
  /\ phase \in {"start", "teams"} => lim = Default
  /\ phase = "teams" => own = None
  /\ \A d \in Dim : Tightest(out[d], Set(d, i), -1)
  /\ ~found => \A j \in 1 .. i : teams[j] \notin hasLimits

ResolveInv == ResolutionTypeOK /\ Loop /\ TeamLimitTightest

\* An override leaves no dimension unset.
LEMMA OverrideNat ==
  ASSUME lim \in [Dim -> Nat], NEW l \in UserLimit
  PROVE  Override(l) \in [Dim -> Nat]
<1>1. ASSUME NEW d \in Dim PROVE (IF l[d] >= 0 THEN l[d] ELSE lim[d]) \in Nat
  <2>1. l[d] \in Int /\ lim[d] \in Nat
    BY ResolutionAssumption DEF UserLimit
  <2> QED BY <2>1
<1> QED BY <1>1 DEF Override

LEMMA InitResolveInv == ResolveInit => ResolveInv
<1> SUFFICES ASSUME ResolveInit PROVE ResolveInv
  OBVIOUS
<1>1. teams \in Seq(Team) /\ Len(teams) \in Nat
  <2>1. PICK n \in 0 .. MaxTeams : teams \in [1 .. n -> Team]
    BY DEF ResolveInit
  <2>2. n \in Nat
    BY <2>1, ResolutionAssumption
  <2>3. teams \in Seq(Team)
    BY <2>1, <2>2, SeqDef
  <2> QED BY <2>3, LenProperties
<1>2. None \in UserLimit
  BY ResolutionAssumption DEF None, UserLimit
<1>3. ResolutionTypeOK
  <2>1. Default \in [Dim -> Nat]
    BY ResolutionAssumption
  <2>2. i \in 0 .. Len(teams)
    BY <1>1 DEF ResolveInit
  <2> QED BY <1>1, <1>2, <2>1, <2>2 DEF ResolveInit, ResolutionTypeOK
<1>4. Loop
  <2>1. \A d \in Dim : Set(d, 0) = {} /\ out[d] = -1
    BY DEF Set, ResolveInit, None
  <2> QED BY <2>1 DEF ResolveInit, Loop, Tightest
<1> QED BY <1>3, <1>4 DEF ResolveInv, ResolveInit, TeamLimitTightest

LEMMA NextResolveInv == ResolveInv /\ [ResolveNext]_resolveVars => ResolveInv'
<1> SUFFICES ASSUME ResolveInv, [ResolveNext]_resolveVars PROVE ResolveInv'
  OBVIOUS
<1> USE DEF ResolveInv
<1>0. \A d \in Dim, n \in Nat : Set(d, n) \in SUBSET Nat
  <2> SUFFICES ASSUME NEW d \in Dim, NEW n \in Nat, NEW v \in Set(d, n) PROVE v \in Nat
    OBVIOUS
  <2>1. v \in Value /\ v >= 0
    BY DEF Set
  <2> QED BY <2>1, ResolutionAssumption
<1>1. CASE Personal
  <2>1. Override(own) \in [Dim -> Nat]
    BY OverrideNat DEF ResolutionTypeOK
  <2>2. ResolutionTypeOK'
    BY <1>1, <2>1 DEF Personal, ResolutionTypeOK, snapshot
  <2>3. Loop'
    BY <1>1 DEF Personal, Loop, snapshot, Set, Tightest
  <2> QED BY <1>1, <2>2, <2>3 DEF Personal, TeamLimitTightest, snapshot
<1>2. CASE AskTeams
  <2>1. ResolutionTypeOK'
    BY <1>2 DEF AskTeams, ResolutionTypeOK, snapshot
  <2>2. Loop'
    BY <1>2 DEF AskTeams, Loop, snapshot, Set, Tightest
  <2> QED BY <1>2, <2>1, <2>2 DEF AskTeams, TeamLimitTightest, snapshot
<1>3. CASE NextTeam
  <2> DEFINE tid == teams[i + 1]
  <2>1. /\ i \in Nat /\ i + 1 \in 1 .. Len(teams) /\ i' = i + 1
        /\ UNCHANGED <<own, teams, hasLimits, teamLimits, lim, phase>>
        /\ phase = "teams" /\ Len(teams) \in Nat
    BY <1>3, LenProperties DEF NextTeam, ResolutionTypeOK, snapshot
  <2>2. tid \in Team
    BY <2>1, ElementOfSeq DEF ResolutionTypeOK
  <2>3. \A d \in Dim : /\ teamLimits[tid][d] \in Value /\ teamLimits[tid][d] \in Int
                       /\ teamLimits[tid][d] >= -1 /\ out[d] \in Value /\ out[d] \in Int
    BY <2>2, ResolutionAssumption DEF ResolutionTypeOK, UserLimit
  <2>4. CASE tid \in hasLimits
    <3>1. found' = TRUE /\ out' = [d \in Dim |-> mostRestrictive(out[d], teamLimits[tid][d])]
      BY <1>3, <2>4 DEF NextTeam
    <3>2. out' \in UserLimit
      BY <2>3, <3>1 DEF UserLimit, mostRestrictive
    <3>3. ResolutionTypeOK'
      BY <2>1, <3>1, <3>2 DEF ResolutionTypeOK
    <3>4. ASSUME NEW d \in Dim PROVE Tightest(out'[d], Set(d, i)', -1)
      <4> DEFINE v == teamLimits[tid][d]
      <4>1. Set(d, i)' = IF v >= 0 THEN Set(d, i) \cup {v} ELSE Set(d, i)
        <5>1. \A w : w \in Set(d, i)' <=>
                 /\ w \in Value /\ w >= 0
                 /\ \E j \in 1 .. i + 1 :
                       teams[j] \in hasLimits /\ w = teamLimits[teams[j]][d]
          BY <2>1 DEF Set
        <5>2. \A j : j \in 1 .. i + 1 <=> j \in 1 .. i \/ j = i + 1
          BY <2>1
        <5>3. \A w : w \in Set(d, i)' <=>
                 \/ w \in Set(d, i)
                 \/ w \in Value /\ w >= 0 /\ w = v
          BY <2>4, <5>1, <5>2 DEF Set
        <5> QED BY <2>3, <5>3
      <4>2. Tightest(out[d], Set(d, i), -1) /\ Set(d, i) \in SUBSET Nat
        BY <1>0, <2>1 DEF Loop
      <4>3. out'[d] = mostRestrictive(out[d], v)
        BY <3>1
      <4>4. v \in Int /\ v >= -1 /\ out[d] \in Int
        BY <2>3
      <4> HIDE DEF v
      <4>5. /\ v < 0 => Tightest(mostRestrictive(out[d], v), Set(d, i), -1)
            /\ v >= 0 => Tightest(mostRestrictive(out[d], v), Set(d, i) \cup {v}, -1)
        BY <4>2, <4>4, MostRestrictiveStep
      <4>6. CASE v >= 0
        BY <4>1, <4>3, <4>5, <4>6
      <4>7. CASE v < 0
        <5>1. ~(v >= 0)
          BY <4>4, <4>7
        <5> QED BY <4>1, <4>3, <4>5, <4>7, <5>1
      <4> QED BY <4>4, <4>6, <4>7
    <3>5. Loop'
      BY <2>1, <3>1, <3>4 DEF Loop
    <3> QED BY <2>1, <3>3, <3>5 DEF TeamLimitTightest
  <2>5. CASE tid \notin hasLimits
    <3>1. found' = found /\ out' = out
      BY <1>3, <2>5 DEF NextTeam
    <3>2. ResolutionTypeOK'
      BY <2>1, <3>1 DEF ResolutionTypeOK
    <3>3. \A j \in 1 .. i + 1 : teams[j] \in hasLimits => j \in 1 .. i
      BY <2>1, <2>5
    <3>4. \A d \in Dim : Set(d, i)' = Set(d, i)
      BY <2>1, <3>3 DEF Set
    <3>5. Loop'
      BY <2>1, <3>1, <3>3, <3>4 DEF Loop
    <3> QED BY <2>1, <3>2, <3>5 DEF TeamLimitTightest
  <2> QED BY <2>4, <2>5
<1>4. CASE TeamsDone
  <2>1. /\ i = Len(teams) /\ phase = "teams" /\ phase' = "done"
        /\ UNCHANGED <<own, teams, hasLimits, teamLimits, i, out, found>>
        /\ lim' = IF found THEN Override(out) ELSE lim
        /\ lim = Default /\ own = None
    BY <1>4 DEF TeamsDone, snapshot, Loop
  <2>2. Override(out) \in [Dim -> Nat]
    BY OverrideNat DEF ResolutionTypeOK
  <2>3. ResolutionTypeOK'
    BY <2>1, <2>2 DEF ResolutionTypeOK
  <2>4. Loop'
    BY <2>1 DEF Loop, Set, Tightest
  <2>5. TeamLimitTightest'
    <3> SUFFICES ASSUME NEW d \in Dim
                 PROVE  Tightest(lim'[d], Set(d, Len(teams)), Default[d])
      BY <2>1 DEF TeamLimitTightest, Set, Tightest
    <3>1. Tightest(out[d], Set(d, Len(teams)), -1) /\ out[d] \in Int
      BY <2>1, ResolutionAssumption DEF Loop, ResolutionTypeOK, UserLimit
    <3>2. CASE found
      <4>1. lim'[d] = IF out[d] >= 0 THEN out[d] ELSE Default[d]
        BY <2>1, <3>2 DEF Override
      <4> QED BY <3>1, <4>1 DEF Tightest
    <3>3. CASE ~found
      <4>1. Set(d, Len(teams)) = {}
        BY <2>1, <3>3 DEF Set, Loop
      <4> QED BY <2>1, <3>3, <4>1 DEF Tightest
    <3> QED BY <3>2, <3>3
  <2> QED BY <2>3, <2>4, <2>5
<1>5. CASE UNCHANGED resolveVars
  BY <1>5 DEF resolveVars, ResolutionTypeOK, Loop, TeamLimitTightest, Set, Tightest
<1> QED BY <1>1, <1>2, <1>3, <1>4, <1>5 DEF ResolveNext

\* The team loop and limitsFor keep their types.
THEOREM ResolutionTypeCorrect == ResolveSpec => []ResolutionTypeOK
<1>1. ResolveInv => ResolutionTypeOK
  BY DEF ResolveInv
<1> QED BY <1>1, InitResolveInv, NextResolveInv, PTL DEF ResolveSpec

\* limitsFor gives a user without an override the tightest limit of his teams,
\* for every list of teams and all limits.
THEOREM TeamLimitTightestHolds == ResolveSpec => []TeamLimitTightest
<1>1. ResolveInv => TeamLimitTightest
  BY DEF ResolveInv
<1> QED BY <1>1, InitResolveInv, NextResolveInv, PTL DEF ResolveSpec
=============================================================================
