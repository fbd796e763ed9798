---------------------------- MODULE RateLimiter ----------------------------
(***************************************************************************)
(* ratelimit.Limiter: per-user request windows and daily token counters       *)
(* behind one mutex.  Both operations read the clock BEFORE they take the     *)
(* lock, so a call is two steps: read the clock, then run the critical        *)
(* section with a reading that may be old by then.  A goroutine asks (Allow), *)
(* serves the request upstream, and bills the tokens it used (AddTokens).     *)
(***************************************************************************)
EXTENDS Integers, Sequences, FiniteSets

CONSTANTS User, Thread,
          Minute,     \* ticks in the request window
          Day,        \* ticks in a UTC day
          LimitsOf,   \* for each user the Limits that snapshots may hand to Allow
          RpmCap,     \* the loosest RPM of LimitsOf[u], 0 if one is unlimited
          DailyCap,   \* the loosest DailyTokens of LimitsOf[u], 0 if one is unlimited
          MaxTok,     \* most tokens one request can cost
          MaxWait,    \* bound: ticks a call may wait for the lock
          MaxClock,   \* bound: the last tick
          MaxCalls    \* bound: calls of Allow per user

Limits == [rpm : Nat, daily : Nat]   \* 0 disables the dimension

ASSUME LimiterAssumption ==
  /\ IsFiniteSet(Thread)
  /\ Minute \in Nat \ {0} /\ Day \in Nat \ {0}
  /\ MaxTok \in Nat /\ MaxWait \in Nat /\ MaxClock \in Nat /\ MaxCalls \in Nat
  /\ LimitsOf \in [User -> SUBSET Limits]
  /\ RpmCap \in [User -> Nat] /\ DailyCap \in [User -> Nat]
  /\ \A u \in User : \A l \in LimitsOf[u] :
       /\ RpmCap[u] > 0 => l.rpm \in 1 .. RpmCap[u]
       /\ DailyCap[u] > 0 => l.daily \in 1 .. DailyCap[u]

VARIABLES clock,    \* wall clock, in ticks
          reqs,     \* the request window of each user
          toks,     \* the daily counter of each user
          pc, user, \* what each goroutine is doing, and for whom
          now,      \* the clock reading it took before asking for the lock (0: none)
          bill,     \* the tokens it is about to record
          calls,    \* calls of Allow so far, per user
          admits,   \* history: clock at each counted admission, per user
          used,     \* history: tokens recorded, per user and day of the reading
          rewound   \* history: a call carried a reading older than the counter's day

vars == <<clock, reqs, toks, pc, user, now, bill, calls, admits, used, rewound>>

dayKey(t) == t \div Day
Days == 0 .. MaxClock \div Day

TypeOK ==
  /\ clock \in 0 .. MaxClock
  /\ reqs \in [User -> [start : Int, count : Nat]]
  /\ toks \in [User -> [day : {-1} \cup Days, tokens : Nat]]
  /\ pc \in [Thread -> {"idle", "asking", "serving", "billing"}]
  /\ user \in [Thread -> User]
  /\ now \in [Thread -> 0 .. MaxClock]
  /\ bill \in [Thread -> 0 .. MaxTok]
  /\ calls \in [User -> Nat]
  /\ admits \in [User -> Seq(Nat)]
  /\ used \in [User -> [Days -> Nat]]
  /\ rewound \in [User -> BOOLEAN]

\* A missing map entry is a window that has expired, or a counter of no day.
NoWindow == [start |-> -Minute, count |-> 0]
NoDay == [day |-> -1, tokens |-> 0]

Init ==
  /\ clock = 0
  /\ reqs = [u \in User |-> NoWindow]
  /\ toks = [u \in User |-> NoDay]
  /\ pc = [t \in Thread |-> "idle"] /\ user \in [Thread -> User]
  /\ now = [t \in Thread |-> 0] /\ bill = [t \in Thread |-> 0]
  /\ calls = [u \in User |-> 0]
  /\ admits = [u \in User |-> <<>>]
  /\ used = [u \in User |-> [d \in Days |-> 0]]
  /\ rewound = [u \in User |-> FALSE]

-----------------------------------------------------------------------------
\* now := l.Now() at the head of Allow.
CallAllow(t, u) ==
  /\ pc[t] = "idle" /\ calls[u] < MaxCalls
  /\ pc' = [pc EXCEPT ![t] = "asking"]
  /\ user' = [user EXCEPT ![t] = u]
  /\ now' = [now EXCEPT ![t] = clock]
  /\ calls' = [calls EXCEPT ![u] = @ + 1]
  /\ UNCHANGED <<clock, reqs, toks, bill, admits, used, rewound>>

\* Mutant: a new day keeps yesterday's tokens.
DayCountCarried(u, t) == [day |-> dayKey(now[t]), tokens |-> toks[u].tokens]

\* The counter a call works on: the one of its own day, or a fresh one.
DayCount(u, t) ==
  IF toks[u].day # dayKey(now[t]) THEN [day |-> dayKey(now[t]), tokens |-> 0]
                                  ELSE toks[u]

\* Mutant: the window is renewed as soon as it is full.
WindowRenewed(u, t) ==
  IF now[t] - reqs[u].start >= Minute \/ reqs[u].count >= RpmCap[u]
    THEN [start |-> now[t], count |-> 0] ELSE reqs[u]

Window(u, t) ==
  IF now[t] - reqs[u].start >= Minute THEN [start |-> now[t], count |-> 0]
                                      ELSE reqs[u]

Rewinds(u, t) == toks[u].day > dayKey(now[t])

\* Mutant: the quota pre-check compares with > instead of >=.
AllowLax(t, l) ==
  LET u == user[t] dc == DayCount(u, t) w == Window(u, t)
      quota == l.daily > 0 /\ dc.tokens > l.daily
      rate == l.rpm > 0 /\ w.count >= l.rpm
  IN /\ pc[t] = "asking" /\ l \in LimitsOf[u]
     /\ toks' = IF l.daily > 0 THEN [toks EXCEPT ![u] = dc] ELSE toks
     /\ rewound' = [rewound EXCEPT ![u] = @ \/ (l.daily > 0 /\ Rewinds(u, t))]
     /\ reqs' = IF quota \/ l.rpm = 0 THEN reqs
                ELSE [reqs EXCEPT ![u] = [w EXCEPT !.count = IF rate THEN @ ELSE @ + 1]]
     /\ admits' = IF quota \/ l.rpm = 0 \/ rate THEN admits
                  ELSE [admits EXCEPT ![u] = Append(@, clock)]
     /\ pc' = [pc EXCEPT ![t] = IF quota \/ rate THEN "idle" ELSE "serving"]
     /\ now' = [now EXCEPT ![t] = 0]
     /\ UNCHANGED <<clock, user, bill, calls, used>>

\* The critical section of Allow.  The counter is renewed only when the daily
\* dimension is on, the window only when the quota lets the call through.
Allow(t, l) ==
  LET u == user[t] dc == DayCount(u, t) w == Window(u, t)
      quota == l.daily > 0 /\ dc.tokens >= l.daily    \* quota_exceeded
      rate == l.rpm > 0 /\ w.count >= l.rpm           \* rate_limited
  IN /\ pc[t] = "asking" /\ l \in LimitsOf[u]
     /\ toks' = IF l.daily > 0 THEN [toks EXCEPT ![u] = dc] ELSE toks
     /\ rewound' = [rewound EXCEPT ![u] = @ \/ (l.daily > 0 /\ Rewinds(u, t))]
     /\ reqs' = IF quota \/ l.rpm = 0 THEN reqs
                ELSE [reqs EXCEPT ![u] = [w EXCEPT !.count = IF rate THEN @ ELSE @ + 1]]
     /\ admits' = IF quota \/ l.rpm = 0 \/ rate THEN admits
                  ELSE [admits EXCEPT ![u] = Append(@, clock)]
     /\ pc' = [pc EXCEPT ![t] = IF quota \/ rate THEN "idle" ELSE "serving"]
     /\ now' = [now EXCEPT ![t] = 0]
     /\ UNCHANGED <<clock, user, bill, calls, used>>

\* The request is over with n tokens of usage; AddTokens returns at once for
\* n <= 0 (a failed or unmetered answer), else it reads the clock.
CallAddTokens(t, n) ==
  /\ pc[t] = "serving"
  /\ pc' = [pc EXCEPT ![t] = IF n = 0 THEN "idle" ELSE "billing"]
  /\ now' = [now EXCEPT ![t] = IF n = 0 THEN @ ELSE clock]
  /\ bill' = [bill EXCEPT ![t] = n]
  /\ UNCHANGED <<clock, reqs, toks, user, calls, admits, used, rewound>>

\* The critical section of AddTokens.
AddTokens(t) ==
  LET u == user[t] dc == DayCount(u, t)
  IN /\ pc[t] = "billing"
     /\ toks' = [toks EXCEPT ![u] = [dc EXCEPT !.tokens = @ + bill[t]]]
     /\ rewound' = [rewound EXCEPT ![u] = @ \/ Rewinds(u, t)]
     /\ used' = [used EXCEPT ![u][dayKey(now[t])] = @ + bill[t]]
     /\ pc' = [pc EXCEPT ![t] = "idle"]
     /\ now' = [now EXCEPT ![t] = 0] /\ bill' = [bill EXCEPT ![t] = 0]
     /\ UNCHANGED <<clock, reqs, user, calls, admits>>

\* Time passes, while goroutines wait for the lock for at most MaxWait ticks.
Tick == /\ clock < MaxClock
        /\ \A t \in Thread :
             pc[t] \in {"asking", "billing"} => clock - now[t] < MaxWait
        /\ clock' = clock + 1
        /\ UNCHANGED <<reqs, toks, pc, user, now, bill, calls, admits, used, rewound>>

Next == \/ \E t \in Thread : \/ \E u \in User : CallAllow(t, u)
                             \/ \E l \in LimitsOf[user[t]] : Allow(t, l)
                             \/ \E n \in 0 .. MaxTok : CallAddTokens(t, n)
                             \/ AddTokens(t)
        \/ Tick

Spec == Init /\ [][Next]_vars

-----------------------------------------------------------------------------
(* Properties *)

\* The daily counter is exact: unless a call carried a reading from before
\* midnight past a call of the new day, the counter holds every token that
\* AddTokens recorded under its day.
CounterExact ==
  \A u \in User : ~rewound[u] /\ toks[u].day # -1 =>
     toks[u].tokens = used[u][toks[u].day]

\* What a day can cost although Allow only pre-checks the quota: each goroutine
\* that is still serving when the quota fills up adds at most one request.
Overshoot(u) == DailyCap[u] - 1 + MaxTok * Cardinality(Thread)

\* Allow's pre-check bounds the tokens of a day by the quota plus one request
\* per concurrent goroutine, as long as no stale reading rewound the counter: a
\* reading taken before midnight and used after a call of the new day erases
\* what that day had recorded.
QuotaBound ==
  \A u \in User : DailyCap[u] > 0 /\ ~rewound[u] =>
     \A d \in Days : used[u][d] <= Overshoot(u)

\* The admissions of u in the last Minute ticks up to the i-th one.
Recent(u, i) == {j \in 1 .. i : admits[u][i] - admits[u][j] < Minute}

\* How many windows can admit requests within Minute ticks: window starts lie
\* Minute apart, and a window may be opened or used MaxWait ticks late.
Windows == (2 * Minute + MaxWait - 2) \div Minute + 1

\* The fixed window of Allow: in any rolling minute a user gets at most as many
\* requests as the overlapping windows admit, two windows' worth when the wait
\* for the lock is negligible, and one more for every further minute of it.  (Not
\* the "max requests per rolling 60s window" of the comment on Limits.RPM.)
RollingBound ==
  \A u \in User : RpmCap[u] > 0 =>
     \A i \in 1 .. Len(admits[u]) : Cardinality(Recent(u, i)) <= Windows * RpmCap[u]
=============================================================================
