---------------------------- MODULE PolicyProofs ----------------------------
(***************************************************************************)
(* Proofs about the components of MCPolicy.  The race over the spare slots of *)
(* policy.builtins, for any requests, rules and spare capacity; and the three  *)
(* readers of streams, for any reply and any way to cut it: the masker of      *)
(* replies, the decoders of the provider adapters and the event reader of the  *)
(* panel.                                                                      *)
(***************************************************************************)
EXTENDS RuleSlice, StreamMasking, StreamDecoding, EventStream, Integers,
        SequenceTheorems, WellFoundedInduction, TLAPS

(* Induction and recursion *)

\* Induction over the naturals in the form the provers can instantiate: a
\* nonempty set of naturals has a least element ...
LEMMA LeastNat ==
  ASSUME NEW T \in SUBSET Nat, T # {}
  PROVE  \E m \in T : \A n \in T : m <= n
<1>1. PICK R : R = OpToRel(<, Nat)
  OBVIOUS
<1>2. IsWellFoundedOn(R, Nat)
  BY <1>1, NatLessThanWellFounded
<1>3. PICK x \in T : \A y \in T : ~ (<<y, x>> \in R)
  BY <1>2, WFMin
<1>4. \A i, j \in Nat : i < j => <<i, j>> \in R
  BY <1>1 DEF OpToRel
<1>5. ASSUME NEW n \in T PROVE x <= n
  <2>1. ~(n < x)
    BY <1>3, <1>4
  <2> QED BY <2>1
<1> QED BY <1>5

\* ... so a set that holds 0 and with n also n + 1 holds all of them.
LEMMA NatSet ==
  ASSUME NEW S \in SUBSET Nat, 0 \in S, \A n \in S : n + 1 \in S
  PROVE  \A n \in Nat : n \in S
<1> SUFFICES ASSUME NEW n \in Nat, n \notin S PROVE FALSE
  OBVIOUS
<1> DEFINE T == Nat \ S
<1>1. PICK m \in T : \A j \in T : m <= j
  BY LeastNat
<1>2. m # 0 /\ m - 1 \in Nat /\ m - 1 \notin T
  BY <1>1
<1>3. m - 1 \in S /\ (m - 1) + 1 = m
  BY <1>2
<1> QED BY <1>1, <1>3

\* A set of naturals with a bound has a greatest element.
LEMMA GreatestNat ==
  ASSUME NEW T \in SUBSET Nat, T # {}, NEW b \in Nat, \A n \in T : n <= b
  PROVE  \E m \in T : \A n \in T : n <= m
<1> DEFINE U == {u \in Nat : b - u \in T}
<1>1. U \in SUBSET Nat /\ U # {}
  <2>1. PICK n \in T : TRUE
    OBVIOUS
  <2>2. b - n \in Nat /\ b - (b - n) = n
    BY <2>1
  <2> QED BY <2>1, <2>2
<1>2. PICK u \in U : \A v \in U : u <= v
  BY <1>1, LeastNat
<1>3. PICK m \in T : u = b - m
  BY <1>2
<1>4. ASSUME NEW n \in T PROVE n <= m
  <2>1. b - n \in U
    <3>1. b - n \in Nat /\ b - (b - n) = n
      OBVIOUS
    <3> QED BY <3>1
  <2>2. b - m <= b - n
    BY <1>2, <1>3, <2>1
  <2> QED BY <2>2
<1> QED BY <1>4

\* The functions on 0 .. n that a recursion from x0 by g may be.
Rounds(X, x0, g, n) == {h \in [0 .. n -> X] : h[0] = x0 /\ \A i \in 1 .. n : h[i] = g[<<i, h[i - 1]>>]}

\* Two such functions agree where both are defined, ...
LEMMA RoundsUnique ==
  ASSUME NEW X, NEW x0, NEW g, NEW n \in Nat, NEW m \in Nat,
         NEW h \in Rounds(X, x0, g, n), NEW hh \in Rounds(X, x0, g, m)
  PROVE  \A i \in 0 .. n : i <= m => h[i] = hh[i]
<1> DEFINE S == {i \in Nat : i <= n /\ i <= m => h[i] = hh[i]}
<1>1. 0 \in S
  BY DEF Rounds
<1>2. ASSUME NEW i \in S PROVE i + 1 \in S
  <2>1. CASE i + 1 <= n /\ i + 1 <= m
    <3>1. h[i] = hh[i]
      BY <2>1
    <3>2. i + 1 \in 1 .. n /\ i + 1 \in 1 .. m /\ (i + 1) - 1 = i
      BY <2>1
    <3>3. h[i + 1] = g[<<i + 1, h[i]>>] /\ hh[i + 1] = g[<<i + 1, hh[i]>>]
      BY <3>2 DEF Rounds
    <3> QED BY <3>1, <3>3
  <2>2. CASE ~(i + 1 <= n /\ i + 1 <= m)
    BY <2>2
  <2> QED BY <2>1, <2>2
<1>3. \A i \in Nat : i \in S
  BY <1>1, <1>2, NatSet
<1> QED BY <1>3

\* ... there is one for every n, ...
LEMMA RoundsExist ==
  ASSUME NEW X, NEW x0 \in X, NEW g \in [Nat \X X -> X], NEW n \in Nat
  PROVE  Rounds(X, x0, g, n) # {}
<1> DEFINE S == {i \in Nat : Rounds(X, x0, g, i) # {}}
<1>1. 0 \in S
  <2>1. [i \in 0 .. 0 |-> x0] \in Rounds(X, x0, g, 0)
    BY DEF Rounds
  <2> QED BY <2>1
<1>2. ASSUME NEW i \in S PROVE i + 1 \in S
  <2>1. PICK h : h \in Rounds(X, x0, g, i)
    OBVIOUS
  <2>2. PICK hh : hh = [j \in 0 .. i + 1 |-> IF j <= i THEN h[j] ELSE g[<<i + 1, h[i]>>]]
    OBVIOUS
  <2>h. h \in [0 .. i -> X] /\ h[i] \in X
    BY <2>1 DEF Rounds
  <2>3. hh \in [0 .. i + 1 -> X] /\ hh[0] = x0
    BY <2>1, <2>2, <2>h DEF Rounds
  <2>4. ASSUME NEW j \in 1 .. i + 1 PROVE hh[j] = g[<<j, hh[j - 1]>>]
    <3>1. hh[j - 1] = h[j - 1]
      BY <2>2
    <3>2. CASE j <= i
      <4>1. h[j] = g[<<j, h[j - 1]>>]
        BY <2>1, <3>2 DEF Rounds
      <4>2. hh[j] = h[j]
        BY <2>2, <3>2
      <4> QED BY <3>1, <4>1, <4>2
    <3>3. CASE j = i + 1
      <4>1. hh[j] = g[<<i + 1, h[i]>>]
        BY <2>2, <3>3
      <4>2. i + 1 = j /\ i = j - 1
        BY <3>3
      <4> QED BY <3>1, <4>1, <4>2
    <3> QED BY <3>2, <3>3
  <2>5. hh \in Rounds(X, x0, g, i + 1)
    BY <2>3, <2>4 DEF Rounds
  <2> QED BY <2>5
<1>3. \A i \in Nat : i \in S
  BY <1>1, <1>2, NatSet
<1> QED BY <1>3

\* ... and a function that satisfies the recursion is one.
LEMMA RoundsOf ==
  ASSUME NEW X, NEW x0 \in X, NEW g \in [Nat \X X -> X], NEW n \in Nat,
         NEW f, f = [i \in 0 .. n |-> f[i]], f[0] = x0,
         \A i \in 1 .. n : f[i - 1] \in X => f[i] = g[<<i, f[i - 1]>>]
  PROVE  f \in Rounds(X, x0, g, n)
<1> DEFINE S == {i \in Nat : i <= n => f[i] \in X}
<1>1. 0 \in S
  OBVIOUS
<1>2. ASSUME NEW i \in S PROVE i + 1 \in S
  <2>1. CASE i + 1 <= n
    <3>1. i + 1 \in 1 .. n /\ (i + 1) - 1 = i /\ f[i] \in X
      BY <2>1
    <3>2. f[i + 1] = g[<<i + 1, f[i]>>]
      BY <3>1
    <3>3. <<i + 1, f[i]>> \in Nat \X X
      BY <3>1
    <3>4. f[i + 1] \in X
      BY <3>2, <3>3
    <3> QED BY <3>4
  <2>2. CASE ~(i + 1 <= n)
    BY <2>2
  <2> QED BY <2>1, <2>2
<1>3. \A i \in Nat : i \in S
  BY <1>1, <1>2, NatSet
<1>4. \A i \in 0 .. n : f[i] \in X
  BY <1>3
<1>5. f \in [0 .. n -> X]
  BY <1>4
<1>6. \A i \in 1 .. n : f[i] = g[<<i, f[i - 1]>>]
  <2>1. \A i \in 1 .. n : i - 1 \in 0 .. n
    OBVIOUS
  <2> QED BY <1>4, <2>1
<1> QED BY <1>5, <1>6 DEF Rounds

-----------------------------------------------------------------------------
(* The rule slice: the inductive invariant *)

\* append never reaches the slots in use.
BuiltinsKept == \A i \in 1 .. B : slots[i] = Builtins[i]

\* Requests in flight that share the array have the same rules or are mixed.
ClashSeen ==
  \A q, r \in Request :
    InFlight(q) /\ Shares(q) /\ InFlight(r) /\ Shares(r) /\ rules[q] # rules[r] => mixed[r]

\* What a request has stored is still there, or another request's rule is.
SlotsHeld(r) ==
  InFlight(r) /\ Shares(r) =>
    \A i \in 1 .. Len(rules[r]) :
      step[r] = "apply" \/ i < k[r] =>
        slots[B + i] \in Rule /\ (~mixed[r] => slots[B + i] = rules[r][i])

\* Where the loops of append and Apply are.
Position(r) ==
  /\ step[r] \in {"idle", "append"} => applied[r] = <<>>
  /\ step[r] = "append" => k[r] \in 1 .. Len(rules[r]) + 1
  /\ step[r] = "apply" => k[r] \in 1 .. B + Len(rules[r]) + 1 /\ Len(applied[r]) = k[r] - 1
  /\ step[r] = "done" => Len(applied[r]) = B + Len(rules[r])

\* The i-th detector of a request that has the array to itself.
Owed(r, i) == IF i <= B THEN Builtins[i] ELSE rules[r][i - B]
AppliedDue(r) ==
  \A i \in 1 .. Len(applied[r]) : i <= B \/ ~mixed[r] => applied[r][i] = Owed(r, i)

RequestSound(r) == SlotsHeld(r) /\ Position(r) /\ AppliedDue(r)
SliceInv == SliceTypeOK /\ BuiltinsKept /\ ClashSeen /\ \A r \in Request : RequestSound(r)

LEMMA SliceTypes == B \in Nat /\ Spare \in Nat /\ Builtins \in Seq(Rule) /\ Snapshots \subseteq Seq(Rule)
BY SliceAssumption DEF B

LEMMA BuiltinIsRule == \A i \in 1 .. B : Builtins[i] \in Rule
BY SliceTypes, ElementOfSeq DEF B

LEMMA InitSliceInv == SliceInit => SliceInv
<1> SUFFICES ASSUME SliceInit PROVE SliceInv
  OBVIOUS
<1>1. slots \in [1 .. B + Spare -> Rule \cup {NoRule}]
  BY SliceTypes, BuiltinIsRule DEF SliceInit
<1>2. applied \in [Request -> Seq(Rule)]
  BY EmptySeq DEF SliceInit
<1>3. mixed \in [Request -> BOOLEAN]
  BY Zenon DEF SliceInit
<1>4. SliceTypeOK
  BY <1>1, <1>2, <1>3 DEF SliceInit, SliceTypeOK
<1>5. BuiltinsKept
  BY SliceTypes DEF SliceInit, BuiltinsKept
<1>6. ClashSeen
  BY DEF SliceInit, ClashSeen
<1>7. ASSUME NEW r \in Request PROVE RequestSound(r)
  <2>1. step[r] = "idle" /\ applied[r] = <<>>
    BY DEF SliceInit
  <2> QED BY <2>1 DEF RequestSound, SlotsHeld, InFlight, Position, AppliedDue
<1> QED BY <1>4, <1>5, <1>6, <1>7 DEF SliceInv

-----------------------------------------------------------------------------
(* The rule slice: one step per action *)

\* A request whose own variables and slots stay as they are, and that may have
\* become mixed.
LEMMA OtherRequest ==
  ASSUME NEW r \in Request, RequestSound(r), slots' = slots,
         step'[r] = step[r], rules'[r] = rules[r], k'[r] = k[r], applied'[r] = applied[r],
         mixed[r] => mixed'[r]
  PROVE  RequestSound(r)'
<1>1. SlotsHeld(r)'
  BY DEF RequestSound, SlotsHeld, InFlight, Shares
<1>2. Position(r)'
  BY DEF RequestSound, Position
<1>3. AppliedDue(r)'
  BY DEF RequestSound, AppliedDue, Owed
<1> QED BY <1>1, <1>2, <1>3 DEF RequestSound

LEMMA NextSliceInv == SliceInv /\ [SliceNext]_sliceVars => SliceInv'
<1> SUFFICES ASSUME SliceInv, [SliceNext]_sliceVars PROVE SliceInv'
  OBVIOUS
<1>0. SliceTypeOK /\ BuiltinsKept /\ ClashSeen /\ \A r \in Request : RequestSound(r)
  BY DEF SliceInv
<1>t. /\ slots \in [1 .. B + Spare -> Rule \cup {NoRule}]
      /\ current \in Snapshots
      /\ step \in [Request -> {"idle", "append", "apply", "done"}]
      /\ rules \in [Request -> Snapshots]
      /\ k \in [Request -> Nat] /\ applied \in [Request -> Seq(Rule)]
      /\ mixed \in [Request -> BOOLEAN]
  BY <1>0 DEF SliceTypeOK
<1>s. \A r \in Request : rules[r] \in Seq(Rule) /\ Len(rules[r]) \in Nat
  BY <1>t, SliceTypes, LenProperties
<1>1. ASSUME NEW s \in Snapshots, Replace(s) PROVE SliceInv'
  <2>1. SliceTypeOK' /\ BuiltinsKept' /\ ClashSeen'
    BY <1>0, <1>1 DEF Replace, SliceTypeOK, BuiltinsKept, ClashSeen, InFlight, Shares
  <2>2. \A r \in Request : RequestSound(r)'
    BY <1>0, <1>1, OtherRequest DEF Replace
  <2> QED BY <2>1, <2>2 DEF SliceInv
<1>2. ASSUME NEW r \in Request, Begin(r) PROVE SliceInv'
  <2> DEFINE clash == {q \in Request : InFlight(q) /\ Shares(q) /\ rules[q] # current}
  <2>1. /\ step[r] = "idle" /\ rules' = [rules EXCEPT ![r] = current]
        /\ step' = [step EXCEPT ![r] = "append"] /\ k' = [k EXCEPT ![r] = 1]
        /\ mixed' = [q \in Request |-> \/ mixed[q]
                       \/ (Len(current) <= Spare /\ (q \in clash \/ (q = r /\ clash # {})))]
        /\ slots' = slots /\ current' = current /\ applied' = applied
    BY <1>2 DEF Begin
  <2>2. mixed' \in [Request -> BOOLEAN] /\ \A q \in Request : mixed[q] => mixed'[q]
    BY <1>t, <2>1, Zenon
  <2>3. SliceTypeOK'
    BY <1>0, <2>1, <2>2 DEF SliceTypeOK
  <2>4. BuiltinsKept'
    BY <1>0, <2>1 DEF BuiltinsKept
  <2>5. ClashSeen'
    <3> SUFFICES ASSUME NEW p \in Request, NEW q \in Request,
                        InFlight(p)', Shares(p)', InFlight(q)', Shares(q)', rules'[p] # rules'[q]
                 PROVE  mixed'[q]
      BY DEF ClashSeen
    <3>1. CASE p # r /\ q # r
      <4>1. InFlight(p) /\ Shares(p) /\ InFlight(q) /\ Shares(q) /\ rules[p] # rules[q]
        BY <1>t, <2>1, <3>1 DEF InFlight, Shares
      <4> QED BY <1>0, <2>2, <4>1 DEF ClashSeen
    <3>2. CASE p = r /\ q # r
      <4>1. q \in clash /\ Len(current) <= Spare
        BY <1>t, <2>1, <3>2 DEF InFlight, Shares
      <4> QED BY <2>1, <4>1
    <3>3. CASE p # r /\ q = r
      <4>1. p \in clash /\ Len(current) <= Spare
        BY <1>t, <2>1, <3>3 DEF InFlight, Shares
      <4> QED BY <2>1, <3>3, <4>1
    <3> QED BY <3>1, <3>2, <3>3
  <2>6. ASSUME NEW q \in Request PROVE RequestSound(q)'
    <3>1. CASE q # r
      BY <1>0, <1>t, <2>1, <2>2, <3>1, OtherRequest
    <3>2. CASE q = r
      <4>1. step'[r] = "append" /\ k'[r] = 1 /\ applied'[r] = <<>> /\ rules'[r] \in Seq(Rule)
        BY <1>0, <1>t, <2>1, SliceTypes DEF RequestSound, Position
      <4>2. SlotsHeld(r)'
        BY <4>1 DEF SlotsHeld
      <4>3. Position(r)' /\ AppliedDue(r)'
        BY <4>1, LenProperties DEF Position, AppliedDue
      <4> QED BY <3>2, <4>2, <4>3 DEF RequestSound
    <3> QED BY <3>1, <3>2
  <2> QED BY <2>3, <2>4, <2>5, <2>6 DEF SliceInv
<1>3. ASSUME NEW r \in Request, Store(r) PROVE SliceInv'
  <2> DEFINE n == k[r]
             x == rules[r][n]
  <2>1. /\ step[r] = "append" /\ Shares(r) /\ n <= Len(rules[r])
        /\ slots' = [slots EXCEPT ![B + n] = x] /\ k' = [k EXCEPT ![r] = n + 1]
        /\ UNCHANGED <<current, step, rules, applied, mixed>>
    BY <1>3 DEF Store, Slot
  <2>2. n \in 1 .. Len(rules[r]) /\ x \in Rule /\ B + n \in 1 .. B + Spare /\ B + n > B
    <3>1. n \in 1 .. Len(rules[r])
      BY <1>0, <1>s, <1>t, <2>1 DEF RequestSound, Position
    <3>2. x \in Rule
      BY <1>s, <3>1, ElementOfSeq
    <3> QED BY <1>s, <2>1, <3>1, <3>2, SliceTypes DEF Shares
  <2> HIDE DEF n, x
  <2>3. slots' \in [1 .. B + Spare -> Rule \cup {NoRule}] /\ k' \in [Request -> Nat]
    BY <1>t, <2>1, <2>2
  <2>4. SliceTypeOK'
    BY <1>0, <2>1, <2>3 DEF SliceTypeOK
  <2>5. BuiltinsKept'
    BY <1>0, <1>t, <2>1, <2>2, SliceTypes DEF BuiltinsKept
  <2>6. ClashSeen'
    BY <1>0, <2>1 DEF ClashSeen, InFlight, Shares
  <2>7. ASSUME NEW q \in Request PROVE RequestSound(q)'
    <3>1. Position(q)'
      <4>1. CASE q = r
        <5>1. k'[r] = n + 1
          BY <1>t, <2>1
        <5> QED BY <1>0, <1>s, <2>1, <2>2, <4>1, <5>1 DEF RequestSound, Position
      <4>2. CASE q # r
        BY <1>0, <1>t, <2>1, <4>2 DEF RequestSound, Position
      <4> QED BY <4>1, <4>2
    <3>2. AppliedDue(q)'
      BY <1>0, <2>1 DEF RequestSound, AppliedDue, Owed
    <3>3. SlotsHeld(q)'
      <4> SUFFICES ASSUME InFlight(q)', Shares(q)', NEW i \in 1 .. Len(rules'[q]),
                          step'[q] = "apply" \/ i < k'[q]
                   PROVE  slots'[B + i] \in Rule /\ (~mixed'[q] => slots'[B + i] = rules'[q][i])
        BY DEF SlotsHeld
      <4>1. InFlight(q) /\ Shares(q) /\ i \in 1 .. Len(rules[q]) /\ rules'[q] = rules[q]
            /\ mixed'[q] = mixed[q] /\ step'[q] = step[q]
        BY <2>1 DEF InFlight, Shares
      <4>2. B + i \in 1 .. B + Spare
        BY <1>s, <4>1, SliceTypes DEF Shares
      <4>3. CASE i = n
        <5>1. slots'[B + i] = x
          BY <1>t, <2>1, <4>2, <4>3
        <5>2. InFlight(r)
          BY <2>1 DEF InFlight
        <5>3. ~mixed[q] => rules[q] = rules[r]
          BY <1>0, <2>1, <4>1, <5>2 DEF ClashSeen
        <5> QED BY <2>2, <4>1, <4>3, <5>1, <5>3 DEF x
      <4>4. CASE i # n
        <5>1. slots'[B + i] = slots[B + i]
          BY <1>t, <2>1, <2>2, <4>2, <4>4, SliceTypes
        <5>2. step[q] = "apply" \/ i < k[q]
          BY <1>t, <2>1, <2>2, <4>1, <4>4 DEF n
        <5> QED BY <1>0, <4>1, <5>1, <5>2 DEF RequestSound, SlotsHeld
      <4> QED BY <4>3, <4>4
    <3> QED BY <3>1, <3>2, <3>3 DEF RequestSound
  <2> QED BY <2>4, <2>5, <2>6, <2>7 DEF SliceInv
<1>4. ASSUME NEW r \in Request, Appended(r) PROVE SliceInv'
  <2>1. /\ step[r] = "append" /\ (Shares(r) => k[r] > Len(rules[r]))
        /\ step' = [step EXCEPT ![r] = "apply"] /\ k' = [k EXCEPT ![r] = 1]
        /\ UNCHANGED <<slots, current, rules, applied, mixed>>
    BY <1>4 DEF Appended
  <2>2. SliceTypeOK'
    BY <1>0, <2>1 DEF SliceTypeOK
  <2>3. BuiltinsKept'
    BY <1>0, <2>1 DEF BuiltinsKept
  <2>4. \A q \in Request : (InFlight(q)' <=> InFlight(q)) /\ (Shares(q)' <=> Shares(q))
    BY <1>t, <2>1 DEF InFlight, Shares
  <2>5. ClashSeen'
    BY <1>0, <2>1, <2>4 DEF ClashSeen
  <2>6. ASSUME NEW q \in Request PROVE RequestSound(q)'
    <3>1. CASE q # r
      BY <1>0, <1>t, <2>1, <3>1, OtherRequest
    <3>2. CASE q = r
      <4>1. step'[r] = "apply" /\ k'[r] = 1 /\ applied'[r] = <<>> /\ rules'[r] = rules[r]
        BY <1>0, <1>t, <2>1 DEF RequestSound, Position
      <4>2. SlotsHeld(r)'
        BY <1>0, <1>s, <1>t, <2>1, <2>4 DEF RequestSound, SlotsHeld
      <4>3. Position(r)' /\ AppliedDue(r)'
        BY <1>s, <4>1, SliceTypes DEF Position, AppliedDue
      <4> QED BY <3>2, <4>2, <4>3 DEF RequestSound
    <3> QED BY <3>1, <3>2
  <2> QED BY <2>2, <2>3, <2>5, <2>6 DEF SliceInv
<1>5. ASSUME NEW r \in Request, ApplyOne(r) PROVE SliceInv'
  <2> DEFINE n == k[r]
             x == Load(r, n)
  <2>1. /\ step[r] = "apply" /\ n <= B + Len(rules[r])
        /\ applied' = [applied EXCEPT ![r] = Append(applied[r], x)]
        /\ k' = [k EXCEPT ![r] = n + 1]
        /\ UNCHANGED <<slots, current, step, rules, mixed>>
    BY <1>5 DEF ApplyOne
  <2>2. n \in 1 .. B + Len(rules[r]) /\ Len(applied[r]) = n - 1
    BY <1>0, <1>s, <1>t, <2>1, SliceTypes DEF RequestSound, Position
  <2>3. x \in Rule /\ (n <= B \/ ~mixed[r] => x = Owed(r, n))
    <3>1. CASE n <= B
      BY <1>0, <2>2, <3>1, BuiltinIsRule, SliceTypes DEF BuiltinsKept, Load, Owed
    <3>2. CASE n > B /\ Shares(r)
      <4>1. n - B \in 1 .. Len(rules[r]) /\ B + (n - B) = n
        BY <1>s, <2>2, <3>2, SliceTypes
      <4>2. slots[B + (n - B)] \in Rule /\ (~mixed[r] => slots[B + (n - B)] = rules[r][n - B])
        BY <1>0, <2>1, <3>2, <4>1 DEF RequestSound, SlotsHeld, InFlight
      <4> QED BY <2>2, <3>2, <4>1, <4>2, SliceTypes DEF Load, Owed
    <3>3. CASE n > B /\ ~Shares(r)
      <4>1. n - B \in 1 .. Len(rules[r])
        BY <1>s, <2>2, <3>3, SliceTypes
      <4>2. rules[r][n - B] \in Rule
        BY <1>s, <4>1, ElementOfSeq
      <4> QED BY <2>2, <3>3, <4>2, SliceTypes DEF Load, Owed
    <3> QED BY <2>2, <3>1, <3>2, <3>3, SliceTypes
  <2> HIDE DEF n, x
  <2>4. /\ Append(applied[r], x) \in Seq(Rule)
        /\ Len(Append(applied[r], x)) = n
        /\ \A i \in 1 .. n - 1 : Append(applied[r], x)[i] = applied[r][i]
        /\ Append(applied[r], x)[n] = x
    <3>1. applied[r] \in Seq(Rule)
      BY <1>t
    <3> QED BY <2>2, <2>3, <3>1, <1>s, SliceTypes, AppendProperties
  <2>5. SliceTypeOK'
    BY <1>0, <1>t, <2>1, <2>2, <2>4, <1>s, SliceTypes DEF SliceTypeOK
  <2>6. BuiltinsKept' /\ ClashSeen'
    BY <1>0, <2>1 DEF BuiltinsKept, ClashSeen, InFlight, Shares
  <2>7. ASSUME NEW q \in Request PROVE RequestSound(q)'
    <3>1. CASE q # r
      BY <1>0, <1>t, <2>1, <3>1, OtherRequest
    <3>2. CASE q = r
      <4>1. applied'[r] = Append(applied[r], x) /\ k'[r] = n + 1 /\ step'[r] = "apply" /\ rules'[r] = rules[r]
        BY <1>t, <2>1
      <4>2. SlotsHeld(r)'
        BY <1>0, <2>1, <4>1 DEF RequestSound, SlotsHeld, InFlight, Shares
      <4>3. Position(r)'
        BY <1>s, <2>2, <2>4, <4>1, SliceTypes DEF Position
      <4>4. AppliedDue(r)'
        <5> SUFFICES ASSUME NEW i \in 1 .. n, i <= B \/ ~mixed[r]
                     PROVE  applied'[r][i] = Owed(r, i)
          BY <2>1, <2>4, <4>1 DEF AppliedDue, Owed
        <5>1. CASE i = n
          BY <2>3, <2>4, <4>1, <5>1
        <5>2. CASE i # n
          <6>1. i \in 1 .. n - 1 /\ i \in 1 .. Len(applied[r])
            BY <1>s, <2>2, <5>2, SliceTypes
          <6>2. applied[r][i] = Owed(r, i)
            BY <1>0, <6>1 DEF RequestSound, AppliedDue
          <6> QED BY <2>4, <4>1, <6>1, <6>2
        <5> QED BY <5>1, <5>2
      <4> QED BY <3>2, <4>2, <4>3, <4>4 DEF RequestSound
    <3> QED BY <3>1, <3>2
  <2> QED BY <2>5, <2>6, <2>7 DEF SliceInv
<1>6. ASSUME NEW r \in Request, NextText(r) PROVE SliceInv'
  <2>1. /\ step[r] = "apply" /\ applied' = [applied EXCEPT ![r] = <<>>] /\ k' = [k EXCEPT ![r] = 1]
        /\ UNCHANGED <<slots, current, step, rules, mixed>>
    BY <1>6 DEF NextText
  <2>2. SliceTypeOK'
    BY <1>0, <2>1, EmptySeq DEF SliceTypeOK
  <2>3. BuiltinsKept' /\ ClashSeen'
    BY <1>0, <2>1 DEF BuiltinsKept, ClashSeen, InFlight, Shares
  <2>4. ASSUME NEW q \in Request PROVE RequestSound(q)'
    <3>1. CASE q # r
      BY <1>0, <1>t, <2>1, <3>1, OtherRequest
    <3>2. CASE q = r
      <4>1. step'[r] = "apply" /\ k'[r] = 1 /\ applied'[r] = <<>> /\ rules'[r] = rules[r]
        BY <1>t, <2>1
      <4>2. SlotsHeld(r)'
        BY <1>0, <2>1, <4>1 DEF RequestSound, SlotsHeld, InFlight, Shares
      <4>3. Position(r)' /\ AppliedDue(r)'
        BY <1>s, <4>1, SliceTypes DEF Position, AppliedDue
      <4> QED BY <3>2, <4>2, <4>3 DEF RequestSound
    <3> QED BY <3>1, <3>2
  <2> QED BY <2>2, <2>3, <2>4 DEF SliceInv
<1>7. ASSUME NEW r \in Request, Finish(r) PROVE SliceInv'
  <2>1. /\ step[r] = "apply" /\ k[r] > B + Len(rules[r]) /\ step' = [step EXCEPT ![r] = "done"]
        /\ UNCHANGED <<slots, current, rules, k, applied, mixed>>
    BY <1>7 DEF Finish
  <2>2. SliceTypeOK'
    BY <1>0, <2>1 DEF SliceTypeOK
  <2>3. BuiltinsKept'
    BY <1>0, <2>1 DEF BuiltinsKept
  <2>4. ClashSeen'
    <3>1. \A q \in Request : (InFlight(q)' => InFlight(q)) /\ (Shares(q)' <=> Shares(q))
      BY <1>t, <2>1 DEF InFlight, Shares
    <3> QED BY <1>0, <2>1, <3>1 DEF ClashSeen
  <2>5. ASSUME NEW q \in Request PROVE RequestSound(q)'
    <3>1. CASE q # r
      BY <1>0, <1>t, <2>1, <3>1, OtherRequest
    <3>2. CASE q = r
      <4>1. step'[r] = "done"
        BY <1>t, <2>1
      <4>2. SlotsHeld(r)'
        BY <4>1 DEF SlotsHeld, InFlight
      <4>3. Len(applied[r]) = B + Len(rules[r])
        BY <1>0, <1>s, <1>t, <2>1, SliceTypes DEF RequestSound, Position
      <4>4. Position(r)'
        BY <2>1, <4>1, <4>3 DEF Position
      <4>5. AppliedDue(r)'
        BY <1>0, <2>1 DEF RequestSound, AppliedDue, Owed
      <4> QED BY <3>2, <4>2, <4>4, <4>5 DEF RequestSound
    <3> QED BY <3>1, <3>2
  <2> QED BY <2>2, <2>3, <2>4, <2>5 DEF SliceInv
<1>8. CASE UNCHANGED sliceVars
  <2>1. SliceTypeOK' /\ BuiltinsKept' /\ ClashSeen'
    BY <1>0, <1>8 DEF sliceVars, SliceTypeOK, BuiltinsKept, ClashSeen, InFlight, Shares
  <2>2. \A r \in Request : RequestSound(r)'
    BY <1>0, <1>8, OtherRequest DEF sliceVars
  <2> QED BY <2>1, <2>2 DEF SliceInv
<1> QED BY <1>1, <1>2, <1>3, <1>4, <1>5, <1>6, <1>7, <1>8 DEF SliceNext, Serve

-----------------------------------------------------------------------------
\* Every request applies all built-in detectors in order, and exactly those and
\* its own snapshot's rules unless it shared the array with a request that had
\* other rules, for any number of requests, rules and spare slots (append and
\* the range loop of policy.Apply).
THEOREM RulesAppliedHolds == SliceSpec => []RulesApplied
<1>1. SliceInv => RulesApplied
  <2> SUFFICES ASSUME SliceInv, NEW r \in Request, step[r] = "done"
               PROVE  /\ Len(applied[r]) >= B /\ SubSeq(applied[r], 1, B) = Builtins
                      /\ ~mixed[r] => applied[r] = Builtins \o rules[r]
    BY DEF RulesApplied, BuiltinsApplied, ExactUnlessMixed
  <2>1. /\ applied[r] \in Seq(Rule) /\ rules[r] \in Seq(Rule) /\ Len(rules[r]) \in Nat
        /\ Len(applied[r]) = B + Len(rules[r]) /\ AppliedDue(r)
    BY SliceTypes, LenProperties DEF SliceInv, SliceTypeOK, RequestSound, Position
  <2>2. SubSeq(applied[r], 1, B) = Builtins
    <3>1. \A i \in 1 .. B : applied[r][i] \in Rule /\ applied[r][i] = Builtins[i]
      BY <2>1, SliceTypes, BuiltinIsRule DEF AppliedDue, Owed
    <3>2. /\ SubSeq(applied[r], 1, B) \in Seq(Rule) /\ Len(SubSeq(applied[r], 1, B)) = B
          /\ \A i \in 1 .. B : SubSeq(applied[r], 1, B)[i] = applied[r][i]
      BY <3>1, SliceTypes, SubSeqProperties
    <3> QED BY <3>1, <3>2, SliceTypes, SeqEqual DEF B
  <2>3. ASSUME ~mixed[r] PROVE applied[r] = Builtins \o rules[r]
    <3>1. /\ Builtins \o rules[r] \in Seq(Rule) /\ Len(Builtins \o rules[r]) = B + Len(rules[r])
          /\ \A i \in 1 .. B + Len(rules[r]) : (Builtins \o rules[r])[i] = Owed(r, i)
      BY <2>1, SliceTypes, ConcatProperties DEF Owed, B
    <3>2. \A i \in 1 .. Len(applied[r]) : applied[r][i] = (Builtins \o rules[r])[i]
      BY <2>1, <2>3, <3>1 DEF AppliedDue
    <3> QED BY <2>1, <3>1, <3>2, SeqEqual
  <2> QED BY <2>1, <2>2, <2>3, SliceTypes
<1> QED BY <1>1, InitSliceInv, NextSliceInv, PTL DEF SliceSpec

-----------------------------------------------------------------------------
(* The masker: matches and released text *)

LEMMA MatchLenHits ==
  \A r, text, i : MatchLen(r, text, i) = IF Hits(r, text, i) = {} THEN 0 ELSE Max(Hits(r, text, i))
BY DEF MatchLen

\* Max of a bounded set of naturals is its greatest element.
LEMMA MaxIs == ASSUME NEW T \in SUBSET Nat, T # {}, NEW b \in Nat, \A n \in T : n <= b
               PROVE  Max(T) \in T /\ \A n \in T : n <= Max(T)
<1>1. PICK m \in T : \A n \in T : n <= m
  BY GreatestNat
<1>2. \A n \in T : m >= n
  BY <1>1
<1>3. Max(T) \in T /\ \A n \in T : Max(T) >= n
  BY <1>2, Zenon DEF Max
<1> QED BY <1>3

\* The characters of masked texts.
Glyph == Char \cup {MaskToken}
\* Text that Push may release: it ends with a separator.
Released(s) == s = <<>> \/ s[Len(s)] = Space

LEMMA HitsBound ==
  ASSUME NEW r, NEW s \in Seq(Glyph), NEW i \in 1 .. Len(s)
  PROVE  Hits(r, s, i) \in SUBSET Nat /\ \A n \in Hits(r, s, i) : n >= 1 /\ i + n <= Len(s) + 1
<1>1. Len(s) \in Nat
  BY LenProperties
<1> QED BY <1>1 DEF Hits

LEMMA MatchLenIs ==
  ASSUME NEW r, NEW s \in Seq(Glyph), NEW i \in 1 .. Len(s)
  PROVE  /\ MatchLen(r, s, i) \in Nat /\ i + MatchLen(r, s, i) <= Len(s) + 1
         /\ MatchLen(r, s, i) > 0 => MatchLen(r, s, i) \in Hits(r, s, i)
<1>1. PICK N \in Nat : N = Len(s)
  BY LenProperties
<1>2. CASE Hits(r, s, i) = {}
  <2>1. MatchLen(r, s, i) = 0
    BY <1>2, MatchLenHits
  <2> QED BY <1>1, <2>1
<1>3. CASE Hits(r, s, i) # {}
  <2>1. PICK T \in SUBSET Nat : T = Hits(r, s, i)
    BY HitsBound
  <2>2. \A n \in T : n <= N + 1 /\ i + n <= N + 1
    BY <1>1, <2>1, HitsBound
  <2>3. Max(T) \in T
    <3>1. N + 1 \in Nat /\ T # {} /\ \A n \in T : n <= N + 1
      BY <1>3, <2>1, <2>2
    <3> QED BY <3>1, MaxIs
  <2>4. MatchLen(r, s, i) = Max(T)
    BY <1>3, <2>1, MatchLenHits
  <2> QED BY <1>1, <2>1, <2>2, <2>3, <2>4
<1> QED BY <1>2, <1>3

\* If no match straddles, a match holds no separator.
LEMMA HitHasNoSpace ==
  ASSUME NEW r, NEW s \in Seq(Glyph), ~Straddles(r, s), NEW i \in 1 .. Len(s), NEW n \in Hits(r, s, i)
  PROVE  \A j \in i .. i + n - 1 : s[j] # Space
BY Zenon DEF Straddles

LEMMA ConcatIs ==
  ASSUME NEW s \in Seq(Glyph), NEW t \in Seq(Glyph), NEW u, u = s \o t
  PROVE  /\ u \in Seq(Glyph) /\ Len(u) = Len(s) + Len(t) /\ Len(s) \in Nat /\ Len(t) \in Nat
         /\ \A i \in 1 .. Len(s) : u[i] = s[i]
         /\ \A i \in 1 .. Len(t) : u[Len(s) + i] = t[i]
<1>1. Len(s) \in Nat /\ Len(t) \in Nat
  BY LenProperties
<1>2. /\ u \in Seq(Glyph) /\ Len(u) = Len(s) + Len(t)
      /\ \A i \in 1 .. Len(s) + Len(t) : u[i] = IF i <= Len(s) THEN s[i] ELSE t[i - Len(s)]
  BY ConcatProperties
<1>3. \A i \in 1 .. Len(s) : u[i] = s[i]
  BY <1>1, <1>2
<1>4. ASSUME NEW i \in 1 .. Len(t) PROVE u[Len(s) + i] = t[i]
  <2>1. Len(s) + i \in 1 .. Len(s) + Len(t) /\ ~(Len(s) + i <= Len(s)) /\ (Len(s) + i) - Len(s) = i
    BY <1>1
  <2> QED BY <1>2, <2>1
<1> QED BY <1>1, <1>2, <1>3, <1>4

\* A boundary inside released text is one whatever follows, and behind it
\* whatever precedes: the separator is no word character.
LEMMA BoundaryLeft ==
  ASSUME NEW s \in Seq(Glyph), NEW t \in Seq(Glyph), NEW u, u = s \o t, NEW i \in 1 .. Len(s)
  PROVE  Boundary(u, i) <=> Boundary(s, i)
<1>1. /\ Len(u) = Len(s) + Len(t) /\ Len(s) \in Nat /\ Len(t) \in Nat
      /\ \A j \in 1 .. Len(s) : u[j] = s[j]
  BY ConcatIs
<1>2. i <= Len(u) /\ i <= Len(s) /\ u[i] = s[i]
  BY <1>1
<1>3. i > 1 => u[i - 1] = s[i - 1]
  BY <1>1
<1> QED BY <1>2, <1>3 DEF Boundary

LEMMA BoundaryRight ==
  ASSUME NEW s \in Seq(Glyph), NEW t \in Seq(Glyph), NEW u, u = s \o t, Released(s),
         NEW i \in 1 .. Len(t) + 1
  PROVE  Boundary(u, Len(s) + i) <=> Boundary(t, i)
<1>1. /\ Len(u) = Len(s) + Len(t) /\ Len(s) \in Nat /\ Len(t) \in Nat
      /\ \A j \in 1 .. Len(s) : u[j] = s[j]
      /\ \A j \in 1 .. Len(t) : u[Len(s) + j] = t[j]
  BY ConcatIs
<1>2. /\ Len(s) + i <= Len(u) <=> i <= Len(t)
      /\ i <= Len(t) => u[Len(s) + i] = t[i]
  BY <1>1
<1>3. (Len(s) + i > 1 /\ u[Len(s) + i - 1] \in WordChar) <=> (i > 1 /\ t[i - 1] \in WordChar)
  <2>1. CASE i > 1
    <3>1. i - 1 \in 1 .. Len(t) /\ Len(s) + (i - 1) = Len(s) + i - 1 /\ Len(s) + i > 1
      BY <1>1, <2>1
    <3> QED BY <1>1, <2>1, <3>1
  <2>2. CASE i = 1 /\ s = <<>>
    <3>1. Len(s) = 0
      BY <2>2, EmptySeq
    <3> QED BY <2>2, <3>1
  <2>3. CASE i = 1 /\ s # <<>>
    <3>1. Len(s) \in 1 .. Len(s) /\ Len(s) + i - 1 = Len(s)
      BY <1>1, <2>3, EmptySeq
    <3>2. u[Len(s)] = Space
      BY <1>1, <2>3, <3>1 DEF Released
    <3>3. Space \notin WordChar
      BY DEF Space, WordChar
    <3> QED BY <2>3, <3>1, <3>2, <3>3
  <2> QED BY <1>1, <2>1, <2>2, <2>3
<1>4. (Len(s) + i <= Len(u) /\ u[Len(s) + i] \in WordChar) <=> (i <= Len(t) /\ t[i] \in WordChar)
  BY <1>2
<1>5. PICK a, b \in BOOLEAN : /\ a = (i > 1 /\ t[i - 1] \in WordChar)
                              /\ b = (i <= Len(t) /\ t[i] \in WordChar)
  OBVIOUS
<1>6. /\ a = (Len(s) + i > 1 /\ u[Len(s) + i - 1] \in WordChar)
      /\ b = (Len(s) + i <= Len(u) /\ u[Len(s) + i] \in WordChar)
  BY <1>3, <1>4, <1>5
<1>7. Boundary(t, i) <=> a # b
  BY <1>5 DEF Boundary
<1>8. Boundary(u, Len(s) + i) <=> a # b
  BY <1>6 DEF Boundary
<1> QED BY <1>7, <1>8

\* A match in released text is also one of the whole, ...
LEMMA HitLeft ==
  ASSUME NEW r, NEW s \in Seq(Glyph), NEW t \in Seq(Glyph), NEW u, u = s \o t,
         Released(s), NEW i \in 1 .. Len(s), NEW n \in Hits(r, s, i)
  PROVE  n \in Hits(r, u, i)
<1>1. /\ u \in Seq(Glyph) /\ Len(u) = Len(s) + Len(t) /\ Len(s) \in Nat /\ Len(t) \in Nat
  BY ConcatIs
<1>2. n \in Nat /\ n >= 1 /\ i + n <= Len(s) + 1
  BY HitsBound
<1>3. SubSeq(u, i, i + n - 1) = SubSeq(s, i, i + n - 1)
  <2>1. i \in 1 .. Len(s) /\ i + n - 1 \in 1 .. Len(s)
    BY <1>1, <1>2
  <2> QED BY <2>1, SubSeqOfConcat1
<1>4. n \in 1 .. Len(u) - i + 1
  BY <1>1, <1>2
<1>5. Boundary(u, i) <=> Boundary(s, i)
  BY BoundaryLeft
<1>6. Boundary(s, i + n) => Boundary(u, i + n)
  <2>1. CASE i + n <= Len(s)
    <3>1. PICK z \in 1 .. Len(s) : z = i + n
      BY <1>1, <1>2, <2>1
    <3>2. Boundary(u, z) <=> Boundary(s, z)
      BY BoundaryLeft
    <3> QED BY <3>1, <3>2
  <2>2. CASE i + n = Len(s) + 1
    <3>1. s # <<>>
      BY <1>1, EmptySeq
    <3>2. s[Len(s)] = Space /\ Space \notin WordChar
      BY <3>1 DEF Released, Space, WordChar
    <3>3. ~(i + n <= Len(s)) /\ (i + n) - 1 = Len(s)
      BY <1>1, <2>2
    <3>4. ~Boundary(s, i + n)
      BY <3>2, <3>3 DEF Boundary
    <3> QED BY <3>4
  <2>3. i + n <= Len(s) \/ i + n = Len(s) + 1
    <3>1. PICK L \in Nat, p \in Nat : L = Len(s) /\ p = i
      BY <1>1
    <3>2. p + n <= L + 1 => p + n <= L \/ p + n = L + 1
      BY <1>2
    <3> QED BY <1>2, <3>1, <3>2
  <2> QED BY <2>1, <2>2, <2>3
<1> QED BY <1>3, <1>4, <1>5, <1>6 DEF Hits

\* A match in released text does not depend on what follows, ...
LEMMA MatchLeft ==
  ASSUME NEW r, NEW s \in Seq(Glyph), NEW t \in Seq(Glyph), NEW u, u = s \o t,
         Released(s), ~Straddles(r, u), NEW i \in 1 .. Len(s)
  PROVE  MatchLen(r, u, i) = MatchLen(r, s, i)
<1>1. /\ u \in Seq(Glyph) /\ Len(u) = Len(s) + Len(t) /\ Len(s) \in Nat /\ Len(t) \in Nat
      /\ \A j \in 1 .. Len(s) : u[j] = s[j]
  BY ConcatIs
<1>i. i \in 1 .. Len(u) /\ i \in Nat /\ i >= 1 /\ i <= Len(s)
  BY <1>1
<1>2. s[Len(s)] = Space /\ u[Len(s)] = Space
  <2>1. s # <<>> /\ Len(s) \in 1 .. Len(s)
    BY <1>1, EmptySeq
  <2> QED BY <1>1, <2>1 DEF Released
<1>3. ASSUME NEW n \in Nat, n >= 1, i + n <= Len(s)
      PROVE  n \in Hits(r, u, i) <=> n \in Hits(r, s, i)
  <2>1. SubSeq(u, i, i + n - 1) = SubSeq(s, i, i + n - 1)
    <3>1. i \in 1 .. Len(s) /\ i + n - 1 \in 1 .. Len(s)
      BY <1>1, <1>3
    <3> QED BY <3>1, SubSeqOfConcat1
  <2>2. (Boundary(u, i) <=> Boundary(s, i)) /\ (Boundary(u, i + n) <=> Boundary(s, i + n))
    <3>1. i + n \in 1 .. Len(s)
      BY <1>1, <1>3
    <3> QED BY <3>1, BoundaryLeft
  <2>3. n \in 1 .. Len(u) - i + 1 /\ n \in 1 .. Len(s) - i + 1
    BY <1>1, <1>3
  <2> QED BY <2>1, <2>2, <2>3 DEF Hits
<1>4. ASSUME NEW n \in Hits(r, u, i) PROVE n \in Nat /\ n >= 1 /\ i + n <= Len(s)
  <2>1. n \in Nat /\ n >= 1
    BY <1>1, <1>i, HitsBound
  <2>2. Len(s) \notin i .. i + n - 1
    BY <1>1, <1>2, <1>i, HitHasNoSpace
  <2> QED BY <1>1, <1>i, <2>1, <2>2
<1>5. ASSUME NEW n \in Hits(r, s, i) PROVE n \in Nat /\ n >= 1 /\ i + n <= Len(s)
  <2>1. n \in Hits(r, u, i)
    BY HitLeft
  <2> QED BY <1>4, <2>1
<1>6. Hits(r, u, i) = Hits(r, s, i)
  BY <1>3, <1>4, <1>5
<1> QED BY <1>6, MatchLenHits

\* ... and one behind released text does not depend on it.
LEMMA HitsRight ==
  ASSUME NEW r, NEW s \in Seq(Glyph), NEW t \in Seq(Glyph), NEW u, u = s \o t,
         Released(s), NEW i \in 1 .. Len(t)
  PROVE  Hits(r, u, Len(s) + i) = Hits(r, t, i)
<1>1. /\ u \in Seq(Glyph) /\ Len(u) = Len(s) + Len(t) /\ Len(s) \in Nat /\ Len(t) \in Nat
  BY ConcatIs
<1>2. Len(u) - (Len(s) + i) + 1 = Len(t) - i + 1
  BY <1>1
<1>3. ASSUME NEW n \in 1 .. Len(t) - i + 1
      PROVE  n \in Hits(r, u, Len(s) + i) <=> n \in Hits(r, t, i)
  <2>1. SubSeq(u, Len(s) + i, (Len(s) + i) + n - 1) = SubSeq(t, i, i + n - 1)
    <3>1. /\ Len(s) + i \in Len(s) + 1 .. Len(s) + Len(t) /\ (Len(s) + i) - Len(s) = i
          /\ (Len(s) + i) + n - 1 \in Len(s) + 1 .. Len(s) + Len(t)
          /\ ((Len(s) + i) + n - 1) - Len(s) = i + n - 1
      BY <1>1
    <3> QED BY <3>1, SubSeqOfConcat2
  <2>2. /\ Boundary(u, Len(s) + i) <=> Boundary(t, i)
        /\ Boundary(u, (Len(s) + i) + n) <=> Boundary(t, i + n)
    <3>1. i \in 1 .. Len(t) + 1 /\ i + n \in 1 .. Len(t) + 1 /\ (Len(s) + i) + n = Len(s) + (i + n)
      BY <1>1
    <3> QED BY <3>1, BoundaryRight
  <2> QED BY <1>2, <2>1, <2>2 DEF Hits
<1>4. Hits(r, u, Len(s) + i) = Hits(r, t, i)
  <2>1. Hits(r, u, Len(s) + i) \subseteq 1 .. Len(t) - i + 1 /\ Hits(r, t, i) \subseteq 1 .. Len(t) - i + 1
    BY <1>2 DEF Hits
  <2> QED BY <1>3, <2>1
<1> QED BY <1>4

LEMMA MatchRight ==
  ASSUME NEW r, NEW s \in Seq(Glyph), NEW t \in Seq(Glyph), NEW u, u = s \o t,
         Released(s), NEW i \in 1 .. Len(t)
  PROVE  MatchLen(r, u, Len(s) + i) = MatchLen(r, t, i)
<1>1. Hits(r, u, Len(s) + i) = Hits(r, t, i)
  BY HitsRight
<1> QED BY <1>1, MatchLenHits

\* What straddles in the released text straddles in the whole.
LEMMA StraddlesParts ==
  ASSUME NEW r, NEW s \in Seq(Glyph), NEW t \in Seq(Glyph), NEW u, u = s \o t,
         Released(s), ~Straddles(r, u)
  PROVE  ~Straddles(r, s)
<1> SUFFICES ASSUME NEW i \in 1 .. Len(s), NEW n \in Hits(r, s, i), NEW j \in i .. i + n - 1, s[j] = Space
             PROVE  FALSE
  BY DEF Straddles
<1>1. /\ u \in Seq(Glyph) /\ Len(u) = Len(s) + Len(t) /\ Len(s) \in Nat /\ Len(t) \in Nat
      /\ \A z \in 1 .. Len(s) : u[z] = s[z]
  BY ConcatIs
<1>2. n \in Nat /\ n >= 1 /\ i + n <= Len(s) + 1
  BY HitsBound
<1>3. i \in 1 .. Len(u) /\ j \in 1 .. Len(s)
  BY <1>1, <1>2
<1>4. n \in Hits(r, u, i)
  BY HitLeft
<1>5. u[j] = Space
  BY <1>1, <1>3
<1> QED BY <1>1, <1>3, <1>4, <1>5, HitHasNoSpace

-----------------------------------------------------------------------------
(* The masker: replacing *)

\* The functions that ReplaceAllString's recursion may be.
Scans(r, s) == {f \in [1 .. Len(s) + 1 -> Seq(Glyph)] :
                  /\ f[Len(s) + 1] = <<>>
                  /\ \A i \in 1 .. Len(s) :
                       f[i] = IF MatchLen(r, s, i) = 0 THEN <<s[i]>> \o f[i + 1]
                              ELSE <<MaskToken>> \o f[i + MatchLen(r, s, i)]}

\* The recursion down to position Len(s) + 1 - d.
Down(r, s, d) == {f \in [Len(s) + 1 - d .. Len(s) + 1 -> Seq(Glyph)] :
                  /\ f[Len(s) + 1] = <<>>
                  /\ \A i \in Len(s) + 1 - d .. Len(s) :
                       f[i] = IF MatchLen(r, s, i) = 0 THEN <<s[i]>> \o f[i + 1]
                              ELSE <<MaskToken>> \o f[i + MatchLen(r, s, i)]}

LEMMA ConsType == ASSUME NEW x \in Glyph, NEW s \in Seq(Glyph) PROVE <<x>> \o s \in Seq(Glyph)
<1>1. <<x>> \in Seq(Glyph)
  OBVIOUS
<1> QED BY <1>1, ConcatProperties

LEMMA DownExists ==
  ASSUME NEW r, NEW s \in Seq(Glyph), NEW d \in Nat, d <= Len(s) PROVE Down(r, s, d) # {}
<1>l. Len(s) \in Nat
  BY LenProperties
<1> DEFINE S == {e \in Nat : e <= Len(s) => Down(r, s, e) # {}}
<1>1. 0 \in S
  <2>1. [i \in Len(s) + 1 - 0 .. Len(s) + 1 |-> <<>>] \in Down(r, s, 0)
    BY <1>l, EmptySeq DEF Down
  <2> QED BY <2>1
<1>2. ASSUME NEW e \in S PROVE e + 1 \in S
  <2>1. CASE e + 1 <= Len(s)
    <3>1. PICK f : f \in Down(r, s, e)
      BY <1>l, <2>1
    <3>2. PICK N \in Nat, x \in 1 .. Len(s) :
            N = Len(s) /\ x = N - e /\ x = N + 1 - (e + 1) /\ x + 1 = N + 1 - e
      BY <1>l, <2>1
    <3>3. f \in [x + 1 .. N + 1 -> Seq(Glyph)] /\ f[N + 1] = <<>>
      BY <3>1, <3>2 DEF Down
    <3>4. PICK m \in Nat : m = MatchLen(r, s, x) /\ x + m <= N + 1
      BY <3>2, MatchLenIs
    <3>5. PICK v : v = IF m = 0 THEN <<s[x]>> \o f[x + 1] ELSE <<MaskToken>> \o f[x + m]
      OBVIOUS
    <3>6. v \in Seq(Glyph)
      <4>1. s[x] \in Glyph /\ MaskToken \in Glyph
        BY ElementOfSeq DEF Glyph
      <4>2. f[x + 1] \in Seq(Glyph) /\ (m # 0 => f[x + m] \in Seq(Glyph))
        <5>1. x + 1 \in x + 1 .. N + 1 /\ (m # 0 => x + m \in x + 1 .. N + 1)
          BY <3>2, <3>4
        <5> QED BY <3>3, <5>1
      <4> QED BY <3>5, <4>1, <4>2, ConsType
    <3>7. PICK g : g = [i \in x .. N + 1 |-> IF i = x THEN v ELSE f[i]]
      OBVIOUS
    <3>8. g \in [x .. N + 1 -> Seq(Glyph)] /\ g[N + 1] = <<>>
      BY <3>2, <3>3, <3>6, <3>7
    <3>9. ASSUME NEW i \in x .. N
          PROVE  g[i] = IF MatchLen(r, s, i) = 0 THEN <<s[i]>> \o g[i + 1]
                        ELSE <<MaskToken>> \o g[i + MatchLen(r, s, i)]
      <4>1. i \in 1 .. Len(s)
        BY <3>2
      <4>2. PICK l \in Nat : l = MatchLen(r, s, i) /\ i + l <= N + 1
        BY <3>2, <4>1, MatchLenIs
      <4>3. g[i + 1] = f[i + 1] /\ (l # 0 => g[i + l] = f[i + l])
        BY <3>2, <3>7, <4>2
      <4>4. CASE i = x
        BY <3>4, <3>5, <3>7, <4>2, <4>3, <4>4
      <4>5. CASE i # x
        <5>1. g[i] = f[i]
          BY <3>7, <4>5
        <5>2. f[i] = IF l = 0 THEN <<s[i]>> \o f[i + 1] ELSE <<MaskToken>> \o f[i + l]
          <6>1. i \in Len(s) + 1 - e .. Len(s)
            BY <3>2, <4>5
          <6> QED BY <3>1, <4>2, <6>1 DEF Down
        <5> QED BY <4>2, <4>3, <5>1, <5>2
      <4> QED BY <4>4, <4>5
    <3>10. g \in Down(r, s, e + 1)
      BY <3>2, <3>8, <3>9 DEF Down
    <3> QED BY <3>10
  <2>2. CASE ~(e + 1 <= Len(s))
    BY <2>2
  <2> QED BY <2>1, <2>2
<1>3. \A e \in Nat : e \in S
  BY <1>1, <1>2, NatSet
<1> QED BY <1>3

LEMMA ScansExist == ASSUME NEW r, NEW s \in Seq(Glyph) PROVE Scans(r, s) # {}
<1>1. PICK N \in Nat : N = Len(s) /\ Len(s) + 1 - Len(s) = 1
  BY LenProperties
<1>2. Down(r, s, Len(s)) # {}
  BY <1>1, DownExists
<1>3. Down(r, s, Len(s)) = Scans(r, s)
  BY <1>1 DEF Down, Scans
<1> QED BY <1>2, <1>3

\* ReplaceAllString is the value at 1 of such a function: the recursion in it
\* is well founded.
LEMMA ReplaceScans ==
  ASSUME NEW r, NEW s \in Seq(Glyph)
  PROVE  \E f \in Scans(r, s) : ReplaceAllString(r, s) = f[1]
<1> DEFINE V(f) == f = [i \in 1 .. Len(s) + 1 |->
                          IF i > Len(s) THEN <<>>
                          ELSE IF MatchLen(r, s, i) = 0 THEN <<s[i]>> \o f[i + 1]
                          ELSE <<MaskToken>> \o f[i + MatchLen(r, s, i)]]
<1>l. Len(s) \in Nat
  BY LenProperties
<1>1. PICK h : h \in Scans(r, s)
  BY ScansExist
<1>2. V(h)
  <2>1. h \in [1 .. Len(s) + 1 -> Seq(Glyph)] /\ h[Len(s) + 1] = <<>>
    BY <1>1 DEF Scans
  <2>2. \A i \in 1 .. Len(s) + 1 : i > Len(s) => i = Len(s) + 1
    BY <1>l
  <2>3. \A i \in 1 .. Len(s) + 1 : ~(i > Len(s)) =>
          h[i] = IF MatchLen(r, s, i) = 0 THEN <<s[i]>> \o h[i + 1]
                 ELSE <<MaskToken>> \o h[i + MatchLen(r, s, i)]
    <3>1. \A i \in 1 .. Len(s) + 1 : ~(i > Len(s)) => i \in 1 .. Len(s)
      BY <1>l
    <3> QED BY <1>1, <3>1 DEF Scans
  <2> QED BY <2>1, <2>2, <2>3
<1>3. PICK f : f = CHOOSE g : V(g)
  OBVIOUS
<1>4. ReplaceAllString(r, s) = f[1]
  BY <1>3 DEF ReplaceAllString
<1>5. V(f)
  BY <1>2, <1>3, Zenon
<1>6. f = [i \in 1 .. Len(s) + 1 |-> f[i]] /\ f[Len(s) + 1] = <<>>
  BY <1>l, <1>5
<1>7. \A i \in 1 .. Len(s) :
        f[i] = IF MatchLen(r, s, i) = 0 THEN <<s[i]>> \o f[i + 1] ELSE <<MaskToken>> \o f[i + MatchLen(r, s, i)]
  <2>1. \A i \in 1 .. Len(s) : i \in 1 .. Len(s) + 1 /\ ~(i > Len(s))
    BY <1>l
  <2> QED BY <1>5, <2>1
<1> HIDE DEF V
<1>8. \A i \in 1 .. Len(s) + 1 : f[i] \in Seq(Glyph)
  <2> DEFINE T == {i \in 1 .. Len(s) + 1 : f[i] \notin Seq(Glyph)}
  <2> SUFFICES ASSUME T # {} PROVE FALSE
    OBVIOUS
  <2>1. PICK x \in T : \A i \in T : i <= x
    <3>1. T \in SUBSET Nat /\ Len(s) + 1 \in Nat /\ \A i \in T : i <= Len(s) + 1
      BY <1>l
    <3> QED BY <3>1, GreatestNat
  <2>2. x \in 1 .. Len(s)
    <3>1. f[Len(s) + 1] \in Seq(Glyph)
      BY <1>6, EmptySeq
    <3>2. x \in 1 .. Len(s) + 1 /\ x # Len(s) + 1
      BY <3>1
    <3> QED BY <1>l, <3>2
  <2>3. PICK m \in Nat : m = MatchLen(r, s, x) /\ x + m <= Len(s) + 1
    BY <2>2, MatchLenIs
  <2>4. f[x + 1] \in Seq(Glyph) /\ (m # 0 => f[x + m] \in Seq(Glyph))
    <3>1. x + 1 \in 1 .. Len(s) + 1 /\ x + m \in 1 .. Len(s) + 1 /\ ~(x + 1 <= x) /\ (m # 0 => ~(x + m <= x))
      BY <1>l, <2>2, <2>3
    <3> QED BY <2>1, <3>1
  <2>5. s[x] \in Glyph /\ MaskToken \in Glyph
    BY <2>2, ElementOfSeq DEF Glyph
  <2>6. f[x] \in Seq(Glyph)
    BY <1>7, <2>2, <2>3, <2>4, <2>5, ConsType
  <2> QED BY <2>6
<1>9. f \in [1 .. Len(s) + 1 -> Seq(Glyph)]
  BY <1>6, <1>8
<1>10. f \in Scans(r, s)
  BY <1>6, <1>7, <1>9 DEF Scans
<1> QED BY <1>4, <1>10

LEMMA ConsIs ==
  ASSUME NEW x \in Glyph, NEW s \in Seq(Glyph)
  PROVE  /\ <<x>> \o s \in Seq(Glyph) /\ Len(<<x>> \o s) = Len(s) + 1
         /\ (<<x>> \o s)[1] = x /\ \A i \in 1 .. Len(s) : (<<x>> \o s)[i + 1] = s[i]
<1>1. PICK o : o = <<x>> /\ o \in Seq(Glyph) /\ Len(o) = 1 /\ o[1] = x
  <2>1. <<x>> \in Seq(Glyph) /\ Len(<<x>>) = 1 /\ <<x>>[1] = x
    OBVIOUS
  <2> QED BY <2>1, Zenon
<1>2. PICK t : t = o \o s
  OBVIOUS
<1>3. /\ t \in Seq(Glyph) /\ Len(t) = Len(o) + Len(s) /\ Len(s) \in Nat
      /\ \A i \in 1 .. Len(o) : t[i] = o[i]
      /\ \A i \in 1 .. Len(s) : t[Len(o) + i] = s[i]
  <2>1. o \in Seq(Glyph)
    BY <1>1
  <2> QED BY <1>2, <2>1, ConcatIs
<1>4. Len(t) = Len(s) + 1 /\ t[1] = x /\ \A i \in 1 .. Len(s) : t[i + 1] = s[i]
  BY <1>1, <1>3
<1> QED BY <1>1, <1>2, <1>3, <1>4, Zenon

\* Without a match nothing is replaced.
LEMMA ReplaceNothing ==
  ASSUME NEW r, NEW s \in Seq(Glyph), ~MatchString(r, s)
  PROVE  ReplaceAllString(r, s) = s
<1>l. Len(s) \in Nat
  BY LenProperties
<1>1. PICK f \in Scans(r, s) : ReplaceAllString(r, s) = f[1]
  BY ReplaceScans
<1>2. \A i \in 1 .. Len(s) : MatchLen(r, s, i) = 0
  BY MatchLenIs DEF MatchString
<1>3. /\ f \in [1 .. Len(s) + 1 -> Seq(Glyph)] /\ f[Len(s) + 1] = <<>>
      /\ \A i \in 1 .. Len(s) : f[i] = <<s[i]>> \o f[i + 1]
  BY <1>2 DEF Scans
<1> DEFINE Good(i) == Len(f[i]) = Len(s) + 1 - i /\ \A j \in 1 .. Len(s) + 1 - i : f[i][j] = s[i + j - 1]
           T == {i \in 1 .. Len(s) + 1 : ~Good(i)}
<1>4. ASSUME T # {} PROVE FALSE
  <2>1. PICK x \in T : \A i \in T : i <= x
    <3>1. T \in SUBSET Nat /\ Len(s) + 1 \in Nat /\ \A i \in T : i <= Len(s) + 1
      BY <1>l
    <3> QED BY <1>4, <3>1, GreatestNat
  <2>2. CASE x = Len(s) + 1
    <3>1. Len(f[x]) = 0 /\ Len(s) + 1 - x = 0
      BY <1>l, <1>3, <2>2, EmptySeq
    <3> QED BY <3>1, <2>1
  <2>3. CASE x \in 1 .. Len(s)
    <3>1. Good(x + 1)
      <4>1. x + 1 \in 1 .. Len(s) + 1 /\ ~(x + 1 <= x)
        BY <1>l, <2>3
      <4> QED BY <2>1, <4>1
    <3>2. PICK g \in Seq(Glyph), c \in Glyph : g = f[x + 1] /\ c = s[x] /\ f[x] = <<c>> \o g
      <4>1. x + 1 \in 1 .. Len(s) + 1
        BY <1>l, <2>3
      <4>2. f[x + 1] \in Seq(Glyph) /\ s[x] \in Glyph /\ f[x] = <<s[x]>> \o f[x + 1]
        BY <1>3, <2>3, <4>1, ElementOfSeq
      <4> QED BY <4>2
    <3>3. Len(g) = Len(s) - x /\ \A j \in 1 .. Len(s) - x : g[j] = s[x + j]
      <4>1. Len(s) + 1 - (x + 1) = Len(s) - x
        BY <1>l, <2>3
      <4>2. Len(g) = Len(s) - x /\ \A j \in 1 .. Len(s) - x : g[j] = s[(x + 1) + j - 1]
        BY <3>1, <3>2, <4>1
      <4>3. \A j \in 1 .. Len(s) - x : (x + 1) + j - 1 = x + j
        BY <1>l, <2>3
      <4> QED BY <4>2, <4>3
    <3>4. /\ Len(f[x]) = Len(g) + 1 /\ f[x][1] = c /\ \A i \in 1 .. Len(g) : f[x][i + 1] = g[i]
      BY <3>2, ConsIs
    <3>5. Len(f[x]) = Len(s) + 1 - x
      BY <1>l, <2>3, <3>3, <3>4
    <3>6. ASSUME NEW j \in 1 .. Len(s) + 1 - x PROVE f[x][j] = s[x + j - 1]
      <4>1. CASE j = 1
        <5>1. x + j - 1 = x
          BY <4>1
        <5> QED BY <3>2, <3>4, <4>1, <5>1
      <4>2. CASE j # 1
        <5>1. j - 1 \in 1 .. Len(s) - x /\ (j - 1) + 1 = j /\ x + (j - 1) = x + j - 1
          BY <1>l, <2>3, <4>2
        <5> QED BY <3>3, <3>4, <5>1
      <4> QED BY <4>1, <4>2
    <3> QED BY <3>5, <3>6, <2>1
  <2> QED BY <1>l, <2>2, <2>3
<1>5. Good(1)
  <2>1. T = {} /\ 1 \in 1 .. Len(s) + 1
    BY <1>l, <1>4
  <2>2. 1 \notin T
    BY <2>1
  <2> QED BY <2>1, <2>2
<1>6. Len(f[1]) = Len(s) /\ \A j \in 1 .. Len(s) : f[1][j] = s[j]
  <2>1. Len(s) + 1 - 1 = Len(s) /\ \A j \in Nat : 1 + j - 1 = j
    BY <1>l
  <2> QED BY <1>5, <2>1
<1>7. f[1] \in Seq(Glyph)
  BY <1>l, <1>3
<1> QED BY <1>1, <1>6, <1>7, SeqEqual

LEMMA Associative == \A a, b, c \in Seq(Glyph) : a \o (b \o c) = (a \o b) \o c
<1> TAKE a, b, c \in Seq(Glyph)
<1> QED BY ConcatAssociative

LEMMA MatchesLeft ==
  ASSUME NEW r, NEW s \in Seq(Glyph), NEW t \in Seq(Glyph), NEW u, u = s \o t, Released(s), ~Straddles(r, u)
  PROVE  \A i \in 1 .. Len(s) : MatchLen(r, u, i) = MatchLen(r, s, i)
BY MatchLeft

\* In released text the scan is the scan of that text, followed by the rest.
LEMMA ScanLeft ==
  ASSUME NEW r, NEW s \in Seq(Glyph), NEW t \in Seq(Glyph), NEW u, u = s \o t, Released(s), ~Straddles(r, u),
         NEW f \in Scans(r, u), NEW g \in Scans(r, s)
  PROVE  \A i \in 1 .. Len(s) + 1 : f[i] = g[i] \o f[Len(s) + 1]
<1>1. /\ u \in Seq(Glyph) /\ Len(u) = Len(s) + Len(t) /\ Len(s) \in Nat /\ Len(t) \in Nat
      /\ \A j \in 1 .. Len(s) : u[j] = s[j]
  BY ConcatIs
<1>m. \A i \in 1 .. Len(s) : MatchLen(r, u, i) = MatchLen(r, s, i)
  BY MatchesLeft
<1>g. g \in [1 .. Len(s) + 1 -> Seq(Glyph)] /\ g[Len(s) + 1] = <<>>
  BY DEF Scans
<1>f. PICK e \in Seq(Glyph) : e = f[Len(s) + 1]
  <2>1. Len(s) + 1 \in 1 .. Len(u) + 1
    BY <1>1
  <2> QED BY <2>1 DEF Scans
<1> DEFINE T == {i \in 1 .. Len(s) + 1 : f[i] # g[i] \o e}
<1>2. ASSUME T # {} PROVE FALSE
  <2>1. PICK x \in T : \A j \in T : j <= x
    <3>1. T \in SUBSET Nat /\ Len(s) + 1 \in Nat /\ \A j \in T : j <= Len(s) + 1
      BY <1>1
    <3> QED BY <1>2, <3>1, GreatestNat
  <2>x. /\ x \in 1 .. Len(s) + 1 /\ f[x] # g[x] \o e
        /\ \A j \in 1 .. Len(s) + 1 : ~(j <= x) => f[j] = g[j] \o e
    BY <2>1
  <2> HIDE DEF T
  <2>2. CASE x = Len(s) + 1
    <3>1. <<>> \o e = e
      BY ConcatEmptySeq
    <3> QED BY <1>f, <1>g, <2>x, <2>2, <3>1
  <2>3. CASE x \in 1 .. Len(s)
    <3>1. PICK m \in Nat : m = MatchLen(r, s, x) /\ x + m <= Len(s) + 1
      BY <2>3, MatchLenIs
    <3>2. MatchLen(r, u, x) = m
      <4>1. MatchLen(r, u, x) = MatchLen(r, s, x)
        BY <2>3, <1>m, Zenon
      <4> QED BY <3>1, <4>1
    <3>3. x \in 1 .. Len(u)
      BY <1>1, <2>3
    <3>4. f[x] = IF m = 0 THEN <<u[x]>> \o f[x + 1] ELSE <<MaskToken>> \o f[x + m]
      BY <3>2, <3>3 DEF Scans
    <3>5. g[x] = IF m = 0 THEN <<s[x]>> \o g[x + 1] ELSE <<MaskToken>> \o g[x + m]
      BY <2>3, <3>1 DEF Scans
    <3>6. \A l \in Nat : l >= 1 /\ x + l <= Len(s) + 1 => f[x + l] = g[x + l] \o e /\ g[x + l] \in Seq(Glyph)
      <4> SUFFICES ASSUME NEW l \in Nat, l >= 1, x + l <= Len(s) + 1
                   PROVE  f[x + l] = g[x + l] \o e /\ g[x + l] \in Seq(Glyph)
        OBVIOUS
      <4>1. x + l \in 1 .. Len(s) + 1 /\ ~(x + l <= x)
        BY <1>1, <2>3
      <4> QED BY <1>g, <2>x, <4>1
    <3>7. PICK l \in Nat, c \in Glyph :
            f[x] = <<c>> \o f[x + l] /\ g[x] = <<c>> \o g[x + l] /\ l >= 1 /\ x + l <= Len(s) + 1
      <4>1. CASE m = 0
        <5>1. u[x] = s[x] /\ s[x] \in Glyph /\ 1 \in Nat /\ 1 >= 1 /\ x + 1 <= Len(s) + 1
          BY <1>1, <2>3, ElementOfSeq
        <5>2. f[x] = <<s[x]>> \o f[x + 1] /\ g[x] = <<s[x]>> \o g[x + 1]
          BY <3>4, <3>5, <4>1, <5>1
        <5> QED BY <5>1, <5>2, Zenon
      <4>2. CASE m # 0
        <5>1. m >= 1 /\ MaskToken \in Glyph
          BY <4>2 DEF Glyph
        <5>2. f[x] = <<MaskToken>> \o f[x + m] /\ g[x] = <<MaskToken>> \o g[x + m]
          BY <3>4, <3>5, <4>2
        <5> QED BY <3>1, <5>1, <5>2
      <4> QED BY <4>1, <4>2
    <3>8. PICK y \in Seq(Glyph) : y = g[x + l] /\ f[x + l] = y \o e
      BY <3>6, <3>7
    <3>9. <<c>> \o (y \o e) = (<<c>> \o y) \o e
      <4>1. <<c>> \in Seq(Glyph)
        OBVIOUS
      <4>2. PICK o \in Seq(Glyph) : o = <<c>>
        BY <4>1
      <4>3. o \o (y \o e) = (o \o y) \o e
        BY Associative, Zenon
      <4> QED BY <4>2, <4>3
    <3>10. f[x] = g[x] \o e
      BY <3>7, <3>8, <3>9
    <3> QED BY <2>x, <3>10
  <2> QED BY <1>1, <2>x, <2>2, <2>3
<1> QED BY <1>2, <1>f

\* Replacing in released text and in the rest separately replaces in all of it.
LEMMA ReplaceConcat ==
  ASSUME NEW r, NEW s \in Seq(Glyph), NEW t \in Seq(Glyph), Released(s), ~Straddles(r, s \o t)
  PROVE  ReplaceAllString(r, s \o t) = ReplaceAllString(r, s) \o ReplaceAllString(r, t)
<1>1. PICK u : u = s \o t
  OBVIOUS
<1>2. u \in Seq(Glyph) /\ Len(s) \in Nat /\ Len(t) \in Nat
  BY <1>1, ConcatIs
<1>3. PICK f \in Scans(r, u) : ReplaceAllString(r, u) = f[1]
  BY <1>2, ReplaceScans
<1>4. PICK h \in Scans(r, t) : ReplaceAllString(r, t) = h[1]
  BY ReplaceScans
<1>5. f[Len(s) + 1] = h[1]
  <2>1. /\ u \in Seq(Glyph) /\ Len(u) = Len(s) + Len(t) /\ Len(s) \in Nat /\ Len(t) \in Nat
        /\ \A j \in 1 .. Len(t) : u[Len(s) + j] = t[j]
    BY <1>1, ConcatIs
  <2> DEFINE T == {j \in 1 .. Len(t) + 1 : f[Len(s) + j] # h[j]}
  <2>2. ASSUME T # {} PROVE FALSE
    <3>1. PICK x \in T : \A j \in T : j <= x
      <4>1. T \in SUBSET Nat /\ Len(t) + 1 \in Nat /\ \A j \in T : j <= Len(t) + 1
        BY <2>1
      <4> QED BY <2>2, <4>1, GreatestNat
    <3>2. CASE x = Len(t) + 1
      <4>1. Len(s) + x = Len(u) + 1
        BY <2>1, <3>2
      <4>2. f[Len(u) + 1] = <<>> /\ h[Len(t) + 1] = <<>>
        BY DEF Scans
      <4> QED BY <3>1, <3>2, <4>1, <4>2
    <3>3. CASE x \in 1 .. Len(t)
      <4>1. PICK m \in Nat : m = MatchLen(r, t, x) /\ x + m <= Len(t) + 1
        BY <3>3, MatchLenIs
      <4>2. MatchLen(r, u, Len(s) + x) = m
        BY <1>1, <3>3, <4>1, MatchRight
      <4>3. Len(s) + x \in 1 .. Len(u)
        BY <2>1, <3>3
      <4>4. f[Len(s) + x] = IF m = 0 THEN <<u[Len(s) + x]>> \o f[(Len(s) + x) + 1]
                            ELSE <<MaskToken>> \o f[(Len(s) + x) + m]
        BY <4>2, <4>3 DEF Scans
      <4>5. h[x] = IF m = 0 THEN <<t[x]>> \o h[x + 1] ELSE <<MaskToken>> \o h[x + m]
        BY <3>3, <4>1 DEF Scans
      <4>6. \A l \in Nat : l >= 1 /\ x + l <= Len(t) + 1 => f[(Len(s) + x) + l] = h[x + l]
        <5> SUFFICES ASSUME NEW l \in Nat, l >= 1, x + l <= Len(t) + 1 PROVE f[(Len(s) + x) + l] = h[x + l]
          OBVIOUS
        <5>1. x + l \in 1 .. Len(t) + 1 /\ ~(x + l <= x) /\ (Len(s) + x) + l = Len(s) + (x + l)
          BY <2>1, <3>3
        <5> QED BY <3>1, <5>1
      <4>7. u[Len(s) + x] = t[x]
        BY <2>1, <3>3
      <4>8. f[Len(s) + x] = h[x]
        <5>1. CASE m = 0
          <6>1. f[(Len(s) + x) + 1] = h[x + 1]
            BY <2>1, <3>3, <4>6
          <6> QED BY <4>4, <4>5, <4>7, <5>1, <6>1
        <5>2. CASE m # 0
          <6>m. m >= 1
            BY <5>2
          <6>1. f[(Len(s) + x) + m] = h[x + m]
            BY <4>1, <4>6, <6>m
          <6> QED BY <4>4, <4>5, <5>2, <6>1
        <5> QED BY <5>1, <5>2
      <4> QED BY <3>1, <4>8
    <3> QED BY <2>1, <3>2, <3>3
  <2>3. 1 \in 1 .. Len(t) + 1
    BY <2>1
  <2> QED BY <2>2, <2>3
<1>6. PICK g \in Scans(r, s) : ReplaceAllString(r, s) = g[1]
  BY ReplaceScans
<1>7. f[1] = g[1] \o f[Len(s) + 1]
  <2>1. 1 \in 1 .. Len(s) + 1
    BY <1>2
  <2>2. \A i \in 1 .. Len(s) + 1 : f[i] = g[i] \o f[Len(s) + 1]
    BY <1>1, ScanLeft
  <2> QED BY <2>1, <2>2
<1> QED BY <1>1, <1>3, <1>4, <1>5, <1>6, <1>7

\* Masking keeps the separator at the end of released text.
LEMMA ReplaceReleased ==
  ASSUME NEW r, NEW s \in Seq(Glyph), Released(s), ~Straddles(r, s)
  PROVE  ReplaceAllString(r, s) \in Seq(Glyph) /\ Released(ReplaceAllString(r, s))
<1>l. Len(s) \in Nat
  BY LenProperties
<1>1. PICK f \in Scans(r, s) : ReplaceAllString(r, s) = f[1]
  BY ReplaceScans
<1>2. f \in [1 .. Len(s) + 1 -> Seq(Glyph)] /\ f[Len(s) + 1] = <<>>
  BY DEF Scans
<1>3. f[1] \in Seq(Glyph)
  BY <1>l, <1>2
<1> DEFINE Good(i) == f[i] # <<>> /\ f[i][Len(f[i])] = Space
           T == {i \in 1 .. Len(s) : ~Good(i)}
<1>4. ASSUME T # {} PROVE FALSE
  <2>1. PICK x \in T : \A j \in T : j <= x
    <3>1. T \in SUBSET Nat /\ Len(s) \in Nat /\ \A j \in T : j <= Len(s)
      BY <1>l
    <3> QED BY <1>4, <3>1, GreatestNat
  <2>x. x \in 1 .. Len(s)
    BY <2>1
  <2>e. s[Len(s)] = Space
    <3>1. s # <<>>
      BY <2>x, EmptySeq
    <3> QED BY <3>1 DEF Released
  <2>2. PICK m \in Nat : m = MatchLen(r, s, x) /\ (m > 0 => m \in Hits(r, s, x))
    BY <2>x, MatchLenIs
  <2>3. m > 0 => x + m <= Len(s)
    <3> SUFFICES ASSUME m > 0 PROVE x + m <= Len(s)
      OBVIOUS
    <3>1. Len(s) \notin x .. x + m - 1
      BY <2>x, <2>e, <2>2, HitHasNoSpace
    <3> QED BY <1>l, <2>x, <3>1
  <2>4. f[x] = IF m = 0 THEN <<s[x]>> \o f[x + 1] ELSE <<MaskToken>> \o f[x + m]
    BY <2>x, <2>2 DEF Scans
  <2>5. \A l \in Nat : l >= 1 /\ x + l <= Len(s) => Good(x + l) /\ f[x + l] \in Seq(Glyph)
    <3> SUFFICES ASSUME NEW l \in Nat, l >= 1, x + l <= Len(s) PROVE Good(x + l) /\ f[x + l] \in Seq(Glyph)
      OBVIOUS
    <3>1. x + l \in 1 .. Len(s) /\ x + l \in 1 .. Len(s) + 1 /\ ~(x + l <= x)
      BY <1>l, <2>x
    <3> QED BY <1>2, <2>1, <3>1
  <2>6. CASE x = Len(s)
    <3>1. m = 0
      BY <1>l, <2>3, <2>6
    <3>2. f[x] = <<Space>> \o <<>>
      BY <1>2, <2>4, <2>6, <2>e, <3>1
    <3>3. <<Space>> \o <<>> = <<Space>>
      OBVIOUS
    <3>4. <<Space>> # <<>> /\ Len(<<Space>>) = 1 /\ <<Space>>[1] = Space
      OBVIOUS
    <3> QED BY <2>1, <3>2, <3>3, <3>4
  <2>7. CASE x # Len(s)
    <3>1. PICK l \in Nat, c \in Glyph : l >= 1 /\ x + l <= Len(s) /\ f[x] = <<c>> \o f[x + l]
      <4>1. CASE m = 0
        <5>1. s[x] \in Glyph /\ 1 \in Nat /\ x + 1 <= Len(s)
          BY <1>l, <2>x, <2>7, ElementOfSeq
        <5>2. f[x] = <<s[x]>> \o f[x + 1]
          BY <2>4, <4>1
        <5> QED BY <5>1, <5>2
      <4>2. CASE m # 0
        <5>1. m >= 1 /\ m > 0 /\ MaskToken \in Glyph
          BY <4>2 DEF Glyph
        <5>2. f[x] = <<MaskToken>> \o f[x + m]
          BY <2>4, <4>2
        <5> QED BY <2>3, <5>1, <5>2
      <4> QED BY <4>1, <4>2
    <3>2. PICK y \in Seq(Glyph) : y = f[x + l] /\ y # <<>> /\ y[Len(y)] = Space
      BY <2>5, <3>1
    <3>3. PICK z : z = <<c>> \o y
      OBVIOUS
    <3>4. z \in Seq(Glyph) /\ Len(z) = Len(y) + 1 /\ \A i \in 1 .. Len(y) : z[i + 1] = y[i]
      BY <3>3, ConsIs
    <3>5. Len(y) \in 1 .. Len(y) /\ Len(z) # 0
      BY <3>2, <3>4, EmptySeq, LenProperties
    <3>6. z # <<>> /\ z[Len(z)] = Space
      BY <3>2, <3>4, <3>5, EmptySeq
    <3> QED BY <2>1, <3>1, <3>2, <3>3, <3>6
  <2> QED BY <2>6, <2>7
<1>5. CASE s = <<>>
  <2>1. f[1] = <<>>
    <3>1. Len(s) + 1 = 1
      BY <1>5, EmptySeq
    <3> QED BY <1>2, <3>1
  <2> QED BY <1>1, <1>3, <2>1 DEF Released
<1>6. CASE s # <<>>
  <2>1. 1 \in 1 .. Len(s)
    BY <1>l, <1>6, EmptySeq
  <2>2. Good(1)
    BY <1>4, <2>1
  <2> QED BY <1>1, <1>3, <2>2 DEF Released
<1> QED BY <1>5, <1>6

LEMMA ReplaceType ==
  ASSUME NEW r, NEW s \in Seq(Glyph) PROVE ReplaceAllString(r, s) \in Seq(Glyph)
<1>1. PICK f \in Scans(r, s) : ReplaceAllString(r, s) = f[1]
  BY ReplaceScans
<1>2. 1 \in 1 .. Len(s) + 1
  BY LenProperties
<1> QED BY <1>1, <1>2 DEF Scans

\* A rule matches somewhere in the whole iff it matches in one of the parts.
LEMMA MatchConcat ==
  ASSUME NEW r, NEW s \in Seq(Glyph), NEW t \in Seq(Glyph), Released(s), ~Straddles(r, s \o t)
  PROVE  MatchString(r, s \o t) <=> MatchString(r, s) \/ MatchString(r, t)
<1>1. PICK u : u = s \o t
  OBVIOUS
<1>2. Len(u) = Len(s) + Len(t) /\ Len(s) \in Nat /\ Len(t) \in Nat
  BY <1>1, ConcatIs
<1>3. ASSUME NEW i \in 1 .. Len(s) PROVE MatchLen(r, u, i) = MatchLen(r, s, i) /\ i \in 1 .. Len(u)
  <2>1. MatchLen(r, u, i) = MatchLen(r, s, i)
    BY <1>1, MatchLeft
  <2> QED BY <1>2, <2>1
<1>4. ASSUME NEW i \in 1 .. Len(t)
      PROVE  MatchLen(r, u, Len(s) + i) = MatchLen(r, t, i) /\ Len(s) + i \in 1 .. Len(u)
  <2>1. MatchLen(r, u, Len(s) + i) = MatchLen(r, t, i)
    BY <1>1, MatchRight
  <2> QED BY <1>2, <2>1
<1>5. MatchString(r, s) \/ MatchString(r, t) => MatchString(r, u)
  BY <1>3, <1>4 DEF MatchString
<1>6. ASSUME NEW i \in 1 .. Len(u), MatchLen(r, u, i) > 0 PROVE MatchString(r, s) \/ MatchString(r, t)
  <2>1. CASE i <= Len(s)
    <3>1. i \in 1 .. Len(s)
      BY <2>1, <1>2
    <3> QED BY <1>3, <1>6, <3>1 DEF MatchString
  <2>2. CASE ~(i <= Len(s))
    <3>1. PICK j \in 1 .. Len(t) : i = Len(s) + j
      <4>1. i - Len(s) \in 1 .. Len(t) /\ i = Len(s) + (i - Len(s))
        BY <2>2, <1>2
      <4> QED BY <4>1
    <3> QED BY <1>4, <1>6, <3>1 DEF MatchString
  <2> QED BY <2>1, <2>2
<1> QED BY <1>1, <1>5, <1>6 DEF MatchString

-----------------------------------------------------------------------------
(* The masker: the rules, one after the other *)

\* The loop of Apply as rounds over its results.
Names == {Detectors[i].name : i \in 1 .. Len(Detectors)}
Verdict == [text : Seq(Glyph), findings : SUBSET Names, blocked : BOOLEAN]
Fresh(s) == [text |-> s, findings |-> {}, blocked |-> FALSE]
AddRule == [q \in Nat \X Verdict |->
              IF q[1] \in 1 .. Len(Detectors) THEN ApplyRule(q[2], Detectors[q[1]]) ELSE q[2]]

\* What one rule does to the text and to the findings.
RuleText(r, s) == IF r.action = "flag" THEN s ELSE ReplaceAllString(r, s)
RuleFinds(r, s) == IF MatchString(r, s) THEN {r.name} ELSE {}

\* ApplyRule skips a rule that does not match; replacing would do nothing then.
LEMMA RuleIs ==
  ASSUME NEW res \in Verdict, NEW i \in 1 .. Len(Detectors)
  PROVE  /\ ApplyRule(res, Detectors[i]) \in Verdict
         /\ ApplyRule(res, Detectors[i]).text = RuleText(Detectors[i], res.text)
         /\ ApplyRule(res, Detectors[i]).findings = res.findings \cup RuleFinds(Detectors[i], res.text)
<1>1. PICK r : r = Detectors[i]
  OBVIOUS
<1>2. r.name \in Names
  BY <1>1 DEF Names
<1>3. PICK s \in Seq(Glyph), F \in SUBSET Names, b \in BOOLEAN :
         res = [text |-> s, findings |-> F, blocked |-> b]
         /\ res.text = s /\ res.findings = F /\ res.blocked = b
  BY DEF Verdict
<1>4. RuleText(r, s) \in Seq(Glyph)
  BY ReplaceType DEF RuleText
<1>5. CASE ~MatchString(r, s)
  <2>1. ApplyRule(res, r) = res
    BY <1>3, <1>5 DEF ApplyRule
  <2>2. ReplaceAllString(r, s) = s
    BY <1>5, ReplaceNothing
  <2>3. RuleText(r, s) = s /\ RuleFinds(r, s) = {}
    BY <1>5, <2>2 DEF RuleText, RuleFinds
  <2> QED BY <1>1, <1>3, <2>1, <2>3
<1>6. CASE MatchString(r, s)
  <2>1. PICK w \in Seq(Glyph), G \in SUBSET Names, c \in BOOLEAN :
          w = RuleText(r, s) /\ G = F \cup {r.name} /\ c = (b \/ r.action = "block")
    <3>1. F \cup {r.name} \in SUBSET Names
      BY <1>2
    <3>2. (b \/ r.action = "block") \in BOOLEAN
      OBVIOUS
    <3> QED BY <1>4, <3>1, <3>2
  <2>2. ApplyRule(res, r) = [text |-> w, findings |-> G, blocked |-> c]
    BY <1>3, <1>6, <2>1 DEF ApplyRule, RuleText
  <2>3. ApplyRule(res, r) \in Verdict /\ ApplyRule(res, r).text = w /\ ApplyRule(res, r).findings = G
    BY <2>2 DEF Verdict
  <2>4. RuleFinds(r, s) = {r.name}
    BY <1>6 DEF RuleFinds
  <2> QED BY <1>1, <1>3, <2>1, <2>3, <2>4
<1> QED BY <1>5, <1>6

LEMMA AddRuleType == AddRule \in [Nat \X Verdict -> Verdict]
<1>1. ASSUME NEW q \in Nat \X Verdict
      PROVE  (IF q[1] \in 1 .. Len(Detectors) THEN ApplyRule(q[2], Detectors[q[1]]) ELSE q[2]) \in Verdict
  <2>1. q[2] \in Verdict
    OBVIOUS
  <2> QED BY <2>1, RuleIs
<1> QED BY <1>1 DEF AddRule

\* What Apply computes, rule by rule.
LEMMA ApplyRounds ==
  ASSUME NEW s \in Seq(Glyph)
  PROVE  \E f \in Rounds(Verdict, Fresh(s), AddRule, Len(Detectors)) :
           f = AfterEach(s, Detectors) /\ Apply(s, Detectors) = f[Len(Detectors)]
<1> DEFINE V(f) == f = [i \in 0 .. Len(Detectors) |->
                          IF i = 0 THEN Fresh(s) ELSE ApplyRule(f[i - 1], Detectors[i])]
<1>n. Len(Detectors) \in Nat
  BY StreamAssumption
<1>0. Fresh(s) \in Verdict
  BY DEF Fresh, Verdict
<1>1. PICK h : h \in Rounds(Verdict, Fresh(s), AddRule, Len(Detectors))
  BY <1>n, <1>0, AddRuleType, RoundsExist
<1>a. \A i \in 1 .. Len(Detectors), x \in Verdict : AddRule[<<i, x>>] = ApplyRule(x, Detectors[i])
  BY <1>n DEF AddRule
<1>2. V(h)
  <2>1. h \in [0 .. Len(Detectors) -> Verdict] /\ h[0] = Fresh(s)
    BY <1>1 DEF Rounds
  <2>2. \A i \in 1 .. Len(Detectors) : h[i] = ApplyRule(h[i - 1], Detectors[i])
    <3> TAKE i \in 1 .. Len(Detectors)
    <3>1. h[i] = AddRule[<<i, h[i - 1]>>]
      BY <1>1 DEF Rounds
    <3>2. h[i - 1] \in Verdict
      BY <1>n, <2>1
    <3> QED BY <1>a, <3>1, <3>2
  <2>3. \A i \in 0 .. Len(Detectors) : i # 0 => i \in 1 .. Len(Detectors)
    BY <1>n
  <2> QED BY <2>1, <2>2, <2>3
<1>3. PICK f : f = CHOOSE g : V(g)
  OBVIOUS
<1>4. f = AfterEach(s, Detectors) /\ Apply(s, Detectors) = f[Len(Detectors)]
  <2>1. f = AfterEach(s, Detectors)
    BY <1>3 DEF AfterEach, Fresh
  <2> QED BY <2>1 DEF Apply
<1>5. V(f)
  BY <1>2, <1>3, Zenon
<1>6. f = [i \in 0 .. Len(Detectors) |-> f[i]] /\ f[0] = Fresh(s)
  BY <1>n, <1>5
<1>7. \A i \in 1 .. Len(Detectors) : f[i] = ApplyRule(f[i - 1], Detectors[i])
  <2>1. \A i \in 1 .. Len(Detectors) : i \in 0 .. Len(Detectors) /\ i # 0
    BY <1>n
  <2> QED BY <1>5, <2>1
<1> HIDE DEF V
<1>8. \A i \in 1 .. Len(Detectors) : f[i - 1] \in Verdict => f[i] = AddRule[<<i, f[i - 1]>>]
  BY <1>a, <1>7
<1>9. f \in Rounds(Verdict, Fresh(s), AddRule, Len(Detectors))
  BY <1>n, <1>0, <1>6, <1>8, AddRuleType, RoundsOf
<1> QED BY <1>4, <1>9

LEMMA RoundIs ==
  ASSUME NEW s \in Seq(Glyph), NEW f \in Rounds(Verdict, Fresh(s), AddRule, Len(Detectors)),
         NEW i \in 1 .. Len(Detectors)
  PROVE  /\ f[i - 1] \in Verdict /\ f[i] \in Verdict
         /\ f[i].text = RuleText(Detectors[i], f[i - 1].text)
         /\ f[i].findings = f[i - 1].findings \cup RuleFinds(Detectors[i], f[i - 1].text)
<1>n. Len(Detectors) \in Nat
  BY StreamAssumption
<1>1. f \in [0 .. Len(Detectors) -> Verdict] /\ f[i] = AddRule[<<i, f[i - 1]>>]
  BY DEF Rounds
<1>2. PICK x \in Verdict : x = f[i - 1]
  <2>1. i - 1 \in 0 .. Len(Detectors)
    BY <1>n
  <2>2. f[i - 1] \in Verdict
    BY <1>1, <2>1
  <2> QED BY <2>2
<1>3. AddRule[<<i, x>>] = ApplyRule(x, Detectors[i])
  BY <1>n DEF AddRule
<1>4. f[i] = ApplyRule(x, Detectors[i])
  BY <1>1, <1>2, <1>3
<1> QED BY <1>2, <1>4, RuleIs

\* Masking released text and the rest separately masks all of it.
LEMMA ApplyConcat ==
  ASSUME NEW s \in Seq(Glyph), NEW t \in Seq(Glyph), Released(s), ~Straddled(s \o t)
  PROVE  /\ ~Straddled(s)
         /\ Apply(s \o t, Detectors).text = Apply(s, Detectors).text \o Apply(t, Detectors).text
         /\ Apply(s \o t, Detectors).findings = Apply(s, Detectors).findings \cup Apply(t, Detectors).findings
<1>n. PICK N \in Nat : N = Len(Detectors)
  BY StreamAssumption
<1>1. PICK u \in Seq(Glyph) : u = s \o t
  BY ConcatIs
<1>2. PICK f \in Rounds(Verdict, Fresh(u), AddRule, N) :
        f = AfterEach(u, Detectors) /\ Apply(u, Detectors) = f[N]
  BY <1>n, ApplyRounds
<1>3. PICK g \in Rounds(Verdict, Fresh(s), AddRule, N) :
        g = AfterEach(s, Detectors) /\ Apply(s, Detectors) = g[N]
  BY <1>n, ApplyRounds
<1>4. PICK h \in Rounds(Verdict, Fresh(t), AddRule, N) : Apply(t, Detectors) = h[N]
  BY <1>n, ApplyRounds
<1>q. \A i \in 1 .. N : ~Straddles(Detectors[i], f[i - 1].text)
  BY <1>n, <1>1, <1>2 DEF Straddled
<1> DEFINE Agree(i) == /\ f[i].text = g[i].text \o h[i].text /\ Released(g[i].text)
                       /\ f[i].findings = g[i].findings \cup h[i].findings
           S == {i \in Nat : i <= N => Agree(i)}
<1>5. 0 \in S
  <2>1. f[0] = Fresh(u) /\ g[0] = Fresh(s) /\ h[0] = Fresh(t)
    BY DEF Rounds
  <2>2. Agree(0)
    BY <1>1, <2>1 DEF Fresh
  <2> HIDE DEF Agree
  <2> QED BY <2>2
<1>6. ASSUME NEW j \in S PROVE j + 1 \in S
  <2>1. CASE j + 1 <= N
    <3>1. PICK i \in 1 .. Len(Detectors) : i = j + 1 /\ i - 1 = j
      <4>1. j + 1 \in 1 .. Len(Detectors) /\ (j + 1) - 1 = j
        BY <1>n, <2>1
      <4> QED BY <4>1
    <3>2. Agree(j)
      <4> HIDE DEF Agree
      <4> QED BY <2>1
    <3>3. PICK r : r = Detectors[i]
      OBVIOUS
    <3>f. /\ f[j] \in Verdict /\ f[i].text = RuleText(r, f[j].text)
          /\ f[i].findings = f[j].findings \cup RuleFinds(r, f[j].text)
      BY <1>n, <3>1, <3>3, RoundIs
    <3>g. /\ g[j] \in Verdict /\ g[i].text = RuleText(r, g[j].text)
          /\ g[i].findings = g[j].findings \cup RuleFinds(r, g[j].text)
      BY <1>n, <3>1, <3>3, RoundIs
    <3>h. /\ h[j] \in Verdict /\ h[i].text = RuleText(r, h[j].text)
          /\ h[i].findings = h[j].findings \cup RuleFinds(r, h[j].text)
      BY <1>n, <3>1, <3>3, RoundIs
    <3>5. PICK a \in Seq(Glyph), b \in Seq(Glyph) :
            a = g[j].text /\ b = h[j].text /\ f[j].text = a \o b /\ Released(a)
      BY <3>2, <3>g, <3>h DEF Verdict
    <3>4. ~Straddles(r, a \o b) /\ ~Straddles(r, a)
      <4>1. ~Straddles(r, f[i - 1].text)
        BY <1>n, <1>q, <3>1, <3>3
      <4>2. ~Straddles(r, a \o b)
        BY <3>1, <3>5, <4>1
      <4> QED BY <3>5, <4>2, StraddlesParts
    <3>6. RuleText(r, a \o b) = RuleText(r, a) \o RuleText(r, b) /\ Released(RuleText(r, a))
      <4>1. ReplaceAllString(r, a \o b) = ReplaceAllString(r, a) \o ReplaceAllString(r, b)
        BY <3>4, <3>5, ReplaceConcat
      <4>2. Released(ReplaceAllString(r, a))
        BY <3>4, <3>5, ReplaceReleased
      <4> QED BY <3>5, <4>1, <4>2 DEF RuleText
    <3>7. RuleFinds(r, a \o b) = RuleFinds(r, a) \cup RuleFinds(r, b)
      <4>1. MatchString(r, a \o b) <=> MatchString(r, a) \/ MatchString(r, b)
        BY <3>4, <3>5, MatchConcat
      <4> QED BY <4>1 DEF RuleFinds
    <3>8. f[i].text = g[i].text \o h[i].text /\ Released(g[i].text)
      BY <3>f, <3>g, <3>h, <3>5, <3>6
    <3>9. f[i].findings = g[i].findings \cup h[i].findings
      <4>1. f[j].findings = g[j].findings \cup h[j].findings
        BY <3>2
      <4>2. f[i].findings = f[j].findings \cup (RuleFinds(r, a) \cup RuleFinds(r, b))
        BY <3>f, <3>5, <3>7
      <4> QED BY <3>g, <3>h, <3>5, <4>1, <4>2
    <3>10. Agree(j + 1)
      BY <3>1, <3>8, <3>9
    <3> HIDE DEF Agree
    <3> QED BY <3>10
  <2>2. CASE ~(j + 1 <= N)
    <3> HIDE DEF Agree
    <3> QED BY <2>2
  <2> QED BY <2>1, <2>2
<1>7. \A i \in Nat : i \in S
  BY <1>5, <1>6, NatSet
<1>8. Agree(N)
  <2> HIDE DEF Agree
  <2> QED BY <1>7
<1>9. ~Straddled(s)
  <2>1. ASSUME NEW i \in 1 .. N PROVE ~Straddles(Detectors[i], g[i - 1].text)
    <3>1. PICK j \in Nat : j = i - 1 /\ j <= N
      BY <1>n
    <3>2. Agree(j)
      <4> HIDE DEF Agree
      <4> QED BY <1>7, <3>1
    <3>3. f[j] \in Verdict /\ g[j] \in Verdict /\ h[j] \in Verdict
      BY <1>n, <3>1, RoundIs
    <3>4. PICK a \in Seq(Glyph), b \in Seq(Glyph) :
            a = g[j].text /\ b = h[j].text /\ f[j].text = a \o b /\ Released(a)
      BY <3>2, <3>3 DEF Verdict
    <3>5. ~Straddles(Detectors[i], a \o b)
      BY <1>q, <3>1, <3>4
    <3> QED BY <3>1, <3>4, <3>5, StraddlesParts
  <2> QED BY <1>n, <1>3, <2>1 DEF Straddled
<1> QED BY <1>1, <1>2, <1>3, <1>4, <1>8, <1>9

LEMMA ApplyType ==
  ASSUME NEW s \in Seq(Glyph)
  PROVE  Apply(s, Detectors) \in Verdict
<1>1. PICK f \in Rounds(Verdict, Fresh(s), AddRule, Len(Detectors)) : Apply(s, Detectors) = f[Len(Detectors)]
  BY ApplyRounds
<1>2. Len(Detectors) \in Nat
  BY StreamAssumption
<1> QED BY <1>1, <1>2 DEF Rounds

LEMMA ResponseIs ==
  ASSUME NEW s \in Seq(Glyph)
  PROVE  /\ ApplyResponse(s, Detectors).text = Apply(s, Detectors).text
         /\ ApplyResponse(s, Detectors).findings = Apply(s, Detectors).findings
<1>1. PICK a \in Verdict : a = Apply(s, Detectors)
  BY ApplyType
<1>2. ApplyResponse(s, Detectors) = [a EXCEPT !.blocked = FALSE]
  BY <1>1 DEF ApplyResponse
<1> QED BY <1>1, <1>2 DEF Verdict

\* Nothing is found in the empty text.
LEMMA ApplyNothing == Apply(<<>>, Detectors).text = <<>> /\ Apply(<<>>, Detectors).findings = {}
<1>e. PICK e \in Seq(Glyph) : e = <<>> /\ Len(e) = 0
  <2>1. <<>> \in Seq(Glyph) /\ Len(<<>>) = 0
    OBVIOUS
  <2> QED BY <2>1
<1>n. PICK N \in Nat : N = Len(Detectors)
  BY StreamAssumption
<1>1. PICK f \in Rounds(Verdict, Fresh(e), AddRule, N) : Apply(e, Detectors) = f[N]
  BY <1>e, <1>n, ApplyRounds
<1> DEFINE S == {i \in Nat : i <= N => f[i].text = e /\ f[i].findings = {}}
<1>2. 0 \in S
  <2>1. f[0] = Fresh(e)
    BY DEF Rounds
  <2> QED BY <2>1 DEF Fresh
<1>3. ASSUME NEW j \in S PROVE j + 1 \in S
  <2>1. CASE j + 1 <= N
    <3>1. PICK i \in 1 .. Len(Detectors) : i = j + 1 /\ i - 1 = j
      <4>1. j + 1 \in 1 .. Len(Detectors) /\ (j + 1) - 1 = j
        BY <1>n, <2>1
      <4> QED BY <4>1
    <3>2. f[j].text = e /\ f[j].findings = {}
      BY <2>1
    <3>3. PICK r : r = Detectors[i]
      OBVIOUS
    <3>4. f[i].text = RuleText(r, f[j].text) /\ f[i].findings = f[j].findings \cup RuleFinds(r, f[j].text)
      BY <1>n, <3>1, <3>3, RoundIs
    <3>5. ~MatchString(r, e)
      BY <1>e DEF MatchString
    <3>6. ReplaceAllString(r, e) = e
      BY <3>5, ReplaceNothing
    <3>7. RuleText(r, e) = e /\ RuleFinds(r, e) = {}
      BY <3>5, <3>6 DEF RuleText, RuleFinds
    <3>8. f[i].text = e /\ f[i].findings = {}
      BY <3>2, <3>4, <3>7
    <3> QED BY <3>1, <3>8
  <2>2. CASE ~(j + 1 <= N)
    BY <2>2
  <2> QED BY <2>1, <2>2
<1>4. \A i \in Nat : i \in S
  BY <1>2, <1>3, NatSet
<1> QED BY <1>e, <1>1, <1>4

-----------------------------------------------------------------------------
(* The masker: Push and Close *)

\* Push cuts the text behind its last separator.
LEMMA SplitIs ==
  ASSUME NEW s \in Seq(Glyph)
  PROVE  \E a, b \in Seq(Glyph) : /\ s = a \o b /\ Released(a)
                                  /\ a = SubSeq(s, 1, LastSpace(s)) /\ b = SubSeq(s, LastSpace(s) + 1, Len(s))
<1>1. PICK N \in Nat : N = Len(s)
  BY LenProperties
<1> DEFINE T == {0} \cup {i \in 1 .. Len(s) : s[i] = Space}
<1>2. PICK m : m = Max(T)
  OBVIOUS
<1>3. m \in T
  <2>1. T \in SUBSET Nat /\ T # {} /\ \A n \in T : n <= N
    BY <1>1
  <2> QED BY <1>2, <2>1, MaxIs
<1>4. LastSpace(s) = m
  BY <1>2 DEF LastSpace
<1>5. m \in 0 .. N /\ (m # 0 => s[m] = Space)
  BY <1>1, <1>3
<1> HIDE DEF T
<1>6. \A i \in 1 .. N : s[i] \in Glyph
  BY <1>1, ElementOfSeq
<1>7. PICK a : a = SubSeq(s, 1, m)
  OBVIOUS
<1>8. PICK b : b = SubSeq(s, m + 1, N)
  OBVIOUS
<1>9. a \in Seq(Glyph) /\ Len(a) = m /\ \A i \in 1 .. m : a[i] = s[i]
  <2>1. 1 \in Int /\ m \in Int /\ \A i \in 1 .. m : s[i] \in Glyph
    BY <1>5, <1>6
  <2>2. /\ a \in Seq(Glyph) /\ Len(a) = IF 1 <= m THEN m - 1 + 1 ELSE 0
        /\ \A i \in 1 .. m - 1 + 1 : a[i] = s[1 + i - 1]
    BY <1>7, <2>1, SubSeqProperties
  <2>3. m - 1 + 1 = m /\ \A i \in 1 .. m : 1 + i - 1 = i
    BY <1>5
  <2> QED BY <1>5, <2>2, <2>3
<1>10. b \in Seq(Glyph) /\ Len(b) = N - m /\ \A i \in 1 .. N - m : b[i] = s[m + i]
  <2>1. m + 1 \in Int /\ N \in Int /\ \A i \in m + 1 .. N : s[i] \in Glyph
    BY <1>1, <1>5, <1>6
  <2>2. /\ b \in Seq(Glyph) /\ Len(b) = IF m + 1 <= N THEN N - (m + 1) + 1 ELSE 0
        /\ \A i \in 1 .. N - (m + 1) + 1 : b[i] = s[(m + 1) + i - 1]
    BY <1>8, <2>1, SubSeqProperties
  <2>3. N - (m + 1) + 1 = N - m /\ (~(m + 1 <= N) => N - m = 0) /\ \A i \in 1 .. N - m : (m + 1) + i - 1 = m + i
    BY <1>1, <1>5
  <2> QED BY <2>2, <2>3
<1>11. PICK u : u = a \o b
  OBVIOUS
<1>12. s = u
  <2>1. /\ u \in Seq(Glyph) /\ Len(u) = Len(a) + Len(b)
        /\ \A i \in 1 .. Len(a) : u[i] = a[i] /\ \A j \in 1 .. Len(b) : u[Len(a) + j] = b[j]
    <3>1. a \in Seq(Glyph) /\ b \in Seq(Glyph)
      BY <1>9, <1>10
    <3>2. \A i \in 1 .. Len(b) : u[Len(a) + i] = b[i]
      BY <3>1, <1>11, ConcatIs
    <3> QED BY <3>1, <3>2, <1>11, ConcatIs
  <2>2. Len(u) = N
    BY <1>5, <1>9, <1>10, <2>1
  <2>3. ASSUME NEW i \in 1 .. N PROVE u[i] = s[i]
    <3>1. CASE i <= m
      <4>1. i \in 1 .. m
        BY <1>5, <3>1
      <4> QED BY <1>9, <2>1, <4>1
    <3>2. CASE ~(i <= m)
      <4>1. i - m \in 1 .. N - m /\ m + (i - m) = i
        BY <1>5, <3>2
      <4>2. \A j \in 1 .. N - m : u[m + j] = b[j]
        <5>1. \A j \in 1 .. Len(b) : u[Len(a) + j] = b[j]
          <6>1. a \in Seq(Glyph) /\ b \in Seq(Glyph)
            BY <1>9, <1>10
          <6> QED BY <6>1, <1>11, ConcatIs
        <5> QED BY <1>9, <1>10, <5>1
      <4> QED BY <1>10, <4>1, <4>2
    <3> QED BY <3>1, <3>2
  <2> QED BY <1>1, <2>1, <2>2, <2>3, SeqEqual
<1>13. Released(a)
  <2>1. CASE m = 0
    BY <1>9, <2>1, EmptySeq DEF Released
  <2>2. CASE m # 0
    <3>1. m \in 1 .. m
      BY <1>5, <2>2
    <3> QED BY <1>5, <1>9, <2>2, <3>1 DEF Released
  <2> QED BY <2>1, <2>2
<1> QED BY <1>1, <1>4, <1>7, <1>8, <1>9, <1>10, <1>11, <1>12, <1>13

LEMMA Regroup ==
  ASSUME NEW s \in Seq(Glyph), NEW p \in Seq(Glyph), NEW d \in Seq(Glyph), NEW x, NEW w, x = s \o p, w = p \o d
  PROVE  x \o d = s \o w
<1>1. s \o (p \o d) = (s \o p) \o d
  BY Associative, Zenon
<1> QED BY <1>1, Zenon

LEMMA ReleasedConcat ==
  ASSUME NEW s \in Seq(Glyph), NEW t \in Seq(Glyph), Released(s), Released(t)
  PROVE  s \o t \in Seq(Glyph) /\ Released(s \o t)
<1>1. PICK u : u = s \o t
  OBVIOUS
<1>2. /\ u \in Seq(Glyph) /\ Len(u) = Len(s) + Len(t) /\ Len(s) \in Nat /\ Len(t) \in Nat
      /\ \A i \in 1 .. Len(t) : u[Len(s) + i] = t[i]
  BY <1>1, ConcatIs
<1>3. CASE t = <<>>
  <2>1. u = s
    BY <1>1, <1>3, ConcatEmptySeq
  <2> QED BY <1>1, <1>2, <2>1
<1>4. CASE t # <<>>
  <2>1. Len(t) \in 1 .. Len(t)
    BY <1>2, <1>4, EmptySeq
  <2>2. u[Len(s) + Len(t)] = Space
    BY <1>2, <1>4, <2>1 DEF Released
  <2> QED BY <1>1, <1>2, <2>2 DEF Released
<1> QED BY <1>3, <1>4

\* What m has emitted is the masking of the text s, if nothing straddles in it.
Masked(m, s) == ~Straddled(s) => /\ m.out = Apply(s, Detectors).text
                                 /\ m.findings = Apply(s, Detectors).findings
MaskerType == [buf : Seq(Glyph), out : Seq(Glyph), findings : SUBSET Names]
\* While the stream is open, what has been emitted masks a released prefix of
\* the reply and the buffer holds the rest; then it masks all of the reply.
MaskInv == /\ reply \in Seq(Glyph) /\ masker \in MaskerType
           /\ open => \E s \in Seq(Glyph) : Released(s) /\ reply = s \o masker.buf /\ Masked(masker, s)
           /\ ~open => Masked(masker, reply)

\* Emitting more released text, or the rest, keeps the output the masking of
\* what has been emitted.
LEMMA EmitMasks ==
  ASSUME NEW m \in MaskerType, NEW s \in Seq(Glyph), Released(s), Masked(m, s),
         NEW a \in Seq(Glyph), NEW b \in Seq(Glyph)
  PROVE  /\ Emit(m, a, b) \in MaskerType /\ Emit(m, a, b).buf = b /\ Masked(Emit(m, a, b), s \o a)
<1>1. PICK v : v = ApplyResponse(a, Detectors)
  OBVIOUS
<1>2. v.text = Apply(a, Detectors).text /\ v.findings = Apply(a, Detectors).findings
  BY <1>1, ResponseIs
<1>3. v.text \in Seq(Glyph) /\ v.findings \in SUBSET Names
  BY <1>2, ApplyType DEF Verdict
<1>4. PICK o \in Seq(Glyph), F \in SUBSET Names : o = m.out \o v.text /\ F = m.findings \cup v.findings
  <2>1. m.out \in Seq(Glyph) /\ m.findings \in SUBSET Names
    BY DEF MaskerType
  <2>2. m.out \o v.text \in Seq(Glyph)
    BY <1>3, <2>1, ConcatProperties
  <2>3. m.findings \cup v.findings \in SUBSET Names
    BY <1>3, <2>1
  <2> QED BY <2>2, <2>3
<1>5. PICK e : e = Emit(m, a, b)
  OBVIOUS
<1>6. e = [buf |-> b, out |-> o, findings |-> F]
  BY <1>1, <1>4, <1>5 DEF Emit
<1>7. e \in MaskerType /\ e.buf = b /\ e.out = o /\ e.findings = F
  BY <1>6 DEF MaskerType
<1>8. ASSUME ~Straddled(s \o a)
      PROVE  /\ ~Straddled(s)
             /\ Apply(s \o a, Detectors).text = Apply(s, Detectors).text \o Apply(a, Detectors).text
             /\ Apply(s \o a, Detectors).findings = Apply(s, Detectors).findings \cup Apply(a, Detectors).findings
  BY <1>8, ApplyConcat
<1>9. Masked(e, s \o a)
  BY <1>2, <1>4, <1>7, <1>8 DEF Masked
<1> QED BY <1>5, <1>7, <1>9

LEMMA PushMasks ==
  ASSUME NEW m \in MaskerType, NEW s \in Seq(Glyph), Released(s), Masked(m, s), NEW d \in Seq(Glyph)
  PROVE  /\ Push(m, d) \in MaskerType
         /\ \E q \in Seq(Glyph) : /\ Released(q) /\ Masked(Push(m, d), q)
                                  /\ (s \o m.buf) \o d = q \o Push(m, d).buf
<1>1. PICK p \in Seq(Glyph) : p = m.buf
  BY DEF MaskerType
<1>2. PICK w \in Seq(Glyph) : w = p \o d
  BY ConcatProperties
<1>3. PICK a, b \in Seq(Glyph) : /\ w = a \o b /\ Released(a)
                                 /\ a = SubSeq(w, 1, LastSpace(w)) /\ b = SubSeq(w, LastSpace(w) + 1, Len(w))
  BY SplitIs
<1>4. PICK e : e = Emit(m, a, b)
  OBVIOUS
<1>5. Push(m, d) = e
  BY <1>1, <1>2, <1>3, <1>4 DEF Push
<1>6. e \in MaskerType /\ e.buf = b /\ Masked(e, s \o a)
  BY <1>4, EmitMasks
<1>7. s \o a \in Seq(Glyph) /\ Released(s \o a)
  BY <1>3, ReleasedConcat
<1>8. PICK x : x = s \o p
  OBVIOUS
<1>9. PICK y : y = s \o a
  OBVIOUS
<1>10. x \o d = s \o w
  BY <1>2, <1>8, Regroup
<1>11. w = a \o b
  BY <1>3
<1>12. y \o b = s \o w
  BY <1>9, <1>11, Regroup
<1> QED BY <1>1, <1>5, <1>6, <1>7, <1>8, <1>9, <1>10, <1>12

LEMMA NewMasker ==
  /\ NewStreamMasker \in MaskerType /\ Masked(NewStreamMasker, <<>>)
  /\ <<>> \in Seq(Glyph) /\ Released(<<>>) /\ <<>> = <<>> \o NewStreamMasker.buf
<1>1. NewStreamMasker = [buf |-> <<>>, out |-> <<>>, findings |-> {}]
  BY DEF NewStreamMasker
<1>2. <<>> \in Seq(Glyph) /\ {} \in SUBSET Names
  OBVIOUS
<1>3. /\ NewStreamMasker \in MaskerType /\ NewStreamMasker.buf = <<>>
      /\ NewStreamMasker.out = <<>> /\ NewStreamMasker.findings = {}
  BY <1>1, <1>2 DEF MaskerType
<1>4. <<>> \o <<>> = <<>>
  OBVIOUS
<1> QED BY <1>2, <1>3, <1>4, ApplyNothing DEF Masked, Released

\* However the upstream cuts a reply into deltas, and wherever it breaks off, the
\* client gets what masking all of it at once gives and the same findings are
\* reported, for replies of any length and alphabet and for any detectors, if
\* nothing they match in the reply holds a separator (StreamMasker's Push and
\* Close against ApplyResponse).
THEOREM StreamsAsWholeHolds == StreamSpec => []StreamsAsWhole
<1>1. StreamInit => MaskInv
  BY NewMasker DEF StreamInit, MaskInv
<1>2. MaskInv /\ [StreamNext]_stream => MaskInv'
  <2> SUFFICES ASSUME MaskInv, [StreamNext]_stream PROVE MaskInv'
    OBVIOUS
  <2>t. reply \in Seq(Glyph) /\ masker \in MaskerType
    BY DEF MaskInv
  <2>1. ASSUME NEW n \in 1 .. MaxLen, NEW d \in [1 .. n -> Char], Receive(d) PROVE MaskInv'
    <3>1. d \in Seq(Glyph)
      <4>1. n \in Nat /\ d \in [1 .. n -> Glyph]
        BY StreamAssumption DEF Glyph
      <4> QED BY <4>1
    <3>2. open /\ reply' = reply \o d /\ masker' = Push(masker, d) /\ open' = open
      BY <2>1 DEF Receive
    <3>3. PICK s \in Seq(Glyph) : Released(s) /\ reply = s \o masker.buf /\ Masked(masker, s)
      BY <3>2 DEF MaskInv
    <3>4. PICK m \in MaskerType : m = masker
      BY <2>t
    <3>5. PICK e : e = Push(m, d)
      OBVIOUS
    <3>6. /\ e \in MaskerType
          /\ \E q \in Seq(Glyph) : Released(q) /\ Masked(e, q) /\ (s \o m.buf) \o d = q \o e.buf
      <4>1. Masked(m, s)
        BY <3>3, <3>4
      <4> QED BY <3>1, <3>3, <3>5, <4>1, PushMasks
    <3>7. PICK q \in Seq(Glyph) : Released(q) /\ Masked(e, q) /\ (s \o m.buf) \o d = q \o e.buf
      BY <3>6
    <3>8. masker' = e /\ reply' = q \o e.buf
      BY <3>2, <3>3, <3>4, <3>5, <3>7
    <3>9. reply' \in Seq(Glyph)
      BY <2>t, <3>1, <3>2, ConcatProperties
    <3>10. masker' \in MaskerType
      BY <3>6, <3>8
    <3>11. \E z \in Seq(Glyph) : Released(z) /\ reply' = z \o masker'.buf /\ Masked(masker', z)
      BY <3>7, <3>8
    <3> QED BY <3>2, <3>9, <3>10, <3>11 DEF MaskInv, Masked
  <2>2. CASE Returns
    <3>1. open /\ open' = FALSE /\ masker' = Emit(masker, masker.buf, <<>>) /\ reply' = reply
      BY <2>2 DEF Returns, Close
    <3>2. PICK s \in Seq(Glyph) : Released(s) /\ reply = s \o masker.buf /\ Masked(masker, s)
      BY <3>1 DEF MaskInv
    <3>3. PICK m \in MaskerType, p \in Seq(Glyph) : m = masker /\ p = masker.buf
      BY <2>t DEF MaskerType
    <3>4. <<>> \in Seq(Glyph)
      OBVIOUS
    <3>5. PICK e : e = Emit(m, p, <<>>)
      OBVIOUS
    <3>6. e \in MaskerType /\ Masked(e, s \o p)
      <4>1. Masked(m, s)
        BY <3>2, <3>3
      <4> QED BY <3>2, <3>4, <3>5, <4>1, EmitMasks
    <3>7. masker' = e /\ reply' = s \o p
      BY <3>1, <3>2, <3>3, <3>5
    <3>8. masker' \in MaskerType /\ Masked(masker', reply')
      BY <3>6, <3>7
    <3> QED BY <2>t, <3>1, <3>8 DEF MaskInv, Masked
  <2>3. CASE Another
    <3>1. reply' = <<>> /\ masker' = NewStreamMasker /\ open' = TRUE
      BY <2>3 DEF Another
    <3> QED BY <3>1, NewMasker DEF MaskInv, Masked
  <2>4. CASE UNCHANGED stream
    BY <2>4 DEF stream, MaskInv, Masked
  <2> QED BY <2>1, <2>2, <2>3, <2>4 DEF StreamNext
<1>3. MaskInv => StreamsAsWhole
  <2> SUFFICES ASSUME MaskInv, ~open, ~Straddled(reply)
               PROVE  masker.out = AtOnce.text /\ masker.findings = AtOnce.findings
    BY DEF StreamsAsWhole
  <2>1. reply \in Seq(Glyph) /\ masker.out = Apply(reply, Detectors).text
        /\ masker.findings = Apply(reply, Detectors).findings
    BY DEF MaskInv, Masked
  <2> QED BY <2>1, ResponseIs DEF AtOnce
<1> QED BY <1>1, <1>2, <1>3, PTL DEF StreamSpec

-----------------------------------------------------------------------------
(* The decoders: texts and counts of a reply *)

\* A text fragment is named by its message and its place in it.
Place == Nat \X Nat
TextSeq(n, p) == [i \in 1 .. p |-> <<n, i>>]
\* The function that Texts computes with.
TextsUpto(parts) ==
  CHOOSE f : f = [n \in 0 .. Len(parts) |-> IF n = 0 THEN <<>> ELSE f[n - 1] \o TextSeq(n, parts[n])]

LEMMA TextsAsUpto == \A parts : Texts(parts) = TextsUpto(parts)[Len(parts)]
BY DEF Texts, TextsUpto, TextSeq

LEMMA TextSeqType == ASSUME NEW n \in Nat, NEW p \in Nat PROVE TextSeq(n, p) \in Seq(Place)
<1>1. \A i \in 1 .. p : <<n, i>> \in Place
  BY DEF Place
<1> QED BY <1>1 DEF TextSeq

\* The round that adds the texts of the n-th message.
AddTexts(parts) == [x \in Nat \X Seq(Place) |->
                      IF x[1] \in 1 .. Len(parts) THEN x[2] \o TextSeq(x[1], parts[x[1]]) ELSE x[2]]
LEMMA AddTextsType == ASSUME NEW parts \in Seq(Nat)
                      PROVE  AddTexts(parts) \in [Nat \X Seq(Place) -> Seq(Place)]
<1> SUFFICES ASSUME NEW n \in Nat, NEW s \in Seq(Place), n \in 1 .. Len(parts)
             PROVE  s \o TextSeq(n, parts[n]) \in Seq(Place)
  BY DEF AddTexts
<1>1. TextSeq(n, parts[n]) \in Seq(Place)
  BY ElementOfSeq, TextSeqType
<1> QED BY <1>1, ConcatProperties

\* The recursion in Texts is well founded.
LEMMA TextsRounds ==
  ASSUME NEW parts \in Seq(Nat)
  PROVE  TextsUpto(parts) \in Rounds(Seq(Place), <<>>, AddTexts(parts), Len(parts))
<1> DEFINE U(f) == f = [n \in 0 .. Len(parts) |-> IF n = 0 THEN <<>> ELSE f[n - 1] \o TextSeq(n, parts[n])]
<1>l. Len(parts) \in Nat /\ <<>> \in Seq(Place)
  BY LenProperties, EmptySeq
<1>0. Rounds(Seq(Place), <<>>, AddTexts(parts), Len(parts)) # {}
  BY <1>l, AddTextsType, RoundsExist
<1>1. PICK h : h \in Rounds(Seq(Place), <<>>, AddTexts(parts), Len(parts))
  BY <1>0
<1>2. U(h)
  <2>1. h \in [0 .. Len(parts) -> Seq(Place)] /\ h[0] = <<>>
    BY <1>1 DEF Rounds
  <2>2. ASSUME NEW n \in 0 .. Len(parts), n # 0 PROVE h[n] = h[n - 1] \o TextSeq(n, parts[n])
    <3>1. n - 1 \in 0 .. Len(parts) /\ n \in Nat /\ n \in 1 .. Len(parts)
      BY <1>l, <2>2
    <3>2. h[n] = AddTexts(parts)[<<n, h[n - 1]>>]
      BY <1>1, <3>1 DEF Rounds
    <3>3. <<n, h[n - 1]>> \in Nat \X Seq(Place)
      BY <2>1, <3>1
    <3> QED BY <3>1, <3>2, <3>3 DEF AddTexts
  <2> QED BY <2>1, <2>2
<1>3. U(TextsUpto(parts))
  BY <1>2, Zenon DEF TextsUpto
<1>4. PICK f : f = TextsUpto(parts)
  OBVIOUS
<1>5. U(f)
  BY <1>3, <1>4
<1> HIDE DEF U
<1> DEFINE S == {n \in Nat : n <= Len(parts) => f[n] = h[n]}
<1>6. 0 \in S
  BY <1>l, <1>2, <1>5 DEF U
<1>7. ASSUME NEW n \in S PROVE n + 1 \in S
  <2>1. CASE n + 1 <= Len(parts)
    <3>1. n + 1 \in 0 .. Len(parts) /\ n + 1 # 0 /\ (n + 1) - 1 = n /\ f[n] = h[n]
      BY <1>l, <2>1
    <3>2. f[n + 1] = f[n] \o TextSeq(n + 1, parts[n + 1])
      BY <1>5, <3>1 DEF U
    <3>3. h[n + 1] = h[n] \o TextSeq(n + 1, parts[n + 1])
      BY <1>2, <3>1 DEF U
    <3>4. f[n + 1] = h[n + 1]
      BY <3>1, <3>2, <3>3
    <3> QED BY <3>4
  <2>2. CASE ~(n + 1 <= Len(parts))
    BY <2>2
  <2> QED BY <2>1, <2>2
<1>8. \A n \in Nat : n \in S
  BY <1>6, <1>7, NatSet
<1>9. \A n \in 0 .. Len(parts) : f[n] = h[n]
  BY <1>8, <1>l
<1>10. f = h
  <2>1. f = [n \in 0 .. Len(parts) |-> f[n]] /\ h = [n \in 0 .. Len(parts) |-> h[n]]
    BY <1>2, <1>5 DEF U
  <2> QED BY <1>9, <2>1
<1> QED BY <1>1, <1>4, <1>10

\* A further message adds its own texts.
LEMMA TextsAppend ==
  ASSUME NEW parts \in Seq(Nat), NEW p \in Nat
  PROVE  Texts(Append(parts, p)) = Texts(parts) \o TextSeq(Len(parts) + 1, p)
<1>1. PICK more : more = Append(parts, p)
  OBVIOUS
<1>2. /\ more \in Seq(Nat) /\ Len(more) = Len(parts) + 1 /\ Len(parts) \in Nat
      /\ more[Len(parts) + 1] = p /\ \A i \in 1 .. Len(parts) : more[i] = parts[i]
  BY <1>1, AppendProperties, LenProperties
<1>3. PICK f : f = TextsUpto(parts) /\ f \in Rounds(Seq(Place), <<>>, AddTexts(parts), Len(parts))
  BY TextsRounds
<1>4. PICK h : h = TextsUpto(more) /\ h \in Rounds(Seq(Place), <<>>, AddTexts(more), Len(more))
  BY <1>2, TextsRounds
<1>5. f \in Rounds(Seq(Place), <<>>, AddTexts(more), Len(parts))
  <2>1. f \in [0 .. Len(parts) -> Seq(Place)] /\ f[0] = <<>>
    BY <1>3 DEF Rounds
  <2>2. ASSUME NEW i \in 1 .. Len(parts) PROVE f[i] = AddTexts(more)[<<i, f[i - 1]>>]
    <3>1. f[i] = AddTexts(parts)[<<i, f[i - 1]>>]
      BY <1>3 DEF Rounds
    <3>2. i - 1 \in 0 .. Len(parts) /\ i \in Nat /\ i \in 1 .. Len(more)
      BY <1>2
    <3>3. <<i, f[i - 1]>> \in Nat \X Seq(Place)
      BY <2>1, <3>2
    <3> QED BY <1>2, <3>1, <3>2, <3>3 DEF AddTexts
  <2> QED BY <2>1, <2>2 DEF Rounds
<1>6. h[Len(parts)] = f[Len(parts)]
  <2>1. <<>> \in Seq(Place) /\ Len(parts) \in 0 .. Len(parts) /\ Len(parts) <= Len(more)
    BY <1>2, EmptySeq
  <2>2. \A i \in 0 .. Len(parts) : i <= Len(more) => f[i] = h[i]
    BY <1>2, <1>4, <1>5, RoundsUnique
  <2> QED BY <2>1, <2>2
<1>7. h[Len(more)] = h[Len(parts)] \o TextSeq(Len(parts) + 1, p)
  <2>1. Len(more) \in 1 .. Len(more) /\ Len(more) - 1 = Len(parts) /\ Len(parts) \in 0 .. Len(more)
    BY <1>2
  <2>2. h[Len(more)] = AddTexts(more)[<<Len(more), h[Len(parts)]>>]
    BY <1>4, <2>1 DEF Rounds
  <2>3. <<Len(more), h[Len(parts)]>> \in Nat \X Seq(Place)
    BY <1>2, <1>4, <2>1 DEF Rounds
  <2> QED BY <1>2, <2>1, <2>2, <2>3 DEF AddTexts
<1> QED BY <1>1, <1>2, <1>3, <1>4, <1>6, <1>7, TextsAsUpto

LEMMA TextsEmpty == Texts(<<>>) = <<>>
<1>1. <<>> \in Seq(Nat) /\ Len(<<>>) = 0
  BY EmptySeq
<1>2. TextsUpto(<<>>)[0] = <<>>
  BY <1>1, TextsRounds DEF Rounds
<1> QED BY <1>1, <1>2, TextsAsUpto

LEMMA TextsType == ASSUME NEW parts \in Seq(Nat) PROVE Texts(parts) \in Seq(Place)
<1>1. Len(parts) \in Nat /\ Len(parts) \in 0 .. Len(parts)
  BY LenProperties
<1> QED BY <1>1, TextsRounds, TextsAsUpto DEF Rounds

\* Reported counts.
LEMMA LastReportedEmpty == LastReported(<<>>) = 0
<1>1. Len(<<>>) = 0
  BY EmptySeq
<1> QED BY <1>1 DEF LastReported

\* A further message replaces the count if it reports one.
LEMMA LastReportedAppend ==
  ASSUME NEW ns \in Seq(Nat), NEW n \in Nat
  PROVE  LastReported(Append(ns, n)) = IF n > 0 THEN n ELSE LastReported(ns)
<1>1. PICK more : more = Append(ns, n)
  OBVIOUS
<1>2. /\ more \in Seq(Nat) /\ Len(more) = Len(ns) + 1 /\ Len(ns) \in Nat
      /\ more[Len(ns) + 1] = n /\ \A i \in 1 .. Len(ns) : more[i] = ns[i]
  BY <1>1, AppendProperties, LenProperties
<1> DEFINE at == {i \in 1 .. Len(ns) : ns[i] > 0}
           att == {i \in 1 .. Len(more) : more[i] > 0}
<1>3. CASE n > 0
  <2>1. Len(more) \in att /\ \A j \in att : j <= Len(more)
    BY <1>2, <1>3
  <2>2. \A i \in att : (\A j \in att : j <= i) => i = Len(more)
    BY <1>2, <2>1
  <2>3. (CHOOSE i \in att : \A j \in att : j <= i) = Len(more)
    BY <2>1, <2>2
  <2>4. LastReported(more) = more[CHOOSE i \in att : \A j \in att : j <= i]
    BY <2>1 DEF LastReported
  <2> QED BY <1>1, <1>2, <1>3, <2>3, <2>4
<1>4. CASE ~(n > 0)
  <2>1. att = at
    <3>1. 1 .. Len(more) = (1 .. Len(ns)) \cup {Len(ns) + 1}
      BY <1>2
    <3>2. \A i \in 1 .. Len(more) : more[i] > 0 <=> i \in 1 .. Len(ns) /\ ns[i] > 0
      BY <1>2, <1>4, <3>1
    <3> QED BY <3>1, <3>2
  <2>2. CASE at = {}
    BY <1>1, <1>4, <2>1, <2>2 DEF LastReported
  <2>3. CASE at # {}
    <3>1. at \in SUBSET Nat /\ \A i \in at : i <= Len(ns)
      BY <1>2
    <3>2. \E i \in at : \A j \in at : j <= i
      BY <1>2, <2>3, <3>1, GreatestNat
    <3>3. PICK m : m = CHOOSE i \in at : \A j \in at : j <= i
      OBVIOUS
    <3>4. m \in at
      BY <3>2, <3>3, Zenon
    <3>5. LastReported(ns) = ns[m]
      BY <2>3, <3>3 DEF LastReported
    <3>6. LastReported(more) = more[m]
      BY <2>1, <2>3, <3>3 DEF LastReported
    <3> QED BY <1>1, <1>2, <1>4, <3>4, <3>5, <3>6
  <2> QED BY <2>2, <2>3
<1> QED BY <1>3, <1>4

-----------------------------------------------------------------------------
(* The decoders: messages *)

\* The messages that the providers send.
EventName == {"", "message_start", "content_block_delta", "ping", "message_delta"}
Message == [name : EventName, parts : Nat, prompt : Nat, completion : Nat]
PartsOf(w) == [i \in 1 .. Len(w) |-> w[i].parts]
PromptsOf(w) == [i \in 1 .. Len(w) |-> w[i].prompt]
CompletionsOf(w) == [i \in 1 .. Len(w) |-> w[i].completion]
\* What decoding the messages w one by one has given.
Decoded(w) == Texts(PartsOf(w))
Reported(w) == [prompt |-> LastReported(PromptsOf(w)), completion |-> LastReported(CompletionsOf(w))]

LEMMA OpenAIMessages ==
  \A n : MessagesOf("openai", n) = {Msg("", 1, 0, 0), Msg("", 0, n, n), Msg("", 0, 0, 0)}
BY DEF MessagesOf

LEMMA AnthropicMessages ==
  \A n : MessagesOf("anthropic", n) = {Msg("message_start", 0, n, 0), Msg("content_block_delta", 1, 0, 0),
                                       Msg("ping", 0, 0, 0), Msg("message_delta", 0, 0, n)}
BY DEF MessagesOf

LEMMA GeminiMessages ==
  ASSUME NEW n \in Nat, NEW m \in MessagesOf("gemini", n)
  PROVE  \E p \in 0 .. 2, u \in {0, n} : m = Msg("", p, u, u)
<1>1. \A j : MessagesOf("gemini", j) = UNION {{Msg("", p, u, u) : p \in 0 .. 2} : u \in {0, j}}
  BY DEF MessagesOf
<1>2. m \in UNION {{Msg("", p, u, u) : p \in 0 .. 2} : u \in {0, n}}
  BY <1>1, Zenon
<1> QED BY <1>2

LEMMA MessageTypes ==
  ASSUME NEW a \in Adapter, NEW n \in Nat, NEW m \in MessagesOf(a, n) PROVE m \in Message
<1>0. \A name \in EventName, p, u, c \in Nat : Msg(name, p, u, c) \in Message
  BY DEF Msg, Message
<1>1. CASE a = "openai"
  <2>1. m \in {Msg("", 1, 0, 0), Msg("", 0, n, n), Msg("", 0, 0, 0)}
    BY <1>1, OpenAIMessages, Zenon
  <2> QED BY <1>0, <2>1 DEF EventName
<1>2. CASE a = "anthropic"
  <2>1. m \in {Msg("message_start", 0, n, 0), Msg("content_block_delta", 1, 0, 0),
               Msg("ping", 0, 0, 0), Msg("message_delta", 0, 0, n)}
    BY <1>2, AnthropicMessages, Zenon
  <2> QED BY <1>0, <2>1 DEF EventName
<1>3. CASE a = "gemini"
  <2>1. PICK p \in 0 .. 2, u \in {0, n} : m = Msg("", p, u, u)
    BY <1>3, GeminiMessages
  <2>2. p \in Nat
    OBVIOUS
  <2>3. u \in Nat
    OBVIOUS
  <2> QED BY <1>0, <2>1, <2>2, <2>3 DEF EventName
<1> QED BY <1>1, <1>2, <1>3 DEF Adapter

LEMMA MessageIsSomething == \A m \in Message : m # Nothing
<1> SUFFICES ASSUME NEW m \in Message, m = Nothing PROVE FALSE
  OBVIOUS
<1>1. DOMAIN m = {"name", "parts", "prompt", "completion"}
  BY DEF Message
<1>2. DOMAIN m = {"name"}
  BY DEF Nothing
<1> QED BY <1>1, <1>2

LEMMA AppendByElements ==
  ASSUME NEW n \in Nat, NEW p \in [1 .. n -> Nat], NEW q \in [1 .. n + 1 -> Nat],
         \A i \in 1 .. n : q[i] = p[i]
  PROVE  p \in Seq(Nat) /\ Len(p) = n /\ q = Append(p, q[n + 1])
<1>1. p \in Seq(Nat) /\ Len(p) = n
  OBVIOUS
<1>2. q \in Seq(Nat) /\ Len(q) = n + 1 /\ q[n + 1] \in Nat
  OBVIOUS
<1>3. /\ Append(p, q[n + 1]) \in Seq(Nat) /\ Len(Append(p, q[n + 1])) = n + 1
      /\ Append(p, q[n + 1])[n + 1] = q[n + 1]
      /\ \A i \in 1 .. n : Append(p, q[n + 1])[i] = p[i]
  BY <1>1, <1>2, AppendProperties
<1>4. \A i \in 1 .. n + 1 : Append(p, q[n + 1])[i] = q[i]
  BY <1>3
<1> QED BY <1>1, <1>2, <1>3, <1>4, SeqEqual

LEMMA MapsAppend ==
  ASSUME NEW w \in Seq(Message), NEW m \in Message
  PROVE  /\ PartsOf(w) \in Seq(Nat) /\ Len(PartsOf(w)) = Len(w)
         /\ PromptsOf(w) \in Seq(Nat) /\ CompletionsOf(w) \in Seq(Nat)
         /\ PartsOf(Append(w, m)) = Append(PartsOf(w), m.parts)
         /\ PromptsOf(Append(w, m)) = Append(PromptsOf(w), m.prompt)
         /\ CompletionsOf(Append(w, m)) = Append(CompletionsOf(w), m.completion)
<1>1. PICK v \in Seq(Message) : v = Append(w, m)
  BY AppendProperties
<1>2. /\ Len(v) = Len(w) + 1 /\ Len(w) \in Nat
      /\ v[Len(w) + 1] = m /\ \A i \in 1 .. Len(w) : v[i] = w[i] /\ w[i] \in Message
  BY <1>1, AppendProperties, LenProperties, ElementOfSeq
<1>3. \A i \in 1 .. Len(w) + 1 :
        v[i] \in Message /\ v[i].parts \in Nat /\ v[i].prompt \in Nat /\ v[i].completion \in Nat
  BY <1>1, <1>2, ElementOfSeq DEF Message
<1>4. /\ PartsOf(w) \in Seq(Nat) /\ Len(PartsOf(w)) = Len(w)
      /\ PartsOf(v) = Append(PartsOf(w), m.parts)
  <2>1. PartsOf(w) \in [1 .. Len(w) -> Nat] /\ PartsOf(v) \in [1 .. Len(w) + 1 -> Nat]
    BY <1>2, <1>3 DEF PartsOf
  <2>2. /\ \A i \in 1 .. Len(w) : PartsOf(v)[i] = PartsOf(w)[i]
        /\ PartsOf(v)[Len(w) + 1] = m.parts
    BY <1>2 DEF PartsOf
  <2> QED BY <1>2, <2>1, <2>2, AppendByElements
<1>5. /\ PromptsOf(w) \in Seq(Nat) /\ Len(PromptsOf(w)) = Len(w)
      /\ PromptsOf(v) = Append(PromptsOf(w), m.prompt)
  <2>1. PromptsOf(w) \in [1 .. Len(w) -> Nat] /\ PromptsOf(v) \in [1 .. Len(w) + 1 -> Nat]
    BY <1>2, <1>3 DEF PromptsOf
  <2>2. /\ \A i \in 1 .. Len(w) : PromptsOf(v)[i] = PromptsOf(w)[i]
        /\ PromptsOf(v)[Len(w) + 1] = m.prompt
    BY <1>2 DEF PromptsOf
  <2> QED BY <1>2, <2>1, <2>2, AppendByElements
<1>6. /\ CompletionsOf(w) \in Seq(Nat) /\ Len(CompletionsOf(w)) = Len(w)
      /\ CompletionsOf(v) = Append(CompletionsOf(w), m.completion)
  <2>1. CompletionsOf(w) \in [1 .. Len(w) -> Nat] /\ CompletionsOf(v) \in [1 .. Len(w) + 1 -> Nat]
    BY <1>2, <1>3 DEF CompletionsOf
  <2>2. /\ \A i \in 1 .. Len(w) : CompletionsOf(v)[i] = CompletionsOf(w)[i]
        /\ CompletionsOf(v)[Len(w) + 1] = m.completion
    BY <1>2 DEF CompletionsOf
  <2> QED BY <1>2, <2>1, <2>2, AppendByElements
<1> QED BY <1>1, <1>4, <1>5, <1>6

LEMMA DecodedAppend ==
  ASSUME NEW w \in Seq(Message), NEW m \in Message
  PROVE  Decoded(Append(w, m)) = Decoded(w) \o TextSeq(Len(w) + 1, m.parts)
<1>1. m.parts \in Nat
  BY DEF Message
<1> QED BY <1>1, MapsAppend, TextsAppend DEF Decoded

LEMMA ReportedAppend ==
  ASSUME NEW w \in Seq(Message), NEW m \in Message
  PROVE  Reported(Append(w, m)) = [prompt |-> Positive(m.prompt, Reported(w).prompt),
                                   completion |-> Positive(m.completion, Reported(w).completion)]
<1>1. m.prompt \in Nat /\ m.completion \in Nat
  BY DEF Message
<1>2. LastReported(PromptsOf(Append(w, m))) = Positive(m.prompt, LastReported(PromptsOf(w)))
  <2>1. PromptsOf(w) \in Seq(Nat) /\ PromptsOf(Append(w, m)) = Append(PromptsOf(w), m.prompt)
    BY MapsAppend
  <2> QED BY <1>1, <2>1, LastReportedAppend DEF Positive
<1>3. LastReported(CompletionsOf(Append(w, m))) = Positive(m.completion, LastReported(CompletionsOf(w)))
  <2>1. CompletionsOf(w) \in Seq(Nat) /\ CompletionsOf(Append(w, m)) = Append(CompletionsOf(w), m.completion)
    BY MapsAppend
  <2> QED BY <1>1, <2>1, LastReportedAppend DEF Positive
<1> QED BY <1>2, <1>3 DEF Reported

LEMMA NoMessages == Decoded(<<>>) = <<>> /\ Reported(<<>>) = [prompt |-> 0, completion |-> 0]
<1>1. PartsOf(<<>>) = <<>> /\ PromptsOf(<<>>) = <<>> /\ CompletionsOf(<<>>) = <<>>
  BY DEF PartsOf, PromptsOf, CompletionsOf
<1> QED BY <1>1, TextsEmpty, LastReportedEmpty DEF Decoded, Reported

-----------------------------------------------------------------------------
(* The decoders: the inductive invariant *)

\* The data lines that a message may be on: one, or a line cut short before it.
Item(m, n) == [whole |-> TRUE, msg |-> m, n |-> n]
Cut == [whole |-> FALSE]

\* Between messages; a message has begun; all of it has been read and it is not
\* handled yet; the messages h have been handled.
Idle == coming = Nothing /\ data = <<>>
Begun == /\ coming \in MessagesOf(adapter, Len(wire) + 1) /\ event = coming.name
         /\ data = <<>> \/ data = <<Cut>>
Complete(h) ==
  /\ coming \in MessagesOf(adapter, Len(h) + 1) /\ event = coming.name
  /\ wire = Append(h, coming)
  /\ data = <<Item(coming, Len(h) + 1)>> \/ data = <<Cut, Item(coming, Len(h) + 1)>>
Handled(h) == decoded = Decoded(h) /\ usage = Reported(h)

\* Everything that has been read, but for a message read and not yet handled,
\* has been handled; at the end all of it has.
DecodeInv ==
  /\ adapter \in Adapter /\ wire \in Seq(Message) /\ reading \in BOOLEAN
  /\ reading => \/ (Idle \/ Begun) /\ Handled(wire)
                \/ \E h \in Seq(Message) : Complete(h) /\ Handled(h)
  /\ ~reading => Handled(wire)

LEMMA NotParsed == ~Parses(<<>>) /\ ~Parses(<<Cut>>)
<1>1. Cut.whole = FALSE
  BY DEF Cut
<1>2. <<Cut>>[Len(<<Cut>>)] = Cut
  OBVIOUS
<1> QED BY <1>1, <1>2 DEF Parses

LEMMA Parsed ==
  ASSUME NEW d, NEW ds, d.whole, ds = <<d>> \/ ds = <<Cut, d>>
  PROVE  Parses(ds) /\ ds[Len(ds)] = d
<1>1. CASE ds = <<d>>
  <2>1. Len(ds) = 1 /\ ds[1] = d /\ ds # <<>>
    BY <1>1
  <2> QED BY <2>1 DEF Parses
<1>2. CASE ds = <<Cut, d>>
  <2>1. Len(ds) = 2 /\ ds[2] = d /\ ds # <<>>
    BY <1>2
  <2> QED BY <2>1 DEF Parses
<1> QED BY <1>1, <1>2

LEMMA ItemFields == \A m, n : Item(m, n).whole /\ Item(m, n).msg = m /\ Item(m, n).n = n
BY DEF Item

\* What an adapter makes of one message.
LEMMA UsageOfMessage ==
  ASSUME NEW w \in Seq(Message), adapter \in Adapter, NEW m \in MessagesOf(adapter, Len(w) + 1)
  PROVE  UsageAfter(Reported(w), m.name, m) = Reported(Append(w, m))
<1>1. PICK n \in Nat : n = Len(w) + 1 /\ n > 0
  BY LenProperties
<1>m. m \in Message
  BY <1>1, MessageTypes
<1>2. PICK a, b : a = Reported(w).prompt /\ b = Reported(w).completion
  OBVIOUS
<1>3. Reported(w) = [prompt |-> a, completion |-> b]
  BY <1>2 DEF Reported
<1>4. Reported(Append(w, m)) = [prompt |-> Positive(m.prompt, a), completion |-> Positive(m.completion, b)]
  BY <1>m, <1>2, ReportedAppend
<1>5. CASE adapter = "openai"
  <2>1. UsageAfter(Reported(w), m.name, m) = UsageOpenAI(Reported(w), m)
    BY <1>5 DEF UsageAfter
  <2>2. m \in {Msg("", 1, 0, 0), Msg("", 0, n, n), Msg("", 0, 0, 0)}
    BY <1>1, <1>5, OpenAIMessages, Zenon
  <2>3. (m.prompt = 0 /\ m.completion = 0) \/ (m.prompt = n /\ m.completion = n)
    <3>1. CASE m = Msg("", 0, n, n)
      BY <3>1 DEF Msg
    <3>2. CASE m = Msg("", 1, 0, 0)
      BY <3>2 DEF Msg
    <3>3. CASE m = Msg("", 0, 0, 0)
      BY <3>3 DEF Msg
    <3> QED BY <2>2, <3>1, <3>2, <3>3
  <2> QED BY <1>1, <1>3, <1>4, <2>1, <2>3 DEF UsageOpenAI, Positive
<1>6. CASE adapter = "gemini"
  <2>1. UsageAfter(Reported(w), m.name, m) = UsageGemini(Reported(w), m)
    BY <1>6 DEF UsageAfter
  <2> QED BY <1>3, <1>4, <2>1 DEF UsageGemini
<1>7. CASE adapter = "anthropic"
  <2>1. UsageAfter(Reported(w), m.name, m) = UsageAnthropic(Reported(w), m.name, m)
    BY <1>7 DEF UsageAfter
  <2>2. m \in {Msg("message_start", 0, n, 0), Msg("content_block_delta", 1, 0, 0),
               Msg("ping", 0, 0, 0), Msg("message_delta", 0, 0, n)}
    BY <1>1, <1>7, AnthropicMessages, Zenon
  <2>3. CASE m = Msg("message_start", 0, n, 0)
    <3>1. m.name = "message_start" /\ m.prompt = n /\ m.completion = 0
      BY <2>3 DEF Msg
    <3> QED BY <1>1, <1>3, <1>4, <2>1, <3>1 DEF UsageAnthropic, Positive
  <2>4. CASE m = Msg("message_delta", 0, 0, n)
    <3>1. m.name = "message_delta" /\ m.prompt = 0 /\ m.completion = n
      BY <2>4 DEF Msg
    <3> QED BY <1>1, <1>3, <1>4, <2>1, <3>1 DEF UsageAnthropic, Positive
  <2>5. CASE m = Msg("content_block_delta", 1, 0, 0) \/ m = Msg("ping", 0, 0, 0)
    <3>1. m.name \notin {"message_start", "message_delta"} /\ m.prompt = 0 /\ m.completion = 0
      BY <2>5 DEF Msg
    <3> QED BY <1>1, <1>3, <1>4, <2>1, <3>1 DEF UsageAnthropic, Positive
  <2> QED BY <2>2, <2>3, <2>4, <2>5
<1> QED BY <1>5, <1>6, <1>7 DEF Adapter

LEMMA TextOfMessage ==
  ASSUME NEW n \in Nat, adapter \in Adapter, NEW m \in MessagesOf(adapter, n)
  PROVE  TextOf(m.name, Item(m, n)) = TextSeq(n, m.parts)
<1>1. Parts(Item(m, n)) = TextSeq(n, m.parts)
  BY DEF Parts, Item, TextSeq
<1>2. CASE adapter = "anthropic" /\ m.name # "content_block_delta"
  <2>1. m \in {Msg("message_start", 0, n, 0), Msg("content_block_delta", 1, 0, 0),
               Msg("ping", 0, 0, 0), Msg("message_delta", 0, 0, n)}
    BY <1>2, AnthropicMessages, Zenon
  <2>2. m.parts = 0
    BY <1>2, <2>1 DEF Msg
  <2>3. TextSeq(n, 0) = <<>>
    BY DEF TextSeq
  <2> QED BY <1>2, <2>2, <2>3 DEF TextOf
<1>3. CASE ~(adapter = "anthropic" /\ m.name # "content_block_delta")
  BY <1>1, <1>3 DEF TextOf
<1> QED BY <1>2, <1>3

\* Handling a complete message gives what decoding one more message gives.
LEMMA HandleComplete ==
  ASSUME adapter \in Adapter, NEW h \in Seq(Message), Complete(h), Handled(h), Handle, wire' = wire
  PROVE  Handled(wire)'
<1>1. PICK n \in Nat : n = Len(h) + 1
  BY LenProperties
<1>2. PICK m : m = coming /\ m \in MessagesOf(adapter, n) /\ m \in Message
  BY <1>1, MessageTypes DEF Complete
<1>3. PICK d : d = Item(m, n)
  OBVIOUS
<1>4. d.whole /\ d.msg = m /\ (data = <<d>> \/ data = <<Cut, d>>)
  BY <1>1, <1>2, <1>3, ItemFields DEF Complete
<1>5. Parses(data) /\ data[Len(data)] = d
  BY <1>4, Parsed
<1>6. decoded' = decoded \o TextOf(m.name, d) /\ usage' = UsageAfter(usage, m.name, m)
  BY <1>2, <1>4, <1>5 DEF Handle, Complete
<1>7. decoded' = Decoded(Append(h, m))
  BY <1>1, <1>2, <1>3, <1>6, TextOfMessage, DecodedAppend DEF Handled
<1>8. usage' = Reported(Append(h, m))
  BY <1>1, <1>2, <1>6, UsageOfMessage DEF Handled
<1> QED BY <1>2, <1>7, <1>8 DEF Complete, Handled

LEMMA AppendToOne == \A c, d : Append(<<c>>, d) = <<c, d>>
<1> SUFFICES ASSUME NEW c, NEW d PROVE Append(<<c>>, d) = <<c, d>>
  OBVIOUS
<1>1. PICK one : one = <<c>> /\ one \in Seq({c, d}) /\ Len(one) = 1 /\ one[1] = c
  <2>1. <<c>> \in Seq({c, d}) /\ Len(<<c>>) = 1 /\ <<c>>[1] = c
    OBVIOUS
  <2> QED BY <2>1, Zenon
<1>2. PICK two : two = <<c, d>> /\ two \in Seq({c, d}) /\ Len(two) = 2 /\ two[1] = c /\ two[2] = d
  <2>1. <<c, d>> \in Seq({c, d}) /\ Len(<<c, d>>) = 2 /\ <<c, d>>[1] = c /\ <<c, d>>[2] = d
    OBVIOUS
  <2> QED BY <2>1, Zenon
<1>3. /\ Append(one, d) \in Seq({c, d}) /\ Len(Append(one, d)) = 2
      /\ Append(one, d)[1] = c /\ Append(one, d)[2] = d
  BY <1>1, AppendProperties
<1>4. \A i \in 1 .. 2 : Append(one, d)[i] = two[i]
  BY <1>2, <1>3
<1>5. Append(one, d) = two
  BY <1>2, <1>3, <1>4, SeqEqual
<1> QED BY <1>1, <1>2, <1>5, Zenon

LEMMA InitDecodeInv == DecodeInit => DecodeInv
<1> SUFFICES ASSUME DecodeInit PROVE DecodeInv
  OBVIOUS
<1>1. wire \in Seq(Message) /\ Handled(wire)
  BY NoMessages, EmptySeq DEF DecodeInit, Handled
<1> QED BY <1>1 DEF DecodeInit, DecodeInv, Idle

LEMMA NextDecodeInv == DecodeInv /\ [DecodeNext]_decodeVars => DecodeInv'
<1> SUFFICES ASSUME DecodeInv, [DecodeNext]_decodeVars PROVE DecodeInv'
  OBVIOUS
<1>t. adapter \in Adapter /\ wire \in Seq(Message) /\ Len(wire) \in Nat
  BY LenProperties DEF DecodeInv
<1>1. CASE Ignored \/ UNCHANGED decodeVars
  <2>1. /\ adapter' = adapter /\ wire' = wire /\ coming' = coming /\ event' = event /\ data' = data
        /\ decoded' = decoded /\ usage' = usage /\ reading' = reading
    BY <1>1 DEF Ignored, decodeVars
  <2> QED BY <2>1 DEF DecodeInv, Idle, Begun, Complete, Handled
<1>2. CASE EventLine
  <2>1. PICK m \in MessagesOf(adapter, Len(wire) + 1) : coming' = m /\ event' = m.name
    BY <1>2 DEF EventLine
  <2>2. m \in Message
    BY <1>t, MessageTypes
  <2>3. ASSUME NEW h \in Seq(Message), Complete(h) PROVE FALSE
    <3>1. Len(h) + 1 \in Nat
      BY LenProperties
    <3>2. coming \in Message
      BY <1>t, <2>3, <3>1, MessageTypes DEF Complete
    <3> QED BY <1>2, <3>2, MessageIsSomething DEF EventLine
  <2>4. Handled(wire) /\ (data = <<>> \/ data = <<Cut>>)
    BY <1>2, <2>3 DEF DecodeInv, EventLine, Idle, Begun
  <2>5. (Begun /\ Handled(wire))'
    BY <1>2, <2>1, <2>4 DEF EventLine, Begun, Handled
  <2> QED BY <1>2, <1>t, <2>5 DEF EventLine, DecodeInv
<1>3. ASSUME NEW whole \in BOOLEAN, DataLine(whole) PROVE DecodeInv'
  <2>1. Begun /\ Handled(wire)
    <3>1. ASSUME NEW h \in Seq(Message), Complete(h) PROVE FALSE
      <4>1. Parses(data)
        BY <3>1, ItemFields, Parsed DEF Complete
      <4> QED BY <1>3, <4>1 DEF DataLine
    <3> QED BY <1>3, <3>1 DEF DataLine, DecodeInv, Idle
  <2>2. coming \in Message
    BY <1>t, <2>1, MessageTypes DEF Begun
  <2>3. CASE whole
    <3>1. wire' = Append(wire, coming) /\ data' = Append(data, Item(coming, Len(wire) + 1))
      BY <1>3, <2>3 DEF DataLine, Item
    <3>2. PICK h \in Seq(Message) : h = wire
      BY <1>t
    <3>3. PICK d : d = Item(coming, Len(h) + 1)
      OBVIOUS
    <3>4. data' = <<d>> \/ data' = <<Cut, d>>
      <4>1. data' = Append(data, d)
        BY <3>1, <3>2, <3>3
      <4>2. CASE data = <<>>
        BY <4>1, <4>2
      <4>3. CASE data = <<Cut>>
        BY <4>1, <4>3, AppendToOne, Zenon
      <4> QED BY <2>1, <4>2, <4>3 DEF Begun
    <3>5. Complete(h)' /\ Handled(h)'
      BY <1>3, <2>1, <3>1, <3>2, <3>3, <3>4 DEF DataLine, Begun, Complete, Handled
    <3>6. wire' \in Seq(Message)
      BY <1>t, <2>2, <3>1, AppendProperties
    <3> QED BY <1>3, <1>t, <3>5, <3>6 DEF DataLine, DecodeInv
  <2>4. CASE ~whole
    <3>1. wire' = wire /\ data' = Append(data, Cut) /\ data = <<>>
      BY <1>3, <2>4 DEF DataLine, Cut
    <3>2. data' = <<Cut>>
      BY <3>1
    <3>3. (Begun /\ Handled(wire))'
      BY <1>3, <2>1, <3>1, <3>2 DEF DataLine, Begun, Handled
    <3> QED BY <1>3, <1>t, <3>1, <3>3 DEF DataLine, DecodeInv
  <2> QED BY <2>3, <2>4
<1>4. CASE BlankLine
  <2>1. Handled(wire)'
    <3>1. CASE (Idle \/ Begun) /\ Handled(wire)
      <4>1. ~Parses(data)
        BY <3>1, NotParsed DEF Idle, Begun
      <4> QED BY <1>4, <3>1, <4>1 DEF BlankLine, Handle, Handled
    <3>2. ASSUME NEW h \in Seq(Message), Complete(h), Handled(h) PROVE Handled(wire)'
      BY <1>4, <1>t, <3>2, HandleComplete DEF BlankLine
    <3> QED BY <1>4, <3>1, <3>2 DEF BlankLine, DecodeInv
  <2> QED BY <1>4, <1>t, <2>1 DEF BlankLine, DecodeInv, Idle
<1>5. CASE DoneLine
  <2>1. ASSUME NEW h \in Seq(Message), Complete(h) PROVE FALSE
    <3>1. Len(h) + 1 \in Nat
      BY LenProperties
    <3>2. coming \in Message
      BY <1>t, <2>1, <3>1, MessageTypes DEF Complete
    <3> QED BY <1>5, <3>2, MessageIsSomething DEF DoneLine
  <2>2. Handled(wire)'
    BY <1>5, <2>1 DEF DoneLine, DecodeInv, Handled
  <2> QED BY <1>5, <1>t, <2>2 DEF DoneLine, DecodeInv
<1>6. CASE EndOfStream
  <2>1. Handled(wire)'
    <3>1. CASE (Idle \/ Begun) /\ Handled(wire)
      <4>1. ~Parses(data)
        BY <3>1, NotParsed DEF Idle, Begun
      <4> QED BY <1>6, <3>1, <4>1 DEF EndOfStream, Handle, Handled
    <3>2. ASSUME NEW h \in Seq(Message), Complete(h), Handled(h) PROVE Handled(wire)'
      BY <1>6, <1>t, <3>2, HandleComplete DEF EndOfStream
    <3> QED BY <1>6, <3>1, <3>2 DEF EndOfStream, DecodeInv
  <2> QED BY <1>6, <1>t, <2>1 DEF EndOfStream, DecodeInv
<1>7. CASE AnotherStream
  <2>1. wire' \in Seq(Message) /\ Handled(wire)'
    BY <1>7, NoMessages, EmptySeq DEF AnotherStream, Handled
  <2> QED BY <1>7, <2>1 DEF AnotherStream, DecodeInv, Idle
<1> QED BY <1>1, <1>2, <1>3, <1>4, <1>5, <1>6, <1>7 DEF DecodeNext

\* However the reply comes in lines, messages and events, and wherever it breaks
\* off, the decoders of the adapters give the text and the usage that decoding
\* it at once gives, for a reply of any length (DecodeStream against
\* ParseResponse).
THEOREM DecodesAsWholeHolds == DecodeSpec => []DecodesAsWhole
<1>1. DecodeInv => DecodesAsWhole
  BY DEF DecodeInv, Handled, DecodesAsWhole, ParseResponse, Body, Decoded, Reported,
         PartsOf, PromptsOf, CompletionsOf
<1> QED BY <1>1, InitDecodeInv, NextDecodeInv, PTL DEF DecodeSpec

-----------------------------------------------------------------------------
(* The event reader: events on the wire *)

\* What the server sends, as symbols.
EventRecord == [kind : EventKind, noisy : BOOLEAN]
Symbol == (EventKind \cup {"nl", "rest"}) \X Nat

\* The two shapes of an event on the wire, without and with a comment line.
Plain(e, c, n) == /\ Len(e) = 4 /\ e[1] = <<c, n>> /\ e[2] = <<"rest", n>> /\ e[3] = NL /\ e[4] = NL
Noisy(e, c, n) == /\ Len(e) = 7 /\ e[1] = <<"comment", n>> /\ e[2] = <<"rest", n>> /\ e[3] = NL
                  /\ e[4] = <<c, n>> /\ e[5] = <<"rest", n>> /\ e[6] = NL /\ e[7] = NL

LEMMA ConcatTwo ==
  ASSUME NEW S, NEW s \in Seq(S), NEW x \in S, NEW y \in S, NEW r, r = s \o <<x, y>>
  PROVE  /\ r \in Seq(S) /\ Len(r) = Len(s) + 2
         /\ r[Len(s) + 1] = x /\ r[Len(s) + 2] = y
         /\ \A i \in 1 .. Len(s) : r[i] = s[i]
<1>1. PICK t : t = <<x, y>> /\ t \in Seq(S) /\ Len(t) = 2 /\ t[1] = x /\ t[2] = y
  <2>1. <<x, y>> \in Seq(S) /\ Len(<<x, y>>) = 2 /\ <<x, y>>[1] = x /\ <<x, y>>[2] = y
    OBVIOUS
  <2> QED BY <2>1, Zenon
<1>2. /\ s \o t \in Seq(S) /\ Len(s \o t) = Len(s) + 2 /\ Len(s) \in Nat
      /\ \A i \in 1 .. Len(s) + 2 : (s \o t)[i] = IF i <= Len(s) THEN s[i] ELSE t[i - Len(s)]
  BY <1>1, ConcatProperties, LenProperties
<1>3. /\ s \o t \in Seq(S) /\ Len(s \o t) = Len(s) + 2
      /\ (s \o t)[Len(s) + 1] = x /\ (s \o t)[Len(s) + 2] = y
      /\ \A i \in 1 .. Len(s) : (s \o t)[i] = s[i]
  BY <1>1, <1>2
<1>4. r = s \o t
  BY <1>1
<1> QED BY <1>3, <1>4, Zenon

LEMMA EventShape ==
  ASSUME NEW es \in Seq(EventRecord), NEW n \in 1 .. Len(es)
  PROVE  /\ Event(es, n) \in Seq(Symbol) /\ es[n].kind \in EventKind
         /\ Plain(Event(es, n), es[n].kind, n) \/ Noisy(Event(es, n), es[n].kind, n)
<1>1. es[n] \in EventRecord /\ n \in Nat
  BY ElementOfSeq
<1>2. PICK c \in EventKind : c = es[n].kind
  BY <1>1 DEF EventRecord
<1>3. PICK x, y, z, w \in Symbol : x = <<c, n>> /\ y = <<"rest", n>> /\ z = NL /\ w = <<"comment", n>>
  BY <1>1 DEF Symbol, NL, EventKind
<1>a. PICK s : s = <<>> /\ s \in Seq(Symbol) /\ Len(s) = 0
  BY EmptySeq, Zenon
<1>4. CASE es[n].noisy
  <2>0. PICK o, p : o = <<w, y>> /\ p = o \o <<z>>
    OBVIOUS
  <2>1. p \in Seq(Symbol) /\ Len(p) = 3 /\ p[1] = w /\ p[2] = y /\ p[3] = z
    BY <2>0
  <2>2. PICK q : q = p \o <<x, y>>
    OBVIOUS
  <2>3. /\ q \in Seq(Symbol) /\ Len(q) = 5
        /\ q[1] = w /\ q[2] = y /\ q[3] = z /\ q[4] = x /\ q[5] = y
    <3>1. /\ q \in Seq(Symbol) /\ Len(q) = Len(p) + 2
          /\ q[Len(p) + 1] = x /\ q[Len(p) + 2] = y
          /\ \A i \in 1 .. Len(p) : q[i] = p[i]
      <4>1. p \in Seq(Symbol)
        BY <2>1
      <4> QED BY <2>2, <4>1, ConcatTwo
    <3> QED BY <2>1, <3>1
  <2>4. PICK e : e = q \o <<z, z>>
    OBVIOUS
  <2>5. /\ e \in Seq(Symbol) /\ Len(e) = 7
        /\ e[1] = w /\ e[2] = y /\ e[3] = z /\ e[4] = x /\ e[5] = y /\ e[6] = z /\ e[7] = z
    <3>1. /\ e \in Seq(Symbol) /\ Len(e) = Len(q) + 2
          /\ e[Len(q) + 1] = z /\ e[Len(q) + 2] = z
          /\ \A i \in 1 .. Len(q) : e[i] = q[i]
      <4>1. q \in Seq(Symbol)
        BY <2>3
      <4> QED BY <2>4, <4>1, ConcatTwo
    <3> QED BY <2>3, <3>1
  <2>6. Event(es, n) = e
    BY <1>2, <1>3, <1>4, <2>0, <2>2, <2>4 DEF Event, Line
  <2> QED BY <1>2, <1>3, <2>5, <2>6 DEF Noisy
<1>5. CASE ~es[n].noisy
  <2>2. PICK q : q = s \o <<x, y>>
    OBVIOUS
  <2>3. q \in Seq(Symbol) /\ Len(q) = 2 /\ q[1] = x /\ q[2] = y
    BY <1>a, <2>2, ConcatTwo
  <2>4. PICK e : e = q \o <<z, z>>
    OBVIOUS
  <2>5. e \in Seq(Symbol) /\ Len(e) = 4 /\ e[1] = x /\ e[2] = y /\ e[3] = z /\ e[4] = z
    <3>1. /\ e \in Seq(Symbol) /\ Len(e) = Len(q) + 2
          /\ e[Len(q) + 1] = z /\ e[Len(q) + 2] = z
          /\ \A i \in 1 .. Len(q) : e[i] = q[i]
      <4>1. q \in Seq(Symbol)
        BY <2>3
      <4> QED BY <2>4, <4>1, ConcatTwo
    <3> QED BY <2>3, <3>1
  <2>6. Event(es, n) = e
    BY <1>a, <1>2, <1>3, <1>5, <2>2, <2>4 DEF Event, Line
  <2> QED BY <1>2, <1>3, <2>5, <2>6 DEF Plain
<1> QED BY <1>4, <1>5

\* The round that adds the n-th event.
AddEvent(es) == [x \in Nat \X Seq(Symbol) |->
                   IF x[1] \in 1 .. Len(es) THEN x[2] \o Event(es, x[1]) ELSE x[2]]

LEMMA AddEventType ==
  ASSUME NEW es \in Seq(EventRecord) PROVE AddEvent(es) \in [Nat \X Seq(Symbol) -> Seq(Symbol)]
<1> SUFFICES ASSUME NEW n \in Nat, NEW s \in Seq(Symbol), n \in 1 .. Len(es)
             PROVE  s \o Event(es, n) \in Seq(Symbol)
  BY DEF AddEvent
<1>1. Event(es, n) \in Seq(Symbol)
  BY EventShape
<1> QED BY <1>1, ConcatProperties

\* The recursion in Upto is well founded.
LEMMA UptoRounds ==
  ASSUME NEW es \in Seq(EventRecord)
  PROVE  Upto(es) \in Rounds(Seq(Symbol), <<>>, AddEvent(es), Len(es))
<1> DEFINE U(f) == f = [n \in 0 .. Len(es) |-> IF n = 0 THEN <<>> ELSE f[n - 1] \o Event(es, n)]
<1>l. Len(es) \in Nat /\ <<>> \in Seq(Symbol)
  BY LenProperties, EmptySeq
<1>s. ASSUME NEW n \in 1 .. Len(es), NEW s \in Seq(Symbol)
      PROVE  AddEvent(es)[<<n, s>>] = s \o Event(es, n)
  <2>1. n \in Nat /\ <<n, s>> \in Nat \X Seq(Symbol)
    BY <1>l
  <2> QED BY <2>1 DEF AddEvent
<1>0. Rounds(Seq(Symbol), <<>>, AddEvent(es), Len(es)) # {}
  BY <1>l, AddEventType, RoundsExist
<1>1. PICK h : h \in Rounds(Seq(Symbol), <<>>, AddEvent(es), Len(es))
  BY <1>0
<1>2. U(h)
  <2>1. h \in [0 .. Len(es) -> Seq(Symbol)] /\ h[0] = <<>>
    BY <1>1 DEF Rounds
  <2>2. ASSUME NEW n \in 0 .. Len(es), n # 0 PROVE h[n] = h[n - 1] \o Event(es, n)
    <3>1. n \in 1 .. Len(es) /\ n - 1 \in 0 .. Len(es)
      BY <1>l, <2>2
    <3>2. h[n] = AddEvent(es)[<<n, h[n - 1]>>]
      BY <1>1, <3>1 DEF Rounds
    <3> QED BY <1>s, <2>1, <3>1, <3>2
  <2> QED BY <2>1, <2>2
<1>3. Upto(es) = CHOOSE f : U(f)
  BY DEF Upto
<1>4. U(Upto(es))
  BY <1>2, <1>3, Zenon
<1>5. PICK f : f = Upto(es)
  OBVIOUS
<1>6. U(f)
  BY <1>4, <1>5
<1>7. f = [n \in 0 .. Len(es) |-> f[n]] /\ f[0] = <<>>
  BY <1>l, <1>6
<1>8. ASSUME NEW n \in 1 .. Len(es), f[n - 1] \in Seq(Symbol)
      PROVE  f[n] = AddEvent(es)[<<n, f[n - 1]>>]
  <2>1. n \in 0 .. Len(es) /\ n # 0
    BY <1>l
  <2>2. f[n] = f[n - 1] \o Event(es, n)
    BY <1>6, <2>1
  <2> QED BY <1>s, <1>8, <2>2
<1> HIDE DEF U
<1>9. f \in Rounds(Seq(Symbol), <<>>, AddEvent(es), Len(es))
  BY <1>l, <1>7, <1>8, AddEventType, RoundsOf
<1> QED BY <1>5, <1>9

LEMMA UptoStep ==
  ASSUME NEW es \in Seq(EventRecord)
  PROVE  /\ Upto(es) \in [0 .. Len(es) -> Seq(Symbol)] /\ Upto(es)[0] = <<>>
         /\ \A n \in 1 .. Len(es) : Upto(es)[n] = Upto(es)[n - 1] \o Event(es, n)
<1>l. Len(es) \in Nat
  BY LenProperties
<1>1. PICK f : f = Upto(es) /\ f \in Rounds(Seq(Symbol), <<>>, AddEvent(es), Len(es))
  BY UptoRounds
<1>2. f \in [0 .. Len(es) -> Seq(Symbol)] /\ f[0] = <<>>
  BY <1>1 DEF Rounds
<1>3. ASSUME NEW n \in 1 .. Len(es) PROVE f[n] = f[n - 1] \o Event(es, n)
  <2>1. n \in Nat /\ n - 1 \in 0 .. Len(es)
    BY <1>l
  <2>2. <<n, f[n - 1]>> \in Nat \X Seq(Symbol)
    BY <1>2, <2>1
  <2>3. f[n] = AddEvent(es)[<<n, f[n - 1]>>]
    BY <1>1 DEF Rounds
  <2> QED BY <2>2, <2>3 DEF AddEvent
<1> QED BY <1>1, <1>2, <1>3

\* Where the n-th event ends.
End(es, n) == Len(Upto(es)[n])

LEMMA UptoAppends ==
  ASSUME NEW es \in Seq(EventRecord), NEW n \in 1 .. Len(es)
  PROVE  /\ End(es, n - 1) \in Nat /\ End(es, n) \in Nat
         /\ End(es, n) = End(es, n - 1) + Len(Event(es, n)) /\ Len(Event(es, n)) \in {4, 7}
         /\ \A i \in 1 .. End(es, n - 1) : Upto(es)[n][i] = Upto(es)[n - 1][i]
         /\ \A i \in 1 .. Len(Event(es, n)) : Upto(es)[n][End(es, n - 1) + i] = Event(es, n)[i]
<1>l. Len(es) \in Nat /\ n - 1 \in 0 .. Len(es)
  BY LenProperties
<1>1. PICK f : f = Upto(es)
  OBVIOUS
<1>2. f[n - 1] \in Seq(Symbol) /\ f[n] = f[n - 1] \o Event(es, n)
  BY <1>l, <1>1, UptoStep
<1>3. PICK s, e, t : s = f[n - 1] /\ e = Event(es, n) /\ t = f[n]
  OBVIOUS
<1>4. s \in Seq(Symbol) /\ e \in Seq(Symbol) /\ t = s \o e /\ Len(s) \in Nat /\ Len(e) \in {4, 7}
  <2>1. e \in Seq(Symbol) /\ Len(e) \in {4, 7}
    BY <1>3, EventShape DEF Plain, Noisy
  <2>2. s \in Seq(Symbol) /\ t = s \o e
    BY <1>2, <1>3
  <2> QED BY <2>1, <2>2, LenProperties
<1>5. /\ Len(t) = Len(s) + Len(e)
      /\ \A i \in 1 .. Len(s) + Len(e) : t[i] = IF i <= Len(s) THEN s[i] ELSE e[i - Len(s)]
  <2>1. s \in Seq(Symbol) /\ e \in Seq(Symbol) /\ t = s \o e
    BY <1>4
  <2> QED BY <2>1, ConcatProperties
<1>6. /\ \A i \in 1 .. Len(s) : t[i] = s[i]
      /\ \A i \in 1 .. Len(e) : t[Len(s) + i] = e[i]
  BY <1>4, <1>5
<1>7. Len(t) \in Nat
  BY <1>4, <1>5
<1> QED BY <1>1, <1>3, <1>4, <1>5, <1>6, <1>7 DEF End

\* What the first events are on the wire begins what more events are.
LEMMA UptoPrefix ==
  ASSUME NEW es \in Seq(EventRecord), NEW h \in 0 .. Len(es), NEW n \in 0 .. Len(es), h <= n
  PROVE  /\ End(es, h) \in Nat /\ End(es, h) <= End(es, n)
         /\ \A i \in 1 .. End(es, h) : Upto(es)[n][i] = Upto(es)[h][i]
<1>l. Len(es) \in Nat
  BY LenProperties
<1>e. \A j \in 0 .. Len(es) : End(es, j) \in Nat
  BY UptoStep, LenProperties DEF End
<1> DEFINE S == {d \in Nat : h + d <= Len(es) =>
                   /\ End(es, h) <= End(es, h + d)
                   /\ \A i \in 1 .. End(es, h) : Upto(es)[h + d][i] = Upto(es)[h][i]}
<1>1. 0 \in S
  BY <1>e
<1>2. ASSUME NEW d \in S PROVE d + 1 \in S
  <2>1. CASE h + d + 1 <= Len(es)
    <3>1. PICK m \in 1 .. Len(es) : m = h + d + 1 /\ m - 1 = h + d /\ m = h + (d + 1)
      BY <1>l, <2>1
    <3>2. /\ End(es, h) <= End(es, m - 1)
          /\ \A i \in 1 .. End(es, h) : Upto(es)[m - 1][i] = Upto(es)[h][i]
      BY <1>l, <2>1, <3>1
    <3>3. /\ End(es, m - 1) \in Nat /\ End(es, m) = End(es, m - 1) + Len(Event(es, m))
          /\ Len(Event(es, m)) \in {4, 7}
          /\ \A i \in 1 .. End(es, m - 1) : Upto(es)[m][i] = Upto(es)[m - 1][i]
      BY UptoAppends
    <3>4. End(es, h) <= End(es, m) /\ \A i \in 1 .. End(es, h) : Upto(es)[m][i] = Upto(es)[h][i]
      BY <1>e, <3>2, <3>3
    <3> QED BY <3>1, <3>4
  <2>2. CASE ~(h + d + 1 <= Len(es))
    BY <2>2
  <2> QED BY <2>1, <2>2
<1>3. \A d \in Nat : d \in S
  BY <1>1, <1>2, NatSet
<1>4. n - h \in Nat /\ h + (n - h) = n
  OBVIOUS
<1> QED BY <1>e, <1>3, <1>4

LEMMA NotNewline == \A c \in EventKind \cup {"rest"}, n \in Nat : <<c, n>> # NL
BY DEF NL, EventKind

\* The only blank line in an event is its end.
LEMMA EventBreak ==
  ASSUME NEW es \in Seq(EventRecord), NEW n \in 1 .. Len(es)
  PROVE  \A i \in 1 .. Len(Event(es, n)) - 1 :
           Event(es, n)[i] = NL /\ Event(es, n)[i + 1] = NL <=> i = Len(Event(es, n)) - 1
<1>1. PICK e : e = Event(es, n)
  OBVIOUS
<1>2. PICK c \in EventKind : Plain(e, c, n) \/ Noisy(e, c, n)
  BY <1>1, EventShape
<1>3. <<c, n>> # NL /\ <<"rest", n>> # NL /\ <<"comment", n>> # NL
  <2>1. n \in Nat
    OBVIOUS
  <2> QED BY <2>1, NotNewline DEF EventKind
<1>4. \A i \in 1 .. Len(e) - 1 : e[i] = NL /\ e[i + 1] = NL <=> i = Len(e) - 1
  <2>1. CASE Plain(e, c, n)
    <3>1. Len(e) = 4 /\ e[1] # NL /\ e[2] # NL /\ e[3] = NL /\ e[4] = NL
      BY <1>3, <2>1 DEF Plain
    <3>2. \A i \in 1 .. 3 : i = 1 \/ i = 2 \/ i = 3
      OBVIOUS
    <3> QED BY <3>1, <3>2
  <2>2. CASE Noisy(e, c, n)
    <3>1. /\ Len(e) = 7 /\ e[1] # NL /\ e[2] # NL /\ e[4] # NL /\ e[5] # NL
          /\ e[6] = NL /\ e[7] = NL
      BY <1>3, <2>2 DEF Noisy
    <3>2. \A i \in 1 .. 6 : i = 1 \/ i = 2 \/ i = 3 \/ i = 4 \/ i = 5 \/ i = 6
      OBVIOUS
    <3> QED BY <3>1, <3>2
  <2> QED BY <1>2, <2>1, <2>2
<1> QED BY <1>1, <1>4

-----------------------------------------------------------------------------
(* The event reader: what the buffer holds *)

\* What has arrived behind the first h events when a symbols have.
Pending(es, h, a) == SubSeq(Upto(es)[Len(es)], End(es, h) + 1, a)

LEMMA PendingShape ==
  ASSUME NEW es \in Seq(EventRecord), NEW h \in 0 .. Len(es), NEW a \in Nat,
         End(es, h) <= a, a <= End(es, Len(es))
  PROVE  /\ Pending(es, h, a) \in Seq(Symbol) /\ Len(Pending(es, h, a)) = a - End(es, h)
         /\ \A i \in 1 .. a - End(es, h) : Pending(es, h, a)[i] = Upto(es)[Len(es)][End(es, h) + i]
<1>1. PICK s \in Seq(Symbol) : s = Upto(es)[Len(es)]
  BY UptoStep, LenProperties
<1>2. Len(s) = End(es, Len(es)) /\ Len(s) \in Nat
  BY <1>1, LenProperties DEF End
<1>3. PICK b \in Nat : b = End(es, h)
  BY UptoPrefix, LenProperties
<1>4. \A i \in b + 1 .. a : s[i] \in Symbol
  BY <1>2, <1>3, ElementOfSeq
<1>5. /\ SubSeq(s, b + 1, a) \in Seq(Symbol)
      /\ Len(SubSeq(s, b + 1, a)) = IF b + 1 <= a THEN a - (b + 1) + 1 ELSE 0
      /\ \A i \in 1 .. a - (b + 1) + 1 : SubSeq(s, b + 1, a)[i] = s[(b + 1) + i - 1]
  <2>1. b + 1 \in Int /\ a \in Int
    OBVIOUS
  <2> QED BY <1>4, <2>1, SubSeqProperties
<1>6. PICK p : p = SubSeq(s, b + 1, a)
  OBVIOUS
<1>7. p \in Seq(Symbol) /\ Len(p) = a - b /\ \A i \in 1 .. a - b : p[i] = s[b + i]
  <2>1. a - (b + 1) + 1 = a - b /\ b <= a
    BY <1>3
  <2>2. p \in Seq(Symbol) /\ Len(p) = a - b
    BY <1>5, <1>6, <2>1
  <2>3. ASSUME NEW i \in 1 .. a - b PROVE p[i] = s[b + i]
    <3>1. p[i] = s[(b + 1) + i - 1]
      BY <1>5, <1>6, <2>1
    <3>2. (b + 1) + i - 1 = b + i
      OBVIOUS
    <3> QED BY <3>1, <3>2
  <2> QED BY <2>2, <2>3
<1> QED BY <1>1, <1>3, <1>6, <1>7 DEF Pending

\* The buffer begins with the next event, as far as it has arrived.
LEMMA PendingBegins ==
  ASSUME NEW es \in Seq(EventRecord), NEW n \in 1 .. Len(es), NEW a \in Nat,
         End(es, n - 1) <= a, a <= End(es, Len(es))
  PROVE  \A i \in 1 .. Len(Event(es, n)) : i <= a - End(es, n - 1) => Pending(es, n - 1, a)[i] = Event(es, n)[i]
<1>1. n - 1 \in 0 .. Len(es) /\ n \in 0 .. Len(es) /\ Len(es) \in 0 .. Len(es) /\ n <= Len(es)
  BY LenProperties
<1>2. /\ End(es, n - 1) \in Nat /\ End(es, n) = End(es, n - 1) + Len(Event(es, n))
      /\ Len(Event(es, n)) \in {4, 7}
      /\ \A i \in 1 .. Len(Event(es, n)) : Upto(es)[n][End(es, n - 1) + i] = Event(es, n)[i]
  BY UptoAppends
<1>3. \A i \in 1 .. End(es, n) : Upto(es)[Len(es)][i] = Upto(es)[n][i]
  BY <1>1, UptoPrefix
<1>4. \A i \in 1 .. a - End(es, n - 1) : Pending(es, n - 1, a)[i] = Upto(es)[Len(es)][End(es, n - 1) + i]
  BY <1>1, PendingShape
<1> SUFFICES ASSUME NEW i \in 1 .. Len(Event(es, n)), i <= a - End(es, n - 1)
             PROVE  Pending(es, n - 1, a)[i] = Event(es, n)[i]
  OBVIOUS
<1>5. i \in 1 .. a - End(es, n - 1) /\ End(es, n - 1) + i \in 1 .. End(es, n)
  BY <1>2
<1> QED BY <1>2, <1>3, <1>4, <1>5

\* No break is found before the next event is complete, ...
LEMMA NoBreak ==
  ASSUME NEW es \in Seq(EventRecord), NEW h \in 0 .. Len(es), NEW a \in Nat,
         End(es, h) <= a, a <= End(es, Len(es)), h < Len(es) => a < End(es, h + 1),
         buffer = Pending(es, h, a)
  PROVE  Breaks = {}
<1>l. Len(es) \in Nat
  BY LenProperties
<1>1. PICK b \in Seq(Symbol) : b = buffer /\ Len(b) = a - End(es, h) /\ End(es, h) \in Nat
  BY PendingShape, UptoPrefix, <1>l
<1>2. CASE h = Len(es)
  BY <1>1, <1>2 DEF Breaks
<1>3. CASE h < Len(es)
  <2>1. PICK n \in 1 .. Len(es) : n = h + 1 /\ h = n - 1
    BY <1>l, <1>3
  <2>2. End(es, n) = End(es, h) + Len(Event(es, n)) /\ Len(Event(es, n)) \in {4, 7}
    BY <2>1, UptoAppends
  <2>3. Len(b) < Len(Event(es, n)) /\ Len(b) \in Nat
    BY <1>1, <1>3, <2>1, <2>2
  <2>4. \A i \in 1 .. Len(b) : b[i] = Event(es, n)[i]
    <3>1. \A i \in 1 .. Len(Event(es, n)) :
            i <= a - End(es, h) => Pending(es, h, a)[i] = Event(es, n)[i]
      BY <2>1, PendingBegins
    <3> QED BY <1>1, <2>2, <2>3, <3>1
  <2>5. \A i \in 1 .. Len(b) - 1 : ~(b[i] = NL /\ b[i + 1] = NL)
    <3> TAKE i \in 1 .. Len(b) - 1
    <3>1. /\ i \in 1 .. Len(Event(es, n)) - 1 /\ i # Len(Event(es, n)) - 1
          /\ i \in 1 .. Len(b) /\ i + 1 \in 1 .. Len(b)
      BY <2>2, <2>3
    <3> QED BY <2>4, <3>1, EventBreak
  <2> QED BY <1>1, <2>5 DEF Breaks
<1> QED BY <1>2, <1>3, <1>l

\* ... and then the first break is its end, however the chunks were cut.
LEMMA HasBreak ==
  ASSUME NEW es \in Seq(EventRecord), NEW n \in 1 .. Len(es), NEW a \in Nat,
         End(es, n) <= a, a <= End(es, Len(es)), buffer = Pending(es, n - 1, a)
  PROVE  Breaks # {} /\ FirstBreak = Len(Event(es, n)) - 1
<1>l. Len(es) \in Nat /\ n - 1 \in 0 .. Len(es)
  BY LenProperties
<1>2. /\ End(es, n) = End(es, n - 1) + Len(Event(es, n)) /\ Len(Event(es, n)) \in {4, 7}
      /\ End(es, n - 1) \in Nat
  BY UptoAppends
<1>e. End(es, n - 1) <= a
  BY <1>2
<1>1. PICK b \in Seq(Symbol) : b = buffer /\ Len(b) = a - End(es, n - 1)
  <2>1. buffer \in Seq(Symbol) /\ Len(buffer) = a - End(es, n - 1)
    BY PendingShape, <1>l, <1>e
  <2> QED BY <2>1
<1>3. Len(b) >= Len(Event(es, n)) /\ Len(b) \in Nat
  BY <1>1, <1>2
<1>4. \A i \in 1 .. Len(Event(es, n)) : b[i] = Event(es, n)[i]
  <2>1. \A i \in 1 .. Len(Event(es, n)) : i <= a - End(es, n - 1) => buffer[i] = Event(es, n)[i]
    BY <1>e, PendingBegins
  <2>2. \A i \in 1 .. Len(Event(es, n)) : i <= a - End(es, n - 1)
    BY <1>1, <1>2, <1>3
  <2> QED BY <1>1, <2>1, <2>2
<1>p. PICK x : x = Len(Event(es, n)) - 1
  OBVIOUS
<1>5. x \in Nat /\ x = Len(Event(es, n)) - 1
  BY <1>2, <1>p
<1>6. \A i \in 1 .. x : b[i] = NL /\ b[i + 1] = NL <=> i = x
  <2> TAKE i \in 1 .. x
  <2>1. i \in 1 .. Len(Event(es, n)) - 1 /\ i \in 1 .. Len(Event(es, n)) /\ i + 1 \in 1 .. Len(Event(es, n))
    BY <1>2, <1>5
  <2> QED BY <1>4, <1>5, <2>1, EventBreak
<1>7. x \in Breaks /\ \A j \in Breaks : x <= j
  <2>1. x \in 1 .. Len(b) - 1 /\ x \in 1 .. x
    BY <1>2, <1>3, <1>5
  <2>2. x \in Breaks
    BY <1>1, <1>6, <2>1 DEF Breaks
  <2>3. ASSUME NEW j \in Breaks PROVE x <= j
    <3>1. j \in Nat /\ j >= 1 /\ b[j] = NL /\ b[j + 1] = NL
      BY <1>1, <1>3 DEF Breaks
    <3>2. j \in 1 .. x => j = x
      BY <1>6, <3>1
    <3> QED BY <1>5, <3>1, <3>2
  <2> QED BY <2>2, <2>3
<1>8. \A i \in Breaks : (\A j \in Breaks : i <= j) => i = x
  BY <1>3, <1>7, <1>1 DEF Breaks
<1> QED BY <1>5, <1>7, <1>8 DEF FirstBreak

\* The line that an event's data is on.
LineOf(es, n) == IF es[n].kind = "comment" THEN <<"none", 0>> ELSE <<es[n].kind, n>>

\* The data that is read off a complete event is its own.
LEMMA DataOfEvent ==
  ASSUME NEW es \in Seq(EventRecord), NEW n \in 1 .. Len(es), NEW evt \in Seq(Symbol),
         Len(evt) = Len(Event(es, n)) - 2, \A i \in 1 .. Len(evt) : evt[i] = Event(es, n)[i]
  PROVE  DataOf(evt) = LineOf(es, n)
<1>1. PICK e : e = Event(es, n)
  OBVIOUS
<1>2. PICK c \in EventKind : c = es[n].kind /\ (Plain(e, c, n) \/ Noisy(e, c, n))
  BY <1>1, EventShape
<1> DEFINE at == {i \in 1 .. Len(evt) : evt[i][1] \in EventKind \ {"comment"}}
<1>3. DataOf(evt) = IF at = {} THEN <<"none", 0>> ELSE evt[CHOOSE i \in at : \A j \in at : i <= j]
  BY DEF DataOf
<1>4. \E x \in 1 .. Len(evt) : /\ evt[x] = <<c, n>>
                               /\ \A i \in 1 .. Len(evt) : i # x => evt[i][1] \in {"rest", "nl", "comment"}
  <2>1. CASE Plain(e, c, n)
    <3>1. Len(evt) = 2 /\ evt[1] = <<c, n>> /\ evt[2] = <<"rest", n>>
      BY <1>1, <2>1 DEF Plain
    <3>2. \A i \in 1 .. 2 : i = 1 \/ i = 2
      OBVIOUS
    <3>0. 1 \in 1 .. 2
      OBVIOUS
    <3>3. Len(evt) = 2 /\ 1 \in 1 .. 2
      BY <3>0, <3>1, Zenon
    <3>6. evt[2][1] = "rest"
      BY <3>1
    <3>4. 1 \in 1 .. Len(evt)
      BY <3>3, Zenon
    <3>5. \A i \in 1 .. Len(evt) : i # 1 => evt[i][1] \in {"rest", "nl", "comment"}
      BY <3>2, <3>3, <3>6
    <3> QED BY <3>1, <3>4, <3>5
  <2>2. CASE Noisy(e, c, n)
    <3>1. /\ Len(evt) = 5 /\ evt[1] = <<"comment", n>> /\ evt[2] = <<"rest", n>> /\ evt[3] = NL
          /\ evt[4] = <<c, n>> /\ evt[5] = <<"rest", n>>
      BY <1>1, <2>2 DEF Noisy
    <3>2. \A i \in 1 .. 5 : i = 1 \/ i = 2 \/ i = 3 \/ i = 4 \/ i = 5
      OBVIOUS
    <3>3. evt[1][1] = "comment" /\ evt[2][1] = "rest" /\ evt[3][1] = "nl" /\ evt[5][1] = "rest"
      BY <3>1 DEF NL
    <3>4. 4 \in 1 .. Len(evt)
      <4>1. Len(evt) = 5
        BY <3>1, Zenon
      <4>2. 4 \in 1 .. 5
        OBVIOUS
      <4> QED BY <4>1, <4>2, Zenon
    <3>5. \A i \in 1 .. Len(evt) : i # 4 => evt[i][1] \in {"rest", "nl", "comment"}
      BY <3>1, <3>2, <3>3
    <3> QED BY <3>1, <3>4, <3>5
  <2> QED BY <1>2, <2>1, <2>2
<1>5. PICK x \in 1 .. Len(evt) : /\ evt[x] = <<c, n>>
                               /\ \A i \in 1 .. Len(evt) : i # x => evt[i][1] \in {"rest", "nl", "comment"}
  BY <1>4
<1>6. \A i \in 1 .. Len(evt) : i # x => evt[i][1] \notin EventKind \ {"comment"}
  BY <1>5 DEF EventKind
<1>7. evt[x][1] = c
  BY <1>5
<1>8. CASE c = "comment"
  <2>1. at = {}
    BY <1>6, <1>7, <1>8
  <2> QED BY <1>2, <1>3, <1>8, <2>1 DEF LineOf
<1>9. CASE c # "comment"
  <2>1. at = {x}
    BY <1>6, <1>7, <1>9
  <2>2. (CHOOSE i \in at : \A j \in at : i <= j) = x
    <3>1. x <= x
      BY LenProperties
    <3> QED BY <2>1, <3>1
  <2> QED BY <1>2, <1>3, <1>5, <1>9, <2>1, <2>2 DEF LineOf
<1> QED BY <1>8, <1>9

\* Cutting the event off the buffer leaves what has arrived behind it.
LEMMA AfterEvent ==
  ASSUME NEW es \in Seq(EventRecord), NEW n \in 1 .. Len(es), NEW a \in Nat,
         End(es, n) <= a, a <= End(es, Len(es))
  PROVE  LET b == Pending(es, n - 1, a)
             i == Len(Event(es, n)) - 1
         IN /\ DataOf(SubSeq(b, 1, i - 1)) = LineOf(es, n)
            /\ SubSeq(b, i + 2, Len(b)) = Pending(es, n, a)
<1>l. Len(es) \in Nat /\ n - 1 \in 0 .. Len(es) /\ n \in 0 .. Len(es)
  BY LenProperties
<1>1. /\ End(es, n) = End(es, n - 1) + Len(Event(es, n)) /\ Len(Event(es, n)) \in {4, 7}
      /\ End(es, n - 1) \in Nat /\ End(es, n) \in Nat
  BY UptoAppends
<1>p. Len(Event(es, n)) \in Nat /\ Len(Event(es, n)) >= 4 /\ End(es, n - 1) <= a
  <2>1. \A l, e \in Nat : l \in {4, 7} /\ e + l <= a => l >= 4 /\ e <= a
    OBVIOUS
  <2>2. \A l \in {4, 7} : l \in Nat
    OBVIOUS
  <2> QED BY <1>1, <2>1, <2>2
<1>2. PICK l \in Nat : l = Len(Event(es, n)) /\ l >= 4 /\ End(es, n - 1) <= a
  BY <1>p
<1>3. PICK b \in Seq(Symbol) : b = Pending(es, n - 1, a)
  BY PendingShape, <1>l, <1>2
<1>4. Len(b) \in Nat /\ Len(b) = a - End(es, n - 1) /\ Len(b) >= l
  <2>1. Len(b) = a - End(es, n - 1)
    BY <1>2, <1>3, <1>l, PendingShape
  <2> QED BY <1>1, <1>2, <2>1
<1>5. PICK t : t = SubSeq(b, 1, l - 2)
  OBVIOUS
<1>6. t \in Seq(Symbol) /\ Len(t) = l - 2 /\ \A i \in 1 .. l - 2 : t[i] = b[i]
  <2>1. \A i \in 1 .. l - 2 : b[i] \in Symbol
    BY <1>4, ElementOfSeq
  <2>2. /\ t \in Seq(Symbol) /\ Len(t) = IF 1 <= l - 2 THEN (l - 2) - 1 + 1 ELSE 0
        /\ \A i \in 1 .. (l - 2) - 1 + 1 : t[i] = b[1 + i - 1]
    BY <1>5, <2>1, SubSeqProperties
  <2>3. (l - 2) - 1 + 1 = l - 2 /\ 1 <= l - 2 /\ \A i \in Nat : 1 + i - 1 = i
    BY <1>2
  <2> QED BY <2>2, <2>3
<1>7. \A i \in 1 .. l - 2 : t[i] = Event(es, n)[i]
  <2>1. \A i \in 1 .. Len(Event(es, n)) : i <= a - End(es, n - 1) => b[i] = Event(es, n)[i]
    BY <1>2, <1>3, PendingBegins
  <2> QED BY <1>2, <1>4, <1>6, <2>1
<1>8. DataOf(t) = LineOf(es, n)
  BY <1>2, <1>6, <1>7, DataOfEvent
<1>9. PICK u \in Seq(Symbol) : u = Pending(es, n, a) /\ Len(u) = a - End(es, n)
  BY <1>l, <1>1, PendingShape
<1>10. PICK v : v = SubSeq(b, l + 1, Len(b))
  OBVIOUS
<1>11. /\ v \in Seq(Symbol) /\ Len(v) = Len(b) - l
       /\ \A i \in 1 .. Len(b) - l : v[i] = b[l + i]
  <2>1. \A i \in l + 1 .. Len(b) : b[i] \in Symbol
    BY <1>4, ElementOfSeq
  <2>2. /\ v \in Seq(Symbol) /\ Len(v) = IF l + 1 <= Len(b) THEN Len(b) - (l + 1) + 1 ELSE 0
        /\ \A i \in 1 .. Len(b) - (l + 1) + 1 : v[i] = b[(l + 1) + i - 1]
    <3>1. l + 1 \in Int /\ Len(b) \in Int
      BY <1>2, <1>4
    <3> QED BY <1>10, <2>1, <3>1, SubSeqProperties
  <2>3. Len(b) - (l + 1) + 1 = Len(b) - l
    BY <1>4
  <2>4. v \in Seq(Symbol) /\ Len(v) = Len(b) - l
    BY <1>4, <2>2, <2>3
  <2>5. ASSUME NEW i \in 1 .. Len(b) - l PROVE v[i] = b[l + i]
    <3>1. v[i] = b[(l + 1) + i - 1]
      BY <2>2, <2>3
    <3>2. (l + 1) + i - 1 = l + i
      BY <1>4
    <3> QED BY <3>1, <3>2
  <2> QED BY <2>4, <2>5
<1>12. v = u
  <2>1. Len(v) = Len(u)
    BY <1>1, <1>2, <1>4, <1>9, <1>11
  <2>2. ASSUME NEW i \in 1 .. Len(v) PROVE v[i] = u[i]
    <3>1. v[i] = b[l + i] /\ l + i \in 1 .. a - End(es, n - 1) /\ i \in 1 .. a - End(es, n)
      <4>1. i \in 1 .. Len(b) - l /\ i \in Nat
        BY <1>2, <1>4, <1>11
      <4>2. v[i] = b[l + i]
        BY <1>11, <4>1
      <4>3. l + i \in 1 .. a - End(es, n - 1)
        BY <1>2, <1>4, <4>1
      <4>4. a - End(es, n) = Len(b) - l
        BY <1>1, <1>2, <1>4
      <4> QED BY <4>1, <4>2, <4>3, <4>4
    <3>2. b[l + i] = Upto(es)[Len(es)][End(es, n - 1) + (l + i)]
      BY <1>l, <1>2, <1>3, <3>1, PendingShape
    <3>3. u[i] = Upto(es)[Len(es)][End(es, n) + i]
      BY <1>l, <1>1, <1>9, <3>1, PendingShape
    <3>4. End(es, n - 1) + (l + i) = End(es, n) + i
      BY <1>1, <1>2, <1>4, <1>11
    <3> QED BY <3>1, <3>2, <3>3, <3>4
  <2> QED BY <1>11, <2>1, <2>2, SeqEqual
<1>13. (l - 1) - 1 = l - 2 /\ (l - 1) + 2 = l + 1
  OBVIOUS
<1> QED BY <1>2, <1>3, <1>5, <1>8, <1>9, <1>10, <1>12, <1>13

-----------------------------------------------------------------------------
(* The event reader: the handed and the inductive invariant *)

\* The handed that the first events of es give, if W are the ones that count.
AddCall(es, W) == [x \in Nat \X Seq(Symbol) |->
                     IF x[1] \in W /\ x[1] \in 1 .. Len(es) /\ es[x[1]].kind \in {"delta", "error"}
                       THEN Append(x[2], <<es[x[1]].kind, x[1]>>) ELSE x[2]]

LEMMA CallIsSymbol ==
  ASSUME NEW es \in Seq(EventRecord), NEW n \in 1 .. Len(es) PROVE <<es[n].kind, n>> \in Symbol
<1>1. es[n] \in EventRecord /\ n \in Nat
  BY ElementOfSeq
<1> QED BY <1>1 DEF EventRecord, Symbol

LEMMA AddCallType ==
  ASSUME NEW es \in Seq(EventRecord), NEW W PROVE AddCall(es, W) \in [Nat \X Seq(Symbol) -> Seq(Symbol)]
<1> SUFFICES ASSUME NEW n \in Nat, NEW s \in Seq(Symbol), n \in 1 .. Len(es)
             PROVE  Append(s, <<es[n].kind, n>>) \in Seq(Symbol)
  BY DEF AddCall
<1>1. <<es[n].kind, n>> \in Symbol
  BY CallIsSymbol
<1> QED BY <1>1, AppendProperties

LEMMA AddCallIs ==
  ASSUME NEW es \in Seq(EventRecord), NEW W, NEW n \in 1 .. Len(es), NEW s \in Seq(Symbol)
  PROVE  AddCall(es, W)[<<n, s>>] = IF n \in W /\ es[n].kind \in {"delta", "error"}
                                      THEN Append(s, <<es[n].kind, n>>) ELSE s
<1>1. n \in Nat /\ <<n, s>> \in Nat \X Seq(Symbol)
  BY LenProperties
<1> QED BY <1>1 DEF AddCall

\* The callbacks of the first n events, if all of them arrive.
Calls(es) == CHOOSE f : f \in Rounds(Seq(Symbol), <<>>, AddCall(es, 1 .. Len(es)), Len(es))

LEMMA CallsStep ==
  ASSUME NEW es \in Seq(EventRecord)
  PROVE  /\ Calls(es) \in [0 .. Len(es) -> Seq(Symbol)] /\ Calls(es)[0] = <<>>
         /\ \A n \in 1 .. Len(es) :
              Calls(es)[n] = IF es[n].kind \in {"delta", "error"}
                               THEN Append(Calls(es)[n - 1], <<es[n].kind, n>>) ELSE Calls(es)[n - 1]
<1>l. Len(es) \in Nat /\ <<>> \in Seq(Symbol)
  BY LenProperties, EmptySeq
<1>0. Rounds(Seq(Symbol), <<>>, AddCall(es, 1 .. Len(es)), Len(es)) # {}
  BY <1>l, AddCallType, RoundsExist
<1>1. PICK h : h \in Rounds(Seq(Symbol), <<>>, AddCall(es, 1 .. Len(es)), Len(es))
  BY <1>0
<1>2. PICK f : f = Calls(es)
  OBVIOUS
<1>3. f \in Rounds(Seq(Symbol), <<>>, AddCall(es, 1 .. Len(es)), Len(es))
  BY <1>1, <1>2, Zenon DEF Calls
<1>4. f \in [0 .. Len(es) -> Seq(Symbol)] /\ f[0] = <<>>
  BY <1>3 DEF Rounds
<1>5. ASSUME NEW n \in 1 .. Len(es)
      PROVE  f[n] = IF es[n].kind \in {"delta", "error"} THEN Append(f[n - 1], <<es[n].kind, n>>) ELSE f[n - 1]
  <2>1. n - 1 \in 0 .. Len(es)
    BY <1>l
  <2>2. f[n - 1] \in Seq(Symbol)
    BY <1>4, <2>1
  <2>3. f[n] = AddCall(es, 1 .. Len(es))[<<n, f[n - 1]>>]
    BY <1>3 DEF Rounds
  <2> QED BY <2>2, <2>3, AddCallIs
<1> QED BY <1>2, <1>4, <1>5

\* The recursion in Due is well founded.
LEMMA DueStep ==
  ASSUME events \in Seq(EventRecord)
  PROVE  /\ Due[0] = <<>>
         /\ \A n \in 1 .. Len(events) :
              Due[n] = IF n \in Whole /\ events[n].kind \in {"delta", "error"}
                         THEN Append(Due[n - 1], <<events[n].kind, n>>) ELSE Due[n - 1]
<1>e. PICK es \in Seq(EventRecord) : es = events
  OBVIOUS
<1>w. PICK W : W = Whole
  OBVIOUS
<1> DEFINE U(f) == f = [n \in 0 .. Len(es) |->
                          IF n = 0 THEN <<>>
                          ELSE IF n \in W /\ es[n].kind \in {"delta", "error"}
                                 THEN Append(f[n - 1], <<es[n].kind, n>>) ELSE f[n - 1]]
<1>l. Len(es) \in Nat /\ <<>> \in Seq(Symbol)
  BY LenProperties, EmptySeq
<1>0. Rounds(Seq(Symbol), <<>>, AddCall(es, W), Len(es)) # {}
  BY <1>l, AddCallType, RoundsExist
<1>1. PICK h : h \in Rounds(Seq(Symbol), <<>>, AddCall(es, W), Len(es))
  BY <1>0
<1>2. U(h)
  <2>1. h \in [0 .. Len(es) -> Seq(Symbol)] /\ h[0] = <<>>
    BY <1>1 DEF Rounds
  <2>2. ASSUME NEW n \in 0 .. Len(es), n # 0
        PROVE  h[n] = IF n \in W /\ es[n].kind \in {"delta", "error"}
                        THEN Append(h[n - 1], <<es[n].kind, n>>) ELSE h[n - 1]
    <3>1. n \in 1 .. Len(es) /\ n - 1 \in 0 .. Len(es)
      BY <1>l, <2>2
    <3>2. h[n] = AddCall(es, W)[<<n, h[n - 1]>>]
      BY <1>1, <3>1 DEF Rounds
    <3>3. h[n - 1] \in Seq(Symbol)
      BY <2>1, <3>1
    <3> QED BY <3>1, <3>2, <3>3, AddCallIs
  <2> QED BY <2>1, <2>2
<1>3. Due = CHOOSE f : U(f)
  BY <1>e, <1>w DEF Due
<1>4. U(Due)
  BY <1>2, <1>3, Zenon
<1>5. PICK f : f = Due
  OBVIOUS
<1>6. U(f)
  BY <1>4, <1>5
<1>7. f[0] = <<>>
  BY <1>l, <1>6
<1>8. ASSUME NEW n \in 1 .. Len(es)
      PROVE  f[n] = IF n \in W /\ es[n].kind \in {"delta", "error"}
                      THEN Append(f[n - 1], <<es[n].kind, n>>) ELSE f[n - 1]
  <2>1. n \in 0 .. Len(es) /\ n # 0
    BY <1>l
  <2> QED BY <1>6, <2>1
<1> HIDE DEF U
<1> QED BY <1>e, <1>w, <1>5, <1>7, <1>8

\* The first h events have been read and called back, the buffer holds what has
\* arrived behind them, and the reader stopped only where it had to.
ReadUpto(h) ==
  /\ End(events, h) <= arrived
  /\ \A j \in 1 .. h : events[j].kind # "done"
  /\ handed = Calls(events)[h]
  /\ looping => buffer = Pending(events, h, arrived)
  /\ ~looping /\ h < Len(events) => arrived < End(events, h + 1) \/ events[h + 1].kind = "done"

\* The reader is always between two events.
EventInv ==
  /\ events \in Seq(EventRecord) /\ arrived \in Nat /\ arrived <= End(events, Len(events))
  /\ looping \in BOOLEAN
  /\ \E h \in 0 .. Len(events) : ReadUpto(h)

\* Where the reader stopped, no further event is due.
LEMMA DueIsCalls ==
  ASSUME EventInv, ~looping, NEW h \in 0 .. Len(events), ReadUpto(h)
  PROVE  Due[Len(events)] = Calls(events)[h]
<1>l. Len(events) \in Nat /\ events \in Seq(EventRecord) /\ arrived \in Nat
  BY LenProperties DEF EventInv
<1>e. \A j \in 0 .. Len(events) : End(events, j) \in Nat
  BY <1>l, UptoStep, LenProperties DEF End
<1> DEFINE S == {n \in Nat : n <= h => Due[n] = Calls(events)[n]}
           T == {d \in Nat : h + d <= Len(events) => Due[h + d] = Due[h]}
<1>1. 0 \in S
  BY <1>l, DueStep, CallsStep
<1>2. ASSUME NEW n \in S PROVE n + 1 \in S
  <2>1. CASE n + 1 <= h
    <3>1. PICK m \in 1 .. Len(events) : m = n + 1 /\ m - 1 = n /\ m <= h
      BY <1>l, <2>1
    <3>2. m \in Whole
      <4>1. End(events, m) <= End(events, h) /\ End(events, h) <= arrived
        BY <1>l, <3>1, UptoPrefix DEF ReadUpto
      <4>2. End(events, m) <= arrived
        BY <1>e, <1>l, <3>1, <4>1
      <4>3. \A j \in 1 .. m : events[j].kind # "done"
        BY <3>1 DEF ReadUpto
      <4> QED BY <4>2, <4>3 DEF Whole, End
    <3>3. Due[m - 1] = Calls(events)[m - 1]
      BY <2>1, <3>1
    <3>4. Due[m] = Calls(events)[m]
      BY <1>l, <3>2, <3>3, DueStep, CallsStep
    <3> QED BY <3>1, <3>4
  <2>2. CASE ~(n + 1 <= h)
    BY <2>2
  <2> QED BY <2>1, <2>2
<1>3. \A n \in Nat : n \in S
  BY <1>1, <1>2, NatSet
<1>4. Due[h] = Calls(events)[h]
  BY <1>3
<1>5. 0 \in T
  OBVIOUS
<1>6. ASSUME NEW d \in T PROVE d + 1 \in T
  <2>1. CASE h + d + 1 <= Len(events)
    <3>1. PICK m \in 1 .. Len(events) : m = h + d + 1 /\ m - 1 = h + d /\ m = h + (d + 1)
      BY <1>l, <2>1
    <3>2. m \notin Whole
      <4>1. h + 1 \in 0 .. Len(events) /\ h + 1 <= m /\ h < Len(events) /\ h + 1 \in 1 .. m
        BY <1>l, <2>1, <3>1
      <4>2. End(events, h + 1) <= End(events, m)
        BY <1>l, <3>1, <4>1, UptoPrefix
      <4>3. CASE arrived < End(events, h + 1)
        <5>1. ~(End(events, m) <= arrived)
          BY <1>e, <1>l, <4>1, <4>2, <4>3
        <5> QED BY <5>1 DEF Whole, End
      <4>4. CASE events[h + 1].kind = "done"
        BY <4>1, <4>4 DEF Whole
      <4> QED BY <4>1, <4>3, <4>4 DEF ReadUpto
    <3>3. Due[m] = Due[m - 1]
      BY <1>l, <3>2, DueStep
    <3>4. Due[m - 1] = Due[h]
      BY <1>l, <2>1, <3>1
    <3> QED BY <3>1, <3>3, <3>4
  <2>2. CASE ~(h + d + 1 <= Len(events))
    BY <2>2
  <2> QED BY <2>1, <2>2
<1>7. \A d \in Nat : d \in T
  BY <1>5, <1>6, NatSet
<1>8. Len(events) - h \in Nat /\ h + (Len(events) - h) = Len(events)
  BY <1>l
<1> QED BY <1>4, <1>7, <1>8

LEMMA FreshReply ==
  ASSUME NEW es \in Seq(EventRecord)
  PROVE  /\ End(es, 0) = 0 /\ End(es, Len(es)) >= 0 /\ Calls(es)[0] = <<>> /\ Pending(es, 0, 0) = <<>>
<1>l. Len(es) \in Nat /\ 0 \in 0 .. Len(es) /\ Len(es) \in 0 .. Len(es)
  BY LenProperties
<1>1. End(es, 0) = 0
  BY UptoStep, EmptySeq DEF End
<1>2. End(es, Len(es)) \in Nat
  BY <1>l, UptoStep, LenProperties DEF End
<1>3. Pending(es, 0, 0) \in Seq(Symbol) /\ Len(Pending(es, 0, 0)) = 0
  BY <1>l, <1>1, <1>2, PendingShape
<1> QED BY <1>1, <1>2, <1>3, CallsStep, EmptySeq

LEMMA InitEventInv == EventInit => EventInv
<1> SUFFICES ASSUME EventInit PROVE EventInv
  OBVIOUS
<1>1. events \in Seq(EventRecord)
  <2>1. PICK n \in 1 .. MaxEvents : events \in [1 .. n -> EventRecord]
    BY DEF EventInit, EventRecord
  <2>2. n \in Nat
    BY EventAssumption
  <2> QED BY <2>1, <2>2
<1>2. 0 \in 0 .. Len(events) /\ ReadUpto(0)
  BY <1>1, FreshReply, LenProperties DEF EventInit, ReadUpto
<1> QED BY <1>1, <1>2, FreshReply DEF EventInit, EventInv

LEMMA NextEventInv == EventInv /\ [EventNext]_eventVars => EventInv'
<1> SUFFICES ASSUME EventInv, [EventNext]_eventVars PROVE EventInv'
  OBVIOUS
<1>1. PICK es \in Seq(EventRecord), a \in Nat : es = events /\ a = arrived /\ a <= End(es, Len(es))
  BY DEF EventInv
<1>2. PICK h \in 0 .. Len(es) : ReadUpto(h)
  BY <1>1 DEF EventInv
<1>l. Len(es) \in Nat /\ Len(es) \in 0 .. Len(es)
  BY LenProperties
<1>e. \A j \in 0 .. Len(es) : End(es, j) \in Nat
  BY <1>l, UptoStep, LenProperties DEF End
<1>b. looping => (Breaks = {} <=> (h < Len(es) => a < End(es, h + 1)))
  <2> SUFFICES ASSUME looping PROVE Breaks = {} <=> (h < Len(es) => a < End(es, h + 1))
    OBVIOUS
  <2>1. buffer = Pending(es, h, a) /\ End(es, h) <= a
    BY <1>1, <1>2 DEF ReadUpto
  <2>2. (h < Len(es) => a < End(es, h + 1)) => Breaks = {}
    BY <1>1, <2>1, NoBreak
  <2>3. ASSUME h < Len(es), ~(a < End(es, h + 1)) PROVE Breaks # {}
    <3>1. PICK n \in 1 .. Len(es) : n = h + 1 /\ n - 1 = h /\ n \in 0 .. Len(es)
      BY <1>l, <2>3
    <3>2. End(es, n) <= a
      BY <1>e, <2>3, <3>1
    <3> QED BY <1>1, <2>1, <3>1, <3>2, HasBreak
  <2> QED BY <2>2, <2>3
<1>3. CASE ReadChunk
  <2>1. PICK n \in a + 1 .. Len(Sent) : arrived' = n /\ buffer' = buffer \o SubSeq(Sent, a + 1, n)
    BY <1>1, <1>3 DEF ReadChunk
  <2>2. Sent = Upto(es)[Len(es)] /\ Len(Sent) = End(es, Len(es)) /\ Sent \in Seq(Symbol)
    BY <1>1, <1>l, UptoStep DEF Sent, End
  <2>3. n \in Nat /\ n <= End(es, Len(es)) /\ End(es, h) <= a /\ a <= n /\ End(es, h) <= n
    BY <1>1, <1>2, <1>e, <1>l, <2>1, <2>2 DEF ReadUpto
  <2>4. buffer = SubSeq(Sent, End(es, h) + 1, a)
    BY <1>1, <1>2, <1>3, <2>2 DEF ReadChunk, ReadUpto, Pending
  <2>5. buffer' = SubSeq(Sent, End(es, h) + 1, n)
    <3>1. PICK s \in Seq(Symbol), b \in Nat : s = Sent /\ b = End(es, h)
      BY <1>e, <2>2
    <3>2. /\ b + 1 \in 1 .. Len(s) + 1 /\ a \in (b + 1) - 1 .. Len(s) /\ n \in a .. Len(s)
      BY <1>1, <1>e, <1>l, <2>2, <2>3, <3>1
    <3>3. SubSeq(s, b + 1, a) \o SubSeq(s, a + 1, n) = SubSeq(s, b + 1, n)
      BY <3>2, ConcatAdjacentSubSeq
    <3> QED BY <2>1, <2>4, <3>1, <3>3
  <2>6. ReadUpto(h)'
    BY <1>1, <1>2, <1>3, <2>1, <2>2, <2>3, <2>5 DEF ReadChunk, ReadUpto, Pending
  <2> QED BY <1>1, <1>3, <2>1, <2>3, <2>6 DEF ReadChunk, EventInv
<1>4. CASE OnEvent
  <2>1. looping /\ Breaks # {}
    BY <1>4 DEF OnEvent
  <2>2. h < Len(es) /\ ~(a < End(es, h + 1))
    BY <1>b, <2>1
  <2>3. PICK n \in 1 .. Len(es) : n = h + 1 /\ n - 1 = h /\ n \in 0 .. Len(es)
    BY <1>l, <2>2
  <2>4. End(es, n) <= a
    BY <1>e, <2>2, <2>3
  <2>5. buffer = Pending(es, n - 1, a)
    BY <1>1, <1>2, <2>1, <2>3 DEF ReadUpto
  <2>6. FirstBreak = Len(Event(es, n)) - 1
    BY <1>1, <2>4, <2>5, HasBreak
  <2>7. /\ DataOf(SubSeq(buffer, 1, FirstBreak - 1)) = LineOf(es, n)
        /\ SubSeq(buffer, FirstBreak + 2, Len(buffer)) = Pending(es, n, a)
    BY <1>1, <2>4, <2>5, <2>6, AfterEvent
  <2>8. PICK line : line = LineOf(es, n)
    OBVIOUS
  <2>9. /\ buffer' = Pending(es, n, a) /\ looping' = (line[1] # "done")
        /\ handed' = IF line[1] \in {"delta", "error"} THEN Append(handed, line) ELSE handed
        /\ events' = es /\ arrived' = a
    BY <1>1, <1>4, <2>7, <2>8 DEF OnEvent
  <2>10. handed = Calls(es)[n - 1] /\ \A j \in 1 .. n - 1 : es[j].kind # "done"
    BY <1>1, <1>2, <2>3 DEF ReadUpto
  <2>11. PICK c \in EventKind : c = es[n].kind
    BY EventShape
  <2>12. line = IF c = "comment" THEN <<"none", 0>> ELSE <<c, n>>
    BY <2>8, <2>11 DEF LineOf
  <2>13. CASE c = "done"
    <3>1. line[1] = "done"
      BY <2>12, <2>13
    <3>2. looping' = FALSE /\ handed' = handed
      BY <2>9, <3>1
    <3>3. ReadUpto(h)'
      BY <1>1, <1>2, <2>3, <2>9, <2>10, <2>11, <2>13, <3>2 DEF ReadUpto
    <3> QED BY <1>1, <2>9, <3>2, <3>3 DEF EventInv
  <2>14. CASE c # "done"
    <3>1. line[1] # "done" /\ (line[1] \in {"delta", "error"} <=> c \in {"delta", "error"})
      BY <2>12, <2>14
    <3>2. looping' = TRUE
      BY <2>9, <3>1
    <3>3. handed' = Calls(es)[n]
      <4>1. CASE c \in {"delta", "error"}
        BY <2>9, <2>10, <2>11, <2>12, <3>1, <4>1, CallsStep
      <4>2. CASE c \notin {"delta", "error"}
        BY <2>9, <2>10, <2>11, <3>1, <4>2, CallsStep
      <4> QED BY <4>1, <4>2
    <3>4. \A j \in 1 .. n : es[j].kind # "done"
      <4>1. \A j \in 1 .. n : j \in 1 .. n - 1 \/ j = n
        OBVIOUS
      <4> QED BY <2>10, <2>11, <2>14, <4>1
    <3>5. ReadUpto(n)'
      BY <2>4, <2>9, <3>2, <3>3, <3>4 DEF ReadUpto
    <3> QED BY <1>1, <2>3, <2>9, <3>2, <3>5 DEF EventInv
  <2> QED BY <2>13, <2>14
<1>5. CASE BodyEnds
  <2>1. looping /\ looping' = FALSE /\ (h < Len(es) => a < End(es, h + 1))
    BY <1>b, <1>5 DEF BodyEnds
  <2>2. ReadUpto(h)'
    BY <1>1, <1>2, <1>5, <2>1 DEF BodyEnds, ReadUpto
  <2> QED BY <1>1, <1>5, <2>1, <2>2 DEF BodyEnds, EventInv
<1>6. CASE NextReply
  <2>1. PICK r \in EventRecord : r = [kind |-> "done", noisy |-> FALSE]
    BY DEF EventRecord, EventKind
  <2>2. PICK ns : ns = <<r>> /\ ns \in Seq(EventRecord)
    <3>1. <<r>> \in Seq(EventRecord)
      OBVIOUS
    <3> QED BY <3>1, Zenon
  <2>3. events' = ns /\ arrived' = 0 /\ buffer' = <<>> /\ handed' = <<>> /\ looping' = TRUE
    BY <1>6, <2>1, <2>2 DEF NextReply
  <2>4. 0 \in 0 .. Len(ns)
    BY <2>2, LenProperties
  <2>5. ReadUpto(0)'
    <3>1. End(ns, 0) = 0 /\ Calls(ns)[0] = <<>> /\ Pending(ns, 0, 0) = <<>>
      BY <2>2, FreshReply
    <3>2. \A j \in 1 .. 0 : ns[j].kind # "done"
      OBVIOUS
    <3>3. 0 <= 0
      OBVIOUS
    <3> QED BY <2>3, <3>1, <3>2, <3>3, Zenon DEF ReadUpto
  <2> QED BY <2>2, <2>3, <2>4, <2>5, FreshReply DEF EventInv
<1>7. CASE UNCHANGED eventVars
  <2>1. ReadUpto(h)'
    BY <1>2, <1>7 DEF eventVars, ReadUpto
  <2> QED BY <1>1, <1>7, <2>1 DEF eventVars, EventInv
<1> QED BY <1>3, <1>4, <1>5, <1>6, <1>7 DEF EventNext

\* However the event stream is cut into chunks, and wherever it breaks off, the
\* panel's callbacks are exactly the ones due for the events that arrived in
\* full, in order, up to [DONE], for any number of events (streamChat's read
\* loop).
THEOREM CutsInvisibleHolds == EventSpec => []CutsInvisible
<1>1. EventInv => CutsInvisible
  <2> SUFFICES ASSUME EventInv, ~looping PROVE handed = Due[Len(events)]
    BY DEF CutsInvisible
  <2>1. PICK h \in 0 .. Len(events) : ReadUpto(h)
    BY DEF EventInv
  <2> QED BY <2>1, DueIsCalls DEF ReadUpto
<1> QED BY <1>1, InitEventInv, NextEventInv, PTL DEF EventSpec
=============================================================================
