---------------------------- MODULE ChatProofs -----------------------------
(***************************************************************************)
(* The chat, for any number of conversations, calls, handlers, tabs and       *)
(* accounts: the API's routes, the page's messages and model selector, the    *)
(* session, the tabs that share it and the settings.  They share no state;    *)
(* each has an inductive invariant of its own.                                *)
(***************************************************************************)
EXTENDS Conversations, ChatPage, PanelSession, ChatModel, PanelShell, SettingsPages,
        FiniteSetTheorems, TLAPS

-----------------------------------------------------------------------------
(* Selections *)

\* at numbers the indices in I in ascending order, and Select takes them in that order.
Lists(at, s, I) ==
  /\ at \in [1 .. Cardinality(I) -> I]
  /\ \A k, l \in 1 .. Cardinality(I) : k < l => at[k] < at[l]
  /\ \A i \in I : \E k \in 1 .. Cardinality(I) : at[k] = i
  /\ \A k \in 1 .. Cardinality(I) : Select(s, I)[k] = s[at[k]]

LEMMA SelectLists ==
  ASSUME NEW s, NEW n \in Nat, NEW I \in SUBSET (1 .. n)
  PROVE  /\ IsFiniteSet(I) /\ Cardinality(I) \in Nat
         /\ \E at : Lists(at, s, I)
<1>0. \A i \in I : i \in Int
  OBVIOUS
<1>1. IsFiniteSet(I) /\ Cardinality(I) \in Nat
  <2>1. PICK a \in Int, b \in Int : a = 1 /\ b = n
    OBVIOUS
  <2>2. IsFiniteSet(a .. b)
    BY FS_Interval
  <2>3. IsFiniteSet(I)
    BY <2>1, <2>2, FS_Subset
  <2> QED BY <2>3, FS_CardinalityType
<1> DEFINE N == Cardinality(I)
           Low(i) == {j \in I : j <= i}
           place == [i \in I |-> Rank(I, i)]
<1>2. ASSUME NEW i \in I PROVE /\ IsFiniteSet(Low(i)) /\ Rank(I, i) = Cardinality(Low(i))
                               /\ Rank(I, i) \in 1 .. N /\ Rank(I, i) \in Int
  <2>1. Low(i) \in SUBSET I /\ i \in Low(i)
    OBVIOUS
  <2>2. IsFiniteSet(Low(i)) /\ Cardinality(Low(i)) <= N
    BY <1>1, <2>1, FS_Subset
  <2>3. Cardinality(Low(i)) \in Nat /\ Cardinality(Low(i)) # 0
    BY <2>1, <2>2, FS_CardinalityType, FS_EmptySet
  <2>4. Rank(I, i) = Cardinality(Low(i))
    BY DEF Rank
  <2> QED BY <1>1, <2>2, <2>3, <2>4
<1>3. ASSUME NEW i \in I, NEW j \in I, i < j PROVE Rank(I, i) < Rank(I, j)
  <2>1. Low(i) \in SUBSET Low(j) /\ j \in Low(j) /\ j \notin Low(i)
    <3>1. i \in Int /\ j \in Int /\ ~(j <= i) /\ j <= j
      BY <1>0, <1>3
    <3>2. \A x \in I : x <= i => x <= j
      BY <1>0, <1>3
    <3> QED BY <3>1, <3>2
  <2>2. Cardinality(Low(i)) <= Cardinality(Low(j)) /\ Cardinality(Low(i)) # Cardinality(Low(j))
    BY <1>2, <2>1, FS_Subset
  <2>3. Rank(I, i) = Cardinality(Low(i)) /\ Rank(I, j) = Cardinality(Low(j))
        /\ Rank(I, i) \in Int /\ Rank(I, j) \in Int
    BY <1>2
  <2> QED BY <2>2, <2>3
<1>4. place \in Injection(I, 1 .. N)
  <2>1. place \in [I -> 1 .. N]
    BY <1>2
  <2>2. ASSUME NEW i \in I, NEW j \in I, i # j PROVE place[i] # place[j]
    <3>1. i < j \/ j < i
      BY <1>0, <2>2
    <3>2. Rank(I, i) \in Int /\ Rank(I, j) \in Int
      BY <1>2
    <3> QED BY <1>3, <3>1, <3>2
  <2> HIDE DEF place
  <2> QED BY <2>1, <2>2 DEF Injection, IsInjective
<1>5. place \in Surjection(I, 1 .. N)
  <2>1. IsFiniteSet(1 .. N) /\ Cardinality(1 .. N) = N
    <3>1. PICK a \in Int, b \in Int : a = 1 /\ b = N /\ b >= 0
      BY <1>1
    <3>2. IsFiniteSet(a .. b) /\ Cardinality(a .. b) = IF a > b THEN 0 ELSE b - a + 1
      BY FS_Interval
    <3> QED BY <3>1, <3>2
  <2> HIDE DEF place
  <2> QED BY <1>4, <2>1, FS_Injection
<1>6. \A k \in 1 .. N : \E i \in I : Rank(I, i) = k
  BY <1>5 DEF Surjection
<1> DEFINE at == [k \in 1 .. N |-> CHOOSE i \in I : Rank(I, i) = k]
<1>7. at \in [1 .. N -> I] /\ \A k \in 1 .. N : Rank(I, at[k]) = k
  BY <1>6
<1>8. \A k \in 1 .. N : Select(s, I)[k] = s[at[k]]
  BY DEF Select
<1> HIDE DEF at, N
<1>9. ASSUME NEW k \in 1 .. N, NEW l \in 1 .. N, k < l PROVE at[k] < at[l]
  <2>1. at[k] \in I /\ at[l] \in I /\ Rank(I, at[k]) = k /\ Rank(I, at[l]) = l
    BY <1>7
  <2>2. at[k] # at[l]
    BY <1>9, <2>1
  <2>3. ~(at[l] < at[k])
    <3> SUFFICES ASSUME at[l] < at[k] PROVE FALSE
      OBVIOUS
    <3>1. Rank(I, at[l]) < Rank(I, at[k])
      BY <1>3, <2>1
    <3> QED BY <1>9, <2>1, <3>1
  <2>4. at[k] \in Int /\ at[l] \in Int
    BY <1>0, <2>1
  <2> QED BY <2>2, <2>3, <2>4
<1>10. ASSUME NEW i \in I PROVE \E k \in 1 .. N : at[k] = i
  <2>1. PICK k \in 1 .. N : k = Rank(I, i)
    BY <1>2 DEF N
  <2>2. at[k] \in I /\ Rank(I, at[k]) = Rank(I, i)
    BY <1>7, <2>1
  <2>3. ~(at[k] < i) /\ ~(i < at[k])
    <3>1. Rank(I, i) \in Int
      BY <1>2
    <3>2. at[k] < i => Rank(I, at[k]) < Rank(I, i)
      BY <1>3, <2>2
    <3>3. i < at[k] => Rank(I, i) < Rank(I, at[k])
      BY <1>3, <2>2
    <3> QED BY <2>2, <3>1, <3>2, <3>3
  <2>4. at[k] \in Int /\ i \in Int
    BY <1>0, <2>2
  <2> QED BY <2>3, <2>4
<1>11. Lists(at, s, I)
  BY <1>7, <1>8, <1>9, <1>10 DEF N, Lists
<1> QED BY <1>1, <1>11

\* Keeping all but the last index drops the last element.
LEMMA SelectFront ==
  ASSUME NEW s, NEW n \in Nat
  PROVE  Select(s, 1 .. n) = [k \in 1 .. n |-> s[k]]
<1>1. ASSUME NEW m \in Nat PROVE Cardinality(1 .. m) = m
  <2>1. PICK a \in Int, b \in Int : a = 1 /\ b = m /\ b >= 0
    OBVIOUS
  <2>2. Cardinality(a .. b) = IF a > b THEN 0 ELSE b - a + 1
    BY FS_Interval
  <2> QED BY <2>1, <2>2
<1>2. ASSUME NEW i \in 1 .. n PROVE Rank(1 .. n, i) = i
  <2>1. {j \in 1 .. n : j <= i} = 1 .. i
    OBVIOUS
  <2>2. Cardinality(1 .. i) = i
    BY <1>1
  <2> QED BY <2>1, <2>2 DEF Rank
<1>3. ASSUME NEW k \in 1 .. n PROVE (CHOOSE i \in 1 .. n : Rank(1 .. n, i) = k) = k
  BY <1>2
<1>4. Cardinality(1 .. n) = n
  BY <1>1
<1>5. \A k \in 1 .. n : s[CHOOSE i \in 1 .. n : Rank(1 .. n, i) = k] = s[k]
  BY <1>3
<1>6. Select(s, 1 .. n) = [k \in 1 .. n |-> s[CHOOSE i \in 1 .. n : Rank(1 .. n, i) = k]]
  BY <1>4 DEF Select
<1> QED BY <1>5, <1>6

-----------------------------------------------------------------------------
(* The routes.  The rows a call has inserted follow from where it is.         *)

Labels == {"idle", "persist", "persisting", "read", "ask", "reading", "store", "storing", "end"}

\* TypeOK without the histories.
TurnTypes ==
  /\ alive \subseteq Conv /\ msgs \in [Conv -> Seq(Message)]
  /\ \A c \in Conv : c \notin alive => msgs[c] = <<>>
  /\ pc \in [Call -> Labels] /\ conv \in [Call -> Conv] /\ image \in [Call -> BOOLEAN]
  /\ answer \in [Call -> Answers]

RowNrs(c) == 1 .. Len(msgs[c])
RowOf(c, i, x, r) == msgs[c][i].call = x /\ msgs[c][i].role = r

\* A row is in the conversation its call is about, there is one of its kind, and a
\* reply comes after its turn.
RowsSound ==
  \A c \in Conv : \A i \in RowNrs(c) :
    /\ conv[msgs[c][i].call] = c
    /\ \A j \in RowNrs(c) : msgs[c][j].call = msgs[c][i].call /\ msgs[c][j].role = msgs[c][i].role => i = j
    /\ msgs[c][i].role = "assistant" => \E j \in RowNrs(c) : RowOf(c, j, msgs[c][i].call, "user") /\ j < i

NoRow(x, r) == \A i \in RowNrs(conv[x]) : ~RowOf(conv[x], i, x, r)

\* What a call has inserted follows from where it is.
CallSound(x) ==
  /\ pc[x] \in {"idle", "persist"} => NoRow(x, "user")
  /\ pc[x] \notin {"storing", "end"} => NoRow(x, "assistant")
  /\ pc[x] \in {"persisting", "read", "ask", "reading", "store"} /\ conv[x] \in alive =>
       \E i \in RowNrs(conv[x]) : RowOf(conv[x], i, x, "user")
  /\ answer[x] \in {"bad_request", "refused", "unreachable"} => pc[x] = "end" /\ NoRow(x, "assistant")

TurnInv == TurnTypes /\ RowsSound /\ \A x \in Call : CallSound(x)

LEMMA InitTurnInv == Init => TurnInv
<1> SUFFICES ASSUME Init PROVE TurnInv
  OBVIOUS
<1>1. TurnTypes
  BY DEF Init, TurnTypes, Answers, Labels
<1>2. \A c \in Conv : RowNrs(c) = {}
  BY DEF Init, RowNrs
<1> QED BY <1>1, <1>2 DEF Init, TurnTypes, TurnInv, RowsSound, CallSound, NoRow

\* The rows are kept; a call that goes on stays sound if its new place says no more.
LEMMA RowsKept ==
  ASSUME TurnInv, NEW x \in Call, TurnTypes', UNCHANGED <<alive, msgs, conv>>,
         \A y \in Call : y # x => pc'[y] = pc[y] /\ answer'[y] = answer[y],
         CallSound(x)'
  PROVE  TurnInv'
<1>1. RowsSound'
  BY DEF TurnInv, RowsSound, RowNrs, RowOf
<1>2. ASSUME NEW y \in Call, y # x PROVE CallSound(y)'
  BY <1>2 DEF TurnInv, CallSound, NoRow, RowNrs, RowOf
<1> QED BY <1>1, <1>2 DEF TurnInv

LEMMA QuietStep ==
  ASSUME TurnInv, NEW x \in Call, NEW h \in BOOLEAN, NEW a \in Answers,
         Begin(x, h) \/ ReadHistory(x) \/ Fails(x, a) \/ Accepted(x) \/ Delta(x) \/ Sentinel(x)
           \/ Breaks(x) \/ Leaves(x, h)
  PROVE  TurnInv'
<1>1. /\ UNCHANGED <<alive, msgs, conv, stream, image>>
  BY DEF Begin, ReadHistory, Fails, Accepted, Delta, Sentinel, Breaks, Leaves, request
<1>2. /\ pc \in [Call -> Labels]
      /\ answer \in [Call -> Answers] /\ CallSound(x)
  BY DEF TurnInv, TurnTypes
<1>3. /\ pc' \in [Call -> Labels]
      /\ answer' \in [Call -> Answers]
      /\ \A y \in Call : y # x => pc'[y] = pc[y] /\ answer'[y] = answer[y]
  BY <1>2 DEF Begin, ReadHistory, Fails, Accepted, Delta, Sentinel, Breaks, Leaves, goto, answers, Answers, Labels
<1>5. TurnTypes'
  BY <1>1, <1>3 DEF TurnInv, TurnTypes
<1>6. \/ pc[x] = "idle" /\ pc'[x] \in {"persist", "end"} /\ answer'[x] = answer[x]
      \/ pc[x] = "read" /\ pc'[x] = "ask" /\ answer'[x] = answer[x]
      \/ pc[x] = "ask" /\ pc'[x] = "end"
      \/ pc[x] = "ask" /\ pc'[x] \in {"reading", "store"} /\ answer'[x] = "ok"
      \/ pc[x] = "reading" /\ pc'[x] = "reading" /\ answer'[x] = answer[x]
      \/ pc[x] = "reading" /\ pc'[x] = "end"
      \/ pc[x] = "reading" /\ pc'[x] = "store" /\ answer'[x] = answer[x]
      \/ pc[x] = "reading" /\ pc'[x] = "store" /\ answer'[x] = "left"
  BY <1>2 DEF Begin, ReadHistory, Fails, Accepted, Delta, Sentinel, Breaks, Leaves, goto, answers, Answers, Labels
<1>7. NoRow(x, "user")' = NoRow(x, "user") /\ NoRow(x, "assistant")' = NoRow(x, "assistant")
      /\ (\E i \in RowNrs(conv[x]) : RowOf(conv[x], i, x, "user"))'
           = (\E i \in RowNrs(conv[x]) : RowOf(conv[x], i, x, "user"))
  BY <1>1 DEF NoRow, RowNrs, RowOf
<1>8. CallSound(x)'
  BY <1>1, <1>2, <1>6, <1>7 DEF CallSound
<1> QED BY <1>1, <1>3, <1>5, <1>8, RowsKept

\* The rows are the same but for their being committed.
LEMMA CommitStep ==
  ASSUME TurnInv, NEW x \in Call, Persisted(x) \/ Stored(x) PROVE TurnInv'
<1> DEFINE c == conv[x]
           rows == [i \in DOMAIN msgs[c] |-> IF msgs[c][i].call = x
                                              THEN [msgs[c][i] EXCEPT !.seen = TRUE] ELSE msgs[c][i]]
<1>1. /\ UNCHANGED <<alive, conv, stream, image, answer>> /\ msgs' = [msgs EXCEPT ![c] = rows]
      /\ \/ pc[x] = "persisting" /\ pc' = [pc EXCEPT ![x] = IF c \in alive THEN "read" ELSE "end"]
         \/ pc[x] = "storing" /\ pc' = [pc EXCEPT ![x] = "end"]
  BY DEF Persisted, Stored, Commit, goto, request
<1>2. /\ c \in Conv /\ msgs \in [Conv -> Seq(Message)] /\ pc \in [Call -> Labels] /\ msgs[c] \in Seq(Message)
      /\ \A d \in Conv : d \notin alive => msgs[d] = <<>>
  BY DEF TurnInv, TurnTypes
<1>3. /\ \A i \in 1 .. Len(msgs[c]) : rows[i] \in Message /\ rows[i].call = msgs[c][i].call
                                        /\ rows[i].role = msgs[c][i].role
      /\ rows \in Seq(Message) /\ Len(rows) = Len(msgs[c])
  <2>1. DOMAIN msgs[c] = 1 .. Len(msgs[c]) /\ Len(msgs[c]) \in Nat
    BY <1>2
  <2>2. ASSUME NEW i \in 1 .. Len(msgs[c])
        PROVE  rows[i] \in Message /\ rows[i].call = msgs[c][i].call /\ rows[i].role = msgs[c][i].role
    <3>1. msgs[c][i] \in Message /\ rows[i] = IF msgs[c][i].call = x
                                              THEN [msgs[c][i] EXCEPT !.seen = TRUE] ELSE msgs[c][i]
      BY <1>2, <2>1
    <3>2. CASE msgs[c][i].call = x
      <4>1. rows[i] = [msgs[c][i] EXCEPT !.seen = TRUE]
        BY <3>1, <3>2
      <4> HIDE DEF rows
      <4> QED BY <3>1, <4>1 DEF Message
    <3>3. CASE msgs[c][i].call # x
      <4>1. rows[i] = msgs[c][i]
        BY <3>1, <3>3
      <4> HIDE DEF rows
      <4> QED BY <3>1, <4>1
    <3> QED BY <3>2, <3>3
  <2>3. rows \in [1 .. Len(msgs[c]) -> Message]
    BY <2>1, <2>2
  <2> HIDE DEF rows
  <2> QED BY <2>1, <2>2, <2>3
<1> HIDE DEF rows
<1>4. /\ msgs' \in [Conv -> Seq(Message)]
      /\ \A d \in Conv : Len(msgs'[d]) = Len(msgs[d])
      /\ \A d \in Conv : \A i \in RowNrs(d) : msgs'[d][i].call = msgs[d][i].call /\ msgs'[d][i].role = msgs[d][i].role
      /\ \A d \in Conv : d # c => msgs'[d] = msgs[d]
  BY <1>1, <1>2, <1>3 DEF RowNrs
<1>5. /\ \A d \in Conv : RowNrs(d)' = RowNrs(d)
      /\ \A d \in Conv, y \in Call, r \in {"user", "assistant"} : \A i \in RowNrs(d) : RowOf(d, i, y, r)' = RowOf(d, i, y, r)
  BY <1>4 DEF RowNrs, RowOf
<1>6. pc' \in [Call -> Labels] /\ \A y \in Call : y # x => pc'[y] = pc[y]
  BY <1>1, <1>2 DEF Labels
<1>7. ASSUME NEW d \in Conv, d \notin alive' PROVE msgs'[d] = <<>>
  <2>1. msgs[d] = <<>>
    BY <1>1, <1>2, <1>7
  <2>2. msgs'[d] \in Seq(Message) /\ Len(msgs'[d]) = 0
    BY <1>4, <2>1
  <2> QED BY <2>2
<1>8. TurnTypes'
  BY <1>1, <1>4, <1>6, <1>7 DEF TurnInv, TurnTypes
<1>9. RowsSound'
  BY <1>1, <1>4, <1>5 DEF TurnInv, RowsSound, RowOf
<1>10. ASSUME NEW y \in Call PROVE CallSound(y)'
  <2>1. conv'[y] = conv[y] /\ conv[y] \in Conv /\ CallSound(y)
    BY <1>1 DEF TurnInv, TurnTypes
  <2>2. /\ NoRow(y, "user")' = NoRow(y, "user") /\ NoRow(y, "assistant")' = NoRow(y, "assistant")
        /\ (\E i \in RowNrs(conv[y]) : RowOf(conv[y], i, y, "user"))'
             = (\E i \in RowNrs(conv[y]) : RowOf(conv[y], i, y, "user"))
    BY <1>5, <2>1 DEF NoRow
  <2>3. CASE y = x
    BY <1>1, <1>2, <2>1, <2>2, <2>3 DEF CallSound
  <2>4. CASE y # x
    BY <1>1, <1>6, <2>1, <2>2, <2>4 DEF CallSound
  <2> QED BY <2>3, <2>4
<1> QED BY <1>8, <1>9, <1>10 DEF TurnInv

LEMMA InsertStep ==
  ASSUME TurnInv, NEW x \in Call, Persist(x) \/ Store(x) PROVE TurnInv'
<1>c. PICK c \in Conv : c = conv[x]
  BY DEF TurnInv, TurnTypes
<1> DEFINE turn == IF pc[x] = "persist" THEN "user" ELSE "assistant"
<1>0. /\ c \in Conv /\ msgs \in [Conv -> Seq(Message)] /\ pc \in [Call -> Labels] /\ msgs[c] \in Seq(Message)
      /\ image[x] \in BOOLEAN /\ \A d \in Conv : d \notin alive => msgs[d] = <<>>
  BY <1>c DEF TurnInv, TurnTypes
<1>1. CASE c \notin alive
  <2>1. /\ UNCHANGED <<alive, msgs, conv, stream, image, answer>> /\ pc' = [pc EXCEPT ![x] = "end"]
        /\ pc[x] \in {"persist", "store"}
    BY <1>c, <1>1 DEF Persist, Store, goto, request
  <2>2. TurnTypes'
    BY <2>1 DEF TurnInv, TurnTypes, Labels
  <2>3. RowNrs(c)' = {}
    BY <1>0, <1>1, <2>1 DEF RowNrs
  <2>4. CallSound(x)'
    BY <1>c, <1>0, <1>1, <2>1, <2>3 DEF CallSound, NoRow
  <2> QED BY <1>0, <2>1, <2>2, <2>4, RowsKept
<1>2. CASE c \in alive
  <2>k. PICK k \in Nat : k = Len(msgs[c]) + 1
    BY <1>0
  <2>1. PICK row : /\ row = [role |-> turn, image |-> IF pc[x] = "persist" THEN image[x] ELSE FALSE, call |-> x, seen |-> FALSE]
                   /\ msgs' = [msgs EXCEPT ![c] = Append(msgs[c], row)]
    BY <1>c, <1>2 DEF Persist, Store, Insert, Reply
  <2>2. /\ UNCHANGED <<alive, conv, stream, image, answer>>
        /\ pc[x] \in {"persist", "store"}
        /\ pc' = [pc EXCEPT ![x] = IF pc[x] = "persist" THEN "persisting" ELSE "storing"]
    BY <1>c, <1>2 DEF Persist, Store, goto, request
  <2>3. row \in Message /\ row.call = x /\ row.role = turn
    BY <1>0, <2>1 DEF Message
  <2>4. /\ msgs' \in [Conv -> Seq(Message)] /\ \A d \in Conv : d # c => msgs'[d] = msgs[d]
        /\ Len(msgs[c]) \in Nat /\ Len(msgs'[c]) = Len(msgs[c]) + 1
        /\ \A i \in 1 .. Len(msgs[c]) : msgs'[c][i] = msgs[c][i]
        /\ msgs'[c][k] = row
    BY <1>0, <2>k, <2>1, <2>3
  <2>5. TurnTypes'
    BY <1>2, <2>2, <2>4 DEF TurnInv, TurnTypes, Labels
  <2>6. /\ \A d \in Conv : d # c => RowNrs(d)' = RowNrs(d)
        /\ RowNrs(c)' = RowNrs(c) \cup {k}
        /\ \A i \in RowNrs(c) : i < k
    BY <2>k, <2>4 DEF RowNrs
  <2>7. /\ CallSound(x) /\ NoRow(x, turn) /\ turn \in {"user", "assistant"}
        /\ turn = "assistant" => \E i \in RowNrs(c) : RowOf(c, i, x, "user")
    BY <1>c, <1>2, <2>2 DEF TurnInv, CallSound
  <2> HIDE DEF turn
  <2>8. RowsSound'
    <3> SUFFICES ASSUME NEW d \in Conv, NEW i \in RowNrs(d)'
                 PROVE  /\ conv'[msgs'[d][i].call] = d
                        /\ \A j \in RowNrs(d)' : msgs'[d][j].call = msgs'[d][i].call /\ msgs'[d][j].role = msgs'[d][i].role => i = j
                        /\ msgs'[d][i].role = "assistant" => \E j \in RowNrs(d)' : RowOf(d, j, msgs[d][i].call, "user")' /\ j < i
      BY DEF RowsSound
    <3>1. CASE d # c
      <4>1. msgs'[d] = msgs[d] /\ RowNrs(d)' = RowNrs(d) /\ conv' = conv
        BY <2>2, <2>4, <2>6, <3>1
      <4>2. \A j \in RowNrs(d) : RowOf(d, j, msgs[d][i].call, "user")' = RowOf(d, j, msgs[d][i].call, "user")
        BY <4>1 DEF RowOf
      <4> QED BY <4>1, <4>2 DEF TurnInv, RowsSound
    <3>2. CASE d = c /\ i \in RowNrs(c)
      <4>1. msgs'[c][i] = msgs[c][i]
        BY <2>4, <3>2 DEF RowNrs
      <4>2. conv'[msgs'[d][i].call] = d
        BY <2>2, <3>2, <4>1 DEF TurnInv, RowsSound
      <4>3. ASSUME NEW j \in RowNrs(d)', msgs'[d][j].call = msgs'[d][i].call, msgs'[d][j].role = msgs'[d][i].role PROVE i = j
        <5>1. CASE j \in RowNrs(c)
          BY <1>0, <2>4, <3>2, <4>1, <4>3, <5>1 DEF TurnInv, RowsSound, RowNrs
        <5>2. CASE j = k
          BY <1>c, <2>3, <2>4, <2>7, <3>2, <4>1, <4>3, <5>2 DEF NoRow, RowOf
        <5> QED BY <2>6, <3>2, <5>1, <5>2
      <4>4. ASSUME msgs'[d][i].role = "assistant" PROVE \E j \in RowNrs(d)' : RowOf(d, j, msgs[d][i].call, "user")' /\ j < i
        <5>1. PICK j \in RowNrs(c) : RowOf(c, j, msgs[c][i].call, "user") /\ j < i
          BY <1>0, <3>2, <4>1, <4>4 DEF TurnInv, RowsSound
        <5> QED BY <2>4, <2>6, <3>2, <4>1, <5>1 DEF RowOf, RowNrs
      <4> QED BY <4>2, <4>3, <4>4
    <3>3. CASE d = c /\ i = k
      <4>1. msgs'[d][i] = row
        BY <2>4, <3>3
      <4>2. ASSUME NEW j \in RowNrs(d)', msgs'[d][j].call = x, msgs'[d][j].role = turn PROVE i = j
        BY <1>c, <2>4, <2>6, <2>7, <3>3, <4>2 DEF NoRow, RowOf, RowNrs
      <4>3. ASSUME turn = "assistant" PROVE \E j \in RowNrs(d)' : RowOf(d, j, msgs[d][i].call, "user")' /\ j < i
        <5>1. PICK j \in RowNrs(c) : RowOf(c, j, x, "user")
          BY <2>7, <4>3
        <5> QED BY <2>3, <2>4, <2>6, <3>3, <4>1, <5>1 DEF RowOf, RowNrs
      <4> QED BY <1>c, <2>2, <2>3, <3>3, <4>1, <4>2, <4>3
    <3> QED BY <2>6, <3>1, <3>2, <3>3
  <2>9. ASSUME NEW y \in Call, y # x PROVE CallSound(y)'
    <3>1. /\ conv'[y] = conv[y] /\ conv[y] \in Conv /\ CallSound(y) /\ pc'[y] = pc[y]
          /\ answer'[y] = answer[y] /\ alive' = alive
      BY <1>0, <2>2, <2>9 DEF TurnInv, TurnTypes
    <3>2. ASSUME NEW r, NoRow(y, r) PROVE NoRow(y, r)'
      <4>1. CASE conv[y] = c
        <5>1. \A i \in RowNrs(c) : ~RowOf(c, i, y, r)'
          BY <2>4, <3>2, <4>1 DEF NoRow, RowOf, RowNrs
        <5>2. ~RowOf(c, k, y, r)'
          BY <2>3, <2>4, <2>9 DEF RowOf
        <5> QED BY <2>6, <3>1, <4>1, <5>1, <5>2 DEF NoRow
      <4>2. CASE conv[y] # c
        BY <2>4, <2>6, <3>1, <3>2, <4>2 DEF NoRow, RowOf
      <4> QED BY <4>1, <4>2
    <3>3. ASSUME NEW i \in RowNrs(conv[y]), RowOf(conv[y], i, y, "user")
          PROVE  \E j \in RowNrs(conv[y])' : RowOf(conv[y], j, y, "user")'
      BY <2>4, <2>6, <3>1, <3>3 DEF RowOf, RowNrs
    <3> QED BY <3>1, <3>2, <3>3 DEF CallSound
  <2>10. CallSound(x)'
    <3>1. conv'[x] = c /\ answer'[x] = answer[x]
      BY <1>c, <2>2
    <3>2. CASE pc[x] = "persist"
      <4>1. pc'[x] = "persisting" /\ turn = "user"
        BY <1>0, <2>2, <3>2 DEF turn
      <4>2. NoRow(x, "assistant")
        BY <2>7, <3>2 DEF CallSound
      <4>3. NoRow(x, "assistant")'
        <5>1. \A i \in RowNrs(c) : ~RowOf(c, i, x, "assistant")'
          BY <1>c, <2>4, <4>2 DEF NoRow, RowOf, RowNrs
        <5>2. ~RowOf(c, k, x, "assistant")'
          BY <2>3, <2>4, <4>1 DEF RowOf
        <5> QED BY <2>6, <3>1, <5>1, <5>2 DEF NoRow
      <4>4. k \in RowNrs(c)' /\ RowOf(c, k, x, "user")'
        BY <2>3, <2>4, <2>6, <4>1 DEF RowOf
      <4> QED BY <2>7, <3>1, <3>2, <4>1, <4>3, <4>4 DEF CallSound
    <3>3. CASE pc[x] = "store"
      BY <1>0, <2>2, <2>7, <3>1, <3>3 DEF CallSound
    <3> QED BY <2>2, <3>2, <3>3
  <2> QED BY <2>5, <2>8, <2>9, <2>10 DEF TurnInv
<1> QED BY <1>1, <1>2

LEMMA DeleteStep == ASSUME TurnInv, NEW c \in Conv, delete_conversation(c) PROVE TurnInv'
<1>1. /\ alive' = alive \ {c} /\ msgs' = [msgs EXCEPT ![c] = <<>>]
      /\ UNCHANGED <<pc, conv, stream, image, answer>>
  BY DEF delete_conversation, request
<1>2. TurnTypes'
  BY <1>1 DEF TurnInv, TurnTypes
<1>3. RowNrs(c)' = {} /\ \A d \in Conv : d # c => msgs'[d] = msgs[d] /\ RowNrs(d)' = RowNrs(d)
  BY <1>1 DEF RowNrs, TurnInv, TurnTypes
<1>4. RowsSound'
  BY <1>1, <1>3 DEF TurnInv, RowsSound, RowOf
<1>5. ASSUME NEW x \in Call PROVE CallSound(x)'
  <2>1. conv'[x] = conv[x] /\ conv[x] \in Conv /\ CallSound(x)
    BY <1>1 DEF TurnInv, TurnTypes
  <2>2. CASE conv[x] = c
    BY <1>1, <1>3, <2>1, <2>2 DEF CallSound, NoRow
  <2>3. CASE conv[x] # c
    BY <1>1, <1>3, <2>1, <2>3 DEF CallSound, NoRow, RowOf
  <2> QED BY <2>2, <2>3
<1> QED BY <1>2, <1>4, <1>5 DEF TurnInv

LEMMA TurnInvPaired == TurnInv => TurnsPaired /\ NoErrorTurns
<1> SUFFICES ASSUME TurnInv PROVE TurnsPaired /\ NoErrorTurns
  OBVIOUS
<1>1. ASSUME NEW c \in Conv, NEW x \in Call, NEW r \in {"user", "assistant"}
      PROVE  Cardinality(At(c, x, r)) <= 1
  <2>1. \A i, j \in At(c, x, r) : i = j
    BY DEF TurnInv, RowsSound, At, RowNrs
  <2>2. CASE At(c, x, r) = {}
    <3>1. Cardinality(At(c, x, r)) = 0
      BY <2>2, FS_EmptySet
    <3> QED BY <3>1
  <2>3. CASE At(c, x, r) # {}
    <3>1. PICK i : At(c, x, r) = {i}
      BY <2>1, <2>3
    <3>2. Cardinality(At(c, x, r)) = 1
      BY <3>1, FS_Singleton
    <3> QED BY <3>2
  <2> QED BY <2>2, <2>3
<1>2. ASSUME NEW c \in Conv, NEW x \in Call, c # conv[x]
      PROVE  At(c, x, "user") \cup At(c, x, "assistant") = {}
  BY <1>2 DEF TurnInv, RowsSound, At, RowNrs
<1>3. ASSUME NEW c \in Conv, NEW x \in Call, NEW j \in At(c, x, "assistant")
      PROVE  \E i \in At(c, x, "user") : i < j
  BY DEF TurnInv, RowsSound, RowOf, At, RowNrs
<1>4. NoErrorTurns
  BY DEF TurnInv, CallSound, NoRow, RowOf, NoErrorTurns, At, RowNrs
<1> QED BY <1>1, <1>2, <1>3, <1>4 DEF TurnsPaired

LEMMA TurnStep == TurnInv /\ [Next]_vars => TurnInv'
<1> SUFFICES ASSUME TurnInv, [Next]_vars PROVE TurnInv'
  OBVIOUS
<1>1. ASSUME NEW x \in Call, Step(x) PROVE TurnInv'
  <2>1. TRUE \in BOOLEAN /\ "ok" \in Answers
    BY DEF Answers
  <2> QED BY <1>1, <2>1, QuietStep, InsertStep, CommitStep DEF Step
<1>2. ASSUME NEW c \in Conv, delete_conversation(c) PROVE TurnInv'
  BY <1>2, DeleteStep
<1>3. CASE UNCHANGED vars
  BY <1>3 DEF vars, TurnInv, TurnTypes, RowsSound, CallSound, NoRow, RowOf, RowNrs
<1> QED BY <1>1, <1>2, <1>3 DEF Next

-----------------------------------------------------------------------------
(* The histories *)

Sending == {"ask", "reading", "store", "storing"}

\* A history that was read is part of its conversation, committed, with the turn it
\* is sent for; before it is read that turn is committed.
HistorySound(x) ==
  /\ history[x] \in Seq(Message)
  /\ pc[x] \in Sending /\ conv[x] \in alive =>
       /\ PartOf(history[x], msgs[conv[x]])
       /\ \A i \in 1 .. Len(history[x]) : history[x][i].seen = TRUE
       /\ \E i \in 1 .. Len(history[x]) : history[x][i].call = x
  /\ pc[x] = "read" /\ conv[x] \in alive =>
       \E i \in RowNrs(conv[x]) : msgs[conv[x]][i].call = x /\ msgs[conv[x]][i].seen = TRUE

HistoryInv == history \in [Call -> Seq(Message)] /\ \A x \in Call : HistorySound(x)

\* A step keeps the committed rows of c where they are, and commits no copy of one.
RowsGrow(c) ==
  \A m \in Message : m.seen = TRUE =>
    /\ \A k \in RowNrs(c) : msgs[c][k] = m => k \in RowNrs(c)' /\ msgs'[c][k] = m
    /\ \A k \in RowNrs(c)' : msgs'[c][k] = m /\ (\E j \in RowNrs(c) : msgs[c][j] = m)
                               => k \in RowNrs(c) /\ msgs[c][k] = m

\* Then a call that does not come to send or read keeps its history.
LEMMA HistoryKept ==
  ASSUME NEW x \in Call, HistorySound(x), msgs \in [Conv -> Seq(Message)], conv[x] \in Conv,
         conv' = conv, history'[x] = history[x],
         conv[x] \in alive' => conv[x] \in alive /\ RowsGrow(conv[x]),
         pc'[x] \in Sending => pc[x] \in Sending, pc'[x] = "read" => pc[x] = "read"
  PROVE  HistorySound(x)'
<1>1. PICK c \in Conv, h \in Seq(Message) : c = conv[x] /\ h = history[x]
  BY DEF HistorySound
<1>2. ASSUME pc'[x] \in Sending, c \in alive'
      PROVE  /\ PartOf(h, msgs'[c])
             /\ \A i \in 1 .. Len(h) : h[i].seen = TRUE
             /\ \E i \in 1 .. Len(h) : h[i].call = x
  <2>1. /\ PartOf(h, msgs[c]) /\ RowsGrow(c)
        /\ \A i \in 1 .. Len(h) : h[i].seen = TRUE
        /\ \E i \in 1 .. Len(h) : h[i].call = x
    BY <1>1, <1>2 DEF HistorySound
  <2>2. ASSUME NEW i \in 1 .. Len(h)
        PROVE  /\ h[i] \in Message /\ h[i].seen = TRUE
               /\ \E k \in RowNrs(c) : msgs[c][k] = h[i]
    BY <2>1 DEF PartOf, RowNrs
  <2>3. ASSUME NEW i \in 1 .. Len(h), NEW k \in RowNrs(c)', msgs'[c][k] = h[i]
        PROVE  k \in RowNrs(c) /\ msgs[c][k] = h[i]
    <3>1. PICK m \in Message : m = h[i] /\ m.seen = TRUE /\ \E j \in RowNrs(c) : msgs[c][j] = m
      BY <2>2
    <3>2. \A l \in RowNrs(c)' : msgs'[c][l] = m => l \in RowNrs(c) /\ msgs[c][l] = m
      BY <2>1, <3>1 DEF RowsGrow
    <3> QED BY <2>3, <3>1, <3>2
  <2>4. ASSUME NEW i \in 1 .. Len(h)
        PROVE  \E k \in RowNrs(c)' : msgs'[c][k] = h[i]
    BY <2>1, <2>2 DEF RowsGrow
  <2>5. ASSUME NEW i \in 1 .. Len(h), NEW j \in 1 .. Len(h), NEW k \in RowNrs(c)', NEW l \in RowNrs(c)',
               i < j, msgs'[c][k] = h[i], msgs'[c][l] = h[j]
        PROVE  k < l
    <3>1. k \in RowNrs(c) /\ msgs[c][k] = h[i] /\ l \in RowNrs(c) /\ msgs[c][l] = h[j]
      BY <2>3, <2>5
    <3> QED BY <2>1, <2>5, <3>1 DEF PartOf, RowNrs
  <2>6. PartOf(h, msgs'[c])
    BY <2>4, <2>5 DEF PartOf, RowNrs
  <2> QED BY <2>1, <2>6
<1>3. ASSUME pc'[x] = "read", c \in alive'
      PROVE  \E i \in RowNrs(c)' : msgs'[c][i].call = x /\ msgs'[c][i].seen = TRUE
  <2>1. PICK i \in RowNrs(c) : msgs[c][i].call = x /\ msgs[c][i].seen = TRUE
    BY <1>1, <1>3 DEF HistorySound
  <2>2. PICK m \in Message : m = msgs[c][i]
    BY <2>1 DEF RowNrs
  <2>3. i \in RowNrs(c)' /\ msgs'[c][i] = m
    BY <1>1, <1>3, <2>1, <2>2 DEF RowsGrow
  <2> QED BY <2>1, <2>2, <2>3
<1>4. history'[x] = h /\ conv'[x] = c
  BY <1>1
<1>5. PartOf(history[x], msgs[conv[x]])' <=> PartOf(h, msgs'[c])
  BY <1>4 DEF PartOf
<1> QED BY <1>2, <1>3, <1>4, <1>5 DEF HistorySound

LEMMA SameRowsGrow == ASSUME NEW c, msgs' = msgs PROVE RowsGrow(c)
BY DEF RowsGrow, RowNrs

LEMMA ReadHistorySound ==
  ASSUME TurnInv, HistoryInv, NEW x \in Call, ReadHistory(x) PROVE HistoryInv'
<1>1. PICK c \in Conv : c = conv[x]
  BY DEF TurnInv, TurnTypes
<1>2. /\ msgs \in [Conv -> Seq(Message)] /\ msgs[c] \in Seq(Message) /\ Len(msgs[c]) \in Nat
      /\ pc \in [Call -> Labels] /\ \A y \in Call : conv[y] \in Conv
  BY DEF TurnInv, TurnTypes
<1>3. /\ pc[x] = "read" /\ pc'[x] = "ask" /\ UNCHANGED <<alive, msgs, conv>>
      /\ \A y \in Call : y # x => pc'[y] = pc[y]
      /\ history' = [history EXCEPT ![x] = Visible(c)]
  BY <1>1, <1>2 DEF ReadHistory, goto, request
<1> DEFINE I == {i \in DOMAIN msgs[c] : msgs[c][i].seen}
           N == Cardinality(I)
<1>4. I \in SUBSET (1 .. Len(msgs[c])) /\ \A i \in 1 .. Len(msgs[c]) : i \in I <=> msgs[c][i].seen = TRUE
  <2>1. DOMAIN msgs[c] = 1 .. Len(msgs[c])
    BY <1>2
  <2>2. ASSUME NEW i \in 1 .. Len(msgs[c]) PROVE msgs[c][i].seen \in BOOLEAN
    <3>1. PICK m \in Message : m = msgs[c][i]
      BY <1>2
    <3>2. m.seen \in BOOLEAN
      BY DEF Message
    <3> QED BY <3>1, <3>2
  <2> QED BY <2>1, <2>2
<1> HIDE DEF I
<1>4a. /\ Cardinality(I) \in Nat
       /\ \E at : Lists(at, msgs[c], I)
  <2>1. PICK n \in Nat : n = Len(msgs[c])
    BY <1>2
  <2>2. I \in SUBSET (1 .. n)
    BY <1>4, <2>1
  <2> QED BY <2>2, SelectLists, Zenon
<1>5. N \in Nat
  BY <1>4a
<1>5a. PICK at : Lists(at, msgs[c], I)
  BY <1>4a
<1>6. /\ at \in [1 .. N -> I]
      /\ \A k, l \in 1 .. N : k < l => at[k] < at[l]
      /\ \A i \in I : \E k \in 1 .. N : at[k] = i
      /\ \A k \in 1 .. N : Select(msgs[c], I)[k] = msgs[c][at[k]]
  BY <1>5a DEF Lists
<1>7. PICK h : h = Visible(c)
  OBVIOUS
<1>8. /\ h = [k \in 1 .. N |-> h[k]] /\ \A k \in 1 .. N : h[k] = msgs[c][at[k]]
  <2>1. Visible(c) = Select(msgs[c], I)
    BY DEF Visible, I
  <2>2. Select(msgs[c], I) = [k \in 1 .. N |-> Select(msgs[c], I)[k]]
    BY DEF Select
  <2> QED BY <1>6, <1>7, <2>1, <2>2
<1>9. \A k \in 1 .. N : /\ at[k] \in 1 .. Len(msgs[c]) /\ msgs[c][at[k]] \in Message
                        /\ msgs[c][at[k]].seen = TRUE
  <2> SUFFICES ASSUME NEW k \in 1 .. N
               PROVE  /\ at[k] \in 1 .. Len(msgs[c]) /\ msgs[c][at[k]] \in Message
                      /\ msgs[c][at[k]].seen = TRUE
    OBVIOUS
  <2>1. PICK i \in I : i = at[k]
    BY <1>6
  <2>2. i \in 1 .. Len(msgs[c]) /\ msgs[c][i].seen = TRUE
    BY <1>4, <2>1
  <2> QED BY <1>2, <2>1, <2>2
<1>10. h \in Seq(Message) /\ Len(h) = N
  <2>1. h \in [1 .. N -> Message]
    BY <1>8, <1>9
  <2> QED BY <1>5, <2>1
<1> HIDE DEF N
<1>11. PartOf(h, msgs[c])
  <2>1. ASSUME NEW i \in 1 .. N, NEW k \in 1 .. Len(msgs[c]), msgs[c][k] = h[i] PROVE k = at[i]
    <3>1. msgs[c][k] = msgs[c][at[i]] /\ at[i] \in 1 .. Len(msgs[c])
      BY <1>8, <1>9, <2>1
    <3> QED BY <3>1 DEF TurnInv, RowsSound, RowNrs
  <2>2. ASSUME NEW i \in 1 .. N PROVE \E k \in 1 .. Len(msgs[c]) : msgs[c][k] = h[i]
    BY <1>8, <1>9
  <2>3. ASSUME NEW i \in 1 .. N, NEW j \in 1 .. N, NEW k \in 1 .. Len(msgs[c]), NEW l \in 1 .. Len(msgs[c]),
               i < j, msgs[c][k] = h[i], msgs[c][l] = h[j]
        PROVE  k < l
    <3>1. k = at[i] /\ l = at[j]
      BY <2>1, <2>3
    <3> QED BY <1>6, <2>3, <3>1
  <2> QED BY <1>10, <2>2, <2>3 DEF PartOf
<1>12. \A i \in 1 .. Len(h) : h[i].seen = TRUE
  BY <1>8, <1>9, <1>10
<1>13. c \in alive => \E i \in 1 .. Len(h) : h[i].call = x
  <2> SUFFICES ASSUME c \in alive PROVE \E i \in 1 .. Len(h) : h[i].call = x
    OBVIOUS
  <2>1. PICK j \in 1 .. Len(msgs[c]) : msgs[c][j].call = x /\ msgs[c][j].seen = TRUE
    BY <1>1, <1>3 DEF HistoryInv, HistorySound, RowNrs
  <2>2. PICK k \in 1 .. N : at[k] = j
    BY <1>4, <1>6, <2>1
  <2> QED BY <1>8, <1>10, <2>1, <2>2
<1>14. HistorySound(x)'
  <2>1. history'[x] = h /\ conv'[x] = c /\ msgs' = msgs /\ alive' = alive
    BY <1>1, <1>3, <1>7 DEF HistoryInv
  <2>2. PartOf(history[x], msgs[conv[x]])'
    BY <1>11, <2>1 DEF PartOf
  <2> QED BY <1>3, <1>10, <1>12, <1>13, <2>1, <2>2 DEF HistorySound
<1>15. ASSUME NEW y \in Call, y # x PROVE HistorySound(y)'
  <2>1. history'[y] = history[y] /\ HistorySound(y) /\ RowsGrow(conv[y])
    BY <1>3, <1>15, SameRowsGrow DEF HistoryInv
  <2> QED BY <1>2, <1>3, <1>15, <2>1, HistoryKept
<1>16. history' \in [Call -> Seq(Message)]
  BY <1>3, <1>7, <1>10 DEF HistoryInv
<1> QED BY <1>14, <1>15, <1>16 DEF HistoryInv

LEMMA QuietHistory ==
  ASSUME TurnInv, HistoryInv, NEW x \in Call, NEW a, NEW b,
         Begin(x, b) \/ Fails(x, a) \/ Accepted(x) \/ Delta(x) \/ Sentinel(x)
           \/ Breaks(x) \/ Leaves(x, b)
  PROVE  HistoryInv'
<1>1. /\ msgs \in [Conv -> Seq(Message)] /\ pc \in [Call -> Labels] /\ \A y \in Call : conv[y] \in Conv
  BY DEF TurnInv, TurnTypes
<1>2. /\ UNCHANGED <<alive, msgs, conv, history>>
      /\ \A y \in Call : /\ pc'[y] \in Sending => pc[y] \in Sending
                         /\ pc'[y] = "read" => pc[y] = "read"
  BY <1>1 DEF Begin, Fails, Accepted, Delta, Sentinel, Breaks, Leaves, goto, request, Sending
<1>3. ASSUME NEW y \in Call PROVE HistorySound(y)'
  <2>1. HistorySound(y) /\ RowsGrow(conv[y])
    BY <1>2, SameRowsGrow DEF HistoryInv
  <2> QED BY <1>1, <1>2, <2>1, HistoryKept
<1> QED BY <1>2, <1>3 DEF HistoryInv

\* An INSERT that is not committed yet.
LEMMA InsertHistory ==
  ASSUME TurnInv, HistoryInv, NEW x \in Call, Persist(x) \/ Store(x) PROVE HistoryInv'
<1>1. /\ msgs \in [Conv -> Seq(Message)] /\ pc \in [Call -> Labels] /\ \A y \in Call : conv[y] \in Conv
  BY DEF TurnInv, TurnTypes
<1>2. PICK c \in Conv : c = conv[x]
  BY <1>1
<1>3. /\ UNCHANGED <<alive, conv, history>>
      /\ \A y \in Call : /\ pc'[y] \in Sending => pc[y] \in Sending
                         /\ pc'[y] = "read" => pc[y] = "read"
  BY <1>1 DEF Persist, Store, goto, request, Sending
<1>4. ASSUME NEW d \in Conv PROVE RowsGrow(d)
  <2>1. CASE msgs' = msgs
    BY <2>1, SameRowsGrow
  <2>2. CASE \E r, g : msgs' = [msgs EXCEPT ![c] = Append(msgs[c], [role |-> r, image |-> g, call |-> x, seen |-> FALSE])]
    <3>1. PICK row : row.seen = FALSE /\ msgs' = [msgs EXCEPT ![c] = Append(msgs[c], row)]
      BY <2>2
    <3>2. CASE d # c
      BY <1>1, <3>1, <3>2 DEF RowsGrow, RowNrs
    <3>3. CASE d = c
      <4>1. PICK n \in Nat : n = Len(msgs[c]) /\ msgs[c] \in Seq(Message)
        BY <1>1
      <4>2. /\ Len(msgs'[c]) = n + 1 /\ msgs'[c][n + 1] = row
            /\ \A k \in 1 .. n : msgs'[c][k] = msgs[c][k]
        BY <1>1, <3>1, <4>1
      <4>3. RowNrs(c) = 1 .. n /\ RowNrs(c)' = 1 .. n + 1
        BY <4>1, <4>2 DEF RowNrs
      <4>4. ASSUME NEW m \in Message, m.seen = TRUE, NEW k \in 1 .. n, msgs[c][k] = m
            PROVE  k \in 1 .. n + 1 /\ msgs'[c][k] = m
        BY <4>2, <4>4
      <4>5. ASSUME NEW m \in Message, m.seen = TRUE, NEW k \in 1 .. n + 1, msgs'[c][k] = m
            PROVE  k \in 1 .. n /\ msgs[c][k] = m
        <5>1. k # n + 1
          BY <3>1, <4>2, <4>5
        <5> QED BY <4>2, <4>5, <5>1
      <4> QED BY <3>3, <4>3, <4>4, <4>5 DEF RowsGrow
    <3> QED BY <3>2, <3>3
  <2>3. msgs' = msgs \/ \E r, g : msgs' = [msgs EXCEPT ![c] = Append(msgs[c], [role |-> r, image |-> g, call |-> x, seen |-> FALSE])]
    BY <1>2 DEF Persist, Store, Insert, Reply
  <2> QED BY <2>1, <2>2, <2>3
<1>5. ASSUME NEW y \in Call PROVE HistorySound(y)'
  <2>1. HistorySound(y) /\ RowsGrow(conv[y])
    BY <1>1, <1>4 DEF HistoryInv
  <2> QED BY <1>1, <1>3, <2>1, HistoryKept
<1> QED BY <1>3, <1>5 DEF HistoryInv

LEMMA CommitHistory ==
  ASSUME TurnInv, HistoryInv, NEW x \in Call, Persisted(x) \/ Stored(x) PROVE HistoryInv'
<1>1. /\ msgs \in [Conv -> Seq(Message)] /\ pc \in [Call -> Labels] /\ \A y \in Call : conv[y] \in Conv
  BY DEF TurnInv, TurnTypes
<1>2. PICK c \in Conv, n \in Nat : c = conv[x] /\ n = Len(msgs[c]) /\ msgs[c] \in Seq(Message)
  BY <1>1
<1>3. /\ UNCHANGED <<alive, conv, history>>
      /\ \A y \in Call : y # x => pc'[y] = pc[y]
      /\ pc'[x] = "end" \/ (pc'[x] = "read" /\ pc[x] = "persisting")
  BY <1>1 DEF Persisted, Stored, goto, request
<1>4. msgs' = [msgs EXCEPT ![c] = [i \in DOMAIN msgs[c] |-> IF msgs[c][i].call = x
                                              THEN [msgs[c][i] EXCEPT !.seen = TRUE] ELSE msgs[c][i]]]
  BY <1>2 DEF Persisted, Stored, Commit
<1>5. /\ DOMAIN msgs[c] = 1 .. n /\ RowNrs(c) = 1 .. n
      /\ \A d \in Conv : d # c => msgs'[d] = msgs[d]
      /\ msgs'[c] = [i \in 1 .. n |-> IF msgs[c][i].call = x
                       THEN [msgs[c][i] EXCEPT !.seen = TRUE] ELSE msgs[c][i]]
  <2>1. DOMAIN msgs[c] = 1 .. n /\ RowNrs(c) = 1 .. n
    BY <1>2 DEF RowNrs
  <2>2. PICK rows : rows = [i \in 1 .. n |-> IF msgs[c][i].call = x
                              THEN [msgs[c][i] EXCEPT !.seen = TRUE] ELSE msgs[c][i]]
    OBVIOUS
  <2>3. msgs' = [msgs EXCEPT ![c] = rows]
    BY <1>4, <2>1, <2>2
  <2>4. msgs'[c] = rows /\ \A d \in Conv : d # c => msgs'[d] = msgs[d]
    BY <1>1, <2>3
  <2> QED BY <2>1, <2>2, <2>4
<1>6. RowNrs(c)' = 1 .. n
  BY <1>5 DEF RowNrs
<1>7. ASSUME NEW i \in 1 .. n
      PROVE  /\ msgs'[c][i].call = msgs[c][i].call /\ msgs'[c][i].role = msgs[c][i].role
             /\ msgs[c][i].seen = TRUE => msgs'[c][i] = msgs[c][i]
             /\ msgs[c][i].call = x => msgs'[c][i].seen = TRUE
  <2>1. PICK m \in Message : m = msgs[c][i]
    BY <1>2
  <2>2. msgs'[c][i] = IF m.call = x THEN [m EXCEPT !.seen = TRUE] ELSE m
    BY <1>5, <2>1
  <2>3. PICK e \in Message : e = [m EXCEPT !.seen = TRUE]
    BY DEF Message
  <2>4. e.call = m.call /\ e.role = m.role /\ e.seen = TRUE /\ (m.seen = TRUE => e = m)
    BY <2>3 DEF Message
  <2> QED BY <2>1, <2>2, <2>3, <2>4
<1>8. ASSUME NEW d \in Conv PROVE RowsGrow(d)
  <2>1. CASE d # c
    BY <1>5, <2>1 DEF RowsGrow, RowNrs
  <2>2. CASE d = c
    <3>1. ASSUME NEW m \in Message, m.seen = TRUE, NEW k \in 1 .. n, msgs[c][k] = m
          PROVE  msgs'[c][k] = m
      BY <1>7, <3>1
    <3>2. ASSUME NEW m \in Message, m.seen = TRUE, NEW k \in 1 .. n, msgs'[c][k] = m,
                 NEW j \in 1 .. n, msgs[c][j] = m
          PROVE  msgs[c][k] = m
      <4>1. msgs[c][k].call = msgs[c][j].call /\ msgs[c][k].role = msgs[c][j].role
        BY <1>7, <3>2
      <4>2. k = j
        BY <1>5, <4>1 DEF TurnInv, RowsSound
      <4> QED BY <3>2, <4>2
    <3>3. RowNrs(c) = 1 .. n /\ RowNrs(c)' = 1 .. n
      BY <1>5, <1>6
    <3> QED BY <2>2, <3>1, <3>2, <3>3 DEF RowsGrow
  <2> QED BY <2>1, <2>2
<1>9. ASSUME NEW y \in Call, y # x PROVE HistorySound(y)'
  <2>1. HistorySound(y) /\ RowsGrow(conv[y]) /\ history'[y] = history[y] /\ pc'[y] = pc[y]
    BY <1>1, <1>3, <1>8, <1>9 DEF HistoryInv
  <2> QED BY <1>1, <1>3, <2>1, HistoryKept
<1>10. HistorySound(x)'
  <2>1. history'[x] \in Seq(Message) /\ pc'[x] \notin Sending /\ conv'[x] = c
    BY <1>2, <1>3 DEF HistoryInv, Sending
  <2>2. ASSUME pc'[x] = "read", c \in alive'
        PROVE  \E i \in RowNrs(c)' : msgs'[c][i].call = x /\ msgs'[c][i].seen = TRUE
    <3>1. pc[x] = "persisting" /\ c \in alive
      BY <1>3, <2>2
    <3>2. PICK i \in 1 .. n : msgs[c][i].call = x
      BY <1>2, <1>5, <3>1 DEF TurnInv, CallSound, RowOf
    <3> QED BY <1>6, <1>7, <3>2
  <2> QED BY <2>1, <2>2 DEF HistorySound
<1> QED BY <1>3, <1>9, <1>10 DEF HistoryInv

LEMMA DeleteHistory ==
  ASSUME TurnInv, HistoryInv, NEW c \in Conv, delete_conversation(c) PROVE HistoryInv'
<1>1. /\ msgs \in [Conv -> Seq(Message)] /\ \A y \in Call : conv[y] \in Conv
  BY DEF TurnInv, TurnTypes
<1>2. /\ alive' = alive \ {c} /\ UNCHANGED <<pc, conv, history>>
      /\ \A d \in Conv : d # c => msgs'[d] = msgs[d]
  BY <1>1 DEF delete_conversation, request
<1>3. ASSUME NEW y \in Call PROVE HistorySound(y)'
  <2>1. HistorySound(y)
    BY DEF HistoryInv
  <2>2. conv[y] \in alive' => conv[y] \in alive /\ RowsGrow(conv[y])
    BY <1>1, <1>2 DEF RowsGrow, RowNrs
  <2> QED BY <1>1, <1>2, <2>1, <2>2, HistoryKept
<1> QED BY <1>2, <1>3 DEF HistoryInv

LEMMA InitHistoryInv == Init => HistoryInv
<1> SUFFICES ASSUME Init PROVE HistoryInv
  OBVIOUS
<1>1. history \in [Call -> Seq(Message)]
  BY DEF Init
<1>2. ASSUME NEW x \in Call PROVE pc[x] \notin Sending /\ pc[x] # "read"
  BY DEF Init, Sending
<1> QED BY <1>1, <1>2 DEF HistoryInv, HistorySound

LEMMA HistoryStep == TurnInv /\ HistoryInv /\ [Next]_vars => HistoryInv'
<1> SUFFICES ASSUME TurnInv, HistoryInv, [Next]_vars PROVE HistoryInv'
  OBVIOUS
<1>1. ASSUME NEW x \in Call, Step(x) PROVE HistoryInv'
  BY <1>1, QuietHistory, InsertHistory, CommitHistory, ReadHistorySound DEF Step
<1>2. ASSUME NEW c \in Conv, delete_conversation(c) PROVE HistoryInv'
  BY <1>2, DeleteHistory
<1>3. CASE UNCHANGED vars
  <2>1. /\ UNCHANGED <<alive, msgs, pc, conv, history>> /\ msgs \in [Conv -> Seq(Message)]
        /\ \A y \in Call : conv[y] \in Conv
    BY <1>3 DEF vars, request, TurnInv, TurnTypes
  <2>2. ASSUME NEW y \in Call PROVE HistorySound(y)'
    <3>1. HistorySound(y) /\ RowsGrow(conv[y])
      BY <2>1, SameRowsGrow DEF HistoryInv
    <3> QED BY <2>1, <3>1, HistoryKept
  <2> QED BY <2>1, <2>2 DEF HistoryInv
<1> QED BY <1>1, <1>2, <1>3 DEF Next

\* Whatever requests run at the same time and however each of them ends, a
\* conversation keeps the turns and replies of its calls in pairs, no reply of a
\* call that failed, and what a call sends is part of what the conversation holds,
\* its own turn included (chat, chat_stream, delete_conversation).
THEOREM TurnsSoundHolds == Spec => []TurnsSound
<1>1. TurnInv /\ HistoryInv => TurnsSound
  <2> SUFFICES ASSUME TurnInv, HistoryInv PROVE TurnsSound
    OBVIOUS
  <2>1. TurnsPaired /\ NoErrorTurns
    BY TurnInvPaired
  <2>2. HistoryCurrent
    BY DEF HistoryInv, HistorySound, HistoryCurrent, Sending
  <2> QED BY <2>1, <2>2 DEF TurnsSound
<1> QED BY <1>1, InitTurnInv, TurnStep, InitHistoryInv, HistoryStep, PTL DEF Spec

-----------------------------------------------------------------------------
(* The page.  The message, the upload and the contexts under way belong to the *)
(* conversation they will reach.                                               *)

Place == Convo \cup {NoConvo}
UserTurn == [role : {"user"}, typed : Place, files : SUBSET Place]
ReplyTurn == [role |-> "assistant"]
SenderType == [at : {"create", "push", "stream", "refused", "reload"}, conv : Place,
               typed : Place, files : SUBSET Place]
AttachType == [at : {"create", "upload"}, conv : Place]

ChatTypes ==
  /\ created \subseteq Convo /\ activeId \in Place
  /\ stored \in [Convo -> Seq(UserTurn \cup {ReplyTurn})]
  /\ sender \in SenderType \cup {NotSending}
  /\ attach \in AttachType \cup {NotAttaching}
  /\ context \in Place \cup {NoContext} /\ pending \subseteq Place
  /\ strayed \in BOOLEAN

\* A turn of conversation c was typed there, and unless something strayed so were
\* its files.
TurnAsTyped(c, m) ==
  m.role = "user" => m.typed = c /\ (strayed = FALSE => m.files \subseteq {c})
StoredAsTyped == \A c \in Convo : \A i \in 1 .. Len(stored[c]) : TurnAsTyped(c, stored[c][i])

\* The message under way is for the conversation it was typed in.
SenderSound ==
  /\ sender.at = "create" /\ strayed = FALSE => sender.files \subseteq {NoConvo}
  /\ sender.at = "push" => /\ sender.typed = sender.conv /\ sender.conv \in Convo
                           /\ strayed = FALSE => sender.files \subseteq {sender.conv}
  /\ sender.at = "stream" => sender.conv \in Convo

\* What is attached, and what is on its way, is the open conversation's.
PendingSound ==
  strayed = FALSE => /\ pending \subseteq {activeId}
                     /\ attach.at = "upload" => attach.conv = activeId
                     /\ context # NoContext => context = activeId
AttachSound == attach.at = "upload" => attach.conv \in Convo

ChatInv == ChatTypes /\ StoredAsTyped /\ SenderSound /\ PendingSound /\ AttachSound

\* The stream and the replies still to be stored are of conversations the API has.
OwedSound ==
  /\ \A o \in owed : o[1] \in created
  /\ sender.at = "stream" => sender.conv \in created

LEMMA InitChatInv == PageInit => ChatInv
<1> SUFFICES ASSUME PageInit PROVE ChatInv
  OBVIOUS
<1>1. strayed \in BOOLEAN
  BY Zenon DEF PageInit
<1>2. /\ created = {} /\ stored = [c \in Convo |-> <<>>] /\ activeId = NoConvo
      /\ sender = NotSending /\ attach = NotAttaching /\ context = NoContext /\ pending = {}
  BY DEF PageInit
<1>3. ChatTypes
  BY <1>1, <1>2 DEF ChatTypes, Place
<1>4. StoredAsTyped
  BY <1>2 DEF StoredAsTyped
<1>5. sender.at = "none" /\ attach.at = "none"
  BY <1>2 DEF NotSending, NotAttaching
<1> QED BY <1>2, <1>3, <1>4, <1>5 DEF ChatInv, SenderSound, PendingSound, AttachSound

\* strayed never falls back.
LEMMA StoredKept ==
  ASSUME ChatInv, stored' = stored, strayed' \in BOOLEAN, strayed = TRUE => strayed' = TRUE
  PROVE  StoredAsTyped'
<1>1. strayed' = FALSE => strayed = FALSE
  BY DEF ChatInv, ChatTypes
<1>2. ASSUME NEW c \in Convo, NEW i \in 1 .. Len(stored[c]) PROVE TurnAsTyped(c, stored[c][i])'
  <2>1. TurnAsTyped(c, stored[c][i])
    BY DEF ChatInv, StoredAsTyped
  <2> QED BY <1>1, <2>1 DEF TurnAsTyped
<1> QED BY <1>2 DEF StoredAsTyped

LEMMA StoredAppend ==
  ASSUME ChatInv, NEW c \in Convo, NEW m \in UserTurn \cup {ReplyTurn}, TurnAsTyped(c, m),
         stored' = [stored EXCEPT ![c] = Append(@, m)], strayed' = strayed
  PROVE  StoredAsTyped' /\ stored' \in [Convo -> Seq(UserTurn \cup {ReplyTurn})]
<1>1. stored \in [Convo -> Seq(UserTurn \cup {ReplyTurn})] /\ stored[c] \in Seq(UserTurn \cup {ReplyTurn})
  BY DEF ChatInv, ChatTypes
<1>2. stored'[c] = Append(stored[c], m) /\ \A d \in Convo : d # c => stored'[d] = stored[d]
  BY <1>1
<1>3. ASSUME NEW d \in Convo, NEW i \in 1 .. Len(stored'[d]) PROVE TurnAsTyped(d, stored[d][i])'
  <2>1. CASE d = c /\ i = Len(stored[c]) + 1
    <3>1. stored'[d][i] = m
      BY <1>1, <1>2, <2>1
    <3> QED BY <2>1, <3>1 DEF TurnAsTyped
  <2>2. CASE d = c /\ i # Len(stored[c]) + 1
    <3>1. i \in 1 .. Len(stored[d]) /\ stored'[d][i] = stored[d][i]
      BY <1>1, <1>2, <2>2
    <3> QED BY <3>1 DEF TurnAsTyped, ChatInv, StoredAsTyped
  <2>3. CASE d # c
    <3>1. i \in 1 .. Len(stored[d]) /\ stored'[d][i] = stored[d][i]
      BY <1>2, <2>3
    <3> QED BY <3>1 DEF TurnAsTyped, ChatInv, StoredAsTyped
  <2> QED BY <2>1, <2>2, <2>3
<1> QED BY <1>1, <1>3 DEF StoredAsTyped

LEMMA OpenConversationStep ==
  ASSUME ChatInv, NEW l \in Loading, NEW c \in Convo, openConversation(l, c) PROVE ChatInv'
<1>1. /\ c \in created /\ activeId' = c
      /\ UNCHANGED <<created, stored, sender, attach, context, pending>>
  BY DEF openConversation
<1>2. strayed' = (strayed \/ (c # activeId /\ WithFiles))
  BY DEF openConversation
<1>3. strayed' \in BOOLEAN /\ (strayed = TRUE => strayed' = TRUE)
  BY <1>2, Zenon
<1>4. ChatTypes'
  BY <1>1, <1>3 DEF ChatInv, ChatTypes, Place
<1>5. SenderSound'
  BY <1>1, <1>3 DEF ChatInv, ChatTypes, SenderSound
<1>6. PendingSound'
  <2> SUFFICES ASSUME strayed' = FALSE
               PROVE  /\ pending \subseteq {c} /\ (attach.at = "upload" => attach.conv = c)
                      /\ (context # NoContext => context = c)
    BY <1>1 DEF PendingSound
  <2>1. strayed = FALSE /\ (c = activeId \/ ~WithFiles)
    BY <1>2 DEF ChatInv, ChatTypes
  <2>2. CASE ~WithFiles
    BY <2>2 DEF WithFiles, Awaited, NotAttaching
  <2>3. CASE c = activeId
    BY <2>1, <2>3 DEF ChatInv, PendingSound
  <2> QED BY <2>1, <2>2, <2>3
<1> QED BY <1>1, <1>3, <1>4, <1>5, <1>6, StoredKept DEF ChatInv, AttachSound

LEMMA NewChatStep == ASSUME ChatInv, newChat PROVE ChatInv'
<1>1. /\ activeId' = NoConvo /\ pending' = {}
      /\ UNCHANGED <<created, stored, sender, attach, context>>
  BY DEF newChat
<1>2. strayed' = (strayed \/ Awaited)
  BY DEF newChat
<1>3. strayed' \in BOOLEAN /\ (strayed = TRUE => strayed' = TRUE)
  BY <1>2, Zenon
<1>4. ChatTypes'
  BY <1>1, <1>3 DEF ChatInv, ChatTypes, Place
<1>5. SenderSound'
  BY <1>1, <1>3 DEF ChatInv, ChatTypes, SenderSound
<1>6. PendingSound'
  <2>1. strayed' = FALSE => ~Awaited
    BY <1>2
  <2> QED BY <1>1, <2>1 DEF PendingSound, Awaited, NotAttaching
<1> QED BY <1>1, <1>3, <1>4, <1>5, <1>6, StoredKept DEF ChatInv, AttachSound

LEMMA SendStep == ASSUME ChatInv, send PROVE ChatInv'
<1> DEFINE q == [at |-> IF activeId = NoConvo THEN "create" ELSE "push", conv |-> activeId,
                 typed |-> activeId, files |-> pending]
<1>1. /\ sender' = q /\ pending' = {}
      /\ UNCHANGED <<created, stored, activeId, attach, context, strayed>>
  BY DEF send
<1>2. /\ q \in SenderType /\ q.conv = activeId /\ q.typed = activeId /\ q.files = pending
      /\ q.at = IF activeId = NoConvo THEN "create" ELSE "push"
  BY DEF ChatInv, ChatTypes, SenderType, Place
<1> HIDE DEF q
<1>3. ChatTypes'
  BY <1>1, <1>2 DEF ChatInv, ChatTypes
<1>4. SenderSound'
  BY <1>1, <1>2 DEF ChatInv, ChatTypes, SenderSound, PendingSound, Place
<1>5. PendingSound'
  BY <1>1 DEF ChatInv, PendingSound
<1> QED BY <1>1, <1>3, <1>4, <1>5, StoredKept DEF ChatInv, AttachSound, ChatTypes

LEMMA NamedFacts ==
  ASSUME NEW c \in Convo, NEW S \in SUBSET Place
  PROVE  Named(S, c) \subseteq Place /\ (S \subseteq {NoConvo} => Named(S, c) \subseteq {c})
BY DEF Named, Place

\* A conversation is created and opened: what was attached without one goes with it.
LEMMA AdoptFacts ==
  ASSUME ChatInv, NEW c \in Convo, Adopt(c), activeId' = c,
         activeId = NoConvo \/ (pending = {} /\ context = NoContext)
  PROVE  /\ pending' \subseteq Place /\ context' \in Place \cup {NoContext}
         /\ strayed = FALSE => pending' \subseteq {c} /\ (context' # NoContext => context' = c)
<1>1. CASE activeId = NoConvo
  <2>1. pending' = Named(pending, c) /\ context' = (IF context = NoConvo THEN c ELSE context)
    BY <1>1 DEF Adopt
  <2> QED BY <1>1, <2>1, NamedFacts DEF ChatInv, ChatTypes, PendingSound, Place
<1>2. CASE activeId # NoConvo
  BY <1>2 DEF Adopt, ChatInv, ChatTypes
<1> QED BY <1>1, <1>2

LEMMA AdoptTypes ==
  ASSUME ChatInv, NEW c \in Convo, Adopt(c)
  PROVE  pending' \subseteq Place /\ context' \in Place \cup {NoContext}
BY NamedFacts DEF Adopt, ChatInv, ChatTypes, Place

LEMMA CreatedStep == ASSUME ChatInv, NEW c \in Convo, Created(c) PROVE ChatInv'
<1> DEFINE q == [sender EXCEPT !.at = "push", !.conv = c, !.typed = c, !.files = Named(sender.files, c)]
<1>1. /\ sender.at = "create" /\ created' = created \cup {c} /\ activeId' = c
      /\ sender' = q /\ Adopt(c) /\ UNCHANGED <<stored, attach>>
  BY DEF Created
<1>2. strayed' = (strayed \/ (activeId # NoConvo /\ WithFiles))
  BY DEF Created
<1>3. strayed' \in BOOLEAN /\ (strayed = TRUE => strayed' = TRUE)
  BY <1>2, Zenon
<1>4. sender \in SenderType
  BY <1>1 DEF ChatInv, ChatTypes, NotSending
<1>5. sender.files \in SUBSET Place /\ Named(sender.files, c) \in SUBSET Place
  BY <1>4, NamedFacts DEF SenderType
<1>6. /\ q \in SenderType /\ q.at = "push" /\ q.conv = c /\ q.typed = c
      /\ q.files = Named(sender.files, c)
  BY <1>4, <1>5 DEF SenderType, Place
<1> HIDE DEF q
<1>7. pending' \subseteq Place /\ context' \in Place \cup {NoContext}
  BY <1>1, AdoptTypes
<1>8. ChatTypes'
  BY <1>1, <1>3, <1>6, <1>7 DEF ChatInv, ChatTypes, Place
<1>9. SenderSound'
  <2>1. strayed' = FALSE => q.files \subseteq {c}
    BY <1>1, <1>3, <1>5, <1>6, NamedFacts DEF ChatInv, ChatTypes, SenderSound
  <2> QED BY <1>1, <1>6, <2>1 DEF SenderSound
<1>10. PendingSound'
  <2> SUFFICES ASSUME strayed' = FALSE
               PROVE  /\ pending' \subseteq {c} /\ (attach.at = "upload" => attach.conv = c)
                      /\ (context' # NoContext => context' = c)
    BY <1>1 DEF PendingSound
  <2>1. strayed = FALSE /\ (activeId = NoConvo \/ ~WithFiles)
    BY <1>2 DEF ChatInv, ChatTypes
  <2>2. pending' \subseteq {c} /\ (context' # NoContext => context' = c)
    BY <1>1, <2>1, AdoptFacts DEF WithFiles, Awaited
  <2>3. attach.at # "upload"
    <3>1. CASE activeId = NoConvo
      BY <2>1, <3>1, PageAssumption DEF ChatInv, PendingSound, AttachSound
    <3>2. CASE ~WithFiles
      BY <3>2 DEF WithFiles, Awaited, NotAttaching
    <3> QED BY <2>1, <3>1, <3>2
  <2> QED BY <2>2, <2>3
<1> QED BY <1>1, <1>3, <1>8, <1>9, <1>10, StoredKept DEF ChatInv, AttachSound

LEMMA AttachCreatedStep == ASSUME ChatInv, NEW c \in Convo, AttachCreated(c) PROVE ChatInv'
<1> DEFINE q == [at |-> "upload", conv |-> c]
<1>1. /\ created' = created \cup {c} /\ activeId' = c /\ attach' = q
      /\ Adopt(c) /\ UNCHANGED <<stored, sender>>
  BY DEF AttachCreated
<1>2. strayed' = (strayed \/ activeId # NoConvo)
  BY DEF AttachCreated
<1>3. strayed' \in BOOLEAN /\ (strayed = TRUE => strayed' = TRUE)
  BY <1>2, Zenon
<1>4. q \in AttachType /\ q.at = "upload" /\ q.conv = c
  BY DEF AttachType, Place
<1> HIDE DEF q
<1>5. ChatTypes'
  BY <1>1, <1>3, <1>4, AdoptTypes DEF ChatInv, ChatTypes, Place
<1>6. SenderSound'
  BY <1>1, <1>3 DEF ChatInv, ChatTypes, SenderSound
<1>7. PendingSound'
  <2>1. strayed' = FALSE => strayed = FALSE /\ activeId = NoConvo
    BY <1>2 DEF ChatInv, ChatTypes
  <2> QED BY <1>1, <1>4, <2>1, AdoptFacts DEF PendingSound
<1>8. AttachSound'
  BY <1>1, <1>4 DEF AttachSound
<1> QED BY <1>1, <1>3, <1>5, <1>6, <1>7, <1>8, StoredKept DEF ChatInv

LEMMA PushStep == ASSUME ChatInv, Push PROVE ChatInv'
<1> DEFINE q == [sender EXCEPT !.at = "stream", !.conv = sender.conv]
           m == [role |-> "user", typed |-> sender.typed, files |-> sender.files]
<1>1. /\ sender.at = "push" /\ sender' = q
      /\ stored' = [stored EXCEPT ![sender.conv] = Append(@, m)]
      /\ UNCHANGED <<created, activeId, attach, context, pending, strayed>>
  BY DEF Push, Target
<1>2. sender \in SenderType /\ sender.conv \in Convo
  BY <1>1 DEF ChatInv, ChatTypes, NotSending, SenderSound
<1>3. q \in SenderType /\ q.at = "stream" /\ q.conv = sender.conv
  BY <1>2 DEF SenderType
<1>4. m \in UserTurn /\ TurnAsTyped(sender.conv, m)
  BY <1>1, <1>2 DEF SenderType, UserTurn, TurnAsTyped, ChatInv, SenderSound
<1> HIDE DEF q, m
<1>5. StoredAsTyped' /\ stored' \in [Convo -> Seq(UserTurn \cup {ReplyTurn})]
  BY <1>1, <1>2, <1>4, StoredAppend
<1>6. ChatTypes'
  BY <1>1, <1>3, <1>5 DEF ChatInv, ChatTypes
<1>7. SenderSound'
  BY <1>1, <1>2, <1>3 DEF SenderSound
<1> QED BY <1>1, <1>5, <1>6, <1>7 DEF ChatInv, PendingSound, AttachSound

\* The API stores a reply.
LEMMA StoresStep == ASSUME ChatInv, OwedSound, NEW o \in owed, Stores(o) PROVE ChatInv'
<1>1. /\ stored' = [stored EXCEPT ![o[1]] = Append(@, ReplyTurn)]
      /\ UNCHANGED <<created, activeId, sender, attach, context, pending, strayed>>
  BY DEF Stores, ReplyTurn
<1>2. o[1] \in Convo
  BY DEF OwedSound, ChatInv, ChatTypes
<1>3. TurnAsTyped(o[1], ReplyTurn)
  BY DEF TurnAsTyped, ReplyTurn
<1>4. StoredAsTyped' /\ stored' \in [Convo -> Seq(UserTurn \cup {ReplyTurn})]
  BY <1>1, <1>2, <1>3, StoredAppend
<1>5. ChatTypes'
  BY <1>1, <1>4 DEF ChatInv, ChatTypes
<1> QED BY <1>1, <1>4, <1>5 DEF ChatInv, PendingSound, AttachSound, SenderSound

\* The sender goes on or ends, and nothing else that matters changes.
LEMMA SenderEndsStep ==
  ASSUME ChatInv, onError \/ ErrorEnds \/ Reloaded \/ \E kept \in BOOLEAN : StreamEnds(kept) \/ SendFails(kept)
  PROVE  ChatInv'
<1>1. UNCHANGED <<created, stored, activeId, attach, context, pending, strayed>>
  BY DEF onError, ErrorEnds, Reloaded, StreamEnds, SendFails
<1>2. sender' \in SenderType \cup {NotSending} /\ sender'.at \in {"refused", "reload", "none"}
  <2>1. CASE onError
    <3>1. sender \in SenderType /\ sender' = [sender EXCEPT !.at = "refused"]
      BY <2>1 DEF onError, ChatInv, ChatTypes, NotSending
    <3> QED BY <3>1 DEF SenderType
  <2>2. CASE \E kept \in BOOLEAN : StreamEnds(kept)
    <3>1. sender \in SenderType /\ sender' = [sender EXCEPT !.at = "reload"]
      BY <2>2 DEF StreamEnds, ChatInv, ChatTypes, NotSending
    <3> QED BY <3>1 DEF SenderType
  <2>3. CASE ErrorEnds \/ Reloaded \/ \E kept \in BOOLEAN : SendFails(kept)
    BY <2>3 DEF ErrorEnds, Reloaded, SendFails, NotSending
  <2> QED BY <2>1, <2>2, <2>3
<1>3. ChatTypes'
  BY <1>1, <1>2 DEF ChatInv, ChatTypes
<1> QED BY <1>1, <1>2, <1>3, StoredKept DEF ChatInv, ChatTypes, PendingSound, AttachSound, SenderSound

LEMMA AttachStep ==
  ASSUME ChatInv, attachFile \/ Uploaded \/ AttachFails
  PROVE  ChatInv'
<1>1. UNCHANGED <<created, stored, activeId, sender, context, strayed>>
  BY DEF attachFile, Uploaded, AttachFails
<1>2. CASE attachFile
  <2> DEFINE q == [at |-> IF activeId = NoConvo THEN "create" ELSE "upload", conv |-> activeId]
  <2>1. attach' = q /\ pending' = pending
    BY <1>2 DEF attachFile
  <2>2. /\ q \in AttachType /\ q.conv = activeId
        /\ q.at = IF activeId = NoConvo THEN "create" ELSE "upload"
    BY DEF AttachType, ChatInv, ChatTypes
  <2> HIDE DEF q
  <2>3. ChatTypes'
    BY <1>1, <2>1, <2>2 DEF ChatInv, ChatTypes
  <2>4. PendingSound' /\ AttachSound'
    BY <1>1, <2>1, <2>2 DEF ChatInv, ChatTypes, PendingSound, AttachSound, Place
  <2> QED BY <1>1, <2>3, <2>4, StoredKept DEF ChatInv, ChatTypes, SenderSound
<1>3. CASE Uploaded
  <2>1. attach.at = "upload" /\ attach' = NotAttaching /\ pending' = pending \cup {attach.conv}
    BY <1>3 DEF Uploaded
  <2>2. NotAttaching.at = "none"
    BY DEF NotAttaching
  <2>3. ChatTypes'
    BY <1>1, <2>1 DEF ChatInv, ChatTypes, AttachSound, Place
  <2>4. PendingSound' /\ AttachSound'
    BY <1>1, <2>1, <2>2 DEF ChatInv, PendingSound, AttachSound
  <2> QED BY <1>1, <2>3, <2>4, StoredKept DEF ChatInv, ChatTypes, SenderSound
<1>4. CASE AttachFails
  <2>1. attach' = NotAttaching /\ pending' = pending
    BY <1>4 DEF AttachFails
  <2>2. NotAttaching.at = "none"
    BY DEF NotAttaching
  <2>3. ChatTypes'
    BY <1>1, <2>1 DEF ChatInv, ChatTypes
  <2>4. PendingSound' /\ AttachSound'
    BY <1>1, <2>1, <2>2 DEF ChatInv, PendingSound, AttachSound
  <2> QED BY <1>1, <2>3, <2>4, StoredKept DEF ChatInv, ChatTypes, SenderSound
<1> QED BY <1>2, <1>3, <1>4

LEMMA ContextStep ==
  ASSUME ChatInv, addContext \/ ContextAdded \/ ContextFails \/ \E p \in pending : dropPending(p)
  PROVE  ChatInv'
<1>1. UNCHANGED <<created, stored, activeId, sender, attach, strayed>>
  BY DEF addContext, ContextAdded, ContextFails, dropPending
<1>2. /\ context' \in {context, NoContext, activeId}
      /\ context' = context \/ context' = NoContext \/ context' = activeId
      /\ pending' \subseteq pending \cup (IF context = NoContext THEN {} ELSE {context})
  BY DEF addContext, ContextAdded, ContextFails, dropPending
<1>3. ChatTypes'
  BY <1>1, <1>2 DEF ChatInv, ChatTypes
<1>4. PendingSound'
  BY <1>1, <1>2 DEF ChatInv, PendingSound
<1> QED BY <1>1, <1>3, <1>4, StoredKept DEF ChatInv, ChatTypes, SenderSound, AttachSound

LEMMA ScreenStep ==
  ASSUME ChatInv, UNCHANGED <<created, stored, activeId, sender, attach, context, pending, strayed>>
  PROVE  ChatInv'
<1>1. ChatTypes'
  BY DEF ChatInv, ChatTypes
<1> QED BY <1>1, StoredKept DEF ChatInv, ChatTypes, SenderSound, PendingSound, AttachSound

LEMMA InitOwed == PageInit => OwedSound
BY DEF PageInit, OwedSound, NotSending

LEMMA OwedStep == ChatInv /\ OwedSound /\ [PageNext]_pageVars => OwedSound'
<1> SUFFICES ASSUME ChatInv, OwedSound, [PageNext]_pageVars PROVE OwedSound'
  OBVIOUS
<1>1. ASSUME created \subseteq created', owed' \subseteq owed,
             sender' = sender \/ sender'.at # "stream"
      PROVE  OwedSound'
  BY <1>1 DEF OwedSound
<1>2. ASSUME NEW l \in Loading,
             (\E c \in Convo : openConversation(l, c)) \/ Answered(l) \/ Arrives(l) \/ LoadFails(l)
      PROVE  OwedSound'
  BY <1>1, <1>2 DEF openConversation, Answered, Arrives, LoadFails
<1>3. CASE newChat \/ onDelta \/ ErrorEnds \/ Reloaded
  BY <1>1, <1>3 DEF newChat, onDelta, ErrorEnds, Reloaded, NotSending
<1>4. CASE send
  <2>1. sender'.at # "stream" /\ UNCHANGED <<created, owed>>
    BY <1>4 DEF send
  <2> QED BY <1>1, <2>1
<1>5. ASSUME NEW c \in Convo, Created(c) \/ AttachCreated(c) PROVE OwedSound'
  <2>1. created' = created \cup {c} /\ owed' = owed
    BY <1>5 DEF Created, AttachCreated
  <2>2. CASE Created(c)
    <3>1. /\ sender.at = "create"
          /\ sender' = [sender EXCEPT !.at = "push", !.conv = c, !.typed = c, !.files = Named(sender.files, c)]
      BY <2>2 DEF Created
    <3>2. sender \in SenderType
      BY <3>1 DEF ChatInv, ChatTypes, NotSending
    <3>3. sender'.at = "push"
      BY <3>1, <3>2 DEF SenderType
    <3> QED BY <1>1, <2>1, <3>3
  <2>3. CASE AttachCreated(c)
    BY <1>1, <2>1, <2>3 DEF AttachCreated
  <2> QED BY <1>5, <2>2, <2>3
<1>6. CASE Push
  <2>1. /\ sender.at = "push" /\ sender.conv \in created /\ UNCHANGED <<created, owed>>
        /\ sender' = [sender EXCEPT !.at = "stream", !.conv = sender.conv]
    BY <1>6 DEF Push, Target
  <2>2. sender \in SenderType
    BY <2>1 DEF ChatInv, ChatTypes, NotSending
  <2>3. sender'.conv = sender.conv
    BY <2>1, <2>2 DEF SenderType
  <2> QED BY <2>1, <2>3 DEF OwedSound
<1>7. CASE onError
  <2>1. /\ sender.at = "stream" /\ sender' = [sender EXCEPT !.at = "refused"] /\ UNCHANGED <<created, owed>>
    BY <1>7 DEF onError
  <2>2. sender \in SenderType
    BY <2>1 DEF ChatInv, ChatTypes, NotSending
  <2>3. sender'.at = "refused"
    BY <2>1, <2>2 DEF SenderType
  <2> QED BY <1>1, <2>1, <2>3
<1>8. ASSUME NEW kept \in BOOLEAN, StreamEnds(kept) \/ SendFails(kept) PROVE OwedSound'
  <2>1. created' = created /\ owed' \subseteq owed \cup {<<sender.conv, sends>>}
    BY <1>8 DEF StreamEnds, SendFails
  <2>2. owed' = owed \/ sender.at = "stream"
    BY <1>8 DEF StreamEnds, SendFails
  <2>3. sender'.at # "stream"
    <3>1. CASE StreamEnds(kept)
      <4>1. sender.at = "stream" /\ sender' = [sender EXCEPT !.at = "reload"]
        BY <3>1 DEF StreamEnds
      <4>2. sender \in SenderType
        BY <4>1 DEF ChatInv, ChatTypes, NotSending
      <4> QED BY <4>1, <4>2 DEF SenderType
    <3>2. CASE SendFails(kept)
      BY <3>2 DEF SendFails, NotSending
    <3> QED BY <1>8, <3>1, <3>2
  <2> QED BY <2>1, <2>2, <2>3 DEF OwedSound
<1>9. ASSUME NEW o \in owed, Stores(o) \/ StoreFails(o) PROVE OwedSound'
  BY <1>1, <1>9 DEF Stores, StoreFails
<1>10. CASE attachFile \/ Uploaded \/ AttachFails \/ addContext \/ ContextAdded \/ ContextFails
            \/ (\E p \in pending : dropPending(p)) \/ UNCHANGED pageVars
  <2>1. UNCHANGED <<created, owed, sender>>
    BY <1>10 DEF attachFile, Uploaded, AttachFails, addContext, ContextAdded, ContextFails,
                 dropPending, pageVars
  <2> QED BY <1>1, <2>1
<1> QED BY <1>2, <1>3, <1>4, <1>5, <1>6, <1>7, <1>8, <1>9, <1>10 DEF PageNext

LEMMA ChatStep == ChatInv /\ OwedSound /\ [PageNext]_pageVars => ChatInv'
<1> SUFFICES ASSUME ChatInv, OwedSound, [PageNext]_pageVars PROVE ChatInv'
  OBVIOUS
<1>1. CASE UNCHANGED pageVars
  BY <1>1, ScreenStep DEF pageVars
<1>2. ASSUME NEW l \in Loading, Answered(l) \/ Arrives(l) \/ LoadFails(l) PROVE ChatInv'
  BY <1>2, ScreenStep DEF Answered, Arrives, LoadFails
<1>3. CASE onDelta
  BY <1>3, ScreenStep DEF onDelta
<1>4. ASSUME NEW o \in owed, Stores(o) \/ StoreFails(o) PROVE ChatInv'
  BY <1>4, StoresStep, ScreenStep DEF StoreFails
<1> QED BY <1>1, <1>2, <1>3, <1>4, OpenConversationStep, NewChatStep, SendStep, CreatedStep,
           AttachCreatedStep, PushStep, SenderEndsStep, AttachStep, ContextStep
        DEF PageNext

\* What is typed and attached reaches the conversation it was typed in, through the
\* creation of a conversation on the first message and through navigation while a
\* call is awaited (send, attach).
THEOREM SentAsTypedHolds == PageSpec => []SentAsTyped
<1>1. ChatInv => SentAsTyped
  <2> SUFFICES ASSUME ChatInv PROVE SentAsTyped
    OBVIOUS
  <2>1. ASSUME NEW c \in Convo, NEW i \in 1 .. Len(stored[c]) PROVE TurnAsTyped(c, stored[c][i])
    BY DEF ChatInv, StoredAsTyped
  <2>2. ~strayed => strayed = FALSE
    BY DEF ChatInv, ChatTypes
  <2> QED BY <2>1, <2>2 DEF SentAsTyped, SentWhereTyped, FilesStay, TurnAsTyped
<1> QED BY <1>1, InitChatInv, InitOwed, ChatStep, OwedStep, PTL DEF PageSpec

-----------------------------------------------------------------------------
(* The screen *)

EntryType == [role : {"user", "assistant"}, tmp : BOOLEAN, from : SUBSET Convo]
Turn == UserTurn \cup {ReplyTurn}
LoadType == {NoLoad} \cup [at : {"asked"}, conv : Convo] \cup [at : {"answered"}, conv : Convo, rows : Seq(Turn)]

ScreenTypes ==
  /\ messages \in Seq(EntryType) /\ load \in [Loading -> LoadType]
  /\ crossed \in BOOLEAN /\ late \in BOOLEAN
  /\ activeId \in created \cup {NoConvo}
  /\ \A c \in Convo : c \notin created => stored[c] = <<>>
  /\ sender.at \in {"stream", "reload"} => sender.conv \in created

\* The first n messages on the screen are those stored of conversation c, unless a
\* reply was stored late; only a turn may still have its provisional id.
Shown(n, c) ==
  /\ c = NoConvo => n = 0
  /\ c \in Convo /\ late = FALSE =>
       /\ n = Len(stored[c])
       /\ \A i \in 1 .. n : /\ messages[i].role = stored[c][i].role
                            /\ messages[i].from = {c}
                            /\ messages[i].tmp = TRUE => messages[i].role = "user"

\* While a message is sent nothing else is under way, and the screen is at the
\* point where the sender is.
SendShown ==
  sender # NotSending =>
    /\ \A l \in Loading : load[l] = NoLoad
    /\ sender.at = "create" => activeId = NoConvo /\ Len(messages) = 0
    /\ sender.at # "create" => sender.conv = activeId /\ activeId \in Convo
    /\ sender.at \in {"push", "refused"} => Shown(Len(messages), activeId)
    /\ sender.at = "stream" => /\ Len(messages) >= 1 /\ Shown(Len(messages) - 1, activeId)
                               /\ messages[Len(messages)].role = "assistant"
                               /\ messages[Len(messages)].tmp = TRUE

\* One load is under way, of the open conversation, and what it read is still stored.
LoadShown ==
  \A l \in Loading : load[l] # NoLoad =>
    /\ sender = NotSending /\ load[l].conv = activeId
    /\ load[l].at = "answered" /\ late = FALSE => load[l].rows = stored[activeId]
    /\ \A k \in Loading : k # l => load[k] = NoLoad

QuietShown == Quiet => Shown(Len(messages), activeId)

ScreenInv == ScreenTypes /\ (crossed = FALSE => SendShown /\ LoadShown /\ QuietShown)

LEMMA ScreenFacts ==
  ASSUME ChatInv, ScreenInv
  PROVE  /\ messages \in Seq(EntryType) /\ Len(messages) \in Nat /\ load \in [Loading -> LoadType]
         /\ activeId \in Convo \cup {NoConvo} /\ created \subseteq Convo /\ stored \in [Convo -> Seq(Turn)]
         /\ \A c \in Convo : stored[c] \in Seq(Turn) /\ Len(stored[c]) \in Nat
BY DEF ChatInv, ChatTypes, ScreenInv, ScreenTypes, Turn, Place

LEMMA SendingAt ==
  ASSUME ChatInv, sender.at # "none" PROVE sender \in SenderType /\ sender # NotSending
BY DEF ChatInv, ChatTypes, NotSending

LEMMA StreamedCreated ==
  ASSUME ScreenInv, sender.at \in {"stream", "reload"} PROVE sender.conv \in created
BY DEF ScreenInv, ScreenTypes

LEMMA EntryFacts ==
  ASSUME NEW e \in EntryType
  PROVE  e.role \in {"user", "assistant"} /\ e.tmp \in BOOLEAN /\ e.from \in SUBSET Convo
<1>1. e.tmp \in BOOLEAN
  BY Zenon DEF EntryType
<1> QED BY <1>1 DEF EntryType

LEMMA ShownKept ==
  ASSUME NEW n, NEW c, Shown(n, c), messages' = messages, stored' = stored, late' = late PROVE Shown(n, c)'
BY DEF Shown

LEMMA ScreenUnchanged ==
  ASSUME ScreenInv, UNCHANGED <<created, stored, late, activeId, messages, load, sender, crossed>>
  PROVE  ScreenInv'
<1>1. ScreenTypes'
  BY DEF ScreenInv, ScreenTypes
<1> QED BY <1>1 DEF ScreenInv, SendShown, LoadShown, QuietShown, Quiet, Shown

\* View puts the stored messages on the screen.
LEMMA ViewShown ==
  ASSUME NEW c \in Convo, NEW rows \in Seq(Turn), stored'[c] = rows, messages' = View(c, rows)
  PROVE  messages' \in Seq(EntryType) /\ Shown(Len(messages), c)'
<1>1. PICK n \in Nat : n = Len(rows)
  OBVIOUS
<1>2. messages' = [i \in 1 .. n |-> Entry(rows[i].role, FALSE, {c})]
  BY <1>1 DEF View
<1>3. ASSUME NEW i \in 1 .. n
      PROVE  /\ messages'[i] \in EntryType /\ messages'[i].role = rows[i].role
             /\ messages'[i].from = {c} /\ messages'[i].tmp = FALSE
  <2>1. rows[i] \in Turn
    BY <1>1
  <2>2. rows[i].role \in {"user", "assistant"}
    BY <2>1 DEF Turn, UserTurn, ReplyTurn
  <2>3. PICK r \in {"user", "assistant"} : r = rows[i].role
    BY <2>2
  <2>4. PICK e : e = [role |-> r, tmp |-> FALSE, from |-> {c}]
    OBVIOUS
  <2>5. messages'[i] = e
    BY <1>2, <2>3, <2>4 DEF Entry
  <2>6. e \in EntryType /\ e.role = r /\ e.from = {c}
    BY <2>4 DEF EntryType
  <2>7. e.tmp = FALSE
    BY <2>4
  <2> QED BY <2>3, <2>5, <2>6, <2>7
<1>4. messages' \in Seq(EntryType) /\ Len(messages') = n
  <2>1. messages' \in [1 .. n -> EntryType]
    BY <1>2, <1>3
  <2> QED BY <2>1
<1> QED BY <1>1, <1>3, <1>4, PageAssumption DEF Shown

LEMMA ViewTyped ==
  ASSUME NEW c \in Convo, NEW rows \in Seq(Turn) PROVE View(c, rows) \in Seq(EntryType)
<1>1. PICK n \in Nat : n = Len(rows)
  OBVIOUS
<1>2. ASSUME NEW i \in 1 .. n PROVE Entry(rows[i].role, FALSE, {c}) \in EntryType
  <2>1. rows[i] \in Turn
    BY <1>1
  <2>2. PICK r \in {"user", "assistant"} : r = rows[i].role
    BY <2>1 DEF Turn, UserTurn, ReplyTurn
  <2> QED BY <2>2 DEF Entry, EntryType
<1>3. View(c, rows) \in [1 .. n -> EntryType]
  BY <1>1, <1>2 DEF View
<1> QED BY <1>3

LEMMA ScreenInvAgrees == ASSUME ChatInv, ScreenInv PROVE ScreenAgrees
<1> SUFFICES ASSUME Quiet, ~crossed, ~late
             PROVE  Settle(messages) = IF activeId = NoConvo THEN <<>> ELSE View(activeId, stored[activeId])
  BY DEF ScreenAgrees
<1>0. crossed = FALSE /\ late = FALSE
  BY Zenon DEF ScreenInv, ScreenTypes
<1>1. Shown(Len(messages), activeId)
  BY <1>0 DEF ScreenInv, QuietShown
<1>2. PICK n \in Nat : n = Len(messages) /\ messages \in Seq(EntryType)
  BY ScreenFacts
<1>3. Settle(messages) = [i \in 1 .. n |-> [messages[i] EXCEPT !.tmp = FALSE]]
  BY <1>2 DEF Settle
<1>4. CASE activeId = NoConvo
  <2>1. n = 0
    BY <1>1, <1>2, <1>4 DEF Shown
  <2> QED BY <1>3, <1>4, <2>1
<1>5. CASE activeId # NoConvo
  <2>1. PICK c \in Convo : c = activeId
    BY <1>5, ScreenFacts
  <2>2. /\ n = Len(stored[c])
        /\ \A i \in 1 .. n : messages[i].role = stored[c][i].role /\ messages[i].from = {c}
    BY <1>0, <1>1, <1>2, <2>1 DEF Shown
  <2>3. View(c, stored[c]) = [i \in 1 .. n |-> Entry(stored[c][i].role, FALSE, {c})]
    BY <2>2 DEF View
  <2>4. ASSUME NEW i \in 1 .. n
        PROVE  [messages[i] EXCEPT !.tmp = FALSE] = Entry(stored[c][i].role, FALSE, {c})
    <3>1. PICK e \in EntryType : e = messages[i]
      BY <1>2
    <3>2. [e EXCEPT !.tmp = FALSE] = [role |-> e.role, tmp |-> FALSE, from |-> e.from]
      <4>1. PICK v \in BOOLEAN : v = FALSE
        OBVIOUS
      <4>2. [e EXCEPT !.tmp = v] = [role |-> e.role, tmp |-> v, from |-> e.from]
        BY DEF EntryType
      <4> QED BY <4>1, <4>2
    <3> QED BY <2>2, <3>1, <3>2 DEF Entry
  <2> QED BY <1>3, <1>5, <2>1, <2>3, <2>4
<1> QED BY <1>4, <1>5

LEMMA InitScreenInv == PageInit => ScreenInv
<1> SUFFICES ASSUME PageInit PROVE ScreenInv
  OBVIOUS
<1>1. crossed \in BOOLEAN /\ late \in BOOLEAN
  BY Zenon DEF PageInit
<1>2. /\ created = {} /\ stored = [c \in Convo |-> <<>>] /\ activeId = NoConvo /\ messages = <<>>
      /\ load = [l \in Loading |-> NoLoad] /\ sender = NotSending
  BY DEF PageInit
<1>3. ScreenTypes
  BY <1>1, <1>2 DEF ScreenTypes, LoadType, NotSending
<1>4. Shown(Len(messages), activeId)
  BY <1>2, PageAssumption DEF Shown
<1> QED BY <1>2, <1>3, <1>4 DEF ScreenInv, SendShown, LoadShown, QuietShown

\* openConversation: nothing else is under way, or the user went on.
LEMMA OpenShown ==
  ASSUME ChatInv, ScreenInv, NEW l \in Loading, NEW c \in Convo, openConversation(l, c) PROVE ScreenInv'
<1> DEFINE q == [at |-> "asked", conv |-> c]
<1>1. /\ c \in created /\ activeId' = c /\ load' = [load EXCEPT ![l] = q]
      /\ UNCHANGED <<created, stored, messages, sender>>
  BY DEF openConversation
<1>2. crossed' = ~Quiet /\ late' = FALSE
  BY DEF openConversation
<1>3. q \in LoadType /\ q # NoLoad /\ q.conv = c /\ q.at = "asked"
  BY DEF LoadType, NoLoad
<1> HIDE DEF q
<1>4. crossed' \in BOOLEAN /\ late' \in BOOLEAN /\ (crossed' = FALSE => Quiet)
  BY <1>2, Zenon
<1>5. load' \in [Loading -> LoadType] /\ load'[l] = q /\ \A k \in Loading : k # l => load'[k] = load[k]
  BY <1>1, <1>3, ScreenFacts
<1>6. ScreenTypes'
  BY <1>1, <1>4, <1>5 DEF ScreenInv, ScreenTypes
<1>7. ASSUME Quiet PROVE SendShown' /\ LoadShown' /\ QuietShown'
  <2>1. sender' = NotSending /\ \A k \in Loading : k # l => load'[k] = NoLoad
    BY <1>1, <1>5, <1>7 DEF Quiet
  <2> QED BY <1>1, <1>3, <1>5, <2>1 DEF SendShown, LoadShown, QuietShown, Quiet
<1> QED BY <1>4, <1>6, <1>7 DEF ScreenInv

LEMMA AnsweredShown ==
  ASSUME ChatInv, ScreenInv, NEW l \in Loading, Answered(l) PROVE ScreenInv'
<1>1. /\ load[l].at = "asked"
      /\ load' = [load EXCEPT ![l] = [at |-> "answered", conv |-> load[l].conv, rows |-> stored[load[l].conv]]]
      /\ UNCHANGED <<created, stored, late, activeId, messages, sender, crossed>>
  BY DEF Answered
<1>2. load[l] # NoLoad /\ load[l].conv \in Convo
  BY <1>1, ScreenFacts DEF LoadType, NoLoad
<1>3. PICK q : q = [at |-> "answered", conv |-> load[l].conv, rows |-> stored[load[l].conv]]
  OBVIOUS
<1>4. q \in LoadType /\ q # NoLoad /\ q.conv = load[l].conv /\ q.rows = stored[load[l].conv]
  BY <1>2, <1>3, ScreenFacts DEF LoadType, NoLoad
<1>5. load' \in [Loading -> LoadType] /\ load'[l] = q /\ \A k \in Loading : k # l => load'[k] = load[k]
  BY <1>1, <1>3, <1>4, ScreenFacts
<1>6. ScreenTypes'
  BY <1>1, <1>5 DEF ScreenInv, ScreenTypes
<1>7. ASSUME crossed = FALSE PROVE SendShown' /\ LoadShown' /\ QuietShown'
  <2>1. /\ sender = NotSending /\ load[l].conv = activeId
        /\ \A k \in Loading : k # l => load[k] = NoLoad
    BY <1>2, <1>7 DEF ScreenInv, LoadShown
  <2> QED BY <1>1, <1>4, <1>5, <2>1 DEF SendShown, LoadShown, QuietShown, Quiet
<1> QED BY <1>1, <1>6, <1>7 DEF ScreenInv

LEMMA ArrivesShown ==
  ASSUME ChatInv, ScreenInv, NEW l \in Loading, Arrives(l) PROVE ScreenInv'
<1>1. /\ load[l].at = "answered" /\ messages' = View(load[l].conv, load[l].rows)
      /\ load' = [load EXCEPT ![l] = NoLoad]
      /\ UNCHANGED <<created, stored, late, activeId, sender, crossed>>
  BY DEF Arrives
<1>2. load[l] # NoLoad /\ load[l].conv \in Convo /\ load[l].rows \in Seq(Turn)
  BY <1>1, ScreenFacts DEF LoadType, NoLoad
<1>3. PICK c \in Convo, rows \in Seq(Turn) : c = load[l].conv /\ rows = load[l].rows
  BY <1>2
<1>4. load' \in [Loading -> LoadType] /\ load'[l] = NoLoad /\ \A k \in Loading : k # l => load'[k] = load[k]
  BY <1>1, ScreenFacts DEF LoadType
<1>5. messages' \in Seq(EntryType)
  BY <1>1, <1>3, ViewTyped
<1>6. ScreenTypes'
  BY <1>1, <1>4, <1>5 DEF ScreenInv, ScreenTypes
<1>7. ASSUME crossed = FALSE PROVE SendShown' /\ LoadShown' /\ QuietShown'
  <2>1. /\ sender = NotSending /\ c = activeId /\ (late = FALSE => rows = stored[c])
        /\ \A k \in Loading : k # l => load[k] = NoLoad
    BY <1>1, <1>2, <1>3, <1>7 DEF ScreenInv, LoadShown
  <2>2. ASSUME late = FALSE PROVE Shown(Len(messages), c)'
    <3>1. stored'[c] = rows
      BY <1>1, <2>1, <2>2
    <3> QED BY <1>1, <1>3, <3>1, ViewShown
  <2>3. Shown(Len(messages), c)'
    BY <1>1, <2>2, PageAssumption DEF Shown
  <2>4. Shown(Len(messages), activeId)'
    BY <1>1, <2>1, <2>3
  <2> QED BY <1>1, <1>4, <2>1, <2>4 DEF SendShown, LoadShown, QuietShown, Quiet
<1> QED BY <1>1, <1>6, <1>7 DEF ScreenInv

\* A load or a call that fails is noted.
LEMMA FailsShown ==
  ASSUME ChatInv, ScreenInv, (\E kept \in BOOLEAN : SendFails(kept)) \/ \E l \in Loading : LoadFails(l) PROVE ScreenInv'
<1>1. UNCHANGED <<created, stored, late, activeId, messages>>
  BY DEF SendFails, LoadFails
<1>2. crossed' = TRUE
  BY DEF SendFails, LoadFails
<1>3. load' \in [Loading -> LoadType]
  BY ScreenFacts DEF SendFails, LoadFails, LoadType
<1>4. sender' = sender \/ sender'.at = "none"
  BY DEF SendFails, LoadFails, NotSending
<1>5. ScreenTypes'
  BY <1>1, <1>2, <1>3, <1>4 DEF ScreenInv, ScreenTypes
<1> QED BY <1>2, <1>5 DEF ScreenInv

LEMMA NewChatShown == ASSUME ChatInv, ScreenInv, newChat PROVE ScreenInv'
<1>1. /\ activeId' = NoConvo /\ messages' = <<>> /\ UNCHANGED <<created, stored, load, sender>>
  BY DEF newChat
<1>2. crossed' = ~Quiet /\ late' = FALSE
  BY DEF newChat
<1>3. crossed' \in BOOLEAN /\ late' \in BOOLEAN /\ (crossed' = FALSE => Quiet)
  BY <1>2, Zenon
<1>4. ScreenTypes'
  BY <1>1, <1>3 DEF ScreenInv, ScreenTypes
<1>5. Shown(Len(messages), activeId)'
  BY <1>1, PageAssumption DEF Shown
<1> QED BY <1>1, <1>3, <1>4, <1>5 DEF ScreenInv, SendShown, LoadShown, QuietShown, Quiet

LEMMA SendingShown == ASSUME ChatInv, ScreenInv, send PROVE ScreenInv'
<1> DEFINE q == [at |-> IF activeId = NoConvo THEN "create" ELSE "push", conv |-> activeId,
                 typed |-> activeId, files |-> pending]
<1>1. sender' = q /\ UNCHANGED <<created, stored, late, activeId, messages, load>>
  BY DEF send
<1>2. q.conv = activeId /\ q.at = IF activeId = NoConvo THEN "create" ELSE "push"
  OBVIOUS
<1> HIDE DEF q
<1>3. crossed' = (crossed \/ ~Quiet)
  BY DEF send
<1>4. crossed' \in BOOLEAN /\ (crossed' = FALSE => Quiet /\ ~crossed)
  BY <1>3, Zenon
<1>5. ScreenTypes'
  BY <1>1, <1>2, <1>4 DEF ScreenInv, ScreenTypes
<1>6. ASSUME crossed' = FALSE PROVE SendShown' /\ LoadShown' /\ QuietShown'
  <2>1. Quiet /\ crossed = FALSE
    BY <1>4, <1>6 DEF ScreenInv, ScreenTypes
  <2>2. /\ sender = NotSending /\ \A k \in Loading : load[k] = NoLoad
        /\ Shown(Len(messages), activeId) /\ activeId \in Convo \cup {NoConvo}
    BY <2>1, ScreenFacts DEF ScreenInv, QuietShown, Quiet
  <2>3. Shown(Len(messages), activeId)' /\ sender' # NotSending
    <3>1. Shown(Len(messages), activeId)'
      BY <1>1, <2>2 DEF Shown
    <3> QED BY <1>1, <1>2, <3>1 DEF NotSending
  <2>4. activeId = NoConvo => Len(messages) = 0
    BY <2>2 DEF Shown
  <2> QED BY <1>1, <1>2, <2>2, <2>3, <2>4 DEF SendShown, LoadShown, QuietShown, Quiet
<1> QED BY <1>4, <1>5, <1>6 DEF ScreenInv

\* A new conversation is empty, and so is the screen without one.
LEMMA CreatedShown == ASSUME ChatInv, ScreenInv, NEW c \in Convo, Created(c) PROVE ScreenInv'
<1>1. /\ sender.at = "create" /\ c \notin created /\ created' = created \cup {c} /\ activeId' = c
      /\ sender' = [sender EXCEPT !.at = "push", !.conv = c, !.typed = c, !.files = Named(sender.files, c)]
      /\ UNCHANGED <<stored, late, messages, load>>
  BY DEF Created
<1>2. crossed' = (crossed \/ activeId # NoConvo)
  BY DEF Created
<1>3. crossed' \in BOOLEAN /\ (crossed' = FALSE => ~crossed)
  BY <1>2, Zenon
<1>4. sender \in SenderType /\ sender # NotSending
  BY <1>1, SendingAt
<1>5. sender'.at = "push" /\ sender'.conv = c /\ sender' # NotSending
  BY <1>1, <1>4 DEF SenderType, NotSending
<1>6. ScreenTypes'
  BY <1>1, <1>3 DEF ScreenInv, ScreenTypes
<1>7. ASSUME crossed' = FALSE PROVE SendShown' /\ LoadShown' /\ QuietShown'
  <2>1. crossed = FALSE
    BY <1>3, <1>7 DEF ScreenInv, ScreenTypes
  <2>2. /\ \A k \in Loading : load[k] = NoLoad
        /\ Len(messages) = 0 /\ stored[c] = <<>>
    BY <1>1, <1>4, <2>1 DEF ScreenInv, ScreenTypes, SendShown
  <2>3. Shown(Len(messages), activeId)'
    BY <1>1, <2>2, PageAssumption DEF Shown
  <2> QED BY <1>1, <1>5, <2>2, <2>3 DEF SendShown, LoadShown, QuietShown, Quiet
<1> QED BY <1>3, <1>6, <1>7 DEF ScreenInv

LEMMA AttachCreatedShown ==
  ASSUME ChatInv, ScreenInv, NEW c \in Convo, AttachCreated(c) PROVE ScreenInv'
<1>1. /\ c \notin created /\ created' = created \cup {c} /\ activeId' = c
      /\ UNCHANGED <<stored, late, messages, load, sender>>
  BY DEF AttachCreated
<1>2. crossed' = (crossed \/ activeId # NoConvo \/ ~Quiet)
  BY DEF AttachCreated
<1>3. crossed' \in BOOLEAN /\ (crossed' = FALSE => ~crossed /\ activeId = NoConvo /\ Quiet)
  BY <1>2, Zenon
<1>4. ScreenTypes'
  BY <1>1, <1>3 DEF ScreenInv, ScreenTypes
<1>5. ASSUME crossed' = FALSE PROVE SendShown' /\ LoadShown' /\ QuietShown'
  <2>1. crossed = FALSE /\ activeId = NoConvo /\ Quiet
    BY <1>3, <1>5 DEF ScreenInv, ScreenTypes
  <2>2. Len(messages) = 0 /\ stored[c] = <<>>
    BY <1>1, <2>1 DEF ScreenInv, ScreenTypes, QuietShown, Shown
  <2>3. Shown(Len(messages), activeId)'
    BY <1>1, <2>2, PageAssumption DEF Shown
  <2> QED BY <1>1, <2>1, <2>3 DEF SendShown, LoadShown, QuietShown, Quiet
<1> QED BY <1>3, <1>4, <1>5 DEF ScreenInv

LEMMA TwoMore ==
  ASSUME NEW S, NEW s \in Seq(S), NEW t \in S, NEW u \in S
  PROVE  /\ s \o <<t, u>> \in Seq(S) /\ Len(s \o <<t, u>>) = Len(s) + 2
         /\ (s \o <<t, u>>)[Len(s) + 1] = t /\ (s \o <<t, u>>)[Len(s) + 2] = u
         /\ \A i \in 1 .. Len(s) : (s \o <<t, u>>)[i] = s[i]
OBVIOUS

\* The two provisional messages, and the turn that is stored.
LEMMA PushShown == ASSUME ChatInv, ScreenInv, Push PROVE ScreenInv'
<1>1. /\ sender.at = "push" /\ sender.conv \in created
      /\ messages' = messages \o <<Entry("user", TRUE, {sender.conv}), Entry("assistant", TRUE, {})>>
      /\ stored' = [stored EXCEPT ![sender.conv] =
                      Append(@, [role |-> "user", typed |-> sender.typed, files |-> sender.files])]
      /\ sender' = [sender EXCEPT !.at = "stream", !.conv = sender.conv]
      /\ UNCHANGED <<created, late, activeId, load, crossed>>
  BY DEF Push, Target
<1>2. sender \in SenderType /\ sender # NotSending
  BY <1>1, SendingAt
<1>3. PICK c \in Convo, n \in Nat :
        c = sender.conv /\ c \in created /\ n = Len(messages) /\ messages \in Seq(EntryType)
  BY <1>1, ScreenFacts
<1>4. PICK t \in EntryType, u \in EntryType :
        /\ t = Entry("user", TRUE, {c}) /\ u = Entry("assistant", TRUE, {})
        /\ t.role = "user" /\ t.from = {c} /\ u.role = "assistant" /\ u.tmp = TRUE
  <2>1. PICK t : t = Entry("user", TRUE, {c})
    OBVIOUS
  <2>2. PICK u : u = Entry("assistant", TRUE, {})
    OBVIOUS
  <2>3. t \in EntryType /\ t.role = "user" /\ t.from = {c}
    BY <2>1 DEF EntryType, Entry
  <2>4. u \in EntryType /\ u.role = "assistant"
    BY <2>2 DEF EntryType, Entry
  <2>5. u.tmp = TRUE
    BY <2>2 DEF Entry
  <2> QED BY <2>1, <2>2, <2>3, <2>4, <2>5
<1>5. /\ messages' \in Seq(EntryType) /\ Len(messages') = n + 2
      /\ messages'[n + 1] = t /\ messages'[n + 2] = u
      /\ \A i \in 1 .. n : messages'[i] = messages[i]
  <2>1. messages' = messages \o <<t, u>>
    BY <1>1, <1>3, <1>4
  <2> QED BY <1>3, <2>1, TwoMore
<1>6. PICK m : m = [role |-> "user", typed |-> sender.typed, files |-> sender.files]
  OBVIOUS
<1>6a. m.role = "user"
  BY <1>6
<1>7. /\ stored[c] \in Seq(Turn) /\ stored'[c] = Append(stored[c], m)
      /\ \A d \in Convo : d # c => stored'[d] = stored[d]
  BY <1>1, <1>3, <1>6, ScreenFacts
<1>8. sender'.at = "stream" /\ sender'.conv = c /\ sender' # NotSending
  BY <1>1, <1>2, <1>3 DEF SenderType, NotSending
<1>9. ScreenTypes'
  <2>1. \A d \in Convo : d \notin created' => stored'[d] = <<>>
    BY <1>1, <1>3, <1>7 DEF ScreenInv, ScreenTypes
  <2>2. UNCHANGED <<created, late, activeId, load, crossed>> /\ messages' \in Seq(EntryType)
    BY <1>1, <1>5
  <2>3. sender'.conv \in created
    BY <1>3, <1>8
  <2> QED BY <2>1, <2>2, <2>3 DEF ScreenInv, ScreenTypes
<1>10. ASSUME crossed = FALSE PROVE SendShown' /\ LoadShown' /\ QuietShown'
  <2>1. /\ \A k \in Loading : load[k] = NoLoad
        /\ c = activeId /\ Shown(n, c)
    BY <1>1, <1>2, <1>3, <1>10 DEF ScreenInv, SendShown
  <2>2. ASSUME late = FALSE PROVE Shown(n + 1, c)'
    <3>1. n = Len(stored[c])
      BY <2>1, <2>2 DEF Shown
    <3>2. /\ Len(stored'[c]) = n + 1 /\ stored'[c][n + 1] = m
          /\ \A i \in 1 .. n : stored'[c][i] = stored[c][i]
      BY <1>7, <3>1
    <3>3. ASSUME NEW i \in 1 .. n + 1
          PROVE  /\ messages'[i].role = stored'[c][i].role /\ messages'[i].from = {c}
                 /\ messages'[i].tmp = TRUE => messages'[i].role = "user"
      <4>1. CASE i = n + 1
        BY <1>4, <1>5, <1>6a, <3>2, <4>1
      <4>2. CASE i # n + 1
        <5>1. i \in 1 .. n
          BY <4>2
        <5> QED BY <1>5, <2>1, <2>2, <3>2, <5>1 DEF Shown
      <4> QED BY <4>1, <4>2
    <3> QED BY <3>2, <3>3, PageAssumption DEF Shown
  <2>3. Shown(n + 1, c)'
    BY <1>1, <2>2, PageAssumption DEF Shown
  <2>4. Shown(Len(messages) - 1, activeId)'
    <3>1. Len(messages') - 1 = n + 1 /\ activeId' = c
      BY <1>1, <1>5, <2>1
    <3> QED BY <2>3, <3>1 DEF Shown
  <2>5. Len(messages') >= 1 /\ messages'[Len(messages')] = u
    BY <1>5
  <2> QED BY <1>1, <1>4, <1>8, <2>1, <2>4, <2>5 DEF SendShown, LoadShown, QuietShown, Quiet
<1> QED BY <1>1, <1>9, <1>10 DEF ScreenInv

LEMMA DeltaShown == ASSUME ChatInv, ScreenInv, onDelta PROVE ScreenInv'
<1>1. PICK n \in Nat : n = Len(messages) /\ messages \in Seq(EntryType)
  BY ScreenFacts
<1>2. /\ sender.at = "stream" /\ n > 0 /\ messages[n].role = "assistant"
      /\ messages' = [messages EXCEPT ![n].from = @ \cup {sender.conv}]
      /\ UNCHANGED <<created, stored, late, activeId, load, sender, crossed>>
  BY <1>1 DEF onDelta
<1>3. sender \in SenderType /\ sender # NotSending /\ sender.conv \in Convo
  BY <1>2, SendingAt DEF ChatInv, SenderSound
<1>4. PICK e \in EntryType : e = messages[n]
  BY <1>1, <1>2
<1>5. PICK f : f = [e EXCEPT !.from = e.from \cup {sender.conv}]
  OBVIOUS
<1>6. f \in EntryType /\ f.role = e.role
  BY <1>3, <1>5 DEF EntryType
<1>7. f.tmp = e.tmp
  BY <1>5 DEF EntryType
<1>8. messages' = [messages EXCEPT ![n] = f]
  BY <1>2, <1>4, <1>5
<1>9. /\ messages' \in Seq(EntryType) /\ Len(messages') = n /\ messages'[n] = f
      /\ \A i \in 1 .. n : i # n => messages'[i] = messages[i]
  <2>1. messages \in [1 .. n -> EntryType] /\ n \in 1 .. n
    BY <1>1, <1>2
  <2>2. /\ messages' \in [1 .. n -> EntryType] /\ messages'[n] = f
        /\ \A i \in 1 .. n : i # n => messages'[i] = messages[i]
    BY <1>6, <1>8, <2>1
  <2> QED BY <2>2
<1>10. ScreenTypes'
  BY <1>2, <1>9 DEF ScreenInv, ScreenTypes
<1>11. ASSUME crossed = FALSE PROVE SendShown' /\ LoadShown' /\ QuietShown'
  <2>1. /\ \A k \in Loading : load[k] = NoLoad
        /\ sender.conv = activeId /\ activeId \in Convo /\ Shown(n - 1, activeId)
        /\ e.role = "assistant" /\ e.tmp = TRUE
    BY <1>1, <1>2, <1>3, <1>4, <1>11 DEF ScreenInv, SendShown
  <2>2. \A i \in 1 .. n - 1 : messages'[i] = messages[i]
    BY <1>9
  <2>3. Shown(n - 1, activeId)'
    BY <1>2, <2>1, <2>2 DEF Shown
  <2>4. Shown(Len(messages) - 1, activeId)'
    BY <1>9, <2>3 DEF Shown
  <2>5. /\ Len(messages') >= 1 /\ messages'[Len(messages')].role = "assistant"
        /\ messages'[Len(messages')].tmp = TRUE
    <3>1. messages'[Len(messages')] = f /\ Len(messages') >= 1
      BY <1>2, <1>9
    <3>2. f.role = "assistant" /\ f.tmp = TRUE
      BY <1>6, <1>7, <2>1, Zenon
    <3> QED BY <3>1, <3>2
  <2> QED BY <1>2, <1>3, <2>1, <2>4, <2>5 DEF SendShown, LoadShown, QuietShown, Quiet
<1> QED BY <1>2, <1>10, <1>11 DEF ScreenInv

\* Whatever is selected from the screen is a list of messages.
LEMMA SelectTyped ==
  ASSUME NEW S, NEW s \in Seq(S), NEW I \in SUBSET (1 .. Len(s)) PROVE Select(s, I) \in Seq(S)
<1>1. PICK n \in Nat : n = Len(s)
  OBVIOUS
<1>2. I \in SUBSET (1 .. n)
  BY <1>1
<1>3. Cardinality(I) \in Nat /\ \E at : Lists(at, s, I)
  BY <1>2, SelectLists, Zenon
<1>4. PICK at : Lists(at, s, I)
  BY <1>3
<1>5. PICK k \in Nat : k = Cardinality(I)
  BY <1>3
<1>6. ASSUME NEW i \in 1 .. k PROVE Select(s, I)[i] \in S
  <2>1. at[i] \in I /\ Select(s, I)[i] = s[at[i]]
    BY <1>4, <1>5 DEF Lists
  <2>2. at[i] \in 1 .. n
    BY <1>2, <2>1
  <2> QED BY <1>1, <2>1, <2>2
<1>7. Select(s, I) = [i \in 1 .. k |-> Select(s, I)[i]]
  BY <1>5 DEF Select
<1> HIDE DEF Select
<1>8. Select(s, I) \in [1 .. k -> S]
  BY <1>6, <1>7
<1> QED BY <1>8

\* The provisional reply is the last message, and the only one that goes.
LEMMA ErrorShown == ASSUME ChatInv, ScreenInv, onError PROVE ScreenInv'
<1>1. PICK n \in Nat : n = Len(messages) /\ messages \in Seq(EntryType) /\ DOMAIN messages = 1 .. n
  BY ScreenFacts
<1>2. PICK I : I = {i \in 1 .. n : ~Provisional(messages[i])}
  OBVIOUS
<1>3. I \in SUBSET (1 .. Len(messages))
  BY <1>1, <1>2
<1>4. /\ sender.at = "stream" /\ sender' = [sender EXCEPT !.at = "refused"]
      /\ messages' = Select(messages, I)
      /\ UNCHANGED <<created, stored, late, activeId, load, crossed>>
  BY <1>1, <1>2 DEF onError
<1>5. sender \in SenderType /\ sender # NotSending
  BY <1>4, SendingAt
<1>6. sender'.at = "refused" /\ sender'.conv = sender.conv /\ sender' # NotSending
  BY <1>4, <1>5 DEF SenderType, NotSending
<1>7. messages' \in Seq(EntryType)
  BY <1>1, <1>3, <1>4, SelectTyped
<1>8. ScreenTypes'
  BY <1>4, <1>7 DEF ScreenInv, ScreenTypes
<1>9. ASSUME crossed = FALSE PROVE SendShown' /\ LoadShown' /\ QuietShown'
  <2>1. /\ \A k \in Loading : load[k] = NoLoad
        /\ sender.conv = activeId /\ activeId \in Convo /\ n >= 1 /\ Shown(n - 1, activeId)
        /\ messages[n].role = "assistant" /\ messages[n].tmp = TRUE
    BY <1>1, <1>4, <1>5, <1>9 DEF ScreenInv, SendShown
  <2>2. PICK m \in Nat : m = n - 1
    BY <2>1
  <2>3. ASSUME late = FALSE, NEW i \in 1 .. m PROVE ~Provisional(messages[i])
    <3>1. PICK e \in EntryType : e = messages[i]
      BY <1>1, <2>2
    <3>2. e.tmp = TRUE => e.role = "user"
      BY <2>1, <2>2, <2>3, <3>1 DEF Shown
    <3>3. ~(e.tmp /\ e.role = "assistant")
      BY <3>2, EntryFacts
    <3> QED BY <3>1, <3>3 DEF Provisional
  <2>4. Provisional(messages[n])
    BY <2>1 DEF Provisional
  <2>5. ASSUME late = FALSE PROVE Shown(Len(messages), activeId)'
    <3>0. \A i \in 1 .. m : ~Provisional(messages[i])
      BY <2>3, <2>5
    <3>1. I = 1 .. m
      BY <1>2, <2>1, <2>2, <2>4, <3>0
    <3>2. messages' = [k \in 1 .. m |-> messages[k]]
      BY <1>4, <3>1, SelectFront
    <3>3. Len(messages') = m /\ \A i \in 1 .. m : messages'[i] = messages[i]
      BY <3>2
    <3>4. Shown(m, activeId)'
      BY <1>4, <2>1, <2>2, <3>3 DEF Shown
    <3> QED BY <3>3, <3>4 DEF Shown
  <2>6. Shown(Len(messages), activeId)'
    BY <1>4, <2>1, <2>5, PageAssumption DEF Shown
  <2> QED BY <1>4, <1>6, <2>1, <2>6 DEF SendShown, LoadShown, QuietShown, Quiet
<1> QED BY <1>4, <1>8, <1>9 DEF ScreenInv

LEMMA ErrorEndsShown == ASSUME ChatInv, ScreenInv, ErrorEnds PROVE ScreenInv'
<1>1. /\ sender.at = "refused" /\ sender' = NotSending
      /\ UNCHANGED <<created, stored, late, activeId, messages, load, crossed>>
  BY DEF ErrorEnds
<1>2. sender # NotSending
  BY <1>1, SendingAt
<1>3. ScreenTypes'
  BY <1>1 DEF ScreenInv, ScreenTypes, NotSending
<1>4. ASSUME crossed = FALSE PROVE SendShown' /\ LoadShown' /\ QuietShown'
  <2>1. (\A k \in Loading : load[k] = NoLoad) /\ Shown(Len(messages), activeId)
    BY <1>1, <1>2, <1>4 DEF ScreenInv, SendShown
  <2>2. Shown(Len(messages), activeId)'
    BY <1>1, <2>1 DEF Shown
  <2> QED BY <1>1, <2>1, <2>2 DEF SendShown, LoadShown, QuietShown, Quiet
<1> QED BY <1>1, <1>3, <1>4 DEF ScreenInv

LEMMA StreamEndsShown ==
  ASSUME ChatInv, ScreenInv, NEW kept \in BOOLEAN, StreamEnds(kept) PROVE ScreenInv'
<1>1. /\ sender.at = "stream" /\ sender' = [sender EXCEPT !.at = "reload"]
      /\ UNCHANGED <<created, stored, late, activeId, messages, load, crossed>>
  BY DEF StreamEnds
<1>2. sender \in SenderType /\ sender # NotSending
  BY <1>1, SendingAt
<1>3. sender'.at = "reload" /\ sender'.conv = sender.conv /\ sender' # NotSending
  BY <1>1, <1>2 DEF SenderType, NotSending
<1>4. ScreenTypes'
  BY <1>1, <1>3 DEF ScreenInv, ScreenTypes
<1>5. ASSUME crossed = FALSE PROVE SendShown' /\ LoadShown' /\ QuietShown'
  <2>1. (\A k \in Loading : load[k] = NoLoad) /\ sender.conv = activeId /\ activeId \in Convo
    BY <1>1, <1>2, <1>5 DEF ScreenInv, SendShown
  <2> QED BY <1>1, <1>3, <2>1 DEF SendShown, LoadShown, QuietShown, Quiet
<1> QED BY <1>1, <1>4, <1>5 DEF ScreenInv

\* A reply is stored: the request that is to read the conversation will find it, or it
\* is late, or the conversation is not the open one.
LEMMA StoresShown ==
  ASSUME ChatInv, OwedSound, ScreenInv, NEW o \in owed, Stores(o) PROVE ScreenInv'
<1>1. PICK d \in Convo : d = o[1] /\ d \in created
  BY DEF OwedSound, ChatInv, ChatTypes
<1>2. /\ stored' = [stored EXCEPT ![d] = Append(@, ReplyTurn)]
      /\ UNCHANGED <<created, activeId, messages, load, sender, crossed>>
  BY <1>1 DEF Stores, ReplyTurn
<1>3. late' = (late \/ Unread(d))
  BY <1>1 DEF Stores
<1>4. late' \in BOOLEAN /\ (late' = FALSE => ~late /\ ~Unread(d))
  BY <1>3, Zenon
<1>5. late' = FALSE => late = FALSE
  BY <1>4 DEF ScreenInv, ScreenTypes
<1>6. \A c \in Convo : c # d => stored'[c] = stored[c]
  BY <1>2, ScreenFacts
<1>7. ScreenTypes'
  BY <1>1, <1>2, <1>4, <1>6 DEF ScreenInv, ScreenTypes
<1>8. ASSUME NEW n, Shown(n, activeId), d # activeId \/ Unread(d) PROVE Shown(n, activeId)'
  <2>1. CASE d # activeId
    BY <1>2, <1>5, <1>6, <1>8, <2>1 DEF Shown
  <2>2. CASE Unread(d)
    <3>1. activeId \in Convo /\ late' # FALSE
      BY <1>1, <1>4, <2>2 DEF Unread
    <3> QED BY <1>2, <3>1, PageAssumption DEF Shown
  <2> QED BY <1>8, <2>1, <2>2
<1>9. ASSUME crossed = FALSE PROVE SendShown' /\ LoadShown' /\ QuietShown'
  <2>1. SendShown /\ LoadShown /\ QuietShown
    BY <1>9 DEF ScreenInv
  <2>2. SendShown'
    <3> SUFFICES ASSUME sender # NotSending PROVE SendShown'
      BY <1>2 DEF SendShown
    <3>1. \A l \in Loading : load[l].at # "asked"
      BY <2>1 DEF SendShown, NoLoad
    <3>2. sender.at = "reload" \/ d # activeId \/ Unread(d)
      BY <3>1 DEF Unread
    <3>3. /\ sender.at \in {"push", "refused"} => Shown(Len(messages), activeId)'
          /\ sender.at = "stream" => Shown(Len(messages) - 1, activeId)'
      <4>1. /\ sender.at \in {"push", "refused"} => Shown(Len(messages), activeId)
            /\ sender.at = "stream" => Shown(Len(messages) - 1, activeId)
        BY <2>1 DEF SendShown
      <4>2. PICK n : n = Len(messages)
        OBVIOUS
      <4>3. PICK k : k = Len(messages) - 1
        OBVIOUS
      <4>4. sender.at \in {"push", "refused"} => Shown(n, activeId)'
        BY <1>8, <3>2, <4>1, <4>2
      <4>5. sender.at = "stream" => Shown(k, activeId)'
        BY <1>8, <3>2, <4>1, <4>3
      <4> QED BY <1>2, <4>2, <4>3, <4>4, <4>5 DEF Shown
    <3> QED BY <1>2, <2>1, <3>3 DEF SendShown
  <2>3. LoadShown'
    <3> SUFFICES ASSUME NEW l \in Loading, load[l] # NoLoad, load[l].at = "answered", late' = FALSE
                 PROVE  load[l].rows = stored'[activeId]
      BY <1>2, <2>1 DEF LoadShown
    <3>1. /\ sender = NotSending /\ load[l].rows = stored[activeId] /\ load[l].conv = activeId
          /\ \A k \in Loading : k # l => load[k] = NoLoad
      BY <1>5, <2>1 DEF LoadShown
    <3>2. \A k \in Loading : load[k].at # "asked"
      BY <3>1 DEF NoLoad
    <3>3. d # activeId
      BY <1>4, <3>1, <3>2 DEF Unread, NotSending
    <3>4. activeId \in Convo
      <4>1. load[l] \in LoadType
        BY ScreenFacts
      <4> QED BY <3>1, <4>1 DEF LoadType, NoLoad
    <3> QED BY <1>6, <3>1, <3>3, <3>4
  <2>4. QuietShown'
    <3> SUFFICES ASSUME Quiet PROVE QuietShown'
      BY <1>2 DEF QuietShown, Quiet
    <3>1. d # activeId \/ Unread(d)
      BY DEF Unread, Quiet, NotSending, NoLoad
    <3>2. PICK n : n = Len(messages)
      OBVIOUS
    <3>3. Shown(n, activeId)'
      BY <1>8, <2>1, <3>1, <3>2 DEF QuietShown
    <3> QED BY <1>2, <3>2, <3>3 DEF QuietShown, Shown
  <2> QED BY <2>2, <2>3, <2>4
<1> QED BY <1>2, <1>7, <1>9 DEF ScreenInv

LEMMA ReloadedShown == ASSUME ChatInv, ScreenInv, Reloaded PROVE ScreenInv'
<1>1. /\ sender.at = "reload" /\ sender' = NotSending
      /\ messages' = View(sender.conv, stored[sender.conv])
      /\ UNCHANGED <<created, stored, activeId, load, crossed>>
  BY DEF Reloaded
<1>1a. late' = FALSE /\ late' \in BOOLEAN
  BY Zenon DEF Reloaded
<1>2. sender # NotSending /\ sender.conv \in Convo
  BY <1>1, SendingAt, StreamedCreated DEF ScreenInv, ScreenTypes, ChatInv, ChatTypes
<1>3. PICK c \in Convo, rows \in Seq(Turn) : c = sender.conv /\ rows = stored[c]
  BY <1>2, ScreenFacts
<1>4. messages' \in Seq(EntryType)
  BY <1>1, <1>3, ViewTyped
<1>5. ScreenTypes'
  BY <1>1, <1>1a, <1>4 DEF ScreenInv, ScreenTypes, NotSending
<1>6. ASSUME crossed = FALSE PROVE SendShown' /\ LoadShown' /\ QuietShown'
  <2>1. (\A k \in Loading : load[k] = NoLoad) /\ c = activeId
    BY <1>1, <1>2, <1>3, <1>6 DEF ScreenInv, SendShown
  <2>2. Shown(Len(messages), c)'
    BY <1>1, <1>3, ViewShown
  <2>3. Shown(Len(messages), activeId)'
    BY <1>1, <2>1, <2>2
  <2> QED BY <1>1, <2>1, <2>3 DEF SendShown, LoadShown, QuietShown, Quiet
<1> QED BY <1>1, <1>5, <1>6 DEF ScreenInv

\* When nothing is under way the screen shows the open conversation as it is stored,
\* through every interleaving of loads, streams, refusals, reloads and the storing of
\* replies after [DONE], unless the user went on before an answer arrived, or one
\* failed, or a reply was stored only after the messages had been read
\* (openConversation, newChat, send, attachFile).
THEOREM ScreenAgreesHolds == PageSpec => []ScreenAgrees
<1>1. ChatInv /\ OwedSound /\ ScreenInv /\ [PageNext]_pageVars => ScreenInv'
  <2> SUFFICES ASSUME ChatInv, OwedSound, ScreenInv, [PageNext]_pageVars PROVE ScreenInv'
    OBVIOUS
  <2>1. ASSUME NEW l \in Loading,
               (\E c \in Convo : openConversation(l, c)) \/ Answered(l) \/ Arrives(l) \/ LoadFails(l)
        PROVE  ScreenInv'
    BY <2>1, OpenShown, AnsweredShown, ArrivesShown, FailsShown
  <2>2. ASSUME NEW c \in Convo, Created(c) \/ AttachCreated(c) PROVE ScreenInv'
    BY <2>2, CreatedShown, AttachCreatedShown
  <2>3. CASE newChat \/ send \/ Push \/ onDelta \/ onError \/ ErrorEnds \/ Reloaded
    BY <2>3, NewChatShown, SendingShown, PushShown, DeltaShown, ErrorShown, ErrorEndsShown,
       ReloadedShown
  <2>5. ASSUME NEW kept \in BOOLEAN, StreamEnds(kept) \/ SendFails(kept) PROVE ScreenInv'
    BY <2>5, StreamEndsShown, FailsShown
  <2>6. ASSUME NEW o \in owed, Stores(o) \/ StoreFails(o) PROVE ScreenInv'
    BY <2>6, StoresShown, ScreenUnchanged DEF StoreFails
  <2>4. CASE attachFile \/ Uploaded \/ AttachFails \/ addContext \/ ContextAdded \/ ContextFails
             \/ (\E p \in pending : dropPending(p)) \/ UNCHANGED pageVars
    <3>1. UNCHANGED <<created, stored, late, activeId, messages, load, sender, crossed>>
      BY <2>4 DEF attachFile, Uploaded, AttachFails, addContext, ContextAdded, ContextFails,
                  dropPending, pageVars
    <3> QED BY <3>1, ScreenUnchanged
  <2> QED BY <2>1, <2>2, <2>3, <2>4, <2>5, <2>6 DEF PageNext
<1>2. ChatInv /\ ScreenInv => ScreenAgrees
  BY ScreenInvAgrees
<1> QED BY <1>1, <1>2, InitChatInv, InitOwed, ChatStep, OwedStep, InitScreenInv, PTL DEF PageSpec

-----------------------------------------------------------------------------
(* The model selector.  As long as handlers do not overlap, the one under way  *)
(* knows the conversation and the provider that it will make agree.            *)

\* The handlers that change the conversation, its provider or the selection.
Relevant == {"open", "create", "created", "patch"}
ProvOrUnset == Prov \cup {Unset}

WorkSound(c) ==
  /\ work[c] = NoWork <=> work[c].at = "none"
  /\ work[c].at \in {"open", "patch"} => work[c].talk \in Talk /\ work[c].prov \in ProvOrUnset
  /\ work[c].at = "created" => work[c].talk \in Talk
  /\ work[c].at = "create" => work[c].prov \in ProvOrUnset
  /\ work[c].at = "listRead" => work[c].got \in [Talk -> ProvOrUnset]
  /\ work[c].at = "providersRead" => work[c].got \subseteq Prov

ModelTypes ==
  /\ DOMAIN work = MClick /\ \A c \in MClick : WorkSound(c)
  /\ provider \in [Talk -> ProvOrUnset] /\ conversations \in [Talk -> ProvOrUnset]
  /\ activeTalk \in Talk \cup {Unset} /\ selectedProvider \in ProvOrUnset
  /\ usable \subseteq Prov
  /\ behind \in BOOLEAN /\ upset \in BOOLEAN

\* The list is as the API has it, or it is being loaded again.
ListFresh == \/ behind = TRUE \/ conversations = provider
             \/ \E c \in MClick : work[c].at \in {"created", "list", "listRead"}

\* What the one handler under way will make of conversation, provider and selection.
Consistent(c) ==
  /\ work[c].at \in Relevant => \A d \in MClick : work[d].at \in Relevant => d = c
  /\ work[c].at = "open" => activeTalk = work[c].talk /\ work[c].prov = provider[work[c].talk]
  /\ work[c].at = "create" => activeTalk = Unset /\ work[c].prov = selectedProvider
  /\ work[c].at = "created" => activeTalk = Unset /\ provider[work[c].talk] = selectedProvider
  /\ work[c].at = "patch" => activeTalk = work[c].talk /\ work[c].prov = selectedProvider
Undisturbed ==
  /\ \A c \in MClick : Consistent(c)
  /\ \/ \E c \in MClick : work[c].at \in Relevant
     \/ activeTalk = Unset \/ selectedProvider = provider[activeTalk]

ModelInv == ModelTypes /\ ListFresh /\ (upset = FALSE => Undisturbed)

LEMMA WorkUpdate ==
  ASSUME ModelInv, NEW c \in MClick, NEW w, work' = [work EXCEPT ![c] = w]
  PROVE  DOMAIN work' = MClick /\ work'[c] = w /\ \A d \in MClick : d # c => work'[d] = work[d]
BY DEF ModelInv, ModelTypes

LEMMA SteadyFacts ==
  ASSUME ModelInv, Steady
  PROVE  /\ \A c \in MClick : work[c].at = "none"
         /\ behind = FALSE => conversations = provider
         /\ upset = FALSE => activeTalk = Unset \/ selectedProvider = provider[activeTalk]
<1>1. \A c \in MClick : work[c].at = "none"
  BY DEF Steady, NoWork
<1> QED BY <1>1 DEF ModelInv, ListFresh, Undisturbed, Relevant

LEMMA InitModelInv == ModelInit => ModelInv
<1> SUFFICES ASSUME ModelInit PROVE ModelInv
  OBVIOUS
<1>1. behind \in BOOLEAN /\ upset \in BOOLEAN /\ behind = TRUE
  BY Zenon DEF ModelInit
<1>2. /\ provider \in [Talk -> ProvOrUnset] /\ conversations \in [Talk -> ProvOrUnset]
      /\ activeTalk = Unset /\ selectedProvider \in ProvOrUnset /\ usable \subseteq Prov
  BY DEF ModelInit, ProvOrUnset
<1>3. DOMAIN work = MClick /\ \A c \in MClick : work[c] = NoWork \/ work[c] = [at |-> "list"]
                                                \/ work[c] = [at |-> "providers"]
  BY DEF ModelInit
<1>4. \A c \in MClick : WorkSound(c) /\ work[c].at \in {"none", "list", "providers"}
  BY <1>3 DEF WorkSound, NoWork
<1> QED BY <1>1, <1>2, <1>3, <1>4 DEF ModelInv, ModelTypes, ListFresh, Undisturbed, Consistent,
                                      Relevant

\* A step that leaves conversation, providers and selection alone, of a handler that
\* has no part in them.
LEMMA AsideModelStep ==
  ASSUME ModelInv, NEW c \in MClick, NEW w, work' = [work EXCEPT ![c] = w],
         work[c].at \notin Relevant, w.at \notin Relevant,
         w = NoWork <=> w.at = "none",
         w.at = "listRead" => w.got \in [Talk -> ProvOrUnset],
         w.at = "providersRead" => w.got \subseteq Prov,
         UNCHANGED <<usable, provider, activeTalk, upset>>, selectedProvider' \in ProvOrUnset,
         conversations' \in [Talk -> ProvOrUnset], behind' \in BOOLEAN,
         selectedProvider' = selectedProvider \/ upset = TRUE
           \/ (activeTalk = Unset /\ \A d \in MClick : work[d].at \notin {"create", "created"}),
         \/ behind' = TRUE \/ conversations' = provider
         \/ /\ behind' = behind /\ conversations' = conversations
            /\ work[c].at \in {"list", "listRead"} => w.at \in {"list", "listRead"}
  PROVE  ModelInv'
<1>1. DOMAIN work' = MClick /\ work'[c] = w /\ \A d \in MClick : d # c => work'[d] = work[d]
  BY WorkUpdate
<1>2. ModelTypes'
  BY <1>1 DEF ModelInv, ModelTypes, WorkSound, Relevant
<1>3. ListFresh'
  BY <1>1 DEF ModelInv, ListFresh, Relevant
<1>4. ASSUME upset' = FALSE PROVE Undisturbed'
  <2>1. Undisturbed /\ upset = FALSE
    BY <1>4 DEF ModelInv
  <2>2. \A d \in MClick : work'[d].at \in Relevant => work'[d] = work[d] /\ d # c
    BY <1>1
  <2>3. \A d \in MClick : work[d].at \in Relevant => work'[d] = work[d]
    BY <1>1
  <2>4. CASE selectedProvider' = selectedProvider
    BY <2>1, <2>2, <2>3, <2>4 DEF Undisturbed, Consistent, Relevant
  <2>5. CASE activeTalk = Unset /\ \A d \in MClick : work[d].at \notin {"create", "created"}
    <3>1. \A d \in MClick : work'[d].at \notin Relevant
      BY <2>1, <2>2, <2>5, ModelAssumption DEF Undisturbed, Consistent, Relevant, ModelInv,
         ModelTypes, WorkSound
    <3> QED BY <2>5, <3>1 DEF Undisturbed, Consistent, Relevant
  <2> QED BY <2>1, <2>4, <2>5
<1> QED BY <1>2, <1>3, <1>4 DEF ModelInv

LEMMA LoadingStep ==
  ASSUME ModelInv, NEW c \in MClick,
         onFocus(c) \/ ProvidersRead(c) \/ ProvidersLoaded(c) \/ ListRead(c) \/ ListShown(c)
  PROVE  ModelInv'
<1>0. /\ provider \in [Talk -> ProvOrUnset] /\ conversations \in [Talk -> ProvOrUnset]
      /\ behind \in BOOLEAN /\ upset \in BOOLEAN /\ WorkSound(c)
      /\ selectedProvider \in ProvOrUnset /\ usable \subseteq Prov
  BY DEF ModelInv, ModelTypes
<1>1. CASE onFocus(c)
  <2>1. /\ work[c].at = "none" /\ work' = [work EXCEPT ![c] = [at |-> "providers"]]
        /\ UNCHANGED <<usable, provider, activeTalk, upset, behind, conversations,
                       selectedProvider>>
    BY <1>1 DEF onFocus, Does, NoWork, pageState
  <2>2. [at |-> "providers"] # NoWork
    BY DEF NoWork
  <2> QED BY <1>0, <2>1, <2>2, AsideModelStep DEF Relevant
<1>2. CASE ProvidersRead(c)
  <2>1. /\ work[c].at = "providers"
        /\ work' = [work EXCEPT ![c] = [at |-> "providersRead", got |-> usable]]
        /\ UNCHANGED <<usable, provider, activeTalk, upset, behind, conversations,
                       selectedProvider>>
    BY <1>2 DEF ProvidersRead, Then, pageState
  <2>2. [at |-> "providersRead", got |-> usable] # NoWork
    BY DEF NoWork
  <2> QED BY <1>0, <2>1, <2>2, AsideModelStep DEF Relevant
<1>3. CASE ProvidersLoaded(c)
  <2>1. /\ work[c].at = "providersRead" /\ work' = [work EXCEPT ![c] = NoWork]
        /\ UNCHANGED <<usable, provider, activeTalk, behind, conversations>>
        /\ selectedProvider' \in Kept(work[c].got)
    BY <1>3 DEF ProvidersLoaded, Then
  <2>0. selectedProvider' \in ProvOrUnset
    BY <1>0, <2>1 DEF Kept, WorkSound, ProvOrUnset
  <2>2. upset' = (upset \/ (selectedProvider' # selectedProvider /\ (activeTalk # Unset \/ Creating)))
    BY <1>3, Zenon DEF ProvidersLoaded
  <2>3. CASE upset' = TRUE
    <3>1. ModelTypes'
      BY <1>0, <2>0, <2>1, <2>3, WorkUpdate DEF ModelInv, ModelTypes, WorkSound, NoWork
    <3>2. ListFresh'
      BY <2>1, WorkUpdate DEF ModelInv, ListFresh
    <3> QED BY <2>3, <3>1, <3>2 DEF ModelInv
  <2>4. CASE upset' # TRUE
    <3>1. upset = FALSE /\ upset' = upset
      BY <1>0, <2>2, <2>4
    <3>2. selectedProvider' = selectedProvider
           \/ (activeTalk = Unset /\ \A d \in MClick : work[d].at \notin {"create", "created"})
      BY <2>2, <2>4 DEF Creating
    <3>3. NoWork.at = "none"
      BY DEF NoWork
    <3> QED BY <1>0, <2>0, <2>1, <3>1, <3>2, <3>3, AsideModelStep DEF Relevant
  <2> QED BY <2>3, <2>4
<1>4. CASE ListRead(c)
  <2>1. /\ work[c].at = "list"
        /\ work' = [work EXCEPT ![c] = [at |-> "listRead", got |-> provider]]
        /\ UNCHANGED <<usable, provider, activeTalk, upset, behind, conversations,
                       selectedProvider>>
    BY <1>4 DEF ListRead, Then, pageState
  <2>2. [at |-> "listRead", got |-> provider] # NoWork
    BY DEF NoWork
  <2> QED BY <1>0, <2>1, <2>2, AsideModelStep DEF Relevant
<1>5. CASE ListShown(c)
  <2>1. /\ work[c].at = "listRead" /\ work' = [work EXCEPT ![c] = NoWork]
        /\ conversations' = work[c].got /\ work[c].got \in [Talk -> ProvOrUnset]
        /\ UNCHANGED <<usable, provider, activeTalk, selectedProvider>>
    BY <1>0, <1>5 DEF ListShown, Then, WorkSound
  <2>2. upset' = upset /\ behind' \in BOOLEAN /\ (behind' = TRUE \/ conversations' = provider)
    BY <1>5 DEF ListShown
  <2>3. NoWork.at = "none"
    BY DEF NoWork
  <2> QED BY <1>0, <2>1, <2>2, <2>3, AsideModelStep DEF Relevant
<1> QED BY <1>1, <1>2, <1>3, <1>4, <1>5

LEMMA OpenTalkStep == ASSUME ModelInv, NEW c \in MClick, NEW t \in Talk, openTalk(c, t) PROVE ModelInv'
<1> DEFINE w == [at |-> "open", talk |-> t, prov |-> conversations[t]]
<1>1. /\ work[c].at = "none" /\ work' = [work EXCEPT ![c] = w] /\ activeTalk' = t
      /\ UNCHANGED <<usable, provider, conversations, selectedProvider, behind>>
  BY DEF openTalk, Does, NoWork
<1>2. upset' = (behind \/ ~Steady)
  BY DEF openTalk
<1>3. w.at = "open" /\ w.talk = t /\ w.prov = conversations[t] /\ w # NoWork
  BY DEF NoWork
<1> HIDE DEF w
<1>4. DOMAIN work' = MClick /\ work'[c] = w /\ \A d \in MClick : d # c => work'[d] = work[d]
  BY <1>1, WorkUpdate
<1>5. ModelTypes'
  BY <1>1, <1>2, <1>3, <1>4 DEF ModelInv, ModelTypes, WorkSound
<1>6. ListFresh'
  BY <1>1, <1>4 DEF ModelInv, ListFresh
<1>7. ASSUME upset' = FALSE PROVE Undisturbed'
  <2>1. behind = FALSE /\ Steady
    BY <1>2, <1>7 DEF ModelInv, ModelTypes
  <2>2. conversations = provider /\ \A d \in MClick : work[d].at = "none"
    BY <2>1, SteadyFacts
  <2> QED BY <1>1, <1>3, <1>4, <2>2 DEF Undisturbed, Consistent, Relevant
<1> QED BY <1>5, <1>6, <1>7 DEF ModelInv

LEMMA OpenedStep == ASSUME ModelInv, NEW c \in MClick, Opened(c) PROVE ModelInv'
<1>1. /\ work[c].at = "open" /\ work' = [work EXCEPT ![c] = NoWork]
      /\ selectedProvider' = work[c].prov
      /\ UNCHANGED <<usable, provider, conversations, activeTalk, behind, upset>>
  BY DEF Opened, Then
<1>2. NoWork.at = "none"
  BY DEF NoWork
<1>3. DOMAIN work' = MClick /\ work'[c] = NoWork /\ \A d \in MClick : d # c => work'[d] = work[d]
  BY <1>1, WorkUpdate
<1>4. ModelTypes'
  BY <1>1, <1>2, <1>3 DEF ModelInv, ModelTypes, WorkSound
<1>5. ListFresh'
  BY <1>1, <1>3 DEF ModelInv, ListFresh
<1>6. ASSUME upset = FALSE PROVE Undisturbed'
  <2>1. Undisturbed
    BY <1>6 DEF ModelInv
  <2>2. \A d \in MClick : work'[d].at \notin Relevant
    BY <1>1, <1>2, <1>3, <2>1 DEF Undisturbed, Consistent, Relevant
  <2>3. selectedProvider' = provider[activeTalk]
    BY <1>1, <2>1 DEF Undisturbed, Consistent
  <2> QED BY <1>1, <2>2, <2>3 DEF Undisturbed, Consistent, Relevant
<1> QED BY <1>1, <1>4, <1>5, <1>6 DEF ModelInv

LEMMA NewTalkStep == ASSUME ModelInv, newTalk PROVE ModelInv'
<1>1. /\ activeTalk' = Unset
      /\ UNCHANGED <<usable, provider, conversations, selectedProvider, work, behind>>
  BY DEF newTalk
<1>2. upset' = ~Steady
  BY DEF newTalk
<1>3. ModelTypes' /\ ListFresh'
  BY <1>1, <1>2 DEF ModelInv, ModelTypes, ListFresh, WorkSound
<1>4. ASSUME upset' = FALSE PROVE Undisturbed'
  <2>1. \A d \in MClick : work'[d].at = "none"
    BY <1>1, <1>2, <1>4, SteadyFacts
  <2> QED BY <1>1, <2>1 DEF Undisturbed, Consistent, Relevant
<1> QED BY <1>3, <1>4 DEF ModelInv

LEMMA CreateTalkStep == ASSUME ModelInv, NEW c \in MClick, Create(c) PROVE ModelInv'
<1> DEFINE w == [at |-> "create", prov |-> selectedProvider]
<1>1. /\ work[c].at = "none" /\ work' = [work EXCEPT ![c] = w] /\ activeTalk = Unset
      /\ UNCHANGED <<usable, provider, conversations, activeTalk, selectedProvider, behind>>
  BY DEF Create, Does, NoWork, pageState
<1>2. upset' = (upset \/ ~Steady)
  BY DEF Create
<1>3. w.at = "create" /\ w.prov = selectedProvider /\ w # NoWork
  BY DEF NoWork
<1> HIDE DEF w
<1>4. DOMAIN work' = MClick /\ work'[c] = w /\ \A d \in MClick : d # c => work'[d] = work[d]
  BY <1>1, WorkUpdate
<1>5. ModelTypes'
  BY <1>1, <1>2, <1>3, <1>4 DEF ModelInv, ModelTypes, WorkSound
<1>6. ListFresh'
  BY <1>1, <1>4 DEF ModelInv, ListFresh
<1>7. ASSUME upset' = FALSE PROVE Undisturbed'
  <2>1. \A d \in MClick : work[d].at = "none"
    BY <1>2, <1>7, SteadyFacts
  <2> QED BY <1>1, <1>3, <1>4, <2>1 DEF Undisturbed, Consistent, Relevant
<1> QED BY <1>5, <1>6, <1>7 DEF ModelInv

LEMMA TalkStoredStep ==
  ASSUME ModelInv, NEW c \in MClick, NEW t \in Talk, TalkStored(c, t) PROVE ModelInv'
<1> DEFINE w == [at |-> "created", talk |-> t]
<1>1. /\ work[c].at = "create" /\ work' = [work EXCEPT ![c] = w]
      /\ provider' = [provider EXCEPT ![t] = work[c].prov]
      /\ UNCHANGED <<usable, conversations, activeTalk, selectedProvider, behind, upset>>
  BY DEF TalkStored, Then, pageState
<1>2. w.at = "created" /\ w.talk = t /\ w # NoWork
  BY DEF NoWork
<1> HIDE DEF w
<1>3. DOMAIN work' = MClick /\ work'[c] = w /\ \A d \in MClick : d # c => work'[d] = work[d]
  BY <1>1, WorkUpdate
<1>4. ModelTypes'
  BY <1>1, <1>2, <1>3 DEF ModelInv, ModelTypes, WorkSound
<1>5. ListFresh'
  BY <1>1, <1>2, <1>3 DEF ModelInv, ListFresh
<1>6. ASSUME upset = FALSE PROVE Undisturbed'
  <2>1. Undisturbed
    BY <1>6 DEF ModelInv
  <2>2. \A d \in MClick : d # c => work'[d].at \notin Relevant
    BY <1>1, <1>3, <2>1 DEF Undisturbed, Consistent, Relevant
  <2>3. activeTalk' = Unset /\ provider'[t] = selectedProvider'
    BY <1>1, <2>1 DEF Undisturbed, Consistent, ModelInv, ModelTypes
  <2> QED BY <1>2, <1>3, <2>2, <2>3 DEF Undisturbed, Consistent, Relevant
<1> QED BY <1>1, <1>4, <1>5, <1>6 DEF ModelInv

LEMMA TalkCreatedStep == ASSUME ModelInv, NEW c \in MClick, TalkCreated(c) PROVE ModelInv'
<1> DEFINE w == [at |-> "list"]
<1>1. /\ work[c].at = "created" /\ work' = [work EXCEPT ![c] = w] /\ activeTalk' = work[c].talk
      /\ UNCHANGED <<usable, provider, conversations, selectedProvider, behind, upset>>
  BY DEF TalkCreated, Then
<1>2. w.at = "list" /\ w # NoWork
  BY DEF NoWork
<1> HIDE DEF w
<1>3. DOMAIN work' = MClick /\ work'[c] = w /\ \A d \in MClick : d # c => work'[d] = work[d]
  BY <1>1, WorkUpdate
<1>4. ModelTypes'
  BY <1>1, <1>2, <1>3 DEF ModelInv, ModelTypes, WorkSound
<1>5. ListFresh'
  BY <1>1, <1>2, <1>3 DEF ModelInv, ListFresh
<1>6. ASSUME upset = FALSE PROVE Undisturbed'
  <2>1. Undisturbed
    BY <1>6 DEF ModelInv
  <2>2. \A d \in MClick : work'[d].at \notin Relevant
    BY <1>1, <1>2, <1>3, <2>1 DEF Undisturbed, Consistent, Relevant
  <2>3. selectedProvider' = provider'[activeTalk']
    BY <1>1, <2>1 DEF Undisturbed, Consistent
  <2> QED BY <2>2, <2>3 DEF Undisturbed, Consistent, Relevant
<1> QED BY <1>1, <1>4, <1>5, <1>6 DEF ModelInv

LEMMA SwitchStep ==
  ASSUME ModelInv, NEW c \in MClick, NEW p \in Prov, switchProvider(c, p) PROVE ModelInv'
<1>1. /\ selectedProvider' = p
      /\ UNCHANGED <<usable, provider, conversations, activeTalk, behind>>
  BY DEF switchProvider
<1>2. upset' = (upset \/ ~Steady)
  BY DEF switchProvider
<1>3. CASE activeTalk = Unset
  <2>1. work' = work
    BY <1>3 DEF switchProvider
  <2>2. ModelTypes' /\ ListFresh'
    BY <1>1, <1>2, <2>1 DEF ModelInv, ModelTypes, ListFresh, WorkSound, ProvOrUnset
  <2>3. ASSUME upset' = FALSE PROVE Undisturbed'
    <3>1. \A d \in MClick : work'[d].at = "none"
      BY <1>2, <2>1, <2>3, SteadyFacts
    <3> QED BY <1>1, <1>3, <3>1 DEF Undisturbed, Consistent, Relevant
  <2> QED BY <2>2, <2>3 DEF ModelInv
<1>4. CASE activeTalk # Unset
  <2> DEFINE w == [at |-> "patch", talk |-> activeTalk, prov |-> p]
  <2>1. work[c].at = "none" /\ work' = [work EXCEPT ![c] = w]
    BY <1>4 DEF switchProvider, Does, NoWork
  <2>2. w.at = "patch" /\ w.talk = activeTalk /\ w.prov = p /\ w # NoWork
    BY DEF NoWork
  <2> HIDE DEF w
  <2>3. DOMAIN work' = MClick /\ work'[c] = w /\ \A d \in MClick : d # c => work'[d] = work[d]
    BY <2>1, WorkUpdate
  <2>4. ModelTypes'
    BY <1>1, <1>2, <1>4, <2>2, <2>3 DEF ModelInv, ModelTypes, WorkSound, ProvOrUnset
  <2>5. ListFresh'
    BY <1>1, <2>1, <2>3 DEF ModelInv, ListFresh
  <2>6. ASSUME upset' = FALSE PROVE Undisturbed'
    <3>1. \A d \in MClick : work[d].at = "none"
      BY <1>2, <2>6, SteadyFacts
    <3> QED BY <1>1, <2>2, <2>3, <3>1 DEF Undisturbed, Consistent, Relevant
  <2> QED BY <2>4, <2>5, <2>6 DEF ModelInv
<1> QED BY <1>3, <1>4

LEMMA PatchedStep == ASSUME ModelInv, NEW c \in MClick, Patched(c) PROVE ModelInv'
<1> DEFINE w == [at |-> "list"]
<1>1. /\ work[c].at = "patch" /\ work' = [work EXCEPT ![c] = w]
      /\ provider' = [provider EXCEPT ![work[c].talk] = work[c].prov]
      /\ UNCHANGED <<usable, conversations, activeTalk, selectedProvider, behind, upset>>
  BY DEF Patched, Then, pageState
<1>2. w.at = "list" /\ w # NoWork
  BY DEF NoWork
<1> HIDE DEF w
<1>3. DOMAIN work' = MClick /\ work'[c] = w /\ \A d \in MClick : d # c => work'[d] = work[d]
  BY <1>1, WorkUpdate
<1>4. ModelTypes'
  BY <1>1, <1>2, <1>3 DEF ModelInv, ModelTypes, WorkSound
<1>5. ListFresh'
  BY <1>2, <1>3 DEF ListFresh
<1>6. ASSUME upset = FALSE PROVE Undisturbed'
  <2>1. Undisturbed
    BY <1>6 DEF ModelInv
  <2>2. \A d \in MClick : work'[d].at \notin Relevant
    BY <1>1, <1>2, <1>3, <2>1 DEF Undisturbed, Consistent, Relevant
  <2>3. selectedProvider' = provider'[activeTalk']
    BY <1>1, <2>1 DEF Undisturbed, Consistent, ModelInv, ModelTypes, WorkSound
  <2> QED BY <2>2, <2>3 DEF Undisturbed, Consistent, Relevant
<1> QED BY <1>1, <1>4, <1>5, <1>6 DEF ModelInv

LEMMA WorkFailsStep == ASSUME ModelInv, NEW c \in MClick, WorkFails(c) PROVE ModelInv'
<1>1. /\ work' = [work EXCEPT ![c] = NoWork]
      /\ UNCHANGED <<usable, provider, conversations, activeTalk, selectedProvider>>
  BY DEF WorkFails, Then, pageState
<1>2. NoWork.at = "none"
  BY DEF NoWork
<1>3. /\ behind' = (behind \/ conversations # provider \/ work[c].at \in {"list", "listRead"})
      /\ upset' = (upset \/ work[c].at \in {"open", "create", "created", "patch"})
  BY DEF WorkFails
<1>4. DOMAIN work' = MClick /\ work'[c] = NoWork /\ \A d \in MClick : d # c => work'[d] = work[d]
  BY <1>1, WorkUpdate
<1>5. behind' \in BOOLEAN /\ upset' \in BOOLEAN
  BY <1>3, Zenon
<1>6. behind' = FALSE => conversations = provider
  BY <1>3
<1>7. upset' = FALSE => upset = FALSE /\ work[c].at \notin Relevant
  BY <1>3 DEF Relevant, ModelInv, ModelTypes
<1>8. ModelTypes'
  BY <1>1, <1>2, <1>4, <1>5 DEF ModelInv, ModelTypes, WorkSound
<1>9. ListFresh'
  BY <1>1, <1>5, <1>6 DEF ListFresh
<1>10. ASSUME upset' = FALSE PROVE Undisturbed'
  <2>1. Undisturbed /\ work[c].at \notin Relevant
    BY <1>7, <1>10 DEF ModelInv
  <2>2. \A d \in MClick : work'[d].at \in Relevant <=> work[d].at \in Relevant
    BY <1>2, <1>4, <2>1 DEF Relevant
  <2>3. \A d \in MClick : work'[d].at \in Relevant => work'[d] = work[d]
    BY <1>2, <1>4 DEF Relevant
  <2> QED BY <1>1, <2>1, <2>2, <2>3 DEF Undisturbed, Consistent, Relevant
<1> QED BY <1>8, <1>9, <1>10 DEF ModelInv

\* At rest the selector shows the provider the open conversation is stored with,
\* unless handlers overlapped, one failed or the model had become unusable
\* (openTalk, createTalk, switchProvider), for any number of them.
THEOREM ModelShownHolds == ModelSpec => []ModelShown
<1>1. ModelInv /\ [ModelNext]_modelVars => ModelInv'
  <2> SUFFICES ASSUME ModelInv, [ModelNext]_modelVars PROVE ModelInv'
    OBVIOUS
  <2>1. CASE UNCHANGED modelVars
    BY <2>1 DEF modelVars, pageState, ModelInv, ModelTypes, WorkSound, ListFresh, Undisturbed,
                Consistent
  <2>2. ASSUME NEW p \in Prov, UsableChanges(p) PROVE ModelInv'
    BY <2>2 DEF UsableChanges, pageState, ModelInv, ModelTypes, WorkSound, ListFresh,
                Undisturbed, Consistent
  <2> QED BY <2>1, <2>2, LoadingStep, OpenTalkStep, OpenedStep, NewTalkStep, CreateTalkStep,
             TalkStoredStep, TalkCreatedStep, SwitchStep, PatchedStep, WorkFailsStep DEF ModelNext
<1>2. ModelInv => ModelShown
  BY SteadyFacts DEF ModelShown, ModelInv, ModelTypes
<1> QED BY <1>1, <1>2, InitModelInv, PTL DEF ModelSpec

-----------------------------------------------------------------------------
(* The session.  A call that may yet renew finds a token, and the repeated    *)
(* call carries a good one.                                                   *)

\* A call in flight.
FetchState == [at : {"sent", "refused", "renewing", "failed"}, token : Nat, again : BOOLEAN]

SessionTypes ==
  /\ access \in Nat /\ refresh = access
  /\ issued \in Nat /\ expired \in 0 .. issued
  /\ enabled \in BOOLEAN /\ loggedIn \in BOOLEAN /\ revived \in BOOLEAN
  /\ fetch \in [Fetch -> {Ended} \cup FetchState]
  /\ excused \subseteq Fetch

\* The repeated call carries a token that is still good.
RetrySound(f) == fetch[f].at = "sent" /\ fetch[f].again
                   => f \in excused \/ (enabled = TRUE /\ fetch[f].token > expired)
\* A call that may yet renew the tokens finds a refresh token.
Renewable(f) == fetch[f].at \in {"sent", "refused", "renewing"} => access # 0 \/ f \in excused
\* A call of a disabled account is excused.
Disabled(f) == fetch[f].at # "none" /\ enabled = FALSE => f \in excused
Survives(f) == fetch[f].at = "failed" => f \in excused
\* A renewal under way belongs to a session, or to one that ended around it.
RenewalOwned(f) == fetch[f].at = "renewing" => loggedIn = TRUE \/ revived = TRUE
StorageOwned == access # 0 => loggedIn = TRUE \/ revived = TRUE

SessionInv ==
  /\ SessionTypes
  /\ \A f \in Fetch : /\ RetrySound(f) /\ Renewable(f) /\ Disabled(f) /\ Survives(f)
                      /\ RenewalOwned(f)
  /\ StorageOwned

\* Calls that find the token expired together do not end the session for each other,
\* and after a logout localStorage stays empty unless a renewal was under way
\* (api, tryRefresh, clearSession), for any number of calls and renewals.
THEOREM SessionSoundHolds == SessionSpec => []SessionSound
<1>1. SessionInit => SessionInv
  <2> SUFFICES ASSUME SessionInit PROVE SessionInv
    OBVIOUS
  <2>1. SessionTypes
    <3>1. enabled \in BOOLEAN /\ loggedIn \in BOOLEAN /\ revived \in BOOLEAN
      BY Zenon DEF SessionInit
    <3>2. /\ access = 0 /\ refresh = 0 /\ issued = 0 /\ expired = 0 /\ excused = {}
          /\ fetch = [f \in Fetch |-> Ended]
      BY Zenon DEF SessionInit
    <3> QED BY <3>1, <3>2 DEF SessionTypes
  <2>2. access = 0 /\ \A f \in Fetch : fetch[f].at = "none"
    BY DEF SessionInit, Ended
  <2> QED BY <2>1, <2>2 DEF SessionInv, RetrySound, Renewable, Disabled, Survives,
                RenewalOwned, StorageOwned
<1>2. SessionInv /\ [SessionNext]_sessionVars => SessionInv'
  <2> SUFFICES ASSUME SessionInv, [SessionNext]_sessionVars PROVE SessionInv'
    OBVIOUS
  <2> USE DEF SessionInv
  <2>0. CASE UNCHANGED sessionVars
    BY <2>0 DEF sessionVars, storageVars, serverVars, SessionTypes, RetrySound, Renewable,
                Disabled, Survives, RenewalOwned, StorageOwned
  <2>1. CASE login
    <3>1. /\ enabled = TRUE /\ issued' = issued + 1 /\ access' = issued + 1
          /\ refresh' = issued + 1 /\ loggedIn' = TRUE /\ revived' = FALSE
          /\ expired' = expired /\ enabled' = enabled /\ fetch' = fetch /\ excused' = excused
      BY <2>1 DEF login, setSession, SessionTypes
    <3>2. SessionTypes'
      <4>1. enabled' \in BOOLEAN /\ loggedIn' \in BOOLEAN /\ revived' \in BOOLEAN
        BY <3>1, Zenon
      <4>2. /\ access' \in Nat /\ refresh' = access' /\ issued' \in Nat
            /\ expired' \in 0 .. issued'
        BY <3>1 DEF SessionTypes
      <4> QED BY <3>1, <4>1, <4>2 DEF SessionTypes
    <3>3. access' # 0
      BY <3>1 DEF SessionTypes
    <3>4. ASSUME NEW f \in Fetch PROVE RetrySound(f)'
      BY <3>1 DEF RetrySound
    <3> QED BY <3>1, <3>2, <3>3, <3>4 DEF Renewable, Disabled, Survives, RenewalOwned,
                StorageOwned
  <2>2. CASE logout
    <3>1. /\ access' = 0 /\ refresh' = 0 /\ loggedIn' = FALSE /\ excused' = Fetch
          /\ issued' = issued /\ expired' = expired /\ enabled' = enabled /\ fetch' = fetch
      BY <2>2 DEF logout, clearSession, serverVars
    <3>2. revived' \in BOOLEAN /\ \A f \in Fetch : fetch[f].at = "renewing" => revived' = TRUE
      BY <2>2 DEF logout, Running
    <3> QED BY <3>1, <3>2 DEF SessionTypes, RetrySound, Renewable, Disabled, Survives,
                RenewalOwned, StorageOwned
  <2>3. CASE ExpireAccess
    <3>1. /\ access' = access /\ refresh' = refresh /\ issued' = issued /\ enabled' = enabled
          /\ fetch' = fetch /\ loggedIn' = loggedIn /\ revived' = revived
          /\ expired < issued /\ expired' = expired + 1
          /\ excused' = excused \cup {f \in Fetch : fetch[f] # Ended /\ fetch[f].again}
      BY <2>3 DEF ExpireAccess, storageVars
    <3>2. SessionTypes'
      BY <3>1 DEF SessionTypes
    <3>3. ASSUME NEW f \in Fetch PROVE RetrySound(f)'
      BY <3>1 DEF SessionTypes, RetrySound, Ended
    <3> QED BY <3>1, <3>2, <3>3 DEF SessionTypes, Renewable, Disabled, Survives,
                RenewalOwned, StorageOwned
  <2>4. ASSUME NEW b \in BOOLEAN, SetEnabled(b) PROVE SessionInv'
    <3>1. /\ access' = access /\ refresh' = refresh /\ issued' = issued
          /\ fetch' = fetch /\ loggedIn' = loggedIn /\ revived' = revived /\ expired' = expired
          /\ enabled' = b /\ enabled # b
      BY <2>4 DEF SetEnabled, storageVars
    <3>2. CASE b = TRUE
      <4>1. enabled = FALSE /\ enabled' = TRUE /\ excused' = excused
        BY <2>4, <3>1, <3>2 DEF SetEnabled, SessionTypes
      <4> QED BY <3>1, <4>1 DEF SessionTypes, RetrySound, Renewable, Disabled, Survives,
                RenewalOwned, StorageOwned
    <3>3. CASE b = FALSE
      <4>1. enabled' = FALSE /\ excused' = Fetch
        BY <2>4, <3>1, <3>3 DEF SetEnabled
      <4> QED BY <3>1, <4>1 DEF SessionTypes, RetrySound, Renewable, Disabled, Survives,
                RenewalOwned, StorageOwned
    <3> QED BY <3>2, <3>3
  <2>5. ASSUME NEW f \in Fetch, api(f) PROVE SessionInv'
    <3>1. /\ access' = access /\ refresh' = refresh /\ issued' = issued /\ enabled' = enabled
          /\ loggedIn' = loggedIn /\ revived' = revived /\ expired' = expired
          /\ refresh # 0
          /\ fetch' = [fetch EXCEPT ![f] = [at |-> "sent", token |-> access, again |-> FALSE]]
      BY <2>5 DEF api, storageVars, serverVars
    <3>2. /\ enabled = FALSE => f \in excused'
          /\ \A g \in Fetch : g # f => (g \in excused' <=> g \in excused)
          /\ excused' \subseteq Fetch
      <4>1. CASE enabled = TRUE
        <5>1. excused' = excused \ {f}
          BY <2>5, <4>1 DEF api
        <5> QED BY <5>1, <4>1 DEF SessionTypes
      <4>2. CASE enabled = FALSE
        <5>1. excused' = excused \cup {f}
          BY <2>5, <4>2 DEF api
        <5> QED BY <5>1, <4>2 DEF SessionTypes
      <4> QED BY <4>1, <4>2 DEF SessionTypes
    <3>3. SessionTypes'
      BY <3>1, <3>2 DEF SessionTypes, FetchState
    <3>4. /\ fetch'[f].at = "sent" /\ fetch'[f].again = FALSE
          /\ \A g \in Fetch : g # f => fetch'[g] = fetch[g]
      BY <3>1 DEF SessionTypes
    <3> QED BY <3>1, <3>2, <3>3, <3>4 DEF SessionTypes, RetrySound, Renewable, Disabled,
                Survives, RenewalOwned, StorageOwned
  <2>6. ASSUME NEW f \in Fetch, Checked(f) PROVE SessionInv'
    <3>1. /\ access' = access /\ refresh' = refresh /\ issued' = issued /\ enabled' = enabled
          /\ loggedIn' = loggedIn /\ revived' = revived /\ expired' = expired
          /\ excused' = excused /\ fetch[f].at = "sent"
      BY <2>6 DEF Checked, storageVars, serverVars
    <3>2. fetch[f] \in FetchState
      BY <3>1 DEF SessionTypes, Ended
    <3>3. CASE TokenAccepted(f)
      <4>1. fetch' = [fetch EXCEPT ![f] = Ended]
        BY <2>6, <3>3 DEF Checked
      <4>2. fetch'[f].at = "none" /\ \A g \in Fetch : g # f => fetch'[g] = fetch[g]
        BY <4>1 DEF SessionTypes, Ended
      <4>3. SessionTypes'
        BY <3>1, <4>1 DEF SessionTypes
      <4> QED BY <3>1, <4>2, <4>3 DEF RetrySound, Renewable, Disabled, Survives, RenewalOwned,
                  StorageOwned
    <3>4. CASE ~TokenAccepted(f) /\ fetch[f].again
      <4>1. fetch' = [fetch EXCEPT ![f] = [fetch[f] EXCEPT !.at = "failed"]]
        BY <2>6, <3>4 DEF Checked
      <4>2. fetch'[f].at = "failed" /\ \A g \in Fetch : g # f => fetch'[g] = fetch[g]
        BY <4>1, <3>2 DEF SessionTypes, FetchState
      <4>3. SessionTypes'
        BY <3>1, <3>2, <4>1 DEF SessionTypes, FetchState
      <4>4. f \in excused
        BY <3>1, <3>4 DEF RetrySound, TokenAccepted
      <4> QED BY <3>1, <4>2, <4>3, <4>4 DEF RetrySound, Renewable, Disabled, Survives,
                  RenewalOwned, StorageOwned
    <3>5. CASE ~TokenAccepted(f) /\ ~fetch[f].again
      <4>1. fetch' = [fetch EXCEPT ![f] = [fetch[f] EXCEPT !.at = "refused"]]
        BY <2>6, <3>5 DEF Checked
      <4>2. fetch'[f].at = "refused" /\ \A g \in Fetch : g # f => fetch'[g] = fetch[g]
        BY <4>1, <3>2 DEF SessionTypes, FetchState
      <4>3. SessionTypes'
        BY <3>1, <3>2, <4>1 DEF SessionTypes, FetchState
      <4> QED BY <3>1, <4>2, <4>3 DEF RetrySound, Renewable, Disabled, Survives,
                  RenewalOwned, StorageOwned
    <3> QED BY <3>3, <3>4, <3>5
  <2>7. ASSUME NEW f \in Fetch, Renew(f) PROVE SessionInv'
    <3>1. /\ access' = access /\ refresh' = refresh /\ issued' = issued /\ enabled' = enabled
          /\ loggedIn' = loggedIn /\ revived' = revived /\ expired' = expired
          /\ excused' = excused /\ fetch[f].at = "refused"
      BY <2>7 DEF Renew, storageVars, serverVars
    <3>2. fetch[f] \in FetchState
      BY <3>1 DEF SessionTypes, Ended
    <3>3. PICK s \in {"failed", "renewing"} :
             /\ fetch' = [fetch EXCEPT ![f] = [fetch[f] EXCEPT !.at = s]]
             /\ s = "failed" <=> access = 0
      BY <2>7, <3>2 DEF Renew, SessionTypes
    <3>4. fetch'[f].at = s /\ \A g \in Fetch : g # f => fetch'[g] = fetch[g]
      BY <3>3, <3>2 DEF SessionTypes, FetchState
    <3>5. SessionTypes'
      BY <3>1, <3>2, <3>3 DEF SessionTypes, FetchState
    <3> QED BY <3>1, <3>3, <3>4, <3>5 DEF RetrySound, Renewable, Disabled, Survives,
                RenewalOwned, StorageOwned
  <2>8. ASSUME NEW f \in Fetch, Renewed(f) PROVE SessionInv'
    <3>1. /\ enabled' = enabled /\ loggedIn' = loggedIn /\ revived' = revived
          /\ expired' = expired /\ excused' = excused /\ fetch[f].at = "renewing"
      BY <2>8 DEF Renewed
    <3>2. fetch[f] \in FetchState
      BY <3>1 DEF SessionTypes, Ended
    <3>3. CASE enabled = TRUE
      <4>1. /\ issued' = issued + 1 /\ access' = issued + 1 /\ refresh' = issued + 1
            /\ fetch' = [fetch EXCEPT ![f] = [at |-> "sent", token |-> issued + 1,
                                              again |-> TRUE]]
        BY <2>8, <3>3 DEF Renewed, setSession, TokenOfRetry
      <4>2. /\ fetch'[f].at = "sent" /\ fetch'[f].token = issued + 1
            /\ \A g \in Fetch : g # f => fetch'[g] = fetch[g]
        BY <4>1 DEF SessionTypes
      <4>3. SessionTypes'
        BY <3>1, <4>1 DEF SessionTypes, FetchState
      <4> QED BY <3>1, <3>3, <4>1, <4>2, <4>3 DEF SessionTypes, RetrySound, Renewable,
                  Disabled, Survives, RenewalOwned, StorageOwned
    <3>4. CASE enabled = FALSE
      <4>1. /\ issued' = issued /\ access' = access /\ refresh' = refresh
            /\ fetch' = [fetch EXCEPT ![f] = [fetch[f] EXCEPT !.at = "failed"]]
        BY <2>8, <3>4 DEF Renewed, storageVars
      <4>2. fetch'[f].at = "failed" /\ \A g \in Fetch : g # f => fetch'[g] = fetch[g]
        BY <4>1, <3>2 DEF SessionTypes, FetchState
      <4>3. SessionTypes'
        BY <3>1, <3>2, <4>1 DEF SessionTypes, FetchState
      <4> QED BY <3>1, <3>4, <4>1, <4>2, <4>3 DEF RetrySound, Renewable, Disabled, Survives,
                  RenewalOwned, StorageOwned
    <3> QED BY <3>3, <3>4 DEF SessionTypes
  <2>9. ASSUME NEW f \in Fetch, Seen(f) PROVE SessionInv'
    <3>1. /\ access' = access /\ refresh' = refresh /\ issued' = issued /\ enabled' = enabled
          /\ loggedIn' = loggedIn /\ revived' = revived /\ expired' = expired
          /\ excused' = excused /\ fetch' = [fetch EXCEPT ![f] = Ended]
      BY <2>9 DEF Seen, storageVars, serverVars
    <3>2. fetch'[f].at = "none" /\ \A g \in Fetch : g # f => fetch'[g] = fetch[g]
      BY <3>1 DEF SessionTypes, Ended
    <3>3. SessionTypes'
      BY <3>1 DEF SessionTypes
    <3> QED BY <3>1, <3>2, <3>3 DEF RetrySound, Renewable, Disabled, Survives, RenewalOwned,
                StorageOwned
  <2> QED BY <2>0, <2>1, <2>2, <2>3, <2>4, <2>5, <2>6, <2>7, <2>8, <2>9 DEF SessionNext
<1>3. SessionInv => SessionSound
  BY DEF SessionInv, SessionTypes, Survives, StorageOwned, SessionSound, SessionSurvives,
         LogoutStays
<1> QED BY <1>1, <1>2, <1>3, PTL DEF SessionSpec

-----------------------------------------------------------------------------
(* The tabs.  ShellSound speaks of tabs that are ready; a tab carries its     *)
(* account, and the account's verdict, from the moment it asks.               *)

TabRecord == [path : Path, user : Person \cup {Nobody}, role : Role,
              at : Asking \cup {"mount", "ready", "login", "form", "change"}]
TabType == [Tab -> TabRecord]

ShellTypeOK ==
  /\ must \in [Person -> BOOLEAN] /\ rank \in [Person -> Role]
  /\ session \in [user : Person, role : Role] \cup {NoSession}
  /\ tab \in TabType
  /\ outside \subseteq Tab

Present(t) == tab[t].at \in Asking \cup {"ready"}

TabSound(t) ==
  /\ Present(t) => /\ tab[t].path \in DashPage /\ tab[t].user \in Person
                   /\ t \notin outside => session.user = tab[t].user
  /\ tab[t].at \in {"known", "ready"} => ~must[tab[t].user]
  /\ tab[t].at = "ready" /\ t \notin outside => session.role = tab[t].role
  /\ tab[t].at = "login" => tab[t].user \in Person

ShellInv == ShellTypeOK /\ \A t \in Tab : TabSound(t)

LEMMA InitShellInv == ShellInit => ShellInv
BY ShellAssumption DEF ShellInit, ShellInv, ShellTypeOK, TabType, TabRecord, TabSound, Present, Blank, NoSession, Asking, Role, Path,
       DashPage

-----------------------------------------------------------------------------
(* Two facts that every action uses *)

\* A tab an action does not touch stays sound, if passwords only become permanent
\* and the session is the same or the tab is counted among those beside it.
LEMMA Untouched ==
  ASSUME NEW x \in Tab, ShellTypeOK, TabSound(x), tab'[x] = tab[x],
         \A u \in Person : ~must[u] => ~must'[u],
         x \in outside => x \in outside',
         session' = session \/ (Present(x) => x \in outside')
  PROVE  TabSound(x)'
BY DEF TabSound, Present, Asking

\* A tab that shows a page outside the layout, or has just been mounted, owes
\* nothing.
LEMMA NotPresent ==
  ASSUME NEW t \in Tab, tab'[t].at \in {"mount", "form", "change"}
  PROVE  TabSound(t)'
BY DEF TabSound, Present, Asking

\* Leaving for another page keeps the types.
LEMMA GoesTyped ==
  ASSUME NEW t \in Tab, NEW p \in Path, ShellTypeOK, Goes(t, p)
  PROVE  /\ tab' \in TabType
         /\ tab'[t].at = "mount"
         /\ \A x \in Tab \ {t} : tab'[x] = tab[x]
BY DEF ShellTypeOK, TabType, TabRecord, Goes, Blank, Role

-----------------------------------------------------------------------------
(* One step per action *)

LEMMA NextShellInv == ShellInv /\ [ShellNext]_shellVars => ShellInv'
<1> SUFFICES ASSUME ShellInv, [ShellNext]_shellVars PROVE ShellInv'
  OBVIOUS
<1>0. ShellTypeOK /\ \A t \in Tab : TabSound(t)
  BY DEF ShellInv
<1>p. {"/", "/login", "/change-password", "/chat"} \cup DashPage \subseteq Path
  BY DEF Path, DashPage
<1>1. CASE Renews
  <2>1. ShellTypeOK'
    BY <1>0, <1>1, ShellAssumption DEF ShellTypeOK, Renews, getToken, NoSession
  <2>2. ASSUME NEW x \in Tab PROVE TabSound(x)'
    <3>1. tab'[x] = tab[x] /\ must' = must /\ (x \in outside => x \in outside')
      BY <1>1 DEF Renews
    <3>2. Present(x) => x \in outside'
      BY <1>1 DEF Renews, Present
    <3> QED BY <1>0, <3>1, <3>2, Untouched
  <2> QED BY <2>1, <2>2 DEF ShellInv
<1>2. ASSUME NEW u \in Person, NEW r \in Role, RoleChanges(u, r) PROVE ShellInv'
  <2>1. ShellTypeOK'
    BY <1>0, <1>2 DEF ShellTypeOK, RoleChanges
  <2>2. ASSUME NEW x \in Tab PROVE TabSound(x)'
    BY <1>0, <1>2, Untouched DEF RoleChanges
  <2> QED BY <2>1, <2>2 DEF ShellInv
<1>3. ASSUME NEW t \in Tab, Home(t) PROVE ShellInv'
  <2>1. PICK p \in Path : Goes(t, p)
    BY <1>3, <1>p DEF Home
  <2>2. ShellTypeOK'
    BY <1>0, <1>3, <2>1, GoesTyped DEF Home, ShellTypeOK
  <2>3. ASSUME NEW x \in Tab PROVE TabSound(x)'
    <3>1. CASE x = t
      BY <1>0, <2>1, <3>1, GoesTyped, NotPresent
    <3>2. CASE x # t
      BY <1>0, <1>3, <2>1, <3>2, GoesTyped, Untouched DEF Home
    <3> QED BY <3>1, <3>2
  <2> QED BY <2>2, <2>3 DEF ShellInv
<1>4. ASSUME NEW t \in Tab, LayoutAsks(t) PROVE ShellInv'
  <2>1. CASE getToken
    <3>1. session.user \in Person
      BY <1>0, <2>1 DEF ShellTypeOK, getToken
    <3>2. tab' = [tab EXCEPT ![t] = [tab[t] EXCEPT !.at = "me", !.user = session.user]]
      BY <1>4, <2>1 DEF LayoutAsks
    <3>3. ShellTypeOK'
      <4>1. [tab[t] EXCEPT !.at = "me", !.user = session.user]
              \in TabRecord
        BY <1>0, <3>1 DEF ShellTypeOK, TabType, TabRecord, Asking
      <4>2. tab' \in TabType
        BY <1>0, <3>2, <4>1 DEF ShellTypeOK, TabType
      <4> QED BY <1>0, <1>4, <4>2 DEF ShellTypeOK, LayoutAsks
    <3>4. tab'[t].at = "me" /\ tab'[t].user = session.user /\ tab'[t].path = tab[t].path
      BY <1>0, <3>2 DEF ShellTypeOK, TabType, TabRecord
    <3>5. ASSUME NEW x \in Tab PROVE TabSound(x)'
      <4>1. CASE x = t
        BY <1>4, <3>1, <3>4, <4>1 DEF LayoutAsks, TabSound, Present
      <4>2. CASE x # t
        <5>1. tab'[x] = tab[x]
          BY <1>0, <3>2, <4>2 DEF ShellTypeOK, TabType, TabRecord
        <5> QED BY <1>0, <1>4, <4>2, <5>1, Untouched DEF LayoutAsks
      <4> QED BY <4>1, <4>2
    <3> QED BY <3>3, <3>5 DEF ShellInv
  <2>2. CASE ~getToken
    <3>1. Goes(t, "/login") /\ "/login" \in Path
      BY <1>4, <1>p, <2>2 DEF LayoutAsks, Goes
    <3>2. ShellTypeOK'
      BY <1>0, <1>4, <3>1, GoesTyped DEF LayoutAsks, ShellTypeOK
    <3>3. ASSUME NEW x \in Tab PROVE TabSound(x)'
      <4>1. CASE x = t
        BY <1>0, <3>1, <4>1, GoesTyped, NotPresent
      <4>2. CASE x # t
        BY <1>0, <1>4, <3>1, <4>2, GoesTyped, Untouched DEF LayoutAsks
      <4> QED BY <4>1, <4>2
    <3> QED BY <3>2, <3>3 DEF ShellInv
  <2> QED BY <2>1, <2>2
<1>5. ASSUME NEW t \in Tab, MeRead(t) PROVE ShellInv'
  <2>1. tab' = [tab EXCEPT ![t].at = IF must[tab[t].user] THEN "temporary" ELSE "known"]
    BY <1>5 DEF MeRead, MustChange
  <2>2. ShellTypeOK'
    BY <1>0, <1>5, <2>1 DEF ShellTypeOK, TabType, TabRecord, MeRead, Asking
  <2>3. ASSUME NEW x \in Tab PROVE TabSound(x)'
    <3>1. CASE x = t
      <4>1. Present(t) /\ TabSound(t)
        BY <1>0, <1>5 DEF MeRead, Reached, Present, Asking
      <4>2. /\ tab'[t].user = tab[t].user /\ tab'[t].path = tab[t].path
            /\ tab'[t].at = IF must[tab[t].user] THEN "temporary" ELSE "known"
        BY <1>0, <2>1 DEF ShellTypeOK, TabType, TabRecord
      <4>3. must' = must /\ session' = session /\ outside' = outside
        BY <1>5 DEF MeRead
      <4> QED BY <3>1, <4>1, <4>2, <4>3 DEF TabSound, Present
    <3>2. CASE x # t
      <4>1. tab'[x] = tab[x]
        BY <1>0, <2>1, <3>2 DEF ShellTypeOK, TabType, TabRecord
      <4> QED BY <1>0, <1>5, <4>1, Untouched DEF MeRead
    <3> QED BY <3>1, <3>2
  <2> QED BY <2>2, <2>3 DEF ShellInv
<1>6. ASSUME NEW t \in Tab, LayoutTold(t) PROVE ShellInv'
  <2>1. CASE Reached(t, "known") /\ tab' = [tab EXCEPT ![t].at = "ready", ![t].role = session.role]
    <3>1. session.role \in Role
      BY <1>0 DEF ShellTypeOK, NoSession, Role
    <3>2. ShellTypeOK'
      <4>1. tab' \in TabType
        <5>1. tab' = [tab EXCEPT ![t] = [tab[t] EXCEPT !.at = "ready", !.role = session.role]]
          BY <1>0, <2>1 DEF ShellTypeOK, TabType, TabRecord
        <5>2. [tab[t] EXCEPT !.at = "ready", !.role = session.role] \in TabRecord
          BY <1>0, <3>1 DEF ShellTypeOK, TabType, TabRecord
        <5> QED BY <1>0, <5>1, <5>2 DEF ShellTypeOK, TabType
      <4> QED BY <1>0, <1>6, <4>1 DEF ShellTypeOK, LayoutTold
    <3>3. ASSUME NEW x \in Tab PROVE TabSound(x)'
      <4>1. CASE x = t
        <5>1. tab[t].at = "known" /\ TabSound(t)
          BY <1>0, <2>1 DEF Reached
        <5>2. /\ tab'[t].user = tab[t].user /\ tab'[t].path = tab[t].path
              /\ tab'[t].at = "ready" /\ tab'[t].role = session.role
          BY <1>0, <2>1 DEF ShellTypeOK, TabType, TabRecord
        <5>3. must' = must /\ session' = session /\ outside' = outside
          BY <1>6 DEF LayoutTold
        <5> QED BY <4>1, <5>1, <5>2, <5>3 DEF TabSound, Present, Asking
      <4>2. CASE x # t
        <5>1. tab'[x] = tab[x]
          BY <1>0, <2>1, <4>2 DEF ShellTypeOK, TabType, TabRecord
        <5> QED BY <1>0, <1>6, <5>1, Untouched DEF LayoutTold
      <4> QED BY <4>1, <4>2
    <3> QED BY <3>2, <3>3 DEF ShellInv
  <2>2. CASE Goes(t, "/change-password")
    <3>1. ShellTypeOK'
      BY <1>0, <1>6, <1>p, <2>2, GoesTyped DEF LayoutTold, ShellTypeOK
    <3>2. ASSUME NEW x \in Tab PROVE TabSound(x)'
      <4>1. CASE x = t
        BY <1>0, <1>p, <2>2, <4>1, GoesTyped, NotPresent
      <4>2. CASE x # t
        BY <1>0, <1>6, <1>p, <2>2, <4>2, GoesTyped, Untouched DEF LayoutTold
      <4> QED BY <4>1, <4>2
    <3> QED BY <3>1, <3>2 DEF ShellInv
  <2> QED BY <1>6, <2>1, <2>2 DEF LayoutTold
<1>7. ASSUME NEW t \in Tab, LayoutFails(t) \/ LoginFails(t) PROVE ShellInv'
  <2>1. Goes(t, "/login") /\ UNCHANGED <<must, rank, session, outside>>
    BY <1>7 DEF LayoutFails, LoginFails
  <2>2. ShellTypeOK'
    BY <1>0, <1>p, <2>1, GoesTyped DEF ShellTypeOK
  <2>3. ASSUME NEW x \in Tab PROVE TabSound(x)'
    <3>1. CASE x = t
      BY <1>0, <1>p, <2>1, <3>1, GoesTyped, NotPresent
    <3>2. CASE x # t
      BY <1>0, <1>p, <2>1, <3>2, GoesTyped, Untouched
    <3> QED BY <3>1, <3>2
  <2> QED BY <2>2, <2>3 DEF ShellInv
<1>8. ASSUME NEW t \in Tab, NEW p \in Path, Visit(t, p) PROVE ShellInv'
  <2>1. ShellTypeOK'
    BY <1>0, <1>8, GoesTyped DEF Visit, ShellTypeOK
  <2>2. ASSUME NEW x \in Tab PROVE TabSound(x)'
    <3>1. CASE x = t
      BY <1>0, <1>8, <3>1, GoesTyped, NotPresent DEF Visit
    <3>2. CASE x # t
      BY <1>0, <1>8, <3>2, GoesTyped, Untouched DEF Visit
    <3> QED BY <3>1, <3>2
  <2> QED BY <2>1, <2>2 DEF ShellInv
<1>9. ASSUME NEW t \in Tab, NEW p \in Path, Navigate(t, p) PROVE ShellInv'
  <2>1. p \in DashPage /\ tab[t].at = "ready" /\ tab' = [tab EXCEPT ![t].path = p]
    BY <1>9 DEF Navigate, Links, DashPage, Reached
  <2>2. ShellTypeOK'
    BY <1>0, <1>9, <2>1 DEF ShellTypeOK, TabType, TabRecord, Navigate
  <2>3. ASSUME NEW x \in Tab PROVE TabSound(x)'
    <3>1. CASE x = t
      <4>1. /\ tab'[t].path = p /\ tab'[t].at = tab[t].at
            /\ tab'[t].user = tab[t].user /\ tab'[t].role = tab[t].role
        BY <1>0, <2>1 DEF ShellTypeOK, TabType, TabRecord
      <4>2. must' = must /\ session' = session /\ outside' = outside
        BY <1>9 DEF Navigate
      <4> QED BY <1>0, <2>1, <3>1, <4>1, <4>2 DEF TabSound, Present
    <3>2. CASE x # t
      <4>1. tab'[x] = tab[x]
        BY <1>0, <2>1, <3>2 DEF ShellTypeOK, TabType, TabRecord
      <4> QED BY <1>0, <1>9, <4>1, Untouched DEF Navigate
    <3> QED BY <3>1, <3>2
  <2> QED BY <2>2, <2>3 DEF ShellInv
<1>10. ASSUME NEW t \in Tab, NEW u \in Person, onSubmit(t, u) PROVE ShellInv'
  <2>1. tab' = [tab EXCEPT ![t].at = "login", ![t].user = u]
    BY <1>10 DEF onSubmit
  <2>2. ShellTypeOK'
    <3>1. tab' \in TabType
      <4>1. tab' = [tab EXCEPT ![t] = [tab[t] EXCEPT !.at = "login", !.user = u]]
        BY <1>0, <2>1 DEF ShellTypeOK, TabType, TabRecord
      <4>2. [tab[t] EXCEPT !.at = "login", !.user = u] \in TabRecord
        BY <1>0 DEF ShellTypeOK, TabType, TabRecord
      <4> QED BY <1>0, <4>1, <4>2 DEF ShellTypeOK, TabType
    <3> QED BY <1>0, <1>10, <3>1 DEF ShellTypeOK, onSubmit
  <2>3. ASSUME NEW x \in Tab PROVE TabSound(x)'
    <3>1. CASE x = t
      <4>1. tab'[t].at = "login" /\ tab'[t].user = u
        BY <1>0, <2>1 DEF ShellTypeOK, TabType, TabRecord
      <4> QED BY <3>1, <4>1 DEF TabSound, Present, Asking
    <3>2. CASE x # t
      <4>1. tab'[x] = tab[x]
        BY <1>0, <2>1, <3>2 DEF ShellTypeOK, TabType, TabRecord
      <4> QED BY <1>0, <1>10, <4>1, Untouched DEF onSubmit
    <3> QED BY <3>1, <3>2
  <2> QED BY <2>2, <2>3 DEF ShellInv
<1>11. ASSUME NEW t \in Tab, LoggedIn(t) \/ logoutTab(t) PROVE ShellInv'
  <2>1. PICK p \in Path : Goes(t, p)
    BY <1>11, <1>p DEF LoggedIn, logoutTab
  <2>2. outside' = Elsewhere(t) /\ UNCHANGED <<must, rank>>
    BY <1>11 DEF LoggedIn, logoutTab
  <2>3. session' \in [user : Person, role : Role] \cup {NoSession}
    <3>1. CASE LoggedIn(t)
      <4>1. tab[t].user \in Person
        BY <1>0, <3>1 DEF LoggedIn, Reached, TabSound
      <4> QED BY <1>0, <3>1, <4>1 DEF LoggedIn, ShellTypeOK
    <3>2. CASE logoutTab(t)
      BY <3>2 DEF logoutTab
    <3> QED BY <1>11, <3>1, <3>2
  <2>4. ShellTypeOK'
    BY <1>0, <2>1, <2>2, <2>3, GoesTyped DEF ShellTypeOK, Elsewhere
  <2>5. ASSUME NEW x \in Tab PROVE TabSound(x)'
    <3>1. CASE x = t
      BY <1>0, <2>1, <3>1, GoesTyped, NotPresent
    <3>2. CASE x # t
      <4>1. (x \in outside => x \in outside') /\ (Present(x) => x \in outside')
        BY <2>2, <3>2 DEF Elsewhere, Present
      <4> QED BY <1>0, <2>1, <2>2, <3>2, <4>1, GoesTyped, Untouched
    <3> QED BY <3>1, <3>2
  <2> QED BY <2>4, <2>5 DEF ShellInv
<1>12. ASSUME NEW t \in Tab, PasswordEffect(t) \/ submit(t) \/ PasswordFails(t) PROVE ShellInv'
  <2>1. UNCHANGED <<must, rank, session, outside>>
    BY <1>12 DEF PasswordEffect, submit, PasswordFails
  <2>2. session.user \in Person \cup {Nobody}
    BY <1>0 DEF ShellTypeOK, NoSession
  <2>3. /\ tab' \in TabType /\ tab'[t].at \in {"mount", "form", "change"}
        /\ \A x \in Tab \ {t} : tab'[x] = tab[x]
    <3>1. CASE PasswordEffect(t) /\ getToken
      <4>1. tab' = [tab EXCEPT ![t] = [tab[t] EXCEPT !.at = "form"]]
        BY <3>1 DEF PasswordEffect
      <4> QED BY <1>0, <4>1 DEF ShellTypeOK, TabType, TabRecord
    <3>2. CASE PasswordEffect(t) /\ ~getToken
      <4>1. Goes(t, "/login")
        BY <3>2 DEF PasswordEffect, Goes
      <4> QED BY <1>0, <1>p, <4>1, GoesTyped
    <3>3. CASE submit(t)
      <4>1. tab' = [tab EXCEPT ![t].at = "change", ![t].user = session.user]
        BY <3>3 DEF submit
      <4> QED BY <1>0, <2>2, <4>1 DEF ShellTypeOK, TabType, TabRecord
    <3>4. CASE PasswordFails(t)
      <4>1. tab' = [tab EXCEPT ![t].at = "form", ![t].user = Nobody]
        BY <3>4 DEF PasswordFails
      <4> QED BY <1>0, <4>1 DEF ShellTypeOK, TabType, TabRecord
    <3> QED BY <1>12, <3>1, <3>2, <3>3, <3>4
  <2>4. ShellTypeOK'
    BY <1>0, <2>1, <2>3 DEF ShellTypeOK
  <2>5. ASSUME NEW x \in Tab PROVE TabSound(x)'
    <3>1. CASE x = t
      BY <2>3, <3>1, NotPresent
    <3>2. CASE x # t
      BY <1>0, <2>1, <2>3, <3>2, Untouched
    <3> QED BY <3>1, <3>2
  <2> QED BY <2>4, <2>5 DEF ShellInv
<1>13. ASSUME NEW t \in Tab, PasswordChanged(t) PROVE ShellInv'
  <2>1. /\ Goes(t, "/chat") /\ UNCHANGED <<rank, session, outside>>
        /\ tab[t].user \in Person /\ must' = [must EXCEPT ![tab[t].user] = FALSE]
    BY <1>0, <1>13 DEF PasswordChanged, ShellTypeOK, TabType, TabRecord
  <2>2. must' \in [Person -> BOOLEAN] /\ \A u \in Person : ~must[u] => ~must'[u]
    BY <1>0, <2>1 DEF ShellTypeOK
  <2>3. ShellTypeOK'
    BY <1>0, <1>p, <2>1, <2>2, GoesTyped DEF ShellTypeOK
  <2>4. ASSUME NEW x \in Tab PROVE TabSound(x)'
    <3>1. CASE x = t
      BY <1>0, <1>p, <2>1, <3>1, GoesTyped, NotPresent
    <3>2. CASE x # t
      BY <1>0, <1>p, <2>1, <2>2, <3>2, GoesTyped, Untouched
    <3> QED BY <3>1, <3>2
  <2> QED BY <2>3, <2>4 DEF ShellInv
<1>14. CASE UNCHANGED shellVars
  BY <1>0, <1>14 DEF shellVars, ShellInv, ShellTypeOK, TabType, TabRecord, TabSound, Present
<1> QED
  BY <1>1, <1>2, <1>3, <1>4, <1>5, <1>6, <1>7, <1>8, <1>9, <1>10, <1>11, <1>12, <1>13, <1>14 DEF ShellNext

\* A page inside the layout is shown only past the change of a temporary password,
\* and to the account and role of the session unless that was changed elsewhere,
\* for any number of tabs and accounts (DashLayout).
THEOREM ShellSoundHolds == ShellSpec => []ShellSound
<1>1. ShellInv => ShellSound
  BY DEF ShellInv, ShellSound, TabSound, Present, Reached
<1> QED BY <1>1, InitShellInv, NextShellInv, PTL DEF ShellSpec

-----------------------------------------------------------------------------
(* The settings *)

\* Of two numbers.
LEMMA MaxOfTwo ==
  ASSUME NEW m \in Nat, NEW n \in Nat
  PROVE  /\ Max({m, n}) \in Nat /\ Max({m, n}) >= m /\ Max({m, n}) >= n
         /\ Max({m, n}) \in {m, n}
<1>1. \E x \in {m, n} : \A y \in {m, n} : x >= y
  <2>1. CASE m >= n
    BY <2>1
  <2>2. CASE n >= m
    BY <2>2
  <2> QED BY <2>1, <2>2
<1> QED BY <1>1 DEF Max

AnyValue == Value \cup {0, 1}
JobType == [at : {"idle", "sent", "written", "read", "over"},
            do : {"load", "save", "logo", "clear", "mask"}, sec : Section, val : AnyValue,
            mark : Nat, read : Nat, got : [Section -> AnyValue]]

SettingsTypeOK ==
  /\ site \in {"settings", "policy"} /\ server \in [Section -> AnyValue]
  /\ form \in [Section -> AnyValue] /\ tint \in AnyValue
  /\ masked \in BOOLEAN /\ mask \in BOOLEAN /\ unsure \in BOOLEAN
  /\ job \in [SClick -> JobType] /\ loads \in Nat
  /\ lastOf \in [Cell -> Nat] /\ newestOf \in [Cell -> Nat] /\ owedOf \in [Cell -> Nat]

JobSound(c) ==
  /\ job[c].mark <= loads
  /\ job[c].at = "read" => /\ job[c].read <= loads
                           /\ job[c].do = "save" => job[c].mark < job[c].read
                           /\ job[c].do \in {"logo", "clear"} => job[c].mark <= job[c].read
  /\ job[c].do \in {"logo", "clear"} => job[c].sec = "logo"
  /\ job[c].do = "mask" => site = "policy"
  /\ job[c].at = "sent" => job[c].do # "load"
  /\ c \in {Boot, Load} => job[c].at \in {"written", "read", "over"} /\ job[c].do = "load"

-----------------------------------------------------------------------------
(* The form and the theme *)

Of(x) == IF x = "tint" THEN "theme" ELSE x
Displayed(x) == IF x = "tint" THEN tint ELSE form[x]

\* A change of what x shows that was written and whose answer is on its way; the
\* answer is newer than load n.
Covers(d, x, n) ==
  /\ job[d].at \in {"written", "read"} /\ job[d].do \in {"save", "logo", "clear"}
  /\ job[d].sec = Of(x)
  /\ IF job[d].do = "save" THEN n <= job[d].mark ELSE n < job[d].mark

\* What load n brought for x is the API's, or is known not to be.
UpToDate(x, n, v) == \/ v = server[Of(x)] \/ n <= owedOf[x] \/ n < newestOf[x]
                     \/ \E d \in SClick : Covers(d, x, n)

CellSound(x) ==
  /\ lastOf[x] <= newestOf[x] /\ newestOf[x] <= loads
  /\ x \notin dirty => UpToDate(x, lastOf[x], Displayed(x))
  /\ \A c \in SClick : job[c].at = "read" /\ x \in Scope(c)
                         => UpToDate(x, job[c].read, job[c].got[Of(x)])

FormInv == site = "settings" => "tint" \notin dirty /\ \A x \in Cell : CellSound(x)

-----------------------------------------------------------------------------
(* The switch *)

Acting(c) == job[c].at \notin {"idle", "over"}
Switching(c) == Acting(c) /\ job[c].do = "mask"

\* A switch on its way is alone; until it is written the API has the other value.
SwitchSound(c) ==
  /\ \A d \in SClick : Acting(d) => d = c
  /\ job[c].val \in {0, 1} /\ (mask = TRUE <=> job[c].val = 1)
  /\ job[c].at = "sent" => (masked = TRUE <=> job[c].val = 0)
  /\ job[c].at # "sent" => (masked = TRUE <=> job[c].val = 1)

MaskInv ==
  site = "policy" /\ unsure = FALSE =>
    /\ \A c \in SClick : Switching(c) => SwitchSound(c)
    /\ job[Load].at = "written" => job[Load].val = 0
    /\ job[Load].at = "read" => (masked = TRUE <=> job[Load].val = 1)
    /\ ~Acting(Load) /\ (\A c \in SClick : ~Switching(c)) => (mask = TRUE <=> masked = TRUE)

SettingsInv == SettingsTypeOK /\ (\A c \in SClick : JobSound(c)) /\ FormInv /\ MaskInv

-----------------------------------------------------------------------------

LEMMA Cells == /\ "theme" \in Section /\ "logo" \in Section /\ "tint" \notin Section
               /\ Section \subseteq Cell /\ "tint" \in Cell
               /\ \A x \in Cell : Of(x) \in Section /\ (x # "tint" => x \in Section /\ Of(x) = x)
BY SettingsAssumption DEF Section, Cell, Of

LEMMA RestingType ==
  /\ Resting \in JobType /\ Resting.at = "idle" /\ Resting.do = "load" /\ Resting.mark = 0
  /\ Resting.val = 0 /\ Resting.read = 0
BY Cells, SettingsAssumption DEF Resting, JobType, SETTING_DEFAULTS, AnyValue

LEMMA InitSettingsInv == SettingsInit => SettingsInv
<1> SUFFICES ASSUME SettingsInit PROVE SettingsInv
  OBVIOUS
<1>1. /\ Asked \in JobType /\ Asked.at = "written" /\ Asked.do = "load" /\ Asked.mark = 0
      /\ Asked.val = 0
  BY RestingType DEF Asked, JobType
<1>2. masked \in BOOLEAN /\ mask \in BOOLEAN /\ unsure \in BOOLEAN
  BY Zenon DEF SettingsInit
<1>3. /\ site \in {"settings", "policy"} /\ server \in [Section -> Value]
      /\ form = SETTING_DEFAULTS /\ tint \in Value
      /\ job = [c \in SClick |-> IF c \in {Boot, Load} THEN Asked ELSE Resting]
      /\ loads = 0 /\ lastOf = [x \in Cell |-> 0] /\ newestOf = [x \in Cell |-> 0]
      /\ owedOf = [x \in Cell |-> 0] /\ dirty = {}
  BY DEF SettingsInit
<1>4. SettingsTypeOK
  <2>1. SETTING_DEFAULTS \in [Section -> AnyValue] /\ server \in [Section -> AnyValue]
        /\ tint \in AnyValue
    BY <1>3 DEF SETTING_DEFAULTS, AnyValue
  <2>2. job \in [SClick -> JobType]
    BY <1>1, <1>3, RestingType
  <2>3. lastOf \in [Cell -> Nat] /\ newestOf \in [Cell -> Nat] /\ owedOf \in [Cell -> Nat]
    BY <1>3
  <2> QED BY <1>2, <1>3, <2>1, <2>2, <2>3 DEF SettingsTypeOK
<1>5. \A c \in SClick : job[c] = IF c \in {Boot, Load} THEN Asked ELSE Resting
  BY <1>3
<1>6. \A c \in SClick : JobSound(c)
  BY <1>1, <1>3, <1>5, RestingType DEF JobSound
<1>7. \A c \in SClick : job[c].at # "read" /\ job[c].do = "load"
  BY <1>1, <1>5, RestingType
<1>8. FormInv
  BY <1>3, <1>7 DEF FormInv, CellSound, UpToDate
<1>9. MaskInv
  BY <1>1, <1>5, <1>7, SettingsAssumption DEF MaskInv, Switching, Acting
<1> QED BY <1>4, <1>6, <1>8, <1>9 DEF SettingsInv

LEMMA PutsRecord ==
  ASSUME SettingsTypeOK, NEW c \in SClick, NEW act \in {"save", "logo", "clear", "mask"},
         NEW s \in Section, NEW v \in AnyValue, Puts(c, act, s, v)
  PROVE  /\ job[c].at = "idle" /\ job' \in [SClick -> JobType]
         /\ \A d \in SClick : d # c => job'[d] = job[d]
         /\ job'[c].at = "sent" /\ job'[c].do = act /\ job'[c].sec = s /\ job'[c].val = v
         /\ job'[c].mark = 0
<1> DEFINE q == [Resting EXCEPT !.at = "sent", !.do = act, !.sec = s, !.val = v]
<1>1. job[c].at = "idle" /\ job' = [job EXCEPT ![c] = q]
  BY DEF Puts
<1>2. /\ q \in JobType /\ q.at = "sent" /\ q.do = act /\ q.sec = s /\ q.val = v /\ q.mark = 0
  BY RestingType DEF JobType
<1> HIDE DEF q
<1> QED BY <1>1, <1>2 DEF SettingsTypeOK

LEMMA PutsJobs ==
  ASSUME SettingsInv, NEW c \in SClick, NEW act \in {"save", "logo", "clear", "mask"},
         NEW s \in Section, NEW v \in AnyValue, Puts(c, act, s, v),
         act \in {"logo", "clear"} => s = "logo", act = "mask" => site = "policy",
         loads' = loads, site' = site
  PROVE  \A d \in SClick : JobSound(d)'
<1>1. /\ job[c].at = "idle" /\ \A d \in SClick : d # c => job'[d] = job[d]
      /\ job'[c].at = "sent" /\ job'[c].do = act /\ job'[c].sec = s /\ job'[c].mark = 0
      /\ loads \in Nat
  BY PutsRecord DEF SettingsInv, SettingsTypeOK
<1>2. c \notin {Boot, Load}
  BY <1>1 DEF SettingsInv, JobSound
<1>3. JobSound(c)'
  BY <1>1, <1>2 DEF JobSound
<1> QED BY <1>1, <1>3 DEF JobSound, SettingsInv

\* A section's call goes out; the form may be edited by the same click.
LEMMA PutsStep ==
  ASSUME SettingsInv, NEW c \in SClick, NEW act \in {"save", "logo", "clear"},
         NEW s \in Section, NEW v \in AnyValue, Puts(c, act, s, v), site = "settings",
         act \in {"logo", "clear"} => s = "logo", form' \in [Section -> AnyValue],
         "tint" \notin dirty',
         \A x \in Section : x \notin dirty' => x \notin dirty /\ form'[x] = form[x],
         UNCHANGED <<site, server, masked, mask, tint, loads, lastOf, newestOf, owedOf, unsure>>
  PROVE  SettingsInv'
<1>1. /\ job[c].at = "idle" /\ job' \in [SClick -> JobType]
      /\ \A d \in SClick : d # c => job'[d] = job[d]
      /\ job'[c].at = "sent"
  BY PutsRecord DEF SettingsInv
<1>2. SettingsTypeOK'
  BY <1>1 DEF SettingsInv, SettingsTypeOK
<1>3. \A d \in SClick : JobSound(d)'
  BY PutsJobs
<1>4. ASSUME NEW x \in Cell, NEW n, NEW w, UpToDate(x, n, w) PROVE UpToDate(x, n, w)'
  <2>1. ASSUME NEW d \in SClick, Covers(d, x, n) PROVE Covers(d, x, n)'
    BY <1>1, <2>1 DEF Covers
  <2> QED BY <1>4, <2>1 DEF UpToDate
<1>5. ASSUME NEW x \in Cell PROVE CellSound(x)'
  <2>1. CellSound(x)
    BY DEF SettingsInv, FormInv
  <2>2. ASSUME x \notin dirty' PROVE UpToDate(x, lastOf[x], Displayed(x))'
    <3>1. x \notin dirty /\ Displayed(x)' = Displayed(x)
      BY <2>2, Cells DEF Displayed, SettingsInv, FormInv
    <3>2. UpToDate(x, lastOf[x], Displayed(x))
      BY <2>1, <3>1 DEF CellSound
    <3>3. PICK n, w : n = lastOf[x] /\ w = Displayed(x)
      OBVIOUS
    <3>4. UpToDate(x, n, w)'
      BY <1>4, <3>2, <3>3
    <3> QED BY <3>1, <3>3, <3>4 DEF UpToDate, Covers
  <2>3. ASSUME NEW d \in SClick, job'[d].at = "read", x \in Scope(d)'
        PROVE  UpToDate(x, job[d].read, job[d].got[Of(x)])'
    <3>1. d # c /\ job'[d] = job[d] /\ x \in Scope(d)
      BY <1>1, <2>3 DEF Scope
    <3>2. UpToDate(x, job[d].read, job[d].got[Of(x)])
      BY <2>1, <2>3, <3>1 DEF CellSound
    <3>3. PICK n, w : n = job[d].read /\ w = job[d].got[Of(x)]
      OBVIOUS
    <3>4. UpToDate(x, n, w)'
      BY <1>4, <3>2, <3>3
    <3> QED BY <3>1, <3>3, <3>4 DEF UpToDate, Covers
  <2> QED BY <2>1, <2>2, <2>3 DEF CellSound
<1>6. FormInv' /\ MaskInv'
  BY <1>5 DEF FormInv, MaskInv
<1> QED BY <1>2, <1>3, <1>6 DEF SettingsInv

LEMMA SettingsHandlers ==
  ASSUME SettingsInv, NEW c \in SClick, NEW s \in Section, NEW v \in Value,
         save(c, s) \/ PickTheme(c, v) \/ uploadLogo(c, v) \/ clearLogo(c)
  PROVE  SettingsInv'
<1>0. /\ v \in AnyValue /\ 0 \in AnyValue /\ form \in [Section -> AnyValue]
      /\ site = "settings" => "tint" \notin dirty
  BY DEF AnyValue, SettingsInv, SettingsTypeOK, FormInv
<1>1. CASE save(c, s)
  <2>1. /\ site = "settings" /\ Puts(c, "save", s, form[s]) /\ dirty' = dirty /\ form' = form
        /\ UNCHANGED <<site, server, masked, mask, tint, loads, lastOf, newestOf, owedOf, unsure>>
    BY <1>1 DEF save, apiVars, screenVars, seenVars
  <2> QED BY <1>0, <2>1, PutsStep
<1>2. CASE PickTheme(c, v)
  <2>1. /\ site = "settings" /\ Puts(c, "save", "theme", v) /\ dirty' = dirty \cup {"theme"}
        /\ form' = [form EXCEPT !.theme = v]
        /\ UNCHANGED <<site, server, masked, mask, tint, loads, lastOf, newestOf, owedOf, unsure>>
    BY <1>2 DEF PickTheme, apiVars
  <2>2. form' \in [Section -> AnyValue] /\ \A x \in Section : x # "theme" => form'[x] = form[x]
    BY <1>0, <2>1
  <2> QED BY <1>0, <2>1, <2>2, PutsStep, Cells
<1>3. CASE uploadLogo(c, v)
  <2>1. /\ site = "settings" /\ Puts(c, "logo", "logo", v) /\ dirty' = dirty /\ form' = form
        /\ UNCHANGED <<site, server, masked, mask, tint, loads, lastOf, newestOf, owedOf, unsure>>
    BY <1>3 DEF uploadLogo, apiVars, screenVars, seenVars
  <2> QED BY <1>0, <2>1, PutsStep, Cells
<1>4. CASE clearLogo(c)
  <2>1. /\ site = "settings" /\ Puts(c, "clear", "logo", 0) /\ dirty' = dirty /\ form' = form
        /\ UNCHANGED <<site, server, masked, mask, tint, loads, lastOf, newestOf, owedOf, unsure>>
    BY <1>4 DEF clearLogo, apiVars, screenVars, seenVars
  <2> QED BY <1>0, <2>1, PutsStep, Cells
<1> QED BY <1>1, <1>2, <1>3, <1>4

LEMMA FieldStep ==
  ASSUME SettingsInv, NEW s \in Section, NEW v \in Value, field(s, v) PROVE SettingsInv'
<1>1. /\ site = "settings" /\ form' = [form EXCEPT ![s] = v] /\ dirty' = dirty \cup {s}
      /\ UNCHANGED <<site, server, masked, mask, tint, job, loads, lastOf, newestOf, owedOf, unsure>>
  BY DEF field, apiVars
<1>2. SettingsTypeOK'
  BY <1>1 DEF SettingsInv, SettingsTypeOK, AnyValue
<1>3. \A c \in SClick : JobSound(c)'
  BY <1>1 DEF SettingsInv, JobSound
<1>4. ASSUME NEW x \in Cell PROVE CellSound(x)'
  <2>1. CellSound(x)
    BY <1>1 DEF SettingsInv, FormInv
  <2>2. x \notin dirty' => x \notin dirty /\ Displayed(x)' = Displayed(x)
    BY <1>1, Cells DEF Displayed, SettingsInv, SettingsTypeOK
  <2> QED BY <1>1, <2>1, <2>2 DEF CellSound, UpToDate, Covers, Scope
<1>5. FormInv' /\ MaskInv'
  BY <1>1, <1>4, Cells DEF SettingsInv, FormInv, MaskInv
<1> QED BY <1>2, <1>3, <1>5 DEF SettingsInv

LEMMA ToggleStep == ASSUME SettingsInv, NEW c \in SClick, toggleMaskResponses(c) PROVE SettingsInv'
<1> DEFINE v == IF mask THEN 0 ELSE 1
<1>1. /\ site = "policy" /\ Puts(c, "mask", "theme", v)
      /\ UNCHANGED <<site, server, masked, form, tint, loads, lastOf, newestOf, owedOf, dirty>>
  BY DEF toggleMaskResponses, apiVars
<1>2. mask' = ~mask /\ unsure' = (unsure \/ ~AtEase)
  BY DEF toggleMaskResponses
<1>3. mask' \in BOOLEAN /\ unsure' \in BOOLEAN
  BY <1>2, Zenon
<1>4. v \in AnyValue /\ v \in {0, 1} /\ (v = 0 <=> mask = TRUE) /\ (v = 1 <=> mask = FALSE)
  BY DEF AnyValue, SettingsInv, SettingsTypeOK
<1> HIDE DEF v
<1>5. /\ job[c].at = "idle" /\ job' \in [SClick -> JobType]
      /\ \A d \in SClick : d # c => job'[d] = job[d]
      /\ job'[c].at = "sent" /\ job'[c].do = "mask" /\ job'[c].val = v
  BY <1>1, <1>4, PutsRecord, Cells DEF SettingsInv
<1>6. SettingsTypeOK'
  BY <1>1, <1>3, <1>5 DEF SettingsInv, SettingsTypeOK
<1>7. \A d \in SClick : JobSound(d)'
  BY <1>1, <1>4, PutsJobs, Cells
<1>8. MaskInv'
  <2> SUFFICES ASSUME unsure' = FALSE
               PROVE  /\ \A d \in SClick : Switching(d)' => SwitchSound(d)'
                      /\ job'[Load].at = "over" /\ Switching(c)'
    BY DEF MaskInv
  <2>1. unsure = FALSE /\ AtEase
    BY <1>2 DEF SettingsInv, SettingsTypeOK
  <2>2. \A d \in SClick : ~Acting(d) /\ ~Switching(d)
    BY <2>1 DEF AtEase, Acting, Switching
  <2>3. mask = TRUE <=> masked = TRUE
    BY <1>1, <2>1, <2>2, SettingsAssumption DEF SettingsInv, MaskInv
  <2>4. \A d \in SClick : Acting(d)' => d = c
    BY <1>5, <2>2 DEF Acting
  <2>5. Load # c /\ job'[Load].at = "over"
    BY <1>5, <2>2, SettingsAssumption DEF SettingsInv, JobSound, Acting
  <2>6. mask' = TRUE <=> mask = FALSE
    BY <1>2 DEF SettingsInv, SettingsTypeOK
  <2>7. masked' = TRUE <=> mask = TRUE
    BY <1>1, <2>3
  <2>8. SwitchSound(c)'
    BY <1>4, <1>5, <2>4, <2>6, <2>7 DEF SwitchSound
  <2> QED BY <1>5, <2>4, <2>5, <2>8 DEF Switching, Acting
<1> QED BY <1>1, <1>6, <1>7, <1>8 DEF SettingsInv, FormInv

-----------------------------------------------------------------------------

\* A handler's record with one field changed.
LEMMA JobField ==
  ASSUME NEW J \in [SClick -> JobType], NEW c \in SClick
  PROVE  /\ \A w \in {"idle", "sent", "written", "read", "over"} : [J EXCEPT ![c].at = w] \in [SClick -> JobType]
         /\ \A w \in Nat : [J EXCEPT ![c].mark = w] \in [SClick -> JobType]
         /\ \A w \in Nat : [J EXCEPT ![c].read = w] \in [SClick -> JobType]
         /\ \A w \in AnyValue : [J EXCEPT ![c].val = w] \in [SClick -> JobType]
         /\ \A w \in [Section -> AnyValue] : [J EXCEPT ![c].got = w] \in [SClick -> JobType]
<1>1. ASSUME NEW w \in {"idle", "sent", "written", "read", "over"}
      PROVE  [J EXCEPT ![c].at = w] \in [SClick -> JobType]
  BY DEF JobType
<1>2. ASSUME NEW w \in Nat PROVE [J EXCEPT ![c].mark = w] \in [SClick -> JobType]
  BY DEF JobType
<1>3. ASSUME NEW w \in Nat PROVE [J EXCEPT ![c].read = w] \in [SClick -> JobType]
  BY DEF JobType
<1>4. ASSUME NEW w \in AnyValue PROVE [J EXCEPT ![c].val = w] \in [SClick -> JobType]
  BY DEF JobType
<1>5. ASSUME NEW w \in [Section -> AnyValue] PROVE [J EXCEPT ![c].got = w] \in [SClick -> JobType]
  BY DEF JobType
<1> QED BY <1>1, <1>2, <1>3, <1>4, <1>5

\* A step of handler c that leaves the screen alone keeps a cell sound.
LEMMA CellKept ==
  ASSUME SettingsInv, site = "settings", NEW x \in Cell, NEW c \in SClick,
         \A d \in SClick : d # c => job'[d] = job[d],
         UNCHANGED <<form, tint, lastOf, newestOf, dirty>>, loads' \in Nat, loads' >= loads,
         \A n \in Nat, w \in AnyValue : n <= loads /\ UpToDate(x, n, w) => UpToDate(x, n, w)',
         job'[c].at = "read" /\ x \in Scope(c)' => UpToDate(x, job[c].read, job[c].got[Of(x)])'
  PROVE  CellSound(x)'
<1>1. /\ CellSound(x) /\ Of(x) \in Section /\ lastOf[x] \in Nat /\ newestOf[x] \in Nat
      /\ loads \in Nat /\ Displayed(x) \in AnyValue
  BY Cells DEF SettingsInv, FormInv, SettingsTypeOK, Displayed
<1>2. Displayed(x)' = Displayed(x)
  BY DEF Displayed
<1>3. ASSUME x \notin dirty' PROVE UpToDate(x, lastOf[x], Displayed(x))'
  <2>1. UpToDate(x, lastOf[x], Displayed(x)) /\ lastOf[x] <= loads
    BY <1>1, <1>3 DEF CellSound
  <2>2. PICK n \in Nat, w \in AnyValue : n = lastOf[x] /\ w = Displayed(x)
    BY <1>1
  <2>3. UpToDate(x, n, w)'
    BY <2>1, <2>2
  <2> QED BY <1>2, <2>2, <2>3 DEF UpToDate, Covers
<1>4. ASSUME NEW d \in SClick, job'[d].at = "read", x \in Scope(d)', d # c
      PROVE  UpToDate(x, job[d].read, job[d].got[Of(x)])'
  <2>1. job'[d] = job[d] /\ x \in Scope(d) /\ job[d] \in JobType /\ JobSound(d)
    BY <1>4 DEF Scope, SettingsInv, SettingsTypeOK
  <2>2. UpToDate(x, job[d].read, job[d].got[Of(x)])
    BY <1>1, <1>4, <2>1 DEF CellSound
  <2>3. /\ job[d].read \in Nat /\ job[d].read <= loads /\ job[d].got[Of(x)] \in AnyValue
    BY <1>1, <1>4, <2>1 DEF JobType, JobSound
  <2>4. PICK n \in Nat, w \in AnyValue : n = job[d].read /\ w = job[d].got[Of(x)]
    BY <2>3
  <2>5. UpToDate(x, n, w)'
    BY <2>2, <2>3, <2>4
  <2> QED BY <2>1, <2>4, <2>5 DEF UpToDate, Covers
<1>5. (lastOf[x] <= newestOf[x] /\ newestOf[x] <= loads)'
  BY <1>1 DEF CellSound
<1> QED BY <1>3, <1>4, <1>5 DEF CellSound

LEMMA WrittenStep == ASSUME SettingsInv, NEW c \in SClick, Written(c) PROVE SettingsInv'
<1> DEFINE own == job[c].do \in {"logo", "clear"}
           new == [server EXCEPT ![job[c].sec] = job[c].val]
           mine == IF own THEN "read" ELSE "written"
<1>1. PICK n \in Nat, r \in Nat, g \in [Section -> AnyValue] :
        /\ n = (IF own THEN loads + 1 ELSE loads) /\ r = (IF own THEN n ELSE 0)
        /\ g = (IF own THEN new ELSE job[c].got) /\ loads' = n
        /\ job' = [job EXCEPT ![c].at = mine, ![c].mark = n, ![c].read = r, ![c].got = g]
  <2>1. /\ loads \in Nat /\ loads + 1 \in Nat /\ job[c].got \in [Section -> AnyValue]
        /\ new \in [Section -> AnyValue]
    BY DEF SettingsInv, SettingsTypeOK, JobType
  <2>2. CASE job[c].do \in {"logo", "clear"}
    BY <2>1, <2>2 DEF Written
  <2>3. CASE job[c].do \notin {"logo", "clear"}
    BY <2>1, <2>3 DEF Written
  <2> QED BY <2>2, <2>3
<1>2. /\ job[c].at = "sent" /\ UNCHANGED <<site, form, mask, tint, lastOf, newestOf, owedOf, dirty, unsure>>
      /\ job[c].do # "mask" => server' = new /\ masked' = masked
      /\ job[c].do = "mask" => server' = server /\ masked' = (job[c].val = 1)
  BY DEF Written, screenVars, seenVars
<1>3. /\ loads \in Nat /\ job \in [SClick -> JobType] /\ server \in [Section -> AnyValue]
      /\ masked \in BOOLEAN /\ job[c] \in JobType /\ \A d \in SClick : JobSound(d)
  BY DEF SettingsInv, SettingsTypeOK
<1>4. /\ new \in [Section -> AnyValue] /\ new[job[c].sec] = job[c].val
      /\ \A s \in Section : s # job[c].sec => new[s] = server[s]
  BY <1>3 DEF JobType
<1>5. mine \in {"written", "read"} /\ (mine = "read" <=> job[c].do \in {"logo", "clear"})
  OBVIOUS
<1>6. job' \in [SClick -> JobType]
  <2>1. PICK at1 \in {"written", "read"} : at1 = mine
    BY <1>5
  <2> DEFINE J1 == [job EXCEPT ![c].at = at1]
             J2 == [J1 EXCEPT ![c].mark = n]
             J3 == [J2 EXCEPT ![c].read = r]
  <2>2. job' = [J3 EXCEPT ![c].got = g]
    BY <1>1, <2>1
  <2>3. J1 \in [SClick -> JobType]
    BY <1>3, JobField
  <2>4. J2 \in [SClick -> JobType]
    BY <2>3, JobField
  <2>5. J3 \in [SClick -> JobType]
    BY <2>4, JobField
  <2> HIDE DEF J3
  <2> QED BY <2>2, <2>5, JobField
<1>7. /\ \A d \in SClick : d # c => job'[d] = job[d]
      /\ job'[c].at = mine /\ job'[c].mark = n /\ job'[c].read = r /\ job'[c].got = g
      /\ job'[c].do = job[c].do /\ job'[c].sec = job[c].sec /\ job'[c].val = job[c].val
  BY <1>1, <1>3 DEF JobType
<1>8. /\ job[c].do \in {"logo", "clear"} => n = loads + 1 /\ r = n /\ g = new
      /\ job[c].do \notin {"logo", "clear"} => n = loads
  BY <1>1
<1>9. n >= loads
  BY <1>3, <1>8
<1>10. loads' = n
  BY <1>1
<1>11. masked' \in BOOLEAN
  <2>1. CASE job[c].do = "mask"
    BY <1>2, <2>1, Zenon
  <2>2. CASE job[c].do # "mask"
    BY <1>2, <1>3, <2>2
  <2> QED BY <2>1, <2>2
<1> HIDE DEF own, new, mine
<1>12. SettingsTypeOK'
  BY <1>2, <1>4, <1>6, <1>10, <1>11 DEF SettingsInv, SettingsTypeOK
<1>13. c \notin {Boot, Load} /\ job[c].do # "load"
  BY <1>2, <1>3 DEF JobSound
<1>14. ASSUME NEW d \in SClick PROVE JobSound(d)'
  <2>1. CASE d = c
    BY <1>2, <1>3, <1>5, <1>7, <1>8, <1>10, <1>13, <2>1 DEF JobSound, JobType
  <2>2. CASE d # c
    BY <1>2, <1>3, <1>7, <1>9, <1>10, <2>2 DEF JobSound, JobType
  <2> QED BY <2>1, <2>2
<1>15. FormInv'
  <2> SUFFICES ASSUME site = "settings", NEW x \in Cell PROVE CellSound(x)'
    BY <1>2 DEF SettingsInv, FormInv
  <2>0. /\ job[c].do \in {"save", "logo", "clear"} /\ Of(x) \in Section /\ server' = new
        /\ job[c].do \in {"logo", "clear"} => job[c].sec = "logo"
    BY <1>2, <1>3, <1>13, Cells DEF JobSound, JobType
  <2>1. ASSUME NEW k \in Nat, NEW w \in AnyValue, k <= loads, UpToDate(x, k, w)
        PROVE  UpToDate(x, k, w)'
    <3>1. CASE Of(x) = job[c].sec
      <4>1. Covers(c, x, k)'
        BY <1>3, <1>5, <1>7, <1>8, <2>0, <2>1, <3>1 DEF Covers
      <4> QED BY <4>1 DEF UpToDate
    <3>2. CASE Of(x) # job[c].sec
      <4>1. server'[Of(x)] = server[Of(x)]
        BY <1>4, <2>0, <3>2
      <4>2. ASSUME NEW d \in SClick, Covers(d, x, k) PROVE Covers(d, x, k)'
        BY <1>2, <1>7, <4>2 DEF Covers
      <4> QED BY <1>2, <2>1, <4>1, <4>2 DEF UpToDate
    <3> QED BY <3>1, <3>2
  <2>2. ASSUME job'[c].at = "read", x \in Scope(c)'
        PROVE  UpToDate(x, job[c].read, job[c].got[Of(x)])'
    <3>1. job[c].do \in {"logo", "clear"} /\ job'[c].got = server'
      BY <1>5, <1>7, <1>8, <2>0, <2>2
    <3> QED BY <3>1 DEF UpToDate
  <2> QED BY <1>2, <1>7, <1>9, <1>10, <2>1, <2>2, CellKept
<1>16. MaskInv'
  <2> SUFFICES ASSUME site = "policy", unsure = FALSE
               PROVE  /\ \A d \in SClick : Switching(d)' => SwitchSound(d)'
                      /\ job'[Load].at = "written" => job'[Load].val = 0
                      /\ job'[Load].at = "read" => (masked' = TRUE <=> job'[Load].val = 1)
                      /\ ~Acting(Load)' /\ (\A d \in SClick : ~Switching(d)') => (mask' = TRUE <=> masked' = TRUE)
    BY <1>2 DEF MaskInv
  <2>0. /\ \A d \in SClick : Acting(d)' = Acting(d) /\ Switching(d)' = Switching(d)
        /\ Load \in SClick /\ job'[Load] = job[Load] /\ Acting(c)
        /\ job[Load].do = "load"
    BY <1>2, <1>3, <1>5, <1>7, <1>13, SettingsAssumption DEF Acting, Switching, JobSound
  <2>1. CASE job[c].do = "mask"
    <3>1. SwitchSound(c) /\ Switching(c)
      BY <1>2, <2>0, <2>1 DEF SettingsInv, MaskInv, Switching, Acting
    <3>2. masked' = TRUE <=> job[c].val = 1
      BY <1>2, <2>1
    <3>3. SwitchSound(c)'
      BY <1>2, <1>5, <1>7, <2>0, <3>1, <3>2 DEF SwitchSound
    <3>4. \A d \in SClick : Acting(d) => d = c
      BY <3>1 DEF SwitchSound
    <3>5. ~Acting(Load)
      BY <1>13, <2>0, <3>4
    <3> QED BY <2>0, <3>1, <3>3, <3>4, <3>5 DEF Switching, Acting
  <2>2. CASE job[c].do # "mask"
    <3>1. masked' = masked /\ mask' = mask
      BY <1>2, <2>2
    <3>2. \A d \in SClick : ~Switching(d)
      <4> SUFFICES ASSUME NEW d \in SClick, Switching(d) PROVE FALSE
        OBVIOUS
      <4>1. SwitchSound(d)
        BY DEF SettingsInv, MaskInv
      <4> QED BY <2>0, <2>2, <4>1 DEF SwitchSound, Switching
    <3> QED BY <2>0, <3>1, <3>2 DEF SettingsInv, MaskInv
  <2> QED BY <2>1, <2>2
<1> QED BY <1>12, <1>14, <1>15, <1>16 DEF SettingsInv

LEMMA FetchedStep == ASSUME SettingsInv, NEW c \in SClick, Fetched(c) PROVE SettingsInv'
<1> DEFINE seen == IF job[c].do = "load" /\ masked THEN 1 ELSE job[c].val
<1>1. /\ job[c].at = "written" /\ loads' = loads + 1
      /\ UNCHANGED <<site, server, masked, form, mask, tint, lastOf, newestOf, owedOf, dirty, unsure>>
  BY DEF Fetched, apiVars, screenVars, seenVars
<1>2. /\ loads \in Nat /\ job \in [SClick -> JobType] /\ server \in [Section -> AnyValue]
      /\ masked \in BOOLEAN /\ job[c] \in JobType /\ \A d \in SClick : JobSound(d)
  BY DEF SettingsInv, SettingsTypeOK
<1>3. PICK v \in AnyValue :
        /\ job' = [job EXCEPT ![c].at = "read", ![c].read = loads + 1, ![c].got = server, ![c].val = v]
        /\ v = seen
  <2>1. seen \in AnyValue
    BY <1>2 DEF JobType, AnyValue
  <2>2. job' = [job EXCEPT ![c].at = "read", ![c].read = loads + 1, ![c].got = server, ![c].val = seen]
    BY DEF Fetched
  <2> HIDE DEF seen
  <2> QED BY <2>1, <2>2
<1>4. /\ job[c].do = "load" /\ masked = TRUE => v = 1
      /\ ~(job[c].do = "load" /\ masked = TRUE) => v = job[c].val
  BY <1>2, <1>3
<1> HIDE DEF seen
<1>5. job' \in [SClick -> JobType]
  <2> DEFINE J1 == [job EXCEPT ![c].at = "read"]
             J2 == [J1 EXCEPT ![c].read = loads + 1]
             J3 == [J2 EXCEPT ![c].got = server]
  <2>2. job' = [J3 EXCEPT ![c].val = v]
    BY <1>3
  <2>3. J1 \in [SClick -> JobType]
    BY <1>2, JobField
  <2>4. J2 \in [SClick -> JobType]
    <3>1. loads + 1 \in Nat
      BY <1>2
    <3> HIDE DEF J1
    <3> QED BY <2>3, <3>1, JobField
  <2>5. J3 \in [SClick -> JobType]
    BY <1>2, <2>4, JobField
  <2> HIDE DEF J3
  <2> QED BY <2>2, <2>5, JobField
<1>6. /\ \A d \in SClick : d # c => job'[d] = job[d]
      /\ job'[c].at = "read" /\ job'[c].mark = job[c].mark /\ job'[c].read = loads + 1
      /\ job'[c].got = server /\ job'[c].do = job[c].do /\ job'[c].sec = job[c].sec
      /\ job'[c].val = v
  BY <1>2, <1>3 DEF JobType
<1>7. SettingsTypeOK'
  BY <1>1, <1>2, <1>5 DEF SettingsInv, SettingsTypeOK
<1>8. ASSUME NEW d \in SClick PROVE JobSound(d)'
  <2>1. CASE d = c
    BY <1>1, <1>2, <1>6, <2>1 DEF JobSound, JobType
  <2>2. CASE d # c
    BY <1>1, <1>2, <1>6, <2>2 DEF JobSound, JobType
  <2> QED BY <2>1, <2>2
<1>9. FormInv'
  <2> SUFFICES ASSUME site = "settings", NEW x \in Cell PROVE CellSound(x)'
    BY <1>1 DEF SettingsInv, FormInv
  <2>1. ASSUME NEW k \in Nat, NEW w \in AnyValue, UpToDate(x, k, w) PROVE UpToDate(x, k, w)'
    <3>1. ASSUME NEW d \in SClick, Covers(d, x, k) PROVE Covers(d, x, k)'
      <4>1. CASE d = c
        BY <1>6, <3>1, <4>1 DEF Covers
      <4>2. CASE d # c
        BY <1>6, <3>1, <4>2 DEF Covers
      <4> QED BY <4>1, <4>2
    <3> QED BY <1>1, <2>1, <3>1 DEF UpToDate
  <2>2. UpToDate(x, job[c].read, job[c].got[Of(x)])'
    BY <1>1, <1>6 DEF UpToDate
  <2> QED BY <1>1, <1>2, <1>6, <2>1, <2>2, CellKept
<1>10. MaskInv'
  <2> SUFFICES ASSUME site = "policy", unsure = FALSE
               PROVE  /\ \A d \in SClick : Switching(d)' => SwitchSound(d)'
                      /\ job'[Load].at = "written" => job'[Load].val = 0
                      /\ job'[Load].at = "read" => (masked' = TRUE <=> job'[Load].val = 1)
                      /\ ~Acting(Load)' /\ (\A d \in SClick : ~Switching(d)') => (mask' = TRUE <=> masked' = TRUE)
    BY <1>1 DEF MaskInv
  <2>1. /\ \A d \in SClick : Acting(d)' = Acting(d) /\ Switching(d)' = Switching(d)
        /\ Load \in SClick /\ job[Load].do = "load"
    BY <1>1, <1>2, <1>6, SettingsAssumption DEF Acting, Switching, JobSound
  <2>2. ASSUME NEW d \in SClick, Switching(d) PROVE SwitchSound(d)'
    <3>1. SwitchSound(d) /\ job[d].do = "mask"
      BY <2>2 DEF SettingsInv, MaskInv, Switching
    <3>2. job'[d].val = job[d].val /\ (job'[d].at = "sent" <=> job[d].at = "sent")
      BY <1>1, <1>4, <1>6, <3>1
    <3> QED BY <1>1, <2>1, <3>1, <3>2 DEF SwitchSound
  <2>3. /\ job'[Load].at = "written" => job'[Load].val = 0
        /\ job'[Load].at = "read" => (masked' = TRUE <=> job'[Load].val = 1)
    <3>1. CASE c = Load
      <4>1. job[Load].val = 0
        BY <1>1, <3>1 DEF SettingsInv, MaskInv
      <4> QED BY <1>1, <1>4, <1>6, <2>1, <3>1, <4>1
    <3>2. CASE c # Load
      BY <1>1, <1>6, <2>1, <3>2 DEF SettingsInv, MaskInv
    <3> QED BY <3>1, <3>2
  <2>4. ~Acting(Load)' /\ (\A d \in SClick : ~Switching(d)') => (mask' = TRUE <=> masked' = TRUE)
    BY <1>1, <2>1 DEF SettingsInv, MaskInv
  <2> QED BY <2>1, <2>2, <2>3, <2>4
<1> QED BY <1>7, <1>8, <1>9, <1>10 DEF SettingsInv

\* A handler ends.
LEMMA OverRecord ==
  ASSUME SettingsInv, NEW c \in SClick, JobOver(c), loads' = loads, site' = site
  PROVE  /\ job' \in [SClick -> JobType] /\ \A d \in SClick : d # c => job'[d] = job[d]
         /\ job'[c].at = "over" /\ \A d \in SClick : JobSound(d)'
<1> DEFINE q == [Resting EXCEPT !.at = "over"]
<1>1. q \in JobType /\ q.at = "over" /\ q.do = "load" /\ q.mark = 0
  BY RestingType DEF JobType
<1>2. job' = [job EXCEPT ![c] = q]
  BY DEF JobOver
<1> HIDE DEF q
<1>3. job \in [SClick -> JobType] /\ loads \in Nat
  BY DEF SettingsInv, SettingsTypeOK
<1>4. /\ job' \in [SClick -> JobType] /\ job'[c] = q
      /\ \A d \in SClick : d # c => job'[d] = job[d]
  BY <1>1, <1>2, <1>3
<1>5. ASSUME NEW d \in SClick PROVE JobSound(d)'
  <2>1. CASE d = c
    BY <1>1, <1>3, <1>4, <2>1 DEF JobSound
  <2>2. CASE d # c
    BY <1>4, <2>2 DEF JobSound, SettingsInv
  <2> QED BY <2>1, <2>2
<1> QED BY <1>1, <1>4, <1>5

LEMMA SettingFailsStep == ASSUME SettingsInv, NEW c \in SClick, SettingFails(c) PROVE SettingsInv'
<1> DEFINE of == {job[c].sec} \cup (IF job[c].sec = "theme" THEN {"tint"} ELSE {})
           unseen == job[c].at # "sent" /\ job[c].do # "load"
<1>1. /\ job[c].at \in {"sent", "written", "read"} /\ JobOver(c)
      /\ owedOf' = [x \in Cell |-> IF unseen /\ x \in of THEN Max({owedOf[x], job[c].mark}) ELSE owedOf[x]]
      /\ UNCHANGED <<site, server, masked, form, tint, loads, lastOf, newestOf, dirty>>
  BY DEF SettingFails, apiVars
<1>2. mask' = (IF job[c].do = "mask" THEN job[c].val = 0 ELSE mask)
  BY DEF SettingFails, RolledBack
<1>3. unsure' = (unsure \/ unseen \/ c = Load)
  BY DEF SettingFails
<1>4. /\ loads \in Nat /\ job[c] \in JobType /\ owedOf \in [Cell -> Nat] /\ mask \in BOOLEAN
      /\ unsure \in BOOLEAN /\ masked \in BOOLEAN /\ \A d \in SClick : JobSound(d)
  BY DEF SettingsInv, SettingsTypeOK
<1>5. /\ job' \in [SClick -> JobType] /\ \A d \in SClick : d # c => job'[d] = job[d]
      /\ job'[c].at = "over" /\ \A d \in SClick : JobSound(d)'
  BY <1>1, OverRecord
<1>6. mask' \in BOOLEAN
  <2>1. CASE job[c].do = "mask"
    BY <1>2, <2>1, Zenon
  <2>2. CASE job[c].do # "mask"
    BY <1>2, <1>4, <2>2
  <2> QED BY <2>1, <2>2
<1>7. unsure' \in BOOLEAN
  BY <1>3, Zenon
<1>8. ASSUME NEW x \in Cell
      PROVE  /\ owedOf'[x] \in Nat /\ owedOf'[x] >= owedOf[x]
             /\ unseen /\ x \in of => owedOf'[x] >= job[c].mark
  <2>1. owedOf[x] \in Nat /\ job[c].mark \in Nat
    BY <1>4 DEF JobType
  <2>2. owedOf'[x] = IF unseen /\ x \in of THEN Max({owedOf[x], job[c].mark}) ELSE owedOf[x]
    BY <1>1
  <2> HIDE DEF unseen, of
  <2> QED BY <2>1, <2>2, MaxOfTwo
<1>9. owedOf' \in [Cell -> Nat]
  BY <1>1, <1>8
<1>10. SettingsTypeOK'
  BY <1>1, <1>5, <1>6, <1>7, <1>9 DEF SettingsInv, SettingsTypeOK
<1>11. FormInv'
  <2> SUFFICES ASSUME site = "settings", NEW x \in Cell PROVE CellSound(x)'
    BY <1>1 DEF SettingsInv, FormInv
  <2>1. ASSUME NEW k \in Nat, NEW w \in AnyValue, UpToDate(x, k, w) PROVE UpToDate(x, k, w)'
    <3>0. owedOf[x] \in Nat /\ owedOf'[x] \in Nat /\ owedOf'[x] >= owedOf[x] /\ job[c].mark \in Nat
      BY <1>4, <1>8 DEF JobType
    <3>1. CASE Covers(c, x, k)
      <4>1. unseen /\ x \in of
        BY <3>1, Cells DEF Covers, Of
      <4>2. k <= job[c].mark
        BY <3>0, <3>1 DEF Covers
      <4>3. owedOf'[x] >= job[c].mark
        BY <1>8, <4>1
      <4> QED BY <3>0, <4>2, <4>3 DEF UpToDate
    <3>2. ASSUME NEW d \in SClick, d # c, Covers(d, x, k) PROVE Covers(d, x, k)'
      BY <1>5, <3>2 DEF Covers
    <3> QED BY <1>1, <2>1, <3>0, <3>1, <3>2 DEF UpToDate
  <2> QED BY <1>1, <1>4, <1>5, <2>1, CellKept
<1>12. MaskInv'
  <2> SUFFICES ASSUME site = "policy", unsure' = FALSE
               PROVE  /\ \A d \in SClick : Switching(d)' => SwitchSound(d)'
                      /\ job'[Load].at = "written" => job'[Load].val = 0
                      /\ job'[Load].at = "read" => (masked' = TRUE <=> job'[Load].val = 1)
                      /\ ~Acting(Load)' /\ (\A d \in SClick : ~Switching(d)') => (mask' = TRUE <=> masked' = TRUE)
    BY <1>1 DEF MaskInv
  <2>1. unsure = FALSE /\ ~unseen /\ c # Load
    BY <1>3, <1>4
  <2>2. /\ \A d \in SClick : d # c => Acting(d)' = Acting(d) /\ Switching(d)' = Switching(d)
        /\ Load \in SClick /\ job'[Load] = job[Load] /\ job[Load].do = "load"
        /\ Acting(c) /\ ~Acting(c)' /\ ~Switching(c)'
    BY <1>1, <1>4, <1>5, <2>1, SettingsAssumption DEF Acting, Switching, JobSound
  <2>3. CASE job[c].do = "mask"
    <3>1. SwitchSound(c) /\ job[c].at = "sent"
      BY <2>1, <2>2, <2>3 DEF SettingsInv, MaskInv, Switching
    <3>2. \A d \in SClick : ~Acting(d)'
      BY <2>2, <3>1 DEF SwitchSound
    <3>3. mask' = TRUE <=> job[c].val = 0
      BY <1>2, <2>3
    <3>4. masked' = TRUE <=> job[c].val = 0
      BY <1>1, <3>1 DEF SwitchSound
    <3> QED BY <2>2, <3>2, <3>3, <3>4 DEF Switching, Acting
  <2>4. CASE job[c].do # "mask"
    <3>1. mask' = mask /\ masked' = masked
      BY <1>1, <1>2, <2>4
    <3>2. \A d \in SClick : ~Switching(d)
      <4> SUFFICES ASSUME NEW d \in SClick, Switching(d) PROVE FALSE
        OBVIOUS
      <4>1. SwitchSound(d)
        BY <2>1 DEF SettingsInv, MaskInv
      <4> QED BY <2>2, <2>4, <4>1 DEF SwitchSound, Switching
    <3> QED BY <2>1, <2>2, <3>1, <3>2 DEF SettingsInv, MaskInv
  <2> QED BY <2>3, <2>4
<1> QED BY <1>5, <1>10, <1>11, <1>12 DEF SettingsInv

LEMMA TellsStep == ASSUME SettingsInv, NEW c \in SClick, Tells(c) PROVE SettingsInv'
<1>1. /\ job[c].at = "read" /\ JobOver(c)
      /\ UNCHANGED <<site, server, masked, loads, owedOf, unsure>>
  BY DEF Tells, apiVars
<1>2. PICK S : S = IF site = "policy" /\ c # Boot THEN {} ELSE Scope(c)
  OBVIOUS
<1>3. PICK n : n = job[c].read
  OBVIOUS
<1>4. /\ form' = IF S \cap Section = {} THEN form ELSE Taken(c)
      /\ tint' = IF "tint" \in S THEN job[c].got.theme ELSE tint
      /\ lastOf' = [x \in Cell |-> IF x \in S THEN n ELSE lastOf[x]]
      /\ newestOf' = [x \in Cell |-> IF x \in S THEN Max({newestOf[x], n}) ELSE newestOf[x]]
      /\ dirty' = dirty \ S
  BY <1>2, <1>3 DEF Tells
<1>5. mask' = (IF site = "policy" /\ c = Load THEN job[c].val = 1 ELSE mask)
  BY DEF Tells
<1>6. /\ loads \in Nat /\ job[c] \in JobType /\ mask \in BOOLEAN /\ masked \in BOOLEAN
      /\ newestOf \in [Cell -> Nat] /\ lastOf \in [Cell -> Nat] /\ owedOf \in [Cell -> Nat]
      /\ form \in [Section -> AnyValue] /\ tint \in AnyValue
      /\ \A d \in SClick : JobSound(d)
  BY DEF SettingsInv, SettingsTypeOK
<1>7. /\ job' \in [SClick -> JobType] /\ \A d \in SClick : d # c => job'[d] = job[d]
      /\ job'[c].at = "over" /\ \A d \in SClick : JobSound(d)'
  BY <1>1, OverRecord
<1>8. n \in Nat /\ n <= loads /\ job[c].got \in [Section -> AnyValue]
  BY <1>1, <1>3, <1>6 DEF JobType, JobSound
<1>9. ASSUME NEW x \in Cell
      PROVE  /\ lastOf'[x] = (IF x \in S THEN n ELSE lastOf[x])
             /\ newestOf'[x] \in Nat /\ newestOf'[x] >= newestOf[x]
             /\ x \in S => newestOf'[x] >= n /\ newestOf'[x] \in {newestOf[x], n}
             /\ x \notin S => newestOf'[x] = newestOf[x]
  <2>1. newestOf[x] \in Nat
    BY <1>6
  <2>2. newestOf'[x] = IF x \in S THEN Max({newestOf[x], n}) ELSE newestOf[x]
    BY <1>4
  <2>3. lastOf'[x] = IF x \in S THEN n ELSE lastOf[x]
    BY <1>4
  <2> QED BY <1>8, <2>1, <2>2, <2>3, MaxOfTwo
<1>10. lastOf' \in [Cell -> Nat] /\ newestOf' \in [Cell -> Nat]
  BY <1>4, <1>6, <1>8, <1>9
<1>11. /\ Taken(c) \in [Section -> AnyValue]
       /\ \A s \in Section : Taken(c)[s] = IF s \in Scope(c) THEN job[c].got[s] ELSE form[s]
  BY <1>6, <1>8 DEF Taken
<1>12. form' \in [Section -> AnyValue] /\ tint' \in AnyValue
  BY <1>4, <1>6, <1>8, <1>11, Cells
<1>13. mask' \in BOOLEAN
  <2>1. CASE site = "policy" /\ c = Load
    BY <1>5, <2>1, Zenon
  <2>2. CASE ~(site = "policy" /\ c = Load)
    BY <1>5, <1>6, <2>2
  <2> QED BY <2>1, <2>2
<1>14. SettingsTypeOK'
  BY <1>1, <1>7, <1>10, <1>12, <1>13 DEF SettingsInv, SettingsTypeOK
<1>15. FormInv'
  <2> SUFFICES ASSUME site = "settings" PROVE "tint" \notin dirty' /\ \A x \in Cell : CellSound(x)'
    BY <1>1 DEF FormInv
  <2>1. "tint" \notin dirty'
    BY <1>4 DEF SettingsInv, FormInv
  <2>2. S = Scope(c)
    BY <1>2
  <2>3. ASSUME NEW x \in Cell PROVE CellSound(x)'
    <3>1. CellSound(x) /\ Of(x) \in Section /\ (x # "tint" => x \in Section /\ Of(x) = x)
      BY <2>3, Cells DEF SettingsInv, FormInv
    <3>2. ASSUME NEW k \in Nat, NEW w \in AnyValue, UpToDate(x, k, w) PROVE UpToDate(x, k, w)'
      <4>0. newestOf[x] \in Nat /\ newestOf'[x] \in Nat /\ newestOf'[x] >= newestOf[x]
        BY <1>6, <1>9
      <4>1. CASE Covers(c, x, k)
        <5>1. c # Boot /\ JobSound(c) /\ job[c].mark \in Nat
          BY <1>6, <4>1, SettingsAssumption DEF Covers, JobSound, JobType
        <5>2. x \in S
          <6>1. CASE job[c].do = "save"
            <7>1. Scope(c) = Section \cup (IF job[c].sec = "theme" THEN {"tint"} ELSE {})
              BY <5>1, <6>1 DEF Scope
            <7> QED BY <2>2, <3>1, <4>1, <7>1 DEF Covers, Of
          <6>2. CASE job[c].do \in {"logo", "clear"}
            <7>1. Scope(c) = {"logo"}
              BY <5>1, <6>2 DEF Scope
            <7>2. Of(x) = "logo"
              BY <4>1, <5>1, <6>2 DEF Covers, JobSound
            <7> QED BY <2>2, <7>1, <7>2 DEF Of
          <6> QED BY <4>1, <6>1, <6>2 DEF Covers
        <5>3. k < n
          BY <1>1, <1>3, <1>8, <4>1, <5>1 DEF Covers, JobSound
        <5>4. k < newestOf'[x]
          BY <1>8, <1>9, <4>0, <5>2, <5>3
        <5> QED BY <5>4 DEF UpToDate
      <4>2. ASSUME NEW d \in SClick, d # c, Covers(d, x, k) PROVE Covers(d, x, k)'
        BY <1>7, <4>2 DEF Covers
      <4>3. k < newestOf[x] => k < newestOf'[x]
        BY <4>0
      <4> QED BY <1>1, <3>2, <4>1, <4>2, <4>3 DEF UpToDate
    <3>3. (lastOf[x] <= newestOf[x] /\ newestOf[x] <= loads)'
      BY <1>1, <1>6, <1>8, <1>9, <3>1 DEF CellSound
    <3>4. ASSUME x \notin dirty' PROVE UpToDate(x, lastOf[x], Displayed(x))'
      <4>1. CASE x \in S
        <5>1. UpToDate(x, job[c].read, job[c].got[Of(x)])
          BY <1>1, <2>2, <3>1, <4>1 DEF CellSound
        <5>2. PICK w \in AnyValue : w = job[c].got[Of(x)]
          BY <1>8, <3>1
        <5>3. UpToDate(x, n, w)'
          BY <1>3, <1>8, <3>2, <5>1, <5>2
        <5>4. lastOf'[x] = n
          BY <1>9, <4>1
        <5>5. Displayed(x)' = w
          <6>1. CASE x = "tint"
            BY <1>4, <4>1, <5>2, <6>1 DEF Displayed, Of
          <6>2. CASE x # "tint"
            <7>1. form' = Taken(c)
              BY <1>4, <3>1, <4>1, <6>2
            <7>2. form'[x] = job[c].got[x]
              BY <1>11, <2>2, <3>1, <4>1, <6>2, <7>1
            <7> QED BY <3>1, <5>2, <6>2, <7>2 DEF Displayed
          <6> QED BY <6>1, <6>2
        <5> QED BY <5>3, <5>4, <5>5 DEF UpToDate, Covers
      <4>2. CASE x \notin S
        <5>1. x \notin dirty /\ lastOf'[x] = lastOf[x]
          BY <1>4, <1>9, <3>4, <4>2
        <5>2. Displayed(x)' = Displayed(x)
          <6>1. CASE x = "tint"
            BY <1>4, <4>2, <6>1 DEF Displayed
          <6>2. CASE x # "tint"
            BY <1>4, <1>11, <2>2, <3>1, <4>2, <6>2 DEF Displayed
          <6> QED BY <6>1, <6>2
        <5>3. UpToDate(x, lastOf[x], Displayed(x))
          BY <3>1, <5>1 DEF CellSound
        <5>4. PICK k \in Nat, w \in AnyValue : k = lastOf[x] /\ w = Displayed(x)
          BY <1>6, <3>1 DEF Displayed
        <5>5. UpToDate(x, k, w)'
          BY <3>2, <5>3, <5>4
        <5> QED BY <5>1, <5>2, <5>4, <5>5 DEF UpToDate, Covers
      <4> QED BY <4>1, <4>2
    <3>5. ASSUME NEW d \in SClick, job'[d].at = "read", x \in Scope(d)'
          PROVE  UpToDate(x, job[d].read, job[d].got[Of(x)])'
      <4>1. d # c /\ job'[d] = job[d] /\ x \in Scope(d) /\ job[d] \in JobType
        BY <1>7, <3>5 DEF Scope, SettingsInv, SettingsTypeOK
      <4>2. UpToDate(x, job[d].read, job[d].got[Of(x)])
        BY <3>1, <3>5, <4>1 DEF CellSound
      <4>3. PICK k \in Nat, w \in AnyValue : k = job[d].read /\ w = job[d].got[Of(x)]
        BY <3>1, <4>1 DEF JobType
      <4>4. UpToDate(x, k, w)'
        BY <3>2, <4>2, <4>3
      <4> QED BY <4>1, <4>3, <4>4 DEF UpToDate, Covers
    <3> QED BY <3>3, <3>4, <3>5 DEF CellSound
  <2> QED BY <2>1, <2>3
<1>16. MaskInv'
  <2> SUFFICES ASSUME site = "policy", unsure = FALSE
               PROVE  /\ \A d \in SClick : Switching(d)' => SwitchSound(d)'
                      /\ job'[Load].at = "written" => job'[Load].val = 0
                      /\ job'[Load].at = "read" => (masked' = TRUE <=> job'[Load].val = 1)
                      /\ ~Acting(Load)' /\ (\A d \in SClick : ~Switching(d)') => (mask' = TRUE <=> masked' = TRUE)
    BY <1>1 DEF MaskInv
  <2>1. /\ \A d \in SClick : d # c => Acting(d)' = Acting(d) /\ Switching(d)' = Switching(d)
        /\ Load \in SClick /\ job[Load].do = "load" /\ Acting(c)
        /\ ~Acting(c)' /\ ~Switching(c)'
    BY <1>1, <1>6, <1>7, SettingsAssumption DEF Acting, Switching, JobSound
  <2>2. CASE job[c].do = "mask"
    <3>1. SwitchSound(c) /\ c # Load
      BY <2>1, <2>2 DEF SettingsInv, MaskInv, Switching
    <3>2. \A d \in SClick : ~Acting(d)'
      BY <2>1, <3>1 DEF SwitchSound
    <3>3. mask' = TRUE <=> masked' = TRUE
      BY <1>1, <1>5, <3>1 DEF SwitchSound
    <3> QED BY <2>1, <3>2, <3>3 DEF Switching, Acting
  <2>3. CASE job[c].do # "mask"
    <3>1. \A d \in SClick : ~Switching(d)
      <4> SUFFICES ASSUME NEW d \in SClick, Switching(d) PROVE FALSE
        OBVIOUS
      <4>1. SwitchSound(d)
        BY DEF SettingsInv, MaskInv
      <4> QED BY <2>1, <2>3, <4>1 DEF SwitchSound, Switching
    <3>2. CASE c = Load
      <4>1. mask' = TRUE <=> masked' = TRUE
        BY <1>1, <1>5, <3>2 DEF SettingsInv, MaskInv
      <4> QED BY <1>7, <2>1, <3>1, <3>2, <4>1
    <3>3. CASE c # Load
      <4>1. mask' = mask
        BY <1>5, <3>3
      <4> QED BY <1>1, <1>7, <2>1, <3>1, <3>3, <4>1 DEF SettingsInv, MaskInv
    <3> QED BY <3>2, <3>3
  <2> QED BY <2>2, <2>3
<1> QED BY <1>7, <1>14, <1>15, <1>16 DEF SettingsInv

LEMMA SettingsStutter == ASSUME SettingsInv, UNCHANGED settingsVars PROVE SettingsInv'
<1>1. UNCHANGED <<site, server, masked, form, mask, tint, job, loads, lastOf, newestOf, owedOf, dirty, unsure>>
  BY DEF settingsVars
<1>2. SettingsTypeOK' /\ \A c \in SClick : JobSound(c)'
  BY <1>1 DEF SettingsInv, SettingsTypeOK, JobSound
<1>3. FormInv'
  <2>1. ASSUME NEW x \in Cell, CellSound(x) PROVE CellSound(x)'
    <3>1. Displayed(x)' = Displayed(x)
      BY <1>1 DEF Displayed
    <3> QED BY <1>1, <2>1, <3>1 DEF CellSound, UpToDate, Covers, Scope
  <2> QED BY <1>1, <2>1 DEF SettingsInv, FormInv
<1>4. MaskInv'
  BY <1>1 DEF SettingsInv, MaskInv, SwitchSound, Switching, Acting
<1> QED BY <1>2, <1>3, <1>4 DEF SettingsInv

LEMMA SettingsInvSettles == SettingsInv => SettingsSettle
<1> SUFFICES ASSUME SettingsInv PROVE SettingsSettle
  OBVIOUS
<1>0. /\ lastOf \in [Cell -> Nat] /\ newestOf \in [Cell -> Nat] /\ owedOf \in [Cell -> Nat]
      /\ mask \in BOOLEAN /\ masked \in BOOLEAN /\ unsure \in BOOLEAN
  BY DEF SettingsInv, SettingsTypeOK
<1>1. ASSUME AtEase, site = "settings", NEW x \in Cell, x \notin dirty, Told(x)
      PROVE  Displayed(x) = server[Of(x)]
  <2>1. UpToDate(x, lastOf[x], Displayed(x))
    BY <1>1 DEF SettingsInv, FormInv, CellSound
  <2>2. \A d \in SClick : ~Covers(d, x, lastOf[x])
    BY <1>1 DEF AtEase, Covers
  <2>3. ~(lastOf[x] <= owedOf[x]) /\ ~(lastOf[x] < newestOf[x])
    BY <1>0, <1>1 DEF Told
  <2> QED BY <2>1, <2>2, <2>3 DEF UpToDate
<1>2. FormSettles
  <2> SUFFICES ASSUME AtEase, site = "settings"
               PROVE  /\ \A s \in Section : Told(s) /\ s \notin dirty => form[s] = server[s]
                      /\ Told("tint") => tint = server.theme
    BY DEF FormSettles
  <2>1. "tint" \notin dirty
    BY DEF SettingsInv, FormInv
  <2>2. ASSUME NEW s \in Section, Told(s), s \notin dirty PROVE form[s] = server[s]
    <3>1. s \in Cell /\ s # "tint" /\ Of(s) = s
      BY Cells
    <3>2. Displayed(s) = server[Of(s)]
      BY <1>1, <2>2, <3>1
    <3> QED BY <3>1, <3>2 DEF Displayed
  <2>3. ASSUME Told("tint") PROVE tint = server.theme
    <3>1. Displayed("tint") = server[Of("tint")]
      BY <1>1, <2>1, <2>3, Cells
    <3> QED BY <3>1 DEF Displayed, Of
  <2> QED BY <2>2, <2>3
<1>3. MaskSettles
  <2> SUFFICES ASSUME AtEase, site = "policy", unsure = FALSE PROVE mask = masked
    BY <1>0 DEF MaskSettles
  <2>1. mask = TRUE <=> masked = TRUE
    BY SettingsAssumption DEF AtEase, SettingsInv, MaskInv, Acting, Switching
  <2> QED BY <1>0, <2>1
<1> QED BY <1>2, <1>3 DEF SettingsSettle

\* Settings pages at rest show what the API has, and the tab its theme, however many
\* saves overlap, unless an older answer came last or an answer was lost; and the
\* masking switch shows what the gateway does, also after a refused change (save,
\* uploadLogo, clearLogo, toggleMaskResponses).
THEOREM SettingsSettleHolds == SettingsSpec => []SettingsSettle
<1>1. SettingsInv /\ [SettingsNext]_settingsVars => SettingsInv'
  <2> SUFFICES ASSUME SettingsInv, [SettingsNext]_settingsVars PROVE SettingsInv'
    OBVIOUS
  <2>1. ASSUME NEW s \in Section, NEW v \in Value, field(s, v) PROVE SettingsInv'
    BY <2>1, FieldStep
  <2>2. ASSUME NEW c \in SClick, NEW s \in Section, NEW v \in Value,
               save(c, s) \/ PickTheme(c, v) \/ uploadLogo(c, v) \/ clearLogo(c)
        PROVE  SettingsInv'
    BY <2>2, SettingsHandlers
  <2>3. ASSUME NEW c \in SClick, toggleMaskResponses(c) PROVE SettingsInv'
    BY <2>3, ToggleStep
  <2>4. ASSUME NEW c \in SClick, Written(c) \/ Fetched(c) \/ Tells(c) \/ SettingFails(c)
        PROVE  SettingsInv'
    BY <2>4, WrittenStep, FetchedStep, TellsStep, SettingFailsStep
  <2>5. CASE UNCHANGED settingsVars
    BY <2>5, SettingsStutter
  <2>6. 0 \in Value /\ "theme" \in Section
    BY SettingsAssumption, Cells
  <2> QED BY <2>1, <2>2, <2>3, <2>4, <2>5, <2>6 DEF SettingsNext
<1> QED BY <1>1, InitSettingsInv, SettingsInvSettles, PTL DEF SettingsSpec
=============================================================================
