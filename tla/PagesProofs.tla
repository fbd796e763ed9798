---------------------------- MODULE PagesProofs ----------------------------
(***************************************************************************)
(* The pages of the panel, for any number of rows, items, documents, services *)
(* and handlers that overlap: the lists, the details, the previews, the       *)
(* dialogs and the form of a new provider.  The five share no state; each has *)
(* an inductive invariant of its own, which follows every handler under way.  *)
(***************************************************************************)
EXTENDS ListPages, Viewers, Previews, Dialogs, ProviderForm, TLAPS

\* Of two numbers.
LEMMA MaxOfTwo ==
  ASSUME NEW m \in Nat, NEW n \in Nat
  PROVE  /\ Max({m, n}) \in Nat /\ Max({m, n}) >= m /\ Max({m, n}) >= n
         /\ Max({m, n}) \in {m, n}
<1>1. \E x \in {m, n} : \A y \in {m, n} : x >= y
  <2>1. CASE m >= n
    BY <2>1
  <2>2. CASE n >= m
    BY <2>2
  <2> QED BY <2>1, <2>2
<1> QED BY <1>1 DEF Max

-----------------------------------------------------------------------------
(* Lists.  What a load brought is the API's, or is known not to be: a change   *)
(* since is still followed by the load of its handler, was not told, or a      *)
(* later load was shown.                                                       *)

AtRest == {"idle", "over"}

ListTypeOK ==
  /\ page \in Pages /\ rows \in [Id -> Row] /\ shown \in [Id -> Row]
  /\ task \in [Click -> Task]
  /\ reads \in Nat /\ last \in Nat /\ newest \in Nat /\ owed \in Nat
  /\ last <= newest /\ newest <= reads

TaskSound(c) ==
  /\ task[c].at = "idle" => task[c].ids = <<>>
  /\ task[c].at \in {"sent", "served"} => task[c].op # "load"
  /\ task[c].mark <= reads
  /\ task[c].at = "read" => task[c].mark < task[c].read /\ task[c].read <= reads

\* Rows r that load n brought are the API's, or are known not to be: a change since
\* is still followed by a handler or has failed, or a later load was shown.
Current(n, r) ==
  \/ r = rows \/ n <= owed \/ n < newest
  \/ \E d \in Click : task[d].at \notin AtRest /\ n <= task[d].mark

LoadsCurrent == /\ Current(last, shown)
                /\ \A c \in Click : task[c].at = "read" => Current(task[c].read, task[c].got)

Flagged(c) == task[c].flagged = TRUE /\ task[c].at \notin AtRest

\* A flagged handler is alone with the flag, or something else is or was indexed.
Alone(c) ==
  IF page = "knowledge"
    THEN /\ \E i \in Id : task[c].ids = <<i>>
         /\ \/ task[c].ids = <<busy>> /\ \A d \in Click : Flagged(d) => d = c
            \/ \E e \in Click : task[e].ids \notin {<<>>, task[c].ids}
    ELSE busy # None /\ \A d \in Click : Flagged(d) => d = c

OneInv == \A c \in Click : Flagged(c) => Alone(c)

ListInv == ListTypeOK /\ (\A c \in Click : TaskSound(c)) /\ LoadsCurrent /\ OneInv

-----------------------------------------------------------------------------

LEMMA IdleType == /\ Idle \in Task /\ Idle.at = "idle" /\ Idle.ids = <<>> /\ Idle.mark = 0
                  /\ Idle.flagged = FALSE
BY DEF Idle, Task, Op, Nothing, Row

-----------------------------------------------------------------------------

LEMMA InitListInv == ListInit => ListInv
<1> SUFFICES ASSUME ListInit PROVE ListInv
  OBVIOUS
<1> DEFINE m == [Idle EXCEPT !.at = "asked"]
<1>1. m \in Task /\ m.at = "asked" /\ m.mark = 0 /\ m.flagged = FALSE
  BY IdleType DEF Task
<1> HIDE DEF m
<1>2. Nothing \in [Id -> Row]
  BY DEF Nothing, Row
<1>3. /\ page \in Pages /\ rows \in [Id -> Row] /\ shown = Nothing
      /\ task = [c \in Click |-> IF c = Mount THEN m ELSE Idle]
      /\ reads = 0 /\ last = 0 /\ newest = 0 /\ owed = 0
  BY DEF ListInit, m
<1>4. \A c \in Click : task[c] \in {m, Idle}
  BY <1>3
<1>5. ListTypeOK
  BY <1>1, <1>2, <1>3, IdleType DEF ListTypeOK
<1>6. \A c \in Click : TaskSound(c)
  BY <1>1, <1>3, <1>4, IdleType DEF TaskSound
<1>7. LoadsCurrent
  BY <1>1, <1>3, <1>4, IdleType DEF LoadsCurrent, Current
<1>8. \A c \in Click : ~Flagged(c)
  BY <1>1, <1>4, IdleType, Zenon DEF Flagged
<1> QED BY <1>5, <1>6, <1>7, <1>8 DEF ListInv, OneInv

\* A handler goes on.
LEMMA AloneGoesOn ==
  ASSUME ListInv, NEW c \in Click, \A d \in Click : d # c => task'[d] = task[d],
         task'[c].ids = task[c].ids, task'[c].flagged = task[c].flagged,
         task[c].at \notin AtRest, task'[c].at \notin AtRest, UNCHANGED <<page, busy>>
  PROVE  OneInv'
<1>1. \A d \in Click : task'[d].ids = task[d].ids
  OBVIOUS
<1>2. ASSUME NEW d \in Click PROVE Flagged(d)' <=> Flagged(d)
  BY Zenon DEF Flagged
<1>3. ASSUME NEW d \in Click, Alone(d) PROVE Alone(d)'
  BY <1>1, <1>2, <1>3 DEF Alone
<1> QED BY <1>2, <1>3 DEF OneInv, ListInv

\* A handler ends.
LEMMA AloneOver ==
  ASSUME ListInv, NEW c \in Click, \A d \in Click : d # c => task'[d] = task[d],
         page = "knowledge" => task'[c].ids = task[c].ids,
         task[c].at \notin AtRest, task'[c].at = "over", page' = page,
         busy' = IF task[c].flagged THEN None ELSE busy
  PROVE  OneInv'
<1>1. ~Flagged(c)'
  BY DEF Flagged, AtRest
<1>2. ASSUME NEW d \in Click, Flagged(d)' PROVE Flagged(d) /\ d # c
  BY <1>1, <1>2, Zenon DEF Flagged
<1>3. ASSUME NEW d \in Click, Flagged(d)' PROVE Alone(d)'
  <2>1. Flagged(d) /\ d # c /\ Alone(d) /\ task'[d] = task[d]
    BY <1>2, <1>3 DEF ListInv, OneInv
  <2>2. CASE task[c].flagged = TRUE
    <3>1. Flagged(c)
      BY <2>2 DEF Flagged
    <3>2. page = "knowledge" /\ \E e \in Click : task[e].ids \notin {<<>>, task[d].ids}
      BY <2>1, <3>1 DEF Alone
    <3>3. \A e \in Click : task'[e].ids = task[e].ids
      BY <3>2
    <3> QED BY <2>1, <3>2, <3>3 DEF Alone
  <2>3. CASE task[c].flagged # TRUE
    <3>1. busy' = busy
      BY <2>3 DEF ListInv, ListTypeOK, Task
    <3>2. CASE page = "knowledge"
      <4>1. \A e \in Click : task'[e].ids = task[e].ids
        BY <3>2
      <4> QED BY <1>2, <2>1, <3>1, <3>2, <4>1 DEF Alone
    <3>3. CASE page # "knowledge"
      BY <1>2, <2>1, <3>1, <3>3 DEF Alone
    <3> QED BY <3>2, <3>3
  <2> QED BY <2>2, <2>3
<1> QED BY <1>3 DEF OneInv

\* A handler starts.
LEMMA AloneStarts ==
  ASSUME ListInv, NEW c \in Click, NEW ids \in Seq(Id), NEW flag, task[c].at = "idle",
         \A d \in Click : d # c => task'[d] = task[d],
         task'[c].ids = ids, task'[c].flagged = (flag # busy), busy' = flag, page' = page,
         \/ flag = busy
         \/ busy = None /\ flag # None /\ page # "knowledge"
         \/ page = "knowledge" /\ flag \in Id /\ ids = <<flag>> /\ flag # busy
  PROVE  OneInv'
<1>1. ~Flagged(c) /\ task[c].ids = <<>>
  BY DEF Flagged, AtRest, ListInv, TaskSound
<1>2. \A d \in Click : d # c => (Flagged(d)' <=> Flagged(d))
  BY Zenon DEF Flagged
<1>3. CASE flag = busy
  <2>1. ~Flagged(c)'
    BY <1>3 DEF Flagged
  <2>2. ASSUME NEW d \in Click, Flagged(d)' PROVE Alone(d)'
    <3>1. Flagged(d) /\ d # c /\ Alone(d) /\ task'[d] = task[d]
      BY <1>2, <2>1, <2>2 DEF ListInv, OneInv
    <3>2. \A e \in Click : task[e].ids \notin {<<>>, task[d].ids} => task'[e].ids = task[e].ids
      BY <1>1
    <3>3. \A e \in Click : Flagged(e)' => Flagged(e)
      BY <1>2, <2>1
    <3> QED BY <1>3, <3>1, <3>2, <3>3 DEF Alone
  <2> QED BY <2>2 DEF OneInv
<1>4. CASE busy = None /\ flag # None /\ page # "knowledge"
  <2>1. \A d \in Click : ~Flagged(d)
    BY <1>4 DEF ListInv, OneInv, Alone
  <2>2. \A d \in Click : Flagged(d)' => d = c
    BY <1>2, <2>1
  <2> QED BY <1>4, <2>2 DEF OneInv, Alone
<1>5. CASE page = "knowledge" /\ flag \in Id /\ ids = <<flag>> /\ flag # busy
  <2>0. <<flag>> # <<>>
    OBVIOUS
  <2>1. CASE \A d \in Click : ~Flagged(d)
    <3>1. \A d \in Click : Flagged(d)' => d = c
      BY <1>2, <2>1
    <3>2. Alone(c)'
      BY <1>5, <3>1 DEF Alone
    <3> QED BY <3>1, <3>2 DEF OneInv
  <2>2. ASSUME NEW d \in Click, Flagged(d) PROVE OneInv'
    <3>1. d # c /\ Alone(d) /\ task'[d] = task[d] /\ task[d].ids # <<>>
      <4>1. d # c /\ Alone(d)
        BY <1>1, <2>2 DEF ListInv, OneInv
      <4>2. PICK i \in Id : task[d].ids = <<i>>
        BY <1>5, <4>1 DEF Alone
      <4> QED BY <4>1, <4>2
    <3>2. PICK e \in Click : task'[e].ids \notin {<<>>, task[d].ids}
                             /\ (e = c \/ task'[e] = task[e])
      <4>1. CASE \E e \in Click : task[e].ids \notin {<<>>, task[d].ids}
        BY <1>1, <4>1
      <4>2. CASE task[d].ids = <<busy>>
        BY <1>5, <2>0, <4>2
      <4> QED BY <1>5, <3>1, <4>1, <4>2 DEF Alone
    <3>3. ASSUME NEW f \in Click, Flagged(f)' PROVE Alone(f)'
      <4>1. \E i \in Id : task'[f].ids = <<i>>
        <5>1. CASE f = c
          BY <1>5, <5>1
        <5>2. CASE f # c
          BY <1>2, <1>5, <3>3, <5>2 DEF ListInv, OneInv, Alone
        <5> QED BY <5>1, <5>2
      <4>2. \E g \in Click : task'[g].ids \notin {<<>>, task'[f].ids}
        <5>1. CASE task'[f].ids = task'[d].ids
          BY <3>1, <3>2, <5>1
        <5>2. CASE task'[f].ids # task'[d].ids
          BY <3>1, <5>2
        <5> QED BY <5>1, <5>2
      <4> QED BY <1>5, <4>1, <4>2 DEF Alone
    <3> QED BY <3>3 DEF OneInv
  <2> QED BY <2>1, <2>2
<1> QED BY <1>3, <1>4, <1>5

-----------------------------------------------------------------------------

LEMMA CallsStep ==
  ASSUME ListInv, NEW c \in Click, NEW op \in Op \ {"load"}, NEW ids \in Seq(Id), NEW flag,
         Calls(c, op, ids, flag),
         \/ flag = busy
         \/ busy = None /\ flag # None /\ page # "knowledge"
         \/ page = "knowledge" /\ flag \in Id /\ ids = <<flag>> /\ flag # busy
  PROVE  ListInv'
<1> DEFINE q == [Idle EXCEPT !.at = "sent", !.op = op, !.ids = ids, !.flagged = (flag # busy)]
<1>1. /\ task[c].at = "idle" /\ task' = [task EXCEPT ![c] = q] /\ busy' = flag
      /\ UNCHANGED <<page, rows, shown, reads, last, newest, owed>>
  BY Zenon DEF Calls
<1>2. /\ q \in Task /\ q.at = "sent" /\ q.op = op /\ q.ids = ids /\ q.flagged = (flag # busy)
      /\ q.mark = 0
  <2>1. (flag # busy) \in BOOLEAN /\ op \in Op
    OBVIOUS
  <2>2. PICK b \in BOOLEAN : b = (flag # busy)
    BY <2>1
  <2>3. q = [Idle EXCEPT !.at = "sent", !.op = op, !.ids = ids, !.flagged = b]
    BY <2>2, Zenon
  <2> HIDE DEF q
  <2>4. q \in Task /\ q.at = "sent" /\ q.op = op /\ q.ids = ids /\ q.flagged = b /\ q.mark = 0
    BY <2>1, <2>3, IdleType DEF Task
  <2> QED BY <2>2, <2>4, Zenon
<1> HIDE DEF q
<1>3. task'[c] = q /\ \A d \in Click : d # c => task'[d] = task[d]
  BY <1>1 DEF ListInv, ListTypeOK
<1>4. ListTypeOK'
  BY <1>1, <1>2 DEF ListInv, ListTypeOK
<1>5. \A d \in Click : TaskSound(d)'
  <2>1. TaskSound(c)'
    BY <1>1, <1>2, <1>3 DEF TaskSound, ListInv, ListTypeOK
  <2> QED BY <1>1, <1>3, <2>1 DEF ListInv, TaskSound
<1>6. LoadsCurrent'
  <2>1. ASSUME NEW n \in Nat, NEW r \in [Id -> Row], Current(n, r) PROVE Current(n, r)'
    BY <1>1, <1>3, <2>1 DEF Current, AtRest
  <2>2. Current(last, shown)'
    BY <1>1, <2>1 DEF ListInv, ListTypeOK, LoadsCurrent, Current
  <2>3. ASSUME NEW d \in Click, task'[d].at = "read" PROVE Current(task[d].read, task[d].got)'
    <3>1. d # c /\ task'[d] = task[d]
      BY <1>2, <1>3, <2>3
    <3>2. task[d].read \in Nat /\ task[d].got \in [Id -> Row]
      BY DEF ListInv, ListTypeOK, Task
    <3>3. Current(task[d].read, task[d].got)
      BY <2>3, <3>1 DEF ListInv, LoadsCurrent
    <3> QED BY <1>1, <1>3, <3>1, <3>3 DEF Current, AtRest
  <2> QED BY <2>2, <2>3 DEF LoadsCurrent
<1>7. OneInv'
  BY <1>1, <1>2, <1>3, AloneStarts
<1> QED BY <1>4, <1>5, <1>6, <1>7 DEF ListInv

\* A handler goes on to its next call or its load; a change it made is marked.
LEMMA GoesOnStep ==
  ASSUME ListInv, NEW c \in Click, task' \in [Click -> Task],
         \A d \in Click : d # c => task'[d] = task[d],
         task[c].at \in {"sent", "served"}, task'[c].at \in {"sent", "served", "refused", "asked"},
         task'[c].ids = task[c].ids, task'[c].flagged = task[c].flagged,
         task'[c].op = task[c].op,
         \/ rows' = rows /\ task'[c].mark = task[c].mark
         \/ rows' \in [Id -> Row] /\ task'[c].mark = reads,
         UNCHANGED <<page, shown, busy, reads, last, newest, owed>>
  PROVE  ListInv'
<1>1. ListTypeOK'
  BY DEF ListInv, ListTypeOK
<1>2. \A d \in Click : task[d].mark \in Nat /\ task[d].read \in Nat /\ task[d].mark <= reads
  BY DEF ListInv, ListTypeOK, Task, TaskSound
<1>3. \A d \in Click : TaskSound(d)'
  <2>1. TaskSound(c)'
    BY <1>2 DEF TaskSound, ListInv, ListTypeOK
  <2> QED BY <2>1 DEF ListInv, TaskSound
<1>4. ASSUME NEW n \in Nat, NEW r, n <= reads, Current(n, r) PROVE Current(n, r)'
  <2>1. CASE task'[c].mark = reads
    BY <1>4, <2>1 DEF Current, AtRest
  <2>2. CASE rows' = rows /\ task'[c].mark = task[c].mark
    <3>1. ASSUME NEW d \in Click, task[d].at \notin AtRest, n <= task[d].mark
          PROVE  task'[d].at \notin AtRest /\ n <= task'[d].mark
      <4>1. CASE d = c
        BY <2>2, <3>1, <4>1 DEF AtRest
      <4>2. CASE d # c
        BY <3>1, <4>2
      <4> QED BY <4>1, <4>2
    <3> QED BY <1>4, <2>2, <3>1 DEF Current
  <2> QED BY <2>1, <2>2
<1>5. LoadsCurrent'
  <2>1. Current(last, shown)'
    <3>1. PICK m \in Nat, s \in {shown} : m = last /\ s = shown
      BY DEF ListInv, ListTypeOK
    <3>2. m <= reads /\ Current(m, s)
      BY <3>1 DEF ListInv, ListTypeOK, LoadsCurrent
    <3>3. Current(m, s)'
      BY <1>4, <3>2
    <3> QED BY <3>1, <3>3 DEF Current
  <2>2. ASSUME NEW d \in Click, task'[d].at = "read" PROVE Current(task[d].read, task[d].got)'
    <3>1. d # c /\ task'[d] = task[d] /\ task[d].read <= reads
          /\ Current(task[d].read, task[d].got)
      BY <2>2 DEF ListInv, LoadsCurrent, TaskSound
    <3> DEFINE n == task[d].read
               r == task[d].got
    <3>2. n \in Nat /\ n <= reads /\ Current(n, r)
      BY <1>2, <3>1
    <3> HIDE DEF n, r
    <3>3. PICK m \in Nat, s \in {r} : m = n /\ s = r
      BY <3>2
    <3>4. Current(m, s)'
      BY <1>4, <3>2, <3>3
    <3> QED BY <3>1, <3>3, <3>4 DEF n, r, Current
  <2> QED BY <2>1, <2>2 DEF LoadsCurrent
<1>6. OneInv'
  BY AloneGoesOn DEF AtRest
<1> QED BY <1>1, <1>3, <1>5, <1>6 DEF ListInv

LEMMA ServeStep == ASSUME ListInv, NEW c \in Click, Serve(c) PROVE ListInv'
<1> DEFINE i == task[c].ids[task[c].k + 1]
<1>1. /\ task[c].at = "sent" /\ UNCHANGED <<page, shown, busy, reads, last, newest, owed>>
      /\ task \in [Click -> Task] /\ rows \in [Id -> Row] /\ reads \in Nat
  BY DEF Serve, ListInv, ListTypeOK
<1>2. CASE Accepts(task[c].op, i)
  <2>1. /\ rows' = [rows EXCEPT ![i] = Effect(task[c].op)]
        /\ task' = [task EXCEPT ![c].at = "served", ![c].k = @ + 1, ![c].mark = reads]
    BY <1>2, Zenon DEF Serve
  <2>2. Effect(task[c].op) \in Row
    BY <1>1 DEF Effect, Row, ListInv, ListTypeOK, Task, Op, TaskSound
  <2>3. rows' \in [Id -> Row]
    BY <1>1, <2>1, <2>2
  <2>4. /\ task' \in [Click -> Task] /\ \A d \in Click : d # c => task'[d] = task[d]
        /\ task'[c].at = "served" /\ task'[c].mark = reads /\ task'[c].ids = task[c].ids
        /\ task'[c].op = task[c].op /\ task'[c].flagged = task[c].flagged
    <3>1. PICK n \in Nat : n = task[c].k + 1
      BY <1>1 DEF Task
    <3>2. task' = [task EXCEPT ![c].at = "served", ![c].k = n, ![c].mark = reads]
      BY <2>1, <3>1, Zenon
    <3>3. task' \in [Click -> Task]
      <4>1. [task EXCEPT ![c].at = "served"] \in [Click -> Task]
        BY <1>1 DEF Task
      <4>2. ASSUME NEW g \in [Click -> Task] PROVE [g EXCEPT ![c].k = n] \in [Click -> Task]
        BY DEF Task
      <4>3. ASSUME NEW g \in [Click -> Task] PROVE [g EXCEPT ![c].mark = reads] \in [Click -> Task]
        BY <1>1 DEF Task
      <4>4. task' = [[[task EXCEPT ![c].at = "served"] EXCEPT ![c].k = n]
                       EXCEPT ![c].mark = reads]
        BY <1>1, <3>2
      <4> QED BY <4>1, <4>2, <4>3, <4>4
    <3>4. \A d \in Click : d # c => task'[d] = task[d]
      BY <1>1, <3>2
    <3>5. /\ task'[c].at = "served" /\ task'[c].mark = reads /\ task'[c].ids = task[c].ids
          /\ task'[c].op = task[c].op /\ task'[c].flagged = task[c].flagged
      BY <1>1, <3>2 DEF Task
    <3> QED BY <3>3, <3>4, <3>5
  <2> QED BY <1>1, <2>3, <2>4, GoesOnStep
<1>3. CASE ~Accepts(task[c].op, i)
  <2>1. task' = [task EXCEPT ![c].at = "refused"] /\ rows' = rows
    BY <1>3, Zenon DEF Serve
  <2>2. /\ task' \in [Click -> Task] /\ \A d \in Click : d # c => task'[d] = task[d]
        /\ task'[c].at = "refused" /\ task'[c].mark = task[c].mark /\ task'[c].ids = task[c].ids
        /\ task'[c].op = task[c].op /\ task'[c].flagged = task[c].flagged
    BY <1>1, <2>1 DEF Task
  <2> QED BY <1>1, <2>1, <2>2, GoesOnStep
<1> QED BY <1>2, <1>3

LEMMA AnswerStep == ASSUME ListInv, NEW c \in Click, Lost(c) \/ CallDone(c) PROVE ListInv'
<1>1. /\ task[c].at \in {"sent", "served"} /\ task \in [Click -> Task]
      /\ UNCHANGED <<page, rows, shown, busy, reads, last, newest, owed>>
  BY DEF Lost, CallDone, ListInv, ListTypeOK
<1>2. PICK l \in {"refused", "asked", "sent"} : task' = [task EXCEPT ![c].at = l]
  BY DEF Lost, CallDone
<1>3. /\ task' \in [Click -> Task] /\ \A d \in Click : d # c => task'[d] = task[d]
      /\ task'[c].at = l /\ task'[c].mark = task[c].mark /\ task'[c].ids = task[c].ids
      /\ task'[c].op = task[c].op /\ task'[c].flagged = task[c].flagged
  BY <1>1, <1>2 DEF Task
<1> QED BY <1>1, <1>3, GoesOnStep

LEMMA ReadStep == ASSUME ListInv, NEW c \in Click, Read(c) PROVE ListInv'
<1>1. /\ task[c].at = "asked" /\ task \in [Click -> Task] /\ rows \in [Id -> Row]
      /\ reads \in Nat /\ reads' = reads + 1
      /\ UNCHANGED <<page, rows, shown, busy, last, newest, owed>>
      /\ task' = [task EXCEPT ![c].at = "read", ![c].read = reads + 1, ![c].got = rows]
  BY DEF Read, ListInv, ListTypeOK
<1>2. /\ task' \in [Click -> Task] /\ \A d \in Click : d # c => task'[d] = task[d]
      /\ task'[c].at = "read" /\ task'[c].read = reads + 1 /\ task'[c].got = rows
      /\ task'[c].mark = task[c].mark /\ task'[c].ids = task[c].ids
      /\ task'[c].flagged = task[c].flagged
  <2>1. reads + 1 \in Nat
    BY <1>1
  <2>2. task' \in [Click -> Task]
    <3>1. [task EXCEPT ![c].at = "read"] \in [Click -> Task]
      BY <1>1 DEF Task
    <3>2. ASSUME NEW g \in [Click -> Task] PROVE [g EXCEPT ![c].read = reads + 1] \in [Click -> Task]
      BY <2>1 DEF Task
    <3>3. ASSUME NEW g \in [Click -> Task] PROVE [g EXCEPT ![c].got = rows] \in [Click -> Task]
      BY <1>1 DEF Task
    <3>4. task' = [[[task EXCEPT ![c].at = "read"] EXCEPT ![c].read = reads + 1]
                     EXCEPT ![c].got = rows]
      BY <1>1
    <3> QED BY <3>1, <3>2, <3>3, <3>4
  <2>3. \A d \in Click : d # c => task'[d] = task[d]
    BY <1>1
  <2>4. /\ task'[c].at = "read" /\ task'[c].read = reads + 1 /\ task'[c].got = rows
        /\ task'[c].mark = task[c].mark /\ task'[c].ids = task[c].ids
        /\ task'[c].flagged = task[c].flagged
    BY <1>1 DEF Task
  <2> QED BY <2>2, <2>3, <2>4
<1>3. \A d \in Click : task[d].mark \in Nat /\ task[d].read \in Nat /\ task[d].mark <= reads
  BY DEF ListInv, ListTypeOK, Task, TaskSound
<1>4. ListTypeOK'
  BY <1>1, <1>2 DEF ListInv, ListTypeOK
<1>5. \A d \in Click : TaskSound(d)'
  <2>1. TaskSound(c)'
    BY <1>1, <1>2, <1>3 DEF TaskSound
  <2>2. ASSUME NEW d \in Click, d # c PROVE TaskSound(d)'
    BY <1>1, <1>2, <1>3, <2>2 DEF TaskSound, ListInv
  <2> QED BY <2>1, <2>2
<1>6. LoadsCurrent'
  <2>1. Current(last, shown)'
    BY <1>1, <1>2 DEF ListInv, LoadsCurrent, Current, AtRest
  <2>2. Current(task[c].read, task[c].got)'
    BY <1>1, <1>2 DEF Current
  <2>3. ASSUME NEW d \in Click, d # c, task'[d].at = "read"
        PROVE  Current(task[d].read, task[d].got)'
    <3>1. Current(task[d].read, task[d].got) /\ task'[d] = task[d]
      BY <1>2, <2>3 DEF ListInv, LoadsCurrent
    <3> QED BY <1>1, <1>2, <3>1 DEF Current, AtRest
  <2> QED BY <2>1, <2>2, <2>3 DEF LoadsCurrent
<1>7. OneInv'
  BY <1>1, <1>2, AloneGoesOn DEF AtRest
<1> QED BY <1>4, <1>5, <1>6, <1>7 DEF ListInv

LEMMA HandlerOverFacts ==
  ASSUME ListInv, NEW c \in Click, HandlerOver(c)
  PROVE  /\ task' \in [Click -> Task] /\ \A d \in Click : d # c => task'[d] = task[d]
         /\ task'[c].at = "over" /\ task'[c].mark = 0
         /\ page = "knowledge" => task'[c].ids = task[c].ids
         /\ busy' = IF task[c].flagged THEN None ELSE busy
<1>1. task' = [task EXCEPT ![c] = TaskOver(c)] /\ busy' = IF task[c].flagged THEN None ELSE busy
  BY Zenon DEF HandlerOver
<1>2. task \in [Click -> Task] /\ task[c].ids \in Seq(Id)
  BY DEF ListInv, ListTypeOK, Task
<1> DEFINE ids == IF page = "knowledge" THEN task[c].ids ELSE <<>>
<1>3. /\ ids \in Seq(Id) /\ (page = "knowledge" => ids = task[c].ids)
      /\ TaskOver(c) = [Idle EXCEPT !.at = "over", !.ids = ids]
  <2>1. <<>> \in Seq(Id)
    OBVIOUS
  <2>2. ids \in Seq(Id) /\ (page = "knowledge" => ids = task[c].ids)
    BY <1>2, <2>1, Zenon
  <2> QED BY <2>2, Zenon DEF TaskOver
<1> HIDE DEF ids
<1>4. /\ TaskOver(c) \in Task /\ TaskOver(c).at = "over" /\ TaskOver(c).ids = ids
      /\ TaskOver(c).mark = 0
  BY <1>3, IdleType DEF Task
<1> QED BY <1>1, <1>2, <1>3, <1>4

LEMMA RejectedStep == ASSUME ListInv, NEW c \in Click, Rejected(c) PROVE ListInv'
<1>1. /\ task[c].at \in {"refused", "asked", "read"} /\ HandlerOver(c)
      /\ owed' = Max({owed, task[c].mark})
      /\ UNCHANGED <<page, rows, shown, reads, last, newest>>
  BY DEF Rejected
<1>2. /\ task' \in [Click -> Task] /\ \A d \in Click : d # c => task'[d] = task[d]
      /\ task'[c].at = "over" /\ task'[c].mark = 0
      /\ page = "knowledge" => task'[c].ids = task[c].ids
      /\ busy' = IF task[c].flagged THEN None ELSE busy
  BY <1>1, HandlerOverFacts
<1>3. \A d \in Click : task[d].mark \in Nat /\ task[d].read \in Nat /\ task[d].mark <= reads
  BY DEF ListInv, ListTypeOK, Task, TaskSound
<1>4. owed' \in Nat /\ owed' >= owed /\ owed' >= task[c].mark
  BY <1>1, <1>3, MaxOfTwo DEF ListInv, ListTypeOK
<1>5. ListTypeOK'
  BY <1>1, <1>2, <1>4 DEF ListInv, ListTypeOK
<1>6. \A d \in Click : TaskSound(d)'
  <2>1. TaskSound(c)'
    BY <1>1, <1>2, <1>5 DEF TaskSound, ListTypeOK
  <2> QED BY <1>1, <1>2, <2>1 DEF TaskSound, ListInv
<1>7. ASSUME NEW n \in Nat, NEW r, Current(n, r) PROVE Current(n, r)'
  <2>1. CASE r = rows \/ n <= owed \/ n < newest
    BY <1>1, <1>4, <2>1 DEF Current, ListInv, ListTypeOK
  <2>2. ASSUME NEW d \in Click, task[d].at \notin AtRest, n <= task[d].mark
        PROVE  Current(n, r)'
    <3>1. CASE d = c
      BY <1>3, <1>4, <2>2, <3>1 DEF Current
    <3>2. CASE d # c
      BY <1>2, <2>2, <3>2 DEF Current
    <3> QED BY <3>1, <3>2
  <2> QED BY <1>7, <2>1, <2>2 DEF Current
<1>8. LoadsCurrent'
  <2>1. Current(last, shown)'
    <3>1. PICK m \in Nat, s \in {shown} : m = last /\ s = shown
      BY DEF ListInv, ListTypeOK
    <3>2. Current(m, s)
      BY <3>1 DEF ListInv, LoadsCurrent
    <3>3. Current(m, s)'
      BY <1>7, <3>2
    <3> QED BY <1>1, <3>1, <3>3 DEF Current
  <2>2. ASSUME NEW d \in Click, task'[d].at = "read" PROVE Current(task[d].read, task[d].got)'
    <3>1. d # c /\ task'[d] = task[d] /\ Current(task[d].read, task[d].got)
      BY <1>2, <2>2 DEF ListInv, LoadsCurrent
    <3>2. PICK m \in Nat, s \in {task[d].got} : m = task[d].read /\ s = task[d].got
      BY <1>3
    <3>3. Current(m, s)'
      BY <1>7, <3>1, <3>2
    <3> QED BY <3>1, <3>2, <3>3 DEF Current
  <2> QED BY <2>1, <2>2 DEF LoadsCurrent
<1>9. OneInv'
  BY <1>1, <1>2, AloneOver DEF AtRest
<1> QED BY <1>5, <1>6, <1>8, <1>9 DEF ListInv

LEMMA ShowStep == ASSUME ListInv, NEW c \in Click, Show(c) PROVE ListInv'
<1>1. /\ task[c].at = "read" /\ HandlerOver(c)
      /\ shown' = task[c].got /\ last' = task[c].read /\ newest' = Max({newest, task[c].read})
      /\ UNCHANGED <<page, rows, reads, owed>>
  BY DEF Show
<1>2. /\ task' \in [Click -> Task] /\ \A d \in Click : d # c => task'[d] = task[d]
      /\ task'[c].at = "over" /\ task'[c].mark = 0
      /\ page = "knowledge" => task'[c].ids = task[c].ids
      /\ busy' = IF task[c].flagged THEN None ELSE busy
  BY <1>1, HandlerOverFacts
<1>3. \A d \in Click : task[d].mark \in Nat /\ task[d].read \in Nat /\ task[d].mark <= reads
  BY DEF ListInv, ListTypeOK, Task, TaskSound
<1>4. task[c].mark < task[c].read /\ task[c].read <= reads /\ task[c].got \in [Id -> Row]
  BY <1>1 DEF ListInv, TaskSound, ListTypeOK, Task
<1>5. /\ newest' \in Nat /\ newest' >= newest /\ newest' >= task[c].read
      /\ newest' \in {newest, task[c].read}
  BY <1>1, <1>3, MaxOfTwo DEF ListInv, ListTypeOK
<1>6. ListTypeOK'
  BY <1>1, <1>2, <1>3, <1>4, <1>5 DEF ListInv, ListTypeOK
<1>7. \A d \in Click : TaskSound(d)'
  <2>1. TaskSound(c)'
    BY <1>1, <1>2, <1>6 DEF TaskSound, ListTypeOK
  <2> QED BY <1>1, <1>2, <2>1 DEF TaskSound, ListInv
<1>8. ASSUME NEW n \in Nat, NEW r, Current(n, r) PROVE Current(n, r)'
  <2>1. CASE r = rows \/ n <= owed \/ n < newest
    BY <1>1, <1>5, <2>1 DEF Current, ListInv, ListTypeOK
  <2>2. ASSUME NEW d \in Click, task[d].at \notin AtRest, n <= task[d].mark
        PROVE  Current(n, r)'
    <3>1. CASE d = c
      BY <1>3, <1>4, <1>5, <2>2, <3>1 DEF Current
    <3>2. CASE d # c
      BY <1>2, <2>2, <3>2 DEF Current
    <3> QED BY <3>1, <3>2
  <2> QED BY <1>8, <2>1, <2>2 DEF Current
<1>9. LoadsCurrent'
  <2>1. Current(last, shown)'
    <3>1. PICK m \in Nat, s \in {task[c].got} : m = task[c].read /\ s = task[c].got
      BY <1>3
    <3>2. Current(m, s)
      BY <1>1, <3>1 DEF ListInv, LoadsCurrent
    <3>3. Current(m, s)'
      BY <1>8, <3>2
    <3> QED BY <1>1, <3>1, <3>3 DEF Current
  <2>2. ASSUME NEW d \in Click, task'[d].at = "read" PROVE Current(task[d].read, task[d].got)'
    <3>1. d # c /\ task'[d] = task[d] /\ Current(task[d].read, task[d].got)
      BY <1>2, <2>2 DEF ListInv, LoadsCurrent
    <3>2. PICK m \in Nat, s \in {task[d].got} : m = task[d].read /\ s = task[d].got
      BY <1>3
    <3>3. Current(m, s)'
      BY <1>8, <3>1, <3>2
    <3> QED BY <3>1, <3>2, <3>3 DEF Current
  <2> QED BY <2>1, <2>2 DEF LoadsCurrent
<1>10. OneInv'
  BY <1>1, <1>2, AloneOver DEF AtRest
<1> QED BY <1>6, <1>7, <1>9, <1>10 DEF ListInv

LEMMA HandlerStep == ASSUME ListInv, NEW c \in Click, Handler(c) PROVE ListInv'
<1>1. ASSUME NEW i \in Id, page # "finetune", page # "knowledge",
             \/ UsersCreate(c, i) \/ UsersToggleActive(c, i) \/ UsersRemove(c, i)
             \/ PolicyCreate(c, i) \/ PolicyToggle(c, i) \/ PolicyRemove(c, i)
             \/ MarketQuickInstall(c, i) \/ MarketToggle(c, i) \/ MarketUninstall(c, i)
             \/ ConnectionsSave(c, i) \/ ConnectionsDelete(c, i)
             \/ ProvidersCreate(c, i) \/ ProvidersRemove(c, i)
             \/ TeamsCreate(c, i) \/ TeamsDelete(c, i) \/ DocumentsDelete(c, i)
             \/ ApiClientSave(c, i) \/ ApiClientDelete(c, i)
      PROVE  ListInv'
  <2>1. PICK op \in {"create", "delete", Negated(i)} : Calls(c, op, <<i>>, busy)
    BY <1>1 DEF UsersCreate, UsersToggleActive, UsersRemove, PolicyCreate, PolicyToggle,
       PolicyRemove, MarketQuickInstall, MarketToggle, MarketUninstall, ConnectionsSave,
       ConnectionsDelete, ProvidersCreate, ProvidersRemove, TeamsCreate, TeamsDelete,
       DocumentsDelete, ApiClientSave, ApiClientDelete
  <2>2. op \in Op \ {"load"} /\ <<i>> \in Seq(Id)
    BY <2>1 DEF Op, Negated
  <2> QED BY <2>1, <2>2, CallsStep
<1>2. ASSUME NEW i \in Id, KnowledgeIndex(c, i) PROVE ListInv'
  <2>1. page = "knowledge" /\ busy # i /\ Calls(c, "on", <<i>>, i)
    BY <1>2 DEF KnowledgeIndex, KnowledgeButtons
  <2>2. "on" \in Op \ {"load"} /\ <<i>> \in Seq(Id)
    BY DEF Op
  <2> QED BY <2>1, <2>2, CallsStep
<1>3. ASSUME NEW i \in Id, FinetuneCreate(c, i) PROVE ListInv'
  <2>1. page # "knowledge" /\ busy = None /\ Calls(c, "create", <<i>>, "creating")
    BY <1>3 DEF FinetuneCreate
  <2>2. "create" \in Op \ {"load"} /\ <<i>> \in Seq(Id) /\ "creating" # None
    BY ListAssumption DEF Op
  <2> QED BY <2>1, <2>2, CallsStep
<1>4. ASSUME NEW ids \in Seq(Id), DocumentsUpload(c, ids) PROVE ListInv'
  <2>1. page # "knowledge" /\ busy = None /\ Calls(c, "create", ids, "uploading")
    BY <1>4 DEF DocumentsUpload
  <2>2. "create" \in Op \ {"load"} /\ "uploading" # None
    BY ListAssumption DEF Op
  <2> QED BY <2>1, <2>2, CallsStep
<1>5. \A i, j \in Id : (IF i = j THEN <<i>> ELSE <<i, j>>) \in Seq(Id)
  OBVIOUS
<1> QED BY <1>1, <1>2, <1>3, <1>4, <1>5 DEF Handler, UsersCreate, UsersToggleActive, UsersRemove,
       PolicyCreate, PolicyToggle, PolicyRemove, MarketQuickInstall, MarketToggle,
       MarketUninstall, ConnectionsSave, ConnectionsDelete, ProvidersCreate, ProvidersRemove,
       TeamsCreate, TeamsDelete, DocumentsDelete, ApiClientSave, ApiClientDelete

LEMMA ListInvHolds == ListSpec => []ListInv
<1>1. ListInv /\ [ListNext]_listVars => ListInv'
  <2> SUFFICES ASSUME ListInv, [ListNext]_listVars PROVE ListInv'
    OBVIOUS
  <2>1. CASE UNCHANGED listVars
    BY <2>1 DEF listVars, ListInv, ListTypeOK, TaskSound, LoadsCurrent, Current, OneInv,
                Flagged, Alone
  <2> QED BY <2>1, HandlerStep, ServeStep, AnswerStep, RejectedStep, ReadStep, ShowStep
          DEF ListNext
<1> QED BY <1>1, InitListInv, PTL DEF ListSpec

\* The list of a page at rest is the API's, for any number of rows and handlers that
\* overlap, unless an older load came last or a change's answer or its load was lost
\* (load, and the handlers that await it).
THEOREM ListsSettleHolds == ListSpec => []ListsSettle
<1>1. ListInv => ListsSettle
  BY DEF ListInv, ListTypeOK, LoadsCurrent, Current, ListsSettle, Settled, AtRest
<1> QED BY <1>1, ListInvHolds, PTL

\* A handler behind a flag never runs twice at once, and a document is not indexed
\* twice at once unless another one is or was being indexed (upload, create, index).
THEOREM OneAtATimeHolds == ListSpec => []OneAtATime
<1>1. ListInv => OneAtATime
  <2> SUFFICES ASSUME ListInv, NEW c \in Click, NEW d \in Click, c # d, Busy(c), Busy(d)
               PROVE  page = "knowledge" /\ \E e \in Click : task[e].ids \notin {<<>>, task[c].ids}
    BY DEF OneAtATime
  <2>1. Flagged(c) /\ Flagged(d)
    BY DEF Busy, Flagged, AtRest, ListInv, ListTypeOK, Task
  <2> QED BY <2>1 DEF ListInv, OneInv, Alone
<1> QED BY <1>1, ListInvHolds, PTL

-----------------------------------------------------------------------------
(* Details.  The request sent last asks for what the heading says.            *)

Choice == Item \cup VClick \cup {Nil}
Busyness == {"get", "reopens", "reloads", "closes", "aside"}
ReqType == [at : Busyness \cup {"idle", "over"}, item : Choice, sel : Choice, n : Nat]

ViewTypeOK ==
  /\ view \in Views /\ req \in [VClick -> ReqType]
  /\ title \in Choice /\ body \in Choice /\ aside \in Choice /\ asked \in Choice
  /\ sent \in Nat /\ lastShown \in Nat /\ newestShown \in Nat /\ missed \in Nat
  /\ lastShown <= newestShown /\ newestShown <= sent /\ missed <= sent

\* What is under way on which page; the request sent last asks for what was asked
\* last, the API client has only one, and a file clicked in a settled list is of the
\* directory in the heading.
ReqSound(c) ==
  /\ req[c].at = "get" => /\ req[c].n <= sent
                          /\ req[c].n = sent => req[c].item = asked
                          /\ view = "apiclient" => asked = c /\ req[c].item = c /\ title = Nil
  /\ req[c].at \in {"reopens", "closes"} => view \in {"teams", "slack"}
  /\ req[c].at = "reloads" => view = "alerts"
  /\ req[c].at = "aside" => /\ view \in {"github", "apiclient"}
                            /\ req[c].item # Nil => req[c].sel = req[c].item

\* The request sent last is under way, was shown, or failed.
Latest == \/ sent = 0 \/ newestShown = sent \/ missed = sent
          \/ \E c \in VClick : req[c].at = "get" /\ req[c].n = sent

\* What it showed is still there, unless the heading was closed.
ScreenLatest == lastShown = sent => \/ body = asked \/ title = Nil
                                    \/ view \in Clears /\ missed = sent /\ body = Nil

AsideThere == aside # Nil => view \in {"github", "apiclient"}

ViewInv == /\ ViewTypeOK /\ Latest /\ ScreenLatest /\ AsideThere /\ AsksForTitle /\ AsideBelongs
           /\ \A c \in VClick : ReqSound(c)

LEMMA Fields ==
  ASSUME NEW r \in ReqType, NEW l \in Busyness \cup {"over"}, NEW k \in Choice, NEW t \in Choice
  PROVE  /\ [r EXCEPT !.at = l] = [at |-> l, item |-> r.item, sel |-> r.sel, n |-> r.n]
         /\ [r EXCEPT !.item = k] = [at |-> r.at, item |-> k, sel |-> r.sel, n |-> r.n]
         /\ [r EXCEPT !.sel = t] = [at |-> r.at, item |-> r.item, sel |-> t, n |-> r.n]
BY DEF ReqType, Busyness

\* What Posts puts down for a click.
ClickOn(l, k, t) == [Unclicked EXCEPT !.at = l, !.item = k, !.sel = t]

LEMMA Records ==
  ASSUME NEW l \in Busyness \cup {"over"}, NEW k \in Choice, NEW t \in Choice
  PROVE  /\ [Unclicked EXCEPT !.at = l] = [at |-> l, item |-> Nil, sel |-> Nil, n |-> 0]
         /\ ClickOn(l, k, t) = [at |-> l, item |-> k, sel |-> t, n |-> 0]
<1> DEFINE A == [at |-> l, item |-> Nil, sel |-> Nil, n |-> 0]
           B == [at |-> l, item |-> k, sel |-> Nil, n |-> 0]
<1>1. /\ Unclicked \in ReqType /\ Unclicked.item = Nil /\ Unclicked.sel = Nil
      /\ Unclicked.n = 0
  BY DEF Unclicked, ReqType, Choice
<1>2. [Unclicked EXCEPT !.at = l] = A
  BY <1>1, Fields
<1>3. A \in ReqType /\ A.at = l /\ A.item = Nil /\ A.sel = Nil /\ A.n = 0
  BY DEF ReqType, Choice
<1>4. B \in ReqType /\ B.at = l /\ B.item = k /\ B.sel = Nil /\ B.n = 0
  BY DEF ReqType, Choice
<1> HIDE DEF A, B
<1>5. [A EXCEPT !.item = k] = B
  BY <1>3, Fields DEF B
<1>6. [B EXCEPT !.sel = t] = [at |-> l, item |-> k, sel |-> t, n |-> 0]
  BY <1>4, Fields
<1>7. ClickOn(l, k, t) = [[[Unclicked EXCEPT !.at = l] EXCEPT !.item = k] EXCEPT !.sel = t]
  BY DEF ClickOn
<1> QED BY <1>2, <1>5, <1>6, <1>7 DEF A

LEMMA InitViewInv == ViewInit => ViewInv
<1> SUFFICES ASSUME ViewInit PROVE ViewInv
  OBVIOUS
<1>1. /\ view \in Views /\ title \in Choice /\ body = Nil /\ aside = Nil /\ asked = title
      /\ lastShown = 0 /\ newestShown = 0 /\ missed = 0
  BY DEF ViewInit, Choice
<1>2. Unclicked \in ReqType /\ Unclicked.at = "idle"
  BY DEF Unclicked, ReqType, Choice
<1>3. CASE view \in {"alerts", "dashboard"}
  <2>1. PICK m \in VClick, q \in ReqType :
          /\ q.at = "get" /\ q.item = title /\ q.n = 1
          /\ req = [c \in VClick |-> IF c = m THEN q ELSE Unclicked]
    <3>1. PICK m \in VClick : req = [c \in VClick |-> IF c = m THEN Get(title, title, 1) ELSE Unclicked]
      BY <1>3 DEF ViewInit
    <3>2. PICK q : q = Get(title, title, 1)
      OBVIOUS
    <3>3. q \in ReqType /\ q.at = "get" /\ q.item = title /\ q.n = 1
      BY <1>1, <3>2 DEF Get, ReqType, Busyness
    <3> QED BY <3>1, <3>2, <3>3
  <2>2. sent = 1 /\ req[m] = q /\ \A c \in VClick : c # m => req[c] = Unclicked
    BY <1>3, <2>1 DEF ViewInit
  <2>3. ViewTypeOK
    BY <1>1, <1>2, <2>1, <2>2 DEF ViewTypeOK, Choice
  <2>4. \A c \in VClick : ReqSound(c)
    BY <1>1, <1>2, <1>3, <2>1, <2>2 DEF ReqSound
  <2>5. Latest
    BY <2>1, <2>2 DEF Latest
  <2> QED BY <1>1, <2>2, <2>3, <2>4, <2>5 DEF ViewInv, ScreenLatest, AsideThere, AsksForTitle,
             AsideBelongs
<1>4. CASE view \notin {"alerts", "dashboard"}
  <2>1. title = Nil /\ sent = 0 /\ req = [c \in VClick |-> Unclicked]
    BY <1>4 DEF ViewInit
  <2>2. ViewTypeOK
    BY <1>1, <1>2, <2>1 DEF ViewTypeOK, Choice
  <2>3. \A c \in VClick : ReqSound(c)
    BY <1>2, <2>1 DEF ReqSound
  <2> QED BY <1>1, <2>1, <2>2, <2>3 DEF ViewInv, Latest, ScreenLatest, AsideThere, AsksForTitle,
             AsideBelongs
<1> QED BY <1>3, <1>4

\* A handler asks for a detail.
LEMMA OpensStep ==
  ASSUME ViewInv, NEW c \in VClick, NEW k \in Choice, Opens(c, k), req[c].at # "get",
         UNCHANGED <<view, lastShown, newestShown, missed, late>>,
         title' \in Choice, body' \in Choice, aside' \in Choice,
         title' # Nil /\ view # "alerts" => title' = k,
         aside' = Nil \/ (aside' = aside /\ view \notin {"github", "apiclient"}),
         view = "apiclient" => /\ k = c /\ title' = Nil
                               /\ \A d \in VClick : req[d].at # "get"
  PROVE  ViewInv'
<1> DEFINE q == [at |-> "get", item |-> k, sel |-> title, n |-> sent + 1]
<1>1. req' = [req EXCEPT ![c] = q] /\ sent' = sent + 1 /\ asked' = k
  BY DEF Opens, Get
<1>2. q \in ReqType /\ q.at = "get" /\ q.item = k /\ q.n = sent + 1
  BY DEF ViewInv, ViewTypeOK, ReqType, Busyness
<1> HIDE DEF q
<1>3. req'[c] = q /\ \A d \in VClick : d # c => req'[d] = req[d]
  BY <1>1 DEF ViewInv, ViewTypeOK
<1>4. ViewTypeOK'
  BY <1>1, <1>2 DEF ViewInv, ViewTypeOK
<1>5. ASSUME NEW d \in VClick PROVE ReqSound(d)'
  <2>1. CASE d = c
    BY <1>1, <1>2, <1>3, <2>1 DEF ReqSound, ViewInv, ViewTypeOK
  <2>2. CASE d # c
    <3>1. req'[d] = req[d] /\ ReqSound(d) /\ req[d].n \in Nat /\ sent \in Nat
      BY <1>3, <2>2 DEF ViewInv, ViewTypeOK, ReqType
    <3> QED BY <3>1, <1>1 DEF ReqSound
  <2> QED BY <2>1, <2>2
<1>6. Latest'
  BY <1>1, <1>2, <1>3 DEF Latest
<1>7. ScreenLatest'
  BY <1>1 DEF ScreenLatest, ViewInv, ViewTypeOK
<1>8. AsideThere' /\ AsideBelongs'
  BY DEF ViewInv, AsideThere, AsideBelongs
<1>9. AsksForTitle'
  BY <1>1 DEF AsksForTitle
<1> QED BY <1>4, <1>5, <1>6, <1>7, <1>8, <1>9 DEF ViewInv

\* A handler begins with another call, or ends; what is on the screen stays, or is
\* closed.
LEMMA CallStep ==
  ASSUME ViewInv, NEW c \in VClick, NEW l \in Busyness \cup {"over"}, NEW k \in Choice,
         NEW t \in Choice, l # "get", req[c].at # "get",
         req' = [req EXCEPT ![c] = [at |-> l, item |-> k, sel |-> t, n |-> 0]],
         l \in {"reopens", "closes"} => view \in {"teams", "slack"},
         l = "reloads" => view = "alerts",
         l = "aside" => view \in {"github", "apiclient"} /\ (k # Nil => t = k),
         UNCHANGED <<view, body, sent, asked, lastShown, newestShown, missed, late>>,
         title' = title \/ (title' = Nil /\ view \notin {"github", "apiclient"}),
         aside' \in {aside, Nil}
  PROVE  ViewInv'
<1> DEFINE q == [at |-> l, item |-> k, sel |-> t, n |-> 0]
<1>1. q \in ReqType /\ q.at = l /\ q.item = k /\ q.sel = t
  BY DEF ReqType
<1>2. req' = [req EXCEPT ![c] = q]
  OBVIOUS
<1> HIDE DEF q
<1>3. req'[c] = q /\ \A d \in VClick : d # c => req'[d] = req[d]
  BY <1>2 DEF ViewInv, ViewTypeOK
<1>4. ViewTypeOK'
  BY <1>1, <1>2 DEF ViewInv, ViewTypeOK, Choice
<1>5. ASSUME NEW d \in VClick PROVE ReqSound(d)'
  <2>1. CASE d = c
    BY <1>1, <1>3, <2>1 DEF ReqSound
  <2>2. CASE d # c
    BY <1>3, <2>2 DEF ReqSound, ViewInv
  <2> QED BY <2>1, <2>2
<1>6. Latest'
  BY <1>3 DEF Latest, ViewInv
<1>7. ScreenLatest' /\ AsideThere' /\ AsideBelongs' /\ AsksForTitle'
  BY DEF ViewInv, ScreenLatest, AsideThere, AsideBelongs, AsksForTitle
<1> QED BY <1>4, <1>5, <1>6, <1>7 DEF ViewInv

LEMMA PostsStep ==
  ASSUME ViewInv, NEW c \in VClick, NEW l \in Busyness, NEW k \in Choice, Posts(c, l, k),
         l \notin {"get", "aside"}, l \in {"reopens", "closes"} => view \in {"teams", "slack"},
         l = "reloads" => view = "alerts"
  PROVE  ViewInv'
<1>1. title \in Choice
  BY DEF ViewInv, ViewTypeOK
<1>2. req' = [req EXCEPT ![c] = [at |-> l, item |-> k, sel |-> title, n |-> 0]]
  <2>1. req' = [req EXCEPT ![c] = ClickOn(l, k, title)]
    BY DEF Posts, ClickOn
  <2>2. ClickOn(l, k, title) = [at |-> l, item |-> k, sel |-> title, n |-> 0]
    BY <1>1, Records
  <2> QED BY <2>1, <2>2
<1>3. /\ UNCHANGED <<view, body, sent, asked, lastShown, newestShown, missed, late>>
      /\ title' = title /\ aside' = aside /\ req[c].at = "idle"
  BY DEF Posts
<1> QED BY <1>1, <1>2, <1>3, CallStep

LEMMA EndsRecord ==
  ASSUME NEW c \in VClick, Ends(c)
  PROVE  req' = [req EXCEPT ![c] = [at |-> "over", item |-> Nil, sel |-> Nil, n |-> 0]]
BY Records DEF Ends, Choice

LEMMA EndStep ==
  ASSUME ViewInv, NEW c \in VClick, req[c].at # "get",
         req' = [req EXCEPT ![c] = [at |-> "over", item |-> Nil, sel |-> Nil, n |-> 0]],
         UNCHANGED <<view, body, sent, asked, lastShown, newestShown, missed, late>>,
         title' = title \/ (title' = Nil /\ view \notin {"github", "apiclient"}),
         aside' = aside
  PROVE  ViewInv'
<1>1. "over" \in Busyness \cup {"over"} /\ Nil \in Choice
  BY DEF Choice
<1> QED BY <1>1, CallStep

\* When the list has settled it is the heading's.
LEMMA UpToDateShown ==
  ASSUME ViewInv, UpToDate, view = "github", title # Nil PROVE body = title
<1>1. newestShown = sent \/ missed = sent \/ sent = 0
  BY DEF ViewInv, Latest, UpToDate
<1>2. lastShown = sent /\ asked = title
  BY <1>1 DEF ViewInv, ViewTypeOK, AsksForTitle, UpToDate
<1> QED BY <1>2 DEF ViewInv, ScreenLatest, Clears

LEMMA OpenFileStep == ASSUME ViewInv, NEW c \in VClick, GithubOpenFile(c) PROVE ViewInv'
<1>1. PICK k \in Choice, t \in Choice : k = (IF UpToDate THEN title ELSE Nil) /\ t = body
  BY DEF ViewInv, ViewTypeOK, Choice
<1>2. k # Nil => t = k
  BY <1>1, UpToDateShown DEF GithubOpenFile
<1>3. req' = [req EXCEPT ![c] = ClickOn("aside", k, t)]
  BY <1>1 DEF GithubOpenFile, ClickOn
<1>4. ClickOn("aside", k, t) = [at |-> "aside", item |-> k, sel |-> t, n |-> 0]
  BY Records DEF Busyness
<1>5. /\ UNCHANGED <<view, body, sent, asked, lastShown, newestShown, missed, late>>
      /\ title' = title /\ aside' = aside /\ req[c].at = "idle" /\ view = "github"
  BY DEF GithubOpenFile
<1>6. req' = [req EXCEPT ![c] = [at |-> "aside", item |-> k, sel |-> t, n |-> 0]]
  BY <1>3, <1>4
<1>7. "aside" \in Busyness \cup {"over"}
  BY DEF Busyness
<1> QED BY <1>2, <1>5, <1>6, <1>7, CallStep

LEMMA ClickedStep == ASSUME ViewInv, NEW c \in VClick, Clicked(c) PROVE ViewInv'
<1>0. /\ title \in Choice /\ body \in Choice /\ aside \in Choice /\ Nil \in Choice /\ c \in Choice
      /\ AsideThere
  BY DEF ViewInv, ViewTypeOK, Choice
<1>1. ASSUME NEW k \in Item,
             \/ ConversationsOpen(c, k) \/ TeamsOpen(c, k) \/ SlackOpenChannel(c, k)
             \/ SentryOpenProject(c, k) \/ SentryExplain(c, k) \/ GithubOpenRepo(c, k)
             \/ AlertsFilter(c, k) \/ DashboardDays(c, k) \/ KnowledgeAsk(c, k)
      PROVE  ViewInv'
  <2>1. /\ Opens(c, k) /\ title' = k /\ req[c].at # "get"
        /\ UNCHANGED <<view, lastShown, newestShown, missed, late>>
        /\ body' \in {body, Nil} /\ view # "apiclient"
        /\ aside' = Nil \/ (aside' = aside /\ view # "github")
    BY <1>1 DEF ConversationsOpen, TeamsOpen, SlackOpenChannel, SentryOpenProject,
       SentryExplain, GithubOpenRepo, AlertsFilter, DashboardDays, KnowledgeAsk, Chooses
  <2>2. k \in Choice
    BY DEF Choice
  <2> QED BY <1>0, <2>1, <2>2, OpensStep
<1>2. ASSUME NEW k \in Item, TeamsDelTeam(c, k) \/ SlackUnfollow(c, k) PROVE ViewInv'
  BY <1>2, PostsStep DEF TeamsDelTeam, SlackUnfollow, Choice, Busyness
<1>3. ASSUME TeamsMember(c) \/ SlackSend(c) PROVE ViewInv'
  BY <1>0, <1>3, PostsStep DEF TeamsMember, SlackSend, Busyness
<1>4. ASSUME GithubOpenFile(c) PROVE ViewInv'
  BY <1>4, OpenFileStep
<1>5. ASSUME AlertsResolve(c) PROVE ViewInv'
  BY <1>0, <1>5, PostsStep DEF AlertsResolve, Busyness
<1>6. ASSUME ApiClientSend(c) PROVE ViewInv'
  BY <1>0, <1>6, OpensStep DEF ApiClientSend
<1>7. ASSUME ApiClientExplain(c) PROVE ViewInv'
  <2>1. req' = [req EXCEPT ![c] = [at |-> "aside", item |-> title, sel |-> title, n |-> 0]]
    <3>1. req' = [req EXCEPT ![c] = ClickOn("aside", title, title)]
      BY <1>7 DEF ApiClientExplain, ClickOn
    <3>2. ClickOn("aside", title, title) = [at |-> "aside", item |-> title, sel |-> title, n |-> 0]
      BY <1>0, Records DEF Busyness
    <3> QED BY <3>1, <3>2
  <2>2. /\ UNCHANGED <<view, body, sent, asked, lastShown, newestShown, missed, late>>
        /\ title' = title /\ aside' = Nil /\ req[c].at = "idle" /\ view = "apiclient"
    BY <1>7 DEF ApiClientExplain
  <2> QED BY <1>0, <2>1, <2>2, CallStep DEF Busyness
<1> QED BY <1>1, <1>2, <1>3, <1>4, <1>5, <1>6, <1>7 DEF Clicked

LEMMA ArrivesStep == ASSUME ViewInv, NEW c \in VClick, DetailArrives(c) PROVE ViewInv'
<1> DEFINE q == [at |-> "over", item |-> Nil, sel |-> Nil, n |-> 0]
<1>1. /\ req' = [req EXCEPT ![c] = q] /\ req[c].at = "get" /\ body' = req[c].item
      /\ title' = IF view = "apiclient" THEN req[c].item ELSE title
      /\ lastShown' = req[c].n /\ newestShown' = Max({newestShown, req[c].n})
      /\ UNCHANGED <<view, aside, sent, asked, missed, late>>
  BY EndsRecord DEF DetailArrives
<1>2. q \in ReqType /\ q.at = "over"
  BY DEF ReqType, Choice
<1> HIDE DEF q
<1>3. req'[c] = q /\ \A d \in VClick : d # c => req'[d] = req[d]
  BY <1>1 DEF ViewInv, ViewTypeOK
<1>4. req[c] \in ReqType /\ req[c].n \in Nat /\ req[c].item \in Choice /\ ReqSound(c)
  BY DEF ViewInv, ViewTypeOK, ReqType
<1>5. /\ newestShown' \in Nat /\ newestShown' >= newestShown /\ newestShown' >= req[c].n
      /\ newestShown' \in {newestShown, req[c].n}
  BY <1>1, <1>4, MaxOfTwo DEF ViewInv, ViewTypeOK
<1>6. ViewTypeOK'
  BY <1>1, <1>2, <1>4, <1>5 DEF ViewInv, ViewTypeOK, ReqSound
<1>7. ASSUME NEW d \in VClick PROVE ReqSound(d)'
  <2>1. CASE d = c
    BY <1>2, <1>3, <2>1 DEF ReqSound
  <2>2. CASE d # c
    <3>1. ~(view = "apiclient" /\ req[d].at = "get")
      BY <1>1, <1>4, <2>2 DEF ReqSound, ViewInv
    <3> QED BY <1>1, <1>3, <2>2, <3>1 DEF ReqSound, ViewInv
  <2> QED BY <2>1, <2>2
<1>8. Latest'
  BY <1>1, <1>3, <1>4, <1>5, <1>6 DEF Latest, ViewInv, ViewTypeOK
<1>9. ScreenLatest'
  BY <1>1, <1>4 DEF ScreenLatest, ReqSound
<1>10. AsideThere' /\ AsideBelongs' /\ AsksForTitle'
  BY <1>1, <1>4 DEF AsideThere, AsideBelongs, AsksForTitle, ReqSound, ViewInv
<1> QED BY <1>6, <1>7, <1>8, <1>9, <1>10 DEF ViewInv

LEMMA FailsStep == ASSUME ViewInv, NEW c \in VClick, DetailFails(c) PROVE ViewInv'
<1> DEFINE q == [at |-> "over", item |-> Nil, sel |-> Nil, n |-> 0]
<1>1. /\ req' = [req EXCEPT ![c] = q] /\ req[c].at = "get"
      /\ missed' = Max({missed, req[c].n})
      /\ IF view \in Clears
           THEN /\ body' = Nil /\ lastShown' = req[c].n
                /\ newestShown' = Max({newestShown, req[c].n})
           ELSE UNCHANGED <<body, lastShown, newestShown>>
      /\ UNCHANGED <<view, title, aside, sent, asked, late>>
  BY EndsRecord DEF DetailFails
<1>2. q \in ReqType /\ q.at = "over"
  BY DEF ReqType, Choice
<1> HIDE DEF q
<1>3. req'[c] = q /\ \A d \in VClick : d # c => req'[d] = req[d]
  BY <1>1 DEF ViewInv, ViewTypeOK
<1>4. req[c] \in ReqType /\ req[c].n \in Nat /\ req[c].item \in Choice /\ ReqSound(c)
  BY DEF ViewInv, ViewTypeOK, ReqType
<1>5. /\ newestShown' \in Nat /\ newestShown' >= newestShown
      /\ newestShown' \in {newestShown, req[c].n}
      /\ view \in Clears => newestShown' >= req[c].n
  BY <1>1, <1>4, MaxOfTwo DEF ViewInv, ViewTypeOK
<1>6. missed' \in Nat /\ missed' >= missed /\ missed' >= req[c].n /\ missed' \in {missed, req[c].n}
  BY <1>1, <1>4, MaxOfTwo DEF ViewInv, ViewTypeOK
<1>7. ViewTypeOK'
  BY <1>1, <1>2, <1>4, <1>5, <1>6 DEF ViewInv, ViewTypeOK, ReqSound, Choice
<1>8. ASSUME NEW d \in VClick PROVE ReqSound(d)'
  <2>1. CASE d = c
    BY <1>2, <1>3, <2>1 DEF ReqSound
  <2>2. CASE d # c
    BY <1>1, <1>3, <2>2 DEF ReqSound, ViewInv
  <2> QED BY <2>1, <2>2
<1>9. Latest'
  BY <1>1, <1>3, <1>4, <1>5, <1>6, <1>7 DEF Latest, ViewInv, ViewTypeOK
<1>10. ScreenLatest'
  BY <1>1, <1>4, <1>6, <1>7 DEF ScreenLatest, ReqSound, ViewInv, ViewTypeOK
<1>11. AsideThere' /\ AsideBelongs' /\ AsksForTitle'
  BY <1>1 DEF AsideThere, AsideBelongs, AsksForTitle, ViewInv
<1> QED BY <1>7, <1>8, <1>9, <1>10, <1>11 DEF ViewInv

LEMMA AsideStep == ASSUME ViewInv, NEW c \in VClick, AsideArrives(c) PROVE ViewInv'
<1> DEFINE q == [at |-> "over", item |-> Nil, sel |-> Nil, n |-> 0]
<1>1. /\ req' = [req EXCEPT ![c] = q] /\ req[c].at = "aside" /\ aside' = req[c].sel
      /\ UNCHANGED <<view, title, body, sent, asked, lastShown, newestShown, missed>>
  BY EndsRecord DEF AsideArrives
<1>2. q \in ReqType /\ q.at = "over"
  BY DEF ReqType, Choice
<1>3. late' = ~(title # Nil /\ req[c].item = title)
  BY DEF AsideArrives
<1> HIDE DEF q
<1>4. req'[c] = q /\ \A d \in VClick : d # c => req'[d] = req[d]
  BY <1>1 DEF ViewInv, ViewTypeOK
<1>5. ViewTypeOK'
  BY <1>1, <1>2 DEF ViewInv, ViewTypeOK, ReqType
<1>6. ASSUME NEW d \in VClick PROVE ReqSound(d)'
  <2>1. CASE d = c
    BY <1>2, <1>4, <2>1 DEF ReqSound
  <2>2. CASE d # c
    BY <1>1, <1>4, <2>2 DEF ReqSound, ViewInv
  <2> QED BY <2>1, <2>2
<1>7. Latest'
  BY <1>1, <1>4 DEF Latest, ViewInv
<1>8. ScreenLatest' /\ AsksForTitle'
  BY <1>1 DEF ScreenLatest, AsksForTitle, ViewInv
<1>9. AsideThere'
  BY <1>1 DEF AsideThere, ReqSound, ViewInv
<1>10. AsideBelongs'
  <2>1. ReqSound(c) /\ (~late' => title # Nil /\ req[c].item = title)
    BY <1>3 DEF ViewInv
  <2> QED BY <1>1, <2>1 DEF AsideBelongs, ReqSound
<1> QED BY <1>5, <1>6, <1>7, <1>8, <1>9, <1>10 DEF ViewInv

LEMMA ResumedStep == ASSUME ViewInv, NEW c \in VClick, Resumed(c) PROVE ViewInv'
<1>0. /\ title \in Choice /\ body \in Choice /\ aside \in Choice /\ Nil \in Choice
      /\ req[c].sel \in Choice /\ ReqSound(c) /\ AsideThere
  BY DEF ViewInv, ViewTypeOK, ReqType, Choice
<1>1. CASE Reopens(c)
  BY <1>0, <1>1, OpensStep DEF Reopens, ReqSound
<1>2. CASE Reloads(c)
  BY <1>0, <1>2, OpensStep DEF Reloads, ReqSound
<1>3. CASE Closes(c)
  <2>1. /\ UNCHANGED <<view, body, sent, asked, lastShown, newestShown, missed, late>>
        /\ title' \in {title, Nil} /\ aside' = aside /\ req[c].at = "closes"
    BY <1>3 DEF Closes
  <2>2. req' = [req EXCEPT ![c] = [at |-> "over", item |-> Nil, sel |-> Nil, n |-> 0]]
    BY <1>3, EndsRecord DEF Closes
  <2>3. view \in {"teams", "slack"}
    BY <1>0, <2>1 DEF ReqSound
  <2> QED BY <1>0, <2>1, <2>2, <2>3, EndStep
<1>4. CASE PostFails(c)
  <2>1. /\ UNCHANGED <<view, body, sent, asked, lastShown, newestShown, missed, late>>
        /\ title' = title /\ aside' = aside /\ req[c].at # "get"
    BY <1>4 DEF PostFails
  <2>2. req' = [req EXCEPT ![c] = [at |-> "over", item |-> Nil, sel |-> Nil, n |-> 0]]
    BY <1>4, EndsRecord DEF PostFails
  <2> QED BY <2>1, <2>2, EndStep
<1> QED BY <1>1, <1>2, <1>3, <1>4, ArrivesStep, FailsStep, AsideStep DEF Resumed

LEMMA ClosingStep ==
  ASSUME ViewInv, TeamsClose \/ SentryClose \/ GithubCloseFile \/ ApiClientLoad
  PROVE  ViewInv'
<1>1. /\ UNCHANGED <<view, req, sent, asked, lastShown, newestShown, missed, late>>
      /\ title' \in {title, Nil} /\ (body' = body \/ (body' = Nil /\ title' = Nil))
      /\ aside' \in {aside, Nil} /\ (aside' = Nil \/ title' = title)
  BY DEF TeamsClose, SentryClose, GithubCloseFile, ApiClientLoad, ViewInv, AsideThere
<1>2. ViewTypeOK'
  BY <1>1 DEF ViewInv, ViewTypeOK, Choice
<1>3. \A c \in VClick : ReqSound(c)'
  BY <1>1 DEF ViewInv, ReqSound
<1>4. Latest' /\ ScreenLatest' /\ AsideThere' /\ AsksForTitle' /\ AsideBelongs'
  BY <1>1 DEF ViewInv, Latest, ScreenLatest, AsideThere, AsksForTitle, AsideBelongs
<1> QED BY <1>2, <1>3, <1>4 DEF ViewInv

LEMMA ViewInvSound == ViewInv => ViewsAgree
<1> SUFFICES ASSUME ViewInv PROVE DetailBelongs
  BY DEF ViewInv, ViewsAgree
<1> SUFFICES ASSUME title # Nil, asked = title, lastShown = newestShown,
                    \A c \in VClick : req[c].at \in {"idle", "over"}
             PROVE  \/ body = title \/ missed > lastShown
                    \/ view \in Clears /\ missed = lastShown /\ body = Nil
  BY DEF DetailBelongs
<1>1. newestShown = sent \/ missed = sent
  BY DEF ViewInv, ViewTypeOK, Latest
<1> QED BY <1>1 DEF ViewInv, ViewTypeOK, ScreenLatest

\* The detail on the screen is of the heading over it, and a file or explanation is
\* of the directory or response under it, on every detail page, however many
\* requests overlap and in whatever order they are answered, unless the latest one
\* failed, the aside was still being fetched, or it was clicked in a list that had
\* not settled (load, openTeam, openRepo, openEntry, send).
THEOREM ViewsAgreeHolds == ViewSpec => []ViewsAgree
<1>1. ViewInv /\ [ViewNext]_viewVars => ViewInv'
  <2> SUFFICES ASSUME ViewInv, [ViewNext]_viewVars PROVE ViewInv'
    OBVIOUS
  <2>1. CASE UNCHANGED viewVars
    BY <2>1 DEF viewVars, ViewInv, ViewTypeOK, Latest, ScreenLatest, AsideThere, AsksForTitle,
                AsideBelongs, ReqSound
  <2> QED BY <2>1, ClickedStep, ResumedStep, ClosingStep DEF ViewNext
<1> QED BY <1>1, InitViewInv, ViewInvSound, PTL DEF ViewSpec

-----------------------------------------------------------------------------
(* Previews.  A URL is made by one click and revoked by one; a deletion knows *)
(* the preview that was on the screen when it was clicked.                    *)

PreviewType == [doc : Doc \cup {NoDoc}, url : PClick \cup {NoDoc}, late : BOOLEAN]
ActType == [at : {"idle", "fetch", "blob", "over", "delete", "deleted", "failed"},
            doc : Doc \cup {NoDoc}, prev : PreviewType]

PreviewTypeOK ==
  /\ docs \subseteq Doc /\ doomed \subseteq Doc /\ Doc \ docs \subseteq doomed
  /\ preview \in PreviewType /\ urls \subseteq PClick
  /\ act \in [PClick -> ActType]

\* A preview that is shown, or was when a deletion was clicked, has its URL from a
\* click that is over.
Owned(p) == p # NoPreview => p.doc \in Doc /\ p.url \in PClick /\ act[p.url].at = "over"

\* A deletion that a timely preview of its document survives so far saw that preview.
ClickSound(c) ==
  /\ act[c].at = "blob" => c \in urls
  /\ act[c].at \in {"fetch", "blob", "delete", "deleted"} => act[c].doc \in Doc
  /\ act[c].at \in {"delete", "deleted"} =>
       /\ act[c].doc \in doomed /\ Owned(act[c].prev)
       /\ preview.doc = act[c].doc /\ ~preview.late => act[c].prev.doc = act[c].doc

\* The document of a timely preview is there, or its deletion is not finished.
DocThere ==
  preview # NoPreview =>
    \/ preview.doc \in docs \/ preview.late
    \/ \E c \in PClick : \/ act[c].at = "failed"
                         \/ act[c].at = "deleted" /\ act[c].doc = preview.doc

PreviewInv ==
  /\ PreviewTypeOK /\ Owned(preview) /\ DocThere
  /\ preview # NoPreview => preview.url \in urls
  /\ \A c \in PClick : ClickSound(c)

Over(l) == [at |-> l, doc |-> NoDoc, prev |-> NoPreview]

LEMMA NoPreviewType == NoPreview \in PreviewType /\ NoPreview.doc = NoDoc /\ NoPreview.doc \notin Doc
BY PreviewAssumption DEF NoPreview, PreviewType

LEMMA OverRecords ==
  ASSUME NEW l \in {"over", "failed", "fetch"}, NEW d \in Doc
  PROVE  /\ [Unstarted EXCEPT !.at = l] = Over(l) /\ Over(l) \in ActType /\ Over(l).at = l
         /\ [Unstarted EXCEPT !.at = l, !.doc = d] = [at |-> l, doc |-> d, prev |-> NoPreview]
<1>1. [Unstarted EXCEPT !.at = l] = Over(l) /\ Over(l) \in ActType /\ Over(l).at = l
  BY NoPreviewType DEF Unstarted, Over, ActType
<1>2. [Unstarted EXCEPT !.at = l, !.doc = d] = [[Unstarted EXCEPT !.at = l] EXCEPT !.doc = d]
  OBVIOUS
<1>3. [Over(l) EXCEPT !.doc = d] = [at |-> l, doc |-> d, prev |-> NoPreview]
  BY DEF Over
<1> QED BY <1>1, <1>2, <1>3

LEMMA InitPreviewInv == PreviewInit => PreviewInv
<1> SUFFICES ASSUME PreviewInit PROVE PreviewInv
  OBVIOUS
<1>1. Unstarted \in ActType /\ Unstarted.at = "idle"
  BY NoPreviewType DEF Unstarted, ActType
<1>2. PreviewTypeOK
  BY <1>1, NoPreviewType DEF PreviewInit, PreviewTypeOK
<1> QED BY <1>1, <1>2 DEF PreviewInit, PreviewInv, Owned, DocThere, ClickSound

\* A click goes on to q, and the preview stays: it does not leave "over", a failed
\* one stays failed, and a finished deletion fails.
LEMMA ClickStep ==
  ASSUME PreviewInv, NEW c \in PClick, NEW q \in ActType, act' = [act EXCEPT ![c] = q],
         act[c].at \notin {"over", "failed"}, preview' = preview,
         act[c].at = "deleted" => q.at = "failed",
         doomed \subseteq doomed', doomed' \subseteq Doc, docs' \subseteq docs,
         docs' = docs \/ (q.at = "deleted" /\ docs' = docs \ {q.doc}),
         urls \subseteq urls', urls' \subseteq PClick,
         q.at = "blob" => c \in urls',
         q.at \in {"fetch", "blob", "delete", "deleted"} => q.doc \in Doc,
         q.at \in {"delete", "deleted"} =>
            /\ q.doc \in doomed' /\ Owned(q.prev)
            /\ preview.doc = q.doc /\ ~preview.late => q.prev.doc = q.doc
  PROVE  PreviewInv'
<1>1. /\ PreviewTypeOK /\ Owned(preview) /\ DocThere /\ (preview # NoPreview => preview.url \in urls)
      /\ (\A x \in PClick : ClickSound(x)) /\ act \in [PClick -> ActType]
  BY DEF PreviewInv, PreviewTypeOK
<1>2. act' \in [PClick -> ActType] /\ act'[c] = q /\ \A x \in PClick : x # c => act'[x] = act[x]
  BY <1>1
<1>3. PreviewTypeOK'
  <2>1. Doc \ docs' \subseteq doomed'
    BY <1>1 DEF PreviewTypeOK
  <2> QED BY <1>1, <1>2, <2>1 DEF PreviewTypeOK
<1>4. ASSUME NEW p, Owned(p) PROVE p # NoPreview => p.doc \in Doc /\ p.url \in PClick /\ act'[p.url].at = "over"
  BY <1>2, <1>4 DEF Owned
<1>5. Owned(preview)' /\ (preview # NoPreview => preview.url \in urls)'
  BY <1>1, <1>4 DEF Owned
<1>6. DocThere'
  <2>1. SUFFICES ASSUME preview # NoPreview, ~preview.late, preview.doc \notin docs'
                 PROVE  DocThere'
    BY DEF DocThere
  <2>2. CASE preview.doc \in docs
    BY <1>2, <2>1, <2>2 DEF DocThere
  <2>3. CASE preview.doc \notin docs
    <3>1. PICK x \in PClick : \/ act[x].at = "failed"
                              \/ act[x].at = "deleted" /\ act[x].doc = preview.doc
      BY <1>1, <2>1, <2>3 DEF DocThere
    <3> QED BY <1>2, <3>1 DEF DocThere
  <2> QED BY <2>2, <2>3
<1>7. ASSUME NEW x \in PClick PROVE ClickSound(x)'
  <2>1. CASE x = c
    BY <1>2, <1>4, <2>1 DEF ClickSound, Owned
  <2>2. CASE x # c
    <3>1. act'[x] = act[x] /\ ClickSound(x)
      BY <1>1, <1>2, <2>2
    <3> QED BY <1>4, <3>1 DEF ClickSound, Owned
  <2> QED BY <2>1, <2>2
<1> QED BY <1>3, <1>5, <1>6, <1>7 DEF PreviewInv

\* The preview is closed, with a URL that some click left behind.
LEMMA CloseStep ==
  ASSUME PreviewInv, NEW p, p # NoPreview, Owned(p), closePreview(p),
         UNCHANGED <<docs, doomed>>, act' \in [PClick -> ActType],
         \A x \in PClick : act'[x] = act[x] \/ act'[x].at = "over"
  PROVE  PreviewInv'
<1>1. /\ PreviewTypeOK /\ (\A x \in PClick : ClickSound(x)) /\ urls' = urls \ {p.url}
      /\ preview' = NoPreview /\ docs' = docs /\ doomed' = doomed
  BY DEF PreviewInv, closePreview
<1>2. PreviewTypeOK'
  BY <1>1, NoPreviewType DEF PreviewTypeOK
<1>3. \A x \in PClick : act[x].at = "over" => act'[x].at = "over"
  OBVIOUS
<1>4. ASSUME NEW x \in PClick PROVE ClickSound(x)'
  <2>1. CASE act'[x].at = "over"
    BY <2>1 DEF ClickSound
  <2>2. CASE act'[x].at # "over"
    <3>1. act'[x] = act[x] /\ ClickSound(x) /\ x # p.url
      BY <1>1, <1>3, <2>2 DEF Owned
    <3>2. act[x].at \in {"delete", "deleted"} => Owned(act[x].prev)'
      BY <1>1, <1>3, <3>1 DEF ClickSound, Owned
    <3> QED BY <1>1, <3>1, <3>2, NoPreviewType DEF ClickSound, Owned
  <2> QED BY <2>1, <2>2
<1> QED BY <1>1, <1>2, <1>4 DEF PreviewInv, Owned, DocThere

LEMMA DeletedStep ==
  ASSUME PreviewInv, NEW c \in PClick, Deleted(c) PROVE PreviewInv'
<1> DEFINE q == Over("over")
<1>1. /\ act \in [PClick -> ActType] /\ ClickSound(c) /\ act[c].at = "deleted"
      /\ docs' = docs /\ doomed' = doomed
      /\ act' = [act EXCEPT ![c] = [Unstarted EXCEPT !.at = "over"]]
  BY DEF PreviewInv, PreviewTypeOK, Deleted
<1>2. Doc # {} /\ act[c].doc \in Doc /\ Owned(act[c].prev)
  BY <1>1 DEF ClickSound
<1>3. act' = [act EXCEPT ![c] = q] /\ q \in ActType /\ q.at = "over"
  BY <1>1, <1>2, OverRecords
<1> HIDE DEF q
<1>4. act' \in [PClick -> ActType] /\ act'[c] = q /\ \A x \in PClick : x # c => act'[x] = act[x]
  BY <1>1, <1>3
<1>5. CASE act[c].prev.doc = act[c].doc
  <2>1. closePreview(act[c].prev)
    BY <1>5 DEF Deleted
  <2>2. act[c].prev # NoPreview
    BY <1>2, <1>5, NoPreviewType
  <2> QED BY <1>1, <1>2, <1>3, <1>4, <2>1, <2>2, CloseStep
<1>6. CASE act[c].prev.doc # act[c].doc
  <2>1. preview' = preview /\ urls' = urls
    BY <1>6 DEF Deleted
  <2>2. /\ PreviewTypeOK /\ Owned(preview) /\ DocThere /\ (preview # NoPreview => preview.url \in urls)
        /\ (\A x \in PClick : ClickSound(x))
    BY DEF PreviewInv
  <2>3. PreviewTypeOK'
    BY <1>1, <1>4, <2>1, <2>2 DEF PreviewTypeOK
  <2>4. \A x \in PClick : act[x].at = "over" => act'[x].at = "over"
    BY <1>3, <1>4
  <2>5. Owned(preview)'
    BY <2>1, <2>2, <2>4 DEF Owned
  <2>6. DocThere'
    <3>1. SUFFICES ASSUME preview # NoPreview, ~preview.late, preview.doc \notin docs
                   PROVE  DocThere'
      BY <1>1, <2>1 DEF DocThere
    <3>2. preview.doc # act[c].doc
      BY <1>1, <1>6, <3>1 DEF ClickSound
    <3>3. PICK x \in PClick : \/ act[x].at = "failed"
                              \/ act[x].at = "deleted" /\ act[x].doc = preview.doc
      BY <2>2, <3>1 DEF DocThere
    <3>4. x # c
      BY <1>1, <3>2, <3>3
    <3> QED BY <1>4, <2>1, <3>3, <3>4 DEF DocThere
  <2>7. ASSUME NEW x \in PClick PROVE ClickSound(x)'
    <3>1. CASE x = c
      BY <1>3, <1>4, <3>1 DEF ClickSound
    <3>2. CASE x # c
      <4>1. act'[x] = act[x] /\ ClickSound(x)
        BY <1>4, <2>2, <3>2
      <4>2. act[x].at \in {"delete", "deleted"} => Owned(act[x].prev)'
        BY <2>4, <4>1 DEF ClickSound, Owned
      <4> QED BY <1>1, <2>1, <4>1, <4>2 DEF ClickSound, Owned
    <3> QED BY <3>1, <3>2
  <2> QED BY <2>1, <2>2, <2>3, <2>5, <2>6, <2>7 DEF PreviewInv
<1> QED BY <1>5, <1>6

LEMMA SetPreviewStep ==
  ASSUME PreviewInv, NEW c \in PClick, setPreview(c) PROVE PreviewInv'
<1> DEFINE q == Over("over")
           gone == act[c].doc \in doomed
           p == [doc |-> act[c].doc, url |-> c, late |-> gone]
<1>1. /\ act \in [PClick -> ActType] /\ ClickSound(c) /\ act[c].at = "blob" /\ PreviewTypeOK
      /\ docs' = docs /\ doomed' = doomed /\ urls' = urls /\ preview' = p
      /\ act' = [act EXCEPT ![c] = [Unstarted EXCEPT !.at = "over"]]
      /\ \A x \in PClick : ClickSound(x)
  BY DEF PreviewInv, PreviewTypeOK, setPreview
<1>2. act[c].doc \in Doc /\ c \in urls
  BY <1>1 DEF ClickSound
<1>3. act' = [act EXCEPT ![c] = q] /\ q \in ActType /\ q.at = "over"
  BY <1>1, <1>2, OverRecords
<1> HIDE DEF q
<1>4. act' \in [PClick -> ActType] /\ act'[c] = q /\ \A x \in PClick : x # c => act'[x] = act[x]
  BY <1>1, <1>3
<1>5. gone \in BOOLEAN
  OBVIOUS
<1>6. p \in PreviewType /\ p.doc = act[c].doc /\ p.url = c /\ p # NoPreview
  <2> HIDE DEF gone
  <2>1. p \in PreviewType /\ p.doc = act[c].doc /\ p.url = c
    BY <1>2, <1>5 DEF PreviewType
  <2> QED BY <1>2, <2>1, NoPreviewType
<1>7. p.late <=> act[c].doc \in doomed
  OBVIOUS
<1> HIDE DEF p
<1>8. PreviewTypeOK'
  BY <1>1, <1>4, <1>6 DEF PreviewTypeOK
<1>9. Owned(preview)' /\ (preview # NoPreview => preview.url \in urls)'
  BY <1>1, <1>2, <1>3, <1>4, <1>6 DEF Owned
<1>10. DocThere'
  BY <1>1, <1>2, <1>6, <1>7 DEF DocThere, PreviewTypeOK
<1>11. ASSUME NEW x \in PClick PROVE ClickSound(x)'
  <2>1. CASE x = c
    BY <1>3, <1>4, <2>1 DEF ClickSound
  <2>2. CASE x # c
    <3>1. act'[x] = act[x] /\ ClickSound(x)
      BY <1>1, <1>4, <2>2
    <3>2. act[x].at \in {"delete", "deleted"} => Owned(act[x].prev)'
      BY <1>3, <1>4, <3>1 DEF ClickSound, Owned
    <3> QED BY <1>1, <1>6, <1>7, <3>1, <3>2 DEF ClickSound
  <2> QED BY <2>1, <2>2
<1> QED BY <1>8, <1>9, <1>10, <1>11 DEF PreviewInv

LEMMA ClickSteps ==
  ASSUME PreviewInv, NEW c \in PClick,
         \/ \E d \in Doc : openPreview(c, d) \/ del(c, d)
         \/ authedBlobUrl(c) \/ openFails(c) \/ Delete(c) \/ DelFails(c)
  PROVE  PreviewInv'
<1>1. /\ act \in [PClick -> ActType] /\ act[c] \in ActType /\ ClickSound(c) /\ PreviewTypeOK
      /\ preview \in PreviewType /\ Owned(preview) /\ preview' = preview
  BY DEF PreviewInv, PreviewTypeOK, openPreview, del, authedBlobUrl, openFails, Delete, DelFails
<1>2. ASSUME NEW d \in Doc, openPreview(c, d) PROVE PreviewInv'
  <2> DEFINE q == [at |-> "fetch", doc |-> d, prev |-> NoPreview]
  <2>1. act' = [act EXCEPT ![c] = q] /\ act[c].at = "idle" /\ docs' = docs /\ urls' = urls
        /\ doomed' = doomed
    BY <1>2, OverRecords DEF openPreview
  <2>2. q \in ActType /\ q.at = "fetch" /\ q.doc = d
    BY NoPreviewType DEF ActType
  <2> HIDE DEF q
  <2> QED BY <1>1, <2>1, <2>2, ClickStep DEF PreviewTypeOK
<1>3. ASSUME NEW d \in Doc, del(c, d) PROVE PreviewInv'
  <2> DEFINE q == [at |-> "delete", doc |-> d, prev |-> preview]
  <2>1. act' = [act EXCEPT ![c] = q] /\ act[c].at = "idle" /\ docs' = docs /\ urls' = urls
        /\ doomed' = doomed \cup {d}
    BY <1>3 DEF del
  <2>2. q \in ActType /\ q.at = "delete" /\ q.doc = d /\ q.prev = preview
    BY <1>1 DEF ActType
  <2> HIDE DEF q
  <2>3. docs' \subseteq docs /\ doomed' \subseteq Doc /\ urls' \subseteq PClick
    BY <1>1, <2>1 DEF PreviewTypeOK
  <2> QED BY <1>1, <2>1, <2>2, <2>3, ClickStep
<1>4. CASE authedBlobUrl(c)
  <2> DEFINE q == [at |-> "blob", doc |-> act[c].doc, prev |-> act[c].prev]
  <2>1. act' = [act EXCEPT ![c].at = "blob"] /\ act[c].at = "fetch" /\ docs' = docs
        /\ urls' = urls \cup {c} /\ doomed' = doomed
    BY <1>4 DEF authedBlobUrl
  <2>2. [act[c] EXCEPT !.at = "blob"] = q /\ q \in ActType /\ q.at = "blob" /\ q.doc = act[c].doc
    BY <1>1 DEF ActType
  <2> HIDE DEF q
  <2>3. act' = [act EXCEPT ![c] = q] /\ act[c].doc \in Doc
    BY <1>1, <2>1, <2>2 DEF ClickSound
  <2> QED BY <1>1, <2>1, <2>2, <2>3, ClickStep DEF PreviewTypeOK
<1>5. CASE openFails(c) \/ DelFails(c)
  <2>1. /\ act[c].at \in {"fetch", "blob", "delete", "deleted"} /\ docs' = docs /\ urls' = urls
        /\ doomed' = doomed
    BY <1>5 DEF openFails, DelFails
  <2>2. PICK l \in {"over", "failed"} : /\ act' = [act EXCEPT ![c] = [Unstarted EXCEPT !.at = l]]
                                        /\ (act[c].at = "deleted" => l = "failed")
    BY <1>5 DEF openFails, DelFails
  <2>3. act' = [act EXCEPT ![c] = Over(l)] /\ Over(l) \in ActType /\ Over(l).at = l
    <3>1. Doc # {}
      BY <1>1, <2>1 DEF ClickSound
    <3> QED BY <2>2, <3>1, OverRecords
  <2> QED BY <1>1, <2>1, <2>2, <2>3, ClickStep DEF PreviewTypeOK
<1>6. CASE Delete(c)
  <2> DEFINE q == [at |-> "deleted", doc |-> act[c].doc, prev |-> act[c].prev]
  <2>1. act' = [act EXCEPT ![c].at = "deleted"] /\ act[c].at = "delete"
        /\ docs' = docs \ {act[c].doc} /\ urls' = urls /\ doomed' = doomed
    BY <1>6 DEF Delete
  <2>2. [act[c] EXCEPT !.at = "deleted"] = q /\ q \in ActType /\ q.at = "deleted"
        /\ q.doc = act[c].doc /\ q.prev = act[c].prev
    BY <1>1 DEF ActType
  <2> HIDE DEF q
  <2>3. act' = [act EXCEPT ![c] = q]
    BY <2>1, <2>2
  <2>4. /\ q.doc \in doomed' /\ q.doc \in Doc /\ Owned(q.prev)
        /\ preview.doc = q.doc /\ ~preview.late => q.prev.doc = q.doc
    BY <1>1, <2>1, <2>2 DEF ClickSound
  <2>5. docs' \subseteq docs /\ doomed' \subseteq Doc /\ urls' \subseteq PClick
    BY <1>1, <2>1 DEF PreviewTypeOK
  <2> QED BY <1>1, <2>1, <2>2, <2>3, <2>4, <2>5, ClickStep
<1> QED BY <1>2, <1>3, <1>4, <1>5, <1>6

\* A preview on the screen has a live object URL, whichever handler closed which
\* earlier one, and its document exists unless its deletion was clicked before it
\* was set or is not finished (openPreview, closePreview, del).
THEOREM PreviewSoundHolds == PreviewSpec => []PreviewSound
<1>1. PreviewInv /\ [PreviewNext]_previewVars => PreviewInv'
  <2> SUFFICES ASSUME PreviewInv, [PreviewNext]_previewVars PROVE PreviewInv'
    OBVIOUS
  <2>1. CASE UNCHANGED previewVars
    <3>1. docs' = docs /\ preview' = preview /\ urls' = urls /\ act' = act /\ doomed' = doomed
      BY <2>1 DEF previewVars
    <3> QED BY <3>1 DEF PreviewInv, PreviewTypeOK, Owned, DocThere, ClickSound
  <2>2. CASE Close
    <3>1. preview # NoPreview /\ closePreview(preview) /\ UNCHANGED <<docs, doomed>> /\ act' = act
      BY <2>2 DEF Close
    <3>2. Owned(preview) /\ act' \in [PClick -> ActType]
      BY <3>1 DEF PreviewInv, PreviewTypeOK
    <3> QED BY <3>1, <3>2, CloseStep
  <2> QED BY <2>1, <2>2, ClickSteps, SetPreviewStep, DeletedStep DEF PreviewNext
<1>2. PreviewInv => PreviewSound
  BY DEF PreviewInv, PreviewSound, DocThere
<1> QED BY <1>1, <1>2, InitPreviewInv, PTL DEF PreviewSpec

-----------------------------------------------------------------------------
(* Dialogs.  The form holds texts of the open dialog only, a call those of    *)
(* its own service; and `saving` is on only while a save runs.                *)

CallRecord == [at : {"put", "saved", "reload", "delete", "start", "load", "install", "installed"},
               for : Service, text : SUBSET Service]
CallType == call \in [DClick -> {NoCall} \cup CallRecord]

Saves(c) == call[c].at \in {"put", "saved", "reload"}
FormOwn == input \subseteq {open}
CallsOwn == \A c \in DClick : call[c] # NoCall => call[c].text \subseteq {call[c].for}
SavedOwn == \A t \in Service : saved[t] \subseteq {t}
Own == mixed \/ (FormOwn /\ CallsOwn /\ SavedOwn)
SavingTrue == saving => where = "left" \/ \E c \in DClick : Saves(c)

DialogInv == DialogTypeOK /\ CallType /\ Own /\ SavingTrue

LEMMA InitDialogInv == DialogInit => DialogInv
<1> SUFFICES ASSUME DialogInit PROVE DialogInv
  OBVIOUS
<1>1. DialogTypeOK
  BY DEF DialogInit, DialogTypeOK
<1>2. CallType /\ CallsOwn
  BY DEF DialogInit, CallType, CallsOwn
<1>3. FormOwn /\ SavedOwn /\ SavingTrue
  BY DEF DialogInit, FormOwn, SavedOwn, SavingTrue
<1> QED BY <1>1, <1>2, <1>3 DEF DialogInv, Own

-----------------------------------------------------------------------------
(* What happens to the calls *)

\* A record is never NoCall.
LEMMA RecordIsCall == ASSUME NEW r \in CallRecord PROVE r # NoCall /\ r.at # "idle"
BY DEF CallRecord, NoCall

\* A call that starts takes the input with it.
LEMMA StartedCalls ==
  ASSUME CallType, NEW c \in DClick, NEW t \in Service, input \subseteq Service,
         NEW do \in {"put", "delete", "start", "install"}, Started(c, do, t)
  PROVE  /\ CallType' /\ ~Saves(c)
         /\ call'[c] = [at |-> do, for |-> t, text |-> input]
         /\ \A d \in DClick \ {c} : call'[d] = call[d]
<1>1. call' = [call EXCEPT ![c] = [at |-> do, for |-> t, text |-> input]] /\ call[c] = NoCall
  BY DEF Started
<1>2. [at |-> do, for |-> t, text |-> input] \in CallRecord
  BY DEF CallRecord
<1>3. ~Saves(c)
  BY <1>1 DEF Saves, NoCall
<1> QED BY <1>1, <1>2, <1>3 DEF CallType

\* A call that goes on keeps its text and its service.
LEMMA ReachesCalls ==
  ASSUME CallType, NEW c \in DClick, call[c] # NoCall,
         NEW at \in {"saved", "reload", "installed"}, Reaches(c, at)
  PROVE  /\ CallType' /\ call'[c].at = at
         /\ call'[c].text = call[c].text /\ call'[c].for = call[c].for
         /\ \A d \in DClick \ {c} : call'[d] = call[d]
<1>1. call' = [call EXCEPT ![c] = [call[c] EXCEPT !.at = at]]
  BY DEF Reaches, CallType
<1>2. call[c] \in CallRecord
  BY DEF CallType
<1>3. [call[c] EXCEPT !.at = at] \in CallRecord
  BY <1>2 DEF CallRecord
<1>4. /\ [call[c] EXCEPT !.at = at].at = at
      /\ [call[c] EXCEPT !.at = at].text = call[c].text
      /\ [call[c] EXCEPT !.at = at].for = call[c].for
  BY <1>2 DEF CallRecord
<1> QED BY <1>1, <1>3, <1>4 DEF CallType

LEMMA FinishedCalls ==
  ASSUME CallType, NEW c \in DClick, Finished(c)
  PROVE  /\ CallType' /\ call'[c] = NoCall
         /\ \A d \in DClick \ {c} : call'[d] = call[d]
BY DEF Finished, CallType

-----------------------------------------------------------------------------
(* One step per action *)

\* Only the form changes.
LEMMA FormStep ==
  ASSUME DialogInv, UNCHANGED <<where, call, saved, mixed, saving>>,
         DialogTypeOK', FormOwn => FormOwn'
  PROVE  DialogInv'
BY DEF DialogInv, CallType, Own, CallsOwn, SavedOwn, SavingTrue, Saves

LEMMA NextDialogInv == DialogInv /\ [DialogNext]_dialogVars => DialogInv'
<1> SUFFICES ASSUME DialogInv, [DialogNext]_dialogVars PROVE DialogInv'
  OBVIOUS
<1>0. DialogTypeOK /\ CallType /\ Own /\ SavingTrue
  BY DEF DialogInv
<1>n. NoService \notin Service
  BY DialogAssumption
<1>t. ASSUME NEW c \in DClick, call[c].at # "idle"
      PROVE  call[c] # NoCall /\ call[c] \in CallRecord /\ call[c].for \in Service /\ call[c].text \subseteq Service
  <2>1. call[c] # NoCall
    BY <1>t DEF NoCall
  <2>2. call[c] \in CallRecord
    BY <1>0, <2>1 DEF CallType
  <2> QED BY <2>1, <2>2 DEF CallRecord
<1>1. CASE CloseConnect \/ CloseConfig
  <2>1. DialogTypeOK' /\ FormOwn'
    BY <1>0, <1>1 DEF CloseConnect, CloseConfig, closeConnect, closeConfig, DialogTypeOK, FormOwn, signVars
  <2> QED BY <1>1, <2>1, FormStep DEF CloseConnect, CloseConfig, signVars
<1>2. CASE NoticeOver
  <2>1. DialogTypeOK' /\ (FormOwn => FormOwn')
    BY <1>0, <1>2 DEF NoticeOver, DialogTypeOK, FormOwn, formVars
  <2> QED BY <1>2, <2>1, FormStep DEF NoticeOver
<1>3. CASE SetStep
  <2>1. DialogTypeOK' /\ (FormOwn => FormOwn')
    BY <1>0, <1>3 DEF SetStep, DialogTypeOK, FormOwn, signVars
  <2> QED BY <1>3, <2>1, FormStep DEF SetStep, signVars
<1>4. CASE Type
  <2>1. open \in Service
    BY <1>0, <1>4 DEF Type, Controls, DialogTypeOK
  <2>2. DialogTypeOK' /\ (FormOwn => FormOwn')
    BY <1>0, <1>4, <2>1 DEF Type, DialogTypeOK, FormOwn, signVars
  <2> QED BY <1>4, <2>2, FormStep DEF Type, signVars
<1>5. ASSUME NEW t \in Service, openConnect(t) PROVE DialogInv'
  <2>1. DialogTypeOK' /\ FormOwn'
    BY <1>0, <1>5 DEF openConnect, DialogTypeOK, FormOwn
  <2> QED BY <1>5, <2>1, FormStep DEF openConnect
<1>6. ASSUME NEW t \in Service, Uninstalled(t) PROVE DialogInv'
  <2>1. DialogTypeOK'
    BY <1>0, <1>6 DEF Uninstalled, DialogTypeOK, formVars, signVars
  <2>2. SavedOwn => SavedOwn'
    BY <1>0, <1>6 DEF Uninstalled, SavedOwn, DialogTypeOK
  <2>3. UNCHANGED <<where, open, input, saving, call, mixed>>
    BY <1>6 DEF Uninstalled, formVars, signVars
  <2> QED BY <1>0, <2>1, <2>2, <2>3 DEF DialogInv, CallType, Own, FormOwn, CallsOwn, SavingTrue, Saves
<1>7. ASSUME NEW c \in DClick, saveKey(c) PROVE DialogInv'
  <2>1. open \in Service /\ Started(c, "put", open) /\ UNCHANGED <<where, open, step, input, notice, saved, mixed>>
        /\ saving' = TRUE /\ saveError' = NoService
    BY <1>0, <1>7 DEF saveKey, Controls, DialogTypeOK, formVars
  <2>2. input \subseteq Service
    BY <1>0 DEF DialogTypeOK
  <2>3. CallType' /\ call'[c] = [at |-> "put", for |-> open, text |-> input] /\ \A d \in DClick \ {c} : call'[d] = call[d]
    BY <1>0, <2>1, <2>2, StartedCalls
  <2>4. DialogTypeOK'
    BY <1>0, <2>1 DEF DialogTypeOK
  <2>5. FormOwn /\ CallsOwn => CallsOwn'
    BY <2>3 DEF FormOwn, CallsOwn
  <2>6. SavingTrue'
    BY <2>3 DEF SavingTrue, Saves
  <2> QED BY <1>0, <2>1, <2>3, <2>4, <2>5, <2>6 DEF DialogInv, Own, FormOwn, SavedOwn
<1>8. ASSUME NEW c \in DClick, NEW t \in Service, deleteOwnKey(c, t) \/ connectOAuth(c, t) PROVE DialogInv'
  <2>1. /\ UNCHANGED <<where, open, step, input, saving, saveError, notice, saved, mixed>>
        /\ \E do \in {"delete", "start"} : Started(c, do, t)
        /\ open = NoService
    BY <1>8 DEF deleteOwnKey, connectOAuth, CardButtons, OauthButtons, formVars, signVars
  <2>2. input \subseteq Service
    BY <1>0 DEF DialogTypeOK
  <2>3. PICK do \in {"delete", "start"} : Started(c, do, t)
    BY <2>1
  <2>4. CallType' /\ ~Saves(c) /\ call'[c] = [at |-> do, for |-> t, text |-> input] /\ \A d \in DClick \ {c} : call'[d] = call[d]
    BY <1>0, <2>2, <2>3, StartedCalls
  <2>5. FormOwn => input = {}
    BY <1>n, <2>1, <2>2 DEF FormOwn
  <2>6. FormOwn /\ CallsOwn => CallsOwn'
    BY <2>4, <2>5 DEF CallsOwn
  <2>7. DialogTypeOK'
    BY <1>0, <2>1 DEF DialogTypeOK
  <2>8. SavingTrue'
    BY <1>0, <2>1, <2>4 DEF SavingTrue, Saves
  <2> QED BY <1>0, <2>1, <2>4, <2>6, <2>7, <2>8 DEF DialogInv, Own, FormOwn, SavedOwn
<1>9. ASSUME NEW c \in DClick, install(c) PROVE DialogInv'
  <2>1. open \in Service /\ Started(c, "install", open)
        /\ UNCHANGED <<where, open, step, input, saving, saveError, notice, saved, mixed>>
    BY <1>0, <1>9 DEF install, Controls, DialogTypeOK, formVars, signVars
  <2>2. input \subseteq Service
    BY <1>0 DEF DialogTypeOK
  <2>3. CallType' /\ ~Saves(c) /\ call'[c] = [at |-> "install", for |-> open, text |-> input] /\ \A d \in DClick \ {c} : call'[d] = call[d]
    BY <1>0, <2>1, <2>2, StartedCalls
  <2>4. FormOwn /\ CallsOwn => CallsOwn'
    BY <2>3 DEF CallsOwn, FormOwn
  <2>5. DialogTypeOK'
    BY <1>0, <2>1 DEF DialogTypeOK
  <2>6. SavingTrue'
    BY <1>0, <2>1, <2>3 DEF SavingTrue, Saves
  <2> QED BY <1>0, <2>1, <2>3, <2>4, <2>5, <2>6 DEF DialogInv, Own, FormOwn, SavedOwn
<1>10. ASSUME NEW c \in DClick, KeyStored(c) \/ Installed(c) PROVE DialogInv'
  <2> DEFINE t == call[c].for
  <2>1. call[c].at \in {"put", "install"} /\ call[c].at # "idle"
    BY <1>10 DEF KeyStored, Installed
  <2>2. call[c] # NoCall /\ t \in Service /\ call[c].text \subseteq Service
    BY <1>t, <2>1
  <2>3. /\ UNCHANGED <<where, open, step, input, saving, saveError, notice, mixed>>
        /\ saved' = [saved EXCEPT ![t] = call[c].text] \/ saved' = [saved EXCEPT ![t] = saved[t] \cup call[c].text]
    BY <1>10 DEF KeyStored, Installed, formVars, signVars
  <2>4. /\ CallType' /\ call'[c].text = call[c].text /\ call'[c].for = call[c].for
        /\ \A d \in DClick \ {c} : call'[d] = call[d]
        /\ Saves(c) => Saves(c)'
    <3>1. CASE KeyStored(c)
      BY <1>0, <2>2, <3>1, ReachesCalls DEF KeyStored, Saves
    <3>2. CASE Installed(c)
      BY <1>0, <2>2, <3>2, ReachesCalls DEF Installed, Saves
    <3> QED BY <1>10, <3>1, <3>2
  <2>5. DialogTypeOK'
    <3>1. saved' \in [Service -> SUBSET Service]
      BY <1>0, <2>2, <2>3 DEF DialogTypeOK
    <3> QED BY <1>0, <2>3, <3>1 DEF DialogTypeOK
  <2>6. CallsOwn => CallsOwn'
    BY <2>2, <2>4 DEF CallsOwn
  <2>7. CallsOwn /\ SavedOwn => SavedOwn'
    <3> SUFFICES ASSUME CallsOwn, SavedOwn, NEW s \in Service PROVE saved'[s] \subseteq {s}
      BY DEF SavedOwn
    <3>1. call[c].text \subseteq {t} /\ saved[t] \subseteq {t} /\ saved[s] \subseteq {s}
      BY <2>2 DEF CallsOwn, SavedOwn
    <3> QED BY <1>0, <2>2, <2>3, <3>1 DEF DialogTypeOK
  <2>8. SavingTrue'
    BY <1>0, <2>3, <2>4 DEF SavingTrue, Saves
  <2> QED BY <1>0, <2>3, <2>4, <2>5, <2>6, <2>7, <2>8 DEF DialogInv, Own, FormOwn
<1>11. ASSUME NEW c \in DClick, KeySaved(c) PROVE DialogInv'
  <2>1. call[c].at = "saved" /\ Reaches(c, "reload") /\ UNCHANGED <<where, step, saving, saved, mixed>>
        /\ open' = NoService /\ input' = {} /\ saveError' = NoService /\ notice' = call[c].for
    BY <1>11 DEF KeySaved, closeConnect
  <2>2. call[c] # NoCall /\ call[c].for \in Service
    BY <1>t, <2>1
  <2>3. /\ CallType' /\ call'[c].at = "reload"
        /\ call'[c].text = call[c].text /\ call'[c].for = call[c].for
        /\ \A d \in DClick \ {c} : call'[d] = call[d]
    BY <1>0, <2>1, <2>2, ReachesCalls
  <2>4. DialogTypeOK'
    BY <1>0, <2>1, <2>2 DEF DialogTypeOK
  <2>5. FormOwn' /\ (CallsOwn => CallsOwn') /\ (SavedOwn => SavedOwn')
    BY <2>1, <2>2, <2>3 DEF FormOwn, CallsOwn, SavedOwn
  <2>6. SavingTrue'
    BY <2>3 DEF SavingTrue, Saves
  <2> QED BY <1>0, <2>1, <2>3, <2>4, <2>5, <2>6 DEF DialogInv, Own
<1>12. ASSUME NEW c \in DClick, KeyFails(c) \/ KeyDone(c) PROVE DialogInv'
  <2>1. /\ call[c].at # "idle" /\ Finished(c) /\ saving' = FALSE
        /\ UNCHANGED <<where, open, step, input, notice, saved, mixed>>
        /\ saveError' \in {saveError, call[c].for}
    BY <1>12 DEF KeyFails, KeyDone, formVars
  <2>2. call[c].for \in Service
    BY <1>t, <2>1
  <2>3. CallType' /\ call'[c] = NoCall /\ \A d \in DClick \ {c} : call'[d] = call[d]
    BY <1>0, <2>1, FinishedCalls
  <2>4. DialogTypeOK'
    BY <1>0, <2>1, <2>2 DEF DialogTypeOK
  <2>5. (CallsOwn => CallsOwn') /\ SavingTrue'
    BY <2>1, <2>3 DEF CallsOwn, SavingTrue
  <2> QED BY <1>0, <2>1, <2>3, <2>4, <2>5 DEF DialogInv, Own, FormOwn, SavedOwn
<1>13. ASSUME NEW c \in DClick, KeyDeleted(c) \/ CallFails(c) PROVE DialogInv'
  <2>1. /\ call[c].at \in {"delete", "start", "install", "installed"} /\ Finished(c)
        /\ UNCHANGED <<where, open, step, input, saving, saveError, notice, mixed>>
        /\ saved' = saved \/ saved' = [saved EXCEPT ![call[c].for] = {}]
    BY <1>13 DEF KeyDeleted, CallFails, formVars, signVars
  <2>2. CallType' /\ call'[c] = NoCall /\ \A d \in DClick \ {c} : call'[d] = call[d]
    BY <1>0, <2>1, FinishedCalls
  <2>3. DialogTypeOK' /\ (SavedOwn => SavedOwn')
    BY <1>0, <2>1 DEF DialogTypeOK, SavedOwn
  <2>4. (CallsOwn => CallsOwn') /\ SavingTrue'
    BY <1>0, <2>1, <2>2 DEF CallsOwn, SavingTrue, Saves
  <2> QED BY <1>0, <2>1, <2>2, <2>3, <2>4 DEF DialogInv, Own, FormOwn
<1>14. ASSUME NEW c \in DClick, Redirected(c) PROVE DialogInv'
  <2>1. /\ where' = "left" /\ call' = [d \in DClick |-> NoCall]
        /\ UNCHANGED <<open, step, input, saving, saveError, notice, saved, mixed>>
    BY <1>14 DEF Redirected, formVars, signVars
  <2>2. DialogTypeOK'
    BY <1>0, <2>1 DEF DialogTypeOK
  <2>3. CallType' /\ CallsOwn' /\ SavingTrue'
    BY <2>1 DEF CallType, CallsOwn, SavingTrue
  <2> QED BY <1>0, <2>1, <2>2, <2>3 DEF DialogInv, Own, FormOwn, SavedOwn
<1>15. ASSUME NEW c \in DClick, NEW t \in Service, openConfig(c, t) PROVE DialogInv'
  <2>1. input' = {} /\ UNCHANGED <<where, saving, saveError, notice, saved, mixed>>
    BY <1>15 DEF openConfig, signVars
  <2>2. CASE Shown(t) /\ UNCHANGED call
    <3>1. DialogTypeOK' /\ FormOwn'
      BY <1>0, <2>1, <2>2 DEF DialogTypeOK, Shown, FormOwn
    <3> QED BY <2>1, <2>2, <3>1, FormStep
  <2>3. CASE /\ call[c] = NoCall /\ UNCHANGED <<open, step>>
             /\ call' = [call EXCEPT ![c] = [at |-> "load", for |-> t, text |-> {}]]
    <3>1. [at |-> "load", for |-> t, text |-> {}] \in CallRecord
      BY DEF CallRecord
    <3>2. CallType' /\ call'[c].text = {} /\ \A d \in DClick \ {c} : call'[d] = call[d]
      BY <1>0, <2>3, <3>1 DEF CallType
    <3>3. ~Saves(c)
      BY <2>3 DEF Saves, NoCall
    <3>4. DialogTypeOK'
      BY <1>0, <2>1, <2>3 DEF DialogTypeOK
    <3>5. (CallsOwn => CallsOwn') /\ FormOwn' /\ SavingTrue'
      BY <1>0, <2>1, <3>2, <3>3 DEF CallsOwn, FormOwn, SavingTrue, Saves
    <3> QED BY <1>0, <2>1, <3>2, <3>4, <3>5 DEF DialogInv, Own, SavedOwn
  <2> QED BY <1>15, <2>2, <2>3 DEF openConfig
<1>16. ASSUME NEW c \in DClick, ConfigLoaded(c) \/ ConfigFails(c) PROVE DialogInv'
  <2>1. /\ call[c].at = "load" /\ Finished(c) /\ Shown(call[c].for)
        /\ UNCHANGED <<where, saving, saveError, notice, saved>>
    BY <1>16 DEF ConfigLoaded, ConfigFails, signVars
  <2>2. call[c].for \in Service
    BY <1>t, <2>1
  <2>3. CallType' /\ call'[c] = NoCall /\ \A d \in DClick \ {c} : call'[d] = call[d]
    BY <1>0, <2>1, FinishedCalls
  <2>4. open' = call[c].for /\ step' \in {"guide", "form"}
    BY <2>1 DEF Shown
  <2>5. (CallsOwn => CallsOwn') /\ SavingTrue' /\ (SavedOwn => SavedOwn')
    BY <1>0, <2>1, <2>3 DEF CallsOwn, SavingTrue, Saves, SavedOwn
  <2>6. CASE ConfigLoaded(c)
    <3>1. input' = saved[call[c].for] /\ mixed' = mixed
      BY <2>6 DEF ConfigLoaded
    <3>2. DialogTypeOK'
      BY <1>0, <2>1, <2>2, <2>4, <3>1 DEF DialogTypeOK
    <3>3. SavedOwn => FormOwn'
      BY <2>2, <2>4, <3>1 DEF SavedOwn, FormOwn
    <3> QED BY <1>0, <2>3, <2>5, <3>1, <3>2, <3>3 DEF DialogInv, Own
  <2>7. CASE ConfigFails(c)
    <3>1. input' = input /\ mixed' = (mixed \/ ~(input \subseteq {call[c].for}))
      BY <2>7 DEF ConfigFails
    <3>2. DialogTypeOK'
      BY <1>0, <2>1, <2>2, <2>4, <3>1 DEF DialogTypeOK
    <3>3. ~mixed' => ~mixed /\ FormOwn'
      BY <2>4, <3>1 DEF FormOwn
    <3> QED BY <1>0, <2>3, <2>5, <3>2, <3>3 DEF DialogInv, Own
  <2> QED BY <1>16, <2>6, <2>7
<1>17. ASSUME NEW c \in DClick, InstallAnswered(c) PROVE DialogInv'
  <2>1. /\ call[c].at = "installed" /\ Finished(c) /\ open' = NoService /\ input' = {}
        /\ UNCHANGED <<where, step, saving, saveError, notice, saved, mixed>>
    BY <1>17 DEF InstallAnswered, closeConfig, signVars
  <2>2. CallType' /\ call'[c] = NoCall /\ \A d \in DClick \ {c} : call'[d] = call[d]
    BY <1>0, <2>1, FinishedCalls
  <2>3. DialogTypeOK'
    BY <1>0, <2>1 DEF DialogTypeOK
  <2>4. (CallsOwn => CallsOwn') /\ FormOwn' /\ SavingTrue'
    BY <1>0, <2>1, <2>2 DEF CallsOwn, FormOwn, SavingTrue, Saves
  <2> QED BY <1>0, <2>1, <2>2, <2>3, <2>4 DEF DialogInv, Own, SavedOwn
<1>18. CASE UNCHANGED dialogVars
  BY <1>0, <1>18 DEF dialogVars, DialogInv, DialogTypeOK, CallType, Own, FormOwn, CallsOwn, SavedOwn, SavingTrue, Saves
<1> QED
  BY <1>1, <1>2, <1>3, <1>4, <1>5, <1>6, <1>7, <1>8, <1>9, <1>10, <1>11, <1>12, <1>13, <1>14, <1>15, <1>16,
     <1>17, <1>18 DEF DialogNext

\* A key or configuration is saved for nothing but what it was typed for or loaded
\* from, unless a failed load was ignored, and the save button is not left
\* disabled, for any number of services and overlapping calls (saveKey, openConfig,
\* install).
THEOREM DialogsSoundHolds == DialogSpec => []DialogsSound
<1>1. DialogInv => DialogsSound
  BY DEF DialogInv, DialogsSound, Own, SavedOwn, SavingTrue, Saves
<1> QED BY <1>1, InitDialogInv, NextDialogInv, PTL DEF DialogSpec

-----------------------------------------------------------------------------
(* The form of a new provider *)

Text == Kind \cup {"", "typed"}
PFormType == [kind : Kind, mode : {"api_key", "oauth2"}, text : [Preset -> Text],
              api_key : Nat, oauth : Nat]
SubmitType == [at : {"sent", "stored"}, form : PFormType]

FormTypeOK ==
  /\ pform \in PFormType /\ touched \subseteq Preset /\ keys \in Nat
  /\ submits \in [FClick -> SubmitType \cup {NoSubmit}]
  /\ \A x \in used : x \in Nat /\ 0 < x /\ x <= keys
  /\ pform.api_key <= keys
  /\ \A c \in FClick : submits[c] # NoSubmit => submits[c].form.api_key <= keys

\* As long as submissions do not overlap, there is one at a time, and the keys in
\* the form and on their way are stored nowhere, but for the one whose answer is
\* awaited.
KeysUnused ==
  /\ ~reused
  /\ \A c, x \in FClick : submits[c] # NoSubmit /\ submits[x] # NoSubmit => c = x
  /\ \A c \in FClick : submits[c].at = "sent" => submits[c].form.api_key \notin used
  /\ (\A c \in FClick : submits[c].at # "stored") => pform.api_key \notin used

FormInv == FormTypeOK /\ ModelsOfType /\ (~overlapped => KeysUnused)

\* The record forms of the model's updates.
LEMMA FormUpdates ==
  ASSUME NEW f \in PFormType, NEW t \in [Preset -> Text], NEW n \in Nat,
         NEW m \in {"api_key", "oauth2"}
  PROVE  /\ [f EXCEPT !.text = t]
              = [kind |-> f.kind, mode |-> f.mode, text |-> t, api_key |-> f.api_key, oauth |-> f.oauth]
         /\ [f EXCEPT !.mode = m]
              = [kind |-> f.kind, mode |-> m, text |-> f.text, api_key |-> f.api_key, oauth |-> f.oauth]
         /\ [f EXCEPT !.api_key = n]
              = [kind |-> f.kind, mode |-> f.mode, text |-> f.text, api_key |-> n, oauth |-> f.oauth]
         /\ [f EXCEPT !.oauth = n]
              = [kind |-> f.kind, mode |-> f.mode, text |-> f.text, api_key |-> f.api_key, oauth |-> n]
BY DEF PFormType

LEMMA TypeUpdate ==
  ASSUME NEW f \in PFormType, NEW k, NEW t
  PROVE  [f EXCEPT !.kind = k, !.text = t]
           = [kind |-> k, mode |-> f.mode, text |-> t, api_key |-> f.api_key, oauth |-> f.oauth]
<1> DEFINE r == [kind |-> k, mode |-> f.mode, text |-> f.text, api_key |-> f.api_key, oauth |-> f.oauth]
<1>1. [f EXCEPT !.kind = k] = r
  BY DEF PFormType
<1>2. [f EXCEPT !.kind = k, !.text = t] = [[f EXCEPT !.kind = k] EXCEPT !.text = t]
  OBVIOUS
<1>3. [r EXCEPT !.text = t]
        = [kind |-> k, mode |-> f.mode, text |-> t, api_key |-> f.api_key, oauth |-> f.oauth]
  OBVIOUS
<1> QED BY <1>1, <1>2, <1>3

LEMMA AfterUpdate ==
  ASSUME NEW f \in PFormType, NEW t, NEW n
  PROVE  [f EXCEPT !.text = t, !.api_key = n]
           = [kind |-> f.kind, mode |-> f.mode, text |-> t, api_key |-> n, oauth |-> f.oauth]
<1> DEFINE r == [kind |-> f.kind, mode |-> f.mode, text |-> t, api_key |-> f.api_key, oauth |-> f.oauth]
<1>1. [f EXCEPT !.text = t] = r
  BY DEF PFormType
<1>2. [f EXCEPT !.text = t, !.api_key = n] = [[f EXCEPT !.text = t] EXCEPT !.api_key = n]
  OBVIOUS
<1>3. [r EXCEPT !.api_key = n]
        = [kind |-> f.kind, mode |-> f.mode, text |-> t, api_key |-> n, oauth |-> f.oauth]
  OBVIOUS
<1> QED BY <1>1, <1>2, <1>3

\* The key of a payload is that of the form, or none.
LEMMA PayloadKey ==
  ASSUME NEW f \in PFormType
  PROVE  Payload(f).api_key = IF f.mode = "api_key" THEN f.api_key ELSE 0
<1> DEFINE a == IF f.mode = "api_key" THEN f.api_key ELSE 0
           o == IF f.mode = "oauth2" THEN f.oauth ELSE 0
<1>1. Payload(f) = [f EXCEPT !.api_key = a, !.oauth = o]
  BY DEF Payload, PFormType
<1> QED BY <1>1 DEF PFormType

LEMMA InitFormInv == ProviderInit => FormInv
<1> SUFFICES ASSUME ProviderInit PROVE FormInv
  OBVIOUS
<1>1. PICK k \in Kind :
        pform = [kind |-> k, mode |-> "api_key", text |-> Presets(k), api_key |-> 0, oauth |-> 0]
  BY DEF ProviderInit
<1>2. Presets(k) \in [Preset -> Text] /\ \A f \in Preset : Presets(k)[f] = k
  BY DEF Presets, Text
<1>3. pform \in PFormType /\ pform.kind = k /\ pform.text = Presets(k) /\ pform.api_key = 0
  BY <1>1, <1>2 DEF PFormType
<1>4. FormTypeOK
  BY <1>3 DEF ProviderInit, FormTypeOK
<1> QED BY <1>2, <1>3, <1>4 DEF ProviderInit, FormInv, ModelsOfType, KeysUnused, NoSubmit

\* The user fills in the form: its key stays or is a new one.
LEMMA FillStep ==
  ASSUME FormInv, pform' \in PFormType, touched' \subseteq Preset, ModelsOfType',
         \/ keys' = keys /\ pform'.api_key = pform.api_key
         \/ keys' = keys + 1 /\ pform'.api_key \in {pform.api_key, keys + 1},
         submits' = submits, used' = used, reused' = reused, overlapped' = overlapped
  PROVE  FormInv'
<1>1. FormTypeOK /\ keys \in Nat /\ pform.api_key \in Nat
  BY DEF FormInv, FormTypeOK, PFormType
<1>2. \A c \in FClick : submits[c] # NoSubmit => submits[c].form.api_key \in Nat
  BY <1>1 DEF FormTypeOK, SubmitType, PFormType
<1>3. pform'.api_key # pform.api_key => pform'.api_key \notin used
  BY <1>1 DEF FormTypeOK
<1>4. FormTypeOK'
  BY <1>1, <1>2 DEF FormTypeOK
<1>5. ~overlapped' => KeysUnused'
  BY <1>3 DEF FormInv, KeysUnused
<1> QED BY <1>4, <1>5 DEF FormInv

LEMMA FillSteps ==
  ASSUME FormInv,
         \/ \E k \in Kind : setType(k)
         \/ \E f \in Preset, v \in Text : setText(f, v)
         \/ setMode \/ setCredential
  PROVE  FormInv'
<1>1. /\ submits' = submits /\ used' = used /\ reused' = reused /\ overlapped' = overlapped
      /\ pform \in PFormType /\ touched \subseteq Preset /\ keys \in Nat /\ ModelsOfType
      /\ pform.text \in [Preset -> Text] /\ pform.kind \in Kind /\ pform.api_key \in Nat
      /\ pform.mode \in {"api_key", "oauth2"}
  BY DEF FormInv, FormTypeOK, PFormType, setType, setText, setMode, setCredential
<1>2. ASSUME NEW k \in Kind, setType(k) PROVE FormInv'
  <2>1. pform' = [pform EXCEPT !.kind = k, !.text = Replaced(k)] /\ keys' = keys
        /\ touched' = {f \in touched : pform.text[f] # pform.kind}
    BY <1>2 DEF setType
  <2>2. Replaced(k) \in [Preset -> Text]
        /\ \A f \in Preset : Replaced(k)[f] = IF pform.text[f] = pform.kind THEN k ELSE pform.text[f]
    BY <1>1 DEF Replaced, Text
  <2>3. pform' = [kind |-> k, mode |-> pform.mode, text |-> Replaced(k),
                  api_key |-> pform.api_key, oauth |-> pform.oauth]
    BY <1>1, <2>1, TypeUpdate
  <2>4. pform' \in PFormType /\ pform'.kind = k /\ pform'.text = Replaced(k)
        /\ pform'.api_key = pform.api_key
    BY <1>1, <2>2, <2>3 DEF PFormType
  <2>5. ModelsOfType'
    BY <1>1, <2>1, <2>2, <2>4 DEF ModelsOfType
  <2> QED BY <1>1, <2>1, <2>4, <2>5, FillStep
<1>3. ASSUME NEW f \in Preset, NEW v \in Text, setText(f, v) PROVE FormInv'
  <2> DEFINE t == [pform.text EXCEPT ![f] = v]
  <2>1. pform' = [pform EXCEPT !.text = t] /\ keys' = keys /\ touched' = touched \cup {f}
    BY <1>3 DEF setText
  <2>2. t \in [Preset -> Text] /\ \A g \in Preset : g # f => t[g] = pform.text[g]
    BY <1>1
  <2> HIDE DEF t
  <2>3. pform' = [kind |-> pform.kind, mode |-> pform.mode, text |-> t,
                  api_key |-> pform.api_key, oauth |-> pform.oauth]
    BY <1>1, <2>1, <2>2, FormUpdates
  <2>4. pform' \in PFormType /\ pform'.kind = pform.kind /\ pform'.text = t
        /\ pform'.api_key = pform.api_key
    BY <1>1, <2>2, <2>3 DEF PFormType
  <2>5. ModelsOfType'
    BY <1>1, <2>1, <2>2, <2>4 DEF ModelsOfType
  <2> QED BY <1>1, <2>1, <2>4, <2>5, FillStep
<1>4. ASSUME setMode PROVE FormInv'
  <2>1. PICK m \in {"api_key", "oauth2"} : pform' = [pform EXCEPT !.mode = m]
    BY <1>1, <1>4 DEF setMode, PFormType
  <2>2. pform' = [kind |-> pform.kind, mode |-> m, text |-> pform.text,
                  api_key |-> pform.api_key, oauth |-> pform.oauth]
    BY <1>1, <2>1, FormUpdates
  <2>3. pform' \in PFormType /\ pform'.kind = pform.kind /\ pform'.text = pform.text
        /\ pform'.api_key = pform.api_key
    BY <1>1, <2>2 DEF PFormType
  <2>4. ModelsOfType' /\ keys' = keys /\ touched' = touched
    BY <1>1, <1>4, <2>3 DEF ModelsOfType, setMode
  <2> QED BY <1>1, <2>3, <2>4, FillStep
<1>5. ASSUME setCredential PROVE FormInv'
  <2>1. keys' = keys + 1 /\ touched' = touched /\ keys + 1 \in Nat
        /\ (pform' = [pform EXCEPT !.api_key = keys + 1] \/ pform' = [pform EXCEPT !.oauth = keys + 1])
    BY <1>1, <1>5 DEF setCredential
  <2>2. PICK a \in {pform.api_key, keys + 1}, o \in {pform.oauth, keys + 1} :
          pform' = [kind |-> pform.kind, mode |-> pform.mode, text |-> pform.text,
                    api_key |-> a, oauth |-> o]
    BY <1>1, <2>1, FormUpdates
  <2>3. pform' \in PFormType /\ pform'.kind = pform.kind /\ pform'.text = pform.text
        /\ pform'.api_key = a
    BY <1>1, <2>1, <2>2 DEF PFormType
  <2>4. ModelsOfType'
    BY <1>1, <2>1, <2>3 DEF ModelsOfType
  <2> QED BY <1>1, <2>1, <2>3, <2>4, FillStep
<1> QED BY <1>2, <1>3, <1>4, <1>5

\* After(f) and the form that create keeps.
LEMMA FormsKept ==
  ASSUME NEW f \in PFormType
  PROVE  /\ [f EXCEPT !.text = Presets(f.kind)] \in PFormType
         /\ [f EXCEPT !.text = Presets(f.kind)].api_key = f.api_key
         /\ After(f) \in PFormType /\ After(f).api_key = 0
         /\ \A g \in Preset : After(f).text[g] = After(f).kind
<1>1. f.kind \in Kind /\ Presets(f.kind) \in [Preset -> Text]
      /\ \A g \in Preset : Presets(f.kind)[g] = f.kind
  BY DEF PFormType, Presets, Text
<1>2. [f EXCEPT !.text = Presets(f.kind)]
        = [kind |-> f.kind, mode |-> f.mode, text |-> Presets(f.kind), api_key |-> f.api_key, oauth |-> f.oauth]
  BY <1>1, FormUpdates
<1>3. After(f)
        = [kind |-> f.kind, mode |-> f.mode, text |-> Presets(f.kind), api_key |-> 0, oauth |-> f.oauth]
  BY AfterUpdate DEF After
<1>4. [f EXCEPT !.text = Presets(f.kind)] \in PFormType
      /\ [f EXCEPT !.text = Presets(f.kind)].api_key = f.api_key
  BY <1>1, <1>2 DEF PFormType
<1>5. After(f) \in PFormType /\ After(f).api_key = 0
      /\ After(f).text = Presets(f.kind) /\ After(f).kind = f.kind
  BY <1>1, <1>3 DEF PFormType
<1> QED BY <1>1, <1>4, <1>5

LEMMA CreateStep ==
  ASSUME FormInv, NEW c \in FClick, create(c) PROVE FormInv'
<1> DEFINE g == [pform EXCEPT !.text = Presets(pform.kind)]
           s == [at |-> "sent", form |-> g]
<1>1. /\ submits[c] = NoSubmit /\ submits' = [submits EXCEPT ![c] = s]
      /\ overlapped' = (overlapped \/ ~Free) /\ pform' = pform /\ used' = used
      /\ reused' = reused /\ touched' = touched /\ keys' = keys
  BY DEF create
<1>2. FormTypeOK /\ pform \in PFormType /\ submits \in [FClick -> SubmitType \cup {NoSubmit}]
  BY DEF FormInv, FormTypeOK
<1>3. g \in PFormType /\ g.api_key = pform.api_key
  BY <1>2, FormsKept
<1> HIDE DEF g
<1>4. s \in SubmitType /\ s.at = "sent" /\ s.form = g
  BY <1>3 DEF SubmitType
<1> HIDE DEF s
<1>5. submits' \in [FClick -> SubmitType \cup {NoSubmit}] /\ submits'[c] = s
      /\ \A x \in FClick : x # c => submits'[x] = submits[x]
  BY <1>1, <1>2, <1>4
<1>6. FormTypeOK'
  BY <1>1, <1>2, <1>3, <1>4, <1>5 DEF FormTypeOK
<1>7. ~overlapped' => KeysUnused'
  <2>1. SUFFICES ASSUME ~overlapped' PROVE KeysUnused'
    OBVIOUS
  <2>2. KeysUnused /\ \A x \in FClick : submits[x] = NoSubmit
    BY <1>1, <2>1 DEF FormInv, Free
  <2>3. pform.api_key \notin used
    BY <2>2 DEF KeysUnused, NoSubmit
  <2> QED BY <1>1, <1>3, <1>4, <1>5, <2>2, <2>3 DEF KeysUnused, NoSubmit
<1> QED BY <1>1, <1>6, <1>7 DEF FormInv, ModelsOfType

LEMMA StoredStep ==
  ASSUME FormInv, NEW c \in FClick, ProviderStored(c) PROVE FormInv'
<1> DEFINE k == Payload(submits[c].form).api_key
           s == [at |-> "stored", form |-> submits[c].form]
<1>1. /\ submits[c].at = "sent" /\ submits' = [submits EXCEPT ![c].at = "stored"]
      /\ used' = used \cup ({k} \ {0}) /\ reused' = (reused \/ k \in used)
      /\ pform' = pform /\ touched' = touched /\ keys' = keys /\ overlapped' = overlapped
  BY DEF ProviderStored
<1>2. FormTypeOK /\ submits \in [FClick -> SubmitType \cup {NoSubmit}]
  BY DEF FormInv, FormTypeOK
<1>3. submits[c] \in SubmitType /\ submits[c] # NoSubmit /\ submits[c].form \in PFormType
  BY <1>1, <1>2 DEF NoSubmit, SubmitType
<1>4. k \in {submits[c].form.api_key, 0}
  BY <1>3, PayloadKey
<1>5. [submits[c] EXCEPT !.at = "stored"] = s /\ s \in SubmitType
      /\ s.at = "stored" /\ s.form = submits[c].form
  BY <1>3 DEF SubmitType
<1> HIDE DEF s, k
<1>6. submits' \in [FClick -> SubmitType \cup {NoSubmit}] /\ submits'[c] = s
      /\ \A x \in FClick : x # c => submits'[x] = submits[x]
  BY <1>1, <1>2, <1>5
<1>7. submits[c].form.api_key \in Nat /\ submits[c].form.api_key <= keys
  BY <1>2, <1>3 DEF FormTypeOK, PFormType
<1>8. FormTypeOK'
  <2>1. \A x \in used' : x \in Nat /\ 0 < x /\ x <= keys'
    BY <1>1, <1>2, <1>4, <1>7 DEF FormTypeOK
  <2>2. \A x \in FClick : submits'[x] # NoSubmit => submits'[x].form.api_key <= keys'
    BY <1>1, <1>2, <1>5, <1>6, <1>7 DEF FormTypeOK
  <2> QED BY <1>1, <1>2, <1>6, <2>1, <2>2 DEF FormTypeOK
<1>9. ~overlapped' => KeysUnused'
  <2>1. SUFFICES ASSUME ~overlapped' PROVE KeysUnused'
    OBVIOUS
  <2>2. KeysUnused
    BY <1>1, <2>1 DEF FormInv
  <2>3. k \notin used
    BY <1>1, <1>2, <1>4, <2>2 DEF KeysUnused, FormTypeOK
  <2>4. \A x \in FClick : x # c => submits'[x] = NoSubmit
    BY <1>3, <1>6, <2>2 DEF KeysUnused
  <2>5. submits'[c].at = "stored" /\ ~reused'
    BY <1>1, <1>5, <1>6, <2>2, <2>3 DEF KeysUnused
  <2>6. \A x \in FClick : submits'[x].at # "sent"
    BY <2>4, <2>5 DEF NoSubmit
  <2>7. \A x, y \in FClick : submits'[x] # NoSubmit /\ submits'[y] # NoSubmit => x = y
    BY <2>4
  <2> QED BY <2>5, <2>6, <2>7 DEF KeysUnused
<1> QED BY <1>1, <1>8, <1>9 DEF FormInv, ModelsOfType

LEMMA AnsweredStep ==
  ASSUME FormInv, NEW c \in FClick, ProviderAccepted(c) \/ ProviderRefused(c) PROVE FormInv'
<1>1. /\ submits' = [submits EXCEPT ![c] = NoSubmit] /\ submits[c] # NoSubmit
      /\ used' = used /\ reused' = reused /\ keys' = keys
  BY DEF ProviderAccepted, ProviderRefused, NoSubmit
<1>2. FormTypeOK /\ submits \in [FClick -> SubmitType \cup {NoSubmit}] /\ keys \in Nat
  BY DEF FormInv, FormTypeOK
<1>3. submits' \in [FClick -> SubmitType \cup {NoSubmit}] /\ submits'[c] = NoSubmit
      /\ \A x \in FClick : x # c => submits'[x] = submits[x]
  BY <1>1, <1>2
<1>4. submits[c].form \in PFormType
  BY <1>1, <1>2 DEF SubmitType
<1>5. CASE ProviderAccepted(c)
  <2>1. pform' = After(submits[c].form) /\ touched' = {} /\ overlapped' = overlapped
    BY <1>5 DEF ProviderAccepted
  <2>2. pform' \in PFormType /\ pform'.api_key = 0 /\ ModelsOfType'
    BY <1>4, <2>1, FormsKept DEF ModelsOfType
  <2>3. FormTypeOK'
    BY <1>1, <1>2, <1>3, <2>1, <2>2 DEF FormTypeOK
  <2>4. 0 \notin used
    BY <1>2 DEF FormTypeOK
  <2>5. ~overlapped' => KeysUnused'
    BY <1>1, <1>3, <2>1, <2>2, <2>4 DEF FormInv, KeysUnused, NoSubmit
  <2> QED BY <2>2, <2>3, <2>5 DEF FormInv
<1>6. CASE ProviderRefused(c)
  <2>1. pform' = pform /\ touched' = touched /\ overlapped' = (overlapped \/ submits[c].at = "stored")
    BY <1>6 DEF ProviderRefused
  <2>2. FormTypeOK'
    BY <1>1, <1>2, <1>3, <2>1 DEF FormTypeOK
  <2>3. ~overlapped' => KeysUnused'
    <3>1. SUFFICES ASSUME ~overlapped' PROVE KeysUnused'
      OBVIOUS
    <3>2. KeysUnused /\ submits[c].at # "stored"
      BY <2>1, <3>1 DEF FormInv
    <3>3. \A x \in FClick : x # c => submits[x] = NoSubmit
      BY <1>1, <3>2 DEF KeysUnused
    <3>4. pform.api_key \notin used
      BY <3>2, <3>3 DEF KeysUnused, NoSubmit
    <3> QED BY <1>1, <1>3, <2>1, <3>2, <3>3, <3>4 DEF KeysUnused, NoSubmit
  <2> QED BY <2>1, <2>2, <2>3 DEF FormInv, ModelsOfType
<1> QED BY <1>5, <1>6

\* However often the type is changed and forms are submitted, a field the user left
\* alone holds the preset of the type shown, and a key is stored with two providers
\* only if submissions overlapped or an answer was lost (set, create).
THEOREM FormSoundHolds == ProviderSpec => []FormSound
<1>1. FormInv /\ [ProviderNext]_providerVars => FormInv'
  <2> SUFFICES ASSUME FormInv, [ProviderNext]_providerVars PROVE FormInv'
    OBVIOUS
  <2>1. CASE UNCHANGED providerVars
    <3>1. /\ pform' = pform /\ submits' = submits /\ used' = used /\ reused' = reused
          /\ touched' = touched /\ keys' = keys /\ overlapped' = overlapped
      BY <2>1 DEF providerVars
    <3> QED BY <3>1 DEF FormInv, FormTypeOK, ModelsOfType, KeysUnused
  <2> QED BY <2>1, FillSteps, CreateStep, StoredStep, AnsweredStep DEF ProviderNext, Text
<1>2. FormInv => FormSound
  BY DEF FormInv, FormSound, KeysDiffer, KeysUnused
<1> QED BY <1>1, <1>2, InitFormInv, PTL DEF ProviderSpec
=============================================================================
