------------------------- MODULE AsyncWriterProofs -------------------------
(***************************************************************************)
(* Proofs about the asynchronous writers for every set of entries, channel   *)
(* capacity and batch size.                                                  *)
(***************************************************************************)
EXTENDS AsyncWriter, SequenceTheorems, TLAPS

-----------------------------------------------------------------------------
(* Facts about sequences. *)

\* Appending to the tail of a concatenation (what Enqueue does to Conservation).
LEMMA AppendConcat ==
  \A s, t \in Seq(Entry), e \in Entry : Append(s \o t, e) = s \o Append(t, e)
<1> SUFFICES ASSUME NEW s \in Seq(Entry), NEW t \in Seq(Entry), NEW e \in Entry
             PROVE  Append(s \o t, e) = s \o Append(t, e)
  OBVIOUS
<1>1. /\ s \o t \in Seq(Entry) /\ Append(t, e) = t \o <<e>>
      /\ Append(s \o t, e) = (s \o t) \o <<e>>
  BY ConcatProperties, AppendIsConcat
<1>2. <<e>> \in Seq(Entry)
  OBVIOUS
<1> QED BY <1>1, <1>2, ConcatAssociative

\* Concatenation of entry sequences is associative.
LEMMA Assoc ==
  \A s, t, u \in Seq(Entry) : (s \o t) \o u = s \o (t \o u)
BY ConcatAssociative

\* Moving the head of one sequence to the end of the one before it (what a
\* receive of Run does to Conservation).
LEMMA MoveHead ==
  ASSUME NEW S, NEW s \in Seq(S), NEW t \in Seq(S), t # <<>>
  PROVE  s \o t = Append(s, Head(t)) \o Tail(t)
<1>1. /\ Head(t) \in S /\ Tail(t) \in Seq(S) /\ Len(Tail(t)) = Len(t) - 1
      /\ \A i \in 1 .. Len(Tail(t)) : Tail(t)[i] = t[i + 1]
      /\ Head(t) = t[1] /\ Len(t) \in Nat \ {0}
  BY HeadTailProperties, EmptySeq
<1> DEFINE a == Append(s, Head(t))
<1>2. /\ a \in Seq(S) /\ Len(a) = Len(s) + 1
      /\ \A i \in 1 .. Len(s) : a[i] = s[i]
      /\ a[Len(s) + 1] = Head(t)
  BY <1>1, AppendProperties
<1>3. /\ s \o t \in Seq(S) /\ Len(s \o t) = Len(s) + Len(t)
      /\ \A i \in 1 .. Len(s) + Len(t) :
            (s \o t)[i] = IF i <= Len(s) THEN s[i] ELSE t[i - Len(s)]
  BY ConcatProperties
<1> HIDE DEF a
<1>4. /\ a \o Tail(t) \in Seq(S) /\ Len(a \o Tail(t)) = Len(a) + Len(Tail(t))
      /\ \A i \in 1 .. Len(a) + Len(Tail(t)) :
            (a \o Tail(t))[i] = IF i <= Len(a) THEN a[i] ELSE Tail(t)[i - Len(a)]
  BY <1>1, <1>2, ConcatProperties
<1>5. Len(s) \in Nat
  BY LenProperties
<1>6. ASSUME NEW i \in 1 .. Len(s \o t) PROVE (s \o t)[i] = (a \o Tail(t))[i]
  <2>1. CASE i <= Len(s)
    BY <2>1, <1>1, <1>2, <1>3, <1>4, <1>5
  <2>2. CASE i = Len(s) + 1
    BY <2>2, <1>1, <1>2, <1>3, <1>4, <1>5
  <2>3. CASE i > Len(s) + 1
    <3>1. (s \o t)[i] = t[i - Len(s)]
      BY <2>3, <1>1, <1>3, <1>5
    <3>2. (a \o Tail(t))[i] = Tail(t)[i - (Len(s) + 1)]
      BY <2>3, <1>1, <1>2, <1>3, <1>4, <1>5
    <3>3. i - (Len(s) + 1) \in 1 .. Len(Tail(t))
      BY <2>3, <1>1, <1>3, <1>5
    <3>4. (i - (Len(s) + 1)) + 1 = i - Len(s)
      BY <1>5
    <3> QED BY <3>1, <3>2, <3>3, <3>4, <1>1
  <2>4. i \in Int /\ (i <= Len(s) \/ i = Len(s) + 1 \/ i > Len(s) + 1)
    BY <1>1, <1>3, <1>5
  <2> QED BY <2>1, <2>2, <2>3, <2>4
<1>7. Len(s \o t) = Len(a \o Tail(t))
  BY <1>1, <1>2, <1>3, <1>4, <1>5
<1>8. s \o t = a \o Tail(t)
  BY <1>3, <1>4, <1>6, <1>7, SeqEqual
<1> QED BY <1>8 DEF a

\* The middle of three concatenated sequences is a subsequence of the whole
\* (which run of accepted entries a flush settles).
LEMMA MiddleSubSeq ==
  ASSUME NEW S, NEW f \in Seq(S), NEW b \in Seq(S), NEW c \in Seq(S), b # <<>>
  PROVE  SubSeq((f \o b) \o c, Len(f) + 1, Len(f) + Len(b)) = b
<1>1. Len(b) \in Nat \ {0} /\ Len(f) \in Nat /\ Len(c) \in Nat
  BY EmptySeq, LenProperties
<1>2. f \o b \in Seq(S) /\ Len(f \o b) = Len(f) + Len(b)
  BY ConcatProperties
<1>3. SubSeq((f \o b) \o c, Len(f) + 1, Len(f) + Len(b))
         = SubSeq(f \o b, Len(f) + 1, Len(f) + Len(b))
  <2>1. Len(f) + 1 \in 1 .. Len(f \o b) /\ Len(f) + Len(b) \in 1 .. Len(f \o b)
    BY <1>1, <1>2
  <2> QED BY <2>1, <1>2, SubSeqOfConcat1
<1>4. SubSeq(f \o b, Len(f) + 1, Len(f) + Len(b)) = SubSeq(b, 1, Len(b))
  <2>1. /\ Len(f) + 1 \in Len(f) + 1 .. Len(f) + Len(b)
        /\ Len(f) + Len(b) \in Len(f) + 1 .. Len(f) + Len(b)
        /\ (Len(f) + 1) - Len(f) = 1 /\ (Len(f) + Len(b)) - Len(f) = Len(b)
    BY <1>1
  <2>2. SubSeq(f \o b, Len(f) + 1, Len(f) + Len(b))
          = SubSeq(b, (Len(f) + 1) - Len(f), (Len(f) + Len(b)) - Len(f))
    BY <2>1, SubSeqOfConcat2
  <2> QED BY <2>1, <2>2
<1> QED BY <1>3, <1>4, SubSeqFull

-----------------------------------------------------------------------------
(* The inductive invariant. *)

\* What the drain has established by the time Run is in its last flush: the
\* batch in hand completes everything accepted before the cancel.
DrainInv ==
  /\ atCancel <= Len(accepted)
  /\ pc \in {"drain", "done"} => cancelled
  /\ pc = "flush" => buf # <<>>
  /\ pc = "flush" /\ after = "done" =>
       cancelled /\ Len(flushed) + Len(buf) >= atCancel

IInv == TypeOK /\ Conservation /\ DrainInv /\ CancelFlushed

LEMMA InitIInv == Init => IInv
<1> SUFFICES ASSUME Init PROVE IInv
  OBVIOUS
<1>1. <<>> \in Seq(Entry) /\ Len(<<>>) = 0
  BY EmptySeq
<1>2. TypeOK
  <2>1. 0 <= Capacity
    BY WriterAssumption
  <2> QED BY <1>1, <2>1 DEF Init, TypeOK
<1>3. Conservation
  <2>1. <<>> \o <<>> = <<>>
    BY <1>1, ConcatEmptySeq
  <2> QED BY <2>1 DEF Init, Conservation
<1> QED BY <1>1, <1>2, <1>3 DEF Init, IInv, DrainInv, CancelFlushed

\* Enqueue keeps the invariant: the channel grows by what accepted grows by.
LEMMA EnqueueIInv == ASSUME IInv, NEW e \in Entry, Enqueue(e) PROVE IInv'
<1> USE DEF IInv
<1>1. CASE Len(ch) < Capacity
  <2>1. /\ ch' = Append(ch, e) /\ accepted' = Append(accepted, e)
        /\ handler' = [handler EXCEPT ![e] = "accepted"]
        /\ UNCHANGED <<buf, pc, after, main, cancelled, flushed, stored, atCancel>>
    BY <1>1 DEF Enqueue
  <2>2. /\ ch' \in Seq(Entry) /\ Len(ch') = Len(ch) + 1
        /\ accepted' \in Seq(Entry) /\ Len(accepted') = Len(accepted) + 1
    BY <2>1, AppendProperties DEF TypeOK
  <2>3. TypeOK'
    <3>1. Len(ch) \in Nat
      BY LenProperties DEF TypeOK
    <3>2. Len(ch') <= Capacity
      BY <1>1, <2>2, <3>1, WriterAssumption
    <3> QED BY <2>1, <2>2, <3>2 DEF TypeOK
  <2>4. Conservation'
    <3>1. flushed \o buf \in Seq(Entry) /\ ch \in Seq(Entry)
      BY ConcatProperties DEF TypeOK
    <3>2. Append((flushed \o buf) \o ch, e) = (flushed \o buf) \o Append(ch, e)
      BY <3>1, AppendConcat
    <3> QED BY <2>1, <3>2 DEF Conservation
  <2>5. DrainInv' /\ CancelFlushed'
    <3>1. Len(accepted) \in Nat /\ atCancel \in Nat
      BY LenProperties DEF TypeOK
    <3> QED BY <2>1, <2>2, <3>1 DEF DrainInv, CancelFlushed
  <2> QED BY <2>3, <2>4, <2>5
<1>2. CASE ~(Len(ch) < Capacity)
  BY <1>2 DEF Enqueue, TypeOK, Conservation, DrainInv, CancelFlushed
<1> QED BY <1>1, <1>2

\* Receive and DrainOne: the head of the channel moves to the end of the batch.
LEMMA MoveIInv ==
  ASSUME IInv, ch # <<>>, buf' = Append(buf, Head(ch)), ch' = Tail(ch),
         UNCHANGED <<handler, main, cancelled, accepted, flushed, stored, atCancel>>,
         pc \in {"select", "drain"},
         \/ UNCHANGED <<pc, after>>
         \/ pc = "select" /\ EnterFlush(buf', "select")
  PROVE  IInv'
<1> USE DEF IInv
<1>1. /\ Head(ch) \in Entry /\ Tail(ch) \in Seq(Entry) /\ Len(Tail(ch)) = Len(ch) - 1
      /\ Len(ch) \in Nat
  BY HeadTailProperties, LenProperties DEF TypeOK
<1>2. buf' \in Seq(Entry) /\ buf' # <<>> /\ ch' \in Seq(Entry)
  <2>1. buf \in Seq(Entry)
    BY DEF TypeOK
  <2>2. Append(buf, Head(ch)) \in Seq(Entry) /\ Append(buf, Head(ch)) # <<>>
    BY <1>1, <2>1, AppendProperties
  <2> QED BY <1>1, <2>2
<1>3. \/ pc' = pc /\ after' = after
      \/ pc' = "flush" /\ after' = "select"
  BY <1>2 DEF EnterFlush
<1>4. TypeOK'
  <2>1. Len(ch') <= Capacity
    BY <1>1, WriterAssumption DEF TypeOK
  <2> QED BY <1>2, <1>3, <2>1 DEF TypeOK
<1>5. Conservation'
  <2> flushed \in Seq(Entry) /\ buf \in Seq(Entry) /\ ch \in Seq(Entry)
    BY DEF TypeOK
  <2>1. (flushed \o buf) \o ch = flushed \o (buf \o ch)
    BY Assoc
  <2>2. buf \o ch = Append(buf, Head(ch)) \o Tail(ch)
    BY MoveHead DEF TypeOK
  <2>3. (flushed \o buf') \o ch' = flushed \o (buf' \o ch')
    <3> HIDE DEF IInv
    <3> QED BY ONLY flushed \in Seq(Entry), <1>2, Assoc
  <2>4. flushed \o (buf' \o ch') = flushed \o (buf \o ch)
    BY <1>2, <2>2
  <2>5. (flushed' \o buf') \o ch' = (flushed \o buf) \o ch
    BY <1>2, <1>3, <2>1, <2>3, <2>4
  <2> QED BY <1>2, <1>3, <2>5 DEF Conservation
<1>6. DrainInv' /\ CancelFlushed'
  BY <1>2, <1>3 DEF DrainInv, CancelFlushed
<1> QED BY <1>4, <1>5, <1>6

\* DrainEmpty: with the channel empty, flushed and batch are all of accepted.
LEMMA DrainEmptyIInv == ASSUME IInv, DrainEmpty PROVE IInv'
<1> USE DEF IInv
<1>1. TypeOK' /\ Conservation'
  BY DEF DrainEmpty, EnterFlush, TypeOK, Conservation
<1>2. /\ Len(accepted) = Len(flushed) + Len(buf)
      /\ Len(flushed) \in Nat /\ Len(buf) \in Nat
  <2>1. flushed \o buf \in Seq(Entry) /\ Len(flushed \o buf) = Len(flushed) + Len(buf)
    BY ConcatProperties DEF TypeOK
  <2>2. accepted = flushed \o buf
    BY <2>1, ConcatEmptySeq DEF DrainEmpty, Conservation
  <2> QED BY <2>1, <2>2, LenProperties DEF TypeOK
<1>3. CASE buf = <<>>
  <2>1. Len(buf) = 0
    BY <1>3, EmptySeq
  <2> QED BY <1>1, <1>2, <1>3, <2>1 DEF DrainEmpty, EnterFlush, DrainInv, CancelFlushed, TypeOK
<1>4. CASE buf # <<>>
  BY <1>1, <1>2, <1>4 DEF DrainEmpty, EnterFlush, DrainInv, CancelFlushed, TypeOK
<1> QED BY <1>3, <1>4

\* FlushReturns: the batch joins the flushed entries.
LEMMA FlushIInv == ASSUME IInv, NEW ok \in BOOLEAN, FlushReturns(ok) PROVE IInv'
<1> USE DEF IInv
<1>1. /\ flushed' = flushed \o buf /\ buf' = <<>> /\ pc' = after
      /\ stored' \in {stored, stored \o buf}
      /\ UNCHANGED <<handler, ch, after, main, cancelled, accepted, atCancel>>
      /\ pc = "flush"
  BY DEF FlushReturns
<1>2. /\ flushed' \in Seq(Entry) /\ Len(flushed') = Len(flushed) + Len(buf)
      /\ stored' \in Seq(Entry) /\ buf' \in Seq(Entry)
      /\ Len(flushed) \in Nat /\ Len(buf) \in Nat
  <2>1. /\ flushed \in Seq(Entry) /\ buf \in Seq(Entry) /\ stored \in Seq(Entry)
        /\ <<>> \in Seq(Entry)
    BY EmptySeq DEF TypeOK
  <2>2. /\ flushed \o buf \in Seq(Entry) /\ stored \o buf \in Seq(Entry)
        /\ Len(flushed \o buf) = Len(flushed) + Len(buf)
    BY <2>1, ConcatProperties
  <2>3. Len(flushed) \in Nat /\ Len(buf) \in Nat
    BY <2>1, LenProperties
  <2> QED BY <1>1, <2>1, <2>2, <2>3
<1>3. TypeOK'
  BY <1>1, <1>2 DEF TypeOK
<1>4. Conservation'
  <2>1. (flushed \o buf) \o <<>> = flushed \o buf
    BY <1>1, <1>2, ConcatEmptySeq
  <2> QED BY <1>1, <2>1 DEF Conservation
<1>5. DrainInv' /\ CancelFlushed'
  BY <1>1, <1>2 DEF DrainInv, CancelFlushed, TypeOK
<1> QED BY <1>3, <1>4, <1>5

LEMMA NextIInv == IInv /\ [Next]_vars => IInv'
<1> SUFFICES ASSUME IInv, [Next]_vars PROVE IInv'
  OBVIOUS
<1> USE DEF IInv
<1>1. ASSUME NEW e \in Entry, Begin(e) PROVE IInv'
  BY <1>1 DEF Begin, writerVars, TypeOK, Conservation, DrainInv, CancelFlushed
<1>2. ASSUME NEW e \in Entry, Enqueue(e) PROVE IInv'
  BY <1>2, EnqueueIInv
<1>3. CASE Receive
  <2>1. \/ UNCHANGED <<pc, after>>
        \/ pc = "select" /\ EnterFlush(buf', "select")
    BY <1>3 DEF Receive
  <2> QED BY <1>3, <2>1, MoveIInv DEF Receive
<1>4. CASE Tick
  BY <1>4 DEF Tick, EnterFlush, TypeOK, Conservation, DrainInv, CancelFlushed
<1>5. CASE SeeDone
  BY <1>5 DEF SeeDone, TypeOK, Conservation, DrainInv, CancelFlushed
<1>6. CASE DrainOne
  BY <1>6, MoveIInv DEF DrainOne
<1>7. CASE DrainEmpty
  BY <1>7, DrainEmptyIInv
<1>8. ASSUME NEW ok \in BOOLEAN, FlushReturns(ok) PROVE IInv'
  BY <1>8, FlushIInv
<1>9. CASE Cancel
  <2>1. Len(accepted) \in Nat
    BY LenProperties DEF TypeOK
  <2> QED BY <1>9, <2>1 DEF Cancel, writerVars, TypeOK, Conservation, DrainInv, CancelFlushed
<1>10. CASE Shutdown
  BY <1>10 DEF Shutdown, writerVars, TypeOK, Conservation, DrainInv, CancelFlushed
<1>11. CASE Exit
  BY <1>11 DEF Exit, writerVars, TypeOK, Conservation, DrainInv, CancelFlushed
<1>12. CASE UNCHANGED vars
  BY <1>12 DEF vars, TypeOK, Conservation, DrainInv, CancelFlushed
<1> QED
  BY <1>1, <1>2, <1>3, <1>4, <1>5, <1>6, <1>7, <1>8, <1>9, <1>10, <1>11, <1>12
     DEF Next, Writer

LEMMA InvariantIInv == Spec => []IInv
BY InitIInv, NextIInv, PTL DEF Spec

-----------------------------------------------------------------------------
(* The theorems. *)

\* The writer's state keeps its types; the channel never exceeds its capacity.
THEOREM TypeCorrect == Spec => []TypeOK
<1>1. IInv => TypeOK
  BY DEF IInv
<1> QED BY <1>1, InvariantIInv, PTL

\* No entry that Enqueue put into the channel is lost, duplicated or reordered
\* on its way through Run, for any capacity and batch size.
THEOREM ConservationHolds == Spec => []Conservation
<1>1. IInv => Conservation
  BY DEF IInv
<1> QED BY <1>1, InvariantIInv, PTL

\* Run returns only after it has flushed all that was accepted before cancel.
THEOREM CancelFlushedHolds == Spec => []CancelFlushed
<1>1. IInv => CancelFlushed
  BY DEF IInv
<1> QED BY <1>1, InvariantIInv, PTL

\* Channel, batch and goroutine implement the abstract trail: rows are stored
\* in acceptance order, at most once, a batch whole or not at all.
THEOREM WriterImplementsTrail == Spec => ImplementsTrail
<1>1. Init => Trail!Init
  BY EmptySeq DEF Init, Trail!Init
<1>2. IInv /\ [Next]_vars => [Trail!Next]_(Trail!vars)
  <2> SUFFICES ASSUME IInv, [Next]_vars PROVE [Trail!Next]_(Trail!vars)
    OBVIOUS
  <2> USE DEF IInv
  <2>1. ASSUME NEW e \in Entry, Enqueue(e) PROVE [Trail!Next]_(Trail!vars)
    BY <2>1 DEF Enqueue, Trail!Next, Trail!Accept, Trail!vars
  <2>2. ASSUME NEW ok \in BOOLEAN, FlushReturns(ok) PROVE [Trail!Next]_(Trail!vars)
    <3> DEFINE n == Len(buf)
    <3>1. buf # <<>> /\ n \in Nat \ {0} /\ Len(flushed) \in Nat
      BY <2>2, EmptySeq, LenProperties DEF FlushReturns, DrainInv, TypeOK
    <3>2. /\ flushed \o buf \in Seq(Entry)
          /\ Len(flushed \o buf) = Len(flushed) + n
      BY ConcatProperties DEF TypeOK
    <3>3. Len(accepted) = (Len(flushed) + n) + Len(ch) /\ Len(ch) \in Nat
      BY <3>2, ConcatProperties, LenProperties DEF Conservation, TypeOK
    <3>4. n \in 1 .. Len(accepted) - Len(flushed)
      BY <3>1, <3>3
    <3>5. Trail!Run(n) = buf
      BY <3>1, MiddleSubSeq DEF Trail!Run, Conservation, TypeOK
    <3>6. Len(flushed') = Len(flushed) + n /\ accepted' = accepted
      BY <2>2, <3>2 DEF FlushReturns
    <3>7. Trail!Store(n) \/ Trail!Lose(n)
      BY <2>2, <3>5, <3>6 DEF FlushReturns, Trail!Store, Trail!Lose
    <3> QED BY <3>4, <3>7 DEF Trail!Next
  <2>3. ASSUME UNCHANGED <<accepted, flushed, stored>> PROVE [Trail!Next]_(Trail!vars)
    BY <2>3 DEF Trail!vars
  <2>4. \/ UNCHANGED <<accepted, flushed, stored>>
        \/ \E e \in Entry : Enqueue(e)
        \/ \E ok \in BOOLEAN : FlushReturns(ok)
    BY DEF Next, Writer, vars, writerVars, Begin, Receive, Tick, SeeDone, DrainOne,
           DrainEmpty, Cancel, Shutdown, Exit
  <2> QED BY <2>1, <2>2, <2>3, <2>4
<1> QED BY <1>1, <1>2, InvariantIInv, PTL DEF ImplementsTrail, Spec, Trail!Spec
=============================================================================
