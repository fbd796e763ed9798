----------------------------- MODULE ApiProofs -----------------------------
(***************************************************************************)
(* The API, for every number of documents, requests, deliveries, processes,   *)
(* users and teams: the document store, the Slack bot, the accounts and the   *)
(* access of teams.  The four share no state; each has an inductive invariant *)
(* of its own.                                                                *)
(***************************************************************************)
EXTENDS Documents, SlackBot, Accounts, TeamAccess, FiniteSetTheorems, SequenceTheorems, TLAPS

-----------------------------------------------------------------------------
(* Documents *)

OpType == [at : Label, doc : Doc, n : 0 .. ChunkCount]

\* A request works on an id that was drawn, alone while it uploads; a file that a
\* delete removed stays away; and it has put n chunks.
OpSound(c) ==
  /\ op[c] # Idle => doc(c) \in drawn
  /\ At(c, "drop") => doc(c) \notin files
  /\ At(c, "insert") => /\ doc(c) \in files \ rows
                        /\ \A x \in DocCall \ {c} : op[x] # Idle => doc(x) # doc(c)
  /\ At(c, "put") => op[c].n < ChunkCount
  /\ At(c, "mark") => op[c].n = ChunkCount
  /\ op[c] # Idle /\ op[c].at \notin {"put", "mark"} => op[c].n = 0

Indexing(x, d) == op[x].at \in {"put", "mark"} /\ doc(x) = d

\* The index of an undisturbed document: what its one indexer has put so far, or
\* what the last one left.
IndexAt(d) ==
  d \in rows \ mixed =>
    /\ \A x, y \in DocCall : Indexing(x, d) /\ Indexing(y, d) => x = y
    /\ \A x \in DocCall : Indexing(x, d) =>
         \A i \in 1 .. ChunkCount : chunks[d][i] = IF i <= op[x].n THEN 1 ELSE 0
    /\ (\A x \in DocCall : ~Indexing(x, d)) => chunks[d] = IF d \in indexed THEN Once ELSE None

\* Copies stored, and those that indexers under way will still store.
Pending(d, i) == {x \in DocCall : At(x, "put") /\ doc(x) = d /\ op[x].n < i}
CopyAt(d, i) == chunks[d][i] + Cardinality(Pending(d, i)) <= Cardinality(DocCall)

DocInv ==
  /\ DocTypeOK /\ StoreAgrees
  /\ \A c \in DocCall : OpSound(c)
  /\ \A d \in Doc : IndexAt(d)
  /\ \A d \in Doc, i \in 1 .. ChunkCount : CopyAt(d, i)

-----------------------------------------------------------------------------
(* Lemmas on the index *)

LEMMA PendingCounts ==
  ASSUME NEW d, NEW i, DocAssumption
  PROVE  /\ IsFiniteSet(Pending(d, i)) /\ Cardinality(Pending(d, i)) \in Nat
         /\ Cardinality(Pending(d, i)) <= Cardinality(DocCall) /\ Cardinality(DocCall) \in Nat
<1>1. IsFiniteSet(DocCall) /\ Pending(d, i) \subseteq DocCall
  BY DocAssumption DEF Pending
<1> QED BY <1>1, FS_Subset, FS_CardinalityType

LEMMA CopiesShrink ==
  ASSUME NEW d \in Doc, NEW i \in 1 .. ChunkCount, DocTypeOK, DocTypeOK', CopyAt(d, i),
         chunks'[d][i] <= chunks[d][i], Pending(d, i)' \subseteq Pending(d, i)
  PROVE  CopyAt(d, i)'
<1>1. Cardinality(Pending(d, i)') <= Cardinality(Pending(d, i)) /\ Cardinality(Pending(d, i)') \in Nat
  BY PendingCounts, DocAssumption, FS_Subset, FS_CardinalityType
<1>2. Cardinality(Pending(d, i)) \in Nat /\ Cardinality(DocCall) \in Nat
  BY PendingCounts, DocAssumption
<1>3. chunks[d][i] \in Nat /\ chunks'[d][i] \in Nat
  BY DEF DocTypeOK
<1>4. Cardinality(Pending(d, i))' = Cardinality(Pending(d, i)')
  OBVIOUS
<1> QED BY <1>1, <1>2, <1>3, <1>4 DEF CopyAt

LEMMA CopiesGone ==
  ASSUME NEW d \in Doc, NEW i \in 1 .. ChunkCount, chunks'[d][i] = 0
  PROVE  CopyAt(d, i)'
<1>1. Pending(d, i)' \subseteq DocCall
  BY DEF Pending
<1>2. Cardinality(Pending(d, i)') \in Nat /\ Cardinality(Pending(d, i)') <= Cardinality(DocCall)
  BY <1>1, DocAssumption, FS_Subset, FS_CardinalityType
<1> QED BY <1>2 DEF CopyAt

\* Nothing that concerns the index of d happens.
LEMMA IndexFrame ==
  ASSUME NEW d \in Doc, DocInv, DocTypeOK', chunks'[d] = chunks[d],
         d \in rows' <=> d \in rows, d \in indexed' <=> d \in indexed, d \in mixed' <=> d \in mixed,
         \A x \in DocCall : (Indexing(x, d)' <=> Indexing(x, d))
                            /\ (Indexing(x, d) => op'[x] = op[x])
  PROVE  IndexAt(d)' /\ \A i \in 1 .. ChunkCount : CopyAt(d, i)'
<1>1. IndexAt(d) /\ DocTypeOK /\ \A i \in 1 .. ChunkCount : CopyAt(d, i)
  BY DEF DocInv
<1>2. IndexAt(d)'
  BY <1>1 DEF IndexAt, Once, None
<1>3. ASSUME NEW i \in 1 .. ChunkCount PROVE CopyAt(d, i)'
  <2>1. Pending(d, i)' \subseteq Pending(d, i)
    BY DEF Pending, Indexing, At, doc
  <2>2. chunks'[d][i] <= chunks[d][i]
    <3>1. chunks \in [Doc -> [1 .. ChunkCount -> Nat]]
      BY <1>1 DEF DocTypeOK
    <3>2. chunks[d][i] \in Nat
      BY <3>1
    <3> QED BY <3>2
  <2> QED BY <1>1, <2>1, <2>2, CopiesShrink
<1> QED BY <1>2, <1>3

-----------------------------------------------------------------------------
(* Initial states *)

LEMMA InitDocInv == DocInit => DocInv
<1> SUFFICES ASSUME DocInit PROVE DocInv
  OBVIOUS
<1>1. None \in [1 .. ChunkCount -> Nat]
  BY DEF None
<1>2. owner \in BOOLEAN
  BY Zenon DEF DocInit
<1>3. DocTypeOK
  BY <1>1, <1>2 DEF DocInit, DocTypeOK
<1>4. StoreAgrees /\ (\A c \in DocCall : OpSound(c)) /\ \A d \in Doc : IndexAt(d)
  BY DEF DocInit, StoreAgrees, OpSound, IndexAt, Idle, At
<1>5. ASSUME NEW d \in Doc, NEW i \in 1 .. ChunkCount PROVE CopyAt(d, i)
  <2>1. chunks[d][i] = 0
    BY DEF DocInit, None
  <2> QED BY <2>1, PendingCounts, DocAssumption DEF CopyAt
<1> QED BY <1>3, <1>4, <1>5 DEF DocInv

-----------------------------------------------------------------------------
(* Steps *)

\* A step of c that only moves c on, outside of the writes of index_document:
\* delete and index start, the file is read, its text embedded.
LEMMA QuietStep ==
  ASSUME DocInv, NEW c \in DocCall, NEW q \in OpType \cup {Idle},
         op' = [op EXCEPT ![c] = q], UNCHANGED <<docStore, docHistory>>,
         op[c] = Idle \/ op[c].at \in {"read", "embed"},
         q = Idle \/ (/\ q.at \in {"unlink", "read", "embed", "clear"} /\ q.n = 0
                      /\ q.doc \in rows \/ (op[c] # Idle /\ q.doc = doc(c)))
  PROVE  DocInv'
<1>1. /\ owner' = owner /\ drawn' = drawn /\ rows' = rows /\ files' = files /\ indexed' = indexed
      /\ chunks' = chunks /\ torn' = torn /\ stray' = stray /\ mixed' = mixed
  BY DEF docStore, docHistory
<1>2. /\ DocTypeOK /\ StoreAgrees /\ (\A x \in DocCall : OpSound(x))
      /\ op \in [DocCall -> OpType \cup {Idle}] /\ rows \subseteq drawn
  BY DEF DocInv, DocTypeOK, OpType
<1>3. op' \in [DocCall -> OpType \cup {Idle}] /\ op'[c] = q
      /\ \A x \in DocCall : x # c => op'[x] = op[x]
  BY <1>2
<1>4. DocTypeOK'
  BY <1>1, <1>2, <1>3 DEF DocTypeOK, OpType
<1>5. op[c].at \notin {"insert", "drop", "put", "mark"} /\ q.at \notin {"insert", "drop", "put", "mark"}
  BY DEF Idle
<1>6. StoreAgrees'
  BY <1>1, <1>2, <1>3, <1>5 DEF StoreAgrees, Busy, doc
<1>7. q # Idle => q.doc \in drawn /\ \A x \in DocCall \ {c} : At(x, "insert") => doc(x) # q.doc
  BY <1>2 DEF OpSound
<1>8. ASSUME NEW x \in DocCall PROVE OpSound(x)'
  <2>1. CASE x = c
    BY <1>1, <1>3, <1>5, <1>7, <2>1 DEF OpSound, At, doc, Idle
  <2>2. CASE x # c
    <3>1. op'[x] = op[x] /\ OpSound(x)
      BY <1>2, <1>3, <2>2
    <3>2. At(x, "insert") => \A y \in DocCall \ {x} : op'[y] # Idle => op'[y].doc # doc(x)
      BY <1>3, <1>7, <2>2, <3>1 DEF OpSound, doc
    <3> QED BY <1>1, <3>1, <3>2 DEF OpSound, At, doc
  <2> QED BY <2>1, <2>2
<1>9. ASSUME NEW d \in Doc PROVE IndexAt(d)' /\ \A i \in 1 .. ChunkCount : CopyAt(d, i)'
  <2>1. \A x \in DocCall : (Indexing(x, d)' <=> Indexing(x, d)) /\ (Indexing(x, d) => op'[x] = op[x])
    BY <1>3, <1>5 DEF Indexing, doc
  <2> QED BY <1>1, <1>4, <2>1, IndexFrame
<1> QED BY <1>4, <1>6, <1>8, <1>9 DEF DocInv

LEMMA QuietSteps ==
  ASSUME DocInv, NEW c \in DocCall,
         \/ \E d \in Doc : Delete(c, d) \/ Index(c, d)
         \/ \E text \in BOOLEAN : ReadFile(c, text)
         \/ Embedded(c)
  PROVE  DocInv'
<1>1. op \in [DocCall -> OpType \cup {Idle}] /\ OpSound(c) /\ Idle \in OpType \cup {Idle}
      /\ rows \subseteq Doc
  BY DEF DocInv, DocTypeOK, OpType
<1>2. ASSUME NEW d \in Doc, Delete(c, d) \/ Index(c, d) PROVE DocInv'
  <2>1. PICK l \in {"unlink", "read"} : start(c, l, d)
    BY <1>2 DEF Delete, Index
  <2> DEFINE q == [at |-> l, doc |-> d, n |-> 0]
  <2>2. q \in OpType /\ q.at = l /\ q.doc = d /\ q.n = 0
    BY DocAssumption DEF OpType, Label
  <2>3. op' = [op EXCEPT ![c] = q] /\ op[c] = Idle /\ d \in rows /\ UNCHANGED <<docStore, docHistory>>
    BY <1>2, <2>1 DEF start, Delete, Index
  <2> HIDE DEF q
  <2> QED BY <2>2, <2>3, QuietStep
<1>3. ASSUME op[c].at \in {"read", "embed"}, NEW l \in {"embed", "clear"}, goto(c, l),
             UNCHANGED <<docStore, docHistory>>
      PROVE  DocInv'
  <2> DEFINE q == [at |-> l, doc |-> doc(c), n |-> op[c].n]
  <2>1. op[c] \in OpType /\ op[c] # Idle
    BY <1>1, <1>3 DEF Idle
  <2>2. op[c].n = 0
    BY <1>1, <1>3, <2>1 DEF OpSound
  <2>3. [op[c] EXCEPT !.at = l] = q /\ q \in OpType
    BY <2>1 DEF OpType, doc, Label
  <2>4. op' = [op EXCEPT ![c] = q]
    BY <1>3, <2>3 DEF goto
  <2>5. q.at = l /\ q.doc = doc(c) /\ q.n = 0
    BY <2>2
  <2> HIDE DEF q
  <2> QED BY <1>3, <2>1, <2>3, <2>4, <2>5, QuietStep
<1>4. ASSUME op[c].at \in {"read", "embed"}, done(c), UNCHANGED <<docStore, docHistory>>
      PROVE  DocInv'
  BY <1>1, <1>4, QuietStep DEF done
<1>5. ASSUME NEW text \in BOOLEAN, ReadFile(c, text) PROVE DocInv'
  BY <1>3, <1>4, <1>5 DEF ReadFile, At
<1>6. CASE Embedded(c)
  BY <1>3, <1>6 DEF Embedded, At
<1> QED BY <1>2, <1>5, <1>6

LEMMA UploadStep ==
  ASSUME DocInv, NEW c \in DocCall, NEW d \in Doc, Upload(c, d) PROVE DocInv'
<1> DEFINE q == [at |-> "insert", doc |-> d, n |-> 0]
<1>1. /\ owner' = owner /\ drawn' = drawn \cup {d} /\ rows' = rows /\ files' = files \cup {d}
      /\ indexed' = indexed /\ chunks' = chunks /\ torn' = torn /\ stray' = stray /\ mixed' = mixed
      /\ d \notin drawn /\ op[c] = Idle /\ op' = [op EXCEPT ![c] = q]
  BY DEF Upload, start, docHistory
<1>2. /\ DocTypeOK /\ StoreAgrees /\ (\A x \in DocCall : OpSound(x))
      /\ op \in [DocCall -> OpType \cup {Idle}] /\ rows \cup files \subseteq drawn
  BY DEF DocInv, DocTypeOK, OpType
<1>3. q \in OpType /\ q.at = "insert" /\ q.doc = d /\ q.n = 0 /\ q # Idle
  BY DocAssumption DEF OpType, Label, Idle
<1> HIDE DEF q
<1>4. op' \in [DocCall -> OpType \cup {Idle}] /\ op'[c] = q
      /\ \A x \in DocCall : x # c => op'[x] = op[x]
  BY <1>1, <1>2, <1>3
<1>5. DocTypeOK'
  BY <1>1, <1>2, <1>4 DEF DocTypeOK, OpType
<1>6. StoreAgrees'
  <2>1. ASSUME NEW e \in rows' \ files' PROVE e \in torn' \/ Busy(e, {"drop"})' # {}
    BY <1>1, <1>2, <1>4 DEF StoreAgrees, Busy, doc, Idle
  <2>2. ASSUME NEW e \in files' \ rows' PROVE e \in stray' \/ Busy(e, {"insert"})' # {}
    <3>1. CASE e = d
      BY <1>3, <1>4, <3>1 DEF Busy, doc
    <3>2. CASE e # d
      BY <1>1, <1>2, <1>4, <3>2 DEF StoreAgrees, Busy, doc, Idle
    <3> QED BY <3>1, <3>2
  <2> QED BY <2>1, <2>2 DEF StoreAgrees
<1>7. ASSUME NEW x \in DocCall PROVE OpSound(x)'
  <2>1. \A y \in DocCall : y # c /\ op[y] # Idle => doc(y) # d
    BY <1>1, <1>2 DEF OpSound
  <2>2. CASE x = c
    BY <1>1, <1>2, <1>3, <1>4, <2>1, <2>2 DEF OpSound, At, doc
  <2>3. CASE x # c
    <3>1. op'[x] = op[x] /\ OpSound(x)
      BY <1>2, <1>4, <2>3
    <3>2. At(x, "insert") => op[x] # Idle
      BY DEF At, Idle
    <3>3. At(x, "insert") => \A y \in DocCall \ {x} : op'[y] # Idle => op'[y].doc # doc(x)
      BY <1>3, <1>4, <2>1, <2>3, <3>1, <3>2 DEF OpSound, doc
    <3>4. At(x, "drop") => op[x] # Idle
      BY DEF At, Idle
    <3> QED BY <1>1, <2>1, <2>3, <3>1, <3>2, <3>3, <3>4 DEF OpSound, At, doc
  <2> QED BY <2>2, <2>3
<1>8. ASSUME NEW e \in Doc PROVE IndexAt(e)' /\ \A i \in 1 .. ChunkCount : CopyAt(e, i)'
  <2>1. \A x \in DocCall : (Indexing(x, e)' <=> Indexing(x, e)) /\ (Indexing(x, e) => op'[x] = op[x])
    BY <1>1, <1>3, <1>4 DEF Indexing, doc, Idle
  <2> QED BY <1>1, <1>5, <2>1, IndexFrame
<1> QED BY <1>5, <1>6, <1>7, <1>8 DEF DocInv

LEMMA InsertStep ==
  ASSUME DocInv, NEW c \in DocCall, InsertRow(c) PROVE DocInv'
<1> DEFINE d == doc(c)
<1>1. /\ owner' = owner /\ drawn' = drawn /\ rows' = rows \cup {d} /\ files' = files
      /\ indexed' = indexed /\ chunks' = chunks /\ torn' = torn /\ stray' = stray /\ mixed' = mixed
      /\ op[c].at = "insert" /\ op' = [op EXCEPT ![c] = Idle]
  BY DEF InsertRow, done, docHistory, At
<1>2. /\ DocTypeOK /\ StoreAgrees /\ (\A x \in DocCall : OpSound(x))
      /\ op \in [DocCall -> OpType \cup {Idle}] /\ rows \cup files \subseteq drawn
  BY DEF DocInv, DocTypeOK, OpType
<1>3. /\ d \in files \ rows /\ d \in Doc /\ d \in drawn
      /\ \A x \in DocCall : x # c /\ op[x] # Idle => doc(x) # d
  BY <1>1, <1>2 DEF OpSound, At, OpType, DocTypeOK
<1>4. op' \in [DocCall -> OpType \cup {Idle}] /\ op'[c] = Idle
      /\ \A x \in DocCall : x # c => op'[x] = op[x]
  BY <1>1, <1>2
<1>5. DocTypeOK'
  BY <1>1, <1>2, <1>3, <1>4 DEF DocTypeOK, OpType
<1>6. StoreAgrees'
  <2>1. ASSUME NEW e \in rows' \ files' PROVE e \in torn' \/ Busy(e, {"drop"})' # {}
    BY <1>1, <1>2, <1>3, <1>4 DEF StoreAgrees, Busy, doc
  <2>2. ASSUME NEW e \in files' \ rows' PROVE e \in stray' \/ Busy(e, {"insert"})' # {}
    BY <1>1, <1>2, <1>4 DEF StoreAgrees, Busy, doc
  <2> QED BY <2>1, <2>2 DEF StoreAgrees
<1>7. ASSUME NEW x \in DocCall PROVE OpSound(x)'
  <2>1. CASE x = c
    BY <1>4, <2>1 DEF OpSound, At, Idle
  <2>2. CASE x # c
    <3>1. op'[x] = op[x] /\ OpSound(x) /\ (At(x, "insert") => op[x] # Idle)
      BY <1>2, <1>4, <2>2 DEF At, Idle
    <3>2. At(x, "insert") => \A y \in DocCall \ {x} : op'[y] # Idle => op'[y].doc # doc(x)
      BY <1>4, <3>1 DEF OpSound, doc
    <3> QED BY <1>1, <1>3, <2>2, <3>1, <3>2 DEF OpSound, At, doc
  <2> QED BY <2>1, <2>2
<1>8. ASSUME NEW e \in Doc PROVE IndexAt(e)' /\ \A i \in 1 .. ChunkCount : CopyAt(e, i)'
  <2>1. \A x \in DocCall : (Indexing(x, e)' <=> Indexing(x, e)) /\ (Indexing(x, e) => op'[x] = op[x])
    BY <1>1, <1>4 DEF Indexing, doc, Idle
  <2>2. CASE e # d
    BY <1>1, <1>5, <2>1, <2>2, IndexFrame
  <2>3. CASE e = d
    <3>1. \A x \in DocCall : ~Indexing(x, e)
      BY <1>1, <1>3, <2>3 DEF Indexing, Idle
    <3>2. chunks[e] = None /\ e \notin indexed
      BY <1>2, <1>3, <2>3 DEF DocTypeOK
    <3>3. IndexAt(e)'
      BY <1>1, <2>1, <3>1, <3>2 DEF IndexAt, None
    <3>4. ASSUME NEW i \in 1 .. ChunkCount PROVE CopyAt(e, i)'
      <4>1. chunks'[e][i] = 0
        BY <1>1, <3>2 DEF None
      <4> QED BY <4>1, CopiesGone
    <3> QED BY <3>3, <3>4
  <2> QED BY <2>2, <2>3
<1> QED BY <1>5, <1>6, <1>7, <1>8 DEF DocInv

LEMMA UnlinkStep ==
  ASSUME DocInv, NEW c \in DocCall, Unlink(c) PROVE DocInv'
<1> DEFINE d == doc(c)
           q == [at |-> "drop", doc |-> d, n |-> op[c].n]
<1>1. /\ owner' = owner /\ drawn' = drawn /\ rows' = rows /\ files' = files \ {d}
      /\ indexed' = indexed /\ chunks' = chunks /\ torn' = torn /\ stray' = stray /\ mixed' = mixed
      /\ op[c].at = "unlink" /\ op' = [op EXCEPT ![c].at = "drop"]
  BY DEF Unlink, goto, docHistory, At
<1>2. /\ DocTypeOK /\ StoreAgrees /\ (\A x \in DocCall : OpSound(x))
      /\ op \in [DocCall -> OpType \cup {Idle}] /\ rows \cup files \subseteq drawn
  BY DEF DocInv, DocTypeOK, OpType
<1>3. op[c] \in OpType /\ op[c] # Idle /\ d \in Doc /\ d \in drawn /\ op[c].n = 0
  BY <1>1, <1>2 DEF OpSound, OpType, Idle, doc
<1>4. [op[c] EXCEPT !.at = "drop"] = q /\ q \in OpType /\ q.at = "drop" /\ q.doc = d /\ q.n = 0
      /\ q # Idle
  BY <1>3 DEF OpType, doc, Label, Idle
<1> HIDE DEF q
<1>5. op' \in [DocCall -> OpType \cup {Idle}] /\ op'[c] = q
      /\ \A x \in DocCall : x # c => op'[x] = op[x]
  BY <1>1, <1>2, <1>4
<1>6. DocTypeOK'
  BY <1>1, <1>2, <1>5 DEF DocTypeOK, OpType
<1>7. StoreAgrees'
  <2>1. ASSUME NEW e \in rows' \ files' PROVE e \in torn' \/ Busy(e, {"drop"})' # {}
    <3>1. CASE e = d
      BY <1>4, <1>5, <3>1 DEF Busy, doc
    <3>2. CASE e # d
      BY <1>1, <1>2, <1>5, <3>2 DEF StoreAgrees, Busy, doc
    <3> QED BY <3>1, <3>2
  <2>2. ASSUME NEW e \in files' \ rows' PROVE e \in stray' \/ Busy(e, {"insert"})' # {}
    BY <1>1, <1>2, <1>5 DEF StoreAgrees, Busy, doc
  <2> QED BY <2>1, <2>2 DEF StoreAgrees
<1>8. ASSUME NEW x \in DocCall PROVE OpSound(x)'
  <2>1. CASE x = c
    BY <1>1, <1>3, <1>4, <1>5, <2>1 DEF OpSound, At, doc
  <2>2. CASE x # c
    <3>1. op'[x] = op[x] /\ OpSound(x) /\ (At(x, "insert") => op[x] # Idle)
      BY <1>2, <1>5, <2>2 DEF At, Idle
    <3>2. At(x, "insert") => doc(x) # d
      BY <1>3, <2>2, <3>1 DEF OpSound
    <3>3. At(x, "insert") => \A y \in DocCall \ {x} : op'[y] # Idle => op'[y].doc # doc(x)
      BY <1>4, <1>5, <3>1, <3>2 DEF OpSound, doc
    <3> QED BY <1>1, <2>2, <3>1, <3>2, <3>3 DEF OpSound, At, doc
  <2> QED BY <2>1, <2>2
<1>9. ASSUME NEW e \in Doc PROVE IndexAt(e)' /\ \A i \in 1 .. ChunkCount : CopyAt(e, i)'
  <2>1. \A x \in DocCall : (Indexing(x, e)' <=> Indexing(x, e)) /\ (Indexing(x, e) => op'[x] = op[x])
    BY <1>1, <1>4, <1>5 DEF Indexing, doc
  <2> QED BY <1>1, <1>6, <2>1, IndexFrame
<1> QED BY <1>6, <1>7, <1>8, <1>9 DEF DocInv

LEMMA DropStep ==
  ASSUME DocInv, NEW c \in DocCall, DropRow(c) PROVE DocInv'
<1> DEFINE d == doc(c)
<1>1. /\ owner' = owner /\ drawn' = drawn /\ rows' = rows \ {d} /\ files' = files
      /\ indexed' = indexed \ {d} /\ chunks' = [chunks EXCEPT ![d] = None]
      /\ torn' = torn /\ stray' = stray /\ mixed' = mixed
      /\ op[c].at = "drop" /\ op' = [op EXCEPT ![c] = Idle]
  BY DEF DropRow, done, docHistory, At
<1>2. /\ DocTypeOK /\ StoreAgrees /\ (\A x \in DocCall : OpSound(x))
      /\ op \in [DocCall -> OpType \cup {Idle}] /\ rows \cup files \subseteq drawn
      /\ chunks \in [Doc -> [1 .. ChunkCount -> Nat]]
  BY DEF DocInv, DocTypeOK, OpType
<1>3. op[c] # Idle /\ d \in Doc /\ d \notin files
  BY <1>1, <1>2 DEF OpSound, OpType, Idle, doc, At
<1>4. op' \in [DocCall -> OpType \cup {Idle}] /\ op'[c] = Idle
      /\ \A x \in DocCall : x # c => op'[x] = op[x]
  BY <1>1, <1>2
<1>5. None \in [1 .. ChunkCount -> Nat]
  BY DEF None
<1>6. chunks' \in [Doc -> [1 .. ChunkCount -> Nat]] /\ chunks'[d] = None
      /\ \A e \in Doc : e # d => chunks'[e] = chunks[e]
  BY <1>1, <1>2, <1>3, <1>5
<1>7. DocTypeOK'
  BY <1>1, <1>2, <1>4, <1>6 DEF DocTypeOK, OpType
<1>8. StoreAgrees'
  <2>1. ASSUME NEW e \in rows' \ files' PROVE e \in torn' \/ Busy(e, {"drop"})' # {}
    BY <1>1, <1>2, <1>4 DEF StoreAgrees, Busy, doc
  <2>2. ASSUME NEW e \in files' \ rows' PROVE e \in stray' \/ Busy(e, {"insert"})' # {}
    BY <1>1, <1>2, <1>3, <1>4 DEF StoreAgrees, Busy, doc
  <2> QED BY <2>1, <2>2 DEF StoreAgrees
<1>9. ASSUME NEW x \in DocCall PROVE OpSound(x)'
  <2>1. CASE x = c
    BY <1>4, <2>1 DEF OpSound, At, Idle
  <2>2. CASE x # c
    <3>1. op'[x] = op[x] /\ OpSound(x)
      BY <1>2, <1>4, <2>2
    <3>2. At(x, "insert") => \A y \in DocCall \ {x} : op'[y] # Idle => op'[y].doc # doc(x)
      BY <1>4, <3>1 DEF OpSound, doc
    <3> QED BY <1>1, <3>1, <3>2 DEF OpSound, At, doc
  <2> QED BY <2>1, <2>2
<1>10. ASSUME NEW e \in Doc PROVE IndexAt(e)' /\ \A i \in 1 .. ChunkCount : CopyAt(e, i)'
  <2>1. \A x \in DocCall : (Indexing(x, e)' <=> Indexing(x, e)) /\ (Indexing(x, e) => op'[x] = op[x])
    BY <1>1, <1>4 DEF Indexing, doc, Idle
  <2>2. CASE e # d
    BY <1>1, <1>6, <1>7, <2>1, <2>2, IndexFrame
  <2>3. CASE e = d
    <3>1. IndexAt(e)'
      BY <1>1, <2>3 DEF IndexAt
    <3>2. ASSUME NEW i \in 1 .. ChunkCount PROVE CopyAt(e, i)'
      <4>1. chunks'[e][i] = 0
        BY <1>6, <2>3 DEF None
      <4> QED BY <4>1, CopiesGone
    <3> QED BY <3>1, <3>2
  <2> QED BY <2>2, <2>3
<1> QED BY <1>7, <1>8, <1>9, <1>10 DEF DocInv

\* The writes of index_document leave files and uploads alone.
LEMMA IndexerFrame ==
  ASSUME DocInv, NEW c \in DocCall, NEW q \in OpType \cup {Idle}, op' = [op EXCEPT ![c] = q],
         op[c].at \in {"clear", "put", "mark"},
         q = Idle \/ (q.at \in {"put", "mark"} /\ q.doc = doc(c)),
         q.at = "put" => q.n < ChunkCount, q.at = "mark" => q.n = ChunkCount,
         drawn' = drawn, rows' = rows, files' = files, torn' = torn, stray' = stray
  PROVE  StoreAgrees' /\ \A x \in DocCall : OpSound(x)'
<1>1. StoreAgrees /\ (\A x \in DocCall : OpSound(x)) /\ op \in [DocCall -> OpType \cup {Idle}]
  BY DEF DocInv, DocTypeOK, OpType
<1>2. op'[c] = q /\ (\A x \in DocCall : x # c => op'[x] = op[x]) /\ op[c] # Idle
  BY <1>1 DEF Idle
<1>3. q.at \notin {"insert", "drop"}
  BY DEF Idle
<1>4. StoreAgrees'
  BY <1>1, <1>2, <1>3 DEF StoreAgrees, Busy, doc
<1>5. ASSUME NEW x \in DocCall PROVE OpSound(x)'
  <2>1. CASE x = c
    <3>1. CASE q = Idle
      BY <1>2, <2>1, <3>1 DEF OpSound, At, Idle
    <3>2. CASE q # Idle
      BY <1>1, <1>2, <2>1, <3>2 DEF OpSound, At, doc
    <3> QED BY <3>1, <3>2
  <2>2. CASE x # c
    <3>1. op'[x] = op[x] /\ OpSound(x)
      BY <1>1, <1>2, <2>2
    <3>2. At(x, "insert") => doc(x) # doc(c)
      BY <1>2, <2>2, <3>1 DEF OpSound
    <3>3. At(x, "insert") => \A y \in DocCall \ {x} : op'[y] # Idle => op'[y].doc # doc(x)
      BY <1>2, <3>1, <3>2 DEF OpSound, doc
    <3> QED BY <3>1, <3>3 DEF OpSound, At, doc
  <2> QED BY <2>1, <2>2
<1> QED BY <1>4, <1>5

LEMMA ClearChunksStep ==
  ASSUME DocInv, NEW c \in DocCall, ClearChunks(c) PROVE DocInv'
<1> DEFINE d == doc(c)
           q == [at |-> "put", doc |-> d, n |-> op[c].n]
<1>1. /\ owner' = owner /\ drawn' = drawn /\ rows' = rows /\ files' = files /\ indexed' = indexed
      /\ chunks' = [chunks EXCEPT ![d] = None] /\ torn' = torn /\ stray' = stray
      /\ mixed' = (IF Busy(d, {"put", "mark"}) = {} THEN mixed \ {d} ELSE mixed \cup {d})
      /\ op[c].at = "clear" /\ op' = [op EXCEPT ![c].at = "put"]
  BY DEF ClearChunks, goto, At
<1>2. /\ DocTypeOK /\ OpSound(c) /\ op \in [DocCall -> OpType \cup {Idle}]
      /\ chunks \in [Doc -> [1 .. ChunkCount -> Nat]] /\ mixed \subseteq Doc
  BY DEF DocInv, DocTypeOK, OpType
<1>3. op[c] \in OpType /\ op[c] # Idle /\ d \in Doc /\ op[c].n = 0
  BY <1>1, <1>2 DEF OpSound, OpType, Idle, doc
<1>4. [op[c] EXCEPT !.at = "put"] = q /\ q \in OpType /\ q.at = "put" /\ q.doc = d /\ q.n = 0
  BY <1>3 DEF OpType, doc, Label
<1> HIDE DEF q
<1>5. op' = [op EXCEPT ![c] = q] /\ op' \in [DocCall -> OpType \cup {Idle}] /\ op'[c] = q
      /\ \A x \in DocCall : x # c => op'[x] = op[x]
  BY <1>1, <1>2, <1>4
<1>6. None \in [1 .. ChunkCount -> Nat] /\ \A i \in 1 .. ChunkCount : None[i] = 0
  BY DEF None
<1>7. chunks' \in [Doc -> [1 .. ChunkCount -> Nat]] /\ chunks'[d] = None
      /\ \A e \in Doc : e # d => chunks'[e] = chunks[e]
  BY <1>1, <1>2, <1>3, <1>6
<1>8. DocTypeOK'
  BY <1>1, <1>2, <1>3, <1>5, <1>7 DEF DocTypeOK, OpType
<1>9. StoreAgrees' /\ \A x \in DocCall : OpSound(x)'
  <2>1. q.n < ChunkCount
    BY <1>4, DocAssumption
  <2>2. op[c].at \in {"clear", "put", "mark"} /\ q.at \in {"put", "mark"} /\ q.at # "mark"
    BY <1>1, <1>4
  <2> QED BY <1>1, <1>4, <1>5, <2>1, <2>2, IndexerFrame
<1>10. ASSUME NEW e \in Doc PROVE IndexAt(e)' /\ \A i \in 1 .. ChunkCount : CopyAt(e, i)'
  <2>1. CASE e # d
    <3>1. \A x \in DocCall : (Indexing(x, e)' <=> Indexing(x, e)) /\ (Indexing(x, e) => op'[x] = op[x])
      BY <1>1, <1>4, <1>5, <2>1 DEF Indexing, doc
    <3>2. e \in mixed' <=> e \in mixed
      BY <1>1, <2>1
    <3> QED BY <1>1, <1>7, <1>8, <2>1, <3>1, <3>2, IndexFrame
  <2>2. CASE e = d
    <3>1. IndexAt(e)'
      <4>1. SUFFICES ASSUME e \notin mixed' PROVE IndexAt(e)'
        BY DEF IndexAt
      <4>2. Busy(d, {"put", "mark"}) = {}
        BY <1>1, <2>2, <4>1
      <4>3. \A x \in DocCall : Indexing(x, e)' <=> x = c
        BY <1>4, <1>5, <2>2, <4>2 DEF Indexing, Busy, doc
      <4>4. \A i \in 1 .. ChunkCount : chunks'[e][i] = 0 /\ ~(i <= op'[c].n)
        BY <1>4, <1>5, <1>6, <1>7, <2>2
      <4> QED BY <4>3, <4>4 DEF IndexAt
    <3>2. \A i \in 1 .. ChunkCount : CopyAt(e, i)'
      BY <1>6, <1>7, <2>2, CopiesGone
    <3> QED BY <3>1, <3>2
  <2> QED BY <2>1, <2>2
<1> QED BY <1>8, <1>9, <1>10 DEF DocInv

LEMMA PutStep ==
  ASSUME DocInv, NEW c \in DocCall, PutChunk(c) PROVE DocInv'
<1> DEFINE d == doc(c)
           m == op[c].n + 1
           l == IF m = ChunkCount THEN "mark" ELSE "put"
           q == [at |-> l, doc |-> d, n |-> m]
<1>1. /\ owner' = owner /\ drawn' = drawn /\ rows' = rows /\ files' = files /\ indexed' = indexed
      /\ chunks' = [chunks EXCEPT ![d][m] = @ + 1] /\ torn' = torn /\ stray' = stray /\ mixed' = mixed
      /\ op[c].at = "put" /\ d \in rows /\ op' = [op EXCEPT ![c].n = m, ![c].at = l]
  BY DEF PutChunk, docHistory, At
<1>2. /\ DocTypeOK /\ OpSound(c) /\ op \in [DocCall -> OpType \cup {Idle}]
      /\ chunks \in [Doc -> [1 .. ChunkCount -> Nat]]
      /\ \A e \in Doc : IndexAt(e) /\ \A i \in 1 .. ChunkCount : CopyAt(e, i)
  BY DEF DocInv, DocTypeOK, OpType
<1>3. op[c] \in OpType /\ op[c] # Idle /\ d \in Doc /\ op[c].n < ChunkCount /\ op[c].n \in Nat
      /\ ChunkCount \in Nat
  BY <1>1, <1>2, DocAssumption DEF OpSound, OpType, Idle, doc, At
<1>4. m \in 1 .. ChunkCount
  BY <1>3
<1>5. l \in {"put", "mark"} /\ (l = "mark" <=> m = ChunkCount)
  OBVIOUS
<1> HIDE DEF l
<1>6. op' = [op EXCEPT ![c] = q]
  <2>1. [op[c] EXCEPT !.n = m] = [at |-> op[c].at, doc |-> d, n |-> m]
    BY <1>3 DEF OpType, doc
  <2>2. [op[c] EXCEPT !.n = m, !.at = l] = [[op[c] EXCEPT !.n = m] EXCEPT !.at = l]
    OBVIOUS
  <2>3. [[at |-> op[c].at, doc |-> d, n |-> m] EXCEPT !.at = l] = q
    OBVIOUS
  <2>4. [op[c] EXCEPT !.n = m, !.at = l] = q
    BY <2>1, <2>2, <2>3
  <2>5. op' = [op EXCEPT ![c] = [op[c] EXCEPT !.n = m, !.at = l]]
    BY <1>1, <1>2
  <2> QED BY <2>4, <2>5
<1>7. q \in OpType /\ q.at = l /\ q.doc = d /\ q.n = m
  BY <1>3, <1>4, <1>5 DEF OpType, Label
<1> HIDE DEF q
<1>8. op' \in [DocCall -> OpType \cup {Idle}] /\ op'[c] = q
      /\ \A x \in DocCall : x # c => op'[x] = op[x]
  BY <1>2, <1>6, <1>7
<1>9. /\ chunks' \in [Doc -> [1 .. ChunkCount -> Nat]] /\ chunks'[d][m] = chunks[d][m] + 1
      /\ \A i \in 1 .. ChunkCount : i # m => chunks'[d][i] = chunks[d][i]
      /\ \A e \in Doc : e # d => chunks'[e] = chunks[e]
  <2>1. chunks[d] \in [1 .. ChunkCount -> Nat]
    BY <1>2, <1>3
  <2> DEFINE f == [chunks[d] EXCEPT ![m] = @ + 1]
  <2>2. f \in [1 .. ChunkCount -> Nat] /\ f[m] = chunks[d][m] + 1
        /\ \A i \in 1 .. ChunkCount : i # m => f[i] = chunks[d][i]
    <3> HIDE DEF m, d
    <3>1. chunks[d][m] + 1 \in Nat
      <4>1. chunks[d][m] \in Nat
        BY <1>4, <2>1, Zenon
      <4> QED BY <4>1
    <3>2. f = [chunks[d] EXCEPT ![m] = chunks[d][m] + 1]
      OBVIOUS
    <3> QED BY <1>4, <2>1, <3>1, <3>2
  <2>3. chunks' = [chunks EXCEPT ![d] = f]
    BY <1>1
  <2> HIDE DEF f
  <2> QED BY <1>2, <1>3, <2>2, <2>3
<1>10. DocTypeOK'
  BY <1>1, <1>2, <1>3, <1>8, <1>9 DEF DocTypeOK, OpType
<1>11. StoreAgrees' /\ \A x \in DocCall : OpSound(x)'
  <2>1. (q.at = "put" => q.n < ChunkCount) /\ (q.at = "mark" => q.n = ChunkCount)
    BY <1>3, <1>4, <1>5, <1>7
  <2>2. op[c].at \in {"clear", "put", "mark"} /\ q.at \in {"put", "mark"}
    BY <1>1, <1>5, <1>7
  <2> QED BY <1>1, <1>6, <1>7, <2>1, <2>2, IndexerFrame
<1>12. \A x \in DocCall, e \in Doc : Indexing(x, e)' <=> Indexing(x, e)
  BY <1>1, <1>5, <1>7, <1>8 DEF Indexing, doc
<1>13. ASSUME NEW e \in Doc PROVE IndexAt(e)' /\ \A i \in 1 .. ChunkCount : CopyAt(e, i)'
  <2>1. CASE e # d
    <3>1. \A x \in DocCall : Indexing(x, e) => op'[x] = op[x]
      BY <1>8, <2>1 DEF Indexing
    <3> QED BY <1>1, <1>9, <1>10, <1>12, <2>1, <3>1, IndexFrame
  <2>2. CASE e = d
    <3>1. Indexing(c, e) /\ e \in rows
      BY <1>1, <2>2 DEF Indexing
    <3>2. IndexAt(e)'
      <4>1. SUFFICES ASSUME e \notin mixed PROVE IndexAt(e)'
        BY <1>1 DEF IndexAt
      <4>2. \A x \in DocCall : Indexing(x, e) <=> x = c
        BY <1>2, <3>1, <4>1 DEF IndexAt
      <4>3. \A i \in 1 .. ChunkCount : chunks[e][i] = IF i <= op[c].n THEN 1 ELSE 0
        BY <1>2, <3>1, <4>1 DEF IndexAt
      <4>4. ASSUME NEW i \in 1 .. ChunkCount PROVE chunks'[e][i] = IF i <= m THEN 1 ELSE 0
        <5>1. CASE i = m
          <6>1. chunks[e][i] = 0
            BY <1>3, <4>3, <5>1
          <6> QED BY <1>3, <1>9, <2>2, <5>1, <6>1
        <5>2. CASE i # m
          BY <1>3, <1>9, <2>2, <4>3, <5>2
        <5> QED BY <5>1, <5>2
      <4>5. op'[c].n = m
        BY <1>7, <1>8
      <4>6. \A x \in DocCall : Indexing(x, e)' <=> x = c
        BY <1>12, <4>2
      <4> HIDE DEF m
      <4> QED BY <4>4, <4>5, <4>6 DEF IndexAt
    <3>3. ASSUME NEW i \in 1 .. ChunkCount PROVE CopyAt(e, i)'
      <4>1. CopyAt(e, i) /\ chunks[e][i] \in Nat /\ chunks'[e][i] \in Nat
        <5>1. CopyAt(e, i)
          BY <1>2
        <5>2. chunks \in [Doc -> [1 .. ChunkCount -> Nat]] /\ chunks' \in [Doc -> [1 .. ChunkCount -> Nat]]
          BY <1>2, <1>9
        <5>3. chunks[e][i] \in Nat /\ chunks'[e][i] \in Nat
          BY <5>2
        <5> QED BY <5>1, <5>3
      <4>2. CASE i # m
        <5>1. c \in Pending(e, i)' => c \in Pending(e, i)
          BY <1>1, <1>3, <1>4, <1>5, <1>7, <1>8, <2>2, <4>2 DEF Pending, At
        <5>2. Pending(e, i)' \subseteq Pending(e, i)
          BY <1>8, <5>1 DEF Pending, At, doc
        <5>3. chunks'[e][i] <= chunks[e][i]
          BY <1>9, <2>2, <4>1, <4>2
        <5> QED BY <1>2, <1>10, <4>1, <5>2, <5>3, CopiesShrink
      <4>3. CASE i = m
        <5>1. c \in Pending(e, i) /\ c \notin Pending(e, i)'
          BY <1>1, <1>3, <1>4, <1>7, <1>8, <2>2, <4>3 DEF Pending, At
        <5>2. Pending(e, i)' \subseteq Pending(e, i) \ {c}
          BY <1>8, <5>1 DEF Pending, At, doc
        <5>3. IsFiniteSet(Pending(e, i)) /\ Cardinality(Pending(e, i)) \in Nat
              /\ Cardinality(DocCall) \in Nat
          BY PendingCounts, DocAssumption
        <5>4. IsFiniteSet(Pending(e, i) \ {c})
              /\ Cardinality(Pending(e, i) \ {c}) = Cardinality(Pending(e, i)) - 1
          BY <5>1, <5>3, FS_RemoveElement
        <5>5. Cardinality(Pending(e, i)') <= Cardinality(Pending(e, i)) - 1
              /\ Cardinality(Pending(e, i)') \in Nat
          BY <5>2, <5>4, FS_Subset, FS_CardinalityType
        <5>6. chunks'[e][i] = chunks[e][i] + 1
          BY <1>9, <2>2, <4>3
        <5> QED BY <4>1, <5>3, <5>5, <5>6 DEF CopyAt
      <4> QED BY <4>2, <4>3
    <3> QED BY <3>2, <3>3
  <2> QED BY <2>1, <2>2
<1> QED BY <1>10, <1>11, <1>13 DEF DocInv

LEMMA MarkIndexedStep ==
  ASSUME DocInv, NEW c \in DocCall, MarkIndexed(c) PROVE DocInv'
<1> DEFINE d == doc(c)
<1>1. /\ owner' = owner /\ drawn' = drawn /\ rows' = rows /\ files' = files
      /\ indexed' = indexed \cup ({d} \cap rows)
      /\ chunks' = chunks /\ torn' = torn /\ stray' = stray /\ mixed' = mixed
      /\ op[c].at = "mark" /\ op' = [op EXCEPT ![c] = Idle]
  BY DEF MarkIndexed, done, docHistory, At
<1>2. /\ DocTypeOK /\ OpSound(c) /\ op \in [DocCall -> OpType \cup {Idle}]
      /\ chunks \in [Doc -> [1 .. ChunkCount -> Nat]]
      /\ \A e \in Doc : IndexAt(e) /\ \A i \in 1 .. ChunkCount : CopyAt(e, i)
  BY DEF DocInv, DocTypeOK, OpType
<1>3. op[c] # Idle /\ d \in Doc /\ op[c].n = ChunkCount
  BY <1>1, <1>2 DEF OpSound, OpType, Idle, doc, At
<1>4. op' \in [DocCall -> OpType \cup {Idle}] /\ op'[c] = Idle
      /\ \A x \in DocCall : x # c => op'[x] = op[x]
  BY <1>1, <1>2
<1>5. DocTypeOK'
  BY <1>1, <1>2, <1>4 DEF DocTypeOK, OpType
<1>6. StoreAgrees' /\ \A x \in DocCall : OpSound(x)'
  <2>1. Idle.at = "idle"
    BY DEF Idle
  <2> QED BY <1>1, <2>1, IndexerFrame
<1>7. \A x \in DocCall, e \in Doc : Indexing(x, e)' <=> Indexing(x, e) /\ x # c
  BY <1>4 DEF Indexing, doc, Idle
<1>8. ASSUME NEW e \in Doc PROVE IndexAt(e)' /\ \A i \in 1 .. ChunkCount : CopyAt(e, i)'
  <2>1. CASE e # d
    <3>1. \A x \in DocCall : (Indexing(x, e)' <=> Indexing(x, e)) /\ (Indexing(x, e) => op'[x] = op[x])
      BY <1>4, <1>7, <2>1 DEF Indexing
    <3> QED BY <1>1, <1>5, <2>1, <3>1, IndexFrame
  <2>2. CASE e = d
    <3>1. IndexAt(e)'
      <4>1. SUFFICES ASSUME e \in rows \ mixed PROVE IndexAt(e)'
        BY <1>1 DEF IndexAt
      <4>2. Indexing(c, e)
        BY <1>1, <2>2 DEF Indexing
      <4>3. \A x \in DocCall : ~Indexing(x, e)'
        BY <1>2, <1>7, <4>1, <4>2 DEF IndexAt
      <4>4. \A i \in 1 .. ChunkCount : chunks[e][i] = 1
        BY <1>2, <1>3, <4>1, <4>2, DocAssumption DEF IndexAt
      <4>5. chunks[e] = Once
        BY <1>2, <4>4 DEF Once
      <4>6. chunks'[e] = Once /\ e \in indexed'
        BY <1>1, <2>2, <4>1, <4>5
      <4> QED BY <4>3, <4>6 DEF IndexAt, Once
    <3>2. ASSUME NEW i \in 1 .. ChunkCount PROVE CopyAt(e, i)'
      <4>1. Pending(e, i)' \subseteq Pending(e, i)
        BY <1>1, <1>4 DEF Pending, At, doc, Idle
      <4>2. chunks[e][i] \in Nat
        BY <1>2
      <4>3. chunks'[e][i] <= chunks[e][i]
        BY <1>1, <4>2
      <4> QED BY <1>2, <1>5, <4>1, <4>3, CopiesShrink
    <3> QED BY <3>1, <3>2
  <2> QED BY <2>1, <2>2
<1> QED BY <1>5, <1>6, <1>8 DEF DocInv

LEMMA BreaksStep ==
  ASSUME DocInv, NEW c \in DocCall, Breaks(c) PROVE DocInv'
<1> DEFINE d == doc(c)
<1>1. /\ owner' = owner /\ drawn' = drawn /\ rows' = rows /\ files' = files /\ indexed' = indexed
      /\ chunks' = chunks
      /\ torn' = (IF op[c].at = "drop" THEN torn \cup {d} ELSE torn)
      /\ stray' = (IF op[c].at = "insert" THEN stray \cup {d} ELSE stray)
      /\ mixed' = (IF op[c].at \in {"put", "mark"} THEN mixed \cup {d} ELSE mixed)
      /\ op[c] # Idle /\ op' = [op EXCEPT ![c] = Idle]
  BY DEF Breaks, done, docStore, At
<1>2. /\ DocTypeOK /\ StoreAgrees /\ (\A x \in DocCall : OpSound(x))
      /\ op \in [DocCall -> OpType \cup {Idle}] /\ chunks \in [Doc -> [1 .. ChunkCount -> Nat]]
  BY DEF DocInv, DocTypeOK, OpType
<1>3. d \in Doc
  BY <1>1, <1>2 DEF OpType, doc
<1>4. op' \in [DocCall -> OpType \cup {Idle}] /\ op'[c] = Idle
      /\ \A x \in DocCall : x # c => op'[x] = op[x]
  BY <1>1, <1>2
<1>5. torn' \subseteq Doc /\ stray' \subseteq Doc /\ mixed' \subseteq Doc
  BY <1>1, <1>2, <1>3 DEF DocTypeOK
<1>6. DocTypeOK'
  BY <1>1, <1>2, <1>4, <1>5 DEF DocTypeOK, OpType
<1>7. StoreAgrees'
  <2>1. ASSUME NEW e \in rows' \ files' PROVE e \in torn' \/ Busy(e, {"drop"})' # {}
    <3>1. CASE op[c].at = "drop" /\ d = e
      BY <1>1, <3>1
    <3>2. CASE ~(op[c].at = "drop" /\ d = e)
      BY <1>1, <1>2, <1>4, <3>2 DEF StoreAgrees, Busy, doc
    <3> QED BY <3>1, <3>2
  <2>2. ASSUME NEW e \in files' \ rows' PROVE e \in stray' \/ Busy(e, {"insert"})' # {}
    <3>1. CASE op[c].at = "insert" /\ d = e
      BY <1>1, <3>1
    <3>2. CASE ~(op[c].at = "insert" /\ d = e)
      BY <1>1, <1>2, <1>4, <3>2 DEF StoreAgrees, Busy, doc
    <3> QED BY <3>1, <3>2
  <2> QED BY <2>1, <2>2 DEF StoreAgrees
<1>8. ASSUME NEW x \in DocCall PROVE OpSound(x)'
  <2>1. CASE x = c
    BY <1>4, <2>1 DEF OpSound, At, Idle
  <2>2. CASE x # c
    <3>1. op'[x] = op[x] /\ OpSound(x)
      BY <1>2, <1>4, <2>2
    <3>2. At(x, "insert") => \A y \in DocCall \ {x} : op'[y] # Idle => op'[y].doc # doc(x)
      BY <1>4, <3>1 DEF OpSound, doc
    <3> QED BY <1>1, <3>1, <3>2 DEF OpSound, At, doc
  <2> QED BY <2>1, <2>2
<1>9. ASSUME NEW e \in Doc PROVE IndexAt(e)' /\ \A i \in 1 .. ChunkCount : CopyAt(e, i)'
  <2>1. CASE ~Indexing(c, e)
    <3>1. \A x \in DocCall : (Indexing(x, e)' <=> Indexing(x, e)) /\ (Indexing(x, e) => op'[x] = op[x])
      BY <1>4, <2>1 DEF Indexing, doc, Idle
    <3>2. e \in mixed' <=> e \in mixed
      BY <1>1, <2>1 DEF Indexing
    <3> QED BY <1>1, <1>6, <3>1, <3>2, IndexFrame
  <2>2. CASE Indexing(c, e)
    <3>1. e \in mixed'
      BY <1>1, <2>2 DEF Indexing
    <3>2. IndexAt(e)'
      BY <3>1 DEF IndexAt
    <3>3. ASSUME NEW i \in 1 .. ChunkCount PROVE CopyAt(e, i)'
      <4>1. Pending(e, i)' \subseteq Pending(e, i)
        BY <1>4 DEF Pending, At, doc, Idle
      <4>2. chunks[e][i] \in Nat
        BY <1>2
      <4>3. chunks'[e][i] <= chunks[e][i]
        BY <1>1, <4>2
      <4>4. CopyAt(e, i)
        BY DEF DocInv
      <4> QED BY <1>2, <1>6, <4>1, <4>3, <4>4, CopiesShrink
    <3> QED BY <3>2, <3>3
  <2> QED BY <2>1, <2>2
<1> QED BY <1>6, <1>7, <1>8, <1>9 DEF DocInv

LEMMA DeleteOwnerStep ==
  ASSUME DocInv, DeleteOwner PROVE DocInv'
<1>1. /\ owner' = FALSE /\ rows' = {} /\ indexed' = {} /\ chunks' = [d \in Doc |-> None]
      /\ stray' = stray \cup rows /\ drawn' = drawn /\ files' = files /\ op' = op
      /\ torn' = torn /\ mixed' = mixed
  BY DEF DeleteOwner
<1>2. /\ DocTypeOK /\ StoreAgrees /\ (\A x \in DocCall : OpSound(x))
      /\ rows \cup files \subseteq drawn /\ drawn \subseteq Doc
  BY DEF DocInv, DocTypeOK
<1>3. owner' \in BOOLEAN
  BY <1>1, Zenon
<1>4. None \in [1 .. ChunkCount -> Nat]
  BY DEF None
<1>5. DocTypeOK'
  BY <1>1, <1>2, <1>3, <1>4 DEF DocTypeOK
<1>6. StoreAgrees'
  BY <1>1, <1>2 DEF StoreAgrees, Busy, doc
<1>7. \A x \in DocCall : OpSound(x)'
  BY <1>1, <1>2 DEF OpSound, At, doc
<1>8. ASSUME NEW e \in Doc, NEW i \in 1 .. ChunkCount PROVE CopyAt(e, i)'
  <2>1. chunks'[e][i] = 0
    BY <1>1 DEF None
  <2> QED BY <2>1, CopiesGone
<1>9. \A e \in Doc : IndexAt(e)'
  BY <1>1 DEF IndexAt
<1> QED BY <1>5, <1>6, <1>7, <1>8, <1>9 DEF DocInv

LEMMA DocInvariant == DocSpec => []DocInv
<1>1. DocInv /\ [DocNext]_docVars => DocInv'
  <2> SUFFICES ASSUME DocInv, [DocNext]_docVars PROVE DocInv'
    OBVIOUS
  <2>1. ASSUME NEW c \in DocCall, DocStep(c) PROVE DocInv'
    BY <2>1, QuietSteps, UploadStep, InsertStep, UnlinkStep, DropStep, ClearChunksStep, PutStep,
       MarkIndexedStep, BreaksStep DEF DocStep
  <2>2. CASE UNCHANGED docVars
    <3>1. /\ owner' = owner /\ drawn' = drawn /\ rows' = rows /\ files' = files
          /\ indexed' = indexed /\ chunks' = chunks /\ op' = op /\ torn' = torn
          /\ stray' = stray /\ mixed' = mixed
      BY <2>2 DEF docVars, docStore, docHistory
    <3>2. DocTypeOK' /\ StoreAgrees' /\ \A x \in DocCall : OpSound(x)'
      BY <3>1 DEF DocInv, DocTypeOK, StoreAgrees, Busy, OpSound, At, doc
    <3>3. \A d \in Doc : IndexAt(d)' /\ \A i \in 1 .. ChunkCount : CopyAt(d, i)'
      BY <3>1, <3>2, IndexFrame DEF Indexing, doc
    <3> QED BY <3>2, <3>3 DEF DocInv
  <2> QED BY <2>1, <2>2, DeleteOwnerStep DEF DocNext
<1> QED BY <1>1, InitDocInv, PTL DEF DocSpec

\* Files, rows and chunks agree (documents.py, rag.py), for any number of documents,
\* chunks and concurrent requests, wherever they fail: upload_document and
\* delete_document leave a file and a row or neither, an undisturbed index_document
\* stores every chunk once, and copies never outnumber the requests.
THEOREM StoreSoundHolds == DocSpec => []StoreSound
<1>1. DocInv => StoreSound
  <2> SUFFICES ASSUME DocInv PROVE StoreSound
    OBVIOUS
  <2>1. StoreAgrees
    BY DEF DocInv
  <2>2. IndexSettled
    BY DEF DocInv, IndexAt, Indexing, IndexSettled, Busy, DocTypeOK
  <2>3. ASSUME NEW d \in Doc, NEW i \in 1 .. ChunkCount
        PROVE  chunks[d][i] <= Cardinality(DocCall)
    <3>1. CopyAt(d, i) /\ chunks[d][i] \in Nat
      BY DEF DocInv, DocTypeOK
    <3> QED BY <3>1, PendingCounts, DocAssumption DEF CopyAt
  <2> QED BY <2>1, <2>2, <2>3 DEF StoreSound, IndexSound, CopiesBounded
<1> QED BY <1>1, DocInvariant, PTL

-----------------------------------------------------------------------------
(* The Slack bot *)

WorkType == [at : {"verify", "mark", "ack", "installer", "user", "post", "end"},
             mention : Mention, first : BOOLEAN, as : Admin \cup {"null"}]

\* k is the delivery whose INSERT claimed the mention e.
Claims(k, e) == work[k] # Fresh /\ mention(k) = e /\ work[k].first

DeliverySound(k) ==
  /\ work[k].at \in {"verify", "mark"} => ~work[k].first
  /\ work[k].at \in {"installer", "user", "post"} => work[k].first
  /\ \A e \in Mention : Claims(k, e) => e \in seen

OneClaim == \A e \in Mention, j, k \in Delivery : Claims(j, e) /\ Claims(k, e) => j = k

\* A reply was the last step of the claimer.
ReplySound(e) ==
  replies[e] = 0 \/ (replies[e] = 1 /\ \E k \in Delivery : Claims(k, e) /\ work[k].at = "end")

Unsettled(e) == \E k \in Delivery : Claims(k, e) /\ work[k].at # "end"

MentionInv ==
  /\ work \in [Delivery -> WorkType \cup {Fresh}] /\ replies \in [Mention -> Nat]
  /\ seen \subseteq Mention /\ acked \subseteq Mention
  /\ handled \subseteq Mention /\ lost \subseteq Mention
  /\ \A k \in Delivery : DeliverySound(k)
  /\ OneClaim
  /\ \A e \in Mention : ReplySound(e)
  /\ \A e \in seen : e \in handled \cup lost \/ Unsettled(e)

\* The record of a delivery with its label and one more field replaced.
LEMMA RelabelledAs ==
  ASSUME NEW w \in WorkType, NEW l, NEW a
  PROVE  [w EXCEPT !.at = l, !.as = a]
           = [at |-> l, mention |-> w.mention, first |-> w.first, as |-> a]
<1> DEFINE r == [at |-> l, mention |-> w.mention, first |-> w.first, as |-> w.as]
<1>1. [w EXCEPT !.at = l] = r
  BY DEF WorkType
<1>2. [w EXCEPT !.at = l, !.as = a] = [[w EXCEPT !.at = l] EXCEPT !.as = a]
  OBVIOUS
<1>3. [r EXCEPT !.as = a] = [at |-> l, mention |-> w.mention, first |-> w.first, as |-> a]
  OBVIOUS
<1> QED BY <1>1, <1>2, <1>3

LEMMA RelabelledFirst ==
  ASSUME NEW w \in WorkType, NEW l, NEW b \in BOOLEAN
  PROVE  [w EXCEPT !.at = l, !.first = b]
           = [at |-> l, mention |-> w.mention, first |-> b, as |-> w.as]
<1> DEFINE r == [at |-> l, mention |-> w.mention, first |-> w.first, as |-> w.as]
<1>1. [w EXCEPT !.at = l] = r
  BY DEF WorkType
<1>2. [w EXCEPT !.at = l, !.first = b] = [[w EXCEPT !.at = l] EXCEPT !.first = b]
  OBVIOUS
<1>3. [r EXCEPT !.first = b] = [at |-> l, mention |-> w.mention, first |-> b, as |-> w.as]
  OBVIOUS
<1> QED BY <1>1, <1>2, <1>3

\* A delivery or its task goes on to q, with its mention and its claim.
LEMMA TaskStep ==
  ASSUME MentionInv, NEW k \in Delivery, NEW q \in WorkType,
         work' = [work EXCEPT ![k] = q],
         work[k] \in WorkType, work[k].at # "end",
         q.mention = mention(k), q.first <=> work[k].first,
         q.at \in {"verify", "mark"} => ~q.first,
         q.at \in {"installer", "user", "post"} => q.first,
         seen' = seen, acked' \subseteq Mention,
         handled \subseteq handled', handled' \subseteq Mention,
         lost \subseteq lost', lost' \subseteq Mention,
         q.at = "end" /\ q.first => mention(k) \in handled' \cup lost',
         \/ replies' = replies
         \/ replies' = [replies EXCEPT ![mention(k)] = @ + 1] /\ q.at = "end" /\ q.first
  PROVE  MentionInv'
<1> DEFINE d == mention(k)
<1>1. /\ work \in [Delivery -> WorkType \cup {Fresh}] /\ replies \in [Mention -> Nat]
      /\ seen \subseteq Mention /\ (\A x \in Delivery : DeliverySound(x)) /\ OneClaim
      /\ (\A e \in Mention : ReplySound(e))
      /\ (\A e \in seen : e \in handled \cup lost \/ Unsettled(e))
  BY DEF MentionInv
<1>2. d \in Mention /\ work[k] # Fresh /\ q # Fresh
  BY DEF WorkType, Fresh, mention
<1>3. work' \in [Delivery -> WorkType \cup {Fresh}] /\ replies' \in [Mention -> Nat]
  BY <1>1, <1>2
<1>4. /\ work'[k] = q /\ \A x \in Delivery : x # k => work'[x] = work[x]
  BY <1>1
<1>5. \A x \in Delivery, e \in Mention : Claims(x, e)' <=> Claims(x, e)
  BY <1>2, <1>4 DEF Claims, mention
<1>6. ASSUME NEW x \in Delivery PROVE DeliverySound(x)'
  <2>1. \A e \in Mention : Claims(x, e)' => e \in seen'
    BY <1>1, <1>5 DEF DeliverySound
  <2>2. CASE x = k
    BY <1>4, <2>1, <2>2 DEF DeliverySound
  <2>3. CASE x # k
    BY <1>1, <1>4, <2>1, <2>3 DEF DeliverySound
  <2> QED BY <2>2, <2>3
<1>7. OneClaim'
  BY <1>1, <1>5 DEF OneClaim
<1>8. ASSUME NEW e \in Mention PROVE ReplySound(e)'
  <2>1. CASE replies'[e] = replies[e]
    <3>1. CASE replies[e] = 0
      BY <2>1, <3>1 DEF ReplySound
    <3>2. CASE replies[e] # 0
      <4>1. replies[e] = 1
        BY <1>1, <3>2 DEF ReplySound
      <4>2. PICK x \in Delivery : Claims(x, e) /\ work[x].at = "end"
        BY <1>1, <3>2 DEF ReplySound
      <4>3. Claims(x, e)' /\ work'[x].at = "end"
        BY <1>4, <1>5, <4>2
      <4> QED BY <2>1, <4>1, <4>3 DEF ReplySound
    <3> QED BY <3>1, <3>2
  <2>2. CASE replies'[e] # replies[e]
    <3>1. /\ e = d /\ q.at = "end" /\ q.first /\ replies'[e] = replies[e] + 1
      BY <1>1, <1>2, <2>2
    <3>2. Claims(k, e)
      BY <1>2, <3>1 DEF Claims
    <3>3. ~ \E x \in Delivery : Claims(x, e) /\ work[x].at = "end"
      BY <1>1, <3>2 DEF OneClaim
    <3>4. replies[e] = 0
      BY <1>1, <3>3 DEF ReplySound
    <3>5. Claims(k, e)' /\ work'[k].at = "end"
      BY <1>4, <1>5, <3>1, <3>2
    <3> QED BY <3>1, <3>4, <3>5 DEF ReplySound
  <2> QED BY <2>1, <2>2
<1>9. ASSUME NEW e \in seen' PROVE e \in handled' \cup lost' \/ Unsettled(e)'
  <2>1. SUFFICES ASSUME e \notin handled' \cup lost' PROVE Unsettled(e)'
    OBVIOUS
  <2>2. PICK x \in Delivery : Claims(x, e) /\ work[x].at # "end"
    BY <1>1, <2>1 DEF Unsettled
  <2>3. Claims(x, e)'
    BY <1>1, <1>5, <2>2
  <2>4. CASE x = k
    <3>1. q.at # "end"
      BY <2>1, <2>2, <2>4 DEF Claims
    <3> QED BY <1>4, <2>3, <2>4, <3>1 DEF Unsettled
  <2>5. CASE x # k
    BY <1>4, <2>2, <2>3, <2>5 DEF Unsettled
  <2> QED BY <2>4, <2>5
<1> QED BY <1>1, <1>3, <1>6, <1>7, <1>8, <1>9 DEF MentionInv

\* A new delivery claims nothing.
LEMMA DeliverStep ==
  ASSUME MentionInv, NEW k \in Delivery, NEW e \in Mention, Deliver(k, e) PROVE MentionInv'
<1> DEFINE q == [at |-> "verify", mention |-> e, first |-> FALSE, as |-> "null"]
<1>1. /\ work \in [Delivery -> WorkType \cup {Fresh}] /\ work[k] = Fresh
      /\ work' = [work EXCEPT ![k] = q]
      /\ seen' = seen /\ acked' = acked /\ replies' = replies /\ handled' = handled /\ lost' = lost
  BY DEF MentionInv, Deliver
<1>2. q \in WorkType /\ q.at = "verify" /\ ~q.first /\ q # Fresh
  BY DEF WorkType, Fresh
<1> HIDE DEF q
<1>3. work' \in [Delivery -> WorkType \cup {Fresh}] /\ work'[k] = q
      /\ \A x \in Delivery : x # k => work'[x] = work[x]
  BY <1>1, <1>2
<1>4. \A x \in Delivery, d \in Mention : Claims(x, d)' <=> Claims(x, d)
  BY <1>1, <1>2, <1>3 DEF Claims, mention
<1>5. ASSUME NEW x \in Delivery PROVE DeliverySound(x)'
  <2>1. \A d \in Mention : Claims(x, d)' => d \in seen'
    BY <1>1, <1>4 DEF MentionInv, DeliverySound
  <2> QED BY <1>2, <1>3, <2>1 DEF MentionInv, DeliverySound
<1>6. \A x \in Delivery, d \in Mention : Claims(x, d) => x # k /\ work'[x] = work[x]
  BY <1>1, <1>3 DEF Claims
<1>7. OneClaim'
  BY <1>4 DEF MentionInv, OneClaim
<1>8. \A d \in Mention : ReplySound(d)'
  BY <1>1, <1>4, <1>6 DEF MentionInv, ReplySound
<1>9. \A d \in seen' : d \in handled' \cup lost' \/ Unsettled(d)'
  BY <1>1, <1>4, <1>6 DEF MentionInv, Unsettled
<1> QED BY <1>1, <1>3, <1>5, <1>7, <1>8, <1>9 DEF MentionInv

\* The INSERT: the mention is claimed by whoever finds it unseen.
LEMMA MarkStep ==
  ASSUME MentionInv, NEW k \in Delivery, MarkEvent(k) PROVE MentionInv'
<1> DEFINE d == mention(k)
           new == d \notin seen
           q == [at |-> "ack", mention |-> d, first |-> new, as |-> work[k].as]
<1>1. /\ work \in [Delivery -> WorkType \cup {Fresh}] /\ work[k].at = "mark" /\ DeliverySound(k)
      /\ work' = [work EXCEPT ![k].at = "ack", ![k].first = new] /\ seen' = seen \cup {d}
      /\ acked' = acked /\ replies' = replies /\ handled' = handled /\ lost' = lost
  BY DEF MentionInv, MarkEvent, Doing
<1>2. work[k] \in WorkType /\ work[k] # Fresh /\ d \in Mention /\ ~work[k].first
  BY <1>1 DEF WorkType, Fresh, mention, DeliverySound
<1>3. new \in BOOLEAN
  OBVIOUS
<1>4. work' = [work EXCEPT ![k] = q]
  <2>0. k \in DOMAIN work
    BY <1>1
  <2> HIDE DEF new
  <2>1. work' = [work EXCEPT ![k] = [work[k] EXCEPT !.at = "ack", !.first = new]]
    BY <1>1, <2>0, Zenon
  <2>2. [work[k] EXCEPT !.at = "ack", !.first = new] = q
    <3>1. [work[k] EXCEPT !.at = "ack", !.first = new]
            = [at |-> "ack", mention |-> work[k].mention, first |-> new, as |-> work[k].as]
      BY <1>2, <1>3, RelabelledFirst
    <3> QED BY <3>1, Zenon DEF mention
  <2> QED BY <2>1, <2>2
<1>5. q \in WorkType
  <2> HIDE DEF new
  <2> QED BY <1>2, <1>3 DEF WorkType
<1>6. q.at = "ack" /\ q.mention = d /\ (q.first <=> new) /\ q # Fresh
  BY DEF Fresh
<1> HIDE DEF q
<1>7. work' \in [Delivery -> WorkType \cup {Fresh}] /\ work'[k] = q
      /\ \A x \in Delivery : x # k => work'[x] = work[x]
  BY <1>1, <1>4, <1>5
<1>8. /\ \A x \in Delivery, e \in Mention : x # k => (Claims(x, e)' <=> Claims(x, e))
      /\ \A e \in Mention : ~Claims(k, e)
      /\ \A e \in Mention : Claims(k, e)' <=> (e = d /\ new)
  BY <1>2, <1>6, <1>7 DEF Claims, mention
<1> HIDE DEF new
<1>9. ASSUME NEW x \in Delivery PROVE DeliverySound(x)'
  <2>1. \A e \in Mention : Claims(x, e)' => e \in seen'
    BY <1>1, <1>8 DEF MentionInv, DeliverySound
  <2>2. CASE x = k
    BY <1>6, <1>7, <2>1, <2>2 DEF DeliverySound
  <2>3. CASE x # k
    BY <1>7, <2>1, <2>3 DEF MentionInv, DeliverySound
  <2> QED BY <2>2, <2>3
<1>10. new => \A x \in Delivery : ~Claims(x, d)
  BY <1>2 DEF new, MentionInv, DeliverySound
<1>11. OneClaim'
  BY <1>8, <1>10 DEF MentionInv, OneClaim
<1>12. \A e \in Mention, x \in Delivery : Claims(x, e) => Claims(x, e)' /\ work'[x] = work[x]
  BY <1>7, <1>8
<1>13. \A e \in Mention : ReplySound(e)'
  BY <1>1, <1>12 DEF MentionInv, ReplySound
<1>14. ASSUME NEW e \in seen' PROVE e \in handled' \cup lost' \/ Unsettled(e)'
  <2>1. CASE e \in seen
    BY <1>1, <1>12, <2>1 DEF MentionInv, Unsettled
  <2>2. CASE e \notin seen
    <3>1. e = d /\ new
      BY <1>1, <2>2 DEF new
    <3> QED BY <1>2, <1>6, <1>7, <1>8, <3>1 DEF Unsettled
  <2> QED BY <2>1, <2>2
<1> QED BY <1>1, <1>2, <1>7, <1>9, <1>11, <1>13, <1>14 DEF MentionInv

LEMMA ServeStep ==
  ASSUME MentionInv, NEW k \in Delivery, Serve(k) PROVE MentionInv'
<1> DEFINE d == mention(k)
           to(l) == [at |-> l, mention |-> d, first |-> work[k].first, as |-> work[k].as]
<1>1. /\ work \in [Delivery -> WorkType \cup {Fresh}] /\ replies \in [Mention -> Nat]
      /\ seen \subseteq Mention /\ acked \subseteq Mention /\ handled \subseteq Mention
      /\ lost \subseteq Mention /\ DeliverySound(k)
  BY DEF MentionInv
<1>2. ASSUME work[k].at \in {"verify", "mark", "ack", "installer", "user", "post"}
      PROVE  work[k] \in WorkType /\ work[k].at # "end" /\ d \in Mention /\ work[k].first \in BOOLEAN
  BY <1>1, <1>2 DEF WorkType, Fresh, mention
<1>3. ASSUME work[k] \in WorkType, NEW l \in {"mark", "installer", "user", "post", "end"}, next(k, l)
      PROVE  /\ work' = [work EXCEPT ![k] = to(l)] /\ to(l) \in WorkType
             /\ to(l).mention = d /\ (to(l).first <=> work[k].first) /\ to(l).at = l
  <2>1. [work[k] EXCEPT !.at = l] = to(l) /\ to(l) \in WorkType
    BY <1>3 DEF WorkType, mention
  <2> QED BY <1>3, <2>1 DEF next
<1> HIDE DEF to
<1>4. CASE Verify(k)
  <2>1. PICK l \in {"mark", "end"} : next(k, l)
    BY <1>4 DEF Verify
  <2>2. work[k].at = "verify" /\ seen' = seen /\ acked' = acked /\ replies' = replies
        /\ handled' = handled /\ lost' = lost
    BY <1>4 DEF Verify, Doing
  <2>3. ~work[k].first
    BY <1>1, <2>2 DEF DeliverySound
  <2> QED BY <1>1, <1>2, <1>3, <2>1, <2>2, <2>3, TaskStep
<1>5. ASSUME NEW intime \in BOOLEAN, Ack(k, intime) PROVE MentionInv'
  <2>1. work[k].at = "ack" /\ seen' = seen /\ replies' = replies /\ handled' = handled /\ lost' = lost
        /\ acked' \subseteq acked \cup {d}
    BY <1>5 DEF Ack, Doing
  <2>2. PICK l \in {"installer", "end"} : next(k, l) /\ (l = "installer" <=> work[k].first)
    BY <1>5 DEF Ack
  <2> QED BY <1>1, <1>2, <1>3, <2>1, <2>2, TaskStep
<1>6. ASSUME NEW usable \in BOOLEAN, Installer(k, usable) PROVE MentionInv'
  <2>1. work[k].at = "installer" /\ seen' = seen /\ acked' = acked /\ replies' = replies /\ lost' = lost
    BY <1>6 DEF Installer, Doing
  <2>2. work[k] \in WorkType /\ work[k].first /\ d \in Mention
    BY <1>1, <1>2, <2>1 DEF DeliverySound
  <2>3. CASE usable /\ installed.by \in Admin
    <3> DEFINE q == [at |-> "user", mention |-> d, first |-> work[k].first, as |-> installed.by]
    <3>1. work' = [work EXCEPT ![k].at = "user", ![k].as = installed.by] /\ handled' = handled
      BY <1>6, <2>3 DEF Installer
    <3>2. work' = [work EXCEPT ![k] = q] /\ q \in WorkType
      <4>1. work' = [work EXCEPT ![k] = [work[k] EXCEPT !.at = "user", !.as = installed.by]]
        BY <1>1, <3>1
      <4>2. [work[k] EXCEPT !.at = "user", !.as = installed.by] = q
        BY <2>2, RelabelledAs DEF mention
      <4>3. q \in WorkType
        BY <1>2, <2>1, <2>3 DEF WorkType, mention
      <4> QED BY <4>1, <4>2, <4>3
    <3>3. q.at = "user" /\ q.mention = d /\ (q.first <=> work[k].first)
      OBVIOUS
    <3> HIDE DEF q
    <3> QED BY <1>1, <1>2, <2>1, <2>2, <3>1, <3>2, <3>3, TaskStep
  <2>4. CASE ~(usable /\ installed.by \in Admin)
    <3>1. next(k, "end") /\ handled' = handled \cup {d}
      BY <1>6, <2>4 DEF Installer, EndTask
    <3> QED BY <1>1, <1>2, <1>3, <2>1, <2>2, <3>1, TaskStep
  <2> QED BY <2>3, <2>4
<1>7. CASE BotUser(k)
  <2>1. work[k].at = "user" /\ seen' = seen /\ acked' = acked /\ replies' = replies /\ lost' = lost
    BY <1>7 DEF BotUser, Doing
  <2>2. work[k] \in WorkType /\ work[k].first /\ d \in Mention
    BY <1>1, <1>2, <2>1 DEF DeliverySound
  <2>3. PICK l \in {"post", "end"} : next(k, l) /\ (l = "end" => handled' = handled \cup {d})
                                     /\ (l = "post" => handled' = handled)
    BY <1>7 DEF BotUser, EndTask
  <2> QED BY <1>1, <1>2, <1>3, <2>1, <2>2, <2>3, TaskStep
<1>8. ASSUME NEW ok \in BOOLEAN, Post(k, ok) PROVE MentionInv'
  <2>1. work[k].at = "post" /\ seen' = seen /\ acked' = acked /\ lost' = lost
        /\ next(k, "end") /\ handled' = handled \cup {d}
        /\ (replies' = replies \/ replies' = [replies EXCEPT ![d] = @ + 1])
    BY <1>8 DEF Post, Doing, EndTask
  <2>2. work[k] \in WorkType /\ work[k].first /\ d \in Mention
    BY <1>1, <1>2, <2>1 DEF DeliverySound
  <2> QED BY <1>1, <1>2, <1>3, <2>1, <2>2, TaskStep
<1>9. CASE Drop(k)
  <2>1. work[k].at \in {"verify", "mark", "ack", "installer", "user", "post"} /\ next(k, "end")
        /\ lost' = (IF work[k].first THEN lost \cup {d} ELSE lost)
        /\ seen' = seen /\ acked' = acked /\ replies' = replies /\ handled' = handled
    BY <1>9 DEF Drop
  <2> QED BY <1>1, <1>2, <1>3, <2>1, TaskStep
<1> QED BY <1>4, <1>5, <1>6, <1>7, <1>8, <1>9, DeliverStep, MarkStep DEF Serve

LEMMA MentionInvariant == BotSpec => []MentionInv
<1>1. BotInit => MentionInv
  BY DEF BotInit, MentionInv, DeliverySound, OneClaim, ReplySound, Claims, Fresh
<1>2. MentionInv /\ [BotNext]_botVars => MentionInv'
  <2> SUFFICES ASSUME MentionInv, [BotNext]_botVars PROVE MentionInv'
    OBVIOUS
  <2>1. CASE UNCHANGED slackVars
    <3>1. /\ seen' = seen /\ work' = work /\ acked' = acked /\ replies' = replies
          /\ handled' = handled /\ lost' = lost
      BY <2>1 DEF slackVars
    <3> QED BY <3>1 DEF MentionInv, DeliverySound, OneClaim, ReplySound, Unsettled, Claims, mention
  <2>2. ASSUME NEW a \in Admin, Administer(a) PROVE UNCHANGED slackVars
    BY <2>2 DEF Administer, InstallRead, InstallWrite, ChangeUser
  <2>3. (\E b \in BOOLEAN : Toggle(b)) \/ Uninstall => UNCHANGED slackVars
    BY DEF Toggle, Uninstall
  <2>4. UNCHANGED botVars => UNCHANGED slackVars
    BY DEF botVars
  <2> QED BY <2>1, <2>2, <2>3, <2>4, ServeStep DEF BotNext
<1> QED BY <1>1, <1>2, PTL DEF BotSpec

\* _mark_event and _handle_mention answer a mention at most once, and one that was
\* claimed is answered, in work or lost with its claimer, however often Slack
\* delivers it.
THEOREM MentionsSettleHolds == BotSpec => []MentionsSettle
<1>1. MentionInv => MentionsSettle
  BY DEF MentionInv, MentionsSettle, RepliedOnce, ClaimKept, ReplySound, Unsettled, Claims
<1> QED BY <1>1, MentionInvariant, PTL

RowType == [enabled : BOOLEAN, token : 0 .. MaxInstalls, secret : 0 .. MaxInstalls,
            by : Admin \cup {"null"}]
FormType == [at : {"write"}, token : 0 .. MaxInstalls, secret : 0 .. MaxInstalls, late : BOOLEAN]

MarketTypeOK ==
  /\ installed \in RowType /\ (installed = NoRow \/ installed.token # 0)
  /\ standing \in [Admin -> {"active", "disabled", "deleted"}]
  /\ submitted \in 0 .. MaxInstalls /\ clash \in BOOLEAN
  /\ form \in [Admin -> FormType \cup {NoForm}]

Stored == installed.token = wanted.token /\ installed.secret = wanted.secret

\* What a request read that nothing overtook is what is stored.
FormSeen(a) ==
  form[a] # NoForm /\ ~form[a].late =>
    form[a].token = installed.token /\ form[a].secret = installed.secret

ConfigInv == MarketTypeOK /\ (~clash => Stored) /\ \A a \in Admin : FormSeen(a)

LEMMA InitConfigInv == BotInit => ConfigInv
<1> SUFFICES ASSUME BotInit PROVE ConfigInv
  OBVIOUS
<1>1. NoRow \in RowType
  BY BotAssumption DEF RowType, NoRow
<1>2. clash \in BOOLEAN
  BY Zenon DEF BotInit
<1>3. MarketTypeOK
  BY <1>1, <1>2, BotAssumption DEF BotInit, MarketTypeOK
<1>4. Stored /\ \A a \in Admin : FormSeen(a)
  BY DEF BotInit, Stored, NoRow, FormSeen
<1> QED BY <1>3, <1>4 DEF ConfigInv

\* Overtaken requests are late.
LEMMA OvertakenForms ==
  ASSUME form \in [Admin -> FormType \cup {NoForm}]
  PROVE  /\ Overtaken \in [Admin -> FormType \cup {NoForm}]
         /\ \A a \in Admin : Overtaken[a] # NoForm => Overtaken[a].late
<1>1. ASSUME NEW a \in Admin
      PROVE  /\ Overtaken[a] \in FormType \cup {NoForm}
             /\ Overtaken[a] # NoForm => Overtaken[a].late
  <2>1. CASE form[a] = NoForm
    BY <2>1 DEF Overtaken
  <2>2. CASE form[a] # NoForm
    <3>1. form[a] \in FormType
      BY <2>2
    <3> DEFINE r == [at |-> form[a].at, token |-> form[a].token, secret |-> form[a].secret, late |-> TRUE]
    <3>2. [form[a] EXCEPT !.late = TRUE] = r
      <4>1. ASSUME NEW b \in BOOLEAN
            PROVE  [form[a] EXCEPT !.late = b]
                     = [at |-> form[a].at, token |-> form[a].token, secret |-> form[a].secret, late |-> b]
        BY <3>1 DEF FormType
      <4> QED BY <4>1, Zenon
    <3>3. r \in FormType /\ r.late
      BY <3>1 DEF FormType
    <3> QED BY <2>2, <3>2, <3>3 DEF Overtaken
  <2> QED BY <2>1, <2>2
<1>2. Overtaken = [a \in Admin |-> Overtaken[a]]
  BY DEF Overtaken
<1> QED BY <1>1, <1>2

LEMMA InstallReadStep ==
  ASSUME ConfigInv, NEW a \in Admin, InstallRead(a) PROVE ConfigInv'
<1> DEFINE r == [at |-> "write", token |-> installed.token, secret |-> installed.secret, late |-> FALSE]
<1>1. /\ form' = [form EXCEPT ![a] = r] /\ installed' = installed /\ standing' = standing
      /\ submitted' = submitted /\ wanted' = wanted /\ clash' = clash
  BY DEF InstallRead
<1>2. r \in FormType /\ r.token = installed.token /\ r.secret = installed.secret
  BY DEF ConfigInv, MarketTypeOK, RowType, FormType
<1> HIDE DEF r
<1>3. form \in [Admin -> FormType \cup {NoForm}]
  BY DEF ConfigInv, MarketTypeOK
<1>4. form' \in [Admin -> FormType \cup {NoForm}]
  BY <1>1, <1>2, <1>3
<1>5. MarketTypeOK'
  BY <1>1, <1>4 DEF ConfigInv, MarketTypeOK
<1>6. \A x \in Admin : FormSeen(x)'
  BY <1>1, <1>2, <1>3 DEF ConfigInv, FormSeen
<1> QED BY <1>1, <1>5, <1>6 DEF ConfigInv, Stored

LEMMA InstallWriteStep ==
  ASSUME ConfigInv, NEW a \in Admin, NEW fields \in SUBSET {"token", "secret"},
         InstallWrite(a, fields)
  PROVE  ConfigInv'
<1> DEFINE cfg == Merge(a, fields)
<1>1. /\ installed \in RowType /\ standing \in [Admin -> {"active", "disabled", "deleted"}]
      /\ submitted \in 0 .. MaxInstalls /\ form \in [Admin -> FormType \cup {NoForm}]
      /\ (installed = NoRow \/ installed.token # 0) /\ clash \in BOOLEAN
      /\ (~clash => Stored) /\ FormSeen(a)
  BY DEF ConfigInv, MarketTypeOK
<1>2. /\ form[a] # NoForm /\ submitted < MaxInstalls /\ submitted' = submitted + 1
      /\ standing' = standing /\ form[a] \in FormType
  BY <1>1 DEF InstallWrite
<1>3. submitted' \in 0 .. MaxInstalls
  BY <1>1, <1>2, BotAssumption
<1>4. /\ cfg.token = (IF "token" \in fields THEN submitted + 1 ELSE form[a].token)
      /\ cfg.secret = (IF "secret" \in fields THEN submitted + 1 ELSE form[a].secret)
  BY DEF Merge
<1>5. cfg.token \in 0 .. MaxInstalls /\ cfg.secret \in 0 .. MaxInstalls
  BY <1>2, <1>3, <1>4 DEF FormType
<1> HIDE DEF cfg
<1>6. CASE Complete(cfg) /\ (installed = NoRow => standing[a] # "deleted")
  <2> DEFINE by == IF installed = NoRow THEN a ELSE installed.by
             row == [enabled |-> TRUE, token |-> cfg.token, secret |-> cfg.secret, by |-> by]
  <2>1. /\ installed' = row /\ form' = [Overtaken EXCEPT ![a] = NoForm]
        /\ wanted' = [f \in {"token", "secret"} |-> IF f \in fields THEN submitted' ELSE wanted[f]]
        /\ clash' = (clash \/ form[a].late)
    BY <1>6 DEF InstallWrite, cfg
  <2>2. by \in Admin \cup {"null"}
    BY <1>1 DEF RowType
  <2>3. row \in RowType /\ row.token = cfg.token /\ row.secret = cfg.secret /\ row.token # 0
    <3> HIDE DEF by
    <3> QED BY <1>5, <1>6, <2>2 DEF RowType, Complete
  <2>4. clash' \in BOOLEAN
    BY <2>1
  <2>5. form' \in [Admin -> FormType \cup {NoForm}] /\ \A x \in Admin : form'[x] # NoForm => form'[x].late
    BY <1>1, <2>1, OvertakenForms
  <2>6. MarketTypeOK'
    BY <1>1, <1>2, <1>3, <2>1, <2>3, <2>4, <2>5 DEF MarketTypeOK
  <2>7. ~clash' => Stored'
    <3>1. SUFFICES ASSUME ~clash' PROVE Stored'
      OBVIOUS
    <3>2. ~clash /\ ~form[a].late
      BY <2>1, <3>1
    <3>3. form[a].token = wanted.token /\ form[a].secret = wanted.secret
      BY <1>1, <1>2, <3>2 DEF FormSeen, Stored
    <3>4. /\ wanted'.token = (IF "token" \in fields THEN submitted + 1 ELSE wanted.token)
          /\ wanted'.secret = (IF "secret" \in fields THEN submitted + 1 ELSE wanted.secret)
      BY <1>2, <2>1
    <3> QED BY <1>4, <2>1, <2>3, <3>3, <3>4 DEF Stored
  <2>8. \A x \in Admin : FormSeen(x)'
    BY <2>5 DEF FormSeen
  <2> QED BY <2>6, <2>7, <2>8 DEF ConfigInv
<1>7. CASE ~(Complete(cfg) /\ (installed = NoRow => standing[a] # "deleted"))
  <2>1. form' = [form EXCEPT ![a] = NoForm] /\ installed' = installed /\ wanted' = wanted /\ clash' = clash
    BY <1>7 DEF InstallWrite, cfg
  <2>2. form' \in [Admin -> FormType \cup {NoForm}]
    BY <1>1, <2>1
  <2>3. MarketTypeOK'
    BY <1>1, <1>2, <1>3, <2>1, <2>2 DEF MarketTypeOK
  <2>4. \A x \in Admin : FormSeen(x)'
    BY <1>1, <2>1 DEF ConfigInv, FormSeen
  <2> QED BY <1>1, <2>1, <2>3, <2>4 DEF ConfigInv, Stored
<1> QED BY <1>6, <1>7

\* The row changes in other fields than the submitted ones.
LEMMA RowChange ==
  ASSUME ConfigInv, NEW row \in RowType, installed' = row,
         row.token = installed.token, row.secret = installed.secret,
         standing' \in [Admin -> {"active", "disabled", "deleted"}],
         form' = form, submitted' = submitted, wanted' = wanted, clash' = clash,
         row = NoRow \/ row.token # 0
  PROVE  ConfigInv'
<1>1. MarketTypeOK'
  BY DEF ConfigInv, MarketTypeOK
<1> QED BY <1>1 DEF ConfigInv, Stored, FormSeen

LEMMA ToggleStep ==
  ASSUME ConfigInv, NEW b \in BOOLEAN, Toggle(b) PROVE ConfigInv'
<1> DEFINE row == [enabled |-> b, token |-> installed.token, secret |-> installed.secret,
                   by |-> installed.by]
<1>1. /\ installed # NoRow /\ installed' = [installed EXCEPT !.enabled = b] /\ standing' = standing
      /\ form' = form /\ submitted' = submitted /\ wanted' = wanted /\ clash' = clash
  BY DEF Toggle
<1>2. /\ installed \in RowType /\ installed.token # 0
      /\ standing \in [Admin -> {"active", "disabled", "deleted"}]
  BY <1>1 DEF ConfigInv, MarketTypeOK
<1>3. [installed EXCEPT !.enabled = b] = row /\ row \in RowType /\ row.token = installed.token
      /\ row.secret = installed.secret
  BY <1>2 DEF RowType
<1> HIDE DEF row
<1> QED BY <1>1, <1>2, <1>3, RowChange

LEMMA ChangeUserStep ==
  ASSUME ConfigInv, NEW a \in Admin, NEW s \in {"active", "disabled", "deleted"}, ChangeUser(a, s)
  PROVE  ConfigInv'
<1> DEFINE row == [enabled |-> installed.enabled, token |-> installed.token,
                   secret |-> installed.secret, by |-> "null"]
<1>1. /\ standing' = [standing EXCEPT ![a] = s] /\ form' = form /\ submitted' = submitted
      /\ wanted' = wanted /\ clash' = clash
      /\ (installed' = installed \/ (installed' = [installed EXCEPT !.by = "null"] /\ installed.by = a))
  BY DEF ChangeUser
<1>2. /\ installed \in RowType /\ (installed = NoRow \/ installed.token # 0)
      /\ standing' \in [Admin -> {"active", "disabled", "deleted"}]
  BY <1>1 DEF ConfigInv, MarketTypeOK
<1>3. CASE installed' = installed
  BY <1>1, <1>2, <1>3, RowChange
<1>4. CASE installed' = [installed EXCEPT !.by = "null"] /\ installed.by = a
  <2>1. /\ [installed EXCEPT !.by = "null"] = row /\ row \in RowType /\ row.token = installed.token
        /\ row.secret = installed.secret
    BY <1>2 DEF RowType
  <2>2. row = NoRow \/ row.token # 0
    <3>1. CASE installed = NoRow
      BY <3>1 DEF NoRow
    <3> QED BY <1>2, <2>1, <3>1
  <2> HIDE DEF row
  <2> QED BY <1>1, <1>2, <1>4, <2>1, <2>2, RowChange
<1> QED BY <1>1, <1>3, <1>4

LEMMA UninstallStep ==
  ASSUME ConfigInv, Uninstall PROVE ConfigInv'
<1>1. /\ installed' = NoRow /\ wanted' = [token |-> 0, secret |-> 0] /\ clash' = FALSE
      /\ form' = Overtaken /\ standing' = standing /\ submitted' = submitted
  BY DEF Uninstall
<1>2. form' \in [Admin -> FormType \cup {NoForm}] /\ \A x \in Admin : form'[x] # NoForm => form'[x].late
  BY <1>1, OvertakenForms DEF ConfigInv, MarketTypeOK
<1>3. clash' \in BOOLEAN
  BY <1>1, Zenon
<1>4. NoRow \in RowType
  BY BotAssumption DEF RowType, NoRow
<1>5. MarketTypeOK'
  BY <1>1, <1>2, <1>3, <1>4 DEF ConfigInv, MarketTypeOK
<1>6. Stored' /\ \A x \in Admin : FormSeen(x)'
  BY <1>1, <1>2 DEF Stored, NoRow, FormSeen
<1> QED BY <1>5, <1>6 DEF ConfigInv

LEMMA ConfigInvariant == BotSpec => []ConfigInv
<1>1. ConfigInv /\ [BotNext]_botVars => ConfigInv'
  <2> SUFFICES ASSUME ConfigInv, [BotNext]_botVars PROVE ConfigInv'
    OBVIOUS
  <2>1. CASE UNCHANGED marketVars
    <3>1. /\ installed' = installed /\ standing' = standing /\ form' = form
          /\ submitted' = submitted /\ wanted' = wanted /\ clash' = clash
      BY <2>1 DEF marketVars
    <3> QED BY <3>1 DEF ConfigInv, MarketTypeOK, Stored, FormSeen
  <2>2. ASSUME NEW k \in Delivery, Serve(k) PROVE UNCHANGED marketVars
    BY <2>2 DEF Serve, Deliver, Verify, MarkEvent, Ack, Installer, BotUser, Post, Drop
  <2>3. UNCHANGED botVars => UNCHANGED marketVars
    BY DEF botVars
  <2>4. ASSUME NEW a \in Admin, Administer(a) PROVE ConfigInv'
    BY <2>4, InstallReadStep, InstallWriteStep, ChangeUserStep DEF Administer
  <2> QED BY <2>1, <2>2, <2>3, <2>4, ToggleStep, UninstallStep DEF BotNext
<1> QED BY <1>1, InitConfigInv, PTL DEF BotSpec

\* install keeps the fields that were not submitted again: the stored configuration
\* is the last one submitted, field by field, unless an install was overtaken
\* between its SELECT and its upsert.
THEOREM ConfigAsSubmittedHolds == BotSpec => []ConfigAsSubmitted
<1>1. ConfigInv => ConfigAsSubmitted
  BY DEF ConfigInv, ConfigAsSubmitted, Stored
<1> QED BY <1>1, ConfigInvariant, PTL

-----------------------------------------------------------------------------
(* Accounts and start-up *)

BootType == [at : {"down", "list", "next", "commit", "check", "seed", "serving"},
             known : SUBSET (1 .. LastFile), file : 1 .. LastFile + 1]
RequestType == [at : {"auth", "target", "write"}, actor : Id,
                op : {"create", "update", "delete"}, target : Id] \cup {NoReq}

\* The migrations committed are the first ones, in order.
MigratedPrefix ==
  migrated \in Seq(Nat) /\ Len(migrated) <= LastFile /\ MigratedOnce

\* What a process has passed over or knows as applied is applied, when n files
\* are; past the loop all are, and it serves when the owner is there.
BootSound(b, n, seeded) ==
  /\ b.at \in {"next", "commit"} => b.known \subseteq 1 .. n /\ b.file <= n + 1
  /\ b.at = "commit" => b.file <= LastFile
  /\ b.at \in {"check", "seed", "serving"} => n = LastFile
  /\ b.at = "serving" => seeded
ProcessSound(p) == BootSound(boot[p], Len(migrated), Exists(Owner))

OwnerRow == account[Owner] \in {Unborn, Row("owner", TRUE)}

\* Requests come in once the owner is there, and those that write are not about him.
RequestSound(r) ==
  /\ req[r] # NoReq => Exists(Owner)
  /\ req[r].at = "auth" /\ req[r].op = "create" => req[r].target \in Person
  /\ req[r].at = "write" => req[r].target \in Person
  /\ req[r].at \in {"target", "write"} => r \in entitled

AccountInv ==
  /\ AccountTypeOK /\ req \in [Request -> RequestType]
  /\ MigratedPrefix /\ OwnerRow
  /\ \A p \in Process : ProcessSound(p)
  /\ \A r \in Request : RequestSound(r)

LEMMA InitAccountInv == AccountInit => AccountInv
<1> SUFFICES ASSUME AccountInit PROVE AccountInv
  OBVIOUS
<1> USE AccountAssumption
<1>1. boot \in [Process -> BootType]
  BY DEF AccountInit, Down, Boot, BootType
<1>2. account \in [Id -> [role : {"none", "owner", "admin", "user"}, active : BOOLEAN]]
  BY Zenon DEF AccountInit, Unborn
<1>3. AccountTypeOK
  BY <1>1, <1>2 DEF AccountInit, AccountTypeOK, BootType, Id, Unborn
<1>4. MigratedPrefix
  BY DEF AccountInit, MigratedPrefix, MigratedOnce
<1>5. OwnerRow /\ req \in [Request -> RequestType] /\ \A r \in Request : RequestSound(r)
  BY DEF AccountInit, OwnerRow, Id, RequestType, RequestSound, NoReq
<1>6. \A p \in Process : ProcessSound(p)
  BY DEF AccountInit, ProcessSound, BootSound, Down, Boot
<1> QED BY <1>3, <1>4, <1>5, <1>6 DEF AccountInv

\* A start-up step of one process that leaves the accounts alone.
LEMMA BootStep ==
  ASSUME AccountInv, NEW p \in Process, NEW b \in BootType,
         boot' = [boot EXCEPT ![p] = b], crashes' \in 0 .. MaxCrashes,
         MigratedPrefix', Len(migrated) <= Len(migrated'),
         account' = account, UNCHANGED <<claim, req, entitled>>,
         BootSound(b, Len(migrated'), Exists(Owner))
  PROVE  AccountInv'
<1> USE AccountAssumption
<1>1. AccountTypeOK /\ req \in [Request -> RequestType] /\ MigratedPrefix /\ OwnerRow
      /\ (\A x \in Process : ProcessSound(x)) /\ (\A r \in Request : RequestSound(r))
  BY DEF AccountInv
<1>2. boot \in [Process -> BootType] /\ boot' \in [Process -> BootType]
  BY <1>1 DEF AccountTypeOK, BootType
<1>3. AccountTypeOK'
  BY <1>1, <1>2 DEF AccountTypeOK, BootType
<1>4. Exists(Owner)' <=> Exists(Owner)
  BY DEF Exists
<1>5. ASSUME NEW x \in Process PROVE ProcessSound(x)'
  <2>1. CASE x = p
    BY <1>2, <1>4, <2>1 DEF ProcessSound, BootSound
  <2>2. CASE x # p
    <3>1. boot'[x] = boot[x] /\ boot[x] \in BootType
      BY <1>2, <2>2
    <3>2. Len(migrated) \in Nat /\ Len(migrated') \in Nat /\ Len(migrated') <= LastFile
      BY <1>1 DEF MigratedPrefix
    <3>3. BootSound(boot[x], Len(migrated), Exists(Owner))
      BY <1>1 DEF ProcessSound
    <3> QED BY <1>4, <3>1, <3>2, <3>3 DEF ProcessSound, BootSound, BootType
  <2> QED BY <2>1, <2>2
<1>6. \A r \in Request : RequestSound(r)'
  BY <1>1, <1>4 DEF RequestSound
<1>7. OwnerRow'
  BY <1>1 DEF OwnerRow
<1> QED BY <1>1, <1>3, <1>5, <1>6, <1>7 DEF AccountInv

LEMMA CommitStep ==
  ASSUME AccountInv, NEW p \in Process, CommitFile(p) PROVE AccountInv'
<1> USE AccountAssumption
<1> DEFINE f == boot[p].file
<1>1. /\ MigratedPrefix /\ ProcessSound(p) /\ boot[p].at = "commit"
      /\ boot \in [Process -> BootType] /\ boot[p] \in BootType
      /\ crashes \in 0 .. MaxCrashes
  BY DEF AccountInv, AccountTypeOK, CommitFile, BootType
<1>2. /\ crashes' = crashes /\ account' = account /\ UNCHANGED <<claim, req, entitled>>
  BY DEF CommitFile, accountVars
<1>3. /\ f \in Nat /\ f <= Len(migrated) + 1 /\ f <= LastFile
      /\ boot[p].known \subseteq 1 .. Len(migrated) /\ Len(migrated) \in Nat
  BY <1>1 DEF ProcessSound, BootSound, MigratedPrefix, BootType
<1>4. CASE Duplicate(f)
  <2>1. migrated' = migrated /\ boot' = [boot EXCEPT ![p] = Down]
    BY <1>4 DEF CommitFile
  <2>2. Down \in BootType /\ BootSound(Down, Len(migrated'), Exists(Owner))
    BY DEF Down, Boot, BootType, BootSound
  <2>3. MigratedPrefix'
    BY <1>1, <2>1 DEF MigratedPrefix, MigratedOnce
  <2>4. Len(migrated) <= Len(migrated') /\ crashes' \in 0 .. MaxCrashes
    BY <1>1, <1>2, <1>3, <2>1
  <2> QED BY <1>2, <2>1, <2>2, <2>3, <2>4, BootStep
<1>5. CASE ~Duplicate(f)
  <2>1. migrated' = Append(migrated, f)
        /\ boot' = [boot EXCEPT ![p].at = "next", ![p].file = f + 1]
    BY <1>5 DEF CommitFile
  <2>2. f = Len(migrated) + 1
    <3>1. f # 0
      BY <1>1 DEF BootType
    <3>2. f \in 1 .. Len(migrated) => migrated[f] = f
      BY <1>1 DEF MigratedPrefix, MigratedOnce
    <3>3. f \notin 1 .. Len(migrated)
      BY <1>5, <3>2 DEF Duplicate
    <3> QED BY <1>3, <3>1, <3>3
  <2>3. /\ migrated' \in Seq(Nat) /\ Len(migrated') = f
        /\ \A i \in 1 .. Len(migrated) : migrated'[i] = migrated[i]
        /\ migrated'[f] = f
    BY <1>1, <1>3, <2>1, <2>2 DEF MigratedPrefix
  <2>4. MigratedPrefix'
    BY <1>1, <1>3, <2>2, <2>3 DEF MigratedPrefix, MigratedOnce
  <2> DEFINE b == [at |-> "next", known |-> boot[p].known, file |-> f + 1]
  <2>5. boot' = [boot EXCEPT ![p] = b]
    BY <1>1, <2>1 DEF BootType
  <2>6. b \in BootType /\ BootSound(b, Len(migrated'), Exists(Owner))
    BY <1>1, <1>3, <2>2, <2>3 DEF BootType, BootSound
  <2>7. Len(migrated) <= Len(migrated') /\ crashes' \in 0 .. MaxCrashes
    BY <1>1, <1>2, <1>3, <2>2, <2>3
  <2> HIDE DEF b
  <2> QED BY <1>2, <2>4, <2>5, <2>6, <2>7, BootStep
<1> QED BY <1>4, <1>5

LEMMA BootLoopStep ==
  ASSUME AccountInv, NEW p \in Process,
         Start(p) \/ List(p) \/ NextFile(p) \/ SeedCheck(p) \/ Crash(p)
  PROVE AccountInv'
<1> USE AccountAssumption
<1> DEFINE f == boot[p].file
           Fits(b) == /\ b \in BootType /\ boot' = [boot EXCEPT ![p] = b]
                      /\ BootSound(b, Len(migrated), Exists(Owner))
<1>1. /\ MigratedPrefix /\ BootSound(boot[p], Len(migrated), Exists(Owner)) /\ OwnerRow
      /\ boot \in [Process -> BootType] /\ boot[p] \in BootType /\ crashes \in 0 .. MaxCrashes
      /\ \A u \in Person : account[u].role # "owner"
  BY DEF AccountInv, AccountTypeOK, BootType, ProcessSound
<1>2. /\ migrated' = migrated /\ account' = account /\ UNCHANGED <<claim, req, entitled>>
      /\ crashes' \in 0 .. MaxCrashes
  BY <1>1 DEF Start, List, NextFile, SeedCheck, Crash, accountVars
<1>3. MigratedPrefix' /\ Len(migrated) <= Len(migrated') /\ Len(migrated) \in Nat
      /\ Len(migrated) <= LastFile
  BY <1>1, <1>2 DEF MigratedPrefix, MigratedOnce
<1>4. ASSUME NEW b, Fits(b) PROVE AccountInv'
  BY <1>2, <1>3, <1>4, BootStep
<1>5. CASE Start(p)
  <2> DEFINE b == [at |-> "list", known |-> boot[p].known, file |-> f]
  <2>1. boot' = [boot EXCEPT ![p] = b]
    <3>1. boot' = [boot EXCEPT ![p].at = "list"]
      BY <1>5 DEF Start
    <3>2. [boot[p] EXCEPT !.at = "list"] = b
      BY <1>1 DEF BootType
    <3> QED BY <3>1, <3>2
  <2>2. Fits(b)
    BY <1>1, <2>1 DEF BootType, BootSound
  <2> QED BY <1>4, <2>2
<1>6. CASE List(p)
  <2> DEFINE b == [at |-> "next", known |-> {migrated[i] : i \in 1 .. Len(migrated)}, file |-> 1]
  <2>1. {migrated[i] : i \in 1 .. Len(migrated)} \subseteq 1 .. Len(migrated)
    BY <1>1 DEF MigratedPrefix, MigratedOnce
  <2>2. boot' = [boot EXCEPT ![p] = b]
    BY <1>6 DEF List
  <2>3. b \in BootType
    BY <1>3, <2>1 DEF BootType
  <2>4. BootSound(b, Len(migrated), Exists(Owner))
    BY <1>3, <2>1 DEF BootSound
  <2> QED BY <1>4, <2>2, <2>3, <2>4
<1>7. CASE NextFile(p)
  <2> DEFINE b == IF f > LastFile THEN [at |-> "check", known |-> boot[p].known, file |-> f]
                  ELSE IF f \in boot[p].known
                    THEN [at |-> "next", known |-> boot[p].known, file |-> f + 1]
                  ELSE [at |-> "commit", known |-> boot[p].known, file |-> f]
  <2>1. boot' = [boot EXCEPT ![p] = b]
    <3>1. /\ [boot[p] EXCEPT !.at = "check"] = [at |-> "check", known |-> boot[p].known, file |-> f]
          /\ [boot[p] EXCEPT !.at = "commit"] = [at |-> "commit", known |-> boot[p].known, file |-> f]
          /\ [boot[p] EXCEPT !.file = f + 1] = [at |-> "next", known |-> boot[p].known, file |-> f + 1]
      BY <1>1, <1>7 DEF NextFile, BootType
    <3> QED BY <1>7, <3>1 DEF NextFile
  <2>2. f \in 1 .. LastFile + 1 /\ f <= Len(migrated) + 1 /\ boot[p].known \subseteq 1 .. Len(migrated)
        /\ boot[p].known \subseteq 1 .. LastFile
    BY <1>1, <1>7 DEF NextFile, BootSound, BootType
  <2>3. b \in BootType
    BY <1>3, <2>2 DEF BootType
  <2>4. BootSound(b, Len(migrated), Exists(Owner))
    BY <1>3, <2>2 DEF BootSound
  <2> QED BY <1>4, <2>1, <2>3, <2>4
<1>8. CASE SeedCheck(p)
  <2>1. (\E u \in Id : account[u].role = "owner") => Exists(Owner)
    BY <1>1 DEF Id, Exists
  <2>2. Len(migrated) = LastFile
    BY <1>1, <1>8 DEF SeedCheck, BootSound
  <2>3. PICK l \in {"serving", "seed"} :
          boot' = [boot EXCEPT ![p] = Boot(l)] /\ (l = "serving" => Exists(Owner))
    BY <1>8, <2>1 DEF SeedCheck
  <2>4. Fits(Boot(l))
    BY <1>3, <2>2, <2>3 DEF Boot, BootType, BootSound
  <2> QED BY <1>4, <2>4
<1>9. CASE Crash(p)
  <2>1. boot' = [boot EXCEPT ![p] = Down]
    BY <1>9 DEF Crash
  <2>2. Fits(Down)
    BY <2>1 DEF Down, Boot, BootType, BootSound
  <2> QED BY <1>4, <2>2
<1> QED BY <1>5, <1>6, <1>7, <1>8, <1>9

AccountType == [Id -> [role : {"none", "owner", "admin", "user"}, active : BOOLEAN]]

LEMMA OwnerFound == OwnerRow /\ Exists(Owner) => account[Owner] = Row("owner", TRUE)
<1>1. Unborn.role = "none"
  BY DEF Unborn
<1> QED BY <1>1 DEF OwnerRow, Exists

LEMMA SeedStep ==
  ASSUME AccountInv, NEW p \in Process, SeedInsert(p) PROVE AccountInv'
<1> USE AccountAssumption
<1>1. AccountTypeOK /\ req \in [Request -> RequestType] /\ MigratedPrefix /\ OwnerRow
      /\ (\A x \in Process : ProcessSound(x)) /\ (\A r \in Request : RequestSound(r))
  BY DEF AccountInv
<1>2. /\ boot[p].at = "seed" /\ boot' = [boot EXCEPT ![p] = Boot("serving")]
      /\ account' = IF Exists(Owner) THEN account ELSE [account EXCEPT ![Owner] = Row("owner", TRUE)]
      /\ migrated' = migrated /\ crashes' = crashes /\ claim' = claim /\ req' = req
      /\ entitled' = entitled
  BY DEF SeedInsert
<1>3. account \in AccountType /\ Owner \in Id
  BY <1>1 DEF AccountTypeOK, AccountType, Id
<1>4. Row("owner", TRUE) \in [role : {"none", "owner", "admin", "user"}, active : BOOLEAN]
  BY DEF Row
<1>5. account' \in AccountType
  BY <1>2, <1>3, <1>4, Zenon DEF AccountType
<1>6. account'[Owner] = Row("owner", TRUE) /\ \A u \in Person : account'[u] = account[u]
  <2>1. Exists(Owner) => account[Owner] = Row("owner", TRUE)
    BY <1>1, OwnerFound
  <2>2. \A u \in Person : u \in Id /\ u # Owner
    BY DEF Id, Owner
  <2> QED BY <1>2, <1>3, <2>1, <2>2 DEF AccountType
<1>7. Exists(Owner)'
  BY <1>6 DEF Exists, Row
<1>8. boot \in [Process -> BootType] /\ boot' \in [Process -> BootType]
  BY <1>1, <1>2 DEF AccountTypeOK, BootType, Boot
<1>9. AccountTypeOK'
  BY <1>1, <1>2, <1>5, <1>6, <1>8 DEF AccountTypeOK, BootType, AccountType
<1>10. ASSUME NEW x \in Process PROVE ProcessSound(x)'
  <2>1. ProcessSound(x) /\ ProcessSound(p)
    BY <1>1
  <2>2. CASE x = p
    BY <1>2, <1>7, <1>8, <2>1, <2>2 DEF ProcessSound, BootSound, Boot
  <2>3. CASE x # p
    BY <1>2, <1>7, <1>8, <2>1, <2>3 DEF ProcessSound, BootSound
  <2> QED BY <2>2, <2>3
<1>11. \A r \in Request : RequestSound(r)'
  BY <1>1, <1>2, <1>7 DEF RequestSound
<1>12. MigratedPrefix' /\ OwnerRow'
  BY <1>1, <1>2, <1>6 DEF MigratedPrefix, MigratedOnce, OwnerRow
<1> QED BY <1>1, <1>2, <1>9, <1>10, <1>11, <1>12 DEF AccountInv

LEMMA LoginStep ==
  ASSUME AccountInv, NEW u \in Id, Login(u) PROVE AccountInv'
<1>1. /\ boot' = boot /\ migrated' = migrated /\ crashes' = crashes /\ account' = account
      /\ req' = req /\ entitled' = entitled /\ claim' = [claim EXCEPT ![u] = account[u].role]
  BY DEF Login, startVars
<1>2. AccountTypeOK'
  BY <1>1 DEF AccountInv, AccountTypeOK
<1>3. MigratedPrefix' /\ OwnerRow'
  BY <1>1 DEF AccountInv, MigratedPrefix, MigratedOnce, OwnerRow
<1>4. (\A x \in Process : ProcessSound(x)') /\ (\A r \in Request : RequestSound(r)')
  BY <1>1 DEF AccountInv, ProcessSound, BootSound, RequestSound, Exists
<1> QED BY <1>1, <1>2, <1>3, <1>4 DEF AccountInv

\* A step of one request that leaves the owner's row and the start-up alone.
LEMMA RequestStep ==
  ASSUME AccountInv, NEW r \in Request, NEW q \in RequestType,
         req' = [req EXCEPT ![r] = q],
         account' \in AccountType, account'[Owner] = account[Owner],
         \A u \in Person : account'[u].role # "owner",
         q # NoReq => Exists(Owner),
         q.at = "auth" /\ q.op = "create" => q.target \in Person,
         q.at = "write" => q.target \in Person,
         q.at \in {"target", "write"} => r \in entitled',
         Track(account', req'), UNCHANGED <<startVars, claim>>
  PROVE  AccountInv'
<1>1. AccountTypeOK /\ req \in [Request -> RequestType] /\ MigratedPrefix /\ OwnerRow
      /\ (\A x \in Process : ProcessSound(x)) /\ (\A x \in Request : RequestSound(x))
  BY DEF AccountInv
<1>2. boot' = boot /\ migrated' = migrated /\ crashes' = crashes /\ claim' = claim
  BY DEF startVars
<1>3. entitled' \subseteq Request
  BY DEF Track
<1>4. AccountTypeOK'
  BY <1>1, <1>2, <1>3 DEF AccountTypeOK, AccountType
<1>5. Exists(Owner)' <=> Exists(Owner)
  BY DEF Exists
<1>6. MigratedPrefix' /\ OwnerRow' /\ \A x \in Process : ProcessSound(x)'
  BY <1>1, <1>2, <1>5 DEF MigratedPrefix, MigratedOnce, OwnerRow, ProcessSound, BootSound
<1>7. req' \in [Request -> RequestType]
  BY <1>1
<1>8. ASSUME NEW x \in Request PROVE RequestSound(x)'
  <2>1. CASE x = r
    BY <1>1, <1>5, <2>1 DEF RequestSound
  <2>2. CASE x # r
    <3>1. req'[x] = req[x] /\ RequestSound(x)
      BY <1>1, <2>2
    <3>2. req[x] # NoReq /\ x \in entitled => x \in entitled'
      BY <3>1 DEF Track
    <3>3. req[x].at \in {"target", "write"} => req[x] # NoReq
      BY DEF NoReq
    <3> QED BY <1>5, <3>1, <3>2, <3>3 DEF RequestSound
  <2> QED BY <2>1, <2>2
<1> QED BY <1>4, <1>6, <1>7, <1>8 DEF AccountInv

LEMMA ManageStep ==
  ASSUME AccountInv, NEW r \in Request, Manage(r) PROVE AccountInv'
<1>1. /\ Track(account', req') /\ UNCHANGED <<startVars, claim>>
      /\ req \in [Request -> RequestType] /\ req[r] \in RequestType /\ RequestSound(r) /\ OwnerRow
      /\ account \in AccountType /\ \A u \in Person : account[u].role # "owner"
      /\ \A p \in Process : ProcessSound(p)
  BY DEF Manage, AccountInv, AccountTypeOK, AccountType
<1> DEFINE to(l) == [at |-> l, actor |-> req[r].actor, op |-> req[r].op, target |-> req[r].target]
<1>2. NoReq \in RequestType /\ NoReq.at = "none"
  BY DEF RequestType, NoReq
<1>3. ASSUME leaves(r) PROVE AccountInv'
  BY <1>1, <1>2, <1>3, RequestStep DEF leaves
<1>4. ASSUME NEW l \in {"target", "write"}, moves(r, l), req[r] # NoReq, r \in entitled',
             l = "write" => req[r].target \in Person
      PROVE  AccountInv'
  <2>1. req[r] \in [at : {"auth", "target", "write"}, actor : Id,
                op : {"create", "update", "delete"}, target : Id]
    BY <1>1, <1>4 DEF RequestType
  <2>2. [req[r] EXCEPT !.at = l] = to(l) /\ to(l) \in RequestType
    BY <2>1 DEF RequestType
  <2>3. req' = [req EXCEPT ![r] = to(l)] /\ account' = account
    BY <1>4, <2>2 DEF moves
  <2>4. Exists(Owner)
    BY <1>1, <1>4 DEF RequestSound
  <2> QED BY <1>1, <1>4, <2>2, <2>3, <2>4, RequestStep
<1>5. ASSUME NEW t \in Person, NEW role \in {"none", "admin", "user"}, NEW a \in BOOLEAN,
             writes(r, t, Row(role, a))
      PROVE  AccountInv'
  <2>1. req' = [req EXCEPT ![r] = NoReq] /\ account' = [account EXCEPT ![t] = Row(role, a)]
    BY <1>5 DEF writes
  <2>2. Row(role, a) \in [role : {"none", "owner", "admin", "user"}, active : BOOLEAN]
    BY Zenon DEF Row
  <2>3. account' \in AccountType
    BY <1>1, <2>1, <2>2, Zenon DEF AccountType
  <2>4. t \in Id /\ t # Owner /\ Owner \in Id
    BY AccountAssumption DEF Id, Owner
  <2>5. account'[Owner] = account[Owner] /\ \A u \in Person : account'[u].role # "owner"
    BY <1>1, <2>1, <2>4 DEF AccountType, Row, Id
  <2> QED BY <1>1, <1>2, <2>1, <2>3, <2>5, RequestStep
<1>6. ASSUME NEW u \in Id, NEW act \in {"create", "update", "delete"}, NEW t \in Id, Ask(r, u, act, t)
      PROVE  AccountInv'
  <2> DEFINE q == [at |-> "auth", actor |-> u, op |-> act, target |-> t]
  <2>1. req' = [req EXCEPT ![r] = q] /\ account' = account /\ Served /\ (act = "create" => t \in Person)
    BY <1>6 DEF Ask
  <2>2. Exists(Owner)
    BY <1>1, <2>1 DEF Served, ProcessSound, BootSound
  <2>3. q \in RequestType /\ q.at = "auth" /\ q.op = act /\ q.target = t
    BY DEF RequestType
  <2> QED BY <1>1, <2>1, <2>2, <2>3, RequestStep
<1>7. CASE Authorize(r)
  <2>1. req[r].at = "auth" /\ req[r] # NoReq
    BY <1>7 DEF Authorize, NoReq
  <2>2. CASE RoleOf(req[r].actor) \in {"owner", "admin"}
    <3>1. PICK l \in {"write", "target"} : moves(r, l) /\ (l = "write" => req[r].op = "create")
      BY <1>7, <2>2 DEF Authorize
    <3>2. account' = account /\ req'[r] = [req[r] EXCEPT !.at = l]
      BY <1>1, <3>1 DEF moves
    <3>3. req[r] \in [at : {"auth", "target", "write"}, actor : Id,
                op : {"create", "update", "delete"}, target : Id]
      BY <1>1, <2>1 DEF RequestType
    <3>4. req'[r] # NoReq /\ req'[r].actor = req[r].actor
      BY <3>2, <3>3 DEF NoReq
    <3>5. account[req[r].actor].active /\ account[req[r].actor].role \in {"owner", "admin"}
      BY <2>2 DEF RoleOf
    <3>6. r \in entitled'
      BY <1>1, <3>2, <3>3, <3>4, <3>5 DEF Track
    <3>7. l = "write" => req[r].target \in Person
      BY <1>1, <2>1, <3>1 DEF RequestSound
    <3> QED BY <1>4, <2>1, <3>1, <3>6, <3>7
  <2>3. CASE RoleOf(req[r].actor) \notin {"owner", "admin"}
    BY <1>3, <1>7, <2>3 DEF Authorize
  <2> QED BY <2>2, <2>3
<1>8. CASE Target(r)
  <2>1. req[r].at = "target" /\ req[r] # NoReq /\ r \in entitled /\ Exists(Owner)
    BY <1>1, <1>8 DEF Target, NoReq, RequestSound
  <2>2. CASE Exists(req[r].target) /\ ~Protected(r)
    <3>1. moves(r, "write")
      BY <1>8, <2>2 DEF Target
    <3>2. req[r] \in [at : {"auth", "target", "write"}, actor : Id,
                op : {"create", "update", "delete"}, target : Id]
      BY <1>1, <2>1 DEF RequestType
    <3>3. req'[r] # NoReq
      BY <1>1, <3>1, <3>2 DEF NoReq, moves
    <3>4. r \in entitled'
      BY <1>1, <2>1, <3>3 DEF Track
    <3>5. account[Owner].role = "owner"
      BY <1>1, <2>1 DEF OwnerRow, Exists, Unborn, Row
    <3>6. req[r].target \in Person
      BY <2>2, <3>2, <3>5 DEF Protected, Id
    <3> QED BY <1>4, <2>1, <3>1, <3>4, <3>6
  <2>3. CASE ~(Exists(req[r].target) /\ ~Protected(r))
    BY <1>3, <1>8, <2>3 DEF Target
  <2> QED BY <2>2, <2>3
<1>9. ASSUME NEW role \in {"admin", "user"}, NEW a \in BOOLEAN,
             UpdateUser(r, role, a) \/ CreateUser(r, role) \/ DeleteUser(r)
      PROVE  AccountInv'
  <2>1. req[r].at = "write" /\ req[r].target \in Person
    BY <1>1, <1>9 DEF UpdateUser, CreateUser, DeleteUser, RequestSound
  <2>2. DeleteUser(r) => writes(r, req[r].target, Row("none", FALSE))
    BY DEF DeleteUser, Gone, Row
  <2>3. CreateUser(r, role) => writes(r, req[r].target, Row(role, TRUE)) \/ leaves(r)
    BY DEF CreateUser
  <2>4. UpdateUser(r, role, a) => writes(r, req[r].target, Row(role, a)) \/ leaves(r)
    BY DEF UpdateUser
  <2> QED BY <1>3, <1>5, <1>9, <2>1, <2>2, <2>3, <2>4
<1>10. CASE Fail(r)
  BY <1>3, <1>10 DEF Fail
<1> QED BY <1>6, <1>7, <1>8, <1>9, <1>10 DEF Manage

LEMMA AccountInvariant == AccountSpec => []AccountInv
<1>1. AccountInv /\ [AccountNext]_allVars => AccountInv'
  <2> SUFFICES ASSUME AccountInv, [AccountNext]_allVars PROVE AccountInv'
    OBVIOUS
  <2>1. CASE UNCHANGED allVars
    <3>1. /\ boot' = boot /\ migrated' = migrated /\ crashes' = crashes /\ account' = account
          /\ req' = req /\ entitled' = entitled /\ claim' = claim
      BY <2>1 DEF allVars, startVars, accountVars
    <3> QED BY <3>1 DEF AccountInv, AccountTypeOK, MigratedPrefix, MigratedOnce, OwnerRow,
                ProcessSound, BootSound, RequestSound, Exists
  <2>2. ASSUME NEW p \in Process, Start(p) \/ List(p) \/ NextFile(p) \/ CommitFile(p)
                                  \/ SeedCheck(p) \/ SeedInsert(p) \/ Crash(p)
        PROVE  AccountInv'
    BY <2>2, BootLoopStep, CommitStep, SeedStep
  <2> QED BY <2>1, <2>2, LoginStep, ManageStep DEF AccountNext
<1> QED BY <1>1, InitAccountInv, PTL DEF AccountSpec

\* However many processes start, migrate, seed and crash side by side, every
\* migration takes effect once and in order, a serving process has found them all
\* and the owner, and no admin's request disables or removes the owner
\* (run_migrations, seed_owner, update_user, delete_user).
THEOREM StartSoundHolds == AccountSpec => []StartSound
<1>1. AccountInv => StartSound
  <2> SUFFICES ASSUME AccountInv PROVE StartSound
    OBVIOUS
  <2>1. MigratedOnce
    BY DEF AccountInv, MigratedPrefix
  <2>2. \A p \in Process : boot[p].at = "serving" => Len(migrated) = LastFile /\ Exists(Owner)
    BY DEF AccountInv, ProcessSound, BootSound
  <2>3. Exists(Owner) => account[Owner] = Row("owner", TRUE)
    BY OwnerFound DEF AccountInv
  <2> QED BY <2>1, <2>2, <2>3 DEF StartSound, OwnerStays, AccountInv, AccountTypeOK
<1> QED BY <1>1, AccountInvariant, PTL

\* A request reaches its write only if its actor was an active admin at some moment
\* since it came in (get_current_user, require_admin).
THEOREM WriterEntitledHolds == AccountSpec => []WriterEntitled
<1>1. AccountInv => WriterEntitled
  BY DEF AccountInv, RequestSound, WriterEntitled
<1> QED BY <1>1, AccountInvariant, PTL

-----------------------------------------------------------------------------
(* Teams and provider access *)

\* A caller in the check who may use the provider now has been seen to, and one
\* who passed it has.
CallerSeen(c) ==
  /\ cpc[c] \in {"restricted", "member"} /\ MayUse(user[c], prov[c], access, members) => granted[c]
  /\ cpc[c] \in {"insert", "done"} => granted[c]
CallersSeen == \A c \in Caller : CallerSeen(c)

\* Ids that no team has had are neither edited nor assigned anything.
FreshUntouched ==
  \A t \in fresh : ~EditorBusy(t) /\ \A p \in Provider : <<t, p>> \notin assigned

\* A team that is not torn has one editor at a time.
OneEditor ==
  \A d, e \in Editor : epc[d] # "idle" /\ epc[e] # "idle" /\ team[d] = team[e]
                       /\ team[d] \notin tornTeams => d = e

\* What is still to be granted of an edit past its DELETE.
Granting(e) == epc[e] = "grant" /\ team[e] \in teams \ tornTeams
Agrees(t, p) == <<t, p>> \in access <=> <<t, p>> \in assigned
EditSettles ==
  /\ \A t \in teams \ tornTeams, p \in Provider :
        (\A e \in Editor : team[e] = t => epc[e] # "grant") => Agrees(t, p)
  /\ \A e \in Editor, p \in Provider : Granting(e) =>
        /\ p \notin todo[e] => Agrees(team[e], p)
        /\ p \in todo[e] /\ p \in providers => <<team[e], p>> \in assigned

AccessInv == TypeOK /\ CallersSeen /\ FreshUntouched /\ OneEditor /\ EditSettles

\* What an admin's step does to the callers' history.
LEMMA ObservedCallers ==
  ASSUME TypeOK, CallersSeen, Observe, cpc' = cpc, user' = user, prov' = prov
  PROVE  CallersSeen' /\ granted' \in [Caller -> BOOLEAN] /\ proper' \in [Caller -> BOOLEAN]
<1>1. granted' \in [Caller -> BOOLEAN] /\ proper' \in [Caller -> BOOLEAN]
  BY Zenon DEF Observe, TypeOK
<1>2. ASSUME NEW c \in Caller PROVE CallerSeen(c)'
  <2>1. granted'[c] <=> (granted[c] \/ (cpc[c] \in {"restricted", "member"}
                                        /\ MayUse(user[c], prov[c], access', members')))
    BY DEF Observe
  <2>2. MayUse(user[c], prov[c], access, members)' <=> MayUse(user[c], prov[c], access', members')
    BY DEF MayUse
  <2> QED BY <2>1, <2>2 DEF CallersSeen, CallerSeen
<1> QED BY <1>1, <1>2 DEF CallersSeen

LEMMA InitAccessInv == Init => AccessInv
<1> SUFFICES ASSUME Init PROVE AccessInv
  OBVIOUS
<1>1. granted \in [Caller -> BOOLEAN] /\ proper \in [Caller -> BOOLEAN]
  BY Zenon DEF Init
<1>2. TypeOK
  <2>1. teams \subseteq Team /\ members \subseteq teams \X User /\ access \subseteq teams \X providers
        /\ providers = Provider /\ assigned \subseteq Team \X Provider /\ held \subseteq Team \X Provider
    BY DEF Init
  <2> QED BY <1>1, <2>1, AccessAssumption DEF Init, TypeOK
<1>3. CallersSeen /\ OneEditor
  BY DEF Init, CallersSeen, CallerSeen, OneEditor
<1>4. FreshUntouched
  BY DEF Init, FreshUntouched, EditorBusy
<1>5. EditSettles
  BY DEF Init, EditSettles, Agrees, Granting
<1> QED BY <1>2, <1>3, <1>4, <1>5 DEF AccessInv

\* The steps of callers leave everything but themselves alone.
LEMMA CallerStep ==
  ASSUME AccessInv, UNCHANGED unchangedByCaller, TypeOK', CallersSeen'
  PROVE  AccessInv'
<1>1. UNCHANGED <<teams, fresh, providers, active, members, access, epc, team, want, todo, assigned, tornTeams>>
  BY DEF unchangedByCaller, tables, editors
<1>2. FreshUntouched' /\ OneEditor'
  BY <1>1 DEF AccessInv, FreshUntouched, EditorBusy, OneEditor
<1>3. EditSettles'
  BY <1>1 DEF AccessInv, EditSettles, Agrees, Granting
<1> QED BY <1>2, <1>3 DEF AccessInv

\* So do changes of memberships and of is_active.
LEMMA RowStep ==
  ASSUME AccessInv, TypeOK', CallersSeen',
         UNCHANGED <<teams, fresh, providers, access, editors, assigned, tornTeams>>
  PROVE  AccessInv'
<1>1. FreshUntouched' /\ OneEditor'
  BY DEF AccessInv, FreshUntouched, EditorBusy, OneEditor, editors
<1>2. EditSettles'
  BY DEF AccessInv, EditSettles, Agrees, Granting, editors
<1> QED BY <1>1, <1>2 DEF AccessInv

LEMMA SetsAccessStep ==
  ASSUME AccessInv, NEW e \in Editor, NEW t \in Team, NEW P \in SUBSET Provider, SetsAccess(e, t, P),
         \/ t \in fresh /\ teams' = teams \cup {t} /\ fresh' = fresh \ {t}
         \/ t \notin fresh /\ UNCHANGED <<teams, fresh>>
  PROVE  AccessInv'
<1>0. TypeOK /\ CallersSeen /\ FreshUntouched /\ OneEditor /\ EditSettles
  BY DEF AccessInv
<1>1. /\ epc[e] = "idle" /\ edits < MaxEdits /\ edits' = edits + 1
      /\ epc' = [epc EXCEPT ![e] = "clear"] /\ team' = [team EXCEPT ![e] = t]
      /\ want' = [want EXCEPT ![e] = P] /\ todo' = todo
      /\ tornTeams' = IF EditorBusy(t) THEN tornTeams \cup {t} ELSE tornTeams
      /\ UNCHANGED <<providers, active, members, access, cpc, user, prov, conv, assigned, held>> /\ Observe
  BY DEF SetsAccess, Edit, callers
<1>2. CallersSeen' /\ granted' \in [Caller -> BOOLEAN] /\ proper' \in [Caller -> BOOLEAN]
  BY <1>0, <1>1, ObservedCallers
<1>3. TypeOK'
  <2>1. edits' \in 0 .. MaxEdits
    BY <1>0, <1>1, AccessAssumption DEF TypeOK
  <2>2. teams' \subseteq Team /\ fresh' \subseteq Team \ teams' /\ teams \subseteq teams'
    BY <1>0 DEF TypeOK
  <2>3. members' \subseteq teams' \X User /\ access' \subseteq teams' \X providers'
    BY <1>0, <1>1, <2>2 DEF TypeOK
  <2>4. epc' \in [Editor -> {"idle", "clear", "grant"}] /\ team' \in [Editor -> Team]
        /\ want' \in [Editor -> SUBSET Provider] /\ tornTeams' \subseteq Team
    BY <1>0, <1>1 DEF TypeOK
  <2> QED BY <1>0, <1>1, <1>2, <2>1, <2>2, <2>3, <2>4 DEF TypeOK
<1>4. /\ epc'[e] = "clear" /\ team'[e] = t
      /\ \A d \in Editor \ {e} : epc'[d] = epc[d] /\ team'[d] = team[d]
  BY <1>0, <1>1 DEF TypeOK
<1>5. FreshUntouched'
  <2> SUFFICES ASSUME NEW f \in fresh' PROVE ~EditorBusy(f)' /\ \A p \in Provider : <<f, p>> \notin assigned'
    BY DEF FreshUntouched
  <2>1. f \in fresh /\ f # t
    OBVIOUS
  <2>2. ~EditorBusy(f) /\ \A p \in Provider : <<f, p>> \notin assigned
    BY <1>0, <2>1 DEF FreshUntouched
  <2> QED BY <1>1, <1>4, <2>1, <2>2 DEF EditorBusy
<1>6. tornTeams \subseteq tornTeams' /\ (EditorBusy(t) => t \in tornTeams')
  BY <1>1
<1>7. OneEditor'
  BY <1>0, <1>4, <1>6 DEF OneEditor, EditorBusy
<1>8. EditSettles'
  <2>1. ASSUME NEW u \in teams' \ tornTeams', NEW p \in Provider,
               \A d \in Editor : team'[d] = u => epc'[d] # "grant"
        PROVE  Agrees(u, p)'
    <3>1. CASE u \in fresh
      <4>1. u \notin teams /\ <<u, p>> \notin assigned
        BY <1>0, <3>1 DEF TypeOK, FreshUntouched
      <4>2. <<u, p>> \notin access
        BY <1>0, <4>1 DEF TypeOK
      <4> QED BY <1>1, <4>1, <4>2 DEF Agrees
    <3>2. CASE u \notin fresh
      <4>1. u \in teams \ tornTeams
        BY <1>6, <2>1, <3>2
      <4>2. \A d \in Editor : team[d] = u => epc[d] # "grant"
        BY <1>1, <1>4, <2>1
      <4> QED BY <1>0, <1>1, <4>1, <4>2 DEF EditSettles, Agrees
    <3> QED BY <3>1, <3>2
  <2>2. ASSUME NEW d \in Editor, NEW p \in Provider, Granting(d)'
        PROVE  /\ p \notin todo'[d] => Agrees(team[d], p)'
               /\ p \in todo'[d] /\ p \in providers' => <<team'[d], p>> \in assigned'
    <3>1. d # e /\ epc[d] = "grant" /\ team'[d] = team[d] /\ team[d] \notin tornTeams
      BY <1>4, <1>6, <2>2 DEF Granting
    <3>2. team[d] \notin fresh
      BY <1>0, <3>1 DEF FreshUntouched, EditorBusy
    <3>3. Granting(d)
      BY <2>2, <3>1, <3>2 DEF Granting
    <3> QED BY <1>0, <1>1, <3>1, <3>3 DEF EditSettles, Agrees
  <2> QED BY <2>1, <2>2 DEF EditSettles
<1> QED BY <1>2, <1>3, <1>5, <1>7, <1>8 DEF AccessInv

LEMMA ClearStep == ASSUME AccessInv, NEW e \in Editor, Clear(e) PROVE AccessInv'
<1>0. TypeOK /\ CallersSeen /\ FreshUntouched /\ OneEditor /\ EditSettles
  BY DEF AccessInv
<1> DEFINE t == team[e]
<1>1. /\ epc[e] = "clear" /\ epc' = [epc EXCEPT ![e] = "grant"]
      /\ access' = {a \in access : a[1] # t} /\ todo' = [todo EXCEPT ![e] = want[e]]
      /\ assigned' = {a \in assigned : a[1] # t} \cup {t} \X want[e]
      /\ held' \subseteq held
      /\ UNCHANGED <<teams, fresh, providers, active, members, edits, team, want, cpc, user, prov, conv, tornTeams>>
      /\ Observe
  BY DEF Clear, callers
<1>t. t \in Team /\ want[e] \subseteq Provider
  BY <1>0 DEF TypeOK
<1> HIDE DEF t
<1>2. CallersSeen' /\ granted' \in [Caller -> BOOLEAN] /\ proper' \in [Caller -> BOOLEAN]
  BY <1>0, <1>1, ObservedCallers
<1>3. TypeOK'
  <2>1. access' \subseteq teams' \X providers' /\ assigned' \subseteq Team \X Provider
        /\ held' \subseteq Team \X Provider
    BY <1>0, <1>1, <1>t DEF TypeOK
  <2> QED BY <1>0, <1>1, <1>2, <2>1, <1>t DEF TypeOK
<1>4. /\ \A u \in Team \ {t}, p \in Provider :
           /\ <<u, p>> \in access' <=> <<u, p>> \in access
           /\ <<u, p>> \in assigned' <=> <<u, p>> \in assigned
      /\ \A p \in Provider : <<t, p>> \notin access' /\ (<<t, p>> \in assigned' <=> p \in want[e])
  BY <1>0, <1>1, <1>t DEF TypeOK
<1>5. epc'[e] = "grant" /\ todo'[e] = want[e]
      /\ \A d \in Editor \ {e} : epc'[d] = epc[d] /\ todo'[d] = todo[d]
  BY <1>0, <1>1 DEF TypeOK
<1>6. t \notin fresh
  BY <1>0, <1>1 DEF FreshUntouched, EditorBusy, t
<1>7. FreshUntouched'
  <2>1. \A u \in fresh : ~EditorBusy(u) => ~EditorBusy(u)'
    BY <1>1, <1>5 DEF EditorBusy
  <2>2. fresh \subseteq Team
    BY <1>0 DEF TypeOK
  <2> QED BY <1>0, <1>1, <1>4, <1>6, <2>1, <2>2 DEF FreshUntouched
<1>8. OneEditor'
  BY <1>0, <1>1, <1>5 DEF OneEditor
<1>9. EditSettles'
  <2>1. ASSUME NEW u \in teams' \ tornTeams', NEW p \in Provider,
               \A d \in Editor : team'[d] = u => epc'[d] # "grant"
        PROVE  Agrees(u, p)'
    <3>1. u # t /\ u \in teams \ tornTeams /\ u \in Team
      BY <1>0, <1>1, <1>5, <2>1 DEF t, TypeOK
    <3>2. \A d \in Editor : team[d] = u => epc[d] # "grant"
      BY <1>1, <1>5, <2>1
    <3>3. Agrees(u, p)
      BY <1>0, <3>1, <3>2 DEF EditSettles
    <3> QED BY <1>4, <3>1, <3>3 DEF Agrees
  <2>2. ASSUME NEW d \in Editor, NEW p \in Provider, Granting(d)'
        PROVE  /\ p \notin todo'[d] => Agrees(team[d], p)'
               /\ p \in todo'[d] /\ p \in providers' => <<team'[d], p>> \in assigned'
    <3>1. CASE d = e
      BY <1>1, <1>4, <1>5, <3>1 DEF Agrees, t
    <3>2. CASE d # e
      <4>1. Granting(d)
        BY <1>1, <1>5, <2>2, <3>2 DEF Granting
      <4>2. team[d] # t /\ team[d] \in Team
        BY <1>0, <1>1, <3>2, <4>1 DEF OneEditor, Granting, t, TypeOK
      <4> QED BY <1>0, <1>1, <1>4, <1>5, <3>2, <4>1, <4>2 DEF EditSettles, Agrees
    <3> QED BY <3>1, <3>2
  <2> QED BY <2>1, <2>2 DEF EditSettles
<1> QED BY <1>2, <1>3, <1>7, <1>8, <1>9 DEF AccessInv

LEMMA GrantStep == ASSUME AccessInv, NEW e \in Editor, NEW q \in Provider, Grant(e, q) PROVE AccessInv'
<1>0. TypeOK /\ CallersSeen /\ FreshUntouched /\ OneEditor /\ EditSettles
  BY DEF AccessInv
<1>1. /\ epc[e] = "grant" /\ q \in todo[e]
      /\ UNCHANGED <<teams, fresh, providers, active, members, edits, team, want, cpc, user, prov, conv, assigned>>
      /\ Observe
  BY DEF Grant, callers
<1>2. CallersSeen' /\ granted' \in [Caller -> BOOLEAN] /\ proper' \in [Caller -> BOOLEAN]
  BY <1>0, <1>1, ObservedCallers
<1>3. CASE team[e] \in teams /\ q \in providers
  <2>1. /\ access' = access \cup {<<team[e], q>>} /\ todo' = [todo EXCEPT ![e] = todo[e] \ {q}]
        /\ epc' = epc /\ tornTeams' = tornTeams /\ held' = held \cup {<<team[e], q>>}
    BY <1>3 DEF Grant
  <2>2. TypeOK'
    BY <1>0, <1>1, <1>2, <1>3, <2>1 DEF TypeOK
  <2>3. FreshUntouched' /\ OneEditor'
    BY <1>0, <1>1, <2>1 DEF FreshUntouched, EditorBusy, OneEditor
  <2>4. todo'[e] = todo[e] \ {q} /\ \A d \in Editor \ {e} : todo'[d] = todo[d]
    BY <1>0, <2>1 DEF TypeOK
  <2>5. EditSettles'
    <3>1. ASSUME NEW u \in teams' \ tornTeams', NEW p \in Provider,
                 \A d \in Editor : team'[d] = u => epc'[d] # "grant"
          PROVE  Agrees(u, p)'
      <4>1. u # team[e] /\ Agrees(u, p)
        BY <1>0, <1>1, <2>1, <3>1 DEF EditSettles
      <4> QED BY <1>1, <2>1, <4>1 DEF Agrees
    <3>2. ASSUME NEW d \in Editor, NEW p \in Provider, Granting(d)'
          PROVE  /\ p \notin todo'[d] => Agrees(team[d], p)'
                 /\ p \in todo'[d] /\ p \in providers' => <<team'[d], p>> \in assigned'
      <4>1. Granting(d) /\ team'[d] = team[d]
        BY <1>1, <2>1, <3>2 DEF Granting
      <4>2. CASE d # e
        <5>1. team[d] # team[e]
          BY <1>0, <1>1, <4>1, <4>2 DEF OneEditor, Granting
        <5> QED BY <1>0, <1>1, <2>1, <2>4, <4>1, <4>2, <5>1 DEF EditSettles, Agrees
      <4>3. CASE d = e /\ p = q
        BY <1>0, <1>1, <1>3, <2>1, <2>4, <4>1, <4>3 DEF EditSettles, Agrees
      <4>4. CASE d = e /\ p # q
        BY <1>0, <1>1, <2>1, <2>4, <4>1, <4>4 DEF EditSettles, Agrees
      <4> QED BY <4>2, <4>3, <4>4
    <3> QED BY <3>1, <3>2 DEF EditSettles
  <2> QED BY <1>2, <2>2, <2>3, <2>5 DEF AccessInv
<1>4. CASE ~(team[e] \in teams /\ q \in providers)
  <2>1. /\ epc' = [epc EXCEPT ![e] = "idle"] /\ tornTeams' = tornTeams \cup {team[e]}
        /\ access' = access /\ todo' = todo /\ held' = held
    BY <1>4 DEF Grant
  <2>2. TypeOK'
    BY <1>0, <1>1, <1>2, <2>1 DEF TypeOK
  <2>3. epc'[e] = "idle" /\ \A d \in Editor \ {e} : epc'[d] = epc[d]
    BY <1>0, <2>1 DEF TypeOK
  <2>4. FreshUntouched' /\ OneEditor'
    BY <1>0, <1>1, <2>1, <2>3 DEF FreshUntouched, EditorBusy, OneEditor
  <2>5. EditSettles'
    <3>1. ASSUME NEW u \in teams' \ tornTeams', NEW p \in Provider,
                 \A d \in Editor : team'[d] = u => epc'[d] # "grant"
          PROVE  Agrees(u, p)'
      <4>1. u # team[e] /\ u \in teams \ tornTeams
        BY <1>1, <2>1, <3>1
      <4>2. \A d \in Editor : team[d] = u => epc[d] # "grant"
        BY <1>1, <2>3, <3>1, <4>1
      <4> QED BY <1>0, <1>1, <2>1, <4>1, <4>2 DEF EditSettles, Agrees
    <3>2. ASSUME NEW d \in Editor, NEW p \in Provider, Granting(d)'
          PROVE  /\ p \notin todo'[d] => Agrees(team[d], p)'
                 /\ p \in todo'[d] /\ p \in providers' => <<team'[d], p>> \in assigned'
      <4>1. Granting(d) /\ team'[d] = team[d]
        BY <1>1, <2>1, <2>3, <3>2 DEF Granting
      <4> QED BY <1>0, <1>1, <2>1, <4>1 DEF EditSettles, Agrees
    <3> QED BY <3>1, <3>2 DEF EditSettles
  <2> QED BY <1>2, <2>2, <2>4, <2>5 DEF AccessInv
<1> QED BY <1>3, <1>4

LEMMA GrantedStep == ASSUME AccessInv, NEW e \in Editor, Granted(e) PROVE AccessInv'
<1>0. TypeOK /\ CallersSeen /\ FreshUntouched /\ OneEditor /\ EditSettles
  BY DEF AccessInv
<1>1. /\ epc[e] = "grant" /\ todo[e] = {} /\ epc' = [epc EXCEPT ![e] = "idle"]
      /\ UNCHANGED <<teams, fresh, providers, active, members, access, edits, team, want, todo,
                     cpc, user, prov, conv, assigned, tornTeams, held>>
      /\ Observe
  BY DEF Granted, callers, tables
<1>2. CallersSeen' /\ granted' \in [Caller -> BOOLEAN] /\ proper' \in [Caller -> BOOLEAN]
  BY <1>0, <1>1, ObservedCallers
<1>3. TypeOK'
  BY <1>0, <1>1, <1>2 DEF TypeOK
<1>4. epc'[e] = "idle" /\ \A d \in Editor \ {e} : epc'[d] = epc[d]
  BY <1>0, <1>1 DEF TypeOK
<1>5. FreshUntouched' /\ OneEditor'
  BY <1>0, <1>1, <1>4 DEF FreshUntouched, EditorBusy, OneEditor
<1>6. EditSettles'
  <2>1. ASSUME NEW u \in teams' \ tornTeams', NEW p \in Provider,
               \A d \in Editor : team'[d] = u => epc'[d] # "grant"
        PROVE  Agrees(u, p)'
    <3>1. CASE u = team[e]
      BY <1>0, <1>1, <2>1, <3>1 DEF EditSettles, Agrees, Granting
    <3>2. CASE u # team[e]
      <4>1. \A d \in Editor : team[d] = u => epc[d] # "grant"
        BY <1>1, <1>4, <2>1, <3>2
      <4> QED BY <1>0, <1>1, <4>1 DEF EditSettles, Agrees
    <3> QED BY <3>1, <3>2
  <2>2. ASSUME NEW d \in Editor, NEW p \in Provider, Granting(d)'
        PROVE  /\ p \notin todo'[d] => Agrees(team[d], p)'
               /\ p \in todo'[d] /\ p \in providers' => <<team'[d], p>> \in assigned'
    <3>1. Granting(d)
      BY <1>1, <1>4, <2>2 DEF Granting
    <3> QED BY <1>0, <1>1, <3>1 DEF EditSettles, Agrees
  <2> QED BY <2>1, <2>2 DEF EditSettles
<1> QED BY <1>2, <1>3, <1>5, <1>6 DEF AccessInv

LEMMA DeleteTeamStep == ASSUME AccessInv, NEW t \in Team, delete_team(t) PROVE AccessInv'
<1>0. TypeOK /\ CallersSeen /\ FreshUntouched /\ OneEditor /\ EditSettles
  BY DEF AccessInv
<1>1. /\ t \in teams /\ edits < MaxEdits /\ edits' = edits + 1 /\ teams' = teams \ {t}
      /\ members' = {m \in members : m[1] # t} /\ access' = {a \in access : a[1] # t}
      /\ assigned' = {a \in assigned : a[1] # t} /\ held' \subseteq held
      /\ tornTeams' = IF EditorBusy(t) THEN tornTeams \cup {t} ELSE tornTeams
      /\ UNCHANGED <<fresh, providers, active, epc, team, want, todo, cpc, user, prov, conv>>
      /\ Observe
  BY DEF delete_team, Edit, callers, editors
<1>2. CallersSeen' /\ granted' \in [Caller -> BOOLEAN] /\ proper' \in [Caller -> BOOLEAN]
  BY <1>0, <1>1, ObservedCallers
<1>3. TypeOK'
  <2>1. edits' \in 0 .. MaxEdits
    BY <1>0, <1>1, AccessAssumption DEF TypeOK
  <2>2. members' \subseteq teams' \X User /\ access' \subseteq teams' \X providers'
        /\ assigned' \subseteq Team \X Provider /\ held' \subseteq Team \X Provider /\ fresh' \subseteq Team \ teams'
    BY <1>0, <1>1 DEF TypeOK
  <2> QED BY <1>0, <1>1, <1>2, <2>1, <2>2 DEF TypeOK
<1>4. \A u \in Team \ {t}, p \in Provider :
        /\ <<u, p>> \in access' <=> <<u, p>> \in access
        /\ <<u, p>> \in assigned' <=> <<u, p>> \in assigned
  BY <1>1
<1>5. tornTeams \subseteq tornTeams' /\ assigned' \subseteq assigned
  BY <1>1
<1>6. FreshUntouched' /\ OneEditor'
  BY <1>0, <1>1, <1>5 DEF FreshUntouched, EditorBusy, OneEditor
<1>7. EditSettles'
  <2>1. \A u \in teams' \ tornTeams' : u \in (teams \ tornTeams) \ {t} /\ u \in Team
    BY <1>0, <1>1, <1>5 DEF TypeOK
  <2>2. ASSUME NEW u \in teams' \ tornTeams', NEW p \in Provider,
               \A d \in Editor : team'[d] = u => epc'[d] # "grant"
        PROVE  Agrees(u, p)'
    <3>1. u \in (teams \ tornTeams) \ {t} /\ u \in Team
      BY <2>1
    <3>2. Agrees(u, p)
      BY <1>0, <1>1, <2>2, <3>1 DEF EditSettles
    <3> QED BY <1>4, <3>1, <3>2 DEF Agrees
  <2>3. ASSUME NEW d \in Editor, NEW p \in Provider, Granting(d)'
        PROVE  /\ p \notin todo'[d] => Agrees(team[d], p)'
               /\ p \in todo'[d] /\ p \in providers' => <<team'[d], p>> \in assigned'
    <3>1. Granting(d) /\ team[d] # t /\ team[d] \in Team
      BY <1>1, <2>1, <2>3 DEF Granting
    <3> QED BY <1>0, <1>1, <1>4, <3>1 DEF EditSettles, Agrees
  <2> QED BY <2>2, <2>3 DEF EditSettles
<1> QED BY <1>2, <1>3, <1>6, <1>7 DEF AccessInv

LEMMA DeleteProviderStep == ASSUME AccessInv, NEW q \in Provider, delete_provider(q) PROVE AccessInv'
<1>0. TypeOK /\ CallersSeen /\ FreshUntouched /\ OneEditor /\ EditSettles
  BY DEF AccessInv
<1>1. /\ q \in providers /\ edits < MaxEdits /\ edits' = edits + 1
      /\ providers' = providers \ {q} /\ active' = active \ {q}
      /\ access' = {a \in access : a[2] # q} /\ assigned' = {a \in assigned : a[2] # q}
      /\ held' \subseteq held
      /\ conv' = {IF x[2] = q THEN <<x[1], Null>> ELSE x : x \in conv}
      /\ UNCHANGED <<teams, fresh, members, epc, team, want, todo, cpc, user, prov, tornTeams>>
      /\ Observe
  BY DEF delete_provider, Edit, editors
<1>2. CallersSeen' /\ granted' \in [Caller -> BOOLEAN] /\ proper' \in [Caller -> BOOLEAN]
  BY <1>0, <1>1, ObservedCallers
<1>3. TypeOK'
  <2>1. edits' \in 0 .. MaxEdits
    BY <1>0, <1>1, AccessAssumption DEF TypeOK
  <2>2. access' \subseteq teams' \X providers' /\ assigned' \subseteq Team \X Provider
        /\ held' \subseteq Team \X Provider
        /\ active' \subseteq providers' /\ providers' \subseteq Provider
    BY <1>0, <1>1 DEF TypeOK
  <2>3. conv' \subseteq User \X (providers' \cup {Null})
    BY <1>0, <1>1 DEF TypeOK
  <2> QED BY <1>0, <1>1, <1>2, <2>1, <2>2, <2>3 DEF TypeOK
<1>4. /\ \A u \in Team, p \in Provider \ {q} :
           /\ <<u, p>> \in access' <=> <<u, p>> \in access
           /\ <<u, p>> \in assigned' <=> <<u, p>> \in assigned
      /\ \A u \in Team : <<u, q>> \notin access' /\ <<u, q>> \notin assigned'
  BY <1>1
<1>5. FreshUntouched' /\ OneEditor'
  BY <1>0, <1>1 DEF FreshUntouched, EditorBusy, OneEditor
<1>6. EditSettles'
  <2>1. \A u \in teams : u \in Team
    BY <1>0 DEF TypeOK
  <2>2. ASSUME NEW u \in Team, NEW p \in Provider, Agrees(u, p) PROVE Agrees(u, p)'
    BY <1>4, <2>2 DEF Agrees
  <2>3. ASSUME NEW u \in teams' \ tornTeams', NEW p \in Provider,
               \A d \in Editor : team'[d] = u => epc'[d] # "grant"
        PROVE  Agrees(u, p)'
    <3>1. Agrees(u, p) /\ u \in Team
      BY <1>0, <1>1, <2>1, <2>3 DEF EditSettles
    <3> QED BY <2>2, <3>1
  <2>4. ASSUME NEW d \in Editor, NEW p \in Provider, Granting(d)'
        PROVE  /\ p \notin todo'[d] => Agrees(team[d], p)'
               /\ p \in todo'[d] /\ p \in providers' => <<team'[d], p>> \in assigned'
    <3>1. Granting(d) /\ team[d] \in Team
      BY <1>1, <2>1, <2>4 DEF Granting
    <3>2. p \notin todo'[d] => Agrees(team[d], p)'
      <4>1. p \notin todo[d] => Agrees(team[d], p)
        BY <1>0, <3>1 DEF EditSettles
      <4>2. Agrees(team[d], p) => Agrees(team[d], p)'
        BY <1>1, <1>4, <3>1 DEF Agrees
      <4> QED BY <1>1, <4>1, <4>2
    <3> QED BY <1>0, <1>1, <1>4, <3>1, <3>2 DEF EditSettles
  <2> QED BY <2>3, <2>4 DEF EditSettles
<1> QED BY <1>2, <1>3, <1>5, <1>6 DEF AccessInv

LEMMA NextAccessInv == AccessInv /\ [Next]_vars => AccessInv'
<1> SUFFICES ASSUME AccessInv, [Next]_vars PROVE AccessInv'
  OBVIOUS
<1>0. TypeOK /\ CallersSeen
  BY DEF AccessInv
<1>1. ASSUME NEW e \in Editor, NEW t \in Team, NEW P \in SUBSET Provider,
             create_team(e, t, P) \/ update_team(e, t, P)
      PROVE  AccessInv'
  BY <1>1, SetsAccessStep DEF create_team, update_team
<1>2. ASSUME NEW p \in Provider, update_provider(p) PROVE AccessInv'
  <2>1. /\ edits < MaxEdits /\ edits' = edits + 1 /\ p \in providers
        /\ active' = IF p \in active THEN active \ {p} ELSE active \cup {p}
        /\ UNCHANGED <<teams, fresh, providers, members, access, epc, team, want, todo,
                       cpc, user, prov, conv, assigned, tornTeams, held>> /\ Observe
    BY <1>2 DEF update_provider, Edit, editors, callers
  <2>2. CallersSeen' /\ granted' \in [Caller -> BOOLEAN] /\ proper' \in [Caller -> BOOLEAN]
    BY <1>0, <2>1, ObservedCallers
  <2>3. TypeOK'
    BY <1>0, <2>1, <2>2, AccessAssumption DEF TypeOK
  <2> QED BY <2>1, <2>2, <2>3, RowStep DEF editors
<1>3. ASSUME NEW t \in Team, NEW u \in User, add_member(t, u) \/ remove_member(t, u) PROVE AccessInv'
  <2>1. /\ edits < MaxEdits /\ edits' = edits + 1
        /\ UNCHANGED <<teams, fresh, providers, active, access, epc, team, want, todo,
                       cpc, user, prov, conv, assigned, tornTeams, held>> /\ Observe
    BY <1>3 DEF add_member, remove_member, Edit, editors, callers
  <2>2. CallersSeen' /\ granted' \in [Caller -> BOOLEAN] /\ proper' \in [Caller -> BOOLEAN]
    BY <1>0, <2>1, ObservedCallers
  <2>3. members' \subseteq teams' \X User
    BY <1>0, <1>3, <2>1 DEF add_member, remove_member, TypeOK
  <2>4. TypeOK'
    BY <1>0, <2>1, <2>2, <2>3, AccessAssumption DEF TypeOK
  <2> QED BY <2>1, <2>2, <2>4, RowStep DEF editors
<1>4. ASSUME NEW c \in Caller, NEW u \in User, NEW p \in Provider, create_conversation(c, u, p)
      PROVE  AccessInv'
  <2>1. /\ UNCHANGED unchangedByCaller /\ conv' = conv
        /\ cpc' = [cpc EXCEPT ![c] = "restricted"]
        /\ user' = [user EXCEPT ![c] = u] /\ prov' = [prov EXCEPT ![c] = p]
        /\ granted' = [granted EXCEPT ![c] = MayUse(u, p, access, members)]
        /\ proper' = [proper EXCEPT ![c] = MayUse(u, p, held, members)]
        /\ access' = access /\ members' = members
    BY <1>4 DEF create_conversation, go, unchangedByCaller, tables
  <2>2. MayUse(u, p, access, members) \in BOOLEAN /\ MayUse(u, p, held, members) \in BOOLEAN
    BY DEF MayUse
  <2>3. granted' \in [Caller -> BOOLEAN] /\ proper' \in [Caller -> BOOLEAN]
    BY <1>0, <2>1, <2>2, Zenon DEF TypeOK
  <2>4. TypeOK'
    BY <1>0, <2>1, <2>3 DEF TypeOK, unchangedByCaller, tables, editors
  <2>5. ASSUME NEW x \in Caller PROVE CallerSeen(x)'
    <3>1. CASE x = c
      <4>1. cpc'[c] = "restricted" /\ user'[c] = u /\ prov'[c] = p
            /\ (granted'[c] <=> MayUse(u, p, access, members))
        BY <1>0, <2>1 DEF TypeOK
      <4>2. MayUse(user[c], prov[c], access, members)' <=> MayUse(u, p, access, members)
        BY <2>1, <4>1 DEF MayUse
      <4> QED BY <3>1, <4>1, <4>2 DEF CallerSeen
    <3>2. CASE x # c
      <4>1. cpc'[x] = cpc[x] /\ user'[x] = user[x] /\ prov'[x] = prov[x] /\ granted'[x] = granted[x]
        BY <1>0, <2>1, <3>2 DEF TypeOK
      <4>2. MayUse(user[x], prov[x], access, members)' <=> MayUse(user[x], prov[x], access, members)
        BY <2>1, <4>1 DEF MayUse
      <4>3. CallerSeen(x)
        BY <1>0 DEF CallersSeen
      <4> QED BY <4>1, <4>2, <4>3 DEF CallerSeen
    <3> QED BY <3>1, <3>2
  <2> QED BY <2>1, <2>4, <2>5, CallerStep DEF CallersSeen
<1>5. ASSUME NEW c \in Caller, Restricted(c) \/ Member(c) \/ Insert(c) PROVE AccessInv'
  <2>1. UNCHANGED unchangedByCaller /\ UNCHANGED <<user, prov, granted, proper>> /\ UNCHANGED <<access, members>>
    BY <1>5 DEF Restricted, Member, Insert, history, unchangedByCaller, tables
  <2>2. PICK l \in {"member", "insert", "done", "denied"} : cpc' = [cpc EXCEPT ![c] = l]
    BY <1>5 DEF Restricted, Member, Insert, go
  <2>3. conv' \subseteq User \X (providers \cup {Null})
    BY <1>0, <1>5 DEF Restricted, Member, Insert, TypeOK
  <2>4. TypeOK'
    BY <1>0, <2>1, <2>2, <2>3 DEF TypeOK, unchangedByCaller, tables, editors
  <2>5. ASSUME NEW x \in Caller PROVE CallerSeen(x)'
    <3>1. CASE x = c
      <4>1. cpc'[c] = l
        BY <1>0, <2>2 DEF TypeOK
      <4>2. cpc[c] \in {"restricted", "member", "insert"}
        BY <1>5 DEF Restricted, Member, Insert
      <4>3. l = "member" => cpc[c] = "restricted"
        BY <1>0, <1>5, <4>1 DEF Restricted, Member, Insert, go, TypeOK
      <4>4. l \in {"insert", "done"} => granted[c]
        <5>1. CASE Restricted(c)
          BY <1>0, <4>1, <5>1 DEF Restricted, go, TypeOK, CallersSeen, CallerSeen, MayUse
        <5>2. CASE Member(c)
          BY <1>0, <4>1, <5>2 DEF Member, go, TypeOK, CallersSeen, CallerSeen, MayUse
        <5>3. CASE Insert(c)
          BY <1>0, <5>3 DEF Insert, CallersSeen, CallerSeen
        <5> QED BY <1>5, <5>1, <5>2, <5>3
      <4> QED BY <1>0, <2>1, <3>1, <4>1, <4>3, <4>4 DEF CallersSeen, CallerSeen, MayUse
    <3>2. CASE x # c
      <4>1. cpc'[x] = cpc[x]
        BY <1>0, <2>2, <3>2 DEF TypeOK
      <4> QED BY <1>0, <2>1, <4>1 DEF CallersSeen, CallerSeen, MayUse
    <3> QED BY <3>1, <3>2
  <2> QED BY <2>1, <2>4, <2>5, CallerStep DEF CallersSeen
<1>6. ASSUME NEW u \in User, NEW p \in Provider \cup {Null}, NEW q \in Provider, patch_conversation(u, p, q)
      PROVE  AccessInv'
  <2>1. UNCHANGED unchangedByCaller /\ UNCHANGED <<cpc, user, prov, granted, proper, access, members>>
    BY <1>6 DEF patch_conversation, history, unchangedByCaller, tables
  <2>2. conv' \subseteq User \X (providers \cup {Null})
    BY <1>0, <1>6 DEF patch_conversation, TypeOK
  <2>3. TypeOK'
    BY <1>0, <2>1, <2>2 DEF TypeOK, unchangedByCaller, tables, editors
  <2>4. CallersSeen'
    BY <1>0, <2>1 DEF CallersSeen, CallerSeen, MayUse
  <2> QED BY <2>1, <2>3, <2>4, CallerStep
<1>7. CASE UNCHANGED vars
  <2>1. UNCHANGED unchangedByCaller /\ UNCHANGED <<cpc, user, prov, conv, granted, proper, access, members>>
    BY <1>7 DEF vars, unchangedByCaller, tables, callers, history
  <2>2. TypeOK'
    BY <1>0, <2>1 DEF TypeOK, unchangedByCaller, tables, editors
  <2>3. CallersSeen'
    BY <1>0, <2>1 DEF CallersSeen, CallerSeen, MayUse
  <2> QED BY <2>1, <2>2, <2>3, CallerStep
<1> QED
  BY <1>1, <1>2, <1>3, <1>4, <1>5, <1>6, <1>7, ClearStep, GrantStep, GrantedStep, DeleteTeamStep,
     DeleteProviderStep DEF Next

LEMMA AccessInvariant == Spec => []AccessInv
BY InitAccessInv, NextAccessInv, PTL DEF Spec

\* user_can_use_provider lets nobody pass who was not granted at some moment of the
\* check, for any number of teams, users, providers, editors and callers.
THEOREM CreateJustifiedHolds == Spec => []CreateJustified
<1>1. AccessInv => CreateJustified
  BY DEF AccessInv, CallersSeen, CallerSeen, CreateJustified
<1> QED BY <1>1, AccessInvariant, PTL

\* The grants of a team at rest are the list last asked for, unless edits of it
\* overlapped or one failed (_set_provider_access), whatever else is deleted and
\* edited meanwhile.
THEOREM GrantsSettleHolds == Spec => []GrantsSettle
<1>1. AccessInv => GrantsSettle
  BY DEF AccessInv, EditSettles, EditorBusy, Agrees, GrantsSettle
<1> QED BY <1>1, AccessInvariant, PTL
=============================================================================
