----------------------------- MODULE Documents -----------------------------
(***************************************************************************)
(* The documents of a user: files on the storage volume, rows of documents,    *)
(* and the chunks the indexer stores for retrieval.  No route uses a           *)
(* transaction: upload writes the file and then the row, delete reads the row, *)
(* removes the file and then the row, and index replaces the chunks one        *)
(* statement at a time, after the call that embeds them.  Any of these may     *)
(* fail, or its process die, between two statements.                           *)
(***************************************************************************)
EXTENDS Naturals, FiniteSets

CONSTANTS Doc,        \* ids, each drawn once; a document's storage key is unique too
          DocCall,    \* concurrent requests
          ChunkCount  \* chunks of a document that has text

ASSUME DocAssumption == IsFiniteSet(DocCall) /\ ChunkCount \in Nat \ {0}

VARIABLES owner,    \* the owner's row of users exists
          drawn,    \* ids in use or used
          rows, files, indexed,
          chunks,   \* how often each chunk of a document is stored
          op,       \* what a request does next, to which document, after how many chunks
          torn,     \* history: a delete broke off between file and row
          stray,    \* history: an upload broke off between them, or the owner was deleted
          mixed     \* history: indexed by two at a time, or not to the end

docStore == <<owner, drawn, rows, files, indexed, chunks>>
docHistory == <<torn, stray, mixed>>
docVars == <<docStore, op, docHistory>>

Label == {"insert", "unlink", "drop", "read", "embed", "clear", "put", "mark"}
Idle == [at |-> "idle"]
None == [i \in 1 .. ChunkCount |-> 0]
Once == [i \in 1 .. ChunkCount |-> 1]

DocTypeOK ==
  /\ owner \in BOOLEAN
  /\ rows \cup files \subseteq drawn /\ drawn \subseteq Doc
  /\ indexed \subseteq rows
  /\ chunks \in [Doc -> [1 .. ChunkCount -> Nat]]
  /\ \A d \in Doc \ rows : chunks[d] = None               \* ON DELETE CASCADE
  /\ op \in [DocCall -> [at : Label, doc : Doc, n : 0 .. ChunkCount] \cup {Idle}]
  /\ torn \subseteq Doc /\ stray \subseteq Doc /\ mixed \subseteq Doc

DocInit ==
  /\ owner = TRUE /\ drawn = {} /\ rows = {} /\ files = {} /\ indexed = {}
  /\ chunks = [d \in Doc |-> None]
  /\ op = [c \in DocCall |-> Idle]
  /\ torn = {} /\ stray = {} /\ mixed = {}

At(c, l) == op[c].at = l
doc(c) == op[c].doc
start(c, l, d) == op[c] = Idle /\ op' = [op EXCEPT ![c] = [at |-> l, doc |-> d, n |-> 0]]
goto(c, l) == op' = [op EXCEPT ![c].at = l]
done(c) == op' = [op EXCEPT ![c] = Idle]
Busy(d, ls) == {c \in DocCall : op[c].at \in ls /\ doc(c) = d}

-----------------------------------------------------------------------------
(* upload_document *)

\* make_key and store.save, for data neither empty nor too large.
Upload(c, d) ==
  /\ owner /\ d \notin drawn
  /\ drawn' = drawn \cup {d} /\ files' = files \cup {d}
  /\ start(c, "insert", d)
  /\ UNCHANGED <<owner, rows, indexed, chunks, docHistory>>

InsertRow(c) ==
  /\ At(c, "insert") /\ owner
  /\ rows' = rows \cup {doc(c)} /\ done(c)
  /\ UNCHANGED <<owner, drawn, files, indexed, chunks, docHistory>>

-----------------------------------------------------------------------------
(* delete_document *)

\* Mutant: the row is removed before the file.
DeleteRowFirst(c, d) ==
  /\ d \in rows /\ start(c, "unlink", d)
  /\ rows' = rows \ {d} /\ indexed' = indexed \ {d} /\ chunks' = [chunks EXCEPT ![d] = None]
  /\ UNCHANGED <<owner, drawn, files, docHistory>>

Delete(c, d) == d \in rows /\ start(c, "unlink", d) /\ UNCHANGED <<docStore, docHistory>>

Unlink(c) ==          \* a file that is gone is no error
  /\ At(c, "unlink") /\ files' = files \ {doc(c)} /\ goto(c, "drop")
  /\ UNCHANGED <<owner, drawn, rows, indexed, chunks, docHistory>>

DropRow(c) ==
  /\ At(c, "drop") /\ done(c)
  /\ rows' = rows \ {doc(c)} /\ indexed' = indexed \ {doc(c)}
  /\ chunks' = [chunks EXCEPT ![doc(c)] = None]
  /\ UNCHANGED <<owner, drawn, files, docHistory>>

-----------------------------------------------------------------------------
(* index_document *)

Index(c, d) == d \in rows /\ start(c, "read", d) /\ UNCHANGED <<docStore, docHistory>>

\* store.read, extract_text and chunk_text: a missing file raises, a document
\* without text is refused.
ReadFile(c, text) ==
  /\ At(c, "read")
  /\ IF doc(c) \in files /\ text THEN goto(c, "embed") ELSE done(c)
  /\ UNCHANGED <<docStore, docHistory>>

Embedded(c) == At(c, "embed") /\ goto(c, "clear") /\ UNCHANGED <<docStore, docHistory>>

\* Mutant: the earlier chunks stay.
ClearNothing(c) ==
  /\ At(c, "clear") /\ goto(c, "put")
  /\ mixed' = IF Busy(doc(c), {"put", "mark"}) = {} THEN mixed \ {doc(c)} ELSE mixed \cup {doc(c)}
  /\ UNCHANGED <<docStore, torn, stray>>

ClearChunks(c) ==
  /\ At(c, "clear") /\ goto(c, "put")
  /\ chunks' = [chunks EXCEPT ![doc(c)] = None]
  /\ mixed' = IF Busy(doc(c), {"put", "mark"}) = {} THEN mixed \ {doc(c)} ELSE mixed \cup {doc(c)}
  /\ UNCHANGED <<owner, drawn, rows, files, indexed, torn, stray>>

\* Mutant: the loop ends one chunk early.
PutChunkShort(c) ==
  LET n == op[c].n + 1 IN
  /\ At(c, "put") /\ doc(c) \in rows
  /\ chunks' = [chunks EXCEPT ![doc(c)][n] = @ + 1]
  /\ op' = [op EXCEPT ![c].n = n, ![c].at = IF n + 1 >= ChunkCount THEN "mark" ELSE "put"]
  /\ UNCHANGED <<owner, drawn, rows, files, indexed, docHistory>>

PutChunk(c) ==
  LET n == op[c].n + 1 IN
  /\ At(c, "put") /\ doc(c) \in rows
  /\ chunks' = [chunks EXCEPT ![doc(c)][n] = @ + 1]
  /\ op' = [op EXCEPT ![c].n = n, ![c].at = IF n = ChunkCount THEN "mark" ELSE "put"]
  /\ UNCHANGED <<owner, drawn, rows, files, indexed, docHistory>>

MarkIndexed(c) ==
  /\ At(c, "mark") /\ done(c)
  /\ indexed' = indexed \cup ({doc(c)} \cap rows)
  /\ UNCHANGED <<owner, drawn, rows, files, chunks, docHistory>>

-----------------------------------------------------------------------------
\* A statement or the embedding call fails (a foreign key violation included),
\* or the process dies: nothing is undone.
Breaks(c) ==
  /\ op[c] # Idle /\ done(c)
  /\ torn' = IF At(c, "drop") THEN torn \cup {doc(c)} ELSE torn
  /\ stray' = IF At(c, "insert") THEN stray \cup {doc(c)} ELSE stray
  /\ mixed' = IF op[c].at \in {"put", "mark"} THEN mixed \cup {doc(c)} ELSE mixed
  /\ UNCHANGED docStore

\* delete_user: the rows follow by cascade, the files do not.
DeleteOwner ==
  /\ owner /\ owner' = FALSE
  /\ rows' = {} /\ indexed' = {} /\ chunks' = [d \in Doc |-> None]
  /\ stray' = stray \cup rows
  /\ UNCHANGED <<drawn, files, op, torn, mixed>>

DocStep(c) ==
  \/ \E d \in Doc : Upload(c, d) \/ Delete(c, d) \/ Index(c, d)
  \/ InsertRow(c) \/ Unlink(c) \/ DropRow(c)
  \/ \E text \in BOOLEAN : ReadFile(c, text)
  \/ Embedded(c) \/ ClearChunks(c) \/ PutChunk(c) \/ MarkIndexed(c) \/ Breaks(c)

DocNext == (\E c \in DocCall : DocStep(c)) \/ DeleteOwner
DocSpec == DocInit /\ [][DocNext]_docVars

-----------------------------------------------------------------------------
(* Properties *)

\* A listed document has its file, and a file its row, whatever uploads, deletes
\* and indexers run side by side: only a delete or an upload that is between its
\* two writes, or was interrupted there, and the deletion of the owner make an
\* exception (upload_document, delete_document).
StoreAgrees ==
  /\ \A d \in rows \ files : d \in torn \/ Busy(d, {"drop"}) # {}
  /\ \A d \in files \ rows : d \in stray \/ Busy(d, {"insert"}) # {}

\* A document marked as indexed has each of its chunks stored exactly once, and
\* one that is not has none, once its indexers are done, unless two of them
\* overlapped or one was interrupted (index_document: "Replace any prior index
\* for this document").
IndexSettled ==
  \A d \in rows \ mixed :
    Busy(d, {"put", "mark"}) = {} => chunks[d] = IF d \in indexed THEN Once ELSE None

\* Overlapping and interrupted indexers may store a chunk more than once, but
\* never more often than requests run at a time: copies do not pile up from one
\* indexing to the next and crowd the TOP_K of ask.
CopiesBounded == \A d \in Doc, i \in 1 .. ChunkCount : chunks[d][i] <= Cardinality(DocCall)

\* Both: undisturbed, the index is exact, and disturbed, it is bounded and repaired
\* by the next undisturbed indexing (index_document).
IndexSound == IndexSettled /\ CopiesBounded

\* All of it: file store, table and chunks agree (documents.py, rag.py).
StoreSound == StoreAgrees /\ IndexSound
=============================================================================
