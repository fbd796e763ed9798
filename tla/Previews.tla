----------------------------- MODULE Previews ------------------------------
(***************************************************************************)
(* Previews of the documents page.  A preview shows a document through an    *)
(* object URL that authedBlobUrl makes for it and that lives until it is     *)
(* revoked; opening and deleting take calls to the API, in any order.        *)
(***************************************************************************)
EXTENDS Naturals

CONSTANTS Doc, PClick, NoDoc
ASSUME PreviewAssumption == NoDoc \notin Doc

VARIABLES docs,      \* documents the API has
          preview,   \* the preview shown, or NoPreview; late: it was set after a
                     \* click on the document's delete button
          urls,      \* object URLs that are not revoked, named after their click
          act,       \* what each click has reached
          doomed     \* documents whose delete button was clicked
previewVars == <<docs, preview, urls, act, doomed>>

NoPreview == [doc |-> NoDoc, url |-> NoDoc, late |-> FALSE]
Unstarted == [at |-> "idle", doc |-> NoDoc, prev |-> NoPreview]

PreviewInit == /\ docs = Doc /\ preview = NoPreview /\ urls = {}
               /\ act = [c \in PClick |-> Unstarted] /\ doomed = {}

openPreview(c, d) ==
  /\ act[c].at = "idle"
  /\ act' = [act EXCEPT ![c] = [Unstarted EXCEPT !.at = "fetch", !.doc = d]]
  /\ UNCHANGED <<docs, preview, urls, doomed>>

\* createObjectURL, once the content has arrived.
authedBlobUrl(c) ==
  /\ act[c].at = "fetch" /\ act[c].doc \in docs
  /\ urls' = urls \cup {c} /\ act' = [act EXCEPT ![c].at = "blob"]
  /\ UNCHANGED <<docs, preview, doomed>>

\* With the text, when the document has one.
setPreview(c) ==
  /\ act[c].at = "blob" /\ act' = [act EXCEPT ![c] = [Unstarted EXCEPT !.at = "over"]]
  /\ preview' = [doc |-> act[c].doc, url |-> c, late |-> act[c].doc \in doomed]
  /\ UNCHANGED <<docs, urls, doomed>>

\* The content, or its text, cannot be fetched.
openFails(c) ==
  /\ act[c].at \in {"fetch", "blob"}
  /\ act' = [act EXCEPT ![c] = [Unstarted EXCEPT !.at = "over"]]
  /\ UNCHANGED <<docs, preview, urls, doomed>>

\* Mutant: the URL is revoked and the panel stays open.
closePreviewHalf(p) == urls' = urls \ {p.url} /\ UNCHANGED preview

\* With the preview of the render it runs in.
closePreview(p) == urls' = urls \ {p.url} /\ preview' = NoPreview

Close == preview # NoPreview /\ closePreview(preview) /\ UNCHANGED <<docs, act, doomed>>

del(c, d) ==
  /\ act[c].at = "idle" /\ d \in docs
  /\ act' = [act EXCEPT ![c] = [at |-> "delete", doc |-> d, prev |-> preview]]
  /\ doomed' = doomed \cup {d} /\ UNCHANGED <<docs, preview, urls>>

Delete(c) == /\ act[c].at = "delete" /\ act[c].doc \in docs
             /\ docs' = docs \ {act[c].doc} /\ act' = [act EXCEPT ![c].at = "deleted"]
             /\ UNCHANGED <<preview, urls, doomed>>

\* if (preview?.doc.id === doc.id) closePreview(), with the preview of the click.
Deleted(c) ==
  /\ act[c].at = "deleted"
  /\ IF act[c].prev.doc = act[c].doc THEN closePreview(act[c].prev)
                                     ELSE UNCHANGED <<preview, urls>>
  /\ act' = [act EXCEPT ![c] = [Unstarted EXCEPT !.at = "over"]]
  /\ UNCHANGED <<docs, doomed>>

\* Not found, or the call or its answer is lost.
DelFails(c) == /\ act[c].at \in {"delete", "deleted"}
               /\ act' = [act EXCEPT ![c] = [Unstarted EXCEPT !.at = "failed"]]
               /\ UNCHANGED <<docs, preview, urls, doomed>>

PreviewNext == \/ \E c \in PClick, d \in Doc : openPreview(c, d) \/ del(c, d)
               \/ \E c \in PClick : \/ authedBlobUrl(c) \/ setPreview(c) \/ openFails(c)
                                   \/ Delete(c) \/ Deleted(c) \/ DelFails(c)
               \/ Close

PreviewSpec == PreviewInit /\ [][PreviewNext]_previewVars

-----------------------------------------------------------------------------
(* Properties *)

\* A preview on the screen can be read, whichever handler closed which earlier one;
\* and it is of a document that exists, unless it was set after a click on that
\* document's delete button or a deletion's answer was lost.
PreviewSound ==
  preview # NoPreview =>
     /\ preview.url \in urls
     /\ \/ preview.doc \in docs \/ preview.late
        \/ \E c \in PClick : act[c].at \in {"deleted", "failed"}
=============================================================================
