------------------------------ MODULE ChatPage ------------------------------
(***************************************************************************)
(* The chat page of the panel: one list of messages on the screen, one id of   *)
(* the open conversation, and requests whose answers change both when they     *)
(* arrive, whatever the user has opened meanwhile.  The API is what the page   *)
(* sees of it: the turn is stored before the stream begins, the reply after    *)
(* [DONE] was sent, when the page may have read the messages again already;    *)
(* a stream that reports an error stores no reply (module Conversations).      *)
(***************************************************************************)
EXTENDS Selection

CONSTANTS Convo,     \* ids the API may hand out
          Loading,   \* requests of openConversation under way at a time
          MaxSends   \* bound: messages the user sends

VARIABLES created,    \* conversations the API has
          stored,     \* their messages
          owed,       \* replies that event_stream has relayed and not stored: conversation, message
          activeId,
          messages,   \* on the screen
          load,       \* openConversation
          sender,     \* send
          attach,     \* attachFile
          context,    \* addContext: where it was clicked
          pending,    \* conversations whose files and contexts are attached to the next message
          sends,
          crossed,    \* history: the user went on before an answer arrived, or one failed
          late,       \* history: a reply was stored after its conversation was read for the screen
          strayed     \* history: the conversation changed with something attached

pageVars == <<created, stored, owed, activeId, messages, load, sender, attach, context, pending, sends,
              crossed, late, strayed>>

NoConvo == "null"
ASSUME PageAssumption == NoConvo \notin Convo
NoLoad == [at |-> "none"]
NotSending == [at |-> "none"]
NotAttaching == [at |-> "none"]
NoContext == "none"

\* A message on the screen: tmp marks the provisional ids tmp-u and tmp-a, from the
\* conversations that its text came from.
Entry(role, tmp, from) == [role |-> role, tmp |-> tmp, from |-> from]
View(c, ms) == [i \in 1 .. Len(ms) |-> Entry(ms[i].role, FALSE, {c})]
Settle(ms) == [i \in 1 .. Len(ms) |-> [ms[i] EXCEPT !.tmp = FALSE]]

PageTypeOK ==
  /\ created \subseteq Convo /\ activeId \in created \cup {NoConvo}
  /\ \A c \in Convo : c \notin created => stored[c] = <<>>
  /\ owed \subseteq created \X (1 .. MaxSends)
  /\ \A i \in 1 .. Len(messages) :
       messages[i] \in [role : {"user", "assistant"}, tmp : BOOLEAN, from : SUBSET Convo]
  /\ pending \subseteq created \cup {NoConvo}
  /\ sends \in 0 .. MaxSends /\ crossed \in BOOLEAN /\ late \in BOOLEAN /\ strayed \in BOOLEAN

PageInit ==
  /\ created = {} /\ stored = [c \in Convo |-> <<>>] /\ owed = {}
  /\ activeId = NoConvo /\ messages = <<>>
  /\ load = [l \in Loading |-> NoLoad] /\ sender = NotSending /\ attach = NotAttaching
  /\ context = NoContext /\ pending = {} /\ sends = 0
  /\ crossed = FALSE /\ late = FALSE /\ strayed = FALSE

Quiet == sender = NotSending /\ \A l \in Loading : load[l] = NoLoad
Awaited == attach # NotAttaching \/ context # NoContext
WithFiles == pending # {} \/ Awaited

\* History: what was attached in the new chat is c's once c is created for it.
Named(S, c) == {IF x = NoConvo THEN c ELSE x : x \in S}
Adopt(c) ==
  IF activeId = NoConvo
    THEN pending' = Named(pending, c) /\ context' = (IF context = NoConvo THEN c ELSE context)
    ELSE UNCHANGED <<pending, context>>

-----------------------------------------------------------------------------
(* openConversation and newChat *)

\* The request goes out; the list on the screen stays until it is answered.
openConversation(l, c) ==
  /\ load[l] = NoLoad /\ c \in created
  /\ activeId' = c /\ load' = [load EXCEPT ![l] = [at |-> "asked", conv |-> c]]
  /\ crossed' = ~Quiet /\ late' = FALSE
  /\ strayed' = (strayed \/ (c # activeId /\ WithFiles))
  /\ UNCHANGED <<created, stored, owed, messages, sender, attach, context, pending, sends>>

\* The API reads the messages.
Answered(l) ==
  /\ load[l].at = "asked"
  /\ load' = [load EXCEPT ![l] = [at |-> "answered", conv |-> load[l].conv, rows |-> stored[load[l].conv]]]
  /\ UNCHANGED <<created, stored, owed, late, activeId, messages, sender, attach, context, pending,
                 sends, crossed, strayed>>

\* Mutant: they are put after those on the screen.
ArrivesAfter(l) ==
  /\ load[l].at = "answered" /\ messages' = messages \o View(load[l].conv, load[l].rows)
  /\ load' = [load EXCEPT ![l] = NoLoad]
  /\ UNCHANGED <<created, stored, owed, late, activeId, sender, attach, context, pending, sends,
                 crossed, strayed>>

Arrives(l) ==
  /\ load[l].at = "answered" /\ messages' = View(load[l].conv, load[l].rows)
  /\ load' = [load EXCEPT ![l] = NoLoad]
  /\ UNCHANGED <<created, stored, owed, late, activeId, sender, attach, context, pending, sends,
                 crossed, strayed>>

LoadFails(l) ==
  /\ load[l] # NoLoad /\ load' = [load EXCEPT ![l] = NoLoad] /\ crossed' = TRUE
  /\ UNCHANGED <<created, stored, owed, late, activeId, messages, sender, attach, context, pending,
                 sends, strayed>>

\* Mutant: the attached files stay.
newChatKeepsFiles ==
  /\ activeId' = NoConvo /\ messages' = <<>>
  /\ crossed' = ~Quiet /\ late' = FALSE
  /\ strayed' = (strayed \/ Awaited)
  /\ UNCHANGED <<created, stored, owed, load, sender, attach, context, pending, sends>>

newChat ==
  /\ activeId' = NoConvo /\ messages' = <<>> /\ pending' = {}
  /\ crossed' = ~Quiet /\ late' = FALSE
  /\ strayed' = (strayed \/ Awaited)
  /\ UNCHANGED <<created, stored, owed, load, sender, attach, context, sends>>

-----------------------------------------------------------------------------
(* send *)

\* The content is fixed, with the files and contexts attached so far, and so is the
\* conversation if one is open.
send ==
  /\ sender = NotSending /\ sends < MaxSends
  /\ sends' = sends + 1 /\ pending' = {}
  /\ sender' = [at |-> IF activeId = NoConvo THEN "create" ELSE "push", conv |-> activeId,
                typed |-> activeId, files |-> pending]
  /\ crossed' = (crossed \/ ~Quiet)
  /\ UNCHANGED <<created, stored, owed, late, activeId, messages, load, attach, context, strayed>>

\* POST /api/conversations returns, and the new conversation is the open one.
Created(c) ==
  /\ sender.at = "create" /\ c \notin created
  /\ created' = created \cup {c} /\ activeId' = c
  /\ sender' = [sender EXCEPT !.at = "push", !.conv = c, !.typed = c, !.files = Named(@, c)]
  /\ crossed' = (crossed \/ activeId # NoConvo)
  /\ Adopt(c) /\ strayed' = (strayed \/ (activeId # NoConvo /\ WithFiles))
  /\ UNCHANGED <<stored, owed, late, messages, load, attach, sends>>

\* Mutant: the conversation that is open now.
TargetOpen == activeId

\* The conversation streamChat posts to: the one fixed before the awaits.
Target == sender.conv

\* Two provisional messages, and POST .../chat/stream, which stores the turn.
Push ==
  /\ sender.at = "push" /\ Target \in created
  /\ messages' = messages \o <<Entry("user", TRUE, {Target}), Entry("assistant", TRUE, {})>>
  /\ stored' = [stored EXCEPT ![Target] = Append(@, [role |-> "user", typed |-> sender.typed,
                                                     files |-> sender.files])]
  /\ sender' = [sender EXCEPT !.at = "stream", !.conv = Target]
  /\ UNCHANGED <<created, owed, late, activeId, load, attach, context, pending, sends, crossed,
                 strayed>>

\* onDelta: appended to the last message on the screen, if it is an assistant's.
onDelta ==
  LET n == Len(messages) IN
  /\ sender.at = "stream" /\ n > 0 /\ messages[n].role = "assistant"
  /\ messages' = [messages EXCEPT ![n].from = @ \cup {sender.conv}]
  /\ UNCHANGED <<created, stored, owed, late, activeId, load, sender, attach, context, pending,
                 sends, crossed, strayed>>

Provisional(m) == m.tmp /\ m.role = "assistant"

\* onError: the provisional reply is removed; the turn stays, and the end of the
\* stream is awaited.
onError ==
  /\ sender.at = "stream" /\ sender' = [sender EXCEPT !.at = "refused"]
  /\ messages' = Select(messages, {i \in DOMAIN messages : ~Provisional(messages[i])})
  /\ UNCHANGED <<created, stored, owed, late, activeId, load, attach, context, pending, sends,
                 crossed, strayed>>

ErrorEnds ==
  /\ sender.at = "refused" /\ sender' = NotSending
  /\ UNCHANGED <<created, stored, owed, late, activeId, messages, load, attach, context, pending,
                 sends, crossed, strayed>>

\* [DONE], and the messages are asked for again.  The reply is still to be stored, if
\* there is one (kept).
StreamEnds(kept) ==
  /\ sender.at = "stream" /\ sender' = [sender EXCEPT !.at = "reload"]
  /\ owed' = (IF kept THEN owed \cup {<<sender.conv, sends>>} ELSE owed)
  /\ UNCHANGED <<created, stored, late, activeId, messages, load, attach, context, pending, sends,
                 crossed, strayed>>

\* No request under way will read what is stored now of c, the open conversation.
Unread(c) ==
  c = activeId /\ sender.at # "reload" /\ \A l \in Loading : load[l].at # "asked"

\* event_stream, finally: the reply o is stored, whatever the page has done since.
Stores(o) ==
  /\ o \in owed /\ owed' = owed \ {o}
  /\ stored' = [stored EXCEPT ![o[1]] = Append(@, [role |-> "assistant"])]
  /\ late' = (late \/ Unread(o[1]))
  /\ UNCHANGED <<created, activeId, messages, load, sender, attach, context, pending, sends,
                 crossed, strayed>>

\* The INSERT fails, or the generator is cancelled before it.
StoreFails(o) ==
  /\ o \in owed /\ owed' = owed \ {o}
  /\ UNCHANGED <<created, stored, late, activeId, messages, load, sender, attach, context, pending,
                 sends, crossed, strayed>>

Reloaded ==
  /\ sender.at = "reload" /\ sender' = NotSending
  /\ messages' = View(sender.conv, stored[sender.conv]) /\ late' = FALSE
  /\ UNCHANGED <<created, stored, owed, activeId, load, attach, context, pending, sends, crossed,
                 strayed>>

\* Any of the calls throws, or there is no model to create the conversation with;
\* what is on the screen stays.  The API may yet store what it has of a reply (kept).
SendFails(kept) ==
  /\ sender # NotSending /\ sender' = NotSending /\ crossed' = TRUE
  /\ kept => sender.at = "stream"
  /\ owed' = (IF kept THEN owed \cup {<<sender.conv, sends>>} ELSE owed)
  /\ UNCHANGED <<created, stored, late, activeId, messages, load, attach, context, pending, sends,
                 strayed>>

-----------------------------------------------------------------------------
(* attachFile *)

\* The button is disabled while a message is sent, pasting a file is not; one
\* upload or addContext at a time is modelled.
attachFile ==
  /\ ~Awaited
  /\ attach' = [at |-> IF activeId = NoConvo THEN "create" ELSE "upload", conv |-> activeId]
  /\ UNCHANGED <<created, stored, owed, late, activeId, messages, load, sender, context, pending,
                 sends, crossed, strayed>>

AttachCreated(c) ==
  /\ attach.at = "create" /\ c \notin created
  /\ created' = created \cup {c} /\ activeId' = c
  /\ attach' = [at |-> "upload", conv |-> c]
  /\ crossed' = (crossed \/ activeId # NoConvo \/ ~Quiet)
  /\ Adopt(c) /\ strayed' = (strayed \/ activeId # NoConvo)
  /\ UNCHANGED <<stored, owed, late, messages, load, sender, sends>>

Uploaded ==
  /\ attach.at = "upload" /\ attach' = NotAttaching
  /\ pending' = pending \cup {attach.conv}
  /\ UNCHANGED <<created, stored, owed, late, activeId, messages, load, sender, context, sends,
                 crossed, strayed>>

AttachFails ==
  /\ attach # NotAttaching /\ attach' = NotAttaching
  /\ UNCHANGED <<created, stored, owed, late, activeId, messages, load, sender, context, pending,
                 sends, crossed, strayed>>

-----------------------------------------------------------------------------
(* addContext, and the chips of what is attached *)

\* Not held back by a message being sent.
addContext ==
  /\ ~Awaited /\ context' = activeId
  /\ UNCHANGED <<created, stored, owed, late, activeId, messages, load, sender, attach, pending,
                 sends, crossed, strayed>>

ContextAdded ==
  /\ context # NoContext /\ context' = NoContext
  /\ pending' = pending \cup {context}
  /\ UNCHANGED <<created, stored, owed, late, activeId, messages, load, sender, attach, sends,
                 crossed, strayed>>

ContextFails ==
  /\ context # NoContext /\ context' = NoContext
  /\ UNCHANGED <<created, stored, owed, late, activeId, messages, load, sender, attach, pending,
                 sends, crossed, strayed>>

\* The last chip of those attached in conversation p.
dropPending(p) ==
  /\ p \in pending /\ pending' = pending \ {p}
  /\ UNCHANGED <<created, stored, owed, late, activeId, messages, load, sender, attach, context,
                 sends, crossed, strayed>>

PageNext ==
  \/ \E l \in Loading : (\E c \in Convo : openConversation(l, c)) \/ Answered(l) \/ Arrives(l) \/ LoadFails(l)
  \/ newChat \/ send \/ (\E c \in Convo : Created(c) \/ AttachCreated(c))
  \/ Push \/ onDelta \/ onError \/ ErrorEnds \/ Reloaded
  \/ (\E kept \in BOOLEAN : StreamEnds(kept) \/ SendFails(kept))
  \/ (\E o \in owed : Stores(o) \/ StoreFails(o))
  \/ attachFile \/ Uploaded \/ AttachFails
  \/ addContext \/ ContextAdded \/ ContextFails \/ (\E p \in pending : dropPending(p))
PageSpec == PageInit /\ [][PageNext]_pageVars

-----------------------------------------------------------------------------
(* Properties *)

\* When nothing is under way the screen shows the open conversation as it is
\* stored, however loads, streams, their errors and the storing of replies were
\* interleaved, unless the user went on before an answer arrived, or one failed, or
\* a reply was stored after the messages were read (openConversation, send).
ScreenAgrees ==
  Quiet /\ ~crossed /\ ~late =>
    Settle(messages) = IF activeId = NoConvo THEN <<>> ELSE View(activeId, stored[activeId])

\* A message ends up in the conversation that was open when it was sent, or in
\* the one created for it, whatever is opened while the requests run (convId in
\* send).
SentWhereTyped ==
  \A c \in Convo : \A i \in 1 .. Len(stored[c]) :
    stored[c][i].role = "user" => stored[c][i].typed = c

\* A message carries files and contexts of its own conversation only, unless the
\* conversation changed while they were attached or under way (pendingAttachments,
\* pendingContexts).
FilesStay ==
  \A c \in Convo : \A i \in 1 .. Len(stored[c]) :
    stored[c][i].role = "user" /\ ~strayed => stored[c][i].files \subseteq {c}

\* Both: what is sent, text, files and contexts, reaches the conversation it was typed in.
SentAsTyped == SentWhereTyped /\ FilesStay
=============================================================================
