--------------------------- MODULE Conversations ---------------------------
(***************************************************************************)
(* The chat routes of the API (conversations.py): chat and chat_stream store   *)
(* the user's turn, read the history back, send it to the gateway and store    *)
(* the reply, with an await, and so other requests, between any two of these.  *)
(* The gateway is what the API sees of it (modules Gateway, StreamMasking);    *)
(* the order of updated_at is left out.  An INSERT is two steps, because       *)
(* created_at is the time the statement began and the row is seen when it is   *)
(* committed: a row may turn up before rows that were there already.           *)
(***************************************************************************)
EXTENDS SequencesExt, Selection

CONSTANTS Conv,   \* conversations, all of one user
          Call    \* requests for a reply

VARIABLES alive,   \* rows of conversations
          msgs,    \* rows of messages, in the order of created_at
          pc, conv,
          stream,  \* chat_stream rather than chat
          image,   \* the turn has an image attachment
          history, \* the messages the call sends
          answer,  \* how the gateway answered
          text     \* something was collected of the reply

vars == <<alive, msgs, pc, conv, stream, image, history, answer, text>>
request == <<conv, stream, image>>

Message == [role : {"user", "assistant"}, call : Call, image : BOOLEAN,
            seen : BOOLEAN]     \* seen: the INSERT is committed
Answers == {"none", "ok", "bad_request", "refused", "unreachable", "left"}

TypeOK ==
  /\ alive \subseteq Conv
  /\ msgs \in [Conv -> Seq(Message)]
  /\ \A c \in Conv : c \notin alive => msgs[c] = <<>>    \* ON DELETE CASCADE
  /\ pc \in [Call -> {"idle", "persist", "persisting", "read", "ask", "reading",
                      "store", "storing", "end"}]
  /\ conv \in [Call -> Conv] /\ stream \in [Call -> BOOLEAN] /\ image \in [Call -> BOOLEAN]
  /\ history \in [Call -> Seq(Message)]
  /\ answer \in [Call -> Answers]
  /\ text \in [Call -> BOOLEAN]

Init ==
  /\ alive = Conv /\ msgs = [c \in Conv |-> <<>>]
  /\ pc = [x \in Call |-> "idle"]
  /\ conv \in [Call -> Conv] /\ stream \in [Call -> BOOLEAN] /\ image \in [Call -> BOOLEAN]
  /\ history = [x \in Call |-> <<>>]
  /\ answer = [x \in Call |-> "none"] /\ text = [x \in Call |-> FALSE]

goto(x, l) == pc' = [pc EXCEPT ![x] = l]
answers(x, a) == answer' = [answer EXCEPT ![x] = a]

-----------------------------------------------------------------------------
\* _owned_conversation finds the row (a missing one is 404), and it has a
\* provider (a deleted one left NULL behind: 400).
Begin(x, hasProvider) ==
  /\ pc[x] = "idle"
  /\ goto(x, IF conv[x] \in alive /\ hasProvider THEN "persist" ELSE "end")
  /\ UNCHANGED <<alive, msgs, request, history, answer, text>>

\* INSERT INTO messages takes its created_at.
Insert(x, row) ==
  msgs' = [msgs EXCEPT ![conv[x]] =
             Append(@, [role |-> row.role, image |-> row.image, call |-> x, seen |-> FALSE])]

\* ... and is committed; the foreign key refuses it (delete_conversation has
\* taken the row along) once the conversation is gone.
Commit(x) ==
  msgs' = [msgs EXCEPT ![conv[x]] =
             [i \in DOMAIN @ |-> IF @[i].call = x THEN [@[i] EXCEPT !.seen = TRUE] ELSE @[i]]]

Visible(c) == Select(msgs[c], {i \in DOMAIN msgs[c] : msgs[c][i].seen})

\* The user's turn.
Persist(x) ==
  /\ pc[x] = "persist"
  /\ IF conv[x] \in alive
       THEN /\ Insert(x, [role |-> "user", image |-> image[x]])
            /\ goto(x, "persisting")
       ELSE goto(x, "end") /\ UNCHANGED msgs
  /\ UNCHANGED <<alive, request, history, answer, text>>

Persisted(x) ==
  /\ pc[x] = "persisting" /\ Commit(x)
  /\ goto(x, IF conv[x] \in alive THEN "read" ELSE "end")
  /\ UNCHANGED <<alive, request, history, answer, text>>

\* Mutant: the history is read without its newest row.
ReadHistoryShort(x) ==
  /\ pc[x] = "read" /\ goto(x, "ask")
  /\ history' = [history EXCEPT ![x] = 
                             IF Visible(conv[x]) = <<>> THEN <<>> ELSE Front(Visible(conv[x]))]
  /\ UNCHANGED <<alive, msgs, request, answer, text>>

\* SELECT ... ORDER BY created_at; the key is minted and the request is sent.
ReadHistory(x) ==
  /\ pc[x] = "read" /\ goto(x, "ask")
  /\ history' = [history EXCEPT ![x] = Visible(conv[x])]
  /\ UNCHANGED <<alive, msgs, request, answer, text>>

\* _build_llm_content turns a turn with an image into an array; the gateway's
\* Message.Content is a string, and its decoder refuses the body, as it refuses
\* an empty list of messages.
Malformed(h) == h = <<>> \/ \E i \in 1 .. Len(h) : h[i].image

\* The gateway's status line: 400 for a malformed body, some other status of
\* 400 or more, or no connection.  The call ends without a reply.
Fails(x, a) ==
  /\ pc[x] = "ask" /\ a \in {"bad_request", "refused", "unreachable"}
  /\ a = "bad_request" => Malformed(history[x])
  /\ answers(x, a) /\ goto(x, "end")
  /\ UNCHANGED <<alive, msgs, request, history, text>>

\* 200: chat has the whole reply, chat_stream starts to read it.
Accepted(x) ==
  /\ pc[x] = "ask" /\ ~Malformed(history[x])
  /\ answers(x, "ok")
  /\ IF stream[x] THEN goto(x, "reading") /\ UNCHANGED text
                  ELSE goto(x, "store") /\ text' = [text EXCEPT ![x] = TRUE]
  /\ UNCHANGED <<alive, msgs, request, history>>

\* A content delta; the client sees it at once.
Delta(x) ==
  /\ pc[x] = "reading" /\ ~text[x]
  /\ text' = [text EXCEPT ![x] = TRUE]
  /\ UNCHANGED <<alive, msgs, pc, request, history, answer>>

\* [DONE], which the gateway also sends when the upstream broke off: what there
\* is of the reply is stored, an empty one is not.
Sentinel(x) ==
  /\ pc[x] = "reading" /\ goto(x, IF text[x] THEN "store" ELSE "end")
  /\ UNCHANGED <<alive, msgs, request, history, answer, text>>

\* Mutant: had_error is not set.
BreaksUnnoticed(x) ==
  /\ pc[x] = "reading" /\ answers(x, "unreachable")
  /\ goto(x, IF text[x] THEN "store" ELSE "end")
  /\ UNCHANGED <<alive, msgs, request, history, text>>

\* The connection to the gateway breaks or times out: had_error, nothing stored.
Breaks(x) ==
  /\ pc[x] = "reading" /\ answers(x, "unreachable") /\ goto(x, "end")
  /\ UNCHANGED <<alive, msgs, request, history, text>>

\* The client leaves; the generator is closed at a yield and its finally block
\* stores what was collected, or it is cancelled in an await and stores nothing.
Leaves(x, closed) ==
  /\ pc[x] = "reading" /\ answers(x, "left")
  /\ goto(x, IF closed /\ text[x] THEN "store" ELSE "end")
  /\ UNCHANGED <<alive, msgs, request, history, text>>

Reply == [role |-> "assistant", image |-> FALSE]

\* Mutant: the reply is stored, and stored again.
StoreAgain(x) ==
  /\ pc[x] = "store" /\ conv[x] \in alive /\ Len(msgs[conv[x]]) < 2 * Cardinality(Call) + 1
  /\ Insert(x, Reply)
  /\ UNCHANGED <<alive, pc, request, history, answer, text>>

\* The reply.
Store(x) ==
  /\ pc[x] = "store"
  /\ IF conv[x] \in alive THEN Insert(x, Reply) /\ goto(x, "storing")
                          ELSE goto(x, "end") /\ UNCHANGED msgs
  /\ UNCHANGED <<alive, request, history, answer, text>>

Stored(x) ==
  /\ pc[x] = "storing" /\ Commit(x) /\ goto(x, "end")
  /\ UNCHANGED <<alive, request, history, answer, text>>

delete_conversation(c) ==
  /\ c \in alive /\ alive' = alive \ {c}
  /\ msgs' = [msgs EXCEPT ![c] = <<>>]
  /\ UNCHANGED <<pc, request, history, answer, text>>

Step(x) == \/ \E hasProvider \in BOOLEAN : Begin(x, hasProvider)
           \/ Persist(x) \/ Persisted(x) \/ ReadHistory(x) \/ Accepted(x)
           \/ \E a \in Answers : Fails(x, a)
           \/ Delta(x) \/ Sentinel(x)
           \/ Breaks(x) \/ \E closed \in BOOLEAN : Leaves(x, closed)
           \/ Store(x) \/ Stored(x)

Next == (\E x \in Call : Step(x)) \/ (\E c \in Conv : delete_conversation(c))
Spec == Init /\ [][Next]_vars

-----------------------------------------------------------------------------
(* Properties *)

At(c, x, role) == {i \in 1 .. Len(msgs[c]) : msgs[c][i].call = x /\ msgs[c][i].role = role}

\* However calls and deletions interleave, a conversation holds at most one turn
\* and one reply of a call, the reply after the turn, and none of them in
\* another conversation.
TurnsPaired ==
  \A c \in Conv, x \in Call :
    /\ Cardinality(At(c, x, "user")) <= 1 /\ Cardinality(At(c, x, "assistant")) <= 1
    /\ c # conv[x] => At(c, x, "user") \cup At(c, x, "assistant") = {}
    /\ \A j \in At(c, x, "assistant") : \E i \in At(c, x, "user") : i < j

\* The messages h are among the rows, in the same order.
PartOf(h, rows) ==
  /\ \A i \in 1 .. Len(h) : \E k \in 1 .. Len(rows) : rows[k] = h[i]
  /\ \A i, j \in 1 .. Len(h), k, l \in 1 .. Len(rows) :
       i < j /\ rows[k] = h[i] /\ rows[l] = h[j] => k < l

\* What is sent contains the turn it is sent for, and is part of what the
\* conversation holds by then, committed and in the same order: concurrent calls
\* may add turns, even between the ones sent, and never rewrite or reorder them.
HistoryCurrent ==
  \A x \in Call : pc[x] \in {"ask", "reading", "store", "storing"} /\ conv[x] \in alive =>
    /\ PartOf(history[x], msgs[conv[x]])
    /\ \A i \in 1 .. Len(history[x]) : history[x][i].seen
    /\ \E i \in 1 .. Len(history[x]) : history[x][i].call = x

\* The comment in event_stream: "Never persist error messages as assistant
\* turns".  No reply is stored by a call whose exchange with the gateway failed.
NoErrorTurns ==
  \A x \in Call : answer[x] \in {"bad_request", "refused", "unreachable"} =>
     At(conv[x], x, "assistant") = {}

\* All three: whatever runs at the same time and however it ends, a conversation
\* stays a sequence of turns and their replies, and that is what the gateway gets.
TurnsSound == TurnsPaired /\ HistoryCurrent /\ NoErrorTurns

\* The docstring of _build_llm_content: messages with images "are expanded into
\* an OpenAI multipart content array so the model can see them".  The gateway
\* should understand every history that is not empty.
HistoryUnderstood ==
  \A x \in Call : answer[x] = "bad_request" => history[x] = <<>>
=============================================================================
