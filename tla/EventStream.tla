---------------------------- MODULE EventStream ----------------------------
(***************************************************************************)
(* streamChat, the panel's reader of a streamed reply: the body arrives in      *)
(* chunks that may be cut anywhere, in a line or between the two newlines that *)
(* end an event, and may break off.  A line is two symbols, so that it can be  *)
(* cut; NL is a newline.                                                       *)
(***************************************************************************)
EXTENDS Naturals, Sequences

CONSTANTS MaxEvents   \* bound: events of a reply

ASSUME EventAssumption == MaxEvents \in Nat

\* What the API relays: text, an error chunk, a chunk without text or that is not
\* JSON, the sentinel, a comment that keeps the connection alive.
EventKind == {"delta", "error", "other", "done", "comment"}

VARIABLES events,    \* the body: kinds, each with or without a comment line before its data
          arrived,   \* symbols read so far
          buffer,
          handed,    \* calls of onDelta and onError
          looping       \* the loop has not ended
eventVars == <<events, arrived, buffer, handed, looping>>

NL == <<"nl", 0>>
Line(kind, k) == <<<<kind, k>>, <<"rest", k>>>>
Event(es, k) == (IF es[k].noisy THEN Line("comment", k) \o <<NL>> ELSE <<>>)
                \o Line(es[k].kind, k) \o <<NL, NL>>
Upto(es) == LET upto[k \in 0 .. Len(es)] ==
                  IF k = 0 THEN <<>> ELSE upto[k - 1] \o Event(es, k)
            IN upto
Sent == Upto(events)[Len(events)]

EventInit ==
  /\ events \in UNION {[1 .. n -> [kind : EventKind, noisy : BOOLEAN]] : n \in 1 .. MaxEvents}
  /\ arrived = 0 /\ buffer = <<>> /\ handed = <<>> /\ looping = TRUE

-----------------------------------------------------------------------------
(* streamChat *)

Breaks == {i \in 1 .. Len(buffer) - 1 : buffer[i] = NL /\ buffer[i + 1] = NL}

\* reader.read(): a chunk of any size.
ReadChunk ==
  /\ looping /\ Breaks = {} /\ arrived < Len(Sent)
  /\ \E n \in arrived + 1 .. Len(Sent) :
       arrived' = n /\ buffer' = buffer \o SubSeq(Sent, arrived + 1, n)
  /\ UNCHANGED <<events, handed, looping>>

\* The first line that starts with data:.
DataOf(evt) ==
  LET at == {i \in 1 .. Len(evt) : evt[i][1] \in EventKind \ {"comment"}}
  IN IF at = {} THEN <<"none", 0>> ELSE evt[CHOOSE i \in at : \A j \in at : i <= j]

\* Mutant: an event ends at the first newline.
FirstBreakLine == CHOOSE i \in 1 .. Len(buffer) : /\ buffer[i] = NL
                                                  /\ \A j \in 1 .. i - 1 : buffer[j] # NL

FirstBreak == CHOOSE i \in Breaks : \A j \in Breaks : i <= j

\* One event of the split buffer; the last part stays in the buffer.
OnEvent ==
  LET i == FirstBreak
      line == DataOf(SubSeq(buffer, 1, i - 1)) IN
  /\ looping /\ Breaks # {}
  /\ buffer' = SubSeq(buffer, i + 2, Len(buffer))
  /\ looping' = (line[1] # "done")
  /\ handed' = IF line[1] \in {"delta", "error"} THEN Append(handed, line) ELSE handed
  /\ UNCHANGED <<events, arrived>>

\* The body ends or breaks off; what is left in the buffer is dropped.
BodyEnds == /\ looping /\ Breaks = {} /\ looping' = FALSE
            /\ UNCHANGED <<events, arrived, buffer, handed>>

\* The next message.
NextReply == /\ ~looping /\ events' = <<[kind |-> "done", noisy |-> FALSE]>>
             /\ arrived' = 0 /\ buffer' = <<>> /\ handed' = <<>> /\ looping' = TRUE

EventNext == ReadChunk \/ OnEvent \/ BodyEnds \/ NextReply
EventSpec == EventInit /\ [][EventNext]_eventVars

-----------------------------------------------------------------------------
(* Properties *)

\* Events that have arrived whole, up to the sentinel.
Whole == {k \in 1 .. Len(events) : /\ Len(Upto(events)[k]) <= arrived
                                   /\ \A j \in 1 .. k : events[j].kind # "done"}
Due[k \in 0 .. Len(events)] ==
                  IF k = 0 THEN <<>>
                  ELSE IF k \in Whole /\ events[k].kind \in {"delta", "error"}
                         THEN Append(Due[k - 1], <<events[k].kind, k>>) ELSE Due[k - 1]

\* Wherever the chunks are cut and wherever the body breaks off, the page gets
\* every text and every error of the events that arrived whole before the
\* sentinel, once and in order, and nothing else (streamChat).
CutsInvisible == ~looping => handed = Due[Len(events)]
=============================================================================
