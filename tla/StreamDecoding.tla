--------------------------- MODULE StreamDecoding ---------------------------
(***************************************************************************)
(* scanSSE and the DecodeStream of the three adapters: the upstream reply      *)
(* comes as lines, events end at blank lines, comments and unknown fields may  *)
(* stand anywhere, and the stream may stop after any line.  A message of the   *)
(* provider is its event name, the number of text parts in it and the token    *)
(* counts it reports (0: none); JSON that does not parse is a message without  *)
(* any.  The text of a part is its place: <<message, part>>.                   *)
(***************************************************************************)
EXTENDS Naturals, Sequences

CONSTANTS MaxMessages,   \* bound: messages of a reply
          MaxNoise       \* bound: comments, unknown fields and extra blank lines

VARIABLES adapter,
          wire,       \* history: messages whose data was sent
          coming,     \* the message whose lines are being sent, or Nothing
          noise,
          event, data,      \* locals of scanSSE
          decoded, usage,   \* what DecodeStream has emitted and captured
          reading           \* scanSSE has not returned

decodeVars == <<adapter, wire, coming, noise, event, data, decoded, usage, reading>>
Adapter == {"openai", "anthropic", "gemini"}
Nothing == [name |-> "none"]

\* What each provider sends as its n-th message.
Msg(name, parts, prompt, completion) ==
  [name |-> name, parts |-> parts, prompt |-> prompt, completion |-> completion]
MessagesOf(a, n) ==
  CASE a = "openai" -> {Msg("", 1, 0, 0), Msg("", 0, n, n), Msg("", 0, 0, 0)}
    [] a = "anthropic" -> {Msg("message_start", 0, n, 0), Msg("content_block_delta", 1, 0, 0),
                           Msg("ping", 0, 0, 0), Msg("message_delta", 0, 0, n)}
    [] a = "gemini" -> UNION {{Msg("", p, u, u) : p \in 0 .. 2} : u \in {0, n}}

DecodeInit ==
  /\ adapter \in Adapter
  /\ wire = <<>> /\ coming = Nothing /\ noise = 0
  /\ event = "" /\ data = <<>>
  /\ decoded = <<>> /\ usage = [prompt |-> 0, completion |-> 0]
  /\ reading = TRUE

-----------------------------------------------------------------------------
(* The adapters *)

Parts(d) == [i \in 1 .. d.msg.parts |-> <<d.n, i>>]
Positive(new, old) == IF new > 0 THEN new ELSE old

\* Mutant: chunks without usage reset what was captured.
UsageOfChunk(u, m) == [prompt |-> m.prompt, completion |-> m.completion]

\* openai: a chunk that has usage sets both counts.
UsageOpenAI(u, m) ==
  IF m.prompt + m.completion > 0 THEN [prompt |-> m.prompt, completion |-> m.completion] ELSE u

\* gemini: positive counts only.
UsageGemini(u, m) ==
  [prompt |-> Positive(m.prompt, u.prompt), completion |-> Positive(m.completion, u.completion)]

\* anthropic: by the event's name.
UsageAnthropic(u, name, m) ==
  CASE name = "message_start" -> [u EXCEPT !.prompt = m.prompt]
    [] name = "message_delta" -> [u EXCEPT !.completion = Positive(m.completion, @)]
    [] OTHER -> u

UsageAfter(u, name, m) ==
  CASE adapter = "openai" -> UsageOpenAI(u, m)
    [] adapter = "gemini" -> UsageGemini(u, m)
    [] adapter = "anthropic" -> UsageAnthropic(u, name, m)

\* The text an adapter emits for an event.
TextOf(name, d) == IF adapter = "anthropic" /\ name # "content_block_delta" THEN <<>> ELSE Parts(d)

\* scanSSE's data lines, joined, are JSON if the last one completes the message.
Parses(ds) == ds # <<>> /\ ds[Len(ds)].whole

\* dispatch and fn: an event without data, or with JSON cut short, changes nothing.
Handle ==
  IF Parses(data)
    THEN LET d == data[Len(data)] IN
         decoded' = decoded \o TextOf(event, d) /\ usage' = UsageAfter(usage, event, d.msg)
    ELSE UNCHANGED <<decoded, usage>>

-----------------------------------------------------------------------------
(* Lines *)

\* Comments (keep-alives) and fields other than event and data.
Ignored ==
  /\ reading /\ noise < MaxNoise /\ noise' = noise + 1
  /\ UNCHANGED <<adapter, wire, coming, event, data, decoded, usage, reading>>

\* The provider begins its next message; anthropic names it on a line of its own.
EventLine ==
  /\ reading /\ coming = Nothing /\ Len(wire) < MaxMessages
  /\ \E m \in MessagesOf(adapter, Len(wire) + 1) : coming' = m /\ event' = m.name
  /\ UNCHANGED <<adapter, wire, noise, data, decoded, usage, reading>>

\* A message is one data line, or two if it is pretty-printed.
DataLine(whole) ==
  /\ reading /\ coming # Nothing /\ ~Parses(data) /\ (data = <<>> \/ whole)
  /\ wire' = IF whole THEN Append(wire, coming) ELSE wire
  /\ data' = Append(data, IF whole THEN [whole |-> TRUE, msg |-> coming, n |-> Len(wire) + 1]
                                    ELSE [whole |-> FALSE])
  /\ UNCHANGED <<adapter, coming, noise, event, decoded, usage, reading>>

\* A blank line ends the event; extra ones find nothing to dispatch.
BlankLine ==
  /\ reading /\ (coming # Nothing => Parses(data))
  /\ coming = Nothing => noise < MaxNoise
  /\ noise' = IF coming = Nothing THEN noise + 1 ELSE noise
  /\ Handle /\ event' = "" /\ data' = <<>> /\ coming' = Nothing
  /\ UNCHANGED <<adapter, wire, reading>>

\* openai's sentinel: fn returns false and nothing after it is read.
DoneLine ==
  /\ reading /\ adapter = "openai" /\ coming = Nothing
  /\ reading' = FALSE
  /\ UNCHANGED <<adapter, wire, coming, noise, event, data, decoded, usage>>

\* Mutant: what has no blank line after it is dropped.
EndOfStreamDrops ==
  /\ reading /\ reading' = FALSE
  /\ UNCHANGED <<adapter, wire, coming, noise, event, data, decoded, usage>>

\* The body ends, or breaks off; a trailing event is dispatched.
EndOfStream ==
  /\ reading /\ reading' = FALSE
  /\ Handle
  /\ UNCHANGED <<adapter, wire, coming, noise, event, data>>

\* The next streamed request.
AnotherStream ==
  /\ ~reading /\ adapter' \in Adapter
  /\ wire' = <<>> /\ coming' = Nothing /\ noise' = 0 /\ event' = "" /\ data' = <<>>
  /\ decoded' = <<>> /\ usage' = [prompt |-> 0, completion |-> 0] /\ reading' = TRUE

DecodeNext == Ignored \/ EventLine \/ (\E whole \in BOOLEAN : DataLine(whole)) \/ BlankLine \/ DoneLine \/ EndOfStream
              \/ AnotherStream
DecodeSpec == DecodeInit /\ [][DecodeNext]_decodeVars

-----------------------------------------------------------------------------
(* The same reply without streaming *)

\* The body a provider would have sent: all parts, and the last counts reported.
LastReported(ns) ==
  LET at == {i \in 1 .. Len(ns) : ns[i] > 0}
  IN IF at = {} THEN 0 ELSE ns[CHOOSE i \in at : \A j \in at : j <= i]
Body == [content |-> [i \in 1 .. Len(wire) |-> wire[i].parts],
         prompt |-> LastReported([i \in 1 .. Len(wire) |-> wire[i].prompt]),
         completion |-> LastReported([i \in 1 .. Len(wire) |-> wire[i].completion])]

\* ParseResponse: the texts of the body one after the other, and its counts.
Texts(parts) ==
  LET upto[n \in 0 .. Len(parts)] ==
        IF n = 0 THEN <<>> ELSE upto[n - 1] \o [i \in 1 .. parts[n] |-> <<n, i>>]
  IN upto[Len(parts)]
ParseResponse == [content |-> Texts(Body.content),
                  usage |-> [prompt |-> Body.prompt, completion |-> Body.completion]]

-----------------------------------------------------------------------------
(* Properties *)

\* Whatever keep-alives, unknown fields and blank lines stand between the lines,
\* and wherever the stream stops, decoding it gives the text and the token counts
\* that parsing the same messages as one body gives: nothing is lost, repeated or
\* reordered (scanSSE, DecodeStream against ParseResponse).
DecodesAsWhole ==
  ~reading => decoded = ParseResponse.content /\ usage = ParseResponse.usage
=============================================================================
