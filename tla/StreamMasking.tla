--------------------------- MODULE StreamMasking ---------------------------
(***************************************************************************)
(* policy.StreamMasker as streamChat uses it: the upstream reply arrives in    *)
(* deltas of any size, text is released up to the last separator and held      *)
(* back after it, and Close releases the rest, also when the upstream stream   *)
(* breaks off early.  The masker is a value; its methods are functions of it.  *)
(* Streams are served one after the other, each with a masker of its own.      *)
(***************************************************************************)
EXTENDS Policy

CONSTANTS Char,      \* the characters of replies
          MaxLen,    \* bound: characters of a reply
          Detectors  \* detectors of a reply, in order

ASSUME StreamAssumption ==
  /\ MaxLen \in Nat /\ Len(Detectors) \in Nat
  /\ \A k \in 1 .. Len(Detectors) : IsRule(Detectors[k])

\* out is what emit has written to the client so far.
NewStreamMasker == [buf |-> <<>>, out |-> <<>>, findings |-> {}]

\* emit(m.mask(segment)), with rest kept in the buffer.
Emit(m, segment, rest) ==
  LET res == ApplyResponse(segment, Detectors)
  IN [buf |-> rest, out |-> m.out \o res.text, findings |-> m.findings \cup res.findings]

\* Mutant: a delta with no separator is released at once.
LastSpaceOrAll(s) ==
  LET at == {i \in 1 .. Len(s) : s[i] = Space} IN IF at = {} THEN Len(s) ELSE Max(at)

\* strings.LastIndexAny(s, " \t\n\r"), 1-based; 0 if there is no separator.
LastSpace(s) == Max({0} \cup {i \in 1 .. Len(s) : s[i] = Space})

Push(m, delta) ==
  LET s == m.buf \o delta  idx == LastSpace(s)
  IN Emit(m, SubSeq(s, 1, idx), SubSeq(s, idx + 1, Len(s)))

Close(m) == Emit(m, m.buf, <<>>)

-----------------------------------------------------------------------------
VARIABLES reply,   \* what the upstream has sent of the reply
          masker,
          open       \* DecodeStream has not returned

stream == <<reply, masker, open>>
StreamInit == reply = <<>> /\ masker = NewStreamMasker /\ open = TRUE

\* DecodeStream hands a delta to masker.Push.
Receive(delta) ==
  /\ open /\ Len(reply) + Len(delta) <= MaxLen
  /\ reply' = reply \o delta /\ masker' = Push(masker, delta)
  /\ UNCHANGED open

\* DecodeStream returns, at the end of the reply or with an error, and the rest
\* is released.
Returns == /\ open /\ open' = FALSE
           /\ masker' = Close(masker) /\ UNCHANGED reply

\* The next streamed request.
Another == ~open /\ reply' = <<>> /\ masker' = NewStreamMasker /\ open' = TRUE

StreamNext == \/ \E n \in 1 .. MaxLen : \E delta \in [1 .. n -> Char] : Receive(delta)
              \/ Returns \/ Another
StreamSpec == StreamInit /\ [][StreamNext]_stream

-----------------------------------------------------------------------------
(* Properties *)

\* A match of r in the text holds a separator, as matches of credit_card,
\* secret_bearer, secret_private_key and the keywords of two words may.
Straddles(r, text) ==
  \E i \in 1 .. Len(text) : \E n \in Hits(r, text, i) : \E j \in i .. i + n - 1 : text[j] = Space

\* It happens for some detector when the whole text is masked at once.
Straddled(text) ==
  LET after == AfterEach(text, Detectors)
  IN \E k \in 1 .. Len(Detectors) : Straddles(Detectors[k], after[k - 1].text)

AtOnce == ApplyResponse(reply, Detectors)

\* However the upstream cuts the reply into deltas, and wherever it breaks off,
\* the client gets what masking all of it at once gives, and the same rules are
\* reported, whatever the detectors are, if nothing they match in this reply
\* holds a separator (StreamMasker against ApplyResponse).
StreamsAsWhole ==
  ~open /\ ~Straddled(reply) => masker.out = AtOnce.text /\ masker.findings = AtOnce.findings

\* docs/FLOW.md, 9.5: masking a stream up to the separators leaks no sensitive
\* data that crosses the end of a token; the comment on StreamMasker counts card
\* numbers among what is always fully buffered.  The credit_card detector
\* matches digits with separators between them, which Push releases one by one.
NothingLeaks == ~open => masker.out = AtOnce.text
=============================================================================
