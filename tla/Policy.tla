------------------------------- MODULE Policy -------------------------------
(***************************************************************************)
(* The content policy: detectors run one after the other over a text, each     *)
(* replacing what it matches by the mask token.  A text is a sequence of       *)
(* characters from Char; a detector is the finite set of words its regular     *)
(* expression matches on the modelled alphabet.                                *)
(***************************************************************************)
EXTENDS Naturals, Sequences, SequencesExt

Space == " "       \* any of the separators " \t\n\r"
MaskToken == "#"   \* "[MASKED]": its first and last character are no word characters
WordChar == {"d", "x"}

\* words: what the expression matches; bounded: it is written between \b;
\* action: mask, block or flag.
IsRule(r) == r.action \in {"mask", "block", "flag"} /\ <<>> \notin r.words

Boundary(text, i) ==   \* \b before position i
  (i > 1 /\ text[i - 1] \in WordChar) # (i <= Len(text) /\ text[i] \in WordChar)

\* The lengths of what r matches from position i on.
Hits(r, text, i) ==
  {n \in 1 .. Len(text) - i + 1 :
     /\ SubSeq(text, i, i + n - 1) \in r.words
     /\ r.bounded => Boundary(text, i) /\ Boundary(text, i + n)}

\* The length of the match of r at position i, 0 if there is none.  The
\* detectors are greedy, so the longest word wins.
MatchLen(r, text, i) == LET hits == Hits(r, text, i) IN IF hits = {} THEN 0 ELSE Max(hits)

MatchString(r, text) == \E i \in 1 .. Len(text) : MatchLen(r, text, i) > 0

\* re.ReplaceAllString(text, MaskToken): leftmost matches, left to right.
ReplaceAllString(r, text) ==
  LET from[i \in 1 .. Len(text) + 1] ==
        IF i > Len(text) THEN <<>>
        ELSE IF MatchLen(r, text, i) = 0 THEN <<text[i]>> \o from[i + 1]
        ELSE <<MaskToken>> \o from[i + MatchLen(r, text, i)]
  IN from[1]

\* One round of the loops of Apply, ApplyResponse and StreamMasker.mask: the
\* text is masked for mask and for block (a block is downgraded in a reply).
ApplyRule(res, r) ==
  IF ~MatchString(r, res.text) THEN res
  ELSE [text |-> IF r.action = "flag" THEN res.text ELSE ReplaceAllString(r, res.text),
        findings |-> res.findings \cup {r.name},
        blocked |-> res.blocked \/ r.action = "block"]

\* The result after each round of the loop: entry k is after the first k rules.
AfterEach(text, rules) ==
  LET after[k \in 0 .. Len(rules)] ==
        IF k = 0 THEN [text |-> text, findings |-> {}, blocked |-> FALSE]
        ELSE ApplyRule(after[k - 1], rules[k])
  IN after

Apply(text, rules) == AfterEach(text, rules)[Len(rules)]

ApplyResponse(text, rules) == [Apply(text, rules) EXCEPT !.blocked = FALSE]
=============================================================================
