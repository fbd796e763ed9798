------------------------------ MODULE MCPolicy ------------------------------
(* What the gateway puts a request through, part by part.  The rule slice:  *)
(* two built-ins, two spare slots, snapshots with no, one, two and (too     *)
(* many to share) three custom rules, two concurrent requests.  The masker: *)
(* replies of up to six characters over digit, letter and separator, in all *)
(* cuts, with an identifier of two digits between word boundaries, a card   *)
(* of three digits that may be written with separators, a keyword that      *)
(* flags and a key prefix that blocks.  The decoders: replies of up to      *)
(* three messages.  The panel's reader: three events.  The limiter: a user  *)
(* whose limits vary between snapshots, two goroutines that race for the    *)
(* lock, and a clock that crosses a window and a day boundary.  The limits  *)
(* it is asked with: two teams, every combination of unset, unlimited and   *)
(* two caps.  The parts share no state, so it is enough to run each while   *)
(* the others are at rest.                                                  *)
EXTENDS RuleSlice, StreamMasking, StreamDecoding, EventStream, RateLimiter, LimitResolution, TLC

CONSTANTS r1, r2, u1, t1, t2, a, b

BuiltinRules == <<"tckn", "iban">>
Lists == {<<>>, <<"a">>, <<"b", "a">>, <<"c", "b", "a">>}
TwoLists == {<<"a">>, <<"b">>}
Symmetry == Permutations(Request) \cup Permutations(Thread)

VARIABLE part   \* the part that runs
PolicyParts == {"rules", "masking", "decoding", "events", "limiter", "resolution"}

\* One initial state of each part that has several, for when it does not run.
RulesRest == current = (CHOOSE l \in Snapshots : TRUE) /\ SliceInit
DecodeRest == adapter = (CHOOSE p \in Adapter : TRUE) /\ DecodeInit
EventRest == events = <<[kind |-> "done", noisy |-> FALSE]>> /\ EventInit
ResolveRest == /\ own = None /\ teams = <<>> /\ hasLimits = {}
               /\ teamLimits = [t \in Team |-> None] /\ ResolveInit

PolicyInit ==
  /\ part \in PolicyParts
  /\ IF part = "rules" THEN SliceInit ELSE RulesRest
  /\ StreamInit
  /\ IF part = "decoding" THEN DecodeInit ELSE DecodeRest
  /\ IF part = "events" THEN EventInit ELSE EventRest
  /\ Init
  /\ IF part = "resolution" THEN ResolveInit ELSE ResolveRest

PolicyNext ==
  \/ /\ part = "rules" /\ SliceNext
     /\ UNCHANGED <<part, stream, decodeVars, eventVars, vars, resolveVars>>
  \/ /\ part = "masking" /\ StreamNext
     /\ UNCHANGED <<part, sliceVars, decodeVars, eventVars, vars, resolveVars>>
  \/ /\ part = "decoding" /\ DecodeNext
     /\ UNCHANGED <<part, sliceVars, stream, eventVars, vars, resolveVars>>
  \/ /\ part = "events" /\ EventNext
     /\ UNCHANGED <<part, sliceVars, stream, decodeVars, vars, resolveVars>>
  \/ /\ part = "limiter" /\ Next
     /\ UNCHANGED <<part, sliceVars, stream, decodeVars, eventVars, resolveVars>>
  \/ /\ part = "resolution" /\ ResolveNext
     /\ UNCHANGED <<part, sliceVars, stream, decodeVars, eventVars, vars>>
PolicySpec == PolicyInit
              /\ [][PolicyNext]_<<part, sliceVars, stream, decodeVars, eventVars, vars, resolveVars>>

Tckn == [name |-> "tckn", action |-> "mask", bounded |-> TRUE, words |-> {<<"d", "d">>}]
Keyword == [name |-> "bakiye", action |-> "flag", bounded |-> FALSE, words |-> {<<"x">>}]
Secret == [name |-> "secret", action |-> "block", bounded |-> FALSE,
           words |-> {<<"x", "d">>, <<"x", "d", "d">>}]
Card == [name |-> "card", action |-> "mask", bounded |-> TRUE,
         words |-> {<<"d", "d", "d">>, <<"d", " ", "d", "d">>, <<"d", "d", " ", "d">>,
                    <<"d", " ", "d", " ", "d">>}]
Chars == {"d", "x", " "}
FourKinds == <<Secret, Tckn, Card, Keyword>>

Lim(r, d) == [rpm |-> r, daily |-> d]
TightOrLoose == [u \in User |-> {Lim(1, 1), Lim(2, 2)}]
Cap2 == [u \in User |-> 2]
Values == {-1, 0, 1, 2}
Defaults == [d \in Dim |-> IF d = "rpm" THEN 2 ELSE 0]
=============================================================================
