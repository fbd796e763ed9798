------------------------------ MODULE RuleSlice ------------------------------
(***************************************************************************)
(* The detectors of a request: ChatCompletions evaluates                       *)
(*     rules := append(policy.Builtins(), snap.Rules...)                       *)
(* on a package-level slice whose backing array has spare capacity (21 of 32   *)
(* slots are in use).  If the custom rules fit into the spare slots, append    *)
(* writes them THERE, and every request in flight shares those slots; if not,  *)
(* it allocates a private array.  Requests may hold different snapshots, so    *)
(* the stores of one and the loads of another are a data race; a slot is one   *)
(* word, so each load sees one of the stored rules.                            *)
(***************************************************************************)
EXTENDS Naturals, Sequences, FiniteSets

CONSTANTS Request,
          Builtins,   \* the built-in detectors, in order
          Spare,      \* cap(builtins) - len(builtins)
          Snapshots   \* the lists of custom rules that snapshots may carry

VARIABLES slots,    \* the backing array of policy.builtins
          current,  \* Rules of the current snapshot
          step,
          rules,    \* snap.Rules of the request's own snapshot
          k,        \* next index to store (append) or to load (range)
          applied,  \* the detectors applied to the text at hand
          mixed     \* history: shared the array with a request with other rules

sliceVars == <<slots, current, step, rules, k, applied, mixed>>

B == Len(Builtins)
NoRule == "nil"
Rule == {Builtins[i] : i \in 1 .. B}
          \cup UNION {{s[i] : i \in 1 .. Len(s)} : s \in Snapshots}

ASSUME SliceAssumption ==
  Spare \in Nat /\ Builtins \in Seq(Rule) /\ Snapshots \subseteq Seq(Rule)

SliceTypeOK ==
  /\ slots \in [1 .. B + Spare -> Rule \cup {NoRule}]
  /\ current \in Snapshots
  /\ step \in [Request -> {"idle", "append", "apply", "done"}]
  /\ rules \in [Request -> Snapshots]
  /\ k \in [Request -> Nat]
  /\ applied \in [Request -> Seq(Rule)]   \* in particular never a nil rule
  /\ mixed \in [Request -> BOOLEAN]

SliceInit ==
  /\ slots = [i \in 1 .. B + Spare |-> IF i <= B THEN Builtins[i] ELSE NoRule]
  /\ current \in Snapshots
  /\ step = [r \in Request |-> "idle"]
  /\ rules = [r \in Request |-> current]
  /\ k = [r \in Request |-> 0]
  /\ applied = [r \in Request |-> <<>>]
  /\ mixed = [r \in Request |-> FALSE]

Shares(r) == Len(rules[r]) <= Spare   \* append found room in the array
InFlight(r) == step[r] \in {"append", "apply"}

\* The sync worker installs another snapshot.
Replace(s) == /\ s # current /\ current' = s
              /\ UNCHANGED <<slots, step, rules, k, applied, mixed>>

\* snap := h.State.Current(), then append: the requests that overlap in the
\* shared slots with different rules are mixed.
Begin(r) ==
  /\ step[r] = "idle"
  /\ rules' = [rules EXCEPT ![r] = current]
  /\ step' = [step EXCEPT ![r] = "append"]
  /\ k' = [k EXCEPT ![r] = 1]
  /\ LET clash == {q \in Request : InFlight(q) /\ Shares(q) /\ rules[q] # current}
     IN mixed' = [q \in Request |->
                    \/ mixed[q]
                    \/ (Len(current) <= Spare /\ (q \in clash \/ (q = r /\ clash # {})))]
  /\ UNCHANGED <<slots, current, applied>>

\* Mutant: the custom rules are stored over the last built-in.
SlotOver(i) == B + i - 1

\* The array index of the i-th appended rule.
Slot(i) == B + i

\* append stores the custom rules one word after the other.
Store(r) ==
  /\ step[r] = "append" /\ Shares(r) /\ k[r] <= Len(rules[r])
  /\ slots' = [slots EXCEPT ![Slot(k[r])] = rules[r][k[r]]]
  /\ k' = [k EXCEPT ![r] = @ + 1]
  /\ UNCHANGED <<current, step, rules, applied, mixed>>

\* append is done, in place or into a private array.
Appended(r) ==
  /\ step[r] = "append" /\ (Shares(r) => k[r] > Len(rules[r]))
  /\ step' = [step EXCEPT ![r] = "apply"] /\ k' = [k EXCEPT ![r] = 1]
  /\ UNCHANGED <<slots, current, rules, applied, mixed>>

\* Mutant: the private array is filled from the shared one after it was sized.
LoadShared(r, i) == IF i <= B + Spare THEN slots[i] ELSE rules[r][i - B]

\* What the range loop of policy.Apply loads at index i.
Load(r, i) == IF i <= B \/ Shares(r) THEN slots[i] ELSE rules[r][i - B]

\* for _, r := range rules: one detector is applied.
ApplyOne(r) ==
  /\ step[r] = "apply" /\ k[r] <= B + Len(rules[r])
  /\ applied' = [applied EXCEPT ![r] = Append(@, Load(r, k[r]))]
  /\ k' = [k EXCEPT ![r] = @ + 1]
  /\ UNCHANGED <<slots, current, step, rules, mixed>>

\* The slice is kept for the whole request: the next message, and at the end the
\* response, is checked against it again.
NextText(r) ==
  /\ step[r] = "apply" /\ k[r] > B + Len(rules[r])
  /\ applied' = [applied EXCEPT ![r] = <<>>] /\ k' = [k EXCEPT ![r] = 1]
  /\ UNCHANGED <<slots, current, step, rules, mixed>>

Finish(r) ==
  /\ step[r] = "apply" /\ k[r] > B + Len(rules[r])
  /\ step' = [step EXCEPT ![r] = "done"]
  /\ UNCHANGED <<slots, current, rules, k, applied, mixed>>

Serve(r) == Begin(r) \/ Store(r) \/ Appended(r) \/ ApplyOne(r)
            \/ NextText(r) \/ Finish(r)

SliceNext == \/ \E s \in Snapshots : Replace(s)
        \/ \E r \in Request : Serve(r)
SliceSpec == SliceInit /\ [][SliceNext]_sliceVars

-----------------------------------------------------------------------------
(* Properties *)

\* The race never reaches the built-in detectors: every request applies all of
\* them, in order, to its last text, whatever the other requests append meanwhile.
BuiltinsApplied ==
  \A r \in Request : step[r] = "done" =>
     Len(applied[r]) >= B /\ SubSeq(applied[r], 1, B) = Builtins

\* A request applies exactly the built-ins and its own snapshot's rules, unless
\* it shared the array with a request of a snapshot with other rules: requests
\* of one snapshot store what is there already, and requests whose rules do not
\* fit are never disturbed.
ExactUnlessMixed ==
  \A r \in Request : step[r] = "done" /\ ~mixed[r] => applied[r] = Builtins \o rules[r]

\* Both: what a race over the shared array can do to a request's rules at most.
RulesApplied == BuiltinsApplied /\ ExactUnlessMixed

\* The comment on Snapshot.Rules: the custom rules are "applied in addition to
\* the gateway's built-in detectors".  A request should apply those of its own
\* snapshot.
AppliesOwnRules ==
  \A r \in Request : step[r] = "done" => applied[r] = Builtins \o rules[r]
=============================================================================
