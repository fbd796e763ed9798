----------------------------- MODULE AuditTrail -----------------------------
(***************************************************************************)
(* What the asynchronous writers promise, without channel, buffer or        *)
(* goroutine: entries are accepted in some order, and the writer settles     *)
(* them in exactly that order, a run of consecutive entries at a time.  A    *)
(* settled run is either stored whole or lost whole; nothing is settled      *)
(* twice, so no row is ever written twice or out of order.                   *)
(***************************************************************************)
EXTENDS Naturals, Sequences

CONSTANT Entry

VARIABLES accepted,  \* every entry taken over from a request handler, in order
          settled,   \* how many of them the writer has dealt with
          stored     \* the rows of the table, in insertion order

vars == <<accepted, settled, stored>>

Init == accepted = <<>> /\ settled = 0 /\ stored = <<>>

Accept(e) == /\ accepted' = Append(accepted, e)
             /\ UNCHANGED <<settled, stored>>

Run(n) == SubSeq(accepted, settled + 1, settled + n)

Store(n) == /\ settled' = settled + n
            /\ stored' = stored \o Run(n)
            /\ UNCHANGED accepted

Lose(n) == /\ settled' = settled + n
           /\ UNCHANGED <<accepted, stored>>

Next == \/ \E e \in Entry : Accept(e)
        \/ \E n \in 1 .. Len(accepted) - settled : Store(n) \/ Lose(n)

Spec == Init /\ [][Next]_vars
=============================================================================
