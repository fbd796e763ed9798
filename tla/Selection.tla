----------------------------- MODULE Selection -----------------------------
(* The filter of SQL's WHERE and of Array.prototype.filter: what is left of a   *)
(* sequence when only some of its indices are kept.  Defined by counting rather *)
(* than by recursion, so that it can be reasoned about.                         *)
EXTENDS Naturals, Sequences, FiniteSets

\* How many of the indices in I come up to i.
Rank(I, i) == Cardinality({j \in I : j <= i})

\* The elements of s at the indices in I, in their order.
Select(s, I) == [k \in 1 .. Cardinality(I) |-> s[CHOOSE i \in I : Rank(I, i) = k]]
=============================================================================
