---------------------------- MODULE Subsequences ----------------------------
(* Filtering a sequence, by the indices that stay. *)
EXTENDS Naturals, FiniteSets

\* The elements of a sequence at some of its indices, in their order.
Chosen(seq, I) ==
  [k \in 1 .. Cardinality(I) |-> seq[CHOOSE i \in I : Cardinality({j \in I : j < i}) = k - 1]]
=============================================================================
