------------------------------- MODULE Places -------------------------------
(***************************************************************************)
(* The places of a sequence that are left when some of it is dropped: what *)
(* stays keeps its place, and its rank is the number it has among the      *)
(* rest; and a finite set, sorted.                                         *)
(***************************************************************************)
EXTENDS Naturals, FiniteSets

Rank(S, x) == Cardinality({y \in S : y <= x})
Ascending(S) == [i \in 1..Cardinality(S) |-> CHOOSE x \in S : Rank(S, x) = i]

(* The values of a sequence at some of its places, in their order.         *)
Selected(seq, S) == LET places == Ascending(S) IN [k \in DOMAIN places |-> seq[places[k]]]

(* A set in the order of the pairs <<x, y>> of `before': x before y.        *)
Position(S, before, x) == Cardinality({y \in S : y = x \/ <<y, x>> \in before})
InOrder(S, before) ==
  [k \in 1..Cardinality(S) |-> CHOOSE x \in S : Position(S, before, x) = k]
=============================================================================
