--------------------------------- MODULE Lists ---------------------------------
(* What filter and sort of a JavaScript array return: the entries of a list *)
(* at some of its positions, put in order.  An order is a set of pairs of   *)
(* positions, the first of which comes first.                               *)
EXTENDS FiniteSets, Naturals, Sequences

\* The position that comes n-th: n - 1 others come before it.
Nth(places, order, n) ==
  CHOOSE i \in places : Cardinality({j \in places : <<j, i>> \in order}) = n - 1

Arranged(list, places, order) ==
  [n \in 1..Cardinality(places) |-> list[Nth(places, order, n)]]

InTurn(places) == {p \in places \X places : p[1] < p[2]}

\* filter keeps the entries at some positions, in the order they have.
At(list, places) == Arranged(list, places, InTurn(places))
=============================================================================
