---------------------------------- MODULE Lists ----------------------------------
(***************************************************************************)
(* find, filter, sort and reduce of JavaScript's arrays.  SelectSeq,       *)
(* SortSeq and the folds of the libraries go through a list element by     *)
(* element, which the prover cannot follow; here a list is defined at once,*)
(* by the places its elements come from.                                   *)
(***************************************************************************)
EXTENDS Naturals, Sequences, FiniteSets, FiniteSetsExt

\* The elements of a finite set, in a strict total order given as a set of pairs: the
\* k-th is the one that k - 1 others are before.
InOrder(S, before) ==
  [k \in 1..Cardinality(S) |->
     CHOOSE x \in S : Cardinality({y \in S : <<y, x>> \in before}) = k - 1]

\* What a list has at some of its places, the places in such an order.
Arranged(list, places, before) ==
  LET from == InOrder(places, before) IN [k \in DOMAIN from |-> list[from[k]]]

\* What passes a test, in the order of the list.
Ascending(places) == {p \in places \X places : p[1] < p[2]}
Filter(list, Test(_)) ==
  LET places == {i \in DOMAIN list : Test(list[i])}
  IN  Arranged(list, places, Ascending(places))

\* The first element that passes a test, or what is taken if none does.
Find(list, Test(_), otherwise) ==
  LET places == {i \in DOMAIN list : Test(list[i])}
  IN  IF places = {} THEN otherwise ELSE list[Min(places)]

\* A stable sort: of two elements neither of which comes before the other, the one at
\* the earlier place is first.
Places(list, Before(_, _)) ==
  {p \in (DOMAIN list) \X (DOMAIN list) :
     \/ Before(list[p[1]], list[p[2]])
     \/ ~Before(list[p[2]], list[p[1]]) /\ p[1] < p[2]}
Sorted(list, Before(_, _)) == Arranged(list, DOMAIN list, Places(list, Before))

\* The sum of a number for each element: how many there are of all the units.
Units(S, f(_)) == UNION {{x} \X (1..f(x)) : x \in S}
SumOver(S, f(_)) == Cardinality(Units(S, f))
=============================================================================
