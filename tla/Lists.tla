-------------------------------- MODULE Lists --------------------------------
(***************************************************************************)
(* Elements of a list that are picked out and keep their order, as the     *)
(* filters and sorts of the code leave them.                               *)
(***************************************************************************)
EXTENDS Naturals, Sequences, FiniteSets

\* The numbers of a finite set in their order.
InOrder(S) ==
  [i \in 1 .. Cardinality(S) |-> CHOOSE k \in S : Cardinality({j \in S : j <= k}) = i]

\* The elements of the list at the places in S.
Picked(list, S) ==
  LET places == InOrder(S) IN [i \in DOMAIN places |-> list[places[i]]]
=============================================================================
