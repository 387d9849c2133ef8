------------------------------- MODULE MCCart -------------------------------
(* Instances of CartVisit: two products, the second twice as dear.         *)
EXTENDS CartVisit

UnitPrices == [p \in Products |-> p]
=============================================================================
