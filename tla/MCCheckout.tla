----------------------------- MODULE MCCheckout -----------------------------
(* Instances of Checkout: two products of 1 and 2 points.  The slots of the  *)
(* OTP screen are interchangeable, and only safety is checked.               *)
EXTENDS Checkout, TLC

UnitPrices == [p \in Products |-> p]

SomeCarts == [Products -> 0 .. Balance]

OtpSymmetry == Permutations(OtpSlots)
=============================================================================
