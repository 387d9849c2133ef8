--------------------------- MODULE MCRedemptionOTP ---------------------------
(* Instances of RedemptionOTP: one product, in the cart or not.            *)
EXTENDS RedemptionOTP

SomeCarts == [Products -> 0 .. 1]
=============================================================================
