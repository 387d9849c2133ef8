----------------------------- MODULE OrderLedger -----------------------------
(***************************************************************************)
(* What the redemption promises the customer and the shop, kept as a       *)
(* ledger: the server sends one-time passwords, takes orders that one of   *)
(* them authorised, and each order it has taken is announced as a success  *)
(* at most once.  Screens, visits, timers, the cart and everything that    *)
(* may be lost on the way are left to RedemptionOTP, which implements it.  *)
(***************************************************************************)
EXTENDS Naturals

CONSTANT MaxOtps    \* bound: passwords sent

VARIABLES issued,   \* passwords sent so far
          placed,   \* per password: orders taken that it authorised
          told      \* per password: successes announced for them

ledger == <<issued, placed, told>>

Numbers == 0 .. MaxOtps

Init == issued = 0 /\ placed = [n \in Numbers |-> 0] /\ told = placed

Issue == /\ issued < MaxOtps /\ issued' = issued + 1
         /\ UNCHANGED <<placed, told>>

Place == /\ \E n \in 1 .. issued : placed' = [placed EXCEPT ![n] = @ + 1]
         /\ UNCHANGED <<issued, told>>

Announce == /\ \E n \in 1 .. issued : /\ told[n] < placed[n]
                                      /\ told' = [told EXCEPT ![n] = @ + 1]
            /\ UNCHANGED <<issued, placed>>

Next == Issue \/ Place \/ Announce

Spec == Init /\ [][Next]_ledger
=============================================================================
