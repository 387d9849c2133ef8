------------------------------ MODULE Checkout ------------------------------
(***************************************************************************)
(* Redeeming a cart: the cart screen, the address screen pushed over it    *)
(* and the OTP screen pushed over that, all over the same server's cart.   *)
(*                                                                         *)
(* The cart screen tests the balance against the total of the list it last *)
(* received; the OTP screen orders the cart as the server holds it when    *)
(* its own request arrives.  The cart screen stays alive below: taps that  *)
(* wait for their 0.3 s and requests on their way still change the cart.   *)
(*                                                                         *)
(* The cart screen keeps its names, and what Cart says happens above it is *)
(* here what happens there; the OTP screen is O, over the same cart.       *)
(*                                                                         *)
(* Abstractions.  Those of Cart and RedemptionOTP; the address is complete,*)
(* so processBtn of EBC_DefaultAddressVC opens the OTP screen.             *)
(***************************************************************************)
EXTENDS Cart

CONSTANTS Carts, Countdown, OtpSlots, MaxOtps, MaxOrders  \* of RedemptionOTP

VARIABLES
  otpScreen, OTPforVerification, newproductArray, count, resend, first, others,
  timer, popup, otpWire, doomed, issued, since, placed, told, elapsed,
  calm   \* history: when the checkout button was pressed last, the total it
         \* tested was that of the server's cart, and no change was under way

cartOnly == <<screen, list, shown, tableHidden, checkoutView, sum, delayed,
              wire, adding>>
otpOnly == <<otpScreen, OTPforVerification, newproductArray, count, resend,
             first, others, timer, popup, otpWire, doomed, issued, since,
             placed, told, elapsed>>
allVars == <<cart, cartOnly, otpOnly, calm>>

O == INSTANCE RedemptionOTP WITH screen <- otpScreen, wire <- otpWire,
                                 Slots <- OtpSlots

\* Every cart that the balance pays for, product by product, may be ordered,
\* and what RedemptionOTP assumes of its constants holds of them here.
ASSUME CompositionAssumption ==
  /\ Redeems = TRUE /\ MaxOtps \in Nat /\ Countdown \in Nat \ {0}
  /\ [Products -> 0 .. Balance] \subseteq Carts /\ Carts \subseteq AllCarts
  /\ \A c, d \in Carts : O!Without(c, d) \in Carts
  /\ IsFiniteSet(OtpSlots) /\ MaxOrders \in Nat

CheckoutTypeOK == TypeOK /\ O!TypeOK /\ calm \in BOOLEAN

CheckoutInit == Init /\ O!Init /\ calm = FALSE

-----------------------------------------------------------------------------
\* The total tested is that of the server's cart, and no request is under way
\* that changes it.
Settled == Quiet /\ adding = {} /\ sum = Total(cart)

\* The cart screen, or what is left of it below the others: only the top
\* screen can be left.
CartStep ==
  /\ Local
  /\ otpScreen # "away" => screen' = screen
  /\ calm' = IF screen = "cart" /\ screen' = "address" THEN Settled ELSE calm
  /\ UNCHANGED otpOnly

\* Mutant of ProcessBTN: the screen of the last visit is pushed again.
ProcessBTNAgain ==
  /\ screen = "address" /\ otpScreen = "away" /\ otpScreen' = "otp"
  /\ UNCHANGED <<cart, cartOnly, OTPforVerification, newproductArray, count,
                 resend, first, others, timer, popup, otpWire, doomed, issued,
                 since, placed, told, elapsed, calm>>

\* processBtn of the address screen.
ProcessBTN == screen = "address" /\ O!Open /\ UNCHANGED <<cartOnly, calm>>

OtpStep == O!Local /\ UNCHANGED <<cart, cartOnly, calm>>

OrderArrives ==
  /\ \E s \in OtpSlots : O!ServerTakes(s)
  /\ UNCHANGED <<cartOnly, calm>>

\* Mutant of BackToRoot: the cart screen is uncovered, without being told.
BackToRootKeepsCart ==
  /\ O!LeaveSuccess /\ screen' = "cart"
  /\ UNCHANGED <<list, shown, tableHidden, checkoutView, sum, delayed, wire,
                 adding, calm>>

\* backBTN of the success screen: every screen is popped.
BackToRoot == O!LeaveSuccess /\ PopToRoot /\ UNCHANGED calm

CrashAll == /\ \/ Crashes /\ O!CrashElsewhere
               \/ O!Crashes /\ CrashElsewhere
            /\ UNCHANGED calm

RelaunchAll == Relaunch /\ O!Relaunch /\ UNCHANGED calm

CheckoutNext == \/ CartStep \/ ProcessBTN \/ OtpStep \/ OrderArrives
                \/ BackToRoot \/ CrashAll \/ RelaunchAll

CheckoutSpec == CheckoutInit /\ [][CheckoutNext]_allVars

-----------------------------------------------------------------------------
(* Properties                                                              *)

Ordered(items) ==
  \E s \in OtpSlots : /\ otpWire[s] = O!Idle /\ otpWire'[s].op = "order"
                      /\ otpWire'[s].items = items

\* The checkout button tests the balance, so that no order costs more, for a
\* user who lets the cart screen come to rest before pressing the button,
\* however long ago that was and whatever orders, replies and visits lie
\* between (checkoutBTN, getMycartList of both).
SettledOrderWithinBalance ==
  [][\A items \in Carts :
       Ordered(items) /\ calm => Total(items) <= Balance]_allVars

\* Seen through its own variables each screen behaves as it does alone: the
\* other changes of the shared cart are among those it allows for.
CartSpec == Spec
OtpSpec == O!Spec
=============================================================================
