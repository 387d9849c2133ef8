---------------------------- MODULE RedemptionOTP ----------------------------
(***************************************************************************)
(* The screen that confirms a redemption with a one-time password          *)
(* (HR_RedemptionOTP_VC, HR_RedemptionOTP_VM).                             *)
(*                                                                         *)
(* On opening, the screen asks the server for the cart and for an OTP and  *)
(* starts a timer that counts down to the moment the OTP can be asked for  *)
(* again.  Every OTP that arrives starts one more timer and puts it in the *)
(* same field; only the timer in the field is ever invalidated.  The first *)
(* timer keeps the screen alive, the others only its view model, whose     *)
(* completions unwrap the screen without a test.                           *)
(*                                                                         *)
(* Abstractions.  The order is that of a cart, not of a dream gift.  OTPs  *)
(* are numbered in the order the server sends them, 0 is the empty text,   *)
(* and the user knows every OTP sent.  In a second every timer ticks once. *)
(* A screen kept alive by its first timer after it was left has no effect  *)
(* any more and is forgotten.  The server is external: it takes an order   *)
(* when its cart still holds what is ordered.                              *)
(***************************************************************************)
EXTENDS Naturals, FiniteSets

CONSTANTS
  Products,   \* the products of the catalogue
  Carts,      \* the carts that occur, functions from products to quantities
  Countdown,  \* seconds before the OTP can be asked for again (60)
  Slots,      \* bound: requests on their way at a time
  MaxOtps,    \* bound: OTPs sent
  MaxOrders,  \* bound: orders taken that one OTP authorised
  Failures    \* whether requests and replies may be lost

Empty == [p \in Products |-> 0]

\* The cart without what is ordered.
Without(c, items) == [p \in Products |-> IF items[p] > 0 THEN 0 ELSE c[p]]

ASSUME CartsAssumption == /\ Carts \subseteq [Products -> Nat] /\ Empty \in Carts
                          /\ \A c, d \in Carts : Without(c, d) \in Carts
ASSUME SlotsAssumption == IsFiniteSet(Slots)
ASSUME CountdownAssumption == Countdown \in Nat \ {0}
ASSUME BoundsAssumption == /\ MaxOtps \in Nat /\ MaxOrders \in Nat
                           /\ Failures \in BOOLEAN

VARIABLES
  cart,            \* the server's cart
  screen,          \* "away", "otp", "success" (pushed over it), "crashed"
  OTPforVerification, \* the OTP that authorises, 0 for ""
  newproductArray, \* the products to order
  count,           \* what the timers count down
  resend,          \* the resend button is visible
  first,           \* the timer of viewWillAppear runs
  others,          \* timers of the view model that run
  timer,           \* which running timer the field holds
  popup,           \* what is presented over the screen
  wire,            \* what each slot carries
  doomed,          \* a timer runs whose screen has been released
  issued, since,   \* OTPs sent so far, and when the screen was opened
  placed, told,    \* per OTP: orders taken by the server that it authorised,
                   \* and success screens pushed for them
  elapsed          \* seconds since the last OTP arrived, up to Countdown

clock == <<count, resend, first, others, timer, elapsed>>
server == <<cart, issued, placed>>
vars == <<server, screen, OTPforVerification, newproductArray, clock, popup,
          wire, doomed, since, told>>

Codes == 0 .. MaxOtps

Idle == [op |-> "idle"]

\* Requests; "order" is heard of by its screen as long as that is live.
\* "late" is a reply to a screen that has been released.
Request == {[op |-> "otp"], [op |-> "list"]}
           \cup [op : {"order"}, items : Carts, code : Codes, live : BOOLEAN]
Reply == [op : {"code"}, n : Codes] \cup [op : {"items"}, c : Carts]
         \cup [op : {"placed", "refused"}, code : Codes, live : BOOLEAN]
         \cup {[op |-> "late"]}

TypeOK ==
  /\ cart \in Carts /\ newproductArray \in Carts
  /\ screen \in {"away", "otp", "success", "crashed"}
  /\ OTPforVerification \in Codes
  /\ count \in 1 .. Countdown /\ elapsed \in 0 .. Countdown
  /\ resend \in BOOLEAN /\ first \in BOOLEAN /\ doomed \in BOOLEAN
  /\ others \in Nat
  /\ timer \in {"none", "first", "other"}
  /\ popup \in {"none", "otp", "failed"}
  /\ wire \in [Slots -> {Idle} \cup Request \cup Reply]
  /\ issued \in 0 .. MaxOtps /\ since \in 0 .. issued
  /\ placed \in [Codes -> Nat] /\ told \in [Codes -> Nat]

Init ==
  /\ cart \in Carts
  /\ screen = "away" /\ OTPforVerification = 0 /\ newproductArray = Empty
  /\ count = Countdown /\ resend = TRUE
  /\ first = FALSE /\ others = 0 /\ timer = "none" /\ elapsed = 0
  /\ popup = "none" /\ wire = [s \in Slots |-> Idle] /\ doomed = FALSE
  /\ issued = 0 /\ since = 0
  /\ placed = [n \in Codes |-> 0] /\ told = placed

Alive == screen \in {"otp", "success"}

-----------------------------------------------------------------------------
(* Helpers                                                                 *)

Waiting(op) == {s \in Slots : wire[s].op = op}

\* A further OTP fits the bound.
OtpLeft == issued + Cardinality(Waiting("otp")) < MaxOtps

Send(m) == \E s \in Slots : wire[s] = Idle /\ wire' = [wire EXCEPT ![s] = m]

\* timer.invalidate() of the field.
FirstAfter  == first /\ timer # "first"
OthersAfter == IF timer = "other" THEN others - 1 ELSE others

\* The screen is popped with its first timer running (kept) or not, and n of
\* the others.  Orders are carried out all the same.
Release(kept, n) ==
  /\ doomed' = (doomed \/ (~kept /\ n > 0))
  /\ wire' = [s \in Slots |->
       CASE wire[s] = Idle -> Idle
         [] wire[s].op \in {"order", "placed", "refused"} ->
              [wire[s] EXCEPT !.live = FALSE]
         [] wire[s].op = "late" -> wire[s]
         [] OTHER -> IF kept THEN Idle ELSE [op |-> "late"]]
  /\ first' = FALSE /\ others' = 0 /\ timer' = "none"
  /\ UNCHANGED <<count, resend, elapsed>>

\* The application ends, and whatever was on its way is not heard of again.
Crash ==
  /\ screen' = "crashed" /\ doomed' = FALSE /\ popup' = "none"
  /\ first' = FALSE /\ others' = 0 /\ timer' = "none"
  /\ wire' = [s \in Slots |-> Idle]
  /\ UNCHANGED <<server, OTPforVerification, newproductArray, count, resend,
                 elapsed, since, told>>

-----------------------------------------------------------------------------
(* The screen                                                              *)

\* viewDidLoad and viewWillAppear; offline nothing is asked for.
Open ==
  /\ screen = "away" /\ screen' = "otp"
  /\ OTPforVerification' = 0 /\ newproductArray' = Empty
  /\ count' = Countdown /\ resend' = TRUE /\ elapsed' = 0
  /\ since' = issued
  /\ \/ /\ OtpLeft /\ first' = TRUE /\ timer' = "first"
        /\ \E s, t \in Slots :
             /\ s # t /\ wire[s] = Idle /\ wire[t] = Idle
             /\ wire' = [wire EXCEPT ![s] = [op |-> "list"], ![t] = [op |-> "otp"]]
     \/ Failures /\ UNCHANGED <<first, timer, wire>>
  /\ UNCHANGED <<server, others, popup, doomed, told>>

\* backBTN.
BackBTN ==
  /\ screen = "otp" /\ popup = "none" /\ screen' = "away"
  /\ Release(FirstAfter, OthersAfter)
  /\ UNCHANGED <<server, OTPforVerification, newproductArray, popup, since,
                 told>>

\* The success screen leads back to the root: the timer is not invalidated.
LeaveSuccess ==
  /\ screen = "success" /\ screen' = "away"
  /\ Release(first, others)
  /\ UNCHANGED <<server, OTPforVerification, newproductArray, popup, since,
                 told>>

Relaunch ==
  /\ screen = "crashed" /\ screen' = "away"
  /\ UNCHANGED <<server, OTPforVerification, newproductArray, clock, popup,
                 wire, doomed, since, told>>

\* resendOTPBTN: the countdown starts only when the OTP arrives, and the
\* button stays.
ResendOTP ==
  /\ screen = "otp" /\ popup = "none" /\ resend /\ OtpLeft
  /\ Send([op |-> "otp"])
  /\ UNCHANGED <<server, screen, OTPforVerification, newproductArray, clock,
                 popup, doomed, since, told>>

\* okayBTN of a popup; that of "Redemption Failed" has no navigation
\* controller to pop and only dismisses it.
PopupOK ==
  /\ popup # "none" /\ popup' = "none"
  /\ UNCHANGED <<server, screen, OTPforVerification, newproductArray, clock,
                 wire, doomed, since, told>>

\* Texts the user may enter: none, an OTP received, any other (MaxOtps + 1).
Texts == 0 .. issued \cup {MaxOtps + 1}

\* Mutant of SubmitOrder: the length of the text is not tested.
SubmitAnyLength(text) ==
  /\ screen = "otp" /\ popup = "none"
  /\ OTPforVerification = text
  /\ Send([op |-> "order", items |-> newproductArray, code |-> text,
           live |-> TRUE])
  /\ UNCHANGED <<server, screen, OTPforVerification, newproductArray, clock,
                 popup, doomed, since, told>>

\* submitBTN, with the OTP that authorises.
SubmitOrder(text) ==
  /\ screen = "otp" /\ popup = "none"
  /\ text # 0 /\ OTPforVerification = text
  /\ Send([op |-> "order", items |-> newproductArray, code |-> text,
           live |-> TRUE])
  /\ UNCHANGED <<server, screen, OTPforVerification, newproductArray, clock,
                 popup, doomed, since, told>>

\* submitBTN, with any other text: "InValid OTP", "Enter Valid OTP".
SubmitRefused(text) ==
  /\ screen = "otp" /\ popup = "none"
  /\ text = 0 \/ OTPforVerification # text
  /\ popup' = "otp"
  /\ UNCHANGED <<server, screen, OTPforVerification, newproductArray, clock,
                 wire, doomed, since, told>>

-----------------------------------------------------------------------------
(* The timers                                                              *)

Ticks == others + IF first THEN 1 ELSE 0

\* Mutant of Second: the count goes down to 0.
SecondToZero ==
  /\ Alive /\ Ticks > 0
  /\ IF Ticks <= count
       THEN /\ count' = count - Ticks /\ resend' = FALSE
            /\ UNCHANGED <<first, others, timer>>
       ELSE /\ count' = 1 /\ resend' = TRUE
            /\ first' = FirstAfter /\ others' = OthersAfter /\ timer' = "none"
  /\ elapsed' = IF elapsed < Countdown THEN elapsed + 1 ELSE elapsed
  /\ UNCHANGED <<server, screen, OTPforVerification, newproductArray, popup,
                 wire, doomed, since, told>>

\* update, of the screen and of the view model, once per timer: the one that
\* finds the count down to 1 shows the button and invalidates the field's
\* timer, whichever that is.
Second ==
  /\ Alive /\ Ticks > 0
  /\ IF Ticks < count
       THEN /\ count' = count - Ticks /\ resend' = FALSE
            /\ UNCHANGED <<first, others, timer>>
       ELSE /\ count' = 1 /\ resend' = TRUE
            /\ first' = FirstAfter /\ others' = OthersAfter /\ timer' = "none"
  /\ elapsed' = IF elapsed < Countdown THEN elapsed + 1 ELSE elapsed
  /\ UNCHANGED <<server, screen, OTPforVerification, newproductArray, popup,
                 wire, doomed, since, told>>

\* A view model's timer ticks without its screen: VC! is nil.
StrayTick == doomed /\ Crash

-----------------------------------------------------------------------------
(* The server                                                              *)

ServerOtp(s) ==
  /\ wire[s].op = "otp" /\ issued < MaxOtps
  /\ issued' = issued + 1
  /\ wire' = [wire EXCEPT ![s] = [op |-> "code", n |-> issued']]
  /\ UNCHANGED <<cart, placed, screen, OTPforVerification, newproductArray,
                 clock, popup, doomed, since, told>>

ServerList(s) ==
  /\ wire[s].op = "list"
  /\ wire' = [wire EXCEPT ![s] = [op |-> "items", c |-> cart]]
  /\ UNCHANGED <<server, screen, OTPforVerification, newproductArray, clock,
                 popup, doomed, since, told>>

Holds(items) == items # Empty /\ \A p \in Products : cart[p] >= items[p]

ServerTakes(s) ==
  /\ wire[s].op = "order" /\ Holds(wire[s].items)
  /\ placed[wire[s].code] < MaxOrders
  /\ cart' = Without(cart, wire[s].items)
  /\ placed' = [placed EXCEPT ![wire[s].code] = @ + 1]
  /\ wire' = [wire EXCEPT ![s] = [op |-> "placed", code |-> wire[s].code,
                                  live |-> wire[s].live]]
  /\ UNCHANGED <<issued, screen, OTPforVerification, newproductArray, clock,
                 popup, doomed, since, told>>

ServerRefuses(s) ==
  /\ wire[s].op = "order" /\ ~Holds(wire[s].items)
  /\ wire' = [wire EXCEPT ![s] = [op |-> "refused", code |-> wire[s].code,
                                  live |-> wire[s].live]]
  /\ UNCHANGED <<server, screen, OTPforVerification, newproductArray, clock,
                 popup, doomed, since, told>>

\* The cart is changed by requests of the cart screen that are still on
\* their way.
CartChanges ==
  /\ cart' \in Carts /\ cart' # cart
  /\ UNCHANGED <<issued, placed, screen, OTPforVerification, newproductArray,
                 clock, popup, wire, doomed, since, told>>

\* The application crashes on another screen.
CrashElsewhere == screen # "crashed" /\ Crash

\* A request or its reply is lost: the spinner is stopped, no more.
Lost(s) ==
  /\ Failures /\ wire[s] # Idle
  /\ wire' = [wire EXCEPT ![s] = Idle]
  /\ UNCHANGED <<server, screen, OTPforVerification, newproductArray, clock,
                 popup, doomed, since, told>>

-----------------------------------------------------------------------------
(* Replies                                                                 *)

\* Mutant of OtpArrives: the timer of the field is replaced, none started.
OtpArrivesUntimed(s) ==
  /\ Alive /\ wire[s].op = "code"
  /\ OTPforVerification' = wire[s].n
  /\ resend' = FALSE /\ count' = Countdown /\ elapsed' = 0
  /\ first' = FirstAfter /\ others' = OthersAfter /\ timer' = "none"
  /\ wire' = [wire EXCEPT ![s] = Idle]
  /\ UNCHANGED <<server, screen, newproductArray, popup, doomed, since, told>>

\* Mutant of OtpArrives: the countdown goes on where it was.
OtpArrivesCountKept(s) ==
  /\ Alive /\ wire[s].op = "code"
  /\ OTPforVerification' = wire[s].n
  /\ resend' = FALSE /\ elapsed' = 0
  /\ others' = others + 1 /\ timer' = "other"
  /\ wire' = [wire EXCEPT ![s] = Idle]
  /\ UNCHANGED <<server, screen, newproductArray, count, first, popup, doomed,
                 since, told>>

\* The completion of OTPAPI: one more timer, held by the field.
OtpArrives(s) ==
  /\ Alive /\ wire[s].op = "code"
  /\ OTPforVerification' = wire[s].n
  /\ resend' = FALSE /\ count' = Countdown /\ elapsed' = 0
  /\ others' = others + 1 /\ timer' = "other"
  /\ wire' = [wire EXCEPT ![s] = Idle]
  /\ UNCHANGED <<server, screen, newproductArray, first, popup, doomed, since,
                 told>>

\* The completion of getMycartList: an empty cart leaves the products alone.
ItemsArrive(s) ==
  /\ Alive /\ wire[s].op = "items"
  /\ newproductArray' = IF wire[s].c = Empty THEN newproductArray ELSE wire[s].c
  /\ wire' = [wire EXCEPT ![s] = Idle]
  /\ UNCHANGED <<server, screen, OTPforVerification, clock, popup, doomed,
                 since, told>>

\* A reply of OTPAPI or getMycartList finds no screen: VC! is nil.
LateReply(s) == wire[s].op = "late" /\ Crash

\* Mutant of OrderPlaced: a refusal is a success too.
OrderAnswered(s) ==
  /\ wire[s].op \in {"placed", "refused"}
  /\ wire' = [wire EXCEPT ![s] = Idle]
  /\ \/ /\ Alive /\ screen' = "success"
        /\ told' = [told EXCEPT ![wire[s].code] = @ + 1]
     \/ ~Alive /\ UNCHANGED <<screen, told>>
  /\ UNCHANGED <<server, OTPforVerification, newproductArray, clock, popup,
                 doomed, since>>

\* submitProductApi's completion posts redemptionSuccess, and the screen
\* that is open, be it another than the one that sent the order, pushes the
\* success screen.
OrderPlaced(s) ==
  /\ wire[s].op = "placed"
  /\ wire' = [wire EXCEPT ![s] = Idle]
  /\ \/ /\ Alive /\ screen' = "success"
        /\ told' = [told EXCEPT ![wire[s].code] = @ + 1]
     \/ ~Alive /\ UNCHANGED <<screen, told>>
  /\ UNCHANGED <<server, OTPforVerification, newproductArray, clock, popup,
                 doomed, since>>

\* "Redemption Failed", presented if the screen is on top and bare.
OrderRefused(s) ==
  /\ wire[s].op = "refused"
  /\ wire' = [wire EXCEPT ![s] = Idle]
  /\ popup' = IF wire[s].live /\ screen = "otp" /\ popup = "none"
                THEN "failed" ELSE popup
  /\ UNCHANGED <<server, screen, OTPforVerification, newproductArray, clock,
                 doomed, since, told>>

-----------------------------------------------------------------------------
User == \/ BackBTN \/ ResendOTP \/ PopupOK
        \/ \E text \in Texts : SubmitOrder(text) \/ SubmitRefused(text)

Network(s) == \/ ServerOtp(s) \/ ServerList(s) \/ ServerRefuses(s) \/ Lost(s)
              \/ OtpArrives(s) \/ ItemsArrive(s)
              \/ OrderPlaced(s) \/ OrderRefused(s)

Local == User \/ Second \/ \E s \in Slots : Network(s)

Crashes == StrayTick \/ \E s \in Slots : LateReply(s)

Next == \/ Open \/ LeaveSuccess \/ Relaunch \/ Local \/ Crashes
        \/ \E s \in Slots : ServerTakes(s)
        \/ CartChanges \/ CrashElsewhere

Spec == Init /\ [][Next]_vars

\* Time passes, and every OTP that was sent arrives or is lost.
Fairness == /\ WF_vars(Second)
            /\ \A s \in Slots : WF_vars(OtpArrives(s))

FairSpec == Spec /\ Fairness

-----------------------------------------------------------------------------
(* Properties                                                              *)

\* No order is sent without an OTP that the server sent to this visit of
\* the screen: the empty OTP of a screen that has received none, and those
\* of earlier visits, authorise nothing (submitBTN).
OrderAuthorised ==
  [][\A s \in Slots :
       wire'[s].op = "order" /\ wire[s] = Idle
         => wire'[s].code \in since + 1 .. issued]_vars

\* No success screen without an order that the server took: every push of
\* one is due to another order, across the visits that may hear of it
\* (redemptionProducts, submitProductApi).
SuccessMeansPlaced == \A n \in Codes : told[n] <= placed[n]

\* The screen that asked for an OTP lets the user ask again after a while,
\* whichever timers are running and whichever of them the field holds.
ResendReturns ==
  (screen = "otp" /\ ~resend) ~> (screen # "otp" \/ resend)

\* The button does not come back sooner after an OTP than the timers that this
\* visit has started can count down together: one of its own, and one for each
\* OTP sent to it (OTPAPI, update).
CountdownShared ==
  Alive /\ OTPforVerification # 0 /\ resend
    => elapsed * (1 + issued - since) >= Countdown

\* Seen from outside, passwords, orders and successes are the entries of the
\* ledger of OrderLedger: no order is taken without a password that the server
\* sent, of whatever visit, no order is announced twice, and a crash or a lost
\* reply takes nothing back (submitBTN, submitProductApi).
Ledger == INSTANCE OrderLedger
OrdersKept == Ledger!Spec

\* While the button is hidden a timer runs that will bring it back, so that
\* nobody waits for a button for ever (OTPAPI, update): what ResendReturns
\* rests on.
HiddenIsTimed == Alive /\ ~resend => Ticks > 0
=============================================================================
