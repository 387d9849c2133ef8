-------------------------- MODULE Checkout_proofs ---------------------------
(***************************************************************************)
(* The composition implements the cart screen and the OTP screen: each,    *)
(* seen through its own variables, behaves as it does alone, so that what  *)
(* holds of every behaviour of Cart holds while its cart is being redeemed.*)
(* And a cart checked out at rest is ordered within the balance.           *)
(***************************************************************************)
EXTENDS Checkout, Cart_proofs

-----------------------------------------------------------------------------
(* The cart screen                                                         *)

LEMMA InitImplements == CheckoutInit => Init
BY DEF CheckoutInit

\* An order that is taken takes whole products out of the cart.
LEMMA OrderTakes ==
  ASSUME NEW s \in OtpSlots, O!ServerTakes(s), UNCHANGED cartOnly
  PROVE  OrderTaken
<1> DEFINE items == otpWire[s].items
           ps == {p \in Products : items[p] > 0}
<1>1. cart' = [p \in Products |-> IF items[p] > 0 THEN 0 ELSE cart[p]]
  BY DEF O!ServerTakes, O!Without
<1>2. cart' = [p \in Products |-> IF p \in ps THEN 0 ELSE cart[p]]
  BY <1>1
<1>3. ps \in SUBSET Products
  OBVIOUS
<1> HIDE DEF ps
<1> QED BY <1>2, <1>3 DEF OrderTaken, cartOnly

LEMMA StepImplements == [CheckoutNext]_allVars => [Next]_vars
<1> SUFFICES ASSUME [CheckoutNext]_allVars PROVE [Next]_vars
  OBVIOUS
<1>1. CASE CartStep BY <1>1 DEF CartStep, Next
<1>2. CASE ProcessBTN BY <1>2 DEF ProcessBTN, O!Open, O!server, cartOnly, vars
<1>3. CASE OtpStep BY <1>3 DEF OtpStep, cartOnly, vars
<1>4. CASE OrderArrives
  <2>1. OrderTaken BY <1>4, OrderTakes DEF OrderArrives
  <2> QED BY <2>1, CompositionAssumption DEF Next, Elsewhere
<1>5. CASE BackToRoot
  BY <1>5, CompositionAssumption DEF BackToRoot, Next, Elsewhere
<1>6. CASE CrashAll
  BY <1>6, CompositionAssumption DEF CrashAll, Next, Elsewhere
<1>7. CASE RelaunchAll BY <1>7 DEF RelaunchAll, Next
<1>8. CASE UNCHANGED allVars BY <1>8 DEF allVars, cartOnly, vars
<1> QED BY <1>1, <1>2, <1>3, <1>4, <1>5, <1>6, <1>7, <1>8 DEF CheckoutNext

\* Every step of the three screens is a step of the cart screen, or leaves
\* it alone (HR_MyCartVC below EBC_DefaultAddressVC and HR_RedemptionOTP_VC).
THEOREM CheckoutImplementsCart == CheckoutSpec => CartSpec
BY InitImplements, StepImplements, PTL DEF CheckoutSpec, CartSpec, Spec

\* So the cart stays one that the OTP screen allows for.
LEMMA CartIsOrderable == BalanceInv => cart \in Carts
<1> SUFFICES ASSUME BalanceInv PROVE cart \in Carts
  OBVIOUS
<1>1. ASSUME NEW p \in Products PROVE cart[p] \in 0 .. Balance
  <2>1. cart[p] \in Nat /\ Unit[p] \in Nat \ {0} /\ cart[p] * Unit[p] <= Balance
    BY UnitAssumption DEF BalanceInv, TypeOK, AllCarts, EachWithinBalance
  <2>2. \A n \in Nat, u \in Nat \ {0} : n <= n * u
    <3> SUFFICES ASSUME NEW n \in Nat, NEW u \in Nat \ {0} PROVE n <= n * u
      OBVIOUS
    <3>1. PICK k \in Nat : u = k + 1 BY SMT
    <3>2. n * u = n * k + n /\ n * k \in Nat BY <3>1
    <3> QED BY <3>2
  <2>3. cart[p] <= cart[p] * Unit[p] /\ cart[p] * Unit[p] \in Nat BY <2>1, <2>2
  <2> QED BY <2>1, <2>3, BalanceAssumption
<1>2. cart \in [Products -> 0 .. Balance]
  BY <1>1 DEF BalanceInv, TypeOK, AllCarts
<1> QED BY <1>2, CompositionAssumption

CartInv == BalanceInv /\ cart \in Carts

LEMMA CartInvHolds == CheckoutSpec => []CartInv
<1>1. CheckoutInit => BalanceInv BY InitImplements, BalanceInit
<1>2. BalanceInv /\ [CheckoutNext]_allVars => BalanceInv'
  BY StepImplements, BalanceInvStep
<1>3. BalanceInv => CartInv BY CartIsOrderable DEF CartInv
<1> QED BY <1>1, <1>2, <1>3, PTL DEF CheckoutSpec

\* Whatever is redeemed above it, the cart stays within the balance product
\* by product, and the buttons of the cart screen act on the product they are
\* drawn next to (HR_MyCartVC below EBC_DefaultAddressVC).
THEOREM CartPromisesHold ==
  CheckoutSpec => [](EachWithinBalance /\ CellsMatchList)
BY CheckoutImplementsCart, BalanceHolds, CellsAreRows, PTL DEF CartSpec

-----------------------------------------------------------------------------
(* The OTP screen                                                          *)

LEMMA StepImplementsOtp ==
  CartInv' /\ [CheckoutNext]_allVars => [O!Next]_(O!vars)
<1> SUFFICES ASSUME CartInv', [CheckoutNext]_allVars PROVE [O!Next]_(O!vars)
  OBVIOUS
<1>1. cart' \in Carts BY DEF CartInv
<1>2. CASE CartStep
  BY <1>1, <1>2 DEF CartStep, otpOnly, O!Next, O!CartChanges, O!vars, O!server, O!clock
<1>3. CASE ProcessBTN BY <1>3 DEF ProcessBTN, O!Next
<1>4. CASE OtpStep BY <1>4 DEF OtpStep, O!Next
<1>5. CASE OrderArrives BY <1>5 DEF OrderArrives, O!Next
<1>6. CASE BackToRoot BY <1>6 DEF BackToRoot, O!Next
<1>7. CASE CrashAll BY <1>7 DEF CrashAll, O!Next
<1>8. CASE RelaunchAll BY <1>8 DEF RelaunchAll, O!Next
<1>9. CASE UNCHANGED allVars
  BY <1>9 DEF allVars, otpOnly, O!vars, O!server, O!clock
<1> QED BY <1>2, <1>3, <1>4, <1>5, <1>6, <1>7, <1>8, <1>9 DEF CheckoutNext

\* Whatever the cart screen does, seen through the OTP screen's variables the
\* composition is a behaviour of RedemptionOTP: the requests of the cart
\* screen below change the cart into others that the balance pays for
\* (HR_RedemptionOTP_VC above HR_MyCartVC).
THEOREM CheckoutImplementsOtp == CheckoutSpec => OtpSpec
<1>1. CheckoutInit => O!Init BY DEF CheckoutInit
<1> QED BY <1>1, StepImplementsOtp, CartInvHolds, PTL
        DEF CheckoutSpec, OtpSpec, O!Spec

-----------------------------------------------------------------------------
(* Orders of a cart that was at rest                                       *)

OtpMessages == {O!Idle} \cup O!Request \cup O!Reply

OtpTypes ==
  /\ otpWire \in [OtpSlots -> OtpMessages]
  /\ newproductArray \in Carts /\ OTPforVerification \in O!Codes
  /\ issued \in 0 .. MaxOtps

\* The OTP screen lies over the address screen, and asks for the cart and
\* hears of it only while it is there.
Above ==
  /\ O!Alive => screen = "address"
  /\ \A s \in OtpSlots : otpWire[s].op \in {"list", "items"} => O!Alive

\* While the user is above a cart checked out at rest nothing is on its way
\* that raises it, and what the OTP screen has read of it is paid for.
Paid ==
  /\ Quiet /\ adding = {} /\ Total(cart) <= Balance
  /\ O!Alive => /\ Total(newproductArray) <= Balance
                /\ \A s \in OtpSlots :
                     otpWire[s].op = "items" => Total(otpWire[s].c) <= Balance

RestInv == OtpTypes /\ Above /\ (calm /\ screen = "address" => Paid)

LEMMA OtpMessageTypes ==
  /\ O!Idle \in OtpMessages /\ [op |-> "otp"] \in OtpMessages
  /\ [op |-> "list"] \in OtpMessages /\ [op |-> "late"] \in OtpMessages
  /\ \A c \in Carts : [op |-> "items", c |-> c] \in OtpMessages
  /\ \A n \in O!Codes : [op |-> "code", n |-> n] \in OtpMessages
  /\ \A n \in O!Codes, c \in Carts :
       [op |-> "order", items |-> c, code |-> n, live |-> TRUE] \in OtpMessages
BY DEF OtpMessages, O!Idle, O!Request, O!Reply

LEMMA OtpMessageParts ==
  ASSUME NEW m \in OtpMessages
  PROVE  /\ m.op = "order" =>
              /\ [op |-> "placed", code |-> m.code, live |-> m.live] \in OtpMessages
              /\ [op |-> "refused", code |-> m.code, live |-> m.live] \in OtpMessages
         /\ m.op = "items" => m.c \in Carts
         /\ m.op = "code" => m.n \in O!Codes
         /\ m.op \in {"order", "placed", "refused"} =>
              LET r == [m EXCEPT !.live = FALSE] IN
                r \in OtpMessages /\ r.op = m.op
<1> DEFINE mute == [m EXCEPT !.live = FALSE]
<1>1. CASE m \in [op : {"order"}, items : Carts, code : O!Codes, live : BOOLEAN]
  <2>1. /\ mute \in [op : {"order"}, items : Carts, code : O!Codes, live : BOOLEAN]
        /\ mute.op = m.op
    BY <1>1
  <2> QED BY <1>1, <2>1 DEF OtpMessages, O!Request, O!Reply
<1>2. CASE m \in [op : {"placed", "refused"}, code : O!Codes, live : BOOLEAN]
  <2>1. /\ mute \in [op : {"placed", "refused"}, code : O!Codes, live : BOOLEAN]
        /\ mute.op = m.op
    BY <1>2
  <2> QED BY <1>2, <2>1 DEF OtpMessages, O!Reply
<1>3. CASE \/ m \in {O!Idle, [op |-> "otp"], [op |-> "list"], [op |-> "late"]}
           \/ m \in [op : {"code"}, n : O!Codes]
           \/ m \in [op : {"items"}, c : Carts]
  BY <1>3 DEF O!Idle
<1> QED BY <1>1, <1>2, <1>3 DEF OtpMessages, O!Request, O!Reply

\* The OTP screen and its server leave the screens where they are, and the
\* cart no dearer than it was.
Undisturbed ==
  /\ O!Alive' = O!Alive /\ UNCHANGED <<cartOnly, calm>>
  /\ Total(cart) <= Balance => Total(cart') <= Balance
  /\ OTPforVerification' \in O!Codes /\ issued' \in 0 .. MaxOtps

LEMMA RestQuiet ==
  ASSUME RestInv, Undisturbed, otpWire' = otpWire,
         newproductArray' = newproductArray
  PROVE  RestInv'
BY DEF RestInv, Undisturbed, OtpTypes, Above, Paid, Quiet, cartOnly

\* A message is put into a slot, or one taken out of it.
LEMMA RestSlot ==
  ASSUME RestInv, Undisturbed, NEW s \in OtpSlots, NEW m \in OtpMessages,
         otpWire' = [otpWire EXCEPT ![s] = m], m.op # "list",
         m.op = "items" => otpWire[s].op = "list" /\ m.c = cart,
         \/ newproductArray' = newproductArray
         \/ otpWire[s].op = "items" /\ newproductArray' = otpWire[s].c
  PROVE  RestInv'
<1>1. otpWire \in [OtpSlots -> OtpMessages] BY DEF RestInv, OtpTypes
<1>2. otpWire' \in [OtpSlots -> OtpMessages] BY <1>1
<1>3. \A t \in OtpSlots : otpWire'[t] = IF t = s THEN m ELSE otpWire[t] BY <1>1
<1>4. OtpTypes'
  BY <1>1, <1>2, OtpMessageParts DEF RestInv, Undisturbed, OtpTypes
<1>5. Above'
  BY <1>3 DEF RestInv, Undisturbed, Above, cartOnly
<1>6. ASSUME calm', screen' = "address" PROVE Paid'
  <2>1. Paid BY <1>6 DEF RestInv, Undisturbed, cartOnly
  <2>2. Quiet' /\ adding' = {} /\ Total(cart') <= Balance
    BY <2>1 DEF Paid, Quiet, Undisturbed, cartOnly
  <2>3. ASSUME O!Alive'
        PROVE  /\ Total(newproductArray') <= Balance
               /\ \A t \in OtpSlots :
                    otpWire'[t].op = "items" => Total(otpWire'[t].c) <= Balance
    <3>1. O!Alive BY <2>3 DEF Undisturbed
    <3> QED BY <1>3, <2>1, <3>1 DEF Paid
  <2> QED BY <2>2, <2>3 DEF Paid
<1> QED BY <1>4, <1>5, <1>6 DEF RestInv

\* The OTP screen is left: nothing of what it has read remains.
LEMMA RestReleased ==
  ASSUME RestInv, NEW kept, NEW n, O!Release(kept, n), ~O!Alive',
         UNCHANGED <<newproductArray, OTPforVerification, issued, calm, cart>>,
         screen' \in {screen, "closed"}, screen' = screen => UNCHANGED cartOnly
  PROVE  RestInv'
<1>1. ASSUME NEW s \in OtpSlots
      PROVE  otpWire'[s] \in OtpMessages /\ otpWire'[s].op \notin {"list", "items"}
  <2>1. otpWire[s] \in OtpMessages BY DEF RestInv, OtpTypes
  <2>2. CASE otpWire[s] # O!Idle /\ otpWire[s].op \in {"order", "placed", "refused"}
    <3>1. otpWire'[s] = [otpWire[s] EXCEPT !.live = FALSE]
      BY <2>2 DEF O!Release
    <3> QED BY <2>1, <2>2, <3>1, OtpMessageParts
  <2>3. CASE otpWire[s] = O!Idle
    BY <2>3, OtpMessageTypes DEF O!Release, O!Idle
  <2>4. CASE otpWire[s] # O!Idle /\ otpWire[s].op = "late"
    BY <2>1, <2>4 DEF O!Release
  <2>5. CASE otpWire[s] # O!Idle
             /\ otpWire[s].op \notin {"order", "placed", "refused", "late"}
    <3>1. otpWire'[s] = IF kept THEN O!Idle ELSE [op |-> "late"]
      BY <2>5 DEF O!Release
    <3>2. otpWire'[s] \in {O!Idle, [op |-> "late"]} BY <3>1
    <3> QED BY <3>2, OtpMessageTypes DEF O!Idle
  <2> QED BY <2>2, <2>3, <2>4, <2>5
<1>2. otpWire' = [s \in OtpSlots |-> otpWire'[s]] BY DEF O!Release
<1>3. otpWire' \in [OtpSlots -> OtpMessages] BY <1>1, <1>2
<1> QED BY <1>1, <1>3
        DEF RestInv, OtpTypes, Above, Paid, Quiet, cartOnly

\* After a crash nothing is on its way.
LEMMA RestCrashed ==
  ASSUME RestInv, O!Crash, screen' = "crashed", UNCHANGED calm
  PROVE  RestInv'
<1>1. /\ otpWire' \in [OtpSlots -> OtpMessages]
      /\ \A s \in OtpSlots : otpWire'[s].op = "idle"
  BY DEF O!Crash, OtpMessages, O!Idle
<1>2. ~O!Alive' BY DEF O!Crash, O!Alive
<1> QED BY <1>1, <1>2 DEF O!Crash, O!server, RestInv, OtpTypes, Above

-----------------------------------------------------------------------------
\* The cart screen: at rest below the others it has nothing to do, and the
\* button that puts the address screen over it tests the total.
LEMMA RestCart ==
  ASSUME RestInv, TypeOK, CartStep
  PROVE  RestInv'
<1>1. OtpTypes' BY DEF CartStep, otpOnly, RestInv, OtpTypes
<1>2. O!Alive' = O!Alive /\ otpWire' = otpWire /\ newproductArray' = newproductArray
  BY DEF CartStep, otpOnly, O!Alive
<1>3. Above'
  BY <1>2 DEF RestInv, Above, CartStep, O!Alive
<1>4. ASSUME calm', screen' = "address", screen = "address" PROVE Paid'
  <2>1. Paid /\ screen' = screen BY <1>4 DEF RestInv, CartStep
  <2>2. UNCHANGED <<cart, wire, delayed, adding>>
    BY <1>4, <2>1 DEF CartStep, Local, Paid, Quiet, Idle, OpenCart, BackBTN, CheckoutBTN,
       BackToCart, IncreaseFires, Additions, AddToCart, ServerAdds, AdditionLost,
       Taps, TapPlus, TapMinus, TapRemove, Tappable, Network, ServerSet, ServerList, ChangeConfirmed, ListArrives,
       NoListArrives, Lost, Fetch
  <2> QED BY <1>2, <2>1, <2>2 DEF Paid, Quiet
<1>5. ASSUME calm', screen' = "address", screen # "address" PROVE Paid'
  <2>1. CheckoutBTN
    BY <1>5 DEF CartStep, Local, OpenCart, BackBTN, BackToCart, IncreaseFires,
       Additions, AddToCart, ServerAdds, AdditionLost, Taps, TapPlus, TapMinus,
       TapRemove, Network, ServerSet, ServerList, ChangeConfirmed, ListArrives, NoListArrives, Lost
  <2>2. Settled /\ ~O!Alive
    BY <1>5, <2>1 DEF CartStep, CheckoutBTN, RestInv, Above
  <2> QED BY <1>2, <2>1, <2>2 DEF CheckoutBTN, Settled, Paid, Quiet
<1> QED BY <1>1, <1>3, <1>4, <1>5 DEF RestInv

\* A new OTP screen orders nothing yet.
LEMMA RestOpen ==
  ASSUME RestInv, TypeOK, ProcessBTN
  PROVE  RestInv'
<1>1. otpWire \in [OtpSlots -> OtpMessages] /\ ~O!Alive
  BY DEF RestInv, OtpTypes, ProcessBTN, O!Open, O!Alive
<1>2. \A s \in OtpSlots : otpWire[s].op # "items" BY <1>1 DEF RestInv, Above
<1>3. /\ otpWire' \in [OtpSlots -> OtpMessages]
      /\ \A s \in OtpSlots : otpWire'[s].op # "items"
  <2>1. CASE UNCHANGED otpWire BY <1>1, <1>2, <2>1
  <2>2. ASSUME NEW s \in OtpSlots, NEW t \in OtpSlots,
               otpWire' = [otpWire EXCEPT ![s] = [op |-> "list"], ![t] = [op |-> "otp"]]
        PROVE  /\ otpWire' \in [OtpSlots -> OtpMessages]
               /\ \A u \in OtpSlots : otpWire'[u].op # "items"
    BY <1>1, <1>2, <2>2, OtpMessageTypes
  <2> QED BY <2>1, <2>2 DEF ProcessBTN, O!Open
<1>4. newproductArray' = Empty BY DEF ProcessBTN, O!Open, O!Empty, Empty
<1>5. Empty \in [Products -> 0 .. Balance]
  BY BalanceAssumption DEF Empty
<1>6. OtpTypes'
  BY <1>3, <1>4, <1>5, CompositionAssumption
  DEF ProcessBTN, O!Open, O!server, O!Codes, RestInv, OtpTypes
<1>7. Above' BY DEF ProcessBTN, O!Open, O!Alive, cartOnly, Above
<1>8. Total(cart) <= Balance => Total(Empty) <= Balance
  <2>1. cart \in AllCarts /\ Empty \in AllCarts /\ \A p \in Products : Empty[p] <= cart[p]
    BY DEF TypeOK, AllCarts, Empty
  <2> QED BY <2>1, TotalMonotone, TotalType, BalanceAssumption
<1>9. calm' /\ screen' = "address" => Paid'
  BY <1>3, <1>4, <1>8 DEF ProcessBTN, O!Open, O!server, cartOnly, RestInv, Paid, Quiet
<1> QED BY <1>6, <1>7, <1>9 DEF RestInv

\* An order makes no cart dearer.
LEMMA RestOrder ==
  ASSUME RestInv, TypeOK, TypeOK', OrderArrives
  PROVE  RestInv'
<1>1. PICK s \in OtpSlots : O!ServerTakes(s) BY DEF OrderArrives
<1>2. \A p \in Products : cart'[p] <= cart[p]
  <2>1. OrderTaken BY <1>1, OrderTakes DEF OrderArrives
  <2> QED BY <2>1 DEF OrderTaken, TypeOK, AllCarts
<1>3. Total(cart') <= Total(cart) /\ Total(cart) \in Nat /\ Total(cart') \in Nat
  BY <1>2, TotalMonotone, TotalType DEF TypeOK
<1>4. Undisturbed
  BY <1>1, <1>3, BalanceAssumption
  DEF OrderArrives, O!ServerTakes, O!Alive, Undisturbed, RestInv, OtpTypes
<1>5. otpWire[s].op = "order" /\ otpWire[s] \in OtpMessages
  BY <1>1 DEF O!ServerTakes, RestInv, OtpTypes
<1> DEFINE m == [op |-> "placed", code |-> otpWire[s].code, live |-> otpWire[s].live]
<1>6. m \in OtpMessages BY <1>5, OtpMessageParts
<1> QED BY <1>1, <1>4, <1>6, RestSlot DEF O!ServerTakes

\* The user at the OTP screen, and its timers.
LEMMA RestUser ==
  ASSUME RestInv, O!User \/ O!Second, UNCHANGED <<cart, cartOnly, calm>>
  PROVE  RestInv'
<1>1. CASE O!BackBTN
  <2>1. ~O!Alive' BY <1>1 DEF O!BackBTN, O!Alive
  <2> QED BY <1>1, <2>1, RestReleased DEF O!BackBTN, O!server, cartOnly
<1>2. CASE ~O!BackBTN
  <2>1. /\ Undisturbed /\ newproductArray' = newproductArray
    BY <1>2 DEF O!User, O!ResendOTP, O!PopupOK, O!SubmitOrder, O!SubmitRefused,
       O!Second, O!server, O!Alive, Undisturbed, RestInv, OtpTypes
  <2>2. CASE otpWire' = otpWire BY <2>1, <2>2, RestQuiet
  <2>3. CASE O!ResendOTP
    BY <2>1, <2>3, OtpMessageTypes, RestSlot DEF O!ResendOTP, O!Send
  <2>4. ASSUME NEW text \in O!Texts, O!SubmitOrder(text) PROVE RestInv'
    <3>1. text \in O!Codes /\ newproductArray \in Carts
      BY <2>4 DEF O!SubmitOrder, RestInv, OtpTypes
    <3> DEFINE m == [op |-> "order", items |-> newproductArray, code |-> text,
                     live |-> TRUE]
    <3>2. m \in OtpMessages /\ m.op = "order" BY <3>1, OtpMessageTypes
    <3>3. PICK s \in OtpSlots : otpWire' = [otpWire EXCEPT ![s] = m]
      BY <2>4 DEF O!SubmitOrder, O!Send
    <3> HIDE DEF m
    <3> QED BY <2>1, <3>2, <3>3, RestSlot
  <2> QED BY <1>2, <2>2, <2>3, <2>4 DEF O!User, O!PopupOK, O!SubmitRefused, O!Second
<1> QED BY <1>1, <1>2

\* What arrives, is answered or lost.
LEMMA RestNetwork ==
  ASSUME RestInv, cart \in Carts, NEW s \in OtpSlots, O!Network(s),
         UNCHANGED <<cart, cartOnly, calm>>
  PROVE  RestInv'
<1>1. otpWire[s] \in OtpMessages /\ cart' = cart BY DEF RestInv, OtpTypes
<1>2. O!Alive' = O!Alive /\ UNCHANGED <<cartOnly, calm>>
  BY DEF O!Network, O!ServerOtp, O!ServerList, O!ServerRefuses, O!Lost,
     O!OtpArrives, O!ItemsArrive, O!OrderPlaced, O!OrderRefused, O!Alive
<1>3. issued' \in 0 .. MaxOtps
  BY CompositionAssumption DEF O!Network, O!ServerOtp, O!ServerList, O!ServerRefuses,
     O!Lost, O!OtpArrives, O!ItemsArrive, O!OrderPlaced, O!OrderRefused, O!server,
     RestInv, OtpTypes
<1>4. OTPforVerification' \in O!Codes
  BY <1>1, OtpMessageParts DEF O!Network, O!ServerOtp, O!ServerList,
     O!ServerRefuses, O!Lost, O!OtpArrives, O!ItemsArrive, O!OrderPlaced,
     O!OrderRefused, RestInv, OtpTypes
<1>5. Undisturbed BY <1>1, <1>2, <1>3, <1>4 DEF Undisturbed
<1>6. CASE O!ServerOtp(s)
  <2>1. issued' \in O!Codes BY <1>3 DEF O!Codes
  <2> DEFINE m == [op |-> "code", n |-> issued']
  <2>2. m \in OtpMessages /\ m.op = "code" BY <2>1, OtpMessageTypes
  <2>3. otpWire' = [otpWire EXCEPT ![s] = m] /\ newproductArray' = newproductArray
    BY <1>6 DEF O!ServerOtp
  <2> HIDE DEF m
  <2> QED BY <1>5, <2>2, <2>3, RestSlot
<1>7. CASE O!ServerList(s)
  <2> DEFINE m == [op |-> "items", c |-> cart]
  <2>1. m \in OtpMessages /\ m.c = cart BY OtpMessageTypes
  <2> QED BY <1>5, <1>7, <2>1, RestSlot DEF O!ServerList
<1>8. CASE O!ServerRefuses(s)
  <2> DEFINE m == [op |-> "refused", code |-> otpWire[s].code, live |-> otpWire[s].live]
  <2>1. m \in OtpMessages BY <1>1, <1>8, OtpMessageParts DEF O!ServerRefuses
  <2> QED BY <1>5, <1>8, <2>1, RestSlot DEF O!ServerRefuses
<1>9. CASE \/ O!Lost(s) \/ O!OtpArrives(s) \/ O!ItemsArrive(s)
           \/ O!OrderPlaced(s) \/ O!OrderRefused(s)
  <2>1. otpWire' = [otpWire EXCEPT ![s] = O!Idle]
    BY <1>9 DEF O!Lost, O!OtpArrives, O!ItemsArrive, O!OrderPlaced, O!OrderRefused
  <2>2. \/ newproductArray' = newproductArray
        \/ otpWire[s].op = "items" /\ newproductArray' = otpWire[s].c
    BY <1>9 DEF O!Lost, O!OtpArrives, O!ItemsArrive, O!OrderPlaced, O!OrderRefused
  <2>3. O!Idle \in OtpMessages /\ O!Idle.op = "idle"
    BY OtpMessageTypes DEF O!Idle
  <2> QED BY <1>5, <2>1, <2>2, <2>3, RestSlot
<1> QED BY <1>6, <1>7, <1>8, <1>9 DEF O!Network

LEMMA RestStep ==
  RestInv /\ CartInv /\ CartInv' /\ [CheckoutNext]_allVars => RestInv'
<1> SUFFICES ASSUME RestInv, CartInv, CartInv', [CheckoutNext]_allVars PROVE RestInv'
  OBVIOUS
<1>0. TypeOK /\ TypeOK' BY DEF CartInv, BalanceInv
<1>1. CASE CartStep BY <1>0, <1>1, RestCart
<1>2. CASE ProcessBTN BY <1>0, <1>2, RestOpen
<1>3. CASE OtpStep BY <1>3, RestUser, RestNetwork DEF CartInv, OtpStep, O!Local
<1>4. CASE OrderArrives BY <1>0, <1>4, RestOrder
<1>5. CASE BackToRoot
  <2>1. ~O!Alive' /\ screen' = "closed" /\ screen = "address"
    BY <1>5 DEF BackToRoot, O!LeaveSuccess, O!Alive, PopToRoot
  <2> QED BY <1>5, <2>1, RestReleased DEF BackToRoot, O!LeaveSuccess, O!server
<1>6. CASE CrashAll
  <2>1. screen' = "crashed" /\ O!Crash /\ UNCHANGED calm
    BY <1>6 DEF CrashAll, Crashes, IncreaseCrashes, EmptyListCrashes, CrashElsewhere,
       Crash, O!Crashes, O!StrayTick, O!LateReply, O!CrashElsewhere
  <2> QED BY <2>1, RestCrashed
<1>7. CASE RelaunchAll
  BY <1>7 DEF RelaunchAll, Relaunch, O!Relaunch, O!server, O!Alive, RestInv, OtpTypes,
     Above
<1>8. CASE UNCHANGED allVars
  BY <1>8 DEF allVars, cartOnly, otpOnly, RestInv, OtpTypes, Above, Paid, Quiet, O!Alive
<1> QED BY <1>1, <1>2, <1>3, <1>4, <1>5, <1>6, <1>7, <1>8 DEF CheckoutNext

LEMMA RestInit == CheckoutInit => RestInv
<1> SUFFICES ASSUME CheckoutInit PROVE RestInv
  OBVIOUS
<1>1. O!Empty \in Carts
  BY BalanceAssumption, CompositionAssumption DEF O!Empty
<1>2. OtpTypes
  BY <1>1, OtpMessageTypes, CompositionAssumption
  DEF CheckoutInit, O!Init, OtpTypes, O!Codes
<1> QED BY <1>2 DEF CheckoutInit, O!Init, O!Alive, O!Idle, RestInv, Above

\* Only submitBTN sends an order, of the products it has read.
LEMMA OrderedPaid ==
  ASSUME RestInv, CheckoutNext, NEW items \in Carts, Ordered(items), calm
  PROVE  Total(items) <= Balance
<1>1. PICK s \in OtpSlots : /\ otpWire[s] = O!Idle /\ otpWire'[s].op = "order"
                            /\ otpWire'[s].items = items
  BY DEF Ordered
<1>2. otpWire \in [OtpSlots -> OtpMessages] BY DEF RestInv, OtpTypes
<1>3. ASSUME NEW text \in O!Texts, O!SubmitOrder(text)
      PROVE  Total(items) <= Balance
  <2>1. items = newproductArray
    BY <1>1, <1>2, <1>3 DEF O!SubmitOrder, O!Send, O!Idle
  <2>2. O!Alive BY <1>3 DEF O!SubmitOrder, O!Alive
  <2> QED BY <2>1, <2>2 DEF RestInv, Above, Paid
<1>4. otpWire'[s] # O!Idle BY <1>1 DEF O!Idle
<1>5. CASE CartStep \/ RelaunchAll
  BY <1>1, <1>4, <1>5 DEF CartStep, otpOnly, RelaunchAll, O!Relaunch
<1>6. CASE ProcessBTN
  <2>1. UNCHANGED otpWire \/ \E u, t \in OtpSlots :
          otpWire' = [otpWire EXCEPT ![u] = [op |-> "list"], ![t] = [op |-> "otp"]]
    BY <1>6 DEF ProcessBTN, O!Open
  <2> QED BY <1>1, <1>2, <2>1 DEF O!Idle
<1>7. CASE BackToRoot \/ O!BackBTN
  <2>1. PICK kept, n : O!Release(kept, n)
    BY <1>7 DEF BackToRoot, O!LeaveSuccess, O!BackBTN
  <2>2. otpWire'[s] = O!Idle BY <1>1, <2>1 DEF O!Release, O!Idle
  <2> QED BY <1>4, <2>2
<1>8. CASE CrashAll
  BY <1>4, <1>8 DEF CrashAll, O!Crashes, O!StrayTick, O!LateReply, O!CrashElsewhere,
     O!Crash
<1>9. ASSUME NEW t \in OtpSlots, O!Network(t) \/ O!ServerTakes(t)
      PROVE  otpWire'[s].op # "order"
  BY <1>1, <1>2, <1>9
  DEF O!Network, O!ServerOtp, O!ServerList, O!ServerTakes, O!ServerRefuses, O!Lost,
      O!OtpArrives, O!ItemsArrive, O!OrderPlaced, O!OrderRefused, O!Idle
<1>10. CASE O!ResendOTP BY <1>1, <1>2, <1>10 DEF O!ResendOTP, O!Send, O!Idle
<1>11. CASE O!PopupOK \/ O!Second \/ \E text \in O!Texts : O!SubmitRefused(text)
  BY <1>1, <1>4, <1>11 DEF O!PopupOK, O!Second, O!SubmitRefused
<1> QED BY <1>1, <1>3, <1>5, <1>6, <1>7, <1>8, <1>9, <1>10, <1>11
        DEF CheckoutNext, OtpStep, OrderArrives, O!Local, O!User

\* The checkout button's test of the balance holds when the order leaves: a
\* cart checked out at rest only loses products until then, and what the OTP
\* screen has read of it is no dearer (checkoutBTN, submitBTN).
THEOREM SettledIsPaid == CheckoutSpec => SettledOrderWithinBalance
<1>1. RestInv /\ [CheckoutNext]_allVars =>
        [\A items \in Carts :
           Ordered(items) /\ calm => Total(items) <= Balance]_allVars
  BY OrderedPaid
<1> QED BY <1>1, RestInit, RestStep, CartInvHolds, PTL
        DEF CheckoutSpec, SettledOrderWithinBalance

-----------------------------------------------------------------------------
(* Types                                                                   *)

\* What OtpTypes leaves of the types of the OTP screen; the field holds a
\* timer of the view model only if one runs.
Clocked ==
  /\ otpScreen \in {"away", "otp", "success", "crashed"}
  /\ popup \in {"none", "otp", "failed"}
  /\ count \in 1 .. Countdown /\ elapsed \in 0 .. Countdown
  /\ resend \in BOOLEAN /\ first \in BOOLEAN /\ doomed \in BOOLEAN
  /\ others \in Nat /\ timer \in {"none", "first", "other"}
  /\ timer = "other" => others > 0
  /\ since \in 0 .. issued
  /\ placed \in [O!Codes -> Nat] /\ told \in [O!Codes -> Nat]

TypeInv == RestInv /\ Clocked /\ calm \in BOOLEAN

LEMMA TypeInvTypes == CartInv /\ TypeInv => CheckoutTypeOK
BY DEF CartInv, BalanceInv, TypeInv, RestInv, OtpTypes, OtpMessages, Clocked,
   CheckoutTypeOK, O!TypeOK

LEMMA ClockRange == Countdown \in 1 .. Countdown /\ 0 \in 0 .. Countdown
BY CompositionAssumption

LEMMA ClockedStop ==
  ASSUME Clocked
  PROVE  O!FirstAfter \in BOOLEAN /\ O!OthersAfter \in Nat
BY DEF Clocked, O!FirstAfter, O!OthersAfter

LEMMA ClockedUser ==
  ASSUME Clocked, O!User \/ O!Second \/ O!LeaveSuccess
  PROVE  Clocked'
<1>1. O!FirstAfter \in BOOLEAN /\ O!OthersAfter \in Nat BY ClockedStop
<1>2. CASE O!BackBTN \/ O!LeaveSuccess
  <2>1. PICK kept, n : O!Release(kept, n)
    BY <1>2 DEF O!BackBTN, O!LeaveSuccess
  <2>2. /\ doomed' \in BOOLEAN /\ first' = FALSE /\ others' = 0 /\ timer' = "none"
        /\ UNCHANGED <<count, resend, elapsed>>
    BY <2>1 DEF O!Release, Clocked
  <2>3. otpScreen' = "away"
        /\ UNCHANGED <<popup, since, issued, placed, told>>
    BY <1>2 DEF O!BackBTN, O!LeaveSuccess, O!server
  <2> QED BY <2>2, <2>3 DEF Clocked
<1>3. CASE O!ResendOTP \/ O!PopupOK
           \/ \E text \in O!Texts : O!SubmitOrder(text) \/ O!SubmitRefused(text)
  BY <1>3 DEF O!ResendOTP, O!PopupOK, O!SubmitOrder, O!SubmitRefused, O!server,
     O!clock, Clocked
<1>4. CASE O!Second
  <2>1. O!Ticks \in Nat \ {0} BY <1>4 DEF O!Second, O!Ticks, Clocked
  <2>2. count' \in 1 .. Countdown /\ elapsed' \in 0 .. Countdown
    BY <1>4, <2>1, CompositionAssumption DEF O!Second, Clocked
  <2>3. /\ first' \in BOOLEAN /\ others' \in Nat /\ resend' \in BOOLEAN
        /\ timer' \in {"none", "first", "other"} /\ (timer' = "other" => others' > 0)
    BY <1>1, <1>4 DEF O!Second, Clocked
  <2> QED BY <1>4, <2>2, <2>3 DEF O!Second, O!server, Clocked
<1> QED BY <1>2, <1>3, <1>4 DEF O!User

LEMMA ClockedNetwork ==
  ASSUME Clocked, RestInv, NEW s \in OtpSlots, O!Network(s) \/ O!ServerTakes(s)
  PROVE  Clocked'
<1>1. otpWire[s] \in OtpMessages /\ issued \in Nat
  BY CompositionAssumption DEF RestInv, OtpTypes
<1>2. otpWire[s].op \in {"order", "placed", "refused"} => otpWire[s].code \in O!Codes
  BY <1>1 DEF OtpMessages, O!Idle, O!Request, O!Reply
<1>3. CASE O!ServerOtp(s) BY <1>1, <1>3 DEF O!ServerOtp, O!clock, Clocked
<1>4. CASE O!ServerList(s) \/ O!ServerRefuses(s) \/ O!Lost(s) \/ O!OrderRefused(s)
           \/ O!ItemsArrive(s)
  BY <1>4 DEF O!ServerList, O!ServerRefuses, O!Lost, O!OrderRefused, O!ItemsArrive,
     O!server, O!clock, Clocked
<1>5. CASE O!OtpArrives(s)
  <2>1. /\ resend' = FALSE /\ count' = Countdown /\ elapsed' = 0
        /\ others' = others + 1 /\ timer' = "other"
        /\ UNCHANGED <<issued, placed, otpScreen, first, popup, doomed, since, told>>
    BY <1>5 DEF O!OtpArrives, O!server
  <2>2. others \in Nat /\ others' \in Nat /\ others' > 0 BY <2>1 DEF Clocked
  <2>3. count' \in 1 .. Countdown /\ elapsed' \in 0 .. Countdown
    BY <2>1, ClockRange
  <2>4. /\ otpScreen' \in {"away", "otp", "success", "crashed"}
        /\ popup' \in {"none", "otp", "failed"}
        /\ first' \in BOOLEAN /\ doomed' \in BOOLEAN
        /\ since' \in 0 .. issued'
        /\ placed' \in [O!Codes -> Nat] /\ told' \in [O!Codes -> Nat]
    BY <2>1 DEF Clocked
  <2> QED BY <2>1, <2>2, <2>3, <2>4 DEF Clocked
<1>6. CASE O!OrderPlaced(s)
  <2>1. told' \in [O!Codes -> Nat] BY <1>2, <1>6 DEF O!OrderPlaced, Clocked
  <2> QED BY <1>6, <2>1 DEF O!OrderPlaced, O!server, O!clock, Clocked
<1>7. CASE O!ServerTakes(s)
  <2>1. placed' \in [O!Codes -> Nat] BY <1>2, <1>7 DEF O!ServerTakes, Clocked
  <2> QED BY <1>7, <2>1 DEF O!ServerTakes, O!clock, Clocked
<1> QED BY <1>3, <1>4, <1>5, <1>6, <1>7 DEF O!Network

LEMMA ClockedStep ==
  ASSUME RestInv, Clocked, CheckoutNext
  PROVE  Clocked'
<1>1. CASE CartStep BY <1>1 DEF CartStep, otpOnly, Clocked
<1>2. CASE ProcessBTN
  <2>1. issued \in Nat BY CompositionAssumption DEF RestInv, OtpTypes
  <2>2. first' \in BOOLEAN /\ timer' \in {"none", "first", "other"}
        /\ (timer' = "other" => others' > 0)
    BY <1>2 DEF ProcessBTN, O!Open, Clocked
  <2> QED BY <1>2, <2>1, <2>2, ClockRange DEF ProcessBTN, O!Open, O!server, Clocked
<1>3. CASE CrashAll
  <2>1. O!Crash
    BY <1>3 DEF CrashAll, O!Crashes, O!StrayTick, O!LateReply, O!CrashElsewhere
  <2> QED BY <2>1 DEF O!Crash, O!server, Clocked
<1>4. CASE RelaunchAll
  BY <1>4 DEF RelaunchAll, O!Relaunch, O!server, O!clock, Clocked
<1> QED BY <1>1, <1>2, <1>3, <1>4, ClockedUser, ClockedNetwork
        DEF CheckoutNext, OtpStep, OrderArrives, BackToRoot, O!Local

LEMMA TypeInvStep ==
  TypeInv /\ CartInv /\ CartInv' /\ [CheckoutNext]_allVars => TypeInv'
<1> SUFFICES ASSUME TypeInv, CartInv, CartInv', [CheckoutNext]_allVars PROVE TypeInv'
  OBVIOUS
<1>1. RestInv' BY RestStep DEF TypeInv
<1>2. Clocked'
  BY ClockedStep DEF TypeInv, allVars, otpOnly, Clocked
<1>3. calm' \in BOOLEAN
  <2>1. Settled \in BOOLEAN BY DEF Settled
  <2> QED BY <2>1 DEF TypeInv, CheckoutNext, CartStep, ProcessBTN, OtpStep,
          OrderArrives, BackToRoot, CrashAll, RelaunchAll, allVars
<1> QED BY <1>1, <1>2, <1>3 DEF TypeInv

\* Every variable of the three screens keeps its type: the carts that the OTP
\* screen reads and orders are among those the balance pays for, product by
\* product.
THEOREM CheckoutTypes == CheckoutSpec => []CheckoutTypeOK
<1>1. ASSUME CheckoutInit PROVE TypeInv
  <2>1. placed \in [O!Codes -> Nat] /\ told \in [O!Codes -> Nat]
    BY <1>1 DEF CheckoutInit, O!Init
  <2>2. since \in 0 .. issued BY <1>1 DEF CheckoutInit, O!Init
  <2>3. /\ otpScreen = "away" /\ count = Countdown /\ resend = TRUE
        /\ first = FALSE /\ others = 0 /\ timer = "none" /\ elapsed = 0
        /\ popup = "none" /\ doomed = FALSE /\ calm = FALSE
    BY <1>1 DEF CheckoutInit, O!Init
  <2> QED BY <1>1, <2>1, <2>2, <2>3, RestInit, ClockRange DEF TypeInv, Clocked
<1> QED BY <1>1, TypeInvStep, TypeInvTypes, CartInvHolds, PTL DEF CheckoutSpec

-----------------------------------------------------------------------------
(* What the screens promise alone they promise together                    *)

\* The theorems about the OTP screen, over the composition's variables.
P == INSTANCE RedemptionOTP_proofs WITH screen <- otpScreen, wire <- otpWire,
                                        Slots <- OtpSlots

\* What those theorems assume of the constants holds in the composition.
LEMMA OtpBounds == MaxOtps \in Nat /\ MaxOrders \in Nat /\ Failures \in BOOLEAN
BY CompositionAssumption, BoundsAssumption

LEMMA OtpCountdown == Countdown \in Nat \ {0}
BY CompositionAssumption

LEMMA OtpSlotsFinite == P!IsFiniteSet(OtpSlots)
BY CompositionAssumption DEF P!IsFiniteSet, IsFiniteSet

LEMMA OtpCarts ==
  /\ Carts \subseteq [Products -> Nat] /\ P!Empty \in Carts
  /\ \A c, d \in Carts : P!Without(c, d) \in Carts
<1>1. P!Empty \in [Products -> 0 .. Balance] BY BalanceAssumption DEF P!Empty
<1>2. \A c, d \in Carts : P!Without(c, d) \in Carts
  BY CompositionAssumption DEF P!Without, O!Without
<1>3. Carts \subseteq [Products -> Nat] BY CompositionAssumption DEF AllCarts
<1> QED BY <1>1, <1>2, <1>3, CompositionAssumption

\* The two instances have the same definitions.
LEMMA SameOtpScreen ==
  /\ O!Init => P!Init
  /\ [O!Next]_(O!vars) => [P!Next]_(P!vars)
<1>1. UNCHANGED O!vars <=> UNCHANGED P!vars
  BY DEF O!vars, P!vars, O!server, P!server, O!clock, P!clock
<1>2. (O!Init <=> P!Init) /\ (O!Next <=> P!Next)
  BY DEF O!Empty, P!Empty, O!Without, P!Without, O!clock, P!clock, O!server,
      P!server, O!vars, P!vars, O!Codes, P!Codes, O!Idle, P!Idle, O!Init,
      P!Init, O!Alive, P!Alive, O!Waiting, P!Waiting, O!OtpLeft, P!OtpLeft,
      O!Send, P!Send, O!FirstAfter, P!FirstAfter, O!OthersAfter, P!OthersAfter,
      O!Release, P!Release, O!Crash, P!Crash, O!Open, P!Open, O!BackBTN,
      P!BackBTN, O!LeaveSuccess, P!LeaveSuccess, O!Relaunch, P!Relaunch,
      O!ResendOTP, P!ResendOTP, O!PopupOK, P!PopupOK, O!Texts, P!Texts,
      O!SubmitOrder, P!SubmitOrder, O!SubmitRefused, P!SubmitRefused, O!Ticks,
      P!Ticks, O!Second, P!Second, O!StrayTick, P!StrayTick, O!ServerOtp,
      P!ServerOtp, O!ServerList, P!ServerList, O!Holds, P!Holds, O!ServerTakes,
      P!ServerTakes, O!ServerRefuses, P!ServerRefuses, O!CartChanges,
      P!CartChanges, O!CrashElsewhere, P!CrashElsewhere, O!Lost, P!Lost,
      O!OtpArrives, P!OtpArrives, O!ItemsArrive, P!ItemsArrive, O!LateReply,
      P!LateReply, O!OrderPlaced, P!OrderPlaced, O!OrderRefused, P!OrderRefused,
      O!User, P!User, O!Network, P!Network, O!Local, P!Local, O!Crashes,
      P!Crashes, O!Next, P!Next, O!Cardinality, P!Cardinality
<1> QED BY <1>1, <1>2

LEMMA OtpBehaviour == CheckoutSpec => P!Spec
BY CheckoutImplementsOtp, SameOtpScreen, PTL DEF OtpSpec, O!Spec, P!Spec

\* Whatever the cart screen and late orders do to the shared cart, no success
\* is shown without an order of its own, the countdown is that of the visit's
\* timers and the hidden button comes back (HR_RedemptionOTP_VC).
THEOREM OtpPromisesHold ==
  CheckoutSpec => [](O!SuccessMeansPlaced /\ O!CountdownShared /\ O!HiddenIsTimed)
<1>1. P!SuccessMeansPlaced => O!SuccessMeansPlaced
  BY DEF P!SuccessMeansPlaced, O!SuccessMeansPlaced, P!Codes, O!Codes
<1>2. P!CountdownShared => O!CountdownShared
  BY DEF P!CountdownShared, O!CountdownShared, P!Alive, O!Alive
<1>3. P!HiddenIsTimed => O!HiddenIsTimed
  BY DEF P!HiddenIsTimed, O!HiddenIsTimed, P!Alive, O!Alive, P!Ticks, O!Ticks
<1>4. P!Spec => []P!SuccessMeansPlaced
  BY P!SuccessesArePlaced, OtpBounds, OtpCountdown, OtpSlotsFinite, OtpCarts
<1>5. P!Spec => []P!CountdownShared
  BY P!CountdownIsShared, OtpBounds, OtpCountdown, OtpSlotsFinite, OtpCarts
<1>6. P!Spec => []P!HiddenIsTimed
  BY P!HiddenButtonsAreTimed, OtpBounds, OtpCountdown, OtpSlotsFinite, OtpCarts
<1> QED BY <1>1, <1>2, <1>3, <1>4, <1>5, <1>6, OtpBehaviour, PTL

\* And every order that leaves carries a password of its visit; passwords,
\* orders and successes are entries of the ledger.
THEOREM OtpOrdersHold == CheckoutSpec => O!OrderAuthorised /\ O!OrdersKept
<1>1. ASSUME [\A s \in OtpSlots :
                otpWire'[s].op = "order" /\ otpWire[s] = P!Idle
                  => otpWire'[s].code \in since + 1 .. issued]_(P!vars)
      PROVE  [\A s \in OtpSlots :
                otpWire'[s].op = "order" /\ otpWire[s] = O!Idle
                  => otpWire'[s].code \in since + 1 .. issued]_(O!vars)
  BY <1>1 DEF O!vars, P!vars, O!server, P!server, O!clock, P!clock, O!Idle, P!Idle
<1>2. P!Spec => P!OrderAuthorised
  BY P!OnlyAuthorised, OtpBounds, OtpCountdown, OtpSlotsFinite, OtpCarts
<1>3. P!Spec => P!OrdersKept
  BY P!ImplementsLedger, OtpBounds, OtpCountdown, OtpSlotsFinite, OtpCarts
<1>4. P!Ledger!Init => O!Ledger!Init
  BY DEF P!Ledger!Init, O!Ledger!Init, P!Ledger!Numbers, O!Ledger!Numbers
<1>5. [P!Ledger!Next]_(P!Ledger!ledger) => [O!Ledger!Next]_(O!Ledger!ledger)
  BY DEF P!Ledger!Next, O!Ledger!Next, P!Ledger!ledger, O!Ledger!ledger,
     P!Ledger!Issue, O!Ledger!Issue, P!Ledger!Place, O!Ledger!Place,
     P!Ledger!Announce, O!Ledger!Announce
<1>6. P!OrderAuthorised => O!OrderAuthorised
  BY <1>1, PTL DEF P!OrderAuthorised, O!OrderAuthorised
<1>7. P!OrdersKept => O!OrdersKept
  BY <1>4, <1>5, PTL DEF P!OrdersKept, O!OrdersKept, P!Ledger!Spec, O!Ledger!Spec
<1> QED BY <1>2, <1>3, <1>6, <1>7, OtpBehaviour, PTL
=============================================================================
