------------------------ MODULE RedemptionOTP_proofs ------------------------
(***************************************************************************)
(* Type correctness of the OTP screen, and that no order is sent without   *)
(* an OTP of the visit that sends it, and no success shown without an order*)
(* taken, for any number of requests on their way, OTPs, visits and losses.*)
(* And the timers of a visit, however many, count no faster than together. *)
(***************************************************************************)
EXTENDS RedemptionOTP, TLAPS, FiniteSetTheorems

\* The OTPs of this visit.
Valid == since + 1 .. issued

\* The strengthening.  Requests for an OTP and OTPs on their way belong to
\* the open visit (those of a screen that was left are "late" or forgotten),
\* and the field holds a timer of the view model only if one runs.
Fresh ==
  /\ OTPforVerification # 0 => OTPforVerification \in Valid
  /\ \A s \in Slots : wire[s].op \in {"otp", "code"} => Alive
  /\ \A s \in Slots : wire[s].op = "code" => wire[s].n \in Valid
  /\ timer = "other" => others > 0

Inv == TypeOK /\ Fresh

Messages == {Idle} \cup Request \cup Reply

LEMMA InitInv == Init => Inv
<1> SUFFICES ASSUME Init PROVE Inv
  OBVIOUS
<1>1. wire \in [Slots -> {Idle} \cup Request \cup Reply]
  BY DEF Init
<1>2. placed \in [Codes -> Nat] /\ told \in [Codes -> Nat]
  BY DEF Init
<1>3. TypeOK
  <2>1. 0 \in Codes BY BoundsAssumption DEF Codes
  <2>2. count \in 1 .. Countdown /\ elapsed \in 0 .. Countdown
    BY CountdownAssumption DEF Init
  <2>3. issued \in 0 .. MaxOtps /\ since \in 0 .. issued
    BY BoundsAssumption DEF Init
  <2> QED BY <1>1, <1>2, <2>1, <2>2, <2>3, CartsAssumption DEF Init, TypeOK
<1>4. Fresh
  BY DEF Init, Fresh, Idle
<1> QED BY <1>3, <1>4 DEF Inv

\* The number of requests on their way does not matter: an action that
\* changes neither the wire nor the clock nor an OTP keeps the invariant.
LEMMA QuietStep ==
  ASSUME Inv, UNCHANGED <<issued, since, OTPforVerification, clock, wire, told>>,
         Alive' = Alive, placed' = placed, cart' \in Carts,
         newproductArray' \in Carts, doomed' \in BOOLEAN,
         screen' \in {"away", "otp", "success", "crashed"},
         popup' \in {"none", "otp", "failed"}
  PROVE  Inv'
BY DEF Inv, TypeOK, Fresh, Valid, clock, Codes

\* Stopping the field's timer keeps the timers well formed.
LEMMA StopTimer ==
  ASSUME Inv
  PROVE  FirstAfter \in BOOLEAN /\ OthersAfter \in Nat
BY DEF Inv, TypeOK, Fresh, FirstAfter, OthersAfter

\* Popping the screen leaves nothing on the wire that names an OTP to come.
LEMMA ReleaseInv ==
  ASSUME Inv, NEW kept \in BOOLEAN, NEW n \in Nat, Release(kept, n),
         screen' = "away", popup' = popup,
         UNCHANGED <<server, OTPforVerification, newproductArray, since, told>>
  PROVE  Inv'
<1>1. ASSUME NEW s \in Slots
      PROVE  wire'[s] \in Messages /\ wire'[s].op \notin {"otp", "code"}
  <2>1. wire[s] \in Messages BY DEF Inv, TypeOK, Messages
  <2>2. CASE wire[s] = Idle
    BY <2>2 DEF Release, Messages, Idle
  <2>3. CASE wire[s] # Idle /\ wire[s].op \in {"order", "placed", "refused"}
    <3>1. wire'[s] = [wire[s] EXCEPT !.live = FALSE]
      BY <2>3 DEF Release
    <3>2. wire'[s] \in Request \cup Reply
      BY <2>1, <2>3, <3>1 DEF Messages, Request, Reply, Idle
    <3>3. wire'[s].op = wire[s].op
      BY <2>1, <2>3, <3>1 DEF Messages, Request, Reply, Idle
    <3> QED BY <2>3, <3>2, <3>3 DEF Messages
  <2>4. CASE wire[s].op = "late"
    BY <2>1, <2>4 DEF Release, Messages, Idle
  <2>5. CASE wire[s] # Idle /\ wire[s].op \notin {"order", "placed", "refused", "late"}
    BY <2>5 DEF Release, Messages, Idle, Reply
  <2> QED BY <2>2, <2>3, <2>4, <2>5
<1>2. wire' \in [Slots -> Messages]
  <2>1. wire' = [s \in Slots |-> wire'[s]] BY DEF Release
  <2> QED BY <1>1, <2>1
<1>3. doomed' \in BOOLEAN BY DEF Release, Inv, TypeOK
<1> QED BY <1>1, <1>2, <1>3
        DEF Release, Inv, TypeOK, Fresh, Valid, Messages, server, Codes

\* After a crash nothing is on its way.
LEMMA CrashInv == ASSUME Inv, Crash PROVE Inv'
<1>1. wire' \in [Slots -> Messages] /\ \A s \in Slots : wire'[s].op = "idle"
  BY DEF Crash, Messages, Idle
<1> QED BY <1>1 DEF Crash, Inv, TypeOK, Fresh, Valid, Messages, server, Codes

\* One message put into a slot; everything the wire is tested for is about
\* that message.
LEMMA SlotInv ==
  ASSUME Inv, NEW s \in Slots, NEW m \in Messages,
         wire' = [wire EXCEPT ![s] = m],
         m.op \in {"otp", "code"} => Alive,
         m.op = "code" => m.n \in since + 1 .. issued',
         issued' \in issued .. MaxOtps, since' = since, Alive' = Alive
  PROVE  /\ wire' \in [Slots -> Messages]
         /\ \A t \in Slots : wire'[t].op \in {"otp", "code"} => Alive'
         /\ \A t \in Slots : wire'[t].op = "code" => wire'[t].n \in Valid'
<1>1. wire \in [Slots -> Messages] BY DEF Inv, TypeOK, Messages
<1>2. issued \in Nat /\ since \in Nat BY BoundsAssumption DEF Inv, TypeOK
<1>3. ASSUME NEW t \in Slots
      PROVE  /\ wire'[t] \in Messages
             /\ wire'[t].op \in {"otp", "code"} => Alive'
             /\ wire'[t].op = "code" => wire'[t].n \in Valid'
  <2>1. CASE t = s BY <1>1, <2>1 DEF Valid
  <2>2. CASE t # s
    <3>1. wire'[t] = wire[t] BY <1>1, <2>2
    <3>2. wire[t].op = "code" => wire[t].n \in since + 1 .. issued
      BY DEF Inv, Fresh, Valid
    <3> QED BY <1>1, <1>2, <3>1, <3>2 DEF Inv, Fresh, Valid
  <2> QED BY <2>1, <2>2
<1> QED BY <1>1, <1>3
\* What SlotInv leaves to show of an action that fills or empties a slot.
LEMMA SlotStep ==
  ASSUME Inv, NEW s \in Slots, NEW m \in Messages,
         wire' = [wire EXCEPT ![s] = m],
         m.op \in {"otp", "code"} => Alive,
         m.op = "code" => m.n \in since + 1 .. issued',
         issued' \in issued .. MaxOtps, since' = since, Alive' = Alive,
         OTPforVerification' \in {OTPforVerification} \cup (Valid \cap Codes),
         TypeOK /\ timer' = "other" => others' > 0,
         cart' \in Carts, newproductArray' \in Carts,
         screen' \in {"away", "otp", "success", "crashed"},
         count' \in 1 .. Countdown, elapsed' \in 0 .. Countdown,
         resend' \in BOOLEAN, first' \in BOOLEAN, doomed' \in BOOLEAN,
         others' \in Nat, timer' \in {"none", "first", "other"},
         popup' \in {"none", "otp", "failed"},
         placed' \in [Codes -> Nat], told' \in [Codes -> Nat]
  PROVE  Inv'
<1>1. /\ wire' \in [Slots -> Messages]
      /\ \A t \in Slots : wire'[t].op \in {"otp", "code"} => Alive'
      /\ \A t \in Slots : wire'[t].op = "code" => wire'[t].n \in Valid'
  BY SlotInv
<1>2. issued \in Nat /\ since \in Nat /\ since <= issued
  BY BoundsAssumption DEF Inv, TypeOK
<1>3. OTPforVerification' # 0 => OTPforVerification' \in Valid'
  BY <1>2 DEF Inv, Fresh, Valid
<1>4. OTPforVerification' \in Codes
  BY DEF Inv, TypeOK
<1>5. issued' \in 0 .. MaxOtps /\ since' \in 0 .. issued'
  BY <1>2
<1> QED BY <1>1, <1>3, <1>4, <1>5 DEF Inv, TypeOK, Fresh, Messages
\* The common case: no OTP is sent or taken in, and the clock goes on.
LEMMA SlotQuiet ==
  ASSUME Inv, NEW s \in Slots, NEW m \in Messages,
         wire' = [wire EXCEPT ![s] = m], m.op # "code", m.op = "otp" => Alive,
         UNCHANGED <<issued, since, OTPforVerification, clock, doomed>>,
         Alive' = Alive, cart' \in Carts, newproductArray' \in Carts,
         screen' \in {"away", "otp", "success", "crashed"},
         popup' \in {"none", "otp", "failed"},
         placed' \in [Codes -> Nat], told' \in [Codes -> Nat]
  PROVE  Inv'
<1>1. issued' \in issued .. MaxOtps
  BY BoundsAssumption DEF Inv, TypeOK
<1>2. TypeOK BY DEF Inv
<1> QED BY <1>1, <1>2, SlotStep DEF TypeOK, Inv, Fresh, clock

-----------------------------------------------------------------------------
\* The messages an action puts on the wire are messages.
LEMMA MessageTypes ==
  ASSUME Inv, NEW s \in Slots
  PROVE  /\ Idle \in Messages /\ [op |-> "otp"] \in Messages
         /\ [op |-> "list"] \in Messages
         /\ \A c \in Carts : [op |-> "items", c |-> c] \in Messages
         /\ \A n \in Codes : [op |-> "code", n |-> n] \in Messages
         /\ \A n \in Codes, c \in Carts :
              [op |-> "order", items |-> c, code |-> n, live |-> TRUE] \in Messages
         /\ wire[s].op = "order" =>
              /\ wire[s].items \in Carts /\ wire[s].code \in Codes
              /\ [op |-> "placed", code |-> wire[s].code, live |-> wire[s].live]
                   \in Messages
              /\ [op |-> "refused", code |-> wire[s].code, live |-> wire[s].live]
                   \in Messages
         /\ wire[s].op = "items" => wire[s].c \in Carts
         /\ wire[s].op = "code" => wire[s].n \in Codes
         /\ wire[s].op \in {"placed", "refused"} => wire[s].code \in Codes
<1>1. wire[s] \in Messages BY DEF Inv, TypeOK, Messages
<1> QED BY <1>1 DEF Messages, Idle, Request, Reply

\* The user at the open screen.
LEMMA UserInv == ASSUME Inv, User PROVE Inv'
<1>1. CASE BackBTN
  <2>1. FirstAfter \in BOOLEAN /\ OthersAfter \in Nat BY StopTimer
  <2> QED BY <1>1, <2>1, ReleaseInv DEF BackBTN
<1>2. CASE ResendOTP
  <2>1. PICK s \in Slots : wire' = [wire EXCEPT ![s] = [op |-> "otp"]]
    BY <1>2 DEF ResendOTP, Send
  <2> QED BY <1>2, <2>1, MessageTypes, SlotQuiet
          DEF ResendOTP, Inv, TypeOK, Alive, server, clock
<1>3. CASE PopupOK
  BY <1>3, QuietStep DEF PopupOK, Inv, TypeOK, server, clock, Alive
<1>4. ASSUME NEW text \in Texts, SubmitOrder(text) PROVE Inv'
  <2>1. PICK s \in Slots :
          wire' = [wire EXCEPT ![s] = [op |-> "order", items |-> newproductArray,
                                       code |-> text, live |-> TRUE]]
    BY <1>4 DEF SubmitOrder, Send
  <2>2. text \in Codes /\ newproductArray \in Carts
    BY <1>4 DEF SubmitOrder, Inv, TypeOK
  <2> QED BY <1>4, <2>1, <2>2, MessageTypes, SlotQuiet
          DEF SubmitOrder, Inv, TypeOK, Alive, server, clock
<1>5. ASSUME NEW text \in Texts, SubmitRefused(text) PROVE Inv'
  BY <1>5, QuietStep DEF SubmitRefused, Inv, TypeOK, server, clock, Alive
<1> QED BY <1>1, <1>2, <1>3, <1>4, <1>5 DEF User

\* The timers: whatever their number, the count stays between 1 and its
\* start, and what is left in the field still runs.
LEMMA SecondInv == ASSUME Inv, Second PROVE Inv'
<1>1. Ticks \in Nat \ {0}
  BY DEF Second, Ticks, Inv, TypeOK
<1>2. FirstAfter \in BOOLEAN /\ OthersAfter \in Nat BY StopTimer
<1>3. count' \in 1 .. Countdown /\ elapsed' \in 0 .. Countdown
  BY <1>1, CountdownAssumption DEF Second, Inv, TypeOK
<1>4. /\ first' \in BOOLEAN /\ others' \in Nat /\ resend' \in BOOLEAN
      /\ timer' \in {"none", "first", "other"}
      /\ timer' = "other" => others' > 0
  BY <1>2 DEF Second, Inv, TypeOK, Fresh
<1> QED BY <1>3, <1>4
        DEF Second, Inv, TypeOK, Fresh, Valid, Alive, server

\* What arrives or is answered.
LEMMA NetworkInv == ASSUME Inv, NEW s \in Slots, Network(s) PROVE Inv'
<1>1. CASE ServerOtp(s)
  <2>1. issued + 1 \in Codes /\ issued' = issued + 1
        /\ issued + 1 \in since + 1 .. issued' /\ issued' \in issued .. MaxOtps
    BY <1>1, BoundsAssumption DEF ServerOtp, Inv, TypeOK, Codes
  <2> DEFINE m == [op |-> "code", n |-> issued']
  <2>2. m \in Messages /\ m.op = "code" /\ m.n = issued'
    BY <2>1, MessageTypes
  <2>3. wire' = [wire EXCEPT ![s] = m] /\ Alive
    BY <1>1 DEF ServerOtp, Inv, Fresh
  <2>4. UNCHANGED <<cart, placed, screen, OTPforVerification, newproductArray,
                    clock, popup, doomed, since, told>>
    BY <1>1 DEF ServerOtp
  <2>5. Alive' = Alive /\ (timer' = "other" => others' > 0)
    BY <2>4 DEF Inv, Fresh, Alive, clock
  <2> HIDE DEF m
  <2> QED BY <2>1, <2>2, <2>3, <2>4, <2>5, SlotStep DEF Inv, TypeOK, clock
<1>2. CASE ServerList(s)
  BY <1>2, MessageTypes, SlotQuiet
     DEF ServerList, Inv, TypeOK, Alive, server, clock
<1>3. CASE ServerRefuses(s)
  BY <1>3, MessageTypes, SlotQuiet
     DEF ServerRefuses, Inv, TypeOK, Alive, server, clock
<1>4. CASE Lost(s)
  BY <1>4, MessageTypes, SlotQuiet
     DEF Lost, Inv, TypeOK, Alive, server, clock, Idle
<1>5. CASE OtpArrives(s)
  <2>1. wire[s].n \in Valid \cap Codes
    BY <1>5, MessageTypes DEF OtpArrives, Inv, Fresh
  <2>2. /\ count' \in 1 .. Countdown /\ elapsed' \in 0 .. Countdown
        /\ others' \in Nat /\ others' > 0 /\ issued' \in issued .. MaxOtps
    BY <1>5, CountdownAssumption, BoundsAssumption
       DEF OtpArrives, Inv, TypeOK, server
  <2> QED BY <1>5, <2>1, <2>2, MessageTypes, SlotStep
          DEF OtpArrives, Inv, TypeOK, Fresh, Alive, server, Idle
<1>6. CASE ItemsArrive(s)
  BY <1>6, MessageTypes, SlotQuiet
     DEF ItemsArrive, Inv, TypeOK, Alive, server, clock, Idle
<1>7. CASE OrderPlaced(s)
  <2>1. told' \in [Codes -> Nat]
    BY <1>7, MessageTypes DEF OrderPlaced, Inv, TypeOK
  <2> QED BY <1>7, <2>1, MessageTypes, SlotQuiet
          DEF OrderPlaced, Inv, TypeOK, Alive, server, clock, Idle
<1>8. CASE OrderRefused(s)
  BY <1>8, MessageTypes, SlotQuiet
     DEF OrderRefused, Inv, TypeOK, Alive, server, clock, Idle
<1> QED BY <1>1, <1>2, <1>3, <1>4, <1>5, <1>6, <1>7, <1>8 DEF Network

\* An order is taken: the cart remains one of the carts.
LEMMA TakenInv == ASSUME Inv, NEW s \in Slots, ServerTakes(s) PROVE Inv'
<1>1. wire[s].items \in Carts /\ wire[s].code \in Codes
  BY MessageTypes DEF ServerTakes
<1>2. cart' \in Carts
  BY <1>1, CartsAssumption DEF ServerTakes, Inv, TypeOK
<1>3. placed' \in [Codes -> Nat]
  BY <1>1 DEF ServerTakes, Inv, TypeOK
<1> QED BY <1>2, <1>3, MessageTypes, SlotQuiet
        DEF ServerTakes, Inv, TypeOK, Alive, clock

\* A new visit starts without an OTP, and with no OTP on its way.
LEMMA OpenInv == ASSUME Inv, Open PROVE Inv'
<1>1. /\ count' \in 1 .. Countdown /\ elapsed' \in 0 .. Countdown
      /\ since' \in 0 .. issued' /\ issued' \in 0 .. MaxOtps /\ Empty \in Carts
      /\ 0 \in Codes
  BY CountdownAssumption, BoundsAssumption, CartsAssumption
     DEF Open, Inv, TypeOK, server, Codes
<1>2. \A s \in Slots : wire[s].op \notin {"otp", "code"}
  BY DEF Open, Inv, Fresh, Alive
<1>3. /\ wire' \in [Slots -> Messages]
      /\ \A s \in Slots : wire'[s].op # "code"
  <2>1. CASE UNCHANGED wire
    BY <1>2, <2>1 DEF Inv, TypeOK, Messages
  <2>2. CASE \E s, t \in Slots :
               /\ s # t
               /\ wire' = [wire EXCEPT ![s] = [op |-> "list"], ![t] = [op |-> "otp"]]
    <3>1. PICK s, t \in Slots :
            wire' = [wire EXCEPT ![s] = [op |-> "list"], ![t] = [op |-> "otp"]]
      BY <2>2
    <3>2. [op |-> "list"] \in Messages /\ [op |-> "otp"] \in Messages
      BY DEF Messages, Request
    <3>3. wire \in [Slots -> Messages] BY DEF Inv, TypeOK, Messages
    <3> QED BY <1>2, <3>1, <3>2, <3>3
  <2> QED BY <2>1, <2>2 DEF Open
<1> QED BY <1>1, <1>3
        DEF Open, Inv, TypeOK, Fresh, Alive, server, Messages

LEMMA StepInv == Inv /\ [Next]_vars => Inv'
<1> SUFFICES ASSUME Inv, [Next]_vars PROVE Inv'
  OBVIOUS
<1>1. CASE LeaveSuccess
  BY <1>1, ReleaseInv DEF LeaveSuccess, Inv, TypeOK
<1>2. CASE Relaunch
  BY <1>2, QuietStep DEF Relaunch, Inv, TypeOK, server, clock, Alive
<1>3. CASE Crashes
  BY <1>3, CrashInv DEF Crashes, StrayTick, LateReply
<1>4. CASE CartChanges
  BY <1>4, QuietStep DEF CartChanges, Inv, TypeOK, clock, Alive
<1>5. CASE CrashElsewhere
  BY <1>5, CrashInv DEF CrashElsewhere
<1>6. CASE UNCHANGED vars
  BY <1>6, QuietStep DEF vars, Inv, TypeOK, server, clock, Alive
<1> QED BY <1>1, <1>2, <1>3, <1>4, <1>5, <1>6,
           OpenInv, UserInv, SecondInv, NetworkInv, TakenInv DEF Next, Local

THEOREM Invariance == Spec => []Inv
BY InitInv, StepInv, PTL DEF Spec

\* Every variable of the screen keeps its type: the count stays between 1
\* and 60 however many timers run.
THEOREM TypeCorrect == Spec => []TypeOK
<1>1. Inv => TypeOK BY DEF Inv
<1> QED BY <1>1, Invariance, PTL

-----------------------------------------------------------------------------
\* Only submitBTN sends orders.
LEMMA OrderSent ==
  ASSUME Inv, Next, NEW s \in Slots, wire[s] = Idle, wire'[s].op = "order"
  PROVE  wire'[s].code \in since + 1 .. issued
<1>1. wire \in [Slots -> Messages] BY DEF Inv, TypeOK, Messages
<1>2. ASSUME NEW text \in Texts, SubmitOrder(text)
      PROVE  wire'[s].code \in since + 1 .. issued
  <2>1. PICK t \in Slots :
          wire' = [wire EXCEPT ![t] = [op |-> "order", items |-> newproductArray,
                                       code |-> text, live |-> TRUE]]
    BY <1>2 DEF SubmitOrder, Send
  <2>2. wire'[s].code = text BY <1>1, <2>1 DEF Idle
  <2>3. text \in since + 1 .. issued
    BY <1>2 DEF SubmitOrder, Inv, Fresh, Valid
  <2> QED BY <2>2, <2>3
<1>3. CASE Open
  <2>1. UNCHANGED wire \/ \E u, t \in Slots :
          wire' = [wire EXCEPT ![u] = [op |-> "list"], ![t] = [op |-> "otp"]]
    BY <1>3 DEF Open
  <2> QED BY <1>1, <2>1 DEF Idle
<1>4. CASE LeaveSuccess \/ BackBTN
  BY <1>4 DEF LeaveSuccess, BackBTN, Release, Idle
<1>5. CASE ResendOTP BY <1>1, <1>5 DEF ResendOTP, Send, Idle
<1>6. CASE PopupOK \/ Relaunch \/ Second \/ CartChanges
           \/ \E text \in Texts : SubmitRefused(text)
  BY <1>6 DEF PopupOK, Relaunch, Second, CartChanges, SubmitRefused, Idle
<1>7. CASE Crashes \/ CrashElsewhere
  BY <1>7 DEF Crashes, StrayTick, LateReply, CrashElsewhere, Crash, Idle
<1>8. ASSUME NEW t \in Slots, Network(t) \/ ServerTakes(t)
      PROVE  wire'[s].op # "order"
  BY <1>1, <1>8
     DEF Network, ServerOtp, ServerList, ServerTakes, ServerRefuses, Lost,
         OtpArrives, ItemsArrive, OrderPlaced, OrderRefused, Idle
<1> QED BY <1>2, <1>3, <1>4, <1>5, <1>6, <1>7, <1>8 DEF Next, Local, User

\* The empty OTP, an OTP of an earlier visit and one that has not arrived
\* authorise no order (OTPforVerification in submitBTN).
THEOREM OnlyAuthorised == Spec => OrderAuthorised
<1>1. Inv /\ [Next]_vars =>
        [\A s \in Slots : wire'[s].op = "order" /\ wire[s] = Idle
           => wire'[s].code \in since + 1 .. issued]_vars
  BY OrderSent DEF Idle
<1> QED BY <1>1, Invariance, PTL DEF Spec, OrderAuthorised

-----------------------------------------------------------------------------
(* Successes                                                               *)

\* The replies on their way that tell of an order the OTP n authorised.
Announced(w, n) == {s \in Slots : w[s].op = "placed" /\ w[s].code = n}

\* Each of them may still push a success screen.
Paid == \A n \in Codes : told[n] + Cardinality(Announced(wire, n)) <= placed[n]

LEMMA AnnouncedFinite ==
  ASSUME NEW w, NEW n
  PROVE  IsFiniteSet(Announced(w, n)) /\ Cardinality(Announced(w, n)) \in Nat
<1>1. Announced(w, n) \subseteq Slots BY DEF Announced
<1> QED BY <1>1, SlotsAssumption, FS_Subset, FS_CardinalityType

\* No reply tells of an order that it did not tell of before.
Unannounced ==
  \A s \in Slots : wire'[s].op = "placed" =>
    wire[s].op = "placed" /\ wire'[s].code = wire[s].code

LEMMA QuietPaid ==
  ASSUME Inv, Paid, Unannounced, UNCHANGED <<told, placed>>
  PROVE  Paid'
<1> SUFFICES ASSUME NEW n \in Codes
             PROVE  told[n] + Cardinality(Announced(wire', n)) <= placed[n]
  BY DEF Paid
<1>1. Announced(wire', n) \subseteq Announced(wire, n)
  BY DEF Unannounced, Announced
<1>2. Cardinality(Announced(wire', n)) <= Cardinality(Announced(wire, n))
  BY <1>1, AnnouncedFinite, FS_Subset
<1> QED BY <1>2, AnnouncedFinite DEF Paid, Inv, TypeOK

LEMMA TakenPaid ==
  ASSUME Inv, Paid, NEW s \in Slots, ServerTakes(s)
  PROVE  Paid'
<1> DEFINE c == wire[s].code
<1>1. c \in Codes BY MessageTypes DEF ServerTakes
<1> SUFFICES ASSUME NEW n \in Codes
             PROVE  told[n] + Cardinality(Announced(wire', n)) <= placed'[n]
  BY DEF Paid, ServerTakes
<1>2. /\ told[n] \in Nat /\ placed[n] \in Nat
      /\ placed'[n] = IF n = c THEN placed[n] + 1 ELSE placed[n]
  BY DEF ServerTakes, Inv, TypeOK
<1>3. Announced(wire', n) \subseteq Announced(wire, n) \cup (IF n = c THEN {s} ELSE {})
  BY DEF ServerTakes, Announced, Inv, TypeOK
<1> HIDE DEF c
<1>4. CASE n = c
  <2>1. /\ IsFiniteSet(Announced(wire, n) \cup {s})
        /\ Cardinality(Announced(wire, n) \cup {s}) <= Cardinality(Announced(wire, n)) + 1
    BY AnnouncedFinite, FS_AddElement
  <2>2. Cardinality(Announced(wire', n)) <= Cardinality(Announced(wire, n) \cup {s})
    BY <1>3, <1>4, <2>1, FS_Subset
  <2>3. Cardinality(Announced(wire, n) \cup {s}) \in Nat BY <2>1, FS_CardinalityType
  <2> QED BY <1>2, <1>4, <2>1, <2>2, <2>3, AnnouncedFinite DEF Paid
<1>5. CASE n # c
  <2>1. Cardinality(Announced(wire', n)) <= Cardinality(Announced(wire, n))
    BY <1>3, <1>5, AnnouncedFinite, FS_Subset
  <2> QED BY <1>2, <1>5, <2>1, AnnouncedFinite DEF Paid
<1> QED BY <1>4, <1>5

LEMMA PlacedPaid ==
  ASSUME Inv, Paid, NEW s \in Slots, OrderPlaced(s)
  PROVE  Paid'
<1> DEFINE c == wire[s].code
<1>1. c \in Codes BY MessageTypes DEF OrderPlaced
<1> SUFFICES ASSUME NEW n \in Codes
             PROVE  told'[n] + Cardinality(Announced(wire', n)) <= placed[n]
  BY DEF Paid, OrderPlaced, server
<1>2. /\ told[n] \in Nat /\ placed[n] \in Nat
      /\ told'[n] \in {told[n], IF n = c THEN told[n] + 1 ELSE told[n]}
  BY DEF OrderPlaced, Inv, TypeOK
<1>3. Announced(wire', n) \subseteq Announced(wire, n) \ {s}
  BY DEF OrderPlaced, Announced, Inv, TypeOK, Idle
<1>4. n = c => s \in Announced(wire, n) BY DEF Announced, OrderPlaced
<1> HIDE DEF c
<1>5. /\ IsFiniteSet(Announced(wire, n) \ {s})
      /\ Cardinality(Announced(wire, n) \ {s}) =
           IF s \in Announced(wire, n) THEN Cardinality(Announced(wire, n)) - 1
                                       ELSE Cardinality(Announced(wire, n))
  BY AnnouncedFinite, FS_RemoveElement
<1>6. Cardinality(Announced(wire', n)) <= Cardinality(Announced(wire, n) \ {s})
  BY <1>3, <1>5, FS_Subset
<1> QED BY <1>2, <1>4, <1>5, <1>6, AnnouncedFinite DEF Paid

LEMMA PaidStep == Inv /\ Paid /\ [Next]_vars => Paid'
<1> SUFFICES ASSUME Inv, Paid, [Next]_vars PROVE Paid'
  OBVIOUS
<1>0. wire \in [Slots -> Messages] BY DEF Inv, TypeOK, Messages
<1>1. CASE Open
  <2>1. UNCHANGED wire \/ \E u, t \in Slots :
          wire' = [wire EXCEPT ![u] = [op |-> "list"], ![t] = [op |-> "otp"]]
    BY <1>1 DEF Open
  <2>2. Unannounced BY <1>0, <2>1 DEF Unannounced
  <2> QED BY <1>1, <2>2, QuietPaid DEF Open, server
<1>2. CASE LeaveSuccess \/ BackBTN
  <2>1. ASSUME NEW s \in Slots, wire'[s].op = "placed"
        PROVE  wire[s].op = "placed" /\ wire'[s].code = wire[s].code
    <3>1. wire'[s] \in {wire[s], [wire[s] EXCEPT !.live = FALSE], Idle, [op |-> "late"]}
      BY <1>2 DEF LeaveSuccess, BackBTN, Release
    <3>2. CASE wire'[s] = [wire[s] EXCEPT !.live = FALSE]
      BY <1>0, <2>1, <3>2 DEF Messages, Request, Reply, Idle
    <3>3. CASE wire'[s] = wire[s] BY <2>1, <3>3
    <3>4. wire'[s] \notin {Idle, [op |-> "late"]} BY <2>1 DEF Idle
    <3> QED BY <3>1, <3>2, <3>3, <3>4
  <2> QED BY <1>2, <2>1, QuietPaid DEF LeaveSuccess, BackBTN, server, Unannounced
<1>3. CASE Crashes \/ CrashElsewhere
  BY <1>3, QuietPaid DEF Crashes, StrayTick, LateReply, CrashElsewhere, Crash, Idle,
     Unannounced, server
<1>4. CASE Relaunch \/ CartChanges \/ Second \/ UNCHANGED vars
  BY <1>4, QuietPaid DEF Relaunch, CartChanges, Second, vars, server, Unannounced
<1>5. CASE User
  <2>1. CASE PopupOK \/ \E text \in Texts : SubmitRefused(text)
    BY <2>1, QuietPaid DEF PopupOK, SubmitRefused, server, Unannounced
  <2>2. CASE ResendOTP \/ \E text \in Texts : SubmitOrder(text)
    <3>1. Unannounced BY <1>0, <2>2 DEF ResendOTP, SubmitOrder, Send, Unannounced
    <3> QED BY <2>2, <3>1, QuietPaid DEF ResendOTP, SubmitOrder, server
  <2> QED BY <1>2, <1>5, <2>1, <2>2 DEF User
<1>6. ASSUME NEW s \in Slots, Network(s) PROVE Paid'
  <2>1. CASE OrderPlaced(s) BY <2>1, PlacedPaid
  <2>2. CASE ~OrderPlaced(s)
    <3>1. Unannounced
      BY <1>0, <1>6, <2>2 DEF Network, ServerOtp, ServerList, ServerRefuses, Lost,
         OtpArrives, ItemsArrive, OrderRefused, Idle, Unannounced
    <3>2. UNCHANGED <<told, placed>>
      BY <1>6, <2>2 DEF Network, ServerOtp, ServerList, ServerRefuses, Lost,
         OtpArrives, ItemsArrive, OrderRefused, server
    <3> QED BY <3>1, <3>2, QuietPaid
  <2> QED BY <2>1, <2>2
<1> QED BY <1>1, <1>2, <1>3, <1>4, <1>5, <1>6, TakenPaid DEF Next, Local

\* A success screen is pushed for an order that the server took, and for no
\* order twice, although the success is a broadcast that a later visit may
\* hear (redemptionProducts, submitProductApi).
THEOREM SuccessesArePlaced == Spec => []SuccessMeansPlaced
<1>1. ASSUME Init PROVE Paid
  <2>1. \A n \in Codes : Announced(wire, n) = {} BY <1>1 DEF Init, Announced, Idle
  <2> QED BY <1>1, <2>1, FS_EmptySet DEF Init, Paid
<1>2. Inv /\ Paid => SuccessMeansPlaced
  BY AnnouncedFinite DEF Inv, TypeOK, Paid, SuccessMeansPlaced
<1> QED BY <1>1, <1>2, PaidStep, Invariance, PTL DEF Spec

-----------------------------------------------------------------------------
(* The ledger of orders                                                    *)

\* An order on its way, and the news that it was taken, carry a password that
\* the server sent.
CodesSent ==
  \A s \in Slots : wire[s].op \in {"order", "placed"} => wire[s].code \in 1 .. issued

\* No slot carries another order than before, but for one taken.
SameOrders ==
  \A s \in Slots : wire'[s].op \in {"order", "placed"} =>
    wire[s].op \in {"order", "placed"} /\ wire'[s].code = wire[s].code

LEMMA SameCodesSent ==
  ASSUME Inv, CodesSent, SameOrders, issued' \in {issued, issued + 1}
  PROVE  CodesSent'
<1>1. issued \in Nat BY BoundsAssumption DEF Inv, TypeOK
<1> QED BY <1>1 DEF CodesSent, SameOrders

LEMMA ReleasedOrders ==
  ASSUME Inv, LeaveSuccess \/ BackBTN
  PROVE  SameOrders
<1> SUFFICES ASSUME NEW s \in Slots, wire'[s].op \in {"order", "placed"}
             PROVE  wire[s].op \in {"order", "placed"} /\ wire'[s].code = wire[s].code
  BY DEF SameOrders
<1>0. wire[s] \in Messages BY DEF Inv, TypeOK, Messages
<1>1. wire'[s] \in {wire[s], [wire[s] EXCEPT !.live = FALSE], Idle, [op |-> "late"]}
  BY DEF LeaveSuccess, BackBTN, Release
<1>2. CASE wire'[s] = [wire[s] EXCEPT !.live = FALSE]
  BY <1>0, <1>2 DEF Messages, Request, Reply, Idle
<1>3. CASE wire'[s] = wire[s] BY <1>3
<1>4. wire'[s] \notin {Idle, [op |-> "late"]} BY DEF Idle
<1> QED BY <1>1, <1>2, <1>3, <1>4

LEMMA SubmittedCode ==
  ASSUME Inv, CodesSent, NEW text \in Texts, SubmitOrder(text)
  PROVE  CodesSent'
<1>1. PICK t \in Slots :
        wire' = [wire EXCEPT ![t] = [op |-> "order", items |-> newproductArray,
                                     code |-> text, live |-> TRUE]]
  BY DEF SubmitOrder, Send
<1>2. text \in 1 .. issued
  <2>1. text \in since + 1 .. issued /\ since \in Nat /\ issued \in Nat
    BY BoundsAssumption DEF SubmitOrder, Inv, Fresh, Valid, TypeOK
  <2> QED BY <2>1
<1>3. issued' = issued BY DEF SubmitOrder, server
<1>4. wire \in [Slots -> Messages] BY DEF Inv, TypeOK, Messages
<1> QED BY <1>1, <1>2, <1>3, <1>4 DEF CodesSent

LEMMA CodesSentStep == Inv /\ CodesSent /\ [Next]_vars => CodesSent'
<1> SUFFICES ASSUME Inv, CodesSent, [Next]_vars PROVE CodesSent'
  OBVIOUS
<1>0. wire \in [Slots -> Messages] BY DEF Inv, TypeOK, Messages
<1>1. CASE Open
  <2>1. UNCHANGED wire \/ \E u, t \in Slots :
          wire' = [wire EXCEPT ![u] = [op |-> "list"], ![t] = [op |-> "otp"]]
    BY <1>1 DEF Open
  <2>2. SameOrders BY <1>0, <2>1 DEF SameOrders
  <2> QED BY <1>1, <2>2, SameCodesSent DEF Open, server
<1>2. CASE LeaveSuccess \/ BackBTN
  BY <1>2, ReleasedOrders, SameCodesSent DEF LeaveSuccess, BackBTN, server
<1>3. CASE Crashes \/ CrashElsewhere
  BY <1>3, SameCodesSent DEF Crashes, StrayTick, LateReply, CrashElsewhere, Crash,
     Idle, SameOrders, server
<1>4. CASE Relaunch \/ CartChanges \/ Second \/ PopupOK \/ UNCHANGED vars
           \/ \E text \in Texts : SubmitRefused(text)
  BY <1>4, SameCodesSent DEF Relaunch, CartChanges, Second, PopupOK, SubmitRefused,
     vars, server, SameOrders
<1>5. CASE ResendOTP
  <2>1. SameOrders BY <1>0, <1>5 DEF ResendOTP, Send, SameOrders
  <2> QED BY <1>5, <2>1, SameCodesSent DEF ResendOTP, server
<1>6. ASSUME NEW s \in Slots, Network(s) \/ ServerTakes(s) PROVE CodesSent'
  <2>1. SameOrders
    BY <1>0, <1>6 DEF Network, ServerOtp, ServerList, ServerTakes, ServerRefuses, Lost,
       OtpArrives, ItemsArrive, OrderPlaced, OrderRefused, Idle, SameOrders
  <2>2. issued' \in {issued, issued + 1}
    BY <1>6 DEF Network, ServerOtp, ServerList, ServerTakes, ServerRefuses, Lost,
       OtpArrives, ItemsArrive, OrderPlaced, OrderRefused, server
  <2> QED BY <2>1, <2>2, SameCodesSent
<1> QED BY <1>1, <1>2, <1>3, <1>4, <1>5, <1>6, SubmittedCode DEF Next, Local, User

\* A step is an entry of the ledger or leaves it alone.
LEMMA StepKeepsOrders ==
  Inv /\ Paid /\ CodesSent /\ [Next]_vars => [Ledger!Next]_(Ledger!ledger)
<1> SUFFICES ASSUME Inv, Paid, CodesSent, [Next]_vars
             PROVE  Ledger!Next \/ UNCHANGED <<issued, placed, told>>
  BY DEF Ledger!ledger
<1>1. ASSUME NEW s \in Slots, ServerTakes(s) PROVE Ledger!Next
  BY <1>1 DEF ServerTakes, CodesSent, Ledger!Next, Ledger!Place
<1>2. ASSUME NEW s \in Slots, OrderPlaced(s)
      PROVE  Ledger!Next \/ UNCHANGED <<issued, placed, told>>
  <2> DEFINE c == wire[s].code
  <2>1. c \in Codes /\ c \in 1 .. issued
    BY <1>2, MessageTypes DEF OrderPlaced, CodesSent
  <2>2. told[c] < placed[c]
    <3>1. s \in Announced(wire, c) BY <1>2 DEF Announced, OrderPlaced
    <3>2. Cardinality(Announced(wire, c)) # 0
      BY <3>1, AnnouncedFinite, FS_EmptySet
    <3>3. Cardinality(Announced(wire, c)) \in Nat BY AnnouncedFinite
    <3>4. told[c] + Cardinality(Announced(wire, c)) <= placed[c]
          /\ told[c] \in Nat /\ placed[c] \in Nat
      BY <2>1 DEF Paid, Inv, TypeOK
    <3> HIDE DEF c
    <3> QED BY <3>2, <3>3, <3>4
  <2>3. UNCHANGED <<issued, placed>> BY <1>2 DEF OrderPlaced, server
  <2> QED BY <1>2, <2>1, <2>2, <2>3 DEF OrderPlaced, Ledger!Next, Ledger!Announce
<1>3. ASSUME NEW s \in Slots, ServerOtp(s) PROVE Ledger!Next
  BY <1>3 DEF ServerOtp, Ledger!Next, Ledger!Issue
<1>4. ASSUME NEW s \in Slots, Network(s), ~OrderPlaced(s), ~ServerOtp(s)
      PROVE  UNCHANGED <<issued, placed, told>>
  BY <1>4 DEF Network, ServerList, ServerRefuses, Lost, OtpArrives, ItemsArrive,
     OrderRefused, server
<1>5. CASE User \/ Second
  BY <1>5 DEF User, BackBTN, ResendOTP, PopupOK, SubmitOrder, SubmitRefused, Second, server
<1>6. CASE Crashes \/ CrashElsewhere
  BY <1>6 DEF Crashes, StrayTick, LateReply, CrashElsewhere, Crash, server
<1>7. CASE Open \/ LeaveSuccess \/ Relaunch \/ CartChanges \/ UNCHANGED vars
  BY <1>7 DEF Open, LeaveSuccess, Relaunch, CartChanges, vars, server
<1> QED BY <1>1, <1>2, <1>3, <1>4, <1>5, <1>6, <1>7 DEF Next, Local

\* RedemptionOTP implements OrderLedger: whichever visit sends an order, loses
\* it or hears of it, no order is taken without a password that was sent, and
\* none is announced twice (submitBTN, submitProductApi, redemptionSuccess).
THEOREM ImplementsLedger == Spec => OrdersKept
<1>1. ASSUME Init PROVE Ledger!Init /\ CodesSent /\ Paid
  <2>1. \A n \in Codes : Announced(wire, n) = {} BY <1>1 DEF Init, Announced, Idle
  <2>2. Paid BY <1>1, <2>1, FS_EmptySet DEF Init, Paid
  <2> QED BY <1>1, <2>2 DEF Init, Ledger!Init, Ledger!Numbers, Codes, CodesSent, Idle
<1> QED BY <1>1, CodesSentStep, PaidStep, StepKeepsOrders, Invariance, PTL
        DEF Spec, OrdersKept, Ledger!Spec

-----------------------------------------------------------------------------
(* The countdown                                                           *)

\* The OTPs on their way to the screen; the timers they may make it have.
Arriving(w) == {s \in Slots : w[s].op = "code"}
Timers == 1 + issued - since

\* Every timer of the view model was started by an OTP of this visit, and
\* the timers together have counted down no more than their number allows.
Counting ==
  /\ ~Alive => others = 0
  /\ Alive => others + Cardinality(Arriving(wire)) <= issued - since
  /\ Alive /\ OTPforVerification # 0 =>
       /\ count + elapsed * Timers >= Countdown
       /\ resend => elapsed * Timers >= Countdown

LEMMA ArrivingFinite ==
  ASSUME NEW w
  PROVE  IsFiniteSet(Arriving(w)) /\ Cardinality(Arriving(w)) \in Nat
<1>1. Arriving(w) \subseteq Slots BY DEF Arriving
<1> QED BY <1>1, SlotsAssumption, FS_Subset, FS_CardinalityType

LEMMA CountTypes ==
  ASSUME Inv
  PROVE  /\ issued \in Nat /\ since \in Nat /\ issued - since \in Nat
         /\ Timers \in Nat \ {0} /\ Timers = 1 + (issued - since)
         /\ others \in Nat /\ count \in Nat \ {0} /\ elapsed \in Nat
         /\ Countdown \in Nat \ {0}
BY CountdownAssumption, BoundsAssumption DEF Inv, TypeOK, Timers

LEMMA Multiples ==
  ASSUME NEW e \in Nat, NEW k \in Nat
  PROVE  /\ e * k \in Nat /\ (e + 1) * k = e * k + k /\ e * (k + 1) = e * k + e
         /\ k > 0 => e <= e * k
<1>1. e * k \in Nat /\ (e + 1) * k = e * k + k /\ e * (k + 1) = e * k + e
  OBVIOUS
<1>2. ASSUME k > 0 PROVE e <= e * k
  <2>1. PICK j \in Nat : k = j + 1
    <3>1. k - 1 \in Nat /\ k = (k - 1) + 1 BY <1>2
    <3> QED BY <3>1
  <2>2. e * k = e * j + e /\ e * j \in Nat BY <2>1
  <2> QED BY <2>2
<1> QED BY <1>1, <1>2

LEMMA QuietCounting ==
  ASSUME Inv, Counting, Alive' = Alive,
         UNCHANGED <<issued, since, OTPforVerification, count, elapsed, resend, others>>,
         \A s \in Slots : wire'[s].op = "code" => wire[s].op = "code"
  PROVE  Counting'
<1>1. Arriving(wire') \subseteq Arriving(wire) BY DEF Arriving
<1>2. /\ Cardinality(Arriving(wire')) <= Cardinality(Arriving(wire))
      /\ Cardinality(Arriving(wire')) \in Nat /\ Cardinality(Arriving(wire)) \in Nat
  BY <1>1, ArrivingFinite, FS_Subset
<1>3. Alive => others + Cardinality(Arriving(wire')) <= issued - since
  BY <1>2, CountTypes DEF Counting
<1> QED BY <1>3 DEF Counting, Timers

LEMMA LeftCounting ==
  ASSUME ~Alive', others' = 0
  PROVE  Counting'
BY DEF Counting

LEMMA OpenCounting ==
  ASSUME Inv, Counting, Open
  PROVE  Counting'
<1>1. ~Alive /\ wire \in [Slots -> Messages] BY DEF Open, Alive, Inv, TypeOK, Messages
<1>2. \A s \in Slots : wire[s].op # "code" BY <1>1 DEF Inv, Fresh
<1>3. UNCHANGED wire \/ \E s, t \in Slots :
        wire' = [wire EXCEPT ![s] = [op |-> "list"], ![t] = [op |-> "otp"]]
  BY DEF Open
<1>4. \A s \in Slots : wire'[s].op # "code" BY <1>1, <1>2, <1>3
<1>5. Arriving(wire') = {} BY <1>4 DEF Arriving
<1>6. /\ others' = 0 /\ OTPforVerification' = 0 /\ issued' = issued /\ since' = issued
      /\ Cardinality(Arriving(wire')) = 0
  BY <1>1, <1>5, FS_EmptySet DEF Open, Counting, server
<1> QED BY <1>1, <1>6, CountTypes DEF Counting, Open, Alive

\* In a second each timer counts once, and there are no more than OTPs, and
\* the first one.
LEMMA SecondCounting ==
  ASSUME Inv, Counting, Second
  PROVE  Counting'
<1> DEFINE k == Timers
           a == Cardinality(Arriving(wire))
<1>1. /\ k \in Nat \ {0} /\ k = 1 + (issued - since) /\ issued - since \in Nat
      /\ others \in Nat /\ count \in Nat \ {0} /\ elapsed \in Nat
      /\ Countdown \in Nat \ {0} /\ a \in Nat
  BY CountTypes, ArrivingFinite
<1>2. /\ Alive /\ Alive' = Alive /\ wire' = wire
      /\ UNCHANGED <<issued, since, OTPforVerification>>
  BY DEF Second, Alive, server
<1>3. others + a <= issued - since BY <1>2 DEF Counting
<1>4. Ticks \in Nat \ {0} /\ Ticks <= k
  BY <1>1, <1>3 DEF Second, Ticks, Inv, TypeOK
<1>5. others' \in Nat /\ others' <= others
  <2>1. OthersAfter \in Nat /\ OthersAfter <= others
    BY <1>1, StopTimer DEF OthersAfter
  <2> QED BY <1>1, <2>1 DEF Second
<1>6. others' + a <= issued - since BY <1>1, <1>3, <1>5
<1>7. elapsed * k \in Nat /\ (elapsed + 1) * k = elapsed * k + k /\ elapsed <= elapsed * k
  BY <1>1, Multiples
<1>8. elapsed' = IF elapsed < Countdown THEN elapsed + 1 ELSE elapsed
  BY DEF Second
<1>9. elapsed' * k \in Nat /\ (elapsed' * k = elapsed * k + k \/ elapsed' * k >= Countdown)
  <2>1. CASE elapsed < Countdown BY <1>1, <1>7, <1>8, <2>1
  <2>2. CASE elapsed >= Countdown
    <3>1. elapsed' = elapsed BY <1>1, <1>8, <2>2
    <3> QED BY <1>1, <1>7, <2>2, <3>1
  <2> QED BY <1>1, <2>1, <2>2
<1>10. /\ Ticks < count => count' = count - Ticks /\ resend' = FALSE
       /\ ~(Ticks < count) => count' = 1
  BY DEF Second
<1> HIDE DEF k, a
<1>11. ASSUME OTPforVerification # 0
       PROVE  /\ count' + elapsed' * k >= Countdown
              /\ resend' => elapsed' * k >= Countdown
  <2>1. count + elapsed * k >= Countdown BY <1>2, <1>11 DEF Counting, k
  <2>2. CASE Ticks < count BY <1>1, <1>4, <1>7, <1>9, <1>10, <2>1, <2>2
  <2>3. CASE ~(Ticks < count) BY <1>1, <1>4, <1>7, <1>9, <1>10, <2>1, <2>3
  <2> QED BY <2>2, <2>3
<1>12. Timers' = k BY <1>2 DEF Timers, k
<1>13. Cardinality(Arriving(wire')) = a BY <1>2 DEF a
<1> QED BY <1>2, <1>6, <1>11, <1>12, <1>13 DEF Counting

\* One more OTP: one more timer to come.
LEMMA SentCounting ==
  ASSUME Inv, Counting, NEW s \in Slots, ServerOtp(s)
  PROVE  Counting'
<1>1. /\ Alive /\ Alive' = Alive /\ issued' = issued + 1
      /\ UNCHANGED <<since, OTPforVerification, count, elapsed, resend, others>>
  BY DEF ServerOtp, Inv, Fresh, Alive, clock
<1>2. Arriving(wire') \subseteq Arriving(wire) \cup {s}
  BY DEF ServerOtp, Arriving, Inv, TypeOK
<1>3. /\ IsFiniteSet(Arriving(wire) \cup {s})
      /\ Cardinality(Arriving(wire) \cup {s}) <= Cardinality(Arriving(wire)) + 1
  BY ArrivingFinite, FS_AddElement
<1>4. /\ Cardinality(Arriving(wire')) <= Cardinality(Arriving(wire) \cup {s})
      /\ Cardinality(Arriving(wire) \cup {s}) \in Nat
  BY <1>2, <1>3, FS_Subset, FS_CardinalityType
<1>5. others + Cardinality(Arriving(wire')) <= issued' - since
  BY <1>1, <1>3, <1>4, ArrivingFinite, CountTypes DEF Counting
<1>6. Timers' = Timers + 1 BY <1>1, CountTypes DEF Timers
<1>7. elapsed * (Timers + 1) = elapsed * Timers + elapsed /\ elapsed * Timers \in Nat
  BY CountTypes, Multiples
<1>8. elapsed \in Nat /\ count \in Nat /\ Countdown \in Nat BY CountTypes
<1>9. ASSUME OTPforVerification # 0
      PROVE  /\ count + elapsed * (Timers + 1) >= Countdown
             /\ resend => elapsed * (Timers + 1) >= Countdown
  <2>1. /\ count + elapsed * Timers >= Countdown
        /\ resend => elapsed * Timers >= Countdown
    BY <1>1, <1>9 DEF Counting
  <2> QED BY <1>7, <1>8, <2>1
<1> QED BY <1>1, <1>5, <1>6, <1>9 DEF Counting

\* Its timer, and a new count.
LEMMA ArrivedCounting ==
  ASSUME Inv, Counting, NEW s \in Slots, OtpArrives(s)
  PROVE  Counting'
<1>1. /\ Alive /\ Alive' = Alive /\ others' = others + 1 /\ count' = Countdown
      /\ elapsed' = 0 /\ resend' = FALSE /\ UNCHANGED <<issued, since>>
  BY DEF OtpArrives, Alive, server
<1>2. Arriving(wire') \subseteq Arriving(wire) \ {s} /\ s \in Arriving(wire)
  BY DEF OtpArrives, Arriving, Inv, TypeOK, Idle
<1>3. /\ IsFiniteSet(Arriving(wire) \ {s})
      /\ Cardinality(Arriving(wire) \ {s}) = Cardinality(Arriving(wire)) - 1
  BY <1>2, ArrivingFinite, FS_RemoveElement
<1>4. Cardinality(Arriving(wire')) <= Cardinality(Arriving(wire) \ {s})
  BY <1>2, <1>3, FS_Subset
<1>5. others' + Cardinality(Arriving(wire')) <= issued - since
  BY <1>1, <1>3, <1>4, ArrivingFinite, CountTypes DEF Counting
<1>6. 0 * Timers = 0 /\ Timers' = Timers BY <1>1, CountTypes DEF Timers
<1>7. count' + 0 * Timers >= Countdown BY <1>1, <1>6, CountTypes
<1> QED BY <1>1, <1>5, <1>6, <1>7 DEF Counting

LEMMA CountingStep == Inv /\ Counting /\ [Next]_vars => Counting'
<1> SUFFICES ASSUME Inv, Counting, [Next]_vars PROVE Counting'
  OBVIOUS
<1>0. wire \in [Slots -> Messages] BY DEF Inv, TypeOK, Messages
<1>1. CASE BackBTN \/ LeaveSuccess \/ Crashes \/ CrashElsewhere
  <2>1. ~Alive' /\ others' = 0
    BY <1>1 DEF BackBTN, LeaveSuccess, Release, Crashes, StrayTick, LateReply,
       CrashElsewhere, Crash, Alive
  <2> QED BY <2>1, LeftCounting
<1>2. CASE Relaunch \/ CartChanges \/ PopupOK \/ UNCHANGED vars
           \/ \E text \in Texts : SubmitRefused(text)
  BY <1>2, QuietCounting DEF Relaunch, CartChanges, PopupOK, SubmitRefused, vars,
     server, clock, Alive
<1>3. CASE ResendOTP \/ \E text \in Texts : SubmitOrder(text)
  <2>1. \A s \in Slots : wire'[s].op = "code" => wire[s].op = "code"
    BY <1>0, <1>3 DEF ResendOTP, SubmitOrder, Send
  <2> QED BY <1>3, <2>1, QuietCounting DEF ResendOTP, SubmitOrder, server, clock, Alive
<1>4. ASSUME NEW s \in Slots,
             \/ ServerList(s) \/ ServerRefuses(s) \/ Lost(s) \/ ItemsArrive(s)
             \/ OrderPlaced(s) \/ OrderRefused(s) \/ ServerTakes(s)
      PROVE  Counting'
  <2>1. \A t \in Slots : wire'[t].op = "code" => wire[t].op = "code"
    BY <1>0, <1>4 DEF ServerList, ServerRefuses, Lost, ItemsArrive, OrderPlaced,
       OrderRefused, ServerTakes, Idle
  <2>2. /\ Alive' = Alive
        /\ UNCHANGED <<issued, since, OTPforVerification, clock>>
    BY <1>4 DEF ServerList, ServerRefuses, Lost, ItemsArrive, OrderPlaced,
       OrderRefused, ServerTakes, Alive, server
  <2> QED BY <2>1, <2>2, QuietCounting DEF clock
<1> QED BY <1>1, <1>2, <1>3, <1>4, OpenCounting, SecondCounting, SentCounting,
           ArrivedCounting DEF Next, Local, User, Network

\* The button that asks for another OTP comes back no sooner than the timers
\* of this visit can count down together: the first one and one for each OTP
\* (update, OTPAPI).
THEOREM CountdownIsShared == Spec => []CountdownShared
<1>1. Init => Counting BY DEF Init, Counting, Alive
<1>2. Counting => CountdownShared BY DEF Counting, CountdownShared, Timers
<1> QED BY <1>1, <1>2, CountingStep, Invariance, PTL DEF Spec

\* While the button is hidden a timer runs (OTPAPI, update).
LEMMA TimedStep == Inv /\ HiddenIsTimed /\ [Next]_vars => HiddenIsTimed'
<1> SUFFICES ASSUME Inv, HiddenIsTimed, [Next]_vars PROVE HiddenIsTimed'
  OBVIOUS
<1>0. others \in Nat /\ first \in BOOLEAN /\ resend \in BOOLEAN BY DEF Inv, TypeOK
<1>1. CASE resend' \/ ~Alive' BY <1>1 DEF HiddenIsTimed
<1>2. CASE UNCHANGED <<resend, first, others>> /\ (Alive' => Alive)
  BY <1>2 DEF HiddenIsTimed, Ticks
<1>3. ASSUME NEW s \in Slots, OtpArrives(s) PROVE HiddenIsTimed'
  <2>1. others' = others + 1 BY <1>3 DEF OtpArrives
  <2>2. others' + (IF first' THEN 1 ELSE 0) > 0 BY <1>0, <2>1
  <2> QED BY <2>2 DEF HiddenIsTimed, Ticks
<1>4. CASE Second
  <2>1. resend' \/ (UNCHANGED <<first, others>> /\ Ticks > 0) BY <1>4 DEF Second
  <2> QED BY <1>1, <2>1 DEF HiddenIsTimed, Ticks
<1>5. CASE Open \/ Relaunch \/ LeaveSuccess \/ BackBTN \/ Crashes \/ CrashElsewhere
  <2>1. resend' \/ ~Alive'
    BY <1>5 DEF Open, Relaunch, LeaveSuccess, BackBTN, Crashes, StrayTick, LateReply,
       CrashElsewhere, Crash, Alive
  <2> QED BY <1>1, <2>1
<1>6. CASE ResendOTP \/ PopupOK \/ CartChanges \/ UNCHANGED vars
           \/ \E text \in Texts : SubmitOrder(text) \/ SubmitRefused(text)
  BY <1>2, <1>6 DEF ResendOTP, PopupOK, CartChanges, SubmitOrder, SubmitRefused, vars,
     clock, Alive
<1>7. ASSUME NEW s \in Slots, Network(s) \/ ServerTakes(s), ~OtpArrives(s)
      PROVE  HiddenIsTimed'
  BY <1>2, <1>7 DEF Network, ServerOtp, ServerList, ServerTakes, ServerRefuses, Lost,
     ItemsArrive, OrderPlaced, OrderRefused, clock, Alive
<1> QED BY <1>3, <1>4, <1>5, <1>6, <1>7 DEF Next, Local, User

\* Nobody waits for the resend button without a timer that will bring it back:
\* the field may lose track of the timers, and one of them runs all the same.
THEOREM HiddenButtonsAreTimed == Spec => []HiddenIsTimed
<1>1. Init => HiddenIsTimed BY DEF Init, HiddenIsTimed, Alive
<1> QED BY <1>1, TimedStep, Invariance, PTL DEF Spec
=============================================================================
