-------------------------- MODULE CartVisit_proofs --------------------------
(***************************************************************************)
(* On a smooth visit a cart screen at rest shows the server's cart, for    *)
(* every set of products, every price and balance, and any number of slots:*)
(* what a crossing, a late addition or a loss can do is all that can make  *)
(* it stale.                                                               *)
(***************************************************************************)
EXTENDS CartVisit, Cart_proofs

\* What the screen shows, and would check out, is the server's cart.
Shows == /\ list = cart /\ sum = Total(cart)
         /\ ~tableHidden => shown = cart

OneRequest == \A s, t \in Slots : s # t => wire[s] = Idle \/ wire[t] = Idle

\* The server's cart changes by what the screen asked for itself, so the
\* reply that carries a cart is current, and while nothing has changed since
\* the last one the screen shows it.
Current ==
  /\ OneRequest
  /\ \A s \in Slots : wire[s].op = "set" => wire[s].live
  /\ \A s \in Slots : wire[s].op = "cart" => wire[s].c = cart
  /\ (\A s \in Slots : wire[s].op \in {"idle", "set"}) => Shows

CurrentInv == TypeOK /\ (screen = "cart" /\ visit = "smooth" => Current)

\* The step of a visit that stays smooth: it begins, or was smooth before.
LEMMA StaysSmooth ==
  ASSUME Observe, visit' = "smooth"
  PROVE  ~Missed /\ ~Crossed /\ (screen = "closed" \/ visit = "smooth")
BY DEF Observe

LEMMA OneAtATime == ASSUME ~Crossed PROVE OneRequest'
BY DEF Crossed, OneRequest

\* The list is asked for, and nothing else is on its way.
LEMMA AskedFor ==
  ASSUME TypeOK, OneRequest', NEW s \in Slots,
         wire' = [wire EXCEPT ![s] = Fetch]
  PROVE  Current'
<1>1. wire \in [Slots -> Messages] BY WireTypes
<1>2. wire'[s] = Fetch /\ Fetch # Idle BY <1>1 DEF Fetch, Idle
<1>3. \A t \in Slots : t # s => wire'[t] = Idle
  BY <1>2 DEF OneRequest
<1> QED BY <1>2, <1>3 DEF Current, Fetch, Idle

\* A request of the screen leaves when nothing else is on its way.
LEMMA Asked ==
  ASSUME TypeOK, Current, OneRequest', screen = "cart",
         NEW p, NEW q, SetQuantity(p, q),
         list' = list, sum' = sum, cart' = cart, tableHidden' = tableHidden,
         shown' \in {shown, list}
  PROVE  Current'
<1>1. PICK s \in Slots :
        /\ wire[s] = Idle
        /\ wire' = [wire EXCEPT ![s] =
                      [op |-> "set", p |-> p, q |-> q, live |-> Alive]]
  BY DEF SetQuantity, Send
<1>2. wire \in [Slots -> Messages] BY WireTypes
<1>3. wire'[s] = [op |-> "set", p |-> p, q |-> q, live |-> TRUE]
  BY <1>1, <1>2 DEF Alive
<1>4. \A t \in Slots : t # s => wire'[t] = Idle
  BY <1>3 DEF OneRequest, Idle
<1>5. \A t \in Slots : t # s => wire'[t] = wire[t]
  BY <1>1, <1>2
<1>6. \A t \in Slots : wire[t].op = "idle"
  BY <1>1, <1>4, <1>5 DEF Idle
<1>7. Shows BY <1>6 DEF Current
<1>8. Shows' BY <1>7 DEF Shows
<1> QED BY <1>3, <1>4, <1>8 DEF Current, Idle

\* The table is redrawn from the list, and that is all.
LEMMA Redrawn ==
  ASSUME Current, UNCHANGED <<cart, list, tableHidden, sum, wire>>,
         shown' \in {shown, list}
  PROVE  Current'
BY DEF Current, OneRequest, Shows

LEMMA CurrentTaps ==
  ASSUME TypeOK, Current, OneRequest', screen = "cart",
         NEW p \in Products, Taps(p)
  PROVE  Current'
<1>1. CASE TapPlus(p) BY <1>1, Redrawn DEF TapPlus
<1>2. CASE TapMinus(p)
  <2>1. CASE SetQuantity(p, list[p] - 1)
    BY <1>2, <2>1, Asked DEF TapMinus
  <2>2. CASE UNCHANGED wire BY <1>2, <2>2, Redrawn DEF TapMinus
  <2> QED BY <1>2, <2>1, <2>2 DEF TapMinus
<1>3. CASE TapRemove(p) BY <1>3, Asked DEF TapRemove
<1> QED BY <1>1, <1>2, <1>3 DEF Taps

LEMMA CurrentIncrease ==
  ASSUME TypeOK, Current, OneRequest', screen = "cart", IncreaseFires
  PROVE  Current'
<1> DEFINE p == At(list, Head(delayed))
<1>1. CASE SetQuantity(p, list[p] + 1) BY <1>1, Asked DEF IncreaseFires
<1>2. CASE UNCHANGED wire BY <1>2, Redrawn DEF IncreaseFires
<1> QED BY <1>1, <1>2 DEF IncreaseFires

\* Slot s is what is on its way.
LEMMA Only ==
  ASSUME OneRequest, NEW s \in Slots, wire[s].op # "idle"
  PROVE  \A t \in Slots : t # s => wire[t] = Idle
BY DEF OneRequest, Idle

LEMMA CurrentNetwork ==
  ASSUME TypeOK, Current, OneRequest', screen = "cart",
         NEW s \in Slots, Network(s)
  PROVE  Current'
<1>1. wire \in [Slots -> Messages] BY WireTypes
<1>2. wire[s].op # "idle"
  BY DEF Network, ServerSet, ServerList, ChangeConfirmed, ListArrives,
     NoListArrives, Fetch
<1>3. \A t \in Slots : t # s => wire[t] = Idle BY <1>2, Only DEF Current
<1>4. CASE ServerSet(s)
  <2>1. CASE cart[wire[s].p] > 0
    <3>1. wire' = [wire EXCEPT ![s] = [op |-> "ok"]]
      BY <1>4, <2>1 DEF ServerSet, Current
    <3>2. wire'[s] = [op |-> "ok"] /\ \A t \in Slots : t # s => wire'[t] = Idle
      BY <1>1, <1>3, <3>1
    <3> QED BY <3>2 DEF Current, Idle
  <2>2. CASE ~(cart[wire[s].p] > 0)
    <3>1. wire' = [wire EXCEPT ![s] = Idle] /\ cart' = cart
          /\ UNCHANGED <<list, shown, tableHidden, sum>>
      BY <1>4, <2>2 DEF ServerSet
    <3>2. \A t \in Slots : wire[t].op \in {"idle", "set"}
      BY <1>3, <1>4 DEF ServerSet, Idle
    <3>3. Shows BY <3>2 DEF Current
    <3>4. Shows' BY <3>1, <3>3 DEF Shows
    <3>5. \A t \in Slots : wire'[t] = Idle BY <1>1, <1>3, <3>1
    <3> QED BY <3>4, <3>5 DEF Current, Idle
  <2> QED BY <2>1, <2>2
<1>5. CASE ServerList(s)
  <2>1. wire'[s] = [op |-> "cart", c |-> cart] /\ cart' = cart
        /\ \A t \in Slots : t # s => wire'[t] = Idle
    BY <1>1, <1>3, <1>5 DEF ServerList
  <2> QED BY <2>1 DEF Current, Idle
<1>6. CASE ChangeConfirmed(s)
  BY <1>6, AskedFor DEF ChangeConfirmed, GetMycartList
<1>7. CASE ListArrives(s) \/ NoListArrives(s)
  <2>1. wire[s].c = cart /\ cart' = cart
    BY <1>7 DEF Current, ListArrives, NoListArrives
  <2>2. wire' = [wire EXCEPT ![s] = Idle]
    BY <1>7 DEF ListArrives, NoListArrives
  <2>3. \A t \in Slots : wire'[t] = Idle BY <1>1, <1>3, <2>2
  <2>4. CASE ListArrives(s)
    <3>1. Shows' BY <2>1, <2>4 DEF ListArrives, Shows
    <3> QED BY <2>3, <3>1 DEF Current, Idle
  <2>5. CASE NoListArrives(s)
    <3>1. Shows' BY <2>1, <2>5, NothingCostsNothing DEF NoListArrives, Shows
    <3> QED BY <2>3, <3>1 DEF Current, Idle
  <2> QED BY <1>7, <2>4, <2>5
<1> QED BY <1>4, <1>5, <1>6, <1>7 DEF Network

\* The screen appears, and asks for the list.
LEMMA CurrentAppears ==
  ASSUME TypeOK, ~Missed, OneRequest', OpenCart \/ BackToCart
  PROVE  Current'
<1>1. screen # "cart" /\ screen' = "cart" BY DEF OpenCart, BackToCart
<1>2. ~(UNCHANGED wire) BY <1>1 DEF Missed
<1>3. \E s \in Slots : wire' = [wire EXCEPT ![s] = Fetch]
  BY <1>2 DEF OpenCart, BackToCart, Appear, GetMycartList
<1> QED BY <1>3, AskedFor

\* What else happens does not uncover the screen, and an order that is taken
\* under it crosses the visit.
LEMMA CurrentElse ==
  ASSUME Current, ~Crossed, screen = "cart", screen' = "cart",
         Crashes \/ Relaunch \/ Elsewhere
  PROVE  Current'
<1>1. ~Crashes BY DEF Crashes, IncreaseCrashes, EmptyListCrashes, Crash
<1>2. OrderTaken
  BY <1>1 DEF Relaunch, Elsewhere, PopToRoot, CrashElsewhere, Crash
<1>3. UNCHANGED vars BY <1>2 DEF OrderTaken, Crossed, vars
<1> QED BY <1>3 DEF vars, Current, OneRequest, Shows

\* What a product page adds under the screen crosses the visit.
LEMMA CurrentAdditions ==
  ASSUME Current, ~Crossed, screen = "cart", NEW p \in Products, Additions(p)
  PROVE  Current'
<1>1. UNCHANGED <<list, shown, tableHidden, sum, wire>>
  BY DEF Additions, AddToCart, ServerAdds, AdditionLost
<1>2. cart' = cart BY <1>1 DEF Crossed
<1> QED BY <1>1, <1>2 DEF Current, OneRequest, Shows

LEMMA CurrentStep ==
  ASSUME TypeOK, Next, Observe, screen' = "cart", visit' = "smooth",
         screen = "cart" /\ visit = "smooth" => Current
  PROVE  Current'
<1>1. ~Missed /\ ~Crossed /\ (screen = "closed" \/ visit = "smooth")
  BY StaysSmooth
<1>2. OneRequest' BY <1>1, OneAtATime
<1>3. CASE OpenCart \/ BackToCart BY <1>1, <1>2, <1>3, CurrentAppears
<1>4. CASE ~(OpenCart \/ BackToCart)
  <2>1. screen = "cart"
    BY <1>4 DEF Next, Local, Taps, TapPlus, TapMinus, TapRemove, Additions,
       AddToCart, ServerAdds, AdditionLost, BackBTN, CheckoutBTN, Relaunch,
       IncreaseFires, Network, ServerSet, ServerList, ChangeConfirmed,
       ListArrives, NoListArrives, Lost, Crashes, IncreaseCrashes,
       EmptyListCrashes, Crash, Elsewhere, OrderTaken, PopToRoot,
       CrashElsewhere
  <2>2. Current BY <1>1, <2>1
  <2>3. ASSUME NEW p \in Products, Additions(p) PROVE Current'
    BY <1>1, <2>1, <2>2, <2>3, CurrentAdditions
  <2>4. ASSUME NEW p \in Products, Taps(p) PROVE Current'
    BY <1>2, <2>1, <2>2, <2>4, CurrentTaps
  <2>5. CASE IncreaseFires BY <1>2, <2>1, <2>2, <2>5, CurrentIncrease
  <2>6. ASSUME NEW s \in Slots, Network(s) PROVE Current'
    BY <1>2, <2>1, <2>2, <2>6, CurrentNetwork
  <2>7. ASSUME NEW s \in Slots, Lost(s) PROVE Current'
    <3>1. Network(s) BY <1>1, <2>7 DEF Missed
    <3> QED BY <3>1, <2>6
  <2>8. CASE BackBTN \/ CheckoutBTN BY <2>8 DEF BackBTN, CheckoutBTN
  <2>9. CASE Crashes \/ Relaunch \/ Elsewhere
    BY <1>1, <2>1, <2>2, <2>9, CurrentElse
  <2> QED BY <1>4, <2>3, <2>4, <2>5, <2>6, <2>7, <2>8, <2>9 DEF Next, Local
<1> QED BY <1>3, <1>4

\* On a smooth visit nothing but the screen's own requests changes the
\* server's cart, each confirmed one is followed by a fetch, and so a screen
\* at rest shows and checks out what the server holds (getMycartList).
THEOREM QuietIsCurrent == VisitSpec => []QuietScreenIsCurrent
<1>1. VisitInit => CurrentInv
  <2>1. Init => TypeOK BY TypeInit
  <2> QED BY <2>1 DEF VisitInit, Init, CurrentInv
<1>2. CurrentInv /\ [VisitNext]_visitvars => CurrentInv'
  <2> SUFFICES ASSUME CurrentInv, [VisitNext]_visitvars PROVE CurrentInv'
    OBVIOUS
  <2>1. TypeOK' BY TypeStep DEF CurrentInv, VisitNext, visitvars
  <2>2. CASE UNCHANGED visitvars
    BY <2>1, <2>2 DEF visitvars, vars, CurrentInv, Current, OneRequest, Shows
  <2>3. CASE VisitNext
    BY <2>1, <2>3, CurrentStep DEF VisitNext, CurrentInv
  <2> QED BY <2>1, <2>2, <2>3
<1>3. CurrentInv => QuietScreenIsCurrent
  BY DEF CurrentInv, Current, Shows, Quiet, QuietScreenIsCurrent, Idle
<1> QED BY <1>1, <1>2, <1>3, PTL DEF VisitSpec

-----------------------------------------------------------------------------
(* An emptied list is on its way                                           *)

\* Nobody waits for what is on its way when the screen is gone, and a cart
\* that was told to be empty stays so while the screen is there, unless a
\* product page fills it.
NoneWaits ==
  \A s \in Slots : \/ wire[s].op = "idle"
                   \/ wire[s].op = "set" /\ ~wire[s].live

EmptyIsEmpty ==
  \A s \in Slots : wire[s].op = "cart" /\ wire[s].c = Empty => cart = Empty

Coming(s) == wire[s] = Fetch \/ (wire[s].op = "cart" /\ wire[s].c # Empty)

BlankInv == /\ TypeOK
            /\ ~Alive => NoneWaits
            /\ Alive /\ visit # "filled" /\ visit # "lossy" => EmptyIsEmpty
            /\ BlankIsAwaited

\* The requests that are given up wait for nobody.
LEMMA AbandonedNoneWaits ==
  ASSUME TypeOK, wire' = Abandoned
  PROVE  NoneWaits'
<1>1. \A s \in Slots : wire[s] \in Messages BY WireTypes
<1>2. ASSUME NEW s \in Slots
      PROVE  wire'[s].op = "idle" \/ (wire'[s].op = "set" /\ ~wire'[s].live)
  <2>1. wire'[s] = IF wire[s].op = "set" THEN [wire[s] EXCEPT !.live = FALSE]
                                         ELSE Idle
    BY DEF Abandoned
  <2>2. CASE wire[s].op = "set"
    <3>1. wire[s] \in [op : {"set"}, p : Products, q : Nat, live : BOOLEAN]
      BY <1>1, <2>2 DEF Messages, Request, Reply, Idle, Fetch
    <3> QED BY <2>1, <2>2, <3>1
  <2>3. CASE wire[s].op # "set" BY <2>1, <2>3 DEF Idle
  <2> QED BY <2>2, <2>3
<1> QED BY <1>2 DEF NoneWaits

\* The list that is on its way stays so when another slot changes, and is
\* asked for when it is emptied.
LEMMA ComingStays ==
  ASSUME TypeOK, NEW s \in Slots, NEW m, wire' = [wire EXCEPT ![s] = m],
         ~Coming(s), NEW t \in Slots, Coming(t)
  PROVE  Coming(t)'
<1>1. t # s OBVIOUS
<1>2. wire'[t] = wire[t] BY <1>1, WireTypes
<1> QED BY <1>2 DEF Coming, Fetch, Empty

LEMMA AskedComes ==
  ASSUME TypeOK, NEW s \in Slots, wire' = [wire EXCEPT ![s] = Fetch]
  PROVE  Coming(s)'
<1>1. wire'[s] = Fetch BY WireTypes
<1> QED BY <1>1 DEF Coming, Fetch

LEMMA NoneWaitsStep ==
  ASSUME TypeOK, ~Alive => NoneWaits, Next, ~Alive'
  PROVE  NoneWaits'
<1>1. wire \in [Slots -> Messages] BY WireTypes
<1>2. CASE wire' = Abandoned BY <1>2, AbandonedNoneWaits
<1>3. CASE wire' # Abandoned
  <2>1. ~Alive /\ ~OpenCart
    BY <1>3 DEF Next, Local, Taps, TapPlus, TapMinus, TapRemove, Tappable,
       Additions, AddToCart, ServerAdds, AdditionLost, OpenCart, BackBTN,
       CheckoutBTN, BackToCart, Relaunch, IncreaseFires, Network, ServerSet,
       ServerList, ChangeConfirmed, ListArrives, NoListArrives, Lost, Crashes,
       IncreaseCrashes, EmptyListCrashes, Crash, Elsewhere, OrderTaken,
       PopToRoot, CrashElsewhere, Alive
  <2>2. NoneWaits BY <2>1
  <2>3. \A s \in Slots : wire[s].op \in {"idle", "set"} BY <2>2 DEF NoneWaits
  <2>4. CASE UNCHANGED wire BY <2>2, <2>4 DEF NoneWaits
  <2>5. ASSUME NEW s \in Slots, NEW m, wire' = [wire EXCEPT ![s] = m],
               m.op = "idle" \/ (m.op = "set" /\ ~m.live)
        PROVE  NoneWaits'
    <3>1. wire'[s] = m /\ \A t \in Slots : t # s => wire'[t] = wire[t]
      BY <1>1, <2>5
    <3> QED BY <2>2, <2>5, <3>1 DEF NoneWaits
  <2>6. CASE IncreaseFires
    <3>1. ASSUME NEW p, NEW q, SetQuantity(p, q) PROVE NoneWaits'
      BY <2>1, <2>5, <3>1 DEF SetQuantity, Send
    <3> QED BY <2>4, <2>6, <3>1 DEF IncreaseFires
  <2>7. ASSUME NEW s \in Slots, Network(s) PROVE NoneWaits'
    <3>1. ServerSet(s)
      BY <2>3, <2>7 DEF Network, ServerList, ChangeConfirmed, ListArrives,
         NoListArrives, Fetch
    <3>2. wire' = [wire EXCEPT ![s] = Idle]
      BY <2>2, <3>1 DEF ServerSet, NoneWaits
    <3> QED BY <2>5, <3>2 DEF Idle
  <2>8. ASSUME NEW s \in Slots, Lost(s) PROVE NoneWaits'
    BY <2>5, <2>8 DEF Lost, Idle
  <2>9. ASSUME NEW p \in Products, Additions(p) \/ Taps(p) PROVE NoneWaits'
    BY <2>1, <2>4, <2>9 DEF Additions, AddToCart, ServerAdds, AdditionLost,
       Taps, TapPlus, TapMinus, TapRemove, Tappable, Alive
  <2>10. CASE OpenCart \/ BackBTN \/ CheckoutBTN \/ BackToCart
    BY <2>1, <2>10 DEF BackBTN, CheckoutBTN, BackToCart, Alive
  <2>11. CASE Crashes \/ Relaunch \/ Elsewhere
    BY <1>3, <2>1, <2>4, <2>11 DEF Crashes, IncreaseCrashes, EmptyListCrashes,
       Crash, Relaunch, Elsewhere, OrderTaken, PopToRoot, CrashElsewhere
  <2> QED BY <2>6, <2>7, <2>8, <2>9, <2>10, <2>11 DEF Next, Local
<1> QED BY <1>2, <1>3

\* Nothing but a product page adds products under the cart's screen.
LEMMA StaysEmpty ==
  ASSUME TypeOK, Alive, Next, cart = Empty
  PROVE  cart' = Empty \/ \E p \in Products : ServerAdds(p)
<1>1. ASSUME NEW s \in Slots, ServerSet(s) PROVE cart' = Empty
  <2>1. wire[s].p \in Products BY <1>1, WireTypes, MessageParts DEF ServerSet
  <2>2. cart[wire[s].p] = 0 BY <2>1 DEF Empty
  <2> QED BY <1>1, <2>2 DEF ServerSet
<1>2. CASE OrderTaken
  BY <1>2 DEF OrderTaken, Empty
<1>3. CASE UNCHANGED cart BY <1>3
<1> QED BY <1>1, <1>2, <1>3 DEF Next, Local, Taps, TapPlus, TapMinus,
       TapRemove, Additions, AddToCart, AdditionLost, OpenCart, BackBTN,
       CheckoutBTN, BackToCart, Relaunch, IncreaseFires, Network, ServerList,
       ChangeConfirmed, ListArrives, NoListArrives, Lost, Crashes,
       IncreaseCrashes, EmptyListCrashes, Crash, Elsewhere, PopToRoot,
       CrashElsewhere, Alive

\* The step of a visit that no late addition or loss has touched: an empty
\* cart stays empty, or is filled while its fetch alone is on its way.
LEMMA StaysTold ==
  ASSUME TypeOK, Alive, Next, Observe, visit' # "filled", visit' # "lossy"
  PROVE  /\ visit # "filled" /\ visit # "lossy"
         /\ cart = Empty /\ cart' # Empty =>
              /\ \E p \in Products : ServerAdds(p)
              /\ \A s \in Slots : wire[s].op # "cart"
              /\ \E s \in Slots : wire[s] = Fetch
<1>1. screen # "closed" BY DEF Alive
<1>2. visit # "filled" /\ visit # "lossy" /\ ~Filled BY <1>1 DEF Observe
<1> QED BY <1>2, StaysEmpty DEF Filled

LEMMA EmptyIsEmptyStep ==
  ASSUME TypeOK, ~Alive => NoneWaits, Next, Observe, Alive',
         Alive /\ visit # "filled" /\ visit # "lossy" => EmptyIsEmpty,
         visit' # "filled", visit' # "lossy"
  PROVE  EmptyIsEmpty'
<1>1. wire \in [Slots -> Messages] BY WireTypes
<1>2. EmptyIsEmpty BY StaysTold DEF NoneWaits, EmptyIsEmpty
<1>3. Alive \/ (OpenCart /\ NoneWaits)
  BY DEF Next, Local, Taps, TapPlus, TapMinus, TapRemove, Tappable, Additions,
     AddToCart, ServerAdds, AdditionLost, BackBTN, CheckoutBTN, BackToCart,
     Relaunch, IncreaseFires, Network, ServerSet, ServerList, ChangeConfirmed,
     ListArrives, NoListArrives, Lost, Crashes, IncreaseCrashes,
     EmptyListCrashes, Crash, Elsewhere, OrderTaken, PopToRoot, CrashElsewhere,
     Alive
<1>5. (\A s \in Slots : wire[s].op # "cart") \/ (cart = Empty => cart' = Empty)
  BY <1>3, StaysTold DEF NoneWaits
<1>6. CASE UNCHANGED wire BY <1>2, <1>5, <1>6 DEF EmptyIsEmpty
<1>7. ASSUME NEW s \in Slots, NEW m, wire' = [wire EXCEPT ![s] = m],
             m.op = "cart" => m.c = cart /\ cart' = cart
      PROVE  EmptyIsEmpty'
  <2>1. wire'[s] = m /\ \A t \in Slots : t # s => wire'[t] = wire[t]
    BY <1>1, <1>7
  <2> QED BY <1>2, <1>5, <1>7, <2>1 DEF EmptyIsEmpty
<1>8. ASSUME NEW p, NEW q, SetQuantity(p, q) PROVE EmptyIsEmpty'
  BY <1>7, <1>8 DEF SetQuantity, Send
<1>9. ASSUME NEW s \in Slots, GetMycartList(s) PROVE EmptyIsEmpty'
  BY <1>7, <1>9 DEF GetMycartList, Fetch
<1>10. ASSUME NEW s \in Slots, wire' = [wire EXCEPT ![s] = Idle]
       PROVE  EmptyIsEmpty'
  BY <1>7, <1>10 DEF Idle
<1>11. ASSUME NEW s \in Slots, Network(s) \/ Lost(s) PROVE EmptyIsEmpty'
  <2>1. CASE ServerSet(s)
    <3>1. CASE wire' = [wire EXCEPT ![s] = [op |-> "ok"]] BY <1>7, <3>1
    <3> QED BY <1>10, <2>1, <3>1 DEF ServerSet
  <2>2. CASE ServerList(s) BY <1>7, <2>2 DEF ServerList
  <2> QED BY <1>9, <1>10, <1>11, <2>1, <2>2 DEF Network, Lost, ChangeConfirmed,
          ListArrives, NoListArrives
<1>12. ASSUME NEW p \in Products, Additions(p) \/ Taps(p) PROVE EmptyIsEmpty'
  BY <1>6, <1>8, <1>12 DEF Additions, AddToCart, ServerAdds, AdditionLost,
     Taps, TapPlus, TapMinus, TapRemove
<1>13. CASE IncreaseFires BY <1>6, <1>8, <1>13 DEF IncreaseFires
<1>14. CASE OpenCart \/ BackBTN \/ CheckoutBTN \/ BackToCart
  BY <1>6, <1>9, <1>14 DEF OpenCart, BackBTN, CheckoutBTN, BackToCart, Appear,
     Alive
<1>15. CASE Crashes \/ Relaunch \/ Elsewhere
  BY <1>6, <1>15 DEF Crashes, IncreaseCrashes, EmptyListCrashes, Crash,
     Relaunch, Elsewhere, OrderTaken, PopToRoot, CrashElsewhere, Alive
<1> QED BY <1>11, <1>12, <1>13, <1>14, <1>15 DEF Next, Local

\* A slot that carries no list changes: the one that comes still does.
LEMMA OtherSlot ==
  ASSUME TypeOK, \E t \in Slots : Coming(t),
         NEW s \in Slots, NEW m, wire' = [wire EXCEPT ![s] = m], ~Coming(s)
  PROVE  \E t \in Slots : Coming(t)'
<1>1. PICK t \in Slots : Coming(t) OBVIOUS
<1>2. Coming(t)' BY <1>1, ComingStays
<1> QED BY <1>2

LEMMA ComingNetwork ==
  ASSUME TypeOK, EmptyIsEmpty, cart # Empty, list' = Empty,
         list = Empty => \E t \in Slots : Coming(t),
         NEW s \in Slots, Network(s)
  PROVE  \E t \in Slots : Coming(t)'
<1>1. CASE ServerSet(s)
  <2>1. list = Empty /\ ~Coming(s) BY <1>1 DEF ServerSet, Coming, Fetch
  <2>2. CASE wire' = [wire EXCEPT ![s] = [op |-> "ok"]] BY <2>1, <2>2, OtherSlot
  <2>3. CASE wire' = [wire EXCEPT ![s] = Idle] BY <2>1, <2>3, OtherSlot
  <2> QED BY <1>1, <2>2, <2>3 DEF ServerSet
<1>2. CASE ServerList(s)
  <2>1. wire'[s] = [op |-> "cart", c |-> cart]
    BY <1>2, WireTypes DEF ServerList
  <2>2. Coming(s)' BY <2>1 DEF Coming, Empty
  <2> QED BY <2>2
<1>3. CASE ChangeConfirmed(s)
  BY <1>3, AskedComes DEF ChangeConfirmed, GetMycartList
<1>4. ~ListArrives(s) BY DEF ListArrives
<1>5. ~NoListArrives(s) BY DEF NoListArrives, EmptyIsEmpty
<1> QED BY <1>1, <1>2, <1>3, <1>4, <1>5 DEF Network

LEMMA BlankStep ==
  ASSUME TypeOK, BlankIsAwaited, Next, Observe,
         Alive /\ visit # "filled" /\ visit # "lossy" => EmptyIsEmpty
  PROVE  BlankIsAwaited'
<1> SUFFICES ASSUME screen' = "cart", list' = Empty, cart' # Empty',
                    visit' # "filled", visit' # "lossy"
             PROVE  \E t \in Slots : Coming(t)'
  BY DEF BlankIsAwaited, Coming, Fetch
<1>1. ~Missed BY DEF Observe
<1>2. Empty' = Empty BY DEF Empty
<1>3. CASE OpenCart \/ BackToCart
  <2>1. screen # "cart" BY <1>3 DEF OpenCart, BackToCart
  <2>2. ~(UNCHANGED wire) BY <1>1, <2>1 DEF Missed
  <2>3. \E s \in Slots : wire' = [wire EXCEPT ![s] = Fetch]
    BY <1>3, <2>2 DEF OpenCart, BackToCart, Appear, GetMycartList
  <2> QED BY <2>3, AskedComes
<1>4. CASE ~(OpenCart \/ BackToCart)
  <2>1. screen = "cart"
    BY <1>4 DEF Next, Local, Taps, TapPlus, TapMinus, TapRemove, Additions,
       AddToCart, ServerAdds, AdditionLost, BackBTN, CheckoutBTN, Relaunch,
       IncreaseFires, Network, ServerSet, ServerList, ChangeConfirmed,
       ListArrives, NoListArrives, Lost, Crashes, IncreaseCrashes,
       EmptyListCrashes, Crash, Elsewhere, OrderTaken, PopToRoot,
       CrashElsewhere
  <2>2. visit # "filled" /\ visit # "lossy" /\ EmptyIsEmpty
    BY <2>1, StaysTold DEF Alive
  <2>3. CASE cart = Empty
    <3>1. PICK p \in Products : ServerAdds(p)
      BY <1>2, <2>1, <2>3, StaysTold DEF Alive
    <3>2. PICK s \in Slots : wire[s] = Fetch
      BY <1>2, <2>1, <2>3, StaysTold DEF Alive
    <3>3. wire'[s] = Fetch BY <3>1, <3>2 DEF ServerAdds
    <3> QED BY <3>3 DEF Coming, Fetch
  <2> SUFFICES ASSUME cart # Empty PROVE \E t \in Slots : Coming(t)'
    BY <2>3
  <2>4. list = Empty => \E t \in Slots : Coming(t)
    BY <2>1, <2>2 DEF BlankIsAwaited, Coming
  <2>5. ASSUME NEW s \in Slots, Network(s) PROVE \E t \in Slots : Coming(t)'
    BY <2>2, <2>4, <2>5, ComingNetwork
  <2>6. ASSUME NEW s \in Slots, Lost(s) PROVE \E t \in Slots : Coming(t)'
    BY <1>1, <2>5, <2>6 DEF Missed
  <2>7. CASE UNCHANGED <<list, wire>>
    BY <2>4, <2>7 DEF Coming, Fetch, Empty
  <2>8. ASSUME NEW p, NEW q, SetQuantity(p, q), list' = list
        PROVE  \E t \in Slots : Coming(t)'
    <3>1. PICK s \in Slots :
            /\ wire[s] = Idle
            /\ wire' = [wire EXCEPT ![s] =
                          [op |-> "set", p |-> p, q |-> q, live |-> Alive]]
      BY <2>8 DEF SetQuantity, Send
    <3>2. ~Coming(s) BY <3>1 DEF Coming, Idle, Fetch
    <3> QED BY <2>4, <2>8, <3>1, <3>2, OtherSlot
  <2>9. ASSUME NEW p \in Products, Additions(p) \/ Taps(p)
        PROVE  \E t \in Slots : Coming(t)'
    BY <2>7, <2>8, <2>9 DEF Additions, AddToCart, ServerAdds, AdditionLost,
       Taps, TapPlus, TapMinus, TapRemove
  <2>10. CASE IncreaseFires BY <2>7, <2>8, <2>10 DEF IncreaseFires
  <2>11. CASE BackBTN \/ CheckoutBTN BY <2>11 DEF BackBTN, CheckoutBTN
  <2>12. CASE Crashes \/ Relaunch \/ Elsewhere
    BY <2>1, <2>7, <2>12 DEF Crashes, IncreaseCrashes, EmptyListCrashes, Crash,
       Relaunch, Elsewhere, OrderTaken, PopToRoot, CrashElsewhere
  <2> QED BY <1>4, <2>5, <2>6, <2>9, <2>10, <2>11, <2>12 DEF Next, Local
<1> QED BY <1>3, <1>4

\* Whatever changes are confirmed in whatever order, a list that was emptied
\* is on its way to be filled, unless something was lost or a product page's
\* addition came too late for the fetch: a confirmation asks for the list and
\* only its own reply ends the wait (getMycartList).
THEOREM BlanksAreAwaited == VisitSpec => []BlankIsAwaited
<1>1. VisitInit => BlankInv
  <2>1. Init => TypeOK BY TypeInit
  <2> QED BY <2>1
          DEF VisitInit, Init, BlankInv, Alive, NoneWaits, Idle, BlankIsAwaited
<1>2. BlankInv /\ [VisitNext]_visitvars => BlankInv'
  <2> SUFFICES ASSUME BlankInv, [VisitNext]_visitvars PROVE BlankInv'
    OBVIOUS
  <2>1. TypeOK' BY TypeStep DEF BlankInv, VisitNext, visitvars
  <2>2. CASE UNCHANGED visitvars
    BY <2>1, <2>2 DEF visitvars, vars, BlankInv, Alive, NoneWaits,
       EmptyIsEmpty, BlankIsAwaited, Empty, Fetch
  <2>3. CASE VisitNext
    <3>1. Next /\ Observe BY <2>3 DEF VisitNext
    <3>2. ~Alive' => NoneWaits' BY <3>1, NoneWaitsStep DEF BlankInv
    <3>3. Alive' /\ visit' # "filled" /\ visit' # "lossy" => EmptyIsEmpty'
      BY <3>1, EmptyIsEmptyStep DEF BlankInv
    <3>4. BlankIsAwaited' BY <3>1, BlankStep DEF BlankInv
    <3> QED BY <2>1, <3>2, <3>3, <3>4 DEF BlankInv
  <2> QED BY <2>2, <2>3
<1>3. BlankInv => BlankIsAwaited BY DEF BlankInv
<1> QED BY <1>1, <1>2, <1>3, PTL DEF VisitSpec
=============================================================================
