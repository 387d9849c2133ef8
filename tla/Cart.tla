-------------------------------- MODULE Cart --------------------------------
(***************************************************************************)
(* The cart screen (HR_MyCartVC, HR_MyCartVM) and the server's cart.       *)
(*                                                                         *)
(* Every change is a request; a confirmed change makes the view model      *)
(* empty its list and fetch it again, without redrawing the table, whose   *)
(* cells can still be tapped.  Requests are not serialised: several may be *)
(* on their way, and their replies overtake each other.  A tap on + does   *)
(* its work 0.3 s later, for the row it was on, whatever the list holds by *)
(* then and whichever screen is on top.  A product page asks for one piece *)
(* of its product; the cart can be opened before the server has added it.  *)
(*                                                                         *)
(* Abstractions.  A cart is a function from products to quantities, 0 for  *)
(* those it does not hold; rows follow the order of the products.  The user*)
(* is verified.  The 0.3 s are over before the cart is opened again.  One  *)
(* addition of a product is under way at a time.  The server is external:  *)
(* it stores what it is asked to store for a product the cart holds and    *)
(* refuses it for any other, and adds one piece of a product only to a cart*)
(* that does not hold it.                                                  *)
(***************************************************************************)
EXTENDS Naturals, FiniteSets, Sequences, Functions

CONSTANTS
  Products,    \* the products of the catalogue, numbered
  Unit,        \* points one piece of a product costs
  Balance,     \* points to spend, as stored when the screen was created
  Slots,       \* bound: requests on their way at a time
  MaxDelayed,  \* bound: taps on + that wait for their 0.3 s
  MaxAdding,   \* bound: additions of product pages under way at a time
  Failures,    \* whether requests and replies may be lost
  EmptyArrays, \* whether the server may answer [] for an empty cart, not null
  Redeems      \* whether the screens above the cart redeem it

ASSUME ProductsAssumption == Products \subseteq Nat /\ IsFiniteSet(Products)
ASSUME UnitAssumption == Unit \in [Products -> Nat \ {0}]
ASSUME BalanceAssumption == Balance \in Nat
ASSUME BoundsAssumption == /\ MaxDelayed \in Nat \ {0} /\ MaxAdding \in Nat
                           /\ Failures \in BOOLEAN /\ EmptyArrays \in BOOLEAN
                           /\ Redeems \in BOOLEAN

VARIABLES
  cart,         \* the server's cart
  screen,       \* "closed", "cart", "address" (pushed over the cart), "crashed"
  list,         \* myCartListArray
  shown,        \* the rows the table last drew
  tableHidden,  \* myCartTableView.isHidden: never taken back
  checkoutView, \* the checkout button is visible
  sum,          \* sumOfProductsCount
  delayed,      \* rows of the taps on + whose 0.3 s are not over
  wire,         \* what each slot carries
  adding        \* the products that product pages have asked to be added

vars == <<cart, screen, list, shown, tableHidden, checkoutView, sum, delayed,
          wire, adding>>

AllCarts == [Products -> Nat]

Empty == [p \in Products |-> 0]

Held(c) == {p \in Products : c[p] > 0}

\* SumOfTotalPointsRequired of a cart: every item of it carries the total.
Total(c) == SumFunction([p \in Products |-> c[p] * Unit[p]])

\* Mutant of RowOf: rows are counted from 0.
RowOfFromZero(c, p) == Cardinality({q \in Held(c) : q < p})

\* The row of p in a table that shows c; the product in row r of it.
RowOf(c, p) == Cardinality({q \in Held(c) : q <= p})
Rows(c) == Cardinality(Held(c))
At(c, r) == CHOOSE p \in Held(c) : RowOf(c, p) = r

Idle == [op |-> "idle"]
Fetch == [op |-> "list"]

\* "set" asks for q pieces of p, 0 to remove it; nobody waits for the reply
\* of one that is not live.  "ok" is its returnMessage "1", "cart" the list.
Request == {Idle, Fetch}
           \cup [op : {"set"}, p : Products, q : Nat, live : BOOLEAN]
Reply == {[op |-> "ok"]} \cup [op : {"cart"}, c : AllCarts]

TypeOK ==
  /\ cart \in AllCarts /\ list \in AllCarts /\ shown \in AllCarts
  /\ screen \in {"closed", "cart", "address", "crashed"}
  /\ tableHidden \in BOOLEAN /\ checkoutView \in BOOLEAN
  /\ sum \in Nat
  /\ delayed \in Seq(1 .. Cardinality(Products)) /\ Len(delayed) <= MaxDelayed
  /\ wire \in [Slots -> Request \cup Reply]
  /\ adding \in SUBSET Products

Alive == screen \in {"cart", "address"}

Init ==
  /\ cart = Empty /\ list = Empty /\ shown = Empty
  /\ screen = "closed" /\ tableHidden = FALSE /\ checkoutView = TRUE
  /\ sum = 0 /\ delayed = <<>>
  /\ wire = [s \in Slots |-> Idle] /\ adding = {}

-----------------------------------------------------------------------------
(* Helpers                                                                 *)

\* request m leaves in an idle slot.
Send(m) == \E s \in Slots : wire[s] = Idle /\ wire' = [wire EXCEPT ![s] = m]

SetQuantity(p, q) ==
  Send([op |-> "set", p |-> p, q |-> q, live |-> Alive])

\* The requests the server may still carry out after the screen is gone.
Abandoned ==
  [s \in Slots |-> IF wire[s].op = "set" THEN [wire[s] EXCEPT !.live = FALSE]
                                         ELSE Idle]

\* getMycartList: the list is emptied and asked for, the table not redrawn.
GetMycartList(s) == /\ list' = Empty
                    /\ wire' = [wire EXCEPT ![s] = Fetch]

\* viewWillAppear: asks for the list when online.
Appear == \/ \E s \in Slots : wire[s] = Idle /\ GetMycartList(s)
          \/ Failures /\ UNCHANGED <<list, wire>>

Crash == /\ screen' = "crashed" /\ delayed' = <<>>
         /\ wire' = Abandoned

-----------------------------------------------------------------------------
(* The catalogue and the screens                                           *)

\* addToCartButton of the product page sends the request; the total it adds
\* the price to is 0 as long as it has not read the cart.
AddToCart(p) ==
  /\ screen = "closed" /\ Unit[p] <= Balance
  /\ p \notin adding /\ Cardinality(adding) < MaxAdding
  /\ adding' = adding \cup {p}
  /\ UNCHANGED <<cart, screen, list, shown, tableHidden, checkoutView, sum,
                 delayed, wire>>

\* The server adds the product, whichever screen is on top by then.
ServerAdds(p) ==
  /\ p \in adding /\ adding' = adding \ {p}
  /\ cart' = IF cart[p] = 0 THEN [cart EXCEPT ![p] = 1] ELSE cart
  /\ UNCHANGED <<screen, list, shown, tableHidden, checkoutView, sum, delayed,
                 wire>>

\* The request of the product page does not arrive.
AdditionLost(p) ==
  /\ Failures /\ p \in adding /\ adding' = adding \ {p}
  /\ UNCHANGED <<cart, screen, list, shown, tableHidden, checkoutView, sum,
                 delayed, wire>>

\* viewDidLoad and viewWillAppear of a new screen.
OpenCart ==
  /\ screen = "closed" /\ delayed = <<>>
  /\ screen' = "cart" /\ shown' = Empty
  /\ tableHidden' = FALSE /\ checkoutView' = TRUE /\ sum' = 0
  /\ \/ \E s \in Slots : wire[s] = Idle /\ GetMycartList(s)
     \/ Failures /\ list' = Empty /\ UNCHANGED wire
  /\ UNCHANGED <<cart, delayed, adding>>

BackBTN ==
  /\ screen = "cart" /\ screen' = "closed"
  /\ wire' = Abandoned
  /\ UNCHANGED <<cart, list, shown, tableHidden, checkoutView, sum, delayed,
                 adding>>

\* Mutant of CheckoutBTN: the balance is not tested.
CheckoutBTNUnchecked ==
  /\ screen = "cart" /\ checkoutView
  /\ screen' = "address"
  /\ UNCHANGED <<cart, list, shown, tableHidden, checkoutView, sum, delayed,
                 wire, adding>>

\* checkoutBTN: the address screen is pushed over the cart.
CheckoutBTN ==
  /\ screen = "cart" /\ checkoutView /\ sum <= Balance
  /\ screen' = "address"
  /\ UNCHANGED <<cart, list, shown, tableHidden, checkoutView, sum, delayed,
                 wire, adding>>

\* Back from the address screen: viewWillAppear.
BackToCart ==
  /\ screen = "address" /\ screen' = "cart"
  /\ Appear
  /\ UNCHANGED <<cart, shown, tableHidden, checkoutView, sum, delayed, adding>>

\* The application is started again.
Relaunch ==
  /\ screen = "crashed" /\ screen' = "closed"
  /\ UNCHANGED <<cart, list, shown, tableHidden, checkoutView, sum, delayed,
                 wire, adding>>

-----------------------------------------------------------------------------
(* The buttons of a row                                                    *)

Tappable(p) == screen = "cart" /\ ~tableHidden /\ p \in Held(shown)

\* increaseProductQty: the table is redrawn, the rest waits for 0.3 s.
TapPlus(p) ==
  /\ Tappable(p) /\ Len(delayed) < MaxDelayed
  /\ delayed' = Append(delayed, RowOf(shown, p))
  /\ shown' = list
  /\ UNCHANGED <<cart, screen, list, tableHidden, checkoutView, sum, wire,
                 adding>>

Affordable(p) == /\ Total(list) <= Balance
                 /\ Total(list) + Unit[p] <= Balance

\* Mutant of IncreaseFires: the price of the new piece is not added.
IncreaseFiresUnchecked ==
  /\ delayed # <<>> /\ Head(delayed) <= Rows(list)
  /\ LET p == At(list, Head(delayed)) IN
       IF Total(list) <= Balance THEN SetQuantity(p, list[p] + 1)
                                 ELSE UNCHANGED wire
  /\ delayed' = Tail(delayed)
  /\ UNCHANGED <<cart, screen, list, shown, tableHidden, checkoutView, sum,
                 adding>>

\* The 0.3 s are over: the row's product as of now gets one more piece, or
\* the user is told that the balance is insufficient.
IncreaseFires ==
  /\ delayed # <<>> /\ Head(delayed) <= Rows(list)
  /\ LET p == At(list, Head(delayed)) IN
       IF Affordable(p) THEN SetQuantity(p, list[p] + 1) ELSE UNCHANGED wire
  /\ delayed' = Tail(delayed)
  /\ UNCHANGED <<cart, screen, list, shown, tableHidden, checkoutView, sum,
                 adding>>

\* myCartListArray[row] where the list has no such row.
IncreaseCrashes ==
  /\ delayed # <<>> /\ Head(delayed) > Rows(list)
  /\ Crash
  /\ UNCHANGED <<cart, list, shown, tableHidden, checkoutView, sum, adding>>

\* decreaseProductQty sends one piece less when the total and the quantity
\* allow it; the rest of it only redraws the table.
Decreasable(p) ==
  /\ Total(list) <= Balance
  /\ Total(list) - Unit[p] >= Unit[p]
  /\ list[p] > 1

TapMinus(p) ==
  /\ Tappable(p)
  /\ IF list # Empty /\ Decreasable(p) THEN SetQuantity(p, list[p] - 1)
                                       ELSE UNCHANGED wire
  /\ shown' = list
  /\ UNCHANGED <<cart, screen, list, tableHidden, checkoutView, sum, delayed,
                 adding>>

\* removeProductsList: nothing happens while the list is empty.
TapRemove(p) ==
  /\ Tappable(p) /\ list # Empty
  /\ SetQuantity(p, 0)
  /\ shown' = list
  /\ UNCHANGED <<cart, screen, list, tableHidden, checkoutView, sum, delayed,
                 adding>>

-----------------------------------------------------------------------------
(* The server                                                              *)

ServerSet(s) ==
  /\ wire[s].op = "set"
  /\ LET m == wire[s]
         known == cart[m.p] > 0
     IN /\ cart' = IF known THEN [cart EXCEPT ![m.p] = m.q] ELSE cart
        /\ wire' = [wire EXCEPT ![s] =
                      IF known /\ m.live THEN [op |-> "ok"] ELSE Idle]
  /\ UNCHANGED <<screen, list, shown, tableHidden, checkoutView, sum, delayed,
                 adding>>

ServerList(s) ==
  /\ wire[s] = Fetch
  /\ wire' = [wire EXCEPT ![s] = [op |-> "cart", c |-> cart]]
  /\ UNCHANGED <<cart, screen, list, shown, tableHidden, checkoutView, sum,
                 delayed, adding>>

\* A request does not arrive, or its reply: the spinner is stopped, no more.
Lost(s) ==
  /\ Failures /\ wire[s] # Idle
  /\ wire' = [wire EXCEPT ![s] = Idle]
  /\ UNCHANGED <<cart, screen, list, shown, tableHidden, checkoutView, sum,
                 delayed, adding>>

-----------------------------------------------------------------------------
(* Replies                                                                 *)

\* Mutant of ChangeConfirmed: the list is emptied but not asked for.
ChangeConfirmedNoFetch(s) ==
  /\ wire[s].op = "ok"
  /\ list' = Empty /\ wire' = [wire EXCEPT ![s] = Idle]
  /\ UNCHANGED <<cart, screen, shown, tableHidden, checkoutView, sum, delayed,
                 adding>>

\* Mutant of ChangeConfirmed: the list shown is kept and nothing is fetched.
ChangeConfirmedQuietly(s) ==
  /\ wire[s].op = "ok"
  /\ wire' = [wire EXCEPT ![s] = Idle]
  /\ UNCHANGED <<cart, screen, list, shown, tableHidden, checkoutView, sum,
                 delayed, adding>>

\* The completions of increaseProductApi and removeProduct.
ChangeConfirmed(s) ==
  /\ wire[s].op = "ok"
  /\ GetMycartList(s)
  /\ UNCHANGED <<cart, screen, shown, tableHidden, checkoutView, sum, delayed,
                 adding>>

\* Mutant of ListArrives: the table is not redrawn.
ListArrivesUnseen(s) ==
  /\ wire[s].op = "cart" /\ wire[s].c # Empty
  /\ list' = wire[s].c /\ sum' = Total(list')
  /\ checkoutView' = TRUE
  /\ wire' = [wire EXCEPT ![s] = Idle]
  /\ UNCHANGED <<cart, screen, shown, tableHidden, delayed, adding>>

\* The completion of getMycartList.
ListArrives(s) ==
  /\ wire[s].op = "cart" /\ wire[s].c # Empty
  /\ list' = wire[s].c /\ shown' = list' /\ sum' = Total(list')
  /\ checkoutView' = TRUE
  /\ wire' = [wire EXCEPT ![s] = Idle]
  /\ UNCHANGED <<cart, screen, tableHidden, delayed, adding>>

\* An empty cart, told by null: no rows, no checkout button.
NoListArrives(s) ==
  /\ wire[s].op = "cart" /\ wire[s].c = Empty
  /\ list' = Empty /\ sum' = 0
  /\ tableHidden' = TRUE /\ checkoutView' = FALSE
  /\ wire' = [wire EXCEPT ![s] = Idle]
  /\ UNCHANGED <<cart, screen, shown, delayed, adding>>

\* An empty cart, told by []: its first element is asked for.
EmptyListCrashes(s) ==
  /\ EmptyArrays /\ wire[s].op = "cart" /\ wire[s].c = Empty
  /\ Crash /\ list' = Empty
  /\ UNCHANGED <<cart, shown, tableHidden, checkoutView, sum, adding>>

-----------------------------------------------------------------------------
(* What the screens above the cart do: RedemptionOTP                       *)

\* An order is taken: the cart loses products.
OrderTaken ==
  /\ \E ps \in SUBSET Products :
       cart' = [p \in Products |-> IF p \in ps THEN 0 ELSE cart[p]]
  /\ UNCHANGED <<screen, list, shown, tableHidden, checkoutView, sum, delayed,
                 wire, adding>>

\* The success screen leads back to the root.
PopToRoot ==
  /\ screen = "address" /\ screen' = "closed"
  /\ wire' = Abandoned
  /\ UNCHANGED <<cart, list, shown, tableHidden, checkoutView, sum, delayed,
                 adding>>

CrashElsewhere ==
  /\ screen # "crashed" /\ Crash
  /\ UNCHANGED <<cart, list, shown, tableHidden, checkoutView, sum, adding>>

-----------------------------------------------------------------------------
Taps(p) == TapPlus(p) \/ TapMinus(p) \/ TapRemove(p)

Additions(p) == AddToCart(p) \/ ServerAdds(p) \/ AdditionLost(p)

Network(s) == \/ ServerSet(s) \/ ServerList(s)
              \/ ChangeConfirmed(s) \/ ListArrives(s) \/ NoListArrives(s)

Local == \/ OpenCart \/ BackBTN \/ CheckoutBTN \/ BackToCart \/ IncreaseFires
         \/ \E p \in Products : Additions(p) \/ Taps(p)
         \/ \E s \in Slots : Network(s) \/ Lost(s)

Crashes == IncreaseCrashes \/ \E s \in Slots : EmptyListCrashes(s)

Elsewhere == Redeems /\ (OrderTaken \/ PopToRoot \/ CrashElsewhere)

Next == Local \/ Crashes \/ Relaunch \/ Elsewhere

Spec == Init /\ [][Next]_vars

-----------------------------------------------------------------------------
(* Properties                                                              *)

\* Whatever is tapped while lists are stale, replies overtake each other and
\* delayed taps hit other rows, the server never holds more pieces of a
\* product than the balance pays for (the tests of increaseProductQty).
EachWithinBalance == \A p \in Products : cart[p] * Unit[p] <= Balance

\* A row that can be tapped and the row of the list it stands for are the
\* same product, or the list is empty: the buttons index the list by the
\* cell's row (tappedIndexPath.row), and only some changes of the list redraw
\* the cells.
CellsMatchList ==
  screen = "cart" /\ ~tableHidden /\ list # Empty => shown = list

\* Nothing is on its way.
Quiet == delayed = <<>> /\ \A s \in Slots : wire[s] = Idle
=============================================================================
