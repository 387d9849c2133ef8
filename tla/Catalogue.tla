------------------------------ MODULE Catalogue ------------------------------
(***************************************************************************)
(* The redemption catalogue (HR_RedemptionCatalogueVC,                     *)
(* HR_RedemptionCatalogueListVM): products of the chosen category, range   *)
(* of points or search text, fetched page by page as the user scrolls.     *)
(*                                                                         *)
(* A choice empties the list and asks for its first page, some choices at  *)
(* once, others at the end of a chain: the cart, then the categories, then *)
(* the page - of whatever choice and page number the screen holds by then. *)
(* A page that arrives is appended to whatever the list holds by then; an  *)
(* empty one sets the page number back and stops the scrolling.            *)
(*                                                                         *)
(* Abstractions.  A filter stands for all a request says but the page      *)
(* number: category, range, sorting, search text (which stays in its field *)
(* when the mode changes, so any filter may follow any).  The products of  *)
(* a filter do not change.  Whether a product can be afforded or planned   *)
(* is left open.  The badge and the planner marks, fetched after a page,   *)
(* are one request that redraws the list.  The 0.3 s of a tap are over     *)
(* before the screen is left.                                              *)
(***************************************************************************)
EXTENDS Naturals, FiniteSets, Sequences

CONSTANTS
  Filters,     \* the choices
  Total,       \* how many products each has
  PageRows,    \* NoOfRows, the products of a full page (10)
  Slots,       \* bound: chains of requests on their way at a time
  MaxIndex,    \* bound: the page number, raised also for pages that get lost
  MaxRows,     \* bound: rows beyond which the user does not scroll
  Failures,    \* whether requests may be lost and the phone offline
  EmptyArrays  \* whether the server may answer [] for an empty cart, not null

ASSUME TotalAssumption == Total \in [Filters -> Nat]
ASSUME PageAssumption == PageRows \in Nat \ {0}
ASSUME BoundsAssumption == /\ MaxIndex \in Nat \ {0} /\ MaxRows \in Nat
                           /\ Failures \in BOOLEAN /\ EmptyArrays \in BOOLEAN

VARIABLES
  screen,        \* "closed", "open", "details", "cart" (above it), "crashed"
  filter,        \* itsFrom, categoryId, selectedPtsRange, sortedBy, the text
  startIndex,    \* the page asked for last
  noofelements,  \* rows, as of the last page; below PageRows: no more pages
  list,          \* catalgoueListArray
  dataSource,    \* the collection view has been told where its rows are
  cells,         \* how many cells the collection view last drew
  display,       \* "waiting", "rows", "none" ("No data found")
  delayed,       \* the 0.3 s of a tap on "Add to Cart" are not over
  wire           \* what each slot waits for

vars == <<screen, filter, startIndex, noofelements, list, dataSource, cells,
          display, delayed, wire>>

Rows == [of : Filters, n : Nat]

\* The rows of page i of f.
Page(f, i) ==
  LET before == (i - 1) * PageRows
      left   == IF Total[f] > before THEN Total[f] - before ELSE 0
  IN [k \in 1 .. (IF left < PageRows THEN left ELSE PageRows) |->
        [of |-> f, n |-> before + k]]

Idle == [op |-> "idle"]
Cart == [op |-> "cart"]
List(f, i) == [op |-> "list", of |-> f, index |-> i]

\* "late": the rest of a chain whose screen has been released.
Waits == [op : {"idle", "cart", "category", "add", "marks", "late"}]
         \cup [op : {"list"}, of : Filters, index : 1 .. MaxIndex]

TypeOK ==
  /\ screen \in {"closed", "open", "details", "cart", "crashed"}
  /\ filter \in Filters
  /\ startIndex \in 1 .. MaxIndex /\ noofelements \in Nat
  /\ list \in Seq(Rows) /\ dataSource \in BOOLEAN /\ cells \in Nat
  /\ display \in {"waiting", "rows", "none"}
  /\ delayed \in BOOLEAN
  /\ wire \in [Slots -> Waits]

Alive == screen \in {"open", "details", "cart"}

Init ==
  /\ screen = "closed" /\ filter \in Filters
  /\ startIndex = 1 /\ noofelements = 0
  /\ list = <<>> /\ dataSource = FALSE /\ cells = 0
  /\ display = "waiting" /\ delayed = FALSE
  /\ wire = [s \in Slots |-> Idle]

-----------------------------------------------------------------------------
(* Helpers                                                                 *)

\* What reloadData draws: nothing as long as nobody tells what the rows are.
Drawn(rows) == IF dataSource THEN Len(rows) ELSE 0

Send(m) == \E s \in Slots : wire[s] = Idle /\ wire' = [wire EXCEPT ![s] = m]

\* The screen is released: a chain that still has the categories to come
\* will look for it.
Release ==
  /\ delayed' = FALSE
  /\ wire' = [s \in Slots |->
       IF wire[s].op \in {"cart", "category", "add", "late"}
         THEN [op |-> "late"] ELSE Idle]

Crash ==
  /\ screen' = "crashed" /\ delayed' = FALSE
  /\ wire' = [s \in Slots |-> Idle]
  /\ UNCHANGED <<filter, startIndex, noofelements, list, dataSource, cells,
                 display>>

\* viewWillAppear while online, the only place that sets the data source and
\* the delegate: nothing is drawn until a page has arrived.
AppearOnline ==
  /\ dataSource' = TRUE
  /\ list' = <<>> /\ cells' = 0 /\ display' = "waiting"
  /\ Send(Cart)

-----------------------------------------------------------------------------
(* Coming and going                                                        *)

\* viewDidLoad and viewWillAppear of a new screen.  Opened offline it has no
\* data source, so that rows fetched later are not drawn.
Open ==
  /\ screen = "closed" /\ screen' = "open"
  /\ \E f \in Filters : filter' = f
  /\ startIndex' = 1 /\ noofelements' = 0
  /\ \/ AppearOnline
     \/ /\ Failures /\ dataSource' = FALSE
        /\ list' = <<>> /\ cells' = 0 /\ display' = "waiting"
        /\ UNCHANGED wire
  /\ UNCHANGED delayed

Leave ==
  /\ screen = "open" /\ ~delayed /\ screen' = "closed"
  /\ Release
  /\ UNCHANGED <<filter, startIndex, noofelements, list, dataSource, cells,
                 display>>

\* The cart of the parent screen.
OpenCart ==
  /\ screen = "open" /\ screen' = "cart"
  /\ UNCHANGED <<filter, startIndex, noofelements, list, dataSource, cells,
                 display, delayed, wire>>

\* viewWillAppear: back to the first category, with the page number as it
\* was; offline with the rows as they were, too.
ReturnFromCart ==
  /\ screen = "cart" /\ screen' = "open"
  /\ \E f \in Filters : filter' = f
  /\ \/ AppearOnline
     \/ Failures /\ UNCHANGED <<list, dataSource, cells, display, wire>>
  /\ UNCHANGED <<startIndex, noofelements, delayed>>

\* Back from a product: selectedItem, then viewWillAppear, which counts for
\* a search as if its first page were full.
ReturnFromDetails ==
  /\ screen = "details" /\ screen' = "open"
  /\ startIndex' = 1 /\ list' = <<>>
  /\ \/ /\ AppearOnline
        /\ noofelements' \in {noofelements, PageRows}
     \/ Failures /\ UNCHANGED <<noofelements, dataSource, cells, display,
                                wire>>
  /\ UNCHANGED <<filter, delayed>>

Relaunch ==
  /\ screen = "crashed" /\ screen' = "closed"
  /\ UNCHANGED <<filter, startIndex, noofelements, list, dataSource, cells,
                 display, delayed, wire>>

-----------------------------------------------------------------------------
(* Choices                                                                 *)

\* searchProductEditingChanged, highToLowButton, a range that is tapped.
Choose(f) ==
  /\ screen = "open"
  /\ filter' = f /\ startIndex' = 1 /\ list' = <<>>
  /\ Send(List(f, 1))
  /\ UNCHANGED <<screen, noofelements, dataSource, cells, display, delayed>>

\* searchBtn.
SearchBtn(f) ==
  /\ screen = "open"
  /\ filter' = f /\ startIndex' = 1 /\ list' = <<>>
  /\ noofelements' = PageRows
  /\ display' = IF display = "none" THEN "waiting" ELSE display
  /\ Send(List(f, 1))
  /\ UNCHANGED <<screen, dataSource, cells, delayed>>

\* categoryBtn, pointRangeBtn, a category that is tapped: the chain.
ChooseByChain(f) ==
  /\ screen = "open"
  /\ filter' = f /\ startIndex' = 1 /\ list' = <<>>
  /\ Send(Cart)
  /\ UNCHANGED <<screen, noofelements, dataSource, cells, display, delayed>>

-----------------------------------------------------------------------------
(* The rows                                                                *)

Tappable == screen = "open" /\ display = "rows" /\ cells > 0

\* Mutant of DisplayLast: the page number is not raised.
DisplayLastSamePage ==
  /\ Tappable /\ cells = Len(list) /\ noofelements >= PageRows
  /\ startIndex < MaxIndex /\ Len(list) <= MaxRows
  /\ Send(List(filter, startIndex))
  /\ UNCHANGED <<screen, filter, startIndex, noofelements, list, dataSource,
                 cells, display, delayed>>

\* Mutant of DisplayLast: a full first page is not enough.
DisplayLastOffByOne ==
  /\ Tappable /\ cells = Len(list) /\ noofelements > PageRows
  /\ startIndex < MaxIndex /\ Len(list) <= MaxRows
  /\ startIndex' = startIndex + 1
  /\ Send(List(filter, startIndex'))
  /\ UNCHANGED <<screen, filter, noofelements, list, dataSource, cells,
                 display, delayed>>

\* willDisplay of the last row.
DisplayLast ==
  /\ Tappable /\ cells = Len(list) /\ noofelements >= PageRows
  /\ startIndex < MaxIndex /\ Len(list) <= MaxRows
  /\ startIndex' = startIndex + 1
  /\ Send(List(filter, startIndex'))
  /\ UNCHANGED <<screen, filter, noofelements, list, dataSource, cells,
                 display, delayed>>

\* didSelectItemAt.
TapRow ==
  /\ Tappable /\ list # <<>> /\ screen' = "details"
  /\ UNCHANGED <<filter, startIndex, noofelements, list, dataSource, cells,
                 display, delayed, wire>>

\* addToPlanner, of a product that is not planned yet or is.
TapPlan ==
  /\ Tappable /\ list # <<>>
  /\ Send([op |-> "add"]) \/ UNCHANGED wire
  /\ cells' = Drawn(list)
  /\ UNCHANGED <<screen, filter, startIndex, noofelements, list, dataSource,
                 display, delayed>>

\* The cell that is tapped has no row: the list has been emptied.
TapCrashes == Tappable /\ list = <<>> /\ Crash

\* addToCartProducts, which waits for 0.3 s, and what it does then.
TapAdd ==
  /\ Tappable /\ ~delayed /\ delayed' = TRUE
  /\ UNCHANGED <<screen, filter, startIndex, noofelements, list, dataSource,
                 cells, display, wire>>

AddFires ==
  /\ delayed /\ list # <<>>
  /\ Send([op |-> "add"]) \/ UNCHANGED wire
  /\ cells' = Drawn(list) /\ delayed' = FALSE
  /\ UNCHANGED <<screen, filter, startIndex, noofelements, list, dataSource,
                 display>>

\* The row of the cell is gone, or the cell is; the row is not looked at
\* when the cart is beyond the balance.
AddFiresEmpty ==
  /\ delayed /\ list = <<>>
  /\ \/ cells > 0 /\ Crash
     \/ /\ cells' = 0 /\ delayed' = FALSE
        /\ UNCHANGED <<screen, filter, startIndex, noofelements, list,
                       dataSource, display, wire>>

-----------------------------------------------------------------------------
(* Replies                                                                 *)

\* The completion of getMycartList.
CartArrives(s) ==
  /\ wire[s] = Cart
  /\ wire' = [wire EXCEPT ![s] = [op |-> "category"]]
  /\ UNCHANGED <<screen, filter, startIndex, noofelements, list, dataSource,
                 cells, display, delayed>>

\* An empty cart, told by []: its first element is asked for.
EmptyCartCrashes(s) == EmptyArrays /\ wire[s] = Cart /\ Crash

\* The completion of productCategoryApi asks for a page of what is chosen.
CategoriesArrive(s) ==
  /\ wire[s].op = "category"
  /\ wire' = [wire EXCEPT ![s] = List(filter, startIndex)]
  /\ UNCHANGED <<screen, filter, startIndex, noofelements, list, dataSource,
                 cells, display, delayed>>

\* No categories: the chain ends without asking for a page, also the chain of
\* a screen that is gone.
NoCategories(s) ==
  /\ wire[s].op \in {"category", "late"}
  /\ wire' = [wire EXCEPT ![s] = Idle]
  /\ UNCHANGED <<screen, filter, startIndex, noofelements, list, dataSource,
                 cells, display, delayed>>

\* Mutant of PageArrives: the collection view is not told.
PageArrivesUnseen(s) ==
  /\ wire[s].op = "list"
  /\ LET page == Page(wire[s].of, wire[s].index) IN
       page # <<>> /\ list' = list \o page
  /\ noofelements' = Len(list') /\ display' = "rows"
  /\ wire' = [wire EXCEPT ![s] = [op |-> "marks"]]
  /\ UNCHANGED <<screen, filter, startIndex, dataSource, cells, delayed>>

\* Mutant of PageArrives: the rows are not counted.
PageArrivesUncounted(s) ==
  /\ wire[s].op = "list"
  /\ LET page == Page(wire[s].of, wire[s].index) IN
       page # <<>> /\ list' = list \o page
  /\ cells' = Drawn(list') /\ display' = "rows"
  /\ wire' = [wire EXCEPT ![s] = [op |-> "marks"]]
  /\ UNCHANGED <<screen, filter, startIndex, noofelements, dataSource, delayed>>

\* The completion of catalogueListApi: rows.
PageArrives(s) ==
  /\ wire[s].op = "list"
  /\ LET page == Page(wire[s].of, wire[s].index) IN
       page # <<>> /\ list' = list \o page
  /\ noofelements' = Len(list') /\ cells' = Drawn(list') /\ display' = "rows"
  /\ wire' = [wire EXCEPT ![s] = [op |-> "marks"]]
  /\ UNCHANGED <<screen, filter, startIndex, dataSource, delayed>>

\* Mutant of NoPageArrives: pages are numbered from 0.
NoPageArrivesToZero(s) ==
  /\ wire[s].op = "list" /\ Page(wire[s].of, wire[s].index) = <<>>
  /\ \/ /\ startIndex > 1 /\ startIndex' = 0
        /\ noofelements' = PageRows - 1 /\ UNCHANGED display
     \/ /\ startIndex <= 1 /\ display' = "none"
        /\ UNCHANGED <<startIndex, noofelements>>
  /\ wire' = [wire EXCEPT ![s] = Idle]
  /\ UNCHANGED <<screen, filter, list, dataSource, cells, delayed>>

\* The completion of catalogueListApi: none.  The page number it looks at is
\* that of the page asked for last.
NoPageArrives(s) ==
  /\ wire[s].op = "list" /\ Page(wire[s].of, wire[s].index) = <<>>
  /\ \/ /\ startIndex > 1 /\ startIndex' = 1
        /\ noofelements' = PageRows - 1 /\ UNCHANGED display
     \/ /\ startIndex = 1 /\ display' = "none"
        /\ UNCHANGED <<startIndex, noofelements>>
  /\ wire' = [wire EXCEPT ![s] = Idle]
  /\ UNCHANGED <<screen, filter, list, dataSource, cells, delayed>>

\* The completion of redemptionPlannerList.
MarksArrive(s) ==
  /\ wire[s].op = "marks"
  /\ cells' = Drawn(list)
  /\ wire' = [wire EXCEPT ![s] = Idle]
  /\ UNCHANGED <<screen, filter, startIndex, noofelements, list, dataSource,
                 display, delayed>>

\* Mutant of Added: the list is not emptied before it is fetched again.
AddedKeepsRows(s) ==
  /\ wire[s].op = "add"
  /\ wire' \in {[wire EXCEPT ![s] = Cart], [wire EXCEPT ![s] = Idle]}
  /\ cells' = Drawn(list)
  /\ UNCHANGED <<screen, filter, startIndex, noofelements, list, dataSource,
                 display, delayed>>

\* The completions of addToCartApi and addedToPlanner: the list is fetched
\* again, from the page asked for last; or the product is refused, upon which
\* only the latter redraws.
Added(s) ==
  /\ wire[s].op = "add"
  /\ \/ list' = <<>> /\ cells' = 0 /\ wire' = [wire EXCEPT ![s] = Cart]
     \/ /\ cells' \in {cells, Drawn(list)} /\ UNCHANGED list
        /\ wire' = [wire EXCEPT ![s] = Idle]
  /\ UNCHANGED <<screen, filter, startIndex, noofelements, dataSource, display,
                 delayed>>

\* VC! is nil at the end of the chain.
LateReply(s) == wire[s].op = "late" /\ Crash

\* A request or its reply is lost, or the reply is nothing: the spinner is
\* stopped, no more.
Lost(s) ==
  /\ Failures /\ wire[s] # Idle
  /\ wire' = [wire EXCEPT ![s] = Idle]
  /\ UNCHANGED <<screen, filter, startIndex, noofelements, list, dataSource,
                 cells, display, delayed>>

-----------------------------------------------------------------------------
Choices == \E f \in Filters : Choose(f) \/ SearchBtn(f) \/ ChooseByChain(f)

Taps == TapRow \/ TapPlan \/ TapAdd

Network(s) == \/ CartArrives(s) \/ CategoriesArrive(s) \/ NoCategories(s)
              \/ PageArrives(s) \/ NoPageArrives(s)
              \/ MarksArrive(s) \/ Added(s)

Navigate == Open \/ Leave \/ OpenCart \/ ReturnFromCart \/ ReturnFromDetails
            \/ Relaunch

Crashes == \/ TapCrashes
           \/ \E s \in Slots : EmptyCartCrashes(s) \/ LateReply(s)

Next == \/ Navigate \/ Choices \/ DisplayLast \/ Taps
        \/ AddFires \/ AddFiresEmpty \/ Crashes
        \/ \E s \in Slots : Network(s) \/ Lost(s)

Spec == Init /\ [][Next]_vars

-----------------------------------------------------------------------------
(* Properties                                                              *)

\* Once the collection view has been told where its rows are, every row has
\* a cell and the cells that can be tapped a row each, unless the list has
\* been emptied: the list is emptied in a dozen places, most of which leave
\* the collection view alone.
CellsMatchRows == dataSource /\ list # <<>> => cells = Len(list)
=============================================================================
