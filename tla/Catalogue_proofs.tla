-------------------------- MODULE Catalogue_proofs --------------------------
(***************************************************************************)
(* The catalogue keeps its types, draws a cell for each row and, browsed   *)
(* without mishaps, lists the products of the choice from the first on:    *)
(* for any choices, totals, size of a page and number of chains on their   *)
(* way.  Browsed with losses, but without crossings, it still lists them   *)
(* in their order.                                                         *)
(***************************************************************************)
EXTENDS CatalogueVisit, TLAPS

Before(i) == (i - 1) * PageRows

Least(m, n) == IF m < n THEN m ELSE n

LEMMA BeforeNat ==
  ASSUME NEW i \in Nat \ {0}
  PROVE  /\ Before(i) \in Nat
         /\ Before(1) = 0
         /\ Before(i + 1) = Before(i) + PageRows
<1>1. PageRows \in Nat \ {0} BY PageAssumption
<1>2. i - 1 \in Nat OBVIOUS
<1>3. (i - 1) * PageRows \in Nat BY <1>1, <1>2
<1>4. (1 - 1) * PageRows = 0 BY <1>1
<1>5. (i + 1 - 1) * PageRows = (i - 1) * PageRows + PageRows
  BY <1>1, <1>2
<1> QED BY <1>3, <1>4, <1>5 DEF Before

\* What a page holds: the products after those of the pages before it.
LEMMA PageContents ==
  ASSUME NEW f \in Filters, NEW i \in Nat \ {0}
  PROVE  /\ Page(f, i) \in Seq(Rows)
         /\ Page(f, i) = <<>> <=> Total[f] <= Before(i)
         /\ Total[f] > Before(i) =>
              Len(Page(f, i)) = Least(Total[f] - Before(i), PageRows)
         /\ \A k \in 1 .. Len(Page(f, i)) :
              Page(f, i)[k] = [of |-> f, n |-> Before(i) + k]
<1> DEFINE b == Before(i)
           left == IF Total[f] > b THEN Total[f] - b ELSE 0
           size == IF left < PageRows THEN left ELSE PageRows
<1>1. PageRows \in Nat \ {0} /\ Total[f] \in Nat
  BY PageAssumption, TotalAssumption
<1>2. b \in Nat BY BeforeNat
<1>3. Page(f, i) = [k \in 1 .. size |-> [of |-> f, n |-> b + k]]
  BY DEF Page, Before
<1> HIDE DEF b
<1>4. size \in Nat BY <1>1, <1>2
<1>5. \A k \in 1 .. size : [of |-> f, n |-> b + k] \in Rows
  BY <1>2, <1>4 DEF Rows
<1>6. size = 0 <=> Total[f] <= b BY <1>1, <1>2
<1>7. Total[f] > b => size = Least(Total[f] - b, PageRows)
  BY <1>1, <1>2 DEF Least
<1> HIDE DEF size
<1>8. Page(f, i) \in Seq(Rows) /\ Len(Page(f, i)) = size
  BY <1>3, <1>4, <1>5
<1>9. Page(f, i) = <<>> <=> size = 0 BY <1>3, <1>4, <1>8
<1> QED BY <1>3, <1>6, <1>7, <1>8, <1>9 DEF b

LEMMA SendTypes ==
  ASSUME wire \in [Slots -> Waits], NEW m \in Waits, Send(m)
  PROVE  wire' \in [Slots -> Waits]
BY DEF Send

LEMMA Messages ==
  /\ Idle \in Waits /\ Cart \in Waits
  /\ \A o \in {"add", "late", "category", "marks"} : [op |-> o] \in Waits
  /\ \A f \in Filters : \A i \in 1 .. MaxIndex : List(f, i) \in Waits
BY DEF Idle, Cart, List, Waits

-----------------------------------------------------------------------------
(* Types                                                                   *)

Choosing(f) == Choose(f) \/ SearchBtn(f) \/ ChooseByChain(f)

LEMMA TypeInit == Init => TypeOK
<1> SUFFICES ASSUME Init PROVE TypeOK
  OBVIOUS
<1>1. list \in Seq(Rows) BY DEF Init
<1>2. wire \in [Slots -> Waits] BY Messages DEF Init
<1>3. startIndex \in 1 .. MaxIndex /\ noofelements \in Nat /\ cells \in Nat
  BY BoundsAssumption DEF Init
<1> QED BY <1>1, <1>2, <1>3 DEF Init, TypeOK

\* What is drawn: a cell per row or none.
LEMMA DrawnCells ==
  ASSUME dataSource \in BOOLEAN, NEW rows \in Seq(Rows)
  PROVE  /\ Drawn(rows) \in Nat
         /\ dataSource => Drawn(rows) = Len(rows)
BY DEF Drawn

LEMMA CrashTypes == ASSUME TypeOK, Crash PROVE TypeOK'
BY Messages DEF TypeOK, Crash

LEMMA TypeNavigate == ASSUME TypeOK, Navigate PROVE TypeOK'
<1>1. PageRows \in Nat /\ 1 \in 1 .. MaxIndex /\ Idle \in Waits
  /\ Cart \in Waits
  BY PageAssumption, BoundsAssumption, Messages
<1>2. <<>> \in Seq(Rows) OBVIOUS
<1>3. CASE Open
  <2>1. wire' \in [Slots -> Waits]
    BY <1>1, <1>3, SendTypes DEF Open, AppearOnline, TypeOK
  <2>2. list' = <<>> /\ cells' = 0 /\ display' = "waiting"
    BY <1>3 DEF Open, AppearOnline
  <2>3. filter' \in Filters /\ startIndex' = 1 /\ noofelements' = 0
    BY <1>3 DEF Open
  <2>4. screen' = "open" /\ delayed' = delayed /\ dataSource' \in BOOLEAN
    BY <1>3 DEF Open, AppearOnline
  <2> QED BY <1>1, <1>2, <2>1, <2>2, <2>3, <2>4 DEF TypeOK
<1>4. CASE Leave
  BY <1>4, Messages DEF Leave, Release, TypeOK
<1>5. CASE OpenCart BY <1>5 DEF OpenCart, TypeOK
<1>6. CASE ReturnFromCart
  <2>1. wire' \in [Slots -> Waits]
    BY <1>1, <1>6, SendTypes DEF ReturnFromCart, AppearOnline, TypeOK
  <2>2. \/ list' = <<>> /\ cells' = 0 /\ display' = "waiting"
        \/ UNCHANGED <<list, cells, display>>
    BY <1>6 DEF ReturnFromCart, AppearOnline
  <2>3. screen' = "open" /\ filter' \in Filters /\ startIndex' = startIndex
        /\ noofelements' = noofelements /\ delayed' = delayed
        /\ dataSource' \in {TRUE, dataSource}
    BY <1>6 DEF ReturnFromCart, AppearOnline
  <2>4. list' \in Seq(Rows) BY <1>2, <2>2 DEF TypeOK
  <2>5. cells' \in Nat BY <2>2 DEF TypeOK
  <2>6. display' \in {"waiting", "rows", "none"} BY <2>2 DEF TypeOK
  <2> QED BY <2>1, <2>3, <2>4, <2>5, <2>6 DEF TypeOK
<1>7. CASE ReturnFromDetails
  <2>1. wire' \in [Slots -> Waits]
    BY <1>1, <1>7, SendTypes DEF ReturnFromDetails, AppearOnline, TypeOK
  <2>2. screen' = "open" /\ startIndex' = 1 /\ list' = <<>>
        /\ filter' = filter /\ delayed' = delayed
        /\ noofelements' \in {noofelements, PageRows}
    BY <1>7 DEF ReturnFromDetails
  <2>3. /\ dataSource' \in {TRUE, dataSource} /\ cells' \in {0, cells}
        /\ display' \in {"waiting", display}
    BY <1>7 DEF ReturnFromDetails, AppearOnline
  <2>4. noofelements' \in Nat BY <1>1, <2>2 DEF TypeOK
  <2>8. dataSource' \in BOOLEAN BY <2>3 DEF TypeOK
  <2>5. cells' \in Nat BY <2>3 DEF TypeOK
  <2>6. display' \in {"waiting", "rows", "none"} BY <2>3 DEF TypeOK
  <2>7. list' \in Seq(Rows) /\ startIndex' \in 1 .. MaxIndex
        /\ filter' \in Filters /\ delayed' \in BOOLEAN
    BY <1>1, <1>2, <2>2 DEF TypeOK
  <2> QED BY <2>1, <2>2, <2>4, <2>5, <2>6, <2>7, <2>8 DEF TypeOK
<1>8. CASE Relaunch BY <1>8 DEF Relaunch, TypeOK
<1> QED BY <1>3, <1>4, <1>5, <1>6, <1>7, <1>8 DEF Navigate

LEMMA TypeChoices ==
  ASSUME TypeOK, NEW f \in Filters, Choosing(f) PROVE TypeOK'
<1>1. PageRows \in Nat /\ 1 \in 1 .. MaxIndex /\ Cart \in Waits
  BY PageAssumption, BoundsAssumption, Messages
<1>2. List(f, 1) \in Waits BY <1>1, Messages
<1>3. <<>> \in Seq(Rows) OBVIOUS
<1>4. CASE Choose(f)
  BY <1>1, <1>2, <1>3, <1>4, SendTypes DEF Choose, TypeOK
<1>5. CASE SearchBtn(f)
  BY <1>1, <1>2, <1>3, <1>5, SendTypes DEF SearchBtn, TypeOK
<1>6. CASE ChooseByChain(f)
  BY <1>1, <1>3, <1>6, SendTypes DEF ChooseByChain, TypeOK
<1> QED BY <1>4, <1>5, <1>6 DEF Choosing

LEMMA TypeRows ==
  ASSUME TypeOK, DisplayLast \/ Taps \/ AddFires \/ AddFiresEmpty
  PROVE  TypeOK'
<1>1. [op |-> "add"] \in Waits BY Messages
<1>2. Drawn(list) \in Nat BY DrawnCells DEF TypeOK
<1>3. CASE DisplayLast
  <2>1. startIndex + 1 \in 1 .. MaxIndex
    BY <1>3, BoundsAssumption DEF DisplayLast, TypeOK
  <2>2. List(filter, startIndex + 1) \in Waits BY <2>1, Messages DEF TypeOK
  <2> QED BY <1>3, <2>1, <2>2, SendTypes DEF DisplayLast, TypeOK
<1>4. CASE TapRow BY <1>4 DEF TapRow, TypeOK
<1>5. CASE TapPlan BY <1>1, <1>2, <1>5, SendTypes DEF TapPlan, TypeOK
<1>6. CASE TapAdd BY <1>6 DEF TapAdd, TypeOK
<1>7. CASE AddFires
  <2>1. wire' \in [Slots -> Waits]
    BY <1>1, <1>7, SendTypes DEF AddFires, TypeOK
  <2>2. cells' \in Nat /\ delayed' = FALSE BY <1>2, <1>7 DEF AddFires
  <2>3. UNCHANGED <<screen, filter, startIndex, noofelements, list, dataSource,
                    display>>
    BY <1>7 DEF AddFires
  <2> QED BY <2>1, <2>2, <2>3 DEF TypeOK
<1>8. CASE AddFiresEmpty
  <2>1. CASE Crash BY <2>1, CrashTypes
  <2>2. CASE /\ cells' = 0 /\ delayed' = FALSE
             /\ UNCHANGED <<screen, filter, startIndex, noofelements, list,
                            dataSource, display, wire>>
    BY <2>2 DEF TypeOK
  <2> QED BY <1>8, <2>1, <2>2 DEF AddFiresEmpty
<1> QED BY <1>3, <1>4, <1>5, <1>6, <1>7, <1>8 DEF Taps

LEMMA TypeNetwork ==
  ASSUME TypeOK, NEW s \in Slots, Network(s) \/ Lost(s)
  PROVE  TypeOK'
<1> USE DEF TypeOK
<1>1. Idle \in Waits /\ Cart \in Waits /\ [op |-> "category"] \in Waits
      /\ [op |-> "marks"] \in Waits
  BY Messages
<1>2. Drawn(list) \in Nat /\ <<>> \in Seq(Rows) BY DrawnCells
<1>3. PageRows - 1 \in Nat /\ 1 \in 1 .. MaxIndex
  BY PageAssumption, BoundsAssumption
<1>4. CASE CartArrives(s) BY <1>1, <1>4 DEF CartArrives
<1>5. CASE CategoriesArrive(s)
  <2>1. List(filter, startIndex) \in Waits BY Messages
  <2> QED BY <1>5, <2>1 DEF CategoriesArrive
<1>11. CASE NoCategories(s) BY <1>1, <1>11 DEF NoCategories
<1>6. CASE PageArrives(s)
  <2>4. wire[s] \in Waits /\ wire[s].op = "list" BY <1>6 DEF PageArrives
  <2>1. wire[s].of \in Filters /\ wire[s].index \in Nat \ {0}
    BY <2>4, BoundsAssumption DEF Waits
  <2>3. list' \in Seq(Rows) /\ Len(list') \in Nat
    BY <1>6, <2>1, PageContents DEF PageArrives
  <2>2. list' \in Seq(Rows) /\ Len(list') \in Nat /\ Drawn(list') \in Nat
    BY <2>3, DrawnCells
  <2> QED BY <1>1, <1>6, <2>2 DEF PageArrives
<1>7. CASE NoPageArrives(s) BY <1>1, <1>3, <1>7 DEF NoPageArrives
<1>8. CASE MarksArrive(s) BY <1>1, <1>2, <1>8 DEF MarksArrive
<1>9. CASE Added(s)
  <2>1. wire' \in [Slots -> Waits] BY <1>1, <1>9 DEF Added
  <2>2. cells' \in Nat /\ (list' = <<>> \/ list' = list)
    BY <1>2, <1>9 DEF Added
  <2>3. UNCHANGED <<screen, filter, startIndex, noofelements, dataSource,
                    display, delayed>>
    BY <1>9 DEF Added
  <2> QED BY <1>2, <2>1, <2>2, <2>3
<1>10. CASE Lost(s) BY <1>1, <1>10 DEF Lost
<1> QED BY <1>4, <1>5, <1>6, <1>7, <1>8, <1>9, <1>10, <1>11 DEF Network

LEMMA CrashesCrash == Crashes => Crash
BY DEF Crashes, TapCrashes, EmptyCartCrashes, LateReply

LEMMA TypeStep == TypeOK /\ [Next]_vars => TypeOK'
<1> SUFFICES ASSUME TypeOK, [Next]_vars PROVE TypeOK'
  OBVIOUS
<1>1. ASSUME NEW f \in Filters, Choosing(f) PROVE TypeOK'
  BY <1>1, TypeChoices
<1>2. CASE Crashes BY <1>2, CrashesCrash, CrashTypes
<1>3. CASE UNCHANGED vars BY <1>3 DEF vars, TypeOK
<1> QED BY <1>1, <1>2, <1>3, TypeNavigate, TypeRows, TypeNetwork
        DEF Next, Choices, Choosing

\* Every variable of the catalogue keeps its type: the page number never
\* reaches 0, the rows are products, whatever arrives and gets lost.
THEOREM TypeCorrect == Spec => []TypeOK
BY TypeInit, TypeStep, PTL DEF Spec

-----------------------------------------------------------------------------
(* Cells                                                                   *)

LEMMA CellsNavigate ==
  ASSUME CellsMatchRows, Navigate PROVE CellsMatchRows'
<1> USE DEF CellsMatchRows
<1>1. CASE Open BY <1>1 DEF Open, AppearOnline
<1>2. CASE Leave BY <1>2 DEF Leave
<1>3. CASE OpenCart BY <1>3 DEF OpenCart
<1>4. CASE ReturnFromCart BY <1>4 DEF ReturnFromCart, AppearOnline
<1>5. CASE ReturnFromDetails BY <1>5 DEF ReturnFromDetails
<1>6. CASE Relaunch BY <1>6 DEF Relaunch
<1> QED BY <1>1, <1>2, <1>3, <1>4, <1>5, <1>6 DEF Navigate

LEMMA CellsRows ==
  ASSUME CellsMatchRows,
         DisplayLast \/ Taps \/ AddFires \/ AddFiresEmpty \/ Crashes
  PROVE  CellsMatchRows'
<1> USE DEF CellsMatchRows
<1>1. CASE DisplayLast BY <1>1 DEF DisplayLast
<1>2. CASE TapRow BY <1>2 DEF TapRow
<1>3. CASE TapPlan BY <1>3 DEF TapPlan, Drawn
<1>4. CASE TapAdd BY <1>4 DEF TapAdd
<1>5. CASE AddFires BY <1>5 DEF AddFires, Drawn
<1>6. CASE AddFiresEmpty BY <1>6 DEF AddFiresEmpty, Crash
<1>7. CASE Crashes BY <1>7, CrashesCrash DEF Crash
<1> QED BY <1>1, <1>2, <1>3, <1>4, <1>5, <1>6, <1>7 DEF Taps

LEMMA CellsNetwork ==
  ASSUME CellsMatchRows, NEW s \in Slots, Network(s) \/ Lost(s)
  PROVE  CellsMatchRows'
<1> USE DEF CellsMatchRows
<1>1. CASE CartArrives(s) BY <1>1 DEF CartArrives
<1>2. CASE CategoriesArrive(s) BY <1>2 DEF CategoriesArrive
<1>3. CASE PageArrives(s) BY <1>3 DEF PageArrives, Drawn
<1>4. CASE NoPageArrives(s) BY <1>4 DEF NoPageArrives
<1>5. CASE MarksArrive(s) BY <1>5 DEF MarksArrive, Drawn
<1>6. CASE Added(s) BY <1>6 DEF Added, Drawn
<1>7. CASE NoCategories(s) BY <1>7 DEF NoCategories
<1>8. CASE Lost(s) BY <1>8 DEF Lost
<1> QED BY <1>1, <1>2, <1>3, <1>4, <1>5, <1>6, <1>7, <1>8 DEF Network

LEMMA CellsStep == CellsMatchRows /\ [Next]_vars => CellsMatchRows'
<1> SUFFICES ASSUME CellsMatchRows, [Next]_vars PROVE CellsMatchRows'
  OBVIOUS
<1>1. ASSUME NEW f \in Filters, Choosing(f) PROVE CellsMatchRows'
  BY <1>1 DEF Choosing, Choose, SearchBtn, ChooseByChain, CellsMatchRows
<1>2. CASE UNCHANGED vars BY <1>2 DEF vars, CellsMatchRows
<1> QED BY <1>1, <1>2, CellsNavigate, CellsRows, CellsNetwork
        DEF Next, Choices, Choosing

\* Once it has its data source the collection view draws a cell for each row,
\* unless the list has been emptied: no reply leaves it behind (reloadData in
\* HR_RedemptionCatalogueListVM, viewWillAppear).
THEOREM CellsHaveRows == Spec => []CellsMatchRows
<1>1. Init => CellsMatchRows BY DEF Init, CellsMatchRows
<1> QED BY <1>1, CellsStep, PTL DEF Spec

-----------------------------------------------------------------------------
(* A peaceful browsing                                                     *)

Peace == Alive /\ mishaps = {}

\* One chain at a time, with its list emptied until its page is asked for;
\* the page asked for follows the rows that are there; and if none is and
\* the rows are worth scrolling, they are all the pages up to startIndex.
Alone == \A s, t \in Fetching : s = t

RowsInOrder == /\ Len(list) <= Total[filter]
               /\ \A k \in 1 .. Len(list) : list[k] = [of |-> filter, n |-> k]

FirstIsFirst == list = <<>> => startIndex = 1

ChainsBegin ==
  \A s \in Slots : wire[s].op \in {"cart", "category"} => list = <<>>

PageFollows ==
  \A s \in Slots : wire[s].op = "list" =>
    /\ wire[s].of = filter /\ wire[s].index = startIndex
    /\ Len(list) = Least(Total[filter], Before(startIndex))

PagesComplete ==
  (\A s \in Slots : wire[s].op # "list") /\ list # <<>>
      /\ noofelements >= PageRows =>
    Len(list) = Least(Total[filter], Before(startIndex + 1))

Browsing == /\ Alone /\ RowsInOrder /\ FirstIsFirst /\ ChainsBegin
            /\ PageFollows /\ PagesComplete

VisitInv == TypeOK /\ CellsMatchRows /\ (Peace => Browsing)

\* The step of a browsing that stays peaceful.
LEMMA Peaceful ==
  ASSUME Observe, mishaps' = {}
  PROVE  /\ ~Crossed /\ ~Kept /\ ~Missed
         /\ Fresh \/ mishaps = {}
BY DEF Observe

LEMMA Unmoved ==
  ASSUME Browsing, UNCHANGED <<filter, startIndex, noofelements, list, wire>>
  PROVE  Browsing'
BY DEF Browsing, Alone, Fetching, RowsInOrder, FirstIsFirst, ChainsBegin,
       PageFollows, PagesComplete

\* A chain that starts beside another crosses it.
LEMMA StartsAlone ==
  ASSUME TypeOK, NEW m \in Waits,
         m.op \in {"cart", "category", "add", "list"}, Send(m), ~Crossed
  PROVE  Fetching = {}
<1>1. PICK s \in Slots : wire[s] = Idle /\ wire' = [wire EXCEPT ![s] = m]
  BY DEF Send
<1>2. s \in Fetching' BY <1>1 DEF TypeOK, Fetching
<1>3. ASSUME NEW t \in Fetching PROVE FALSE
  <2>1. t \in Slots /\ t # s BY <1>1, <1>3 DEF Fetching, Idle
  <2>2. t \in Fetching' BY <1>1, <1>3, <2>1 DEF TypeOK, Fetching
  <2> QED BY <1>2, <2>1, <2>2 DEF Crossed
<1> QED BY <1>3

\* The first page of a choice, or the chain that leads to it, is asked for.
LEMMA Begun ==
  ASSUME TypeOK, TypeOK', NEW m \in Waits, Send(m), Fetching = {},
         m = Cart \/ m = List(filter', 1), list' = <<>>, startIndex' = 1
  PROVE  Browsing'
<1>1. PICK s \in Slots : wire[s] = Idle /\ wire' = [wire EXCEPT ![s] = m]
  BY DEF Send
<1>2. \A t \in Slots \ {s} :
        wire'[t].op \notin {"cart", "category", "add", "list"}
  BY <1>1 DEF TypeOK, Fetching
<1>3. wire'[s] = m BY <1>1 DEF TypeOK
<1>4. Len(list') = 0 /\ Total[filter'] \in Nat
  BY TotalAssumption DEF TypeOK
<1>5. Before(startIndex') = 0 BY BeforeNat
<1>6. Alone' BY <1>2 DEF Alone, Fetching
<1>7. RowsInOrder' BY <1>4 DEF RowsInOrder
<1>8. PageFollows'
  <2>1. Least(Total[filter'], Before(startIndex')) = 0
    BY <1>4, <1>5 DEF Least
  <2> QED BY <1>2, <1>3, <1>4, <2>1 DEF PageFollows, Cart, List
<1> QED BY <1>6, <1>7, <1>8
        DEF Browsing, FirstIsFirst, ChainsBegin, PagesComplete

\* A product is added, with nothing else on its way.
LEMMA Adding ==
  ASSUME TypeOK, Browsing, Send([op |-> "add"]), Fetching = {},
         UNCHANGED <<filter, startIndex, noofelements, list>>
  PROVE  Browsing'
<1>1. PICK s \in Slots : /\ wire[s] = Idle
                         /\ wire' = [wire EXCEPT ![s] = [op |-> "add"]]
  BY DEF Send
<1>2. wire'[s] = [op |-> "add"] /\ \A t \in Slots \ {s} : wire'[t] = wire[t]
  BY <1>1 DEF TypeOK
<1>3. \A t \in Slots : wire[t].op \notin {"cart", "category", "add", "list"}
  BY DEF Fetching
<1>4. Alone' BY <1>2, <1>3 DEF Alone, Fetching
<1>5. \A t \in Slots : wire'[t].op \notin {"cart", "category", "list"}
  BY <1>2, <1>3
<1> QED BY <1>3, <1>4, <1>5
        DEF Browsing, RowsInOrder, FirstIsFirst, ChainsBegin, PageFollows,
            PagesComplete

\* A chain moves on or ends without having asked for a page.
LEMMA MovesOn ==
  ASSUME TypeOK, Browsing, NEW s \in Slots, NEW m \in Waits,
         wire' = [wire EXCEPT ![s] = m], wire[s].op # "list",
         m = Idle \/ (m = [op |-> "category"] /\ wire[s] = Cart),
         UNCHANGED <<filter, startIndex, noofelements, list>>
  PROVE  Browsing'
<1>1. wire'[s] = m /\ \A t \in Slots \ {s} : wire'[t] = wire[t]
  BY DEF TypeOK
<1>2. Fetching' \subseteq Fetching
  BY <1>1 DEF Fetching, Idle, Cart
<1>3. Alone' BY <1>2 DEF Browsing, Alone
<1>4. ChainsBegin' BY <1>1 DEF Browsing, ChainsBegin, Idle, Cart
<1>5. \A t \in Slots : wire'[t].op = "list" <=> wire[t].op = "list"
  BY <1>1 DEF Idle
<1>6. PageFollows' BY <1>1, <1>5 DEF Browsing, PageFollows
<1> QED BY <1>3, <1>4, <1>5, <1>6
        DEF Browsing, RowsInOrder, FirstIsFirst, PagesComplete

\* The page that is asked for at the end of a chain.
LEMMA ChainAsks ==
  ASSUME TypeOK, Browsing, NEW s \in Slots, CategoriesArrive(s)
  PROVE  Browsing'
<1>1. /\ wire'[s] = List(filter, startIndex)
      /\ \A t \in Slots \ {s} : wire'[t] = wire[t]
  BY DEF CategoriesArrive, TypeOK
<1>2. list = <<>> /\ startIndex = 1
  BY DEF CategoriesArrive, Browsing, ChainsBegin, FirstIsFirst
<1>3. s \in Fetching /\ Fetching' = Fetching
  BY <1>1 DEF CategoriesArrive, Fetching, List
<1>4. \A t \in Slots \ {s} :
        wire'[t].op \notin {"cart", "category", "add", "list"}
  BY <1>1, <1>3 DEF Browsing, Alone, Fetching
<1>5. Len(list) = Least(Total[filter], Before(startIndex))
  BY <1>2, BeforeNat, TotalAssumption DEF Least, TypeOK
<1>6. UNCHANGED <<filter, startIndex, noofelements, list>>
  BY DEF CategoriesArrive
<1>7. Alone' BY <1>3 DEF Browsing, Alone
<1>8. PageFollows' BY <1>1, <1>4, <1>5, <1>6 DEF PageFollows, List
<1> QED BY <1>2, <1>6, <1>7, <1>8
        DEF Browsing, RowsInOrder, FirstIsFirst, ChainsBegin, PagesComplete

\* The rows of the page come right after those that are there.
LEMMA PageFits ==
  ASSUME TypeOK, TypeOK', Browsing, NEW s \in Slots, PageArrives(s)
  PROVE  Browsing'
<1> DEFINE page == Page(filter, startIndex)
           b    == Before(startIndex)
<1>1. /\ wire'[s] = [op |-> "marks"]
      /\ \A t \in Slots \ {s} : wire'[t] = wire[t]
  BY DEF PageArrives, TypeOK
<1>2. wire[s].of = filter /\ wire[s].index = startIndex
      /\ Len(list) = Least(Total[filter], b)
  BY DEF PageArrives, Browsing, PageFollows
<1>3. page # <<>> /\ list' = list \o page
      /\ filter' = filter /\ startIndex' = startIndex
  BY <1>2 DEF PageArrives
<1>4. s \in Fetching /\ Fetching' \subseteq Fetching
  BY <1>1 DEF PageArrives, Fetching
<1>5. \A t \in Slots :
        wire'[t].op \notin {"cart", "category", "add", "list"}
  BY <1>1, <1>4 DEF Browsing, Alone, Fetching
<1>6. filter \in Filters /\ startIndex \in Nat \ {0} /\ list \in Seq(Rows)
      /\ Total[filter] \in Nat /\ PageRows \in Nat \ {0}
  BY TotalAssumption, PageAssumption DEF TypeOK
<1>7. /\ b \in Nat /\ Before(startIndex + 1) = b + PageRows
      /\ page \in Seq(Rows) /\ Total[filter] > b
      /\ Len(page) = Least(Total[filter] - b, PageRows)
      /\ \A k \in 1 .. Len(page) : page[k] = [of |-> filter, n |-> b + k]
  <2>1. b \in Nat /\ Before(startIndex + 1) = b + PageRows
    BY <1>6, BeforeNat
  <2>2. /\ page \in Seq(Rows)
        /\ page = <<>> <=> Total[filter] <= b
        /\ Total[filter] > b => Len(page) = Least(Total[filter] - b, PageRows)
        /\ \A k \in 1 .. Len(page) : page[k] = [of |-> filter, n |-> b + k]
    BY <1>6, PageContents
  <2> QED BY <1>3, <1>6, <2>1, <2>2
<1> HIDE DEF page, b
<1>8. Len(list) = b BY <1>2, <1>6, <1>7 DEF Least
<1>9. Len(list') = Len(list) + Len(page) /\ Len(page) \in Nat
  <2>1. list \in Seq(Rows) /\ page \in Seq(Rows) BY <1>6, <1>7
  <2>2. Len(list \o page) = Len(list) + Len(page) /\ Len(page) \in Nat
    BY <2>1
  <2> QED BY <1>3, <2>2
<1>10. Len(list') = Least(Total[filter], Before(startIndex + 1))
  BY <1>6, <1>7, <1>8, <1>9 DEF Least
<1>11. RowsInOrder'
  <2>1. Len(list') <= Total[filter]
    BY <1>6, <1>7, <1>10 DEF Least
  <2>2. ASSUME NEW k \in 1 .. Len(list')
        PROVE  list'[k] = [of |-> filter, n |-> k]
    <3>1. CASE k <= Len(list)
      <4>1. list'[k] = list[k] BY <1>3, <1>6, <1>7, <2>2, <3>1
      <4> QED BY <1>6, <2>2, <3>1, <4>1 DEF Browsing, RowsInOrder
    <3>2. CASE k > Len(list)
      <4>1. k - b \in 1 .. Len(page) /\ b + (k - b) = k
        BY <1>7, <1>8, <1>9, <2>2, <3>2
      <4>2. list'[k] = page[k - b]
        BY <1>3, <1>6, <1>7, <1>8, <2>2, <3>2, <4>1
      <4> QED BY <1>7, <4>1, <4>2
    <3> QED BY <1>7, <1>8, <2>2, <3>1, <3>2
  <2> QED BY <1>3, <2>1, <2>2 DEF RowsInOrder
<1>12. list' # <<>> BY <1>3, <1>6, <1>7, <1>9
<1>13. Alone' BY <1>4 DEF Browsing, Alone
<1> QED BY <1>3, <1>5, <1>10, <1>11, <1>12, <1>13
        DEF Browsing, FirstIsFirst, ChainsBegin, PageFollows, PagesComplete

\* No page follows: the rows are all there are.
LEMMA NoPageFits ==
  ASSUME TypeOK, TypeOK', Browsing, NEW s \in Slots, NoPageArrives(s)
  PROVE  Browsing'
<1>1. wire'[s] = Idle /\ \A t \in Slots \ {s} : wire'[t] = wire[t]
  BY DEF NoPageArrives, TypeOK
<1>2. s \in Fetching /\ Fetching' \subseteq Fetching
  BY <1>1 DEF NoPageArrives, Fetching, Idle
<1>3. \A t \in Slots :
        wire'[t].op \notin {"cart", "category", "add", "list"}
  BY <1>1, <1>2 DEF Browsing, Alone, Fetching, Idle
<1>4. PageRows \in Nat \ {0} /\ UNCHANGED <<filter, list>>
  BY PageAssumption DEF NoPageArrives
<1>5. startIndex' = 1 BY DEF NoPageArrives
<1>6. noofelements' < PageRows \/ list' = <<>>
  <2>1. CASE startIndex > 1 BY <1>4, <2>1 DEF NoPageArrives, TypeOK
  <2>2. CASE startIndex = 1
    <3>1. Before(startIndex) = 0 BY <2>2, BeforeNat
    <3>2. Len(list) = Least(Total[filter], 0)
      BY <3>1 DEF NoPageArrives, Browsing, PageFollows
    <3>3. Len(list) = 0 BY <3>2, TotalAssumption DEF Least, TypeOK
    <3> QED BY <1>4, <3>3 DEF TypeOK
  <2> QED BY <2>1, <2>2 DEF NoPageArrives
<1>7. Alone' BY <1>2 DEF Browsing, Alone
<1>8. PagesComplete' BY <1>4, <1>6 DEF PagesComplete, TypeOK
<1> QED BY <1>3, <1>4, <1>5, <1>7, <1>8
        DEF Browsing, RowsInOrder, FirstIsFirst, ChainsBegin, PageFollows

\* The next page is asked for when all before it are there.
LEMMA NextPageFollows ==
  ASSUME TypeOK, TypeOK', Browsing, DisplayLast, ~Crossed
  PROVE  Browsing'
<1> DEFINE m == List(filter, startIndex')
<1>1. startIndex' = startIndex + 1 /\ UNCHANGED <<filter, noofelements, list>>
      /\ list # <<>> /\ noofelements >= PageRows /\ Send(m)
  BY DEF DisplayLast, Tappable, TypeOK
<1>2. m \in Waits /\ m.op = "list" BY Messages DEF List, TypeOK
<1>3. Fetching = {} BY <1>1, <1>2, StartsAlone
<1>4. PICK s \in Slots : wire[s] = Idle /\ wire' = [wire EXCEPT ![s] = m]
  BY <1>1 DEF Send
<1>5. wire'[s] = m /\ \A t \in Slots \ {s} : wire'[t] = wire[t]
  BY <1>4 DEF TypeOK
<1>6. \A t \in Slots : wire[t].op \notin {"cart", "category", "add", "list"}
  BY <1>3 DEF Fetching
<1>7. Len(list) = Least(Total[filter], Before(startIndex'))
  BY <1>1, <1>6 DEF Browsing, PagesComplete
<1>8. Alone' BY <1>5, <1>6 DEF Alone, Fetching
<1>9. PageFollows' BY <1>1, <1>5, <1>6, <1>7 DEF PageFollows, List
<1>10. ChainsBegin' BY <1>5, <1>6 DEF ChainsBegin, List
<1>11. PagesComplete' BY <1>5 DEF PagesComplete, List
<1> QED BY <1>1, <1>8, <1>9, <1>10, <1>11
        DEF Browsing, RowsInOrder, FirstIsFirst

LEMMA InvNavigate ==
  ASSUME VisitInv, TypeOK', Navigate, Observe, Peace' PROVE Browsing'
<1>1. mishaps' = {} /\ screen' \in {"open", "details", "cart"}
  BY DEF Peace, Alive
<1>2. ~Crossed /\ ~Kept /\ ~Missed /\ (Fresh \/ mishaps = {})
  BY <1>1, Peaceful
<1>3. Cart \in Waits /\ Cart.op = "cart" BY Messages DEF Cart
<1>4. ASSUME AppearOnline, startIndex' = 1 PROVE Browsing'
  <2>1. Fetching = {}
    BY <1>2, <1>3, <1>4, StartsAlone DEF AppearOnline, VisitInv
  <2> QED BY <1>3, <1>4, <2>1, Begun DEF AppearOnline, VisitInv
<1>5. CASE Open
  BY <1>2, <1>4, <1>5 DEF Open, Missed
<1>6. CASE OpenCart
  <2>1. Peace BY <1>2, <1>6 DEF OpenCart, Fresh, Peace, Alive
  <2> QED BY <1>6, <2>1, Unmoved DEF OpenCart, VisitInv
<1>7. CASE ReturnFromCart
  <2>1. AppearOnline BY <1>2, <1>7 DEF ReturnFromCart, Missed
  <2>2. CASE startIndex = 1
    BY <1>4, <1>7, <2>1, <2>2 DEF ReturnFromCart
  <2>3. CASE startIndex > 1
    <3>1. startIndex' > 1 BY <1>7, <2>3 DEF ReturnFromCart
    <3>2. list = <<>> BY <1>2, <2>1, <3>1 DEF Kept, AppearOnline
    <3>3. Peace
      BY <1>2, <1>7, <3>1 DEF Fresh, ReturnFromCart, Peace, Alive
    <3> QED BY <2>3, <3>2, <3>3 DEF VisitInv, Browsing, FirstIsFirst
  <2> QED BY <2>2, <2>3 DEF VisitInv, TypeOK
<1>8. CASE ReturnFromDetails
  BY <1>2, <1>4, <1>8 DEF ReturnFromDetails, Missed
<1> QED BY <1>1, <1>5, <1>6, <1>7, <1>8 DEF Navigate, Leave, Relaunch

LEMMA InvChoices ==
  ASSUME VisitInv, TypeOK', NEW f \in Filters, Choosing(f), Observe, Peace'
  PROVE  Browsing'
<1>1. ~Crossed BY Peaceful DEF Peace
<1>2. DEFINE m == IF ChooseByChain(f) THEN Cart ELSE List(f, 1)
<1>3. m \in Waits /\ m.op \in {"cart", "category", "add", "list"}
  BY Messages, BoundsAssumption DEF Cart, List
<1>4. \/ Send(Cart) /\ m = Cart
      \/ Send(List(f, 1)) /\ m = List(f, 1)
  BY DEF Choosing, Choose, SearchBtn, ChooseByChain
<1>5. filter' = f /\ startIndex' = 1 /\ list' = <<>>
  BY DEF Choosing, Choose, SearchBtn, ChooseByChain
<1> QED BY <1>1, <1>3, <1>4, <1>5, StartsAlone, Begun DEF VisitInv

LEMMA InvRows ==
  ASSUME VisitInv, TypeOK', DisplayLast \/ Taps \/ AddFires \/ AddFiresEmpty,
         Observe, Peace'
  PROVE  Browsing'
<1>1. /\ ~Crossed /\ (Fresh \/ mishaps = {})
      /\ screen' \in {"open", "details", "cart"}
  BY Peaceful DEF Peace, Alive
\* A tap that is noticed: the rows stay, and at most a product is added.
<1>2. ASSUME UNCHANGED <<filter, startIndex, noofelements, list>>,
             wire' = wire \/ (list # <<>> /\ Send([op |-> "add"])),
             Alive
      PROVE  Browsing'
  <2>1. Peace
    <3>1. ~Fresh BY <1>2 DEF Fresh, Fetching
    <3> QED BY <1>1, <1>2, <3>1 DEF Peace
  <2>2. CASE wire' = wire BY <1>2, <2>1, <2>2, Unmoved DEF VisitInv
  <2>3. CASE Send([op |-> "add"])
    <3>1. Fetching = {}
      BY <1>1, <2>3, Messages, StartsAlone DEF VisitInv
    <3> QED BY <1>2, <2>1, <2>3, <3>1, Adding DEF VisitInv
  <2> QED BY <1>2, <2>2, <2>3
<1>3. CASE DisplayLast
  <2>1. Peace
    BY <1>1, <1>3 DEF DisplayLast, Tappable, Fresh, Peace, Alive, VisitInv,
                      TypeOK
  <2> QED BY <1>1, <1>3, <2>1, NextPageFollows DEF VisitInv
<1>4. CASE Taps \/ AddFires \/ AddFiresEmpty
  <2>1. Alive
    BY <1>1, <1>4 DEF Taps, TapRow, TapPlan, TapAdd, Tappable, AddFires,
                      AddFiresEmpty, Crash, Alive
  <2>2. UNCHANGED <<filter, startIndex, noofelements, list>>
    BY <1>4 DEF Taps, TapRow, TapPlan, TapAdd, AddFires, AddFiresEmpty, Crash
  <2>3. wire' = wire \/ (list # <<>> /\ Send([op |-> "add"]))
    <3>1. CASE TapRow \/ TapAdd BY <3>1 DEF TapRow, TapAdd
    <3>2. CASE TapPlan BY <3>2 DEF TapPlan
    <3>3. CASE AddFires BY <3>3 DEF AddFires
    <3>4. CASE AddFiresEmpty BY <1>1, <3>4 DEF AddFiresEmpty, Crash
    <3> QED BY <1>4, <3>1, <3>2, <3>3, <3>4 DEF Taps
  <2> QED BY <1>2, <2>1, <2>2, <2>3
<1> QED BY <1>3, <1>4

\* A reply, or the loss of one, within a browsing that stays peaceful.
LEMMA PeacefulReply ==
  ASSUME TypeOK, NEW s \in Slots, Network(s) \/ Lost(s), Observe, Peace'
  PROVE  Network(s) /\ Peace
<1>1. /\ ~Missed /\ (Fresh \/ mishaps = {})
      /\ screen' \in {"open", "details", "cart"}
  BY Peaceful DEF Peace, Alive
<1>2. Network(s)
  <2>1. CASE Lost(s)
    <3>1. wire[s].op # "idle" BY <2>1 DEF Lost, Idle, TypeOK, Waits
    <3> QED BY <1>1, <2>1, <3>1 DEF Missed
  <2> QED BY <2>1
<1>3. screen' = screen
  BY <1>2 DEF Network, CartArrives, CategoriesArrive, PageArrives,
              NoPageArrives, MarksArrive, Added, NoCategories
<1>4. CASE wire[s].op \in {"cart", "category", "add", "list"}
  BY <1>1, <1>2, <1>3, <1>4 DEF Fresh, Fetching, Peace, Alive
<1>5. CASE MarksArrive(s)
  <2>1. Fetching' = Fetching
    BY <1>5 DEF MarksArrive, Fetching, Idle, TypeOK
  <2> QED BY <1>1, <1>2, <1>3, <2>1 DEF Fresh, Peace, Alive
<1>6. CASE NoCategories(s) /\ wire[s].op = "late"
  <2>1. Fetching' = Fetching
    BY <1>6 DEF NoCategories, Fetching, Idle, TypeOK
  <2> QED BY <1>1, <1>2, <1>3, <2>1 DEF Fresh, Peace, Alive
<1> QED BY <1>2, <1>4, <1>5, <1>6
        DEF Network, CartArrives, CategoriesArrive, PageArrives,
            NoPageArrives, Added, NoCategories, Cart

LEMMA InvNetwork ==
  ASSUME VisitInv, TypeOK', NEW s \in Slots, Network(s) \/ Lost(s), Observe,
         Peace'
  PROVE  Browsing'
<1>1. ~Kept BY Peaceful DEF Peace
<1>2. Network(s) BY PeacefulReply DEF VisitInv
<1>3. Peace BY PeacefulReply DEF VisitInv
<1>4. TypeOK /\ Browsing BY <1>3 DEF VisitInv
<1>5. CASE CartArrives(s)
  <2> DEFINE m == [op |-> "category"]
  <2>1. m \in Waits /\ wire' = [wire EXCEPT ![s] = m] /\ wire[s] = Cart
    BY <1>5, Messages DEF CartArrives
  <2>2. wire[s].op # "list" BY <2>1 DEF Cart
  <2>3. UNCHANGED <<filter, startIndex, noofelements, list>>
    BY <1>5 DEF CartArrives
  <2> HIDE DEF m
  <2> QED BY <1>4, <2>1, <2>2, <2>3, MovesOn DEF m
<1>6. CASE CategoriesArrive(s) BY <1>4, <1>6, ChainAsks
<1>7. CASE PageArrives(s) BY <1>4, <1>7, PageFits
<1>8. CASE NoPageArrives(s) BY <1>4, <1>8, NoPageFits
<1>9. CASE MarksArrive(s)
  <2>1. wire' = [wire EXCEPT ![s] = Idle] /\ wire[s].op # "list"
    BY <1>9 DEF MarksArrive
  <2>2. UNCHANGED <<filter, startIndex, noofelements, list>>
    BY <1>9 DEF MarksArrive
  <2>3. Idle \in Waits BY Messages
  <2> QED BY <1>4, <2>1, <2>2, <2>3, MovesOn
<1>11. CASE NoCategories(s)
  <2>1. wire' = [wire EXCEPT ![s] = Idle] /\ wire[s].op # "list"
    BY <1>11 DEF NoCategories
  <2>2. UNCHANGED <<filter, startIndex, noofelements, list>>
    BY <1>11 DEF NoCategories
  <2>3. Idle \in Waits BY Messages
  <2> QED BY <1>4, <2>1, <2>2, <2>3, MovesOn
<1>10. CASE Added(s)
  <2>1. CASE UNCHANGED list /\ wire' = [wire EXCEPT ![s] = Idle]
    <3>1. wire[s].op # "list" BY <1>10 DEF Added
    <3>2. UNCHANGED <<filter, startIndex, noofelements, list>>
      BY <1>10, <2>1 DEF Added
    <3>3. Idle \in Waits BY Messages
    <3> QED BY <1>4, <2>1, <3>1, <3>2, <3>3, MovesOn
  <2>2. CASE list' = <<>> /\ wire' = [wire EXCEPT ![s] = Cart]
    <3>1. UNCHANGED <<filter, startIndex>> BY <1>10 DEF Added
    <3>2. startIndex' = 1
      BY <1>1, <1>4, <2>2, <3>1 DEF Kept, Browsing, FirstIsFirst, TypeOK
    <3>3. wire'[s] = Cart /\ \A t \in Slots \ {s} : wire'[t] = wire[t]
      BY <2>2, <1>4 DEF TypeOK
    <3>4. s \in Fetching BY <1>10 DEF Added, Fetching
    <3>5. \A t \in Slots \ {s} :
            wire'[t].op \notin {"cart", "category", "add", "list"}
      BY <1>4, <3>3, <3>4 DEF Browsing, Alone, Fetching
    <3>6. Alone' BY <3>5 DEF Alone, Fetching
    <3>7. RowsInOrder'
      <4>1. Len(list') = 0 /\ Total[filter'] \in Nat
        BY <2>2, TotalAssumption DEF TypeOK
      <4> QED BY <4>1 DEF RowsInOrder
    <3> QED BY <2>2, <3>2, <3>3, <3>5, <3>6, <3>7
            DEF Browsing, FirstIsFirst, ChainsBegin, PageFollows,
                PagesComplete, Cart
  <2> QED BY <1>10, <2>1, <2>2 DEF Added
<1> QED BY <1>2, <1>5, <1>6, <1>7, <1>8, <1>9, <1>10, <1>11 DEF Network

LEMMA InvStep == VisitInv /\ [VisitNext]_visitvars => VisitInv'
<1> SUFFICES ASSUME VisitInv, [VisitNext]_visitvars PROVE VisitInv'
  OBVIOUS
<1>1. CASE UNCHANGED visitvars
  <2>1. UNCHANGED <<screen, filter, startIndex, noofelements, list, dataSource,
                    cells, display, delayed, wire, mishaps>>
    BY <1>1 DEF visitvars, vars
  <2>2. TypeOK' /\ CellsMatchRows'
    BY <1>1, TypeStep, CellsStep DEF VisitInv, visitvars
  <2>3. Peace' => Browsing'
    BY <2>1, Unmoved DEF VisitInv, Peace, Alive
  <2> QED BY <2>2, <2>3 DEF VisitInv
<1>2. CASE Next /\ Observe
  <2>1. TypeOK' /\ CellsMatchRows'
    BY <1>2, TypeStep, CellsStep DEF VisitInv
  <2>2. ASSUME Peace' PROVE Browsing'
    <3>1. ASSUME NEW f \in Filters, Choosing(f) PROVE Browsing'
      BY <1>2, <2>1, <2>2, <3>1, InvChoices
    <3>2. CASE Crashes
      BY <2>2, <3>2, CrashesCrash DEF Crash, Peace, Alive
    <3>3. ASSUME NEW s \in Slots, Network(s) \/ Lost(s) PROVE Browsing'
      BY <1>2, <2>1, <2>2, <3>3, InvNetwork
    <3> QED BY <1>2, <2>1, <2>2, <3>1, <3>2, <3>3, InvNavigate, InvRows
            DEF Next, Choices, Choosing
  <2> QED BY <2>1, <2>2 DEF VisitInv
<1> QED BY <1>1, <1>2 DEF VisitNext

\* A browsing without mishaps lists the products of the choice from the first
\* on, none left out, none twice, none of another choice (catalogueListApi
\* appends, willDisplay asks for the next page).
THEOREM PeaceKeepsOrder == VisitSpec => []PeacefulPrefix
<1>1. VisitInit => VisitInv
  <2>1. Init => TypeOK BY TypeInit
  <2> QED BY <2>1 DEF VisitInit, Init, VisitInv, CellsMatchRows, Peace, Alive
<1>2. VisitInv /\ [VisitNext]_visitvars => VisitInv' BY InvStep
<1>3. VisitInv => PeacefulPrefix
  BY DEF VisitInv, Peace, Browsing, RowsInOrder, PeacefulPrefix
<1> QED BY <1>1, <1>2, <1>3, PTL DEF VisitSpec

-----------------------------------------------------------------------------
(* A peaceful browsing goes on                                             *)

\* An emptied list is being fetched, or there is nothing to list.
Filling == list = <<>> => Fetching # {} \/ Total[filter] = 0

\* Rows are drawn, and scrolled until they are all there.
Scrolling ==
  list # <<>> =>
    /\ display = "rows"
    /\ (\A s \in Slots : wire[s].op # "list") =>
         Len(list) = Total[filter] \/ noofelements >= PageRows

\* What is added is a row of the list.
AddsToRows == \A s \in Slots : wire[s].op = "add" => list # <<>>

GoesOn == Filling /\ Scrolling /\ AddsToRows

EndInv == VisitInv /\ (Peace => GoesOn)

LEMMA StillGoesOn ==
  ASSUME GoesOn, UNCHANGED <<filter, noofelements, list, display, wire>>
  PROVE  GoesOn'
BY DEF GoesOn, Filling, Scrolling, AddsToRows, Fetching

\* A list that is emptied is fetched at once.
LEMMA FetchGoesOn ==
  ASSUME TypeOK, NEW m \in Waits, m.op \in {"cart", "list"}, Send(m),
         ~Crossed, list' = <<>>
  PROVE  GoesOn'
<1>1. PICK s \in Slots : wire[s] = Idle /\ wire' = [wire EXCEPT ![s] = m]
  BY DEF Send
<1>2. wire'[s] = m /\ \A t \in Slots \ {s} : wire'[t] = wire[t]
  BY <1>1 DEF TypeOK
<1>3. Fetching = {} BY StartsAlone
<1>4. s \in Fetching' BY <1>2 DEF Fetching
<1>5. \A t \in Slots : wire'[t].op # "add" BY <1>2, <1>3 DEF Fetching
<1> QED BY <1>4, <1>5 DEF GoesOn, Filling, Scrolling, AddsToRows

\* A page leaves more to scroll for, or the list complete.
LEMMA PageGoesOn ==
  ASSUME TypeOK, TypeOK', Browsing, GoesOn, NEW s \in Slots, PageArrives(s)
  PROVE  GoesOn'
<1> DEFINE page == Page(filter, startIndex)
           b    == Before(startIndex)
<1>1. /\ wire'[s] = [op |-> "marks"]
      /\ \A t \in Slots \ {s} : wire'[t] = wire[t]
  BY DEF PageArrives, TypeOK
<1>2. wire[s].of = filter /\ wire[s].index = startIndex
      /\ Len(list) = Least(Total[filter], b)
  BY DEF PageArrives, Browsing, PageFollows
<1>3. page # <<>> /\ list' = list \o page /\ filter' = filter
      /\ noofelements' = Len(list') /\ display' = "rows"
  BY <1>2 DEF PageArrives
<1>4. filter \in Filters /\ startIndex \in Nat \ {0} /\ list \in Seq(Rows)
      /\ Total[filter] \in Nat /\ PageRows \in Nat \ {0} /\ b \in Nat
  <2>1. startIndex \in Nat \ {0} BY DEF TypeOK
  <2> QED BY <2>1, TotalAssumption, PageAssumption, BeforeNat DEF TypeOK
<1>5. /\ page \in Seq(Rows) /\ Total[filter] > b
      /\ Len(page) = Least(Total[filter] - b, PageRows)
  <2>1. /\ page \in Seq(Rows)
        /\ page = <<>> <=> Total[filter] <= b
        /\ Total[filter] > b => Len(page) = Least(Total[filter] - b, PageRows)
    BY <1>4, PageContents
  <2> QED BY <1>3, <1>4, <2>1
<1> HIDE DEF page, b
<1>6. Len(list') = Len(list) + Len(page) /\ Len(page) \in Nat \ {0}
      /\ list' # <<>>
  <2>1. list \in Seq(Rows) /\ page \in Seq(Rows) BY <1>4, <1>5
  <2>2. Len(list \o page) = Len(list) + Len(page) /\ Len(list) \in Nat
    BY <2>1
  <2>3. Len(page) \in Nat \ {0} BY <1>4, <1>5 DEF Least
  <2>4. Len(list \o page) # 0 BY <2>2, <2>3
  <2>5. list \o page # <<>> BY <2>4
  <2> QED BY <1>3, <2>2, <2>3, <2>5
<1>7. Len(list') = Total[filter] \/ Len(list') >= PageRows
  BY <1>2, <1>4, <1>5, <1>6 DEF Least
<1> QED BY <1>3, <1>6, <1>7 DEF GoesOn, Filling, Scrolling, AddsToRows

\* No page: nothing is left to list.
LEMMA NoPageGoesOn ==
  ASSUME TypeOK, Browsing, GoesOn, NEW s \in Slots, NoPageArrives(s)
  PROVE  GoesOn'
<1>1. wire'[s] = Idle /\ \A t \in Slots \ {s} : wire'[t] = wire[t]
  BY DEF NoPageArrives, TypeOK
<1>2. filter \in Filters /\ startIndex \in Nat \ {0} /\ list \in Seq(Rows)
      /\ Total[filter] \in Nat /\ Before(startIndex) \in Nat
  BY TotalAssumption, BeforeNat DEF TypeOK
<1>3. Len(list) = Least(Total[filter], Before(startIndex))
      /\ Page(filter, startIndex) = <<>>
  BY DEF NoPageArrives, Browsing, PageFollows
<1>4. Total[filter] <= Before(startIndex) BY <1>2, <1>3, PageContents
<1>5. Len(list) = Total[filter] BY <1>2, <1>3, <1>4 DEF Least
<1>6. list = <<>> => Total[filter] = 0 BY <1>2, <1>5
<1>7. list # <<>> => startIndex > 1
  <2>1. Before(1) = 0 BY <1>2, BeforeNat
  <2>2. startIndex = 1 => Len(list) = 0 BY <1>2, <1>4, <1>5, <2>1
  <2> QED BY <1>2, <2>2
<1>8. filter' = filter /\ list' = list
      /\ (list # <<>> => display' = display)
  BY <1>2, <1>7 DEF NoPageArrives
<1> QED BY <1>1, <1>5, <1>6, <1>8
        DEF GoesOn, Filling, Scrolling, AddsToRows, Idle

LEMMA EndNetwork ==
  ASSUME EndInv, TypeOK', NEW s \in Slots, Network(s) \/ Lost(s), Observe,
         Peace'
  PROVE  GoesOn'
<1>1. Network(s) /\ Peace BY PeacefulReply DEF EndInv, VisitInv
<1>2. TypeOK /\ Browsing /\ GoesOn BY <1>1 DEF EndInv, VisitInv
\* A slot moves on without a page, and the list stays.
<1>3. ASSUME NEW m \in Waits, wire' = [wire EXCEPT ![s] = m],
             wire[s].op # "list", m.op # "add",
             s \in Fetching => m.op \in {"cart", "category", "list"}
                                \/ list # <<>>,
             UNCHANGED <<filter, noofelements, list, display>>
      PROVE  GoesOn'
  <2>1. wire'[s] = m /\ \A t \in Slots \ {s} : wire'[t] = wire[t]
    BY <1>2, <1>3 DEF TypeOK
  <2>2. Filling'
    <3> SUFFICES ASSUME list = <<>>, Total[filter] # 0 PROVE Fetching' # {}
      BY <1>3 DEF Filling
    <3>1. PICK t \in Fetching : TRUE BY <1>2 DEF GoesOn, Filling
    <3>2. CASE t = s
      <4>1. s \in Fetching' BY <1>3, <2>1, <3>2 DEF Fetching
      <4> QED BY <4>1
    <3>3. CASE t # s
      <4>1. t \in Fetching' BY <2>1, <3>3 DEF Fetching
      <4> QED BY <4>1
    <3> QED BY <3>2, <3>3
  <2>3. Scrolling' BY <1>2, <1>3, <2>1 DEF GoesOn, Scrolling
  <2>4. AddsToRows' BY <1>2, <1>3, <2>1 DEF GoesOn, AddsToRows
  <2> QED BY <2>2, <2>3, <2>4 DEF GoesOn
<1>4. CASE CartArrives(s)
  <2> DEFINE m == [op |-> "category"]
  <2>1. m \in Waits /\ wire' = [wire EXCEPT ![s] = m] /\ wire[s] = Cart
        /\ m.op = "category"
    BY <1>4, Messages DEF CartArrives
  <2>2. wire[s].op # "list" BY <2>1 DEF Cart
  <2>3. UNCHANGED <<filter, noofelements, list, display>>
    BY <1>4 DEF CartArrives
  <2> HIDE DEF m
  <2> QED BY <1>3, <2>1, <2>2, <2>3
<1>5. CASE CategoriesArrive(s)
  <2> DEFINE m == List(filter, startIndex)
  <2>1. m \in Waits /\ m.op = "list"
    BY <1>2, Messages DEF List, TypeOK
  <2>2. wire' = [wire EXCEPT ![s] = m] /\ wire[s].op # "list"
        /\ UNCHANGED <<filter, noofelements, list, display>>
    BY <1>5 DEF CategoriesArrive
  <2> HIDE DEF m
  <2> QED BY <1>3, <2>1, <2>2
<1>6. CASE PageArrives(s) BY <1>2, <1>6, PageGoesOn
<1>7. CASE NoPageArrives(s) BY <1>2, <1>7, NoPageGoesOn
<1>8. CASE MarksArrive(s)
  <2>1. Idle \in Waits /\ Idle.op = "idle" BY Messages DEF Idle
  <2>2. s \notin Fetching BY <1>8 DEF MarksArrive, Fetching
  <2> QED BY <1>3, <1>8, <2>1, <2>2 DEF MarksArrive
\* A chain that ends without a page has missed it.
<1>10. CASE NoCategories(s)
  <2>1. Idle \in Waits /\ Idle.op = "idle" BY Messages DEF Idle
  <2>2. wire' = [wire EXCEPT ![s] = Idle] BY <1>10 DEF NoCategories
  <2>3. wire'[s].op = "idle" BY <1>2, <2>1, <2>2 DEF TypeOK
  <2>4. wire[s].op = "late"
    BY <1>10, <2>3, Peaceful DEF NoCategories, Missed, Peace
  <2>5. s \notin Fetching BY <2>4 DEF Fetching
  <2> QED BY <1>3, <1>10, <2>1, <2>2, <2>4, <2>5 DEF NoCategories
<1>9. CASE Added(s)
  <2>1. Idle \in Waits /\ Idle.op = "idle" BY Messages DEF Idle
  <2>2. list # <<>> BY <1>2, <1>9 DEF Added, GoesOn, AddsToRows
  <2>3. CASE UNCHANGED list /\ wire' = [wire EXCEPT ![s] = Idle]
    BY <1>3, <1>9, <2>1, <2>2, <2>3 DEF Added
  <2>4. CASE list' = <<>> /\ wire' = [wire EXCEPT ![s] = Cart]
    <3>1. wire'[s] = Cart /\ \A t \in Slots \ {s} : wire'[t] = wire[t]
      BY <1>2, <2>4 DEF TypeOK
    <3>2. s \in Fetching /\ s \in Fetching'
      BY <1>9, <3>1 DEF Added, Fetching, Cart
    <3>3. \A t \in Slots : wire'[t].op # "add"
      BY <1>2, <3>1, <3>2 DEF Browsing, Alone, Fetching, Cart
    <3> QED BY <2>4, <3>2, <3>3 DEF GoesOn, Filling, Scrolling, AddsToRows
  <2> QED BY <1>9, <2>3, <2>4 DEF Added
<1> QED BY <1>1, <1>4, <1>5, <1>6, <1>7, <1>8, <1>9, <1>10 DEF Network

LEMMA EndNavigate ==
  ASSUME EndInv, Navigate, Observe, Peace' PROVE GoesOn'
<1>1. ~Crossed /\ ~Missed /\ (Fresh \/ mishaps = {})
      /\ screen' \in {"open", "details", "cart"}
  BY Peaceful DEF Peace, Alive
<1>2. ASSUME AppearOnline PROVE GoesOn'
  <2>1. Cart \in Waits /\ Cart.op = "cart" BY Messages DEF Cart
  <2> QED BY <1>1, <1>2, <2>1, FetchGoesOn DEF AppearOnline, EndInv, VisitInv
<1>3. CASE Open BY <1>1, <1>2, <1>3 DEF Open, Missed
<1>4. CASE OpenCart
  <2>1. Peace BY <1>1, <1>4 DEF OpenCart, Fresh, Peace, Alive
  <2> QED BY <1>4, <2>1, StillGoesOn DEF OpenCart, EndInv
<1>5. CASE ReturnFromCart BY <1>1, <1>2, <1>5 DEF ReturnFromCart, Missed
<1>6. CASE ReturnFromDetails
  BY <1>1, <1>2, <1>6 DEF ReturnFromDetails, Missed
<1> QED BY <1>1, <1>3, <1>4, <1>5, <1>6 DEF Navigate, Leave, Relaunch

LEMMA EndChoices ==
  ASSUME EndInv, NEW f \in Filters, Choosing(f), Observe, Peace'
  PROVE  GoesOn'
<1>1. ~Crossed BY Peaceful DEF Peace
<1>2. /\ Cart \in Waits /\ Cart.op = "cart"
      /\ List(f, 1) \in Waits /\ List(f, 1).op = "list"
  BY Messages, BoundsAssumption DEF Cart, List
<1>3. (Send(Cart) \/ Send(List(f, 1))) /\ list' = <<>>
  BY DEF Choosing, Choose, SearchBtn, ChooseByChain
<1> QED BY <1>1, <1>2, <1>3, FetchGoesOn DEF EndInv, VisitInv

LEMMA EndRows ==
  ASSUME EndInv, TypeOK', DisplayLast \/ Taps \/ AddFires \/ AddFiresEmpty,
         Observe, Peace'
  PROVE  GoesOn'
<1>1. /\ Fresh \/ mishaps = {}
      /\ screen' \in {"open", "details", "cart"}
  BY Peaceful DEF Peace, Alive
<1>2. /\ Alive /\ UNCHANGED <<filter, noofelements, list, display>>
      /\ DisplayLast => list # <<>>
      /\ ~DisplayLast => startIndex' = startIndex
  BY <1>1 DEF DisplayLast, Taps, TapRow, TapPlan, TapAdd, Tappable, AddFires,
              AddFiresEmpty, Crash, Alive, EndInv, VisitInv, TypeOK
<1>3. \/ wire' = wire
      \/ list # <<>> /\ \E m \in Waits : m.op \in {"add", "list"} /\ Send(m)
  <2>1. CASE DisplayLast
    <3>1. List(filter, startIndex') \in Waits
          /\ List(filter, startIndex').op = "list"
      BY <1>2, Messages DEF List, TypeOK
    <3> QED BY <1>2, <2>1, <3>1 DEF DisplayLast
  <2>2. [op |-> "add"] \in Waits BY Messages
  <2>3. CASE TapRow \/ TapAdd BY <2>3 DEF TapRow, TapAdd
  <2>4. CASE TapPlan BY <2>2, <2>4 DEF TapPlan
  <2>5. CASE AddFires BY <2>2, <2>5 DEF AddFires
  <2>6. CASE AddFiresEmpty BY <1>1, <2>6 DEF AddFiresEmpty, Crash
  <2> QED BY <2>1, <2>3, <2>4, <2>5, <2>6 DEF Taps
<1>4. Peace
  <2>1. CASE wire' = wire
    BY <1>1, <1>2, <2>1 DEF Fresh, Fetching, Peace
  <2>2. CASE list # <<>> BY <1>1, <1>2, <2>2 DEF Fresh, Peace
  <2> QED BY <1>3, <2>1, <2>2
<1>5. GoesOn BY <1>4 DEF EndInv
<1>6. CASE wire' = wire BY <1>2, <1>5, <1>6, StillGoesOn
<1>7. ASSUME list # <<>>, NEW m \in Waits, Send(m) PROVE GoesOn'
  <2>1. PICK s \in Slots : wire[s] = Idle /\ wire' = [wire EXCEPT ![s] = m]
    BY <1>7 DEF Send
  <2>2. \A t \in Slots \ {s} : wire'[t] = wire[t]
    BY <2>1 DEF EndInv, VisitInv, TypeOK
  <2> QED BY <1>2, <1>5, <1>7, <2>1, <2>2
          DEF GoesOn, Filling, Scrolling, AddsToRows, Idle
<1> QED BY <1>3, <1>6, <1>7

LEMMA EndStep == EndInv /\ [VisitNext]_visitvars => EndInv'
<1> SUFFICES ASSUME EndInv, [VisitNext]_visitvars PROVE EndInv'
  OBVIOUS
<1>1. VisitInv' BY InvStep DEF EndInv
<1>2. CASE UNCHANGED visitvars
  BY <1>1, <1>2, StillGoesOn DEF visitvars, vars, EndInv, Peace, Alive
<1>3. CASE Next /\ Observe
  <2>1. TypeOK' BY <1>1 DEF VisitInv
  <2>2. ASSUME Peace' PROVE GoesOn'
    <3>1. ASSUME NEW f \in Filters, Choosing(f) PROVE GoesOn'
      BY <1>3, <2>2, <3>1, EndChoices
    <3>2. CASE Crashes
      BY <2>2, <3>2, CrashesCrash DEF Crash, Peace, Alive
    <3>3. ASSUME NEW s \in Slots, Network(s) \/ Lost(s) PROVE GoesOn'
      BY <1>3, <2>1, <2>2, <3>3, EndNetwork
    <3> QED BY <1>3, <2>1, <2>2, <3>1, <3>2, <3>3, EndNavigate, EndRows
            DEF Next, Choices, Choosing
  <2> QED BY <1>1, <2>2 DEF EndInv
<1> QED BY <1>2, <1>3 DEF VisitNext

\* As many rows as the choice has products, in order, are its listing.
LEMMA ListedAll ==
  ASSUME TypeOK, RowsInOrder, Len(list) = Total[filter]
  PROVE  list = Listing(filter)
<1>1. list \in Seq(Rows) BY DEF TypeOK
<1>2. list = [k \in 1 .. Len(list) |-> list[k]] BY <1>1
<1>3. \A k \in 1 .. Len(list) : list[k] = [of |-> filter, n |-> k]
  BY DEF RowsInOrder
<1> QED BY <1>2, <1>3 DEF Listing

\* Whatever is tapped and whichever page comes empty, a browsing without
\* mishaps that draws rows and has not listed every product has a page on its way or rows
\* whose last one will ask for it (noofelements, willDisplay,
\* catalogueListApi): EndIsReached rests on replies and on scrolling alone.
THEOREM EndsAreAwaited == VisitSpec => []EndIsAwaited
<1>1. VisitInit => EndInv
  <2>1. Init => TypeOK BY TypeInit
  <2> QED BY <2>1 DEF VisitInit, Init, EndInv, VisitInv, CellsMatchRows,
                      Peace, Alive
<1>2. EndInv /\ [VisitNext]_visitvars => EndInv' BY EndStep
<1>3. EndInv => EndIsAwaited
  <2> SUFFICES ASSUME EndInv, screen = "open", dataSource, mishaps = {},
                      list # Listing(filter), Fetching = {}
               PROVE  Tappable /\ cells = Len(list) /\ noofelements >= PageRows
    BY DEF EndIsAwaited
  <2>1. TypeOK /\ CellsMatchRows /\ Browsing /\ GoesOn
    BY DEF EndInv, VisitInv, Peace, Alive
  <2>2. Len(list) # Total[filter] BY <2>1, ListedAll DEF Browsing
  <2>3. list # <<>>
    <3>1. list = <<>> => Len(list) = 0 OBVIOUS
    <3> QED BY <2>1, <2>2, <3>1 DEF GoesOn, Filling
  <2>4. \A s \in Slots : wire[s].op # "list" BY DEF Fetching
  <2>5. display = "rows" /\ noofelements >= PageRows
    BY <2>1, <2>2, <2>3, <2>4 DEF GoesOn, Scrolling
  <2>6. cells = Len(list) BY <2>1, <2>3 DEF CellsMatchRows
  <2>7. cells > 0
    <3>1. Len(list) \in Nat /\ Len(list) # 0 BY <2>1, <2>3 DEF TypeOK
    <3> QED BY <2>6, <3>1
  <2> QED BY <2>5, <2>6, <2>7 DEF Tappable
<1> QED BY <1>1, <1>2, <1>3, PTL DEF VisitSpec

-----------------------------------------------------------------------------
(* A browsing in which requests do not cross                               *)

Uncrossed == Alive /\ "crossed" \notin mishaps

\* The rows rise, and the page asked for, like the next one that scrolling
\* will ask for, lies beyond them, whatever is missing between.
Rising ==
  \A i \in 1 .. Len(list) :
    /\ list[i].of = filter /\ list[i].n > 0
    /\ \A j \in 1 .. i - 1 : list[j].n < list[i].n

UpTo(b) == \A i \in 1 .. Len(list) : list[i].n <= b

PageAhead ==
  \A s \in Slots : wire[s].op = "list" =>
    /\ wire[s].of = filter /\ wire[s].index = startIndex
    /\ UpTo(Before(startIndex))

RowsBehind == noofelements >= PageRows => UpTo(Before(startIndex + 1))

Tidy == Alone /\ Rising /\ ChainsBegin /\ PageAhead /\ RowsBehind

OrderInv == TypeOK /\ CellsMatchRows /\ (Uncrossed => Tidy)

\* The step of a browsing that stays uncrossed: it begins anew, or it was
\* uncrossed before.
LEMMA StaysUncrossed ==
  ASSUME Observe, "crossed" \notin mishaps'
  PROVE  /\ ~Crossed /\ Alone'
         /\ Fresh \/ "crossed" \notin mishaps
<1>1. ~Crossed BY DEF Observe
<1>2. Alone' BY <1>1 DEF Crossed, Alone
<1> QED BY <1>1, <1>2 DEF Observe

\* An empty list is in order if the page that is under way is that of the
\* choice.
LEMMA EmptiedTidy ==
  ASSUME TypeOK', Alone', list' = <<>>,
         \A s \in Slots : wire'[s].op = "list" =>
           wire'[s].of = filter' /\ wire'[s].index = startIndex'
  PROVE  Tidy'
<1>1. Len(list') = 0 OBVIOUS
<1>2. Rising' /\ \A b : UpTo(b)' BY <1>1 DEF Rising, UpTo
<1> QED BY <1>2 DEF Tidy, ChainsBegin, PageAhead, RowsBehind, UpTo

\* The rows stay, and no page is asked for.
LEMMA QuietTidy ==
  ASSUME Tidy, Alone', UNCHANGED <<filter, startIndex, noofelements, list>>,
         \A s \in Slots :
           /\ wire'[s].op = "list" => wire'[s] = wire[s]
           /\ wire'[s].op \in {"cart", "category"}
                => wire[s].op \in {"cart", "category"}
  PROVE  Tidy'
BY DEF Tidy, Rising, ChainsBegin, PageAhead, RowsBehind, UpTo

LEMMA FurtherOn ==
  ASSUME TypeOK, NEW i \in Nat \ {0}, UpTo(Before(i))
  PROVE  UpTo(Before(i + 1))
<1>1. Before(i) \in Nat /\ Before(i + 1) = Before(i) + PageRows /\ PageRows \in Nat
  BY BeforeNat, PageAssumption
<1>2. ASSUME NEW k \in 1 .. Len(list) PROVE list[k].n \in Nat
  <2>1. list[k] \in Rows BY DEF TypeOK
  <2> QED BY <2>1 DEF Rows
<1> QED BY <1>1, <1>2 DEF UpTo

\* The next page lies beyond the rows.
LEMMA NextTidy ==
  ASSUME TypeOK, TypeOK', Tidy, Alone', DisplayLast
  PROVE  Tidy'
<1> DEFINE m == List(filter, startIndex')
<1>1. /\ startIndex' = startIndex + 1 /\ UNCHANGED <<filter, noofelements, list>>
      /\ noofelements >= PageRows /\ Send(m)
  BY DEF DisplayLast
<1>2. startIndex \in Nat \ {0} BY DEF TypeOK
<1>3. UpTo(Before(startIndex + 1)) BY <1>1 DEF Tidy, RowsBehind
<1>4. UpTo(Before(startIndex + 1 + 1)) BY <1>2, <1>3, FurtherOn
<1>5. PICK s \in Slots : wire[s] = Idle /\ wire' = [wire EXCEPT ![s] = m]
  BY <1>1 DEF Send
<1>6. wire'[s] = m /\ \A t \in Slots \ {s} : wire'[t] = wire[t]
  BY <1>5 DEF TypeOK
<1>7. \A t \in Slots : t # s => wire'[t].op # "list"
  <2>1. s \in Fetching' BY <1>6 DEF Fetching, List
  <2> QED BY <2>1 DEF Alone, Fetching
<1>8. PageAhead' BY <1>1, <1>3, <1>6, <1>7 DEF PageAhead, UpTo, List
<1>9. RowsBehind' BY <1>1, <1>4 DEF RowsBehind, UpTo
<1>10. ChainsBegin' BY <1>1, <1>6 DEF Tidy, ChainsBegin, List
<1> QED BY <1>1, <1>8, <1>9, <1>10 DEF Tidy, Rising

\* The rows of the page lie beyond those that are there.
LEMMA PageTidy ==
  ASSUME TypeOK, TypeOK', Tidy, Alone', NEW s \in Slots, PageArrives(s)
  PROVE  Tidy'
<1> DEFINE page == Page(filter, startIndex)
           b    == Before(startIndex)
<1>1. /\ wire'[s] = [op |-> "marks"]
      /\ \A t \in Slots \ {s} : wire'[t] = wire[t]
  BY DEF PageArrives, TypeOK
<1>2. wire[s].of = filter /\ wire[s].index = startIndex /\ UpTo(b)
  BY DEF PageArrives, Tidy, PageAhead
<1>3. /\ list' = list \o page /\ noofelements' = Len(list')
      /\ filter' = filter /\ startIndex' = startIndex
  BY <1>2 DEF PageArrives
<1>4. \A t \in Slots : wire'[t].op \notin {"cart", "category", "list"}
  <2>1. s \in Fetching BY DEF PageArrives, Fetching
  <2> QED BY <1>1, <2>1 DEF Tidy, Alone, Fetching
<1>5. /\ filter \in Filters /\ startIndex \in Nat \ {0} /\ list \in Seq(Rows)
      /\ Total[filter] \in Nat /\ PageRows \in Nat \ {0}
  BY TotalAssumption, PageAssumption DEF TypeOK
<1>6. /\ b \in Nat /\ Before(startIndex + 1) = b + PageRows
      /\ page \in Seq(Rows) /\ Len(page) \in Nat /\ Len(page) <= PageRows
      /\ \A k \in 1 .. Len(page) : page[k] = [of |-> filter, n |-> b + k]
  <2>1. b \in Nat /\ Before(startIndex + 1) = b + PageRows
    BY <1>5, BeforeNat
  <2>2. /\ page \in Seq(Rows)
        /\ page = <<>> <=> Total[filter] <= b
        /\ Total[filter] > b => Len(page) = Least(Total[filter] - b, PageRows)
        /\ \A k \in 1 .. Len(page) : page[k] = [of |-> filter, n |-> b + k]
    BY <1>5, PageContents
  <2> HIDE DEF page, b
  <2>3. Len(page) \in Nat /\ (page = <<>> => Len(page) = 0) BY <2>2
  <2> QED BY <1>5, <2>1, <2>2, <2>3 DEF Least
<1> HIDE DEF page, b
<1>7. /\ Len(list') = Len(list) + Len(page) /\ Len(list) \in Nat
      /\ \A k \in 1 .. Len(list) : list'[k] = list[k]
      /\ \A k \in 1 .. Len(page) : list'[Len(list) + k] = page[k]
  BY <1>3, <1>5, <1>6
<1>8. \A k \in 1 .. Len(list) :
        /\ list[k].n \in Nat \ {0} /\ list[k].n <= b /\ list[k].of = filter
        /\ \A j \in 1 .. k - 1 : list[j].n < list[k].n
  <2> SUFFICES ASSUME NEW k \in 1 .. Len(list)
               PROVE  /\ list[k].n \in Nat \ {0} /\ list[k].n <= b
                      /\ list[k].of = filter
                      /\ \A j \in 1 .. k - 1 : list[j].n < list[k].n
    OBVIOUS
  <2>1. list[k] \in Rows BY <1>5
  <2> QED BY <1>2, <2>1 DEF Rows, Tidy, Rising, UpTo
<1>9. ASSUME NEW i \in 1 .. Len(list')
      PROVE  /\ list'[i].of = filter /\ list'[i].n > 0
             /\ list'[i].n <= Before(startIndex + 1)
             /\ \A j \in 1 .. i - 1 : list'[j].n < list'[i].n
  <2>1. CASE i <= Len(list)
    <3>1. i \in 1 .. Len(list) BY <1>7, <2>1
    <3>2. \A j \in 1 .. i - 1 : j \in 1 .. Len(list) BY <1>7, <3>1
    <3>3. list'[i] = list[i] /\ \A j \in 1 .. i - 1 : list'[j] = list[j]
      BY <1>7, <3>1, <3>2
    <3>4. list[i].n \in Nat \ {0} /\ list[i].n <= b /\ list[i].of = filter
          /\ \A j \in 1 .. i - 1 : list[j].n < list[i].n
      BY <1>8, <3>1
    <3>5. list[i].n <= Before(startIndex + 1) BY <1>5, <1>6, <3>4
    <3> QED BY <3>3, <3>4, <3>5
  <2>2. CASE i > Len(list)
    <3>1. PICK k \in 1 .. Len(page) : i = Len(list) + k
      <4>1. i - Len(list) \in 1 .. Len(page) /\ i = Len(list) + (i - Len(list))
        BY <1>6, <1>7, <2>2
      <4> QED BY <4>1
    <3>2. list'[i] = [of |-> filter, n |-> b + k] BY <1>6, <1>7, <3>1
    <3>3. ASSUME NEW j \in 1 .. i - 1 PROVE list'[j].n < b + k
      <4>1. CASE j <= Len(list)
        <5>1. j \in 1 .. Len(list) BY <1>7, <4>1
        <5> QED BY <1>6, <1>7, <1>8, <5>1
      <4>2. CASE j > Len(list)
        <5>1. PICK h \in 1 .. Len(page) : j = Len(list) + h
          <6>1. j - Len(list) \in 1 .. Len(page) /\ j = Len(list) + (j - Len(list))
            BY <1>6, <1>7, <3>1, <4>2
          <6> QED BY <6>1
        <5>2. list'[j] = [of |-> filter, n |-> b + h] BY <1>6, <1>7, <5>1
        <5> QED BY <1>6, <1>7, <3>1, <5>1, <5>2
      <4> QED BY <1>7, <4>1, <4>2
    <3> QED BY <1>5, <1>6, <3>1, <3>2, <3>3
  <2> QED BY <1>7, <2>1, <2>2
<1>10. Rising' /\ UpTo(Before(startIndex + 1))'
  BY <1>3, <1>9 DEF Rising, UpTo
<1> QED BY <1>3, <1>4, <1>10
        DEF Tidy, ChainsBegin, PageAhead, RowsBehind, UpTo

\* No page follows: the next choice begins anew, and until then scrolling
\* asks for nothing.
LEMMA NoPageTidy ==
  ASSUME TypeOK, Tidy, Alone', NEW s \in Slots, NoPageArrives(s)
  PROVE  Tidy'
<1>1. wire'[s] = Idle /\ \A t \in Slots \ {s} : wire'[t] = wire[t]
  BY DEF NoPageArrives, TypeOK
<1>2. \A t \in Slots : wire'[t].op \notin {"cart", "category", "list"}
  <2>1. s \in Fetching BY DEF NoPageArrives, Fetching
  <2> QED BY <1>1, <2>1 DEF Tidy, Alone, Fetching, Idle
<1>3. UNCHANGED <<filter, list>> BY DEF NoPageArrives
<1>4. RowsBehind'
  <2>1. CASE startIndex > 1
    <3>1. noofelements' = PageRows - 1 BY <2>1 DEF NoPageArrives
    <3> QED BY <3>1, PageAssumption DEF RowsBehind
  <2>2. CASE startIndex = 1
    <3>1. UNCHANGED <<startIndex, noofelements>> BY <2>2 DEF NoPageArrives
    <3> QED BY <1>3, <3>1 DEF Tidy, RowsBehind, UpTo
  <2> QED BY <2>1, <2>2 DEF NoPageArrives
<1> QED BY <1>2, <1>3, <1>4 DEF Tidy, Rising, ChainsBegin, PageAhead

LEMMA OrderNavigate ==
  ASSUME OrderInv, TypeOK', Navigate, Observe, Uncrossed'
  PROVE  Tidy'
<1>1. /\ "crossed" \notin mishaps' /\ screen' \in {"open", "details", "cart"}
  BY DEF Uncrossed, Alive
<1>2. ~Crossed /\ Alone' /\ (Fresh \/ "crossed" \notin mishaps)
  BY <1>1, StaysUncrossed
<1>3. ASSUME screen # "open", screen' = "open",
             wire' = wire \/ Send(Cart), list' = <<>>
      PROVE  Tidy'
  <2>1. \A s \in Slots : wire[s].op # "list"
    BY <1>2, <1>3 DEF Crossed, Fetching
  <2>2. \A s \in Slots : wire'[s].op # "list"
    BY <1>3, <2>1 DEF Send, Cart, OrderInv, TypeOK
  <2> QED BY <1>2, <1>3, <2>2, EmptiedTidy
<1>4. CASE Open BY <1>3, <1>4 DEF Open, AppearOnline
<1>5. CASE OpenCart
  <2>1. Uncrossed BY <1>2, <1>5 DEF OpenCart, Fresh, Uncrossed, Alive
  <2> QED BY <1>2, <1>5, <2>1, QuietTidy DEF OpenCart, OrderInv
<1>6. CASE ReturnFromCart
  <2>1. CASE AppearOnline
    BY <1>3, <1>6, <2>1 DEF ReturnFromCart, AppearOnline
  <2>2. CASE UNCHANGED <<list, cells, display, wire>>
    <3>1. CASE list = <<>> BY <1>3, <1>6, <2>2, <3>1 DEF ReturnFromCart
    <3>2. CASE list # <<>>
      <4>1. filter' = filter BY <1>2, <2>2, <3>2 DEF Crossed
      <4>2. Uncrossed
        BY <1>2, <1>6, <2>2, <3>2 DEF ReturnFromCart, Fresh, Uncrossed, Alive
      <4> QED BY <1>2, <1>6, <2>2, <4>1, <4>2, QuietTidy
              DEF ReturnFromCart, OrderInv
    <3> QED BY <3>1, <3>2
  <2> QED BY <1>6, <2>1, <2>2 DEF ReturnFromCart
<1>7. CASE ReturnFromDetails
  BY <1>3, <1>7 DEF ReturnFromDetails, AppearOnline
<1> QED BY <1>1, <1>4, <1>5, <1>6, <1>7 DEF Navigate, Leave, Relaunch

LEMMA OrderChoices ==
  ASSUME OrderInv, TypeOK', NEW f \in Filters, Choosing(f), Observe, Uncrossed'
  PROVE  Tidy'
<1>1. ~Crossed /\ Alone' BY StaysUncrossed DEF Uncrossed
<1>2. filter' = f /\ startIndex' = 1 /\ list' = <<>>
      /\ (Send(Cart) \/ Send(List(f, 1)))
  BY DEF Choosing, Choose, SearchBtn, ChooseByChain
<1>3. Fetching = {}
  BY <1>1, <1>2, StartsAlone, Messages, BoundsAssumption DEF Cart, List, OrderInv
<1>4. ASSUME NEW s \in Slots, wire'[s].op = "list"
      PROVE  wire'[s].of = f /\ wire'[s].index = 1
  <2>1. wire[s].op # "list" BY <1>3 DEF Fetching
  <2> QED BY <1>2, <1>4, <2>1 DEF Send, Cart, List, OrderInv, TypeOK
<1> QED BY <1>1, <1>2, <1>4, EmptiedTidy

LEMMA OrderRows ==
  ASSUME OrderInv, TypeOK', DisplayLast \/ Taps \/ AddFires \/ AddFiresEmpty,
         Observe, Uncrossed'
  PROVE  Tidy'
<1>1. /\ Alone' /\ (Fresh \/ "crossed" \notin mishaps)
      /\ screen' \in {"open", "details", "cart"}
  BY StaysUncrossed DEF Uncrossed, Alive
<1>2. CASE DisplayLast
  <2>1. Uncrossed
    BY <1>1, <1>2 DEF DisplayLast, Tappable, Fresh, Uncrossed, Alive, OrderInv, TypeOK
  <2> QED BY <1>1, <1>2, <2>1, NextTidy DEF OrderInv
<1>3. CASE Taps \/ AddFires \/ AddFiresEmpty
  <2>1. Alive
    BY <1>1, <1>3 DEF Taps, TapRow, TapPlan, TapAdd, Tappable, AddFires,
                      AddFiresEmpty, Crash, Alive
  <2>2. UNCHANGED <<filter, startIndex, noofelements, list>>
    BY <1>3 DEF Taps, TapRow, TapPlan, TapAdd, AddFires, AddFiresEmpty, Crash
  <2>3. wire' = wire \/ (list # <<>> /\ Send([op |-> "add"]))
    <3>1. CASE TapRow \/ TapAdd BY <3>1 DEF TapRow, TapAdd
    <3>2. CASE TapPlan BY <3>2 DEF TapPlan
    <3>3. CASE AddFires BY <3>3 DEF AddFires
    <3>4. CASE AddFiresEmpty BY <1>1, <3>4 DEF AddFiresEmpty, Crash
    <3> QED BY <1>3, <3>1, <3>2, <3>3, <3>4 DEF Taps
  <2>4. Uncrossed BY <1>1, <2>1, <2>2, <2>3 DEF Fresh, Fetching, Uncrossed
  <2>5. \A s \in Slots :
          /\ wire'[s].op = "list" => wire'[s] = wire[s]
          /\ wire'[s].op \in {"cart", "category"}
               => wire[s].op \in {"cart", "category"}
    BY <2>3 DEF Send, OrderInv, TypeOK
  <2> QED BY <1>1, <2>2, <2>4, <2>5, QuietTidy DEF OrderInv
<1> QED BY <1>2, <1>3

LEMMA OrderNetwork ==
  ASSUME OrderInv, TypeOK', NEW s \in Slots, Network(s) \/ Lost(s), Observe,
         Uncrossed'
  PROVE  Tidy'
<1>1. /\ Alone' /\ (Fresh \/ "crossed" \notin mishaps)
      /\ screen' \in {"open", "details", "cart"}
  BY StaysUncrossed DEF Uncrossed, Alive
<1>2. screen' = screen
  BY DEF Network, CartArrives, CategoriesArrive, PageArrives, NoPageArrives,
         MarksArrive, Added, NoCategories, Lost
<1>3. Uncrossed
  <2>1. CASE wire[s].op \in {"cart", "category", "add", "list"}
    BY <1>1, <1>2, <2>1 DEF Fresh, Fetching, Uncrossed, Alive
  <2>2. CASE MarksArrive(s) \/ NoCategories(s) \/ Lost(s)
    <3>1. Fetching' \subseteq Fetching
      BY <2>2 DEF MarksArrive, NoCategories, Lost, Fetching, Idle, OrderInv, TypeOK
    <3> QED BY <1>1, <1>2, <3>1 DEF Fresh, Uncrossed, Alive
  <2> QED BY <2>1, <2>2
          DEF Network, CartArrives, CategoriesArrive, PageArrives,
              NoPageArrives, Added, Cart
<1>4. TypeOK /\ Tidy BY <1>3 DEF OrderInv
<1>5. CASE CartArrives(s) \/ NoCategories(s) \/ MarksArrive(s) \/ Lost(s)
           \/ (Added(s) /\ UNCHANGED list /\ wire' = [wire EXCEPT ![s] = Idle])
  <2>1. UNCHANGED <<filter, startIndex, noofelements, list>>
    BY <1>5 DEF CartArrives, NoCategories, MarksArrive, Lost, Added
  <2>2. \A t \in Slots :
          /\ wire'[t].op = "list" => wire'[t] = wire[t]
          /\ wire'[t].op \in {"cart", "category"}
               => wire[t].op \in {"cart", "category"}
    BY <1>4, <1>5
       DEF CartArrives, NoCategories, MarksArrive, Lost, Cart, Idle, TypeOK
  <2> QED BY <1>1, <1>4, <2>1, <2>2, QuietTidy
<1>6. CASE CategoriesArrive(s)
  <2>1. list' = <<>> /\ UNCHANGED <<filter, startIndex>>
    BY <1>4, <1>6 DEF CategoriesArrive, Tidy, ChainsBegin
  <2>2. \A t \in Slots : wire'[t].op = "list" =>
          wire'[t].of = filter /\ wire'[t].index = startIndex
    BY <1>4, <1>6 DEF CategoriesArrive, Tidy, PageAhead, List, TypeOK
  <2> QED BY <1>1, <2>1, <2>2, EmptiedTidy
<1>7. CASE PageArrives(s) BY <1>1, <1>4, <1>7, PageTidy
<1>8. CASE NoPageArrives(s) BY <1>1, <1>4, <1>8, NoPageTidy
<1>9. CASE Added(s) /\ list' = <<>> /\ wire' = [wire EXCEPT ![s] = Cart]
  <2>1. UNCHANGED <<filter, startIndex>> BY <1>9 DEF Added
  <2>2. \A t \in Slots : wire'[t].op = "list" =>
          wire'[t].of = filter /\ wire'[t].index = startIndex
    BY <1>4, <1>9 DEF Tidy, PageAhead, Cart, TypeOK
  <2> QED BY <1>1, <1>9, <2>1, <2>2, EmptiedTidy
<1> QED BY <1>5, <1>6, <1>7, <1>8, <1>9 DEF Network, Added

LEMMA OrderStep == OrderInv /\ [VisitNext]_visitvars => OrderInv'
<1> SUFFICES ASSUME OrderInv, [VisitNext]_visitvars PROVE OrderInv'
  OBVIOUS
<1>1. TypeOK' /\ CellsMatchRows'
  BY TypeStep, CellsStep DEF OrderInv, VisitNext, visitvars
<1>2. CASE UNCHANGED visitvars
  <2>1. UNCHANGED <<screen, filter, startIndex, noofelements, list, wire, mishaps>>
    BY <1>2 DEF visitvars, vars
  <2>2. Uncrossed' => Tidy'
    BY <2>1 DEF OrderInv, Uncrossed, Alive, Tidy, Alone, Fetching, Rising, ChainsBegin,
       PageAhead, RowsBehind, UpTo
  <2> QED BY <1>1, <2>2 DEF OrderInv
<1>3. ASSUME Next, Observe, Uncrossed' PROVE Tidy'
  <2>1. ASSUME NEW f \in Filters, Choosing(f) PROVE Tidy'
    BY <1>1, <1>3, <2>1, OrderChoices
  <2>2. CASE Crashes
    BY <1>3, <2>2, CrashesCrash DEF Crash, Uncrossed, Alive
  <2>3. ASSUME NEW s \in Slots, Network(s) \/ Lost(s) PROVE Tidy'
    BY <1>1, <1>3, <2>3, OrderNetwork
  <2> QED BY <1>1, <1>3, <2>1, <2>2, <2>3, OrderNavigate, OrderRows
          DEF Next, Choices, Choosing
<1> QED BY <1>1, <1>2, <1>3 DEF OrderInv, VisitNext

\* As long as no two chains cross, the rows are of the choice and in order,
\* none twice, although pages may be missing between them: a page that is
\* asked for lies beyond every row (startIndex in willDisplay, in the
\* completions of catalogueListApi and of addToCartApi).
THEOREM OrderUnlessCrossed == VisitSpec => []InOrderUnlessCrossed
<1>1. VisitInit => OrderInv
  <2>1. Init => TypeOK BY TypeInit
  <2> QED BY <2>1 DEF VisitInit, Init, OrderInv, CellsMatchRows, Uncrossed, Alive
<1>2. OrderInv => InOrderUnlessCrossed
  BY DEF OrderInv, Uncrossed, Tidy, Rising, InOrderUnlessCrossed
<1> QED BY <1>1, <1>2, OrderStep, PTL DEF VisitSpec
=============================================================================
