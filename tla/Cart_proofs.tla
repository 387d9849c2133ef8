---------------------------- MODULE Cart_proofs -----------------------------
(***************************************************************************)
(* The cart screen and the server's cart, for every finite set of products,*)
(* every price and balance, and any number of requests on their way: types,*)
(* the balance that the server's cart respects product by product, and     *)
(* buttons that act on the product they are drawn next to.                 *)
(***************************************************************************)
EXTENDS Cart, FiniteSetTheorems, WellFoundedInduction, TLAPS

-----------------------------------------------------------------------------
(* Sums                                                                    *)
(*                                                                         *)
(* What SumFunction, the fold by which the total of a cart is modelled,    *)
(* returns for every function from a finite set to natural numbers: a      *)
(* natural number, no less than any value, and no less than the sum of a   *)
(* function that is smaller everywhere.  The fold is a recursive function  *)
(* on the subsets of the domain; that there is one, and what it returns,   *)
(* is shown by the least counterexample.                                   *)

\* A set of natural numbers has a least one.
LEMMA LeastNumber ==
  ASSUME NEW T \in SUBSET Nat, T # {}
  PROVE  \E n \in T : \A m \in T : n <= m
<1> DEFINE R == OpToRel(<, Nat)
<1>1. IsWellFoundedOn(R, Nat) BY NatLessThanWellFounded
<1>2. \A m, n \in Nat : m < n => <<m, n>> \in R BY DEF OpToRel
<1> HIDE DEF R
<1>3. PICK n \in T : \A m \in T : ~ (<<m, n>> \in R) BY <1>1, WFMin
<1>4. \A m \in T : n <= m
  <2> TAKE m \in T
  <2>1. m \in Nat /\ n \in Nat OBVIOUS
  <2>2. ~ (m < n) BY <1>2, <1>3, <2>1
  <2> QED BY <2>1, <2>2
<1> QED BY <1>4

\* The element that the fold takes out of a set.
Taken(s) == CHOOSE x \in s : TRUE

\* g is the sum of f over each of the sets S.
Sums(f, g, S) == g = [s \in S |-> IF s = {} THEN 0
                                 ELSE f[Taken(s)] + g[s \ {Taken(s)}]]

\* SumFunction of the library, unfolded.
LEMMA SumUnfolds ==
  ASSUME NEW D, NEW f, DOMAIN f = D
  PROVE SumFunction(f) = (CHOOSE g : Sums(f, g, SUBSET D))[D]
BY Zenon DEF SumFunction, SumFunctionOnSet, FoldFunctionOnSet, MapThenFoldSet,
             Sums, Taken

\* The sets of at most n elements.
UpTo(D, n) == {s \in SUBSET D : Cardinality(s) <= n}

LEMMA TakenFacts ==
  ASSUME NEW D, IsFiniteSet(D), NEW s \in SUBSET D, s # {}
  PROVE  /\ Taken(s) \in s
         /\ s \ {Taken(s)} \in SUBSET D
         /\ Cardinality(s) \in Nat \ {0}
         /\ Cardinality(s \ {Taken(s)}) = Cardinality(s) - 1
<1>1. Taken(s) \in s BY DEF Taken
<1>2. IsFiniteSet(s) BY FS_Subset
<1>3. Cardinality(s) \in Nat BY <1>2, FS_CardinalityType
<1>4. Cardinality(s) # 0 BY <1>2, FS_EmptySet
<1>5. Cardinality(s \ {Taken(s)}) = Cardinality(s) - 1
  BY <1>1, <1>2, FS_RemoveElement
<1> QED BY <1>1, <1>3, <1>4, <1>5

\* Sums over sets of n elements give those over sets of one more.
LEMMA SumStep ==
  ASSUME NEW D, IsFiniteSet(D), NEW f, NEW n \in Nat, NEW g,
         Sums(f, g, UpTo(D, n))
  PROVE  \E h : Sums(f, h, UpTo(D, n + 1))
<1> DEFINE V(h, s) == IF s = {} THEN 0 ELSE f[Taken(s)] + h[s \ {Taken(s)}]
           h == [s \in UpTo(D, n + 1) |-> V(g, s)]
<1>1. \A s \in UpTo(D, n) : g[s] = V(g, s) BY DEF Sums
<1>2. UpTo(D, n) \subseteq UpTo(D, n + 1)
  <2> SUFFICES ASSUME NEW s \in UpTo(D, n) PROVE s \in UpTo(D, n + 1)
    OBVIOUS
  <2>1. Cardinality(s) \in Nat BY FS_Subset, FS_CardinalityType DEF UpTo
  <2> QED BY <2>1 DEF UpTo
<1>3. \A s \in UpTo(D, n) : h[s] = g[s] BY <1>1, <1>2
<1>4. \A s \in UpTo(D, n + 1) : s # {} => s \ {Taken(s)} \in UpTo(D, n)
  BY TakenFacts DEF UpTo
<1>5. \A s \in UpTo(D, n + 1) : V(g, s) = V(h, s)
  <2> TAKE s \in UpTo(D, n + 1)
  <2>1. CASE s = {} BY <2>1
  <2>2. CASE s # {}
    <3>1. h[s \ {Taken(s)}] = g[s \ {Taken(s)}] BY <1>3, <1>4, <2>2
    <3> HIDE DEF h
    <3> QED BY <3>1, <2>2
  <2> QED BY <2>1, <2>2
<1>6. h = [s \in UpTo(D, n + 1) |-> V(h, s)]
  <2> DEFINE k == h
  <2>1. h = [s \in UpTo(D, n + 1) |-> V(g, s)] OBVIOUS
  <2> HIDE DEF h
  <2> QED BY <2>1, <1>5
<1> QED BY <1>6 DEF Sums

\* There is a function that satisfies the recursive equation.
LEMMA SumExists ==
  ASSUME NEW D, IsFiniteSet(D), NEW f
  PROVE  \E g : Sums(f, g, SUBSET D)
<1> DEFINE T == {n \in Nat : ~ \E g : Sums(f, g, UpTo(D, n))}
<1>1. SUFFICES T = {}
  <2>1. Cardinality(D) \in Nat BY FS_CardinalityType
  <2>2. UpTo(D, Cardinality(D)) = SUBSET D
    BY FS_Subset DEF UpTo
  <2>3. \E g : Sums(f, g, UpTo(D, Cardinality(D))) BY <1>1, <2>1
  <2> QED BY <2>2, <2>3
<1>2. \E g : Sums(f, g, UpTo(D, 0))
  <2> DEFINE g == [s \in UpTo(D, 0) |-> 0]
  <2>1. \A s \in UpTo(D, 0) : s = {}
    <3> SUFFICES ASSUME NEW s \in UpTo(D, 0), s # {} PROVE FALSE OBVIOUS
    <3>1. s \in SUBSET D /\ Cardinality(s) <= 0 BY DEF UpTo
    <3>2. Cardinality(s) \in Nat \ {0} BY <3>1, TakenFacts
    <3> QED BY <3>1, <3>2
  <2>2. g = [s \in UpTo(D, 0) |->
               IF s = {} THEN 0 ELSE f[Taken(s)] + g[s \ {Taken(s)}]]
    BY <2>1
  <2> QED BY <2>2 DEF Sums
<1>3. SUFFICES ASSUME T # {} PROVE FALSE OBVIOUS
<1>4. PICK n \in T : \A m \in T : n <= m BY <1>3, LeastNumber
<1>5. n # 0 BY <1>2
<1>6. n - 1 \in Nat /\ n - 1 \notin T BY <1>4, <1>5
<1>7. \E g : Sums(f, g, UpTo(D, n - 1)) BY <1>6
<1>8. \E g : Sums(f, g, UpTo(D, (n - 1) + 1)) BY <1>6, <1>7, SumStep
<1> QED BY <1>8

LEMMA SumTotal ==
  ASSUME NEW D, IsFiniteSet(D), NEW f, DOMAIN f = D
  PROVE  \E g : Sums(f, g, SUBSET D) /\ SumFunction(f) = g[D]
<1>1. \E g : Sums(f, g, SUBSET D) BY SumExists
<1> QED BY <1>1, SumUnfolds

\* Induction over the subsets of D, as the absence of counterexamples.
LEMMA NoneBad ==
  ASSUME NEW D, IsFiniteSet(D), NEW B \in SUBSET SUBSET D,
         {} \notin B, \A s \in B : s \ {Taken(s)} \in B
  PROVE  B = {}
<1> SUFFICES ASSUME B # {} PROVE FALSE OBVIOUS
<1> DEFINE T == {Cardinality(s) : s \in B}
<1>1. \A s \in B : /\ Cardinality(s) \in Nat
                   /\ Cardinality(s \ {Taken(s)}) = Cardinality(s) - 1
  BY TakenFacts
<1>2. T \in SUBSET Nat /\ T # {} BY <1>1
<1>3. PICK n \in T : \A m \in T : n <= m BY <1>2, LeastNumber
<1>4. PICK s \in B : n = Cardinality(s) BY <1>3
<1>5. n \in Nat /\ Cardinality(s \ {Taken(s)}) = n - 1 BY <1>1, <1>4
<1>6. Cardinality(s \ {Taken(s)}) \in T OBVIOUS
<1>7. n - 1 \in T BY <1>5, <1>6
<1> HIDE DEF T
<1> QED BY <1>3, <1>5, <1>7

\* A sum of natural numbers is one, and a sum of greater ones is greater.
LEMMA SumMonotone ==
  ASSUME NEW D, IsFiniteSet(D), NEW f \in [D -> Nat], NEW h \in [D -> Nat],
         \A x \in D : f[x] <= h[x]
  PROVE  /\ SumFunction(f) \in Nat /\ SumFunction(h) \in Nat
         /\ SumFunction(f) <= SumFunction(h)
<1>1. PICK F : Sums(f, F, SUBSET D) /\ SumFunction(f) = F[D] BY SumTotal
<1>2. PICK H : Sums(h, H, SUBSET D) /\ SumFunction(h) = H[D] BY SumTotal
<1> DEFINE Good(s) == F[s] \in Nat /\ H[s] \in Nat /\ F[s] <= H[s]
           B == {s \in SUBSET D : ~ Good(s)}
<1>3. F[{}] = 0 /\ H[{}] = 0 BY <1>1, <1>2 DEF Sums
<1>4. ASSUME NEW s \in SUBSET D, s # {}, Good(s \ {Taken(s)}) PROVE Good(s)
  <2>1. Taken(s) \in D BY TakenFacts, <1>4
  <2>2. F[s] = f[Taken(s)] + F[s \ {Taken(s)}] BY <1>1, <1>4 DEF Sums
  <2>3. H[s] = h[Taken(s)] + H[s \ {Taken(s)}] BY <1>2, <1>4 DEF Sums
  <2>4. f[Taken(s)] \in Nat /\ h[Taken(s)] \in Nat /\ f[Taken(s)] <= h[Taken(s)]
    BY <2>1
  <2> QED BY <1>4, <2>2, <2>3, <2>4
<1>5. {} \notin B BY <1>3
<1>6. \A s \in B : s # {} /\ s \ {Taken(s)} \in B
  <2> SUFFICES ASSUME NEW s \in B PROVE s # {} /\ s \ {Taken(s)} \in B OBVIOUS
  <2>1. s # {} BY <1>5
  <2>2. s \ {Taken(s)} \in SUBSET D OBVIOUS
  <2>3. ~ Good(s \ {Taken(s)}) BY <1>4, <2>1
  <2> QED BY <2>1, <2>2, <2>3
<1>7. B \in SUBSET SUBSET D OBVIOUS
<1> HIDE DEF B
<1>8. B = {} BY <1>5, <1>6, <1>7, NoneBad
<1>9. Good(D) BY <1>8 DEF B
<1> QED BY <1>1, <1>2, <1>9

\* A sum is no less than any of its values.
LEMMA SumBounds ==
  ASSUME NEW D, IsFiniteSet(D), NEW f \in [D -> Nat], NEW x \in D
  PROVE  f[x] <= SumFunction(f)
<1>1. PICK F : Sums(f, F, SUBSET D) /\ SumFunction(f) = F[D] BY SumTotal
<1> DEFINE Good(s) == F[s] \in Nat /\ \A y \in s : f[y] <= F[s]
           B == {s \in SUBSET D : ~ Good(s)}
<1>3. F[{}] = 0 BY <1>1 DEF Sums
<1>4. ASSUME NEW s \in SUBSET D, s # {}, Good(s \ {Taken(s)}) PROVE Good(s)
  <2>1. Taken(s) \in D BY TakenFacts, <1>4
  <2>2. F[s] = f[Taken(s)] + F[s \ {Taken(s)}] BY <1>1, <1>4 DEF Sums
  <2>3. f[Taken(s)] \in Nat BY <2>1
  <2>4. F[s] \in Nat /\ f[Taken(s)] <= F[s] /\ F[s \ {Taken(s)}] <= F[s]
    BY <1>4, <2>2, <2>3
  <2>5. ASSUME NEW y \in s, y # Taken(s) PROVE f[y] <= F[s]
    <3>1. f[y] \in Nat /\ f[y] <= F[s \ {Taken(s)}] BY <1>4, <2>5
    <3> QED BY <3>1, <2>4, <1>4
  <2> QED BY <2>4, <2>5
<1>5. {} \notin B BY <1>3
<1>6. \A s \in B : s # {} /\ s \ {Taken(s)} \in B
  <2> SUFFICES ASSUME NEW s \in B PROVE s # {} /\ s \ {Taken(s)} \in B OBVIOUS
  <2>1. s # {} BY <1>5
  <2>2. s \ {Taken(s)} \in SUBSET D OBVIOUS
  <2>3. ~ Good(s \ {Taken(s)}) BY <1>4, <2>1
  <2> QED BY <2>1, <2>2, <2>3
<1>7. B \in SUBSET SUBSET D OBVIOUS
<1> HIDE DEF B
<1>8. B = {} BY <1>5, <1>6, <1>7, NoneBad
<1>9. Good(D) BY <1>8 DEF B
<1> QED BY <1>1, <1>9

\* A sum of zeros is zero.
LEMMA SumOfZeros ==
  ASSUME NEW D, IsFiniteSet(D), NEW f \in [D -> {0}]
  PROVE  SumFunction(f) = 0
<1>1. PICK F : Sums(f, F, SUBSET D) /\ SumFunction(f) = F[D] BY SumTotal
<1> DEFINE B == {s \in SUBSET D : F[s] # 0}
<1>2. {} \notin B BY <1>1 DEF Sums
<1>3. ASSUME NEW s \in B PROVE s \ {Taken(s)} \in B
  <2>1. s \in SUBSET D /\ s # {} BY <1>2
  <2>2. Taken(s) \in D /\ s \ {Taken(s)} \in SUBSET D BY <2>1, TakenFacts
  <2>3. F[s] = f[Taken(s)] + F[s \ {Taken(s)}] BY <1>1, <2>1 DEF Sums
  <2>4. f[Taken(s)] = 0 BY <2>2
  <2>5. F[s \ {Taken(s)}] # 0 BY <2>3, <2>4, <2>1
  <2> QED BY <2>2, <2>5
<1>4. B \in SUBSET SUBSET D OBVIOUS
<1> HIDE DEF B
<1>5. B = {} BY <1>2, <1>3, <1>4, NoneBad
<1>6. F[D] = 0 BY <1>5 DEF B
<1> QED BY <1>1, <1>6

-----------------------------------------------------------------------------
(* What totals and rows are                                                *)

Costs(c) == [p \in Products |-> c[p] * Unit[p]]

LEMMA CostTypes ==
  ASSUME NEW c \in AllCarts
  PROVE  Costs(c) \in [Products -> Nat]
<1>1. ASSUME NEW p \in Products PROVE c[p] * Unit[p] \in Nat
  <2>1. c[p] \in Nat /\ Unit[p] \in Nat BY UnitAssumption DEF AllCarts
  <2> QED BY <2>1
<1> QED BY <1>1 DEF Costs

LEMMA TotalType ==
  ASSUME NEW c \in AllCarts
  PROVE  Total(c) \in Nat
<1>1. Total(c) = SumFunction(Costs(c)) BY DEF Total, Costs
<1>2. Costs(c) \in [Products -> Nat] BY CostTypes
<1>3. \A p \in Products : Costs(c)[p] <= Costs(c)[p] BY <1>2
<1>4. SumFunction(Costs(c)) \in Nat
  BY <1>2, <1>3, SumMonotone, ProductsAssumption
<1> QED BY <1>1, <1>4

\* A total covers what is asked for each product.
LEMMA TotalCovers ==
  ASSUME NEW c \in AllCarts, NEW p \in Products
  PROVE  c[p] * Unit[p] <= Total(c)
<1>1. Total(c) = SumFunction(Costs(c)) BY DEF Total, Costs
<1>2. Costs(c)[p] <= SumFunction(Costs(c))
  BY CostTypes, SumBounds, ProductsAssumption
<1> QED BY <1>1, <1>2 DEF Costs

\* Fewer pieces cost less.
LEMMA TotalMonotone ==
  ASSUME NEW c \in AllCarts, NEW d \in AllCarts,
         \A p \in Products : c[p] <= d[p]
  PROVE  Total(c) <= Total(d)
<1>1. Total(c) = SumFunction(Costs(c)) /\ Total(d) = SumFunction(Costs(d))
  BY DEF Total, Costs
<1>2. ASSUME NEW p \in Products PROVE Costs(c)[p] <= Costs(d)[p]
  <2>1. c[p] \in Nat /\ d[p] \in Nat /\ Unit[p] \in Nat /\ c[p] <= d[p]
    BY UnitAssumption DEF AllCarts
  <2>2. c[p] * Unit[p] <= d[p] * Unit[p] BY <2>1
  <2> QED BY <2>2 DEF Costs
<1> QED BY <1>1, <1>2, CostTypes, SumMonotone, ProductsAssumption

LEMMA NothingCostsNothing == Total(Empty) = 0
<1>1. Total(Empty) = SumFunction(Costs(Empty)) BY DEF Total, Costs
<1>2. ASSUME NEW p \in Products PROVE Empty[p] * Unit[p] = 0
  BY UnitAssumption DEF Empty
<1>3. Costs(Empty) \in [Products -> {0}] BY <1>2 DEF Costs
<1> QED BY <1>1, <1>3, SumOfZeros, ProductsAssumption

LEMMA HeldFinite ==
  ASSUME NEW c
  PROVE  /\ IsFiniteSet(Held(c)) /\ Held(c) \subseteq Products
         /\ Rows(c) \in Nat /\ Rows(c) <= Cardinality(Products)
         /\ Cardinality(Products) \in Nat
<1>1. Held(c) \in SUBSET Products BY DEF Held
<1> QED BY <1>1, ProductsAssumption, FS_Subset, FS_CardinalityType DEF Rows

\* The row of a product is one of the table.
LEMMA RowTypes ==
  ASSUME NEW c, NEW p \in Held(c)
  PROVE  RowOf(c, p) \in 1 .. Rows(c)
<1> DEFINE upto == {q \in Held(c) : q <= p}
<1>1. p \in Nat BY HeldFinite, ProductsAssumption
<1>2. p \in upto BY <1>1
<1>3. IsFiniteSet(upto) /\ Cardinality(upto) <= Rows(c)
  BY HeldFinite, FS_Subset DEF Rows
<1>4. Cardinality(upto) \in Nat /\ Cardinality(upto) # 0
  BY <1>2, <1>3, FS_CardinalityType, FS_EmptySet
<1> QED BY <1>3, <1>4, HeldFinite DEF RowOf

LEMMA RowsDiffer ==
  ASSUME NEW c, NEW p \in Held(c), NEW q \in Held(c), p < q
  PROVE  RowOf(c, p) # RowOf(c, q)
<1> DEFINE below(n) == {r \in Held(c) : r <= n}
<1>1. p \in Nat /\ q \in Nat /\ \A r \in Held(c) : r \in Nat
  BY HeldFinite, ProductsAssumption
<1>2. below(p) \in SUBSET below(q)
  <2> SUFFICES ASSUME NEW r \in Held(c), r <= p PROVE r <= q OBVIOUS
  <2>1. r \in Nat BY <1>1
  <2> QED BY <1>1, <2>1
<1>3. q \in below(q) /\ q \notin below(p) BY <1>1
<1>4. IsFiniteSet(below(q)) BY HeldFinite, FS_Subset
<1> QED BY <1>2, <1>3, <1>4, FS_Subset DEF RowOf

\* Every row of the table shows a product.
LEMMA RowShows ==
  ASSUME NEW c, NEW r \in 1 .. Rows(c)
  PROVE  At(c, r) \in Held(c)
<1> DEFINE row == [p \in Held(c) |-> RowOf(c, p)]
<1>1. row \in [Held(c) -> 1 .. Rows(c)] BY RowTypes
<1>2. ASSUME NEW p \in Held(c), NEW q \in Held(c), p # q PROVE row[p] # row[q]
  <2>1. p \in Nat /\ q \in Nat BY HeldFinite, ProductsAssumption
  <2>2. p < q \/ q < p BY <1>2, <2>1
  <2> QED BY <2>2, RowsDiffer
<1>3. row \in Injection(Held(c), 1 .. Rows(c))
  BY <1>1, <1>2 DEF Injection, IsInjective
<1>4. IsFiniteSet(1 .. Rows(c)) /\ Cardinality(1 .. Rows(c)) = Rows(c)
  BY HeldFinite, FS_Interval
<1>5. row \in Surjection(Held(c), 1 .. Rows(c))
  BY <1>3, <1>4, FS_Injection DEF Rows
<1>6. \E p \in Held(c) : RowOf(c, p) = r BY <1>5 DEF Surjection
<1> QED BY <1>6 DEF At

-----------------------------------------------------------------------------
(* Types                                                                   *)

Messages == Request \cup Reply

LEMMA MessageTypes ==
  /\ Idle \in Messages /\ Fetch \in Messages /\ [op |-> "ok"] \in Messages
  /\ Empty \in AllCarts
  /\ \A c \in AllCarts : [op |-> "cart", c |-> c] \in Messages
  /\ \A p \in Products, q \in Nat, live \in BOOLEAN :
       [op |-> "set", p |-> p, q |-> q, live |-> live] \in Messages
BY DEF Messages, Request, Reply, Idle, Fetch, Empty, AllCarts

\* What a message of each kind carries.
LEMMA MessageParts ==
  ASSUME NEW m \in Messages
  PROVE  /\ m.op = "set" => /\ m \in [op : {"set"}, p : Products, q : Nat, live : BOOLEAN]
                             /\ m.p \in Products /\ m.q \in Nat
         /\ m.op = "cart" => m.c \in AllCarts
BY DEF Messages, Request, Reply, Idle, Fetch

LEMMA WireTypes == TypeOK => wire \in [Slots -> Messages]
BY DEF TypeOK, Messages

LEMMA AbandonedTypes ==
  ASSUME TypeOK
  PROVE  Abandoned \in [Slots -> Messages]
<1>1. wire \in [Slots -> Messages] BY WireTypes
<1>2. ASSUME NEW s \in Slots, wire[s].op = "set"
      PROVE  [wire[s] EXCEPT !.live = FALSE] \in Messages
  <2>1. wire[s] \in [op : {"set"}, p : Products, q : Nat, live : BOOLEAN]
    BY <1>1, <1>2, MessageParts
  <2>2. [wire[s] EXCEPT !.live = FALSE]
          \in [op : {"set"}, p : Products, q : Nat, live : BOOLEAN]
    BY <2>1
  <2> QED BY <2>2 DEF Messages, Request
<1> QED BY <1>2, MessageTypes DEF Abandoned

LEMMA SentTypes ==
  ASSUME TypeOK, NEW m \in Messages, NEW s \in Slots
  PROVE  [wire EXCEPT ![s] = m] \in [Slots -> Messages]
BY WireTypes

LEMMA SetTypes ==
  ASSUME TypeOK, NEW p \in Products, NEW q \in Nat, SetQuantity(p, q)
  PROVE  wire' \in [Slots -> Messages]
<1>1. Alive \in BOOLEAN BY DEF Alive
<1>2. [op |-> "set", p |-> p, q |-> q, live |-> Alive] \in Messages
  BY <1>1, MessageTypes
<1> QED BY <1>2, SentTypes DEF SetQuantity, Send

Waiting == delayed \in Seq(1 .. Cardinality(Products)) /\ Len(delayed) <= MaxDelayed

\* The first delayed tap is on a row, and leaves the others waiting.
LEMMA FirstWaiting ==
  ASSUME Waiting, delayed # <<>>
  PROVE  /\ Head(delayed) \in 1 .. Cardinality(Products)
         /\ Tail(delayed) \in Seq(1 .. Cardinality(Products))
         /\ Len(Tail(delayed)) <= MaxDelayed
<1> DEFINE S == 1 .. Cardinality(Products)
<1>1. delayed \in Seq(S) BY DEF Waiting
<1> HIDE DEF S
<1>2. /\ Head(delayed) \in S /\ Tail(delayed) \in Seq(S)
      /\ Len(Tail(delayed)) = Len(delayed) - 1 /\ Len(delayed) \in Nat
  BY <1>1
<1>3. Len(Tail(delayed)) <= MaxDelayed BY <1>2, BoundsAssumption DEF Waiting
<1> QED BY <1>2, <1>3 DEF S

LEMMA TypeInit == Init => TypeOK
<1> SUFFICES ASSUME Init PROVE TypeOK
  OBVIOUS
<1>1. wire \in [Slots -> Messages] BY MessageTypes DEF Init
<1>2. delayed \in Seq(1 .. Cardinality(Products)) /\ Len(delayed) <= MaxDelayed
  BY BoundsAssumption DEF Init
<1> QED BY <1>1, <1>2, MessageTypes DEF Init, TypeOK, Messages

LEMMA TypeUser ==
  ASSUME TypeOK, NEW p \in Products, Additions(p) \/ Taps(p)
  PROVE  TypeOK'
<1>1. wire \in [Slots -> Messages] BY WireTypes
<1>2. CASE Additions(p)
  <2>1. cart' \in AllCarts
    BY <1>2 DEF Additions, AddToCart, ServerAdds, AdditionLost, TypeOK, AllCarts
  <2> QED BY <1>2, <2>1 DEF Additions, AddToCart, ServerAdds, AdditionLost, TypeOK
<1>3. CASE TapPlus(p)
  <2>1. RowOf(shown, p) \in 1 .. Cardinality(Products)
    BY <1>3, RowTypes, HeldFinite DEF TapPlus, Tappable
  <2>2. delayed' \in Seq(1 .. Cardinality(Products)) /\ Len(delayed') <= MaxDelayed
    <3>1. Len(delayed') = Len(delayed) + 1 BY <1>3, <2>1 DEF TapPlus, TypeOK
    <3>2. Len(delayed) \in Nat BY DEF TypeOK
    <3>3. delayed' \in Seq(1 .. Cardinality(Products))
      BY <1>3, <2>1 DEF TapPlus, TypeOK
    <3>4. Len(delayed) < MaxDelayed BY <1>3 DEF TapPlus
    <3> QED BY <3>1, <3>2, <3>3, <3>4, BoundsAssumption
  <2> QED BY <1>3, <2>2 DEF TapPlus, TypeOK
<1>4. CASE TapMinus(p)
  <2>1. wire' \in [Slots -> Messages]
    <3>1. CASE Decreasable(p) /\ SetQuantity(p, list[p] - 1)
      <4>1. list[p] - 1 \in Nat BY <3>1 DEF Decreasable, TypeOK, AllCarts
      <4> QED BY <3>1, <4>1, SetTypes
    <3> QED BY <1>1, <1>4, <3>1 DEF TapMinus
  <2> QED BY <1>4, <2>1 DEF TapMinus, TypeOK, Messages
<1>5. CASE TapRemove(p)
  <2>1. wire' \in [Slots -> Messages] BY <1>5, SetTypes DEF TapRemove
  <2> QED BY <1>5, <2>1 DEF TapRemove, TypeOK, Messages
<1> QED BY <1>2, <1>3, <1>4, <1>5 DEF Taps

LEMMA TypeNetwork ==
  ASSUME TypeOK, NEW s \in Slots, Network(s) \/ Lost(s) \/ EmptyListCrashes(s)
  PROVE  TypeOK'
<1>1. wire \in [Slots -> Messages] /\ wire[s] \in Messages BY WireTypes
<1>2. wire[s].op = "set" => wire[s].p \in Products /\ wire[s].q \in Nat
  BY <1>1, MessageParts
<1>3. wire[s].op = "cart" => wire[s].c \in AllCarts /\ Total(wire[s].c) \in Nat
  BY <1>1, MessageParts, TotalType
<1>4. CASE ServerSet(s)
  <2>1. wire' \in [Slots -> Messages]
    BY <1>4, SentTypes, MessageTypes DEF ServerSet
  <2>2. cart' \in AllCarts BY <1>2, <1>4 DEF ServerSet, TypeOK, AllCarts
  <2> QED BY <1>4, <2>1, <2>2 DEF ServerSet, TypeOK, Messages
<1>5. CASE ServerList(s)
  <2>1. [op |-> "cart", c |-> cart] \in Messages BY MessageTypes DEF TypeOK
  <2>2. wire' \in [Slots -> Messages] BY <1>5, <2>1, SentTypes DEF ServerList
  <2> QED BY <1>5, <2>2 DEF ServerList, TypeOK, Messages
<1>6. CASE ChangeConfirmed(s)
  <2>1. wire' \in [Slots -> Messages]
    BY <1>6, SentTypes, MessageTypes DEF ChangeConfirmed, GetMycartList
  <2> QED BY <1>6, <2>1, MessageTypes
        DEF ChangeConfirmed, GetMycartList, TypeOK, Messages
<1>7. CASE ListArrives(s) \/ NoListArrives(s) \/ Lost(s)
  <2>1. wire' = [wire EXCEPT ![s] = Idle]
    BY <1>7 DEF ListArrives, NoListArrives, Lost
  <2>2. wire' \in [Slots -> Messages] BY <2>1, SentTypes, MessageTypes
  <2> HIDE <2>1
  <2>3. CASE ListArrives(s)
    BY <1>3, <2>2, <2>3 DEF ListArrives, TypeOK, Messages
  <2>4. CASE NoListArrives(s)
    BY <2>2, <2>4, MessageTypes DEF NoListArrives, TypeOK, Messages
  <2>5. CASE Lost(s) BY <2>2, <2>5 DEF Lost, TypeOK, Messages
  <2> QED BY <1>7, <2>3, <2>4, <2>5
<1>8. CASE EmptyListCrashes(s)
  <2>1. wire' \in [Slots -> Messages]
    BY <1>8, AbandonedTypes DEF EmptyListCrashes, Crash
  <2>2. <<>> \in Seq(1 .. Cardinality(Products)) /\ Len(<<>>) <= MaxDelayed
    BY BoundsAssumption
  <2> QED BY <1>8, <2>1, <2>2, MessageTypes
        DEF EmptyListCrashes, Crash, TypeOK, Messages
<1> QED BY <1>4, <1>5, <1>6, <1>7, <1>8 DEF Network

LEMMA TypeScreens ==
  ASSUME TypeOK,
         \/ OpenCart \/ BackBTN \/ CheckoutBTN \/ BackToCart \/ Relaunch
         \/ IncreaseFires \/ IncreaseCrashes \/ Elsewhere
  PROVE  TypeOK'
<1>1. wire \in [Slots -> Messages] /\ Abandoned \in [Slots -> Messages]
  BY WireTypes, AbandonedTypes
<1>2. <<>> \in Seq(1 .. Cardinality(Products)) /\ Len(<<>>) <= MaxDelayed
  BY BoundsAssumption
<1>3. ASSUME NEW s \in Slots
      PROVE  [wire EXCEPT ![s] = Fetch] \in [Slots -> Messages]
  BY SentTypes, MessageTypes
<1>4. CASE OpenCart
  <2>1. wire' \in [Slots -> Messages] /\ list' = Empty
    BY <1>1, <1>3, <1>4 DEF OpenCart, GetMycartList
  <2> QED BY <1>4, <2>1, MessageTypes DEF OpenCart, TypeOK, Messages
<1>5. CASE BackBTN BY <1>1, <1>5 DEF BackBTN, TypeOK, Messages
<1>6. CASE CheckoutBTN BY <1>6 DEF CheckoutBTN, TypeOK
<1>7. CASE BackToCart
  <2>1. wire' \in [Slots -> Messages] /\ list' \in {list, Empty}
    BY <1>1, <1>3, <1>7 DEF BackToCart, Appear, GetMycartList
  <2> QED BY <1>7, <2>1, MessageTypes DEF BackToCart, TypeOK, Messages
<1>8. CASE Relaunch BY <1>8 DEF Relaunch, TypeOK
<1>9. CASE IncreaseFires
  <2> DEFINE p == At(list, Head(delayed))
  <2>1. /\ Head(delayed) \in 1 .. Rows(list)
        /\ delayed' \in Seq(1 .. Cardinality(Products)) /\ Len(delayed') <= MaxDelayed
    BY <1>9, FirstWaiting, HeldFinite DEF IncreaseFires, TypeOK, Waiting
  <2>2. p \in Products BY <2>1, RowShows, HeldFinite
  <2>3. list[p] + 1 \in Nat BY <2>2 DEF TypeOK, AllCarts
  <2> HIDE DEF p
  <2>4. SetQuantity(p, list[p] + 1) \/ wire' = wire
    BY <1>9 DEF IncreaseFires, p
  <2>5. wire' \in [Slots -> Messages] BY <1>1, <2>2, <2>3, <2>4, SetTypes
  <2> QED BY <1>9, <2>1, <2>5 DEF IncreaseFires, TypeOK, Messages
<1>10. CASE IncreaseCrashes
  BY <1>1, <1>2, <1>10 DEF IncreaseCrashes, Crash, TypeOK, Messages
<1>11. CASE Elsewhere
  <2>1. CASE OrderTaken BY <2>1 DEF OrderTaken, TypeOK, AllCarts
  <2>2. CASE PopToRoot BY <1>1, <2>2 DEF PopToRoot, TypeOK, Messages
  <2>3. CASE CrashElsewhere
    BY <1>1, <1>2, <2>3 DEF CrashElsewhere, Crash, TypeOK, Messages
  <2> QED BY <1>11, <2>1, <2>2, <2>3 DEF Elsewhere
<1> QED BY <1>4, <1>5, <1>6, <1>7, <1>8, <1>9, <1>10, <1>11

LEMMA TypeStep == TypeOK /\ [Next]_vars => TypeOK'
<1> SUFFICES ASSUME TypeOK, [Next]_vars PROVE TypeOK'
  OBVIOUS
<1>1. CASE UNCHANGED vars BY <1>1 DEF vars, TypeOK
<1> QED BY <1>1, TypeUser, TypeNetwork, TypeScreens DEF Next, Local, Crashes

\* Every variable of Cart keeps its type; of the total of a cart and of the
\* row of a tap this rests on what sums and rows are (MyCartListModel).
THEOREM TypeCorrect == Spec => []TypeOK
BY TypeInit, TypeStep, PTL DEF Spec

-----------------------------------------------------------------------------
(* The balance                                                             *)

\* A piece of every product that is being added is paid for.
Addable == \A p \in adding : Unit[p] <= Balance

\* Every quantity that is on its way to the server is paid for.
Covered == \A s \in Slots : wire[s].op = "set" => wire[s].q * Unit[wire[s].p] <= Balance

LEMMA Distribute ==
  ASSUME NEW n \in Nat, NEW u \in Nat
  PROVE  /\ (n + 1) * u = n * u + u /\ n * u \in Nat
         /\ n > 0 => (n - 1) * u <= n * u
<1>1. (n + 1) * u = n * u + u /\ n * u \in Nat OBVIOUS
<1>2. ASSUME n > 0 PROVE (n - 1) * u <= n * u
  <2>1. (n - 1) * u + u = n * u BY <1>2
  <2>2. n * u \in Nat /\ (n - 1) * u \in Nat BY <1>2
  <2> QED BY <2>1, <2>2
<1> QED BY <1>1, <1>2

\* A request that is sent leaves the others as they are.
LEMMA SetCovered ==
  ASSUME TypeOK, Covered, NEW p \in Products, NEW q \in Nat,
         q * Unit[p] <= Balance, SetQuantity(p, q)
  PROVE  Covered'
<1>1. PICK s \in Slots :
        wire' = [wire EXCEPT ![s] = [op |-> "set", p |-> p, q |-> q, live |-> Alive]]
  BY DEF SetQuantity, Send
<1>2. wire \in [Slots -> Messages] BY WireTypes
<1>3. ASSUME NEW t \in Slots, wire'[t].op = "set"
      PROVE  wire'[t].q * Unit[wire'[t].p] <= Balance
  <2>1. CASE t = s BY <1>1, <1>2, <2>1
  <2>2. CASE t # s
    <3>1. wire'[t] = wire[t] BY <1>1, <1>2, <2>2
    <3> QED BY <1>3, <3>1 DEF Covered
  <2> QED BY <2>1, <2>2
<1> QED BY <1>3 DEF Covered

\* Nothing new is asked for.
NoRequest == \A s \in Slots :
  wire'[s].op = "set" =>
    /\ wire[s].op = "set"
    /\ wire'[s].p = wire[s].p /\ wire'[s].q = wire[s].q

LEMMA QuietCovered == ASSUME Covered, NoRequest PROVE Covered'
BY DEF Covered, NoRequest

LEMMA OtherMessage ==
  ASSUME TypeOK, NEW s \in Slots, NEW m, m.op # "set",
         wire' = [wire EXCEPT ![s] = m]
  PROVE  NoRequest
BY WireTypes DEF NoRequest

LEMMA AbandonedQuiet ==
  ASSUME TypeOK, wire' = Abandoned
  PROVE  NoRequest
<1> SUFFICES ASSUME NEW s \in Slots, wire'[s].op = "set"
             PROVE  /\ wire[s].op = "set"
                    /\ wire'[s].p = wire[s].p /\ wire'[s].q = wire[s].q
  BY DEF NoRequest
<1>1. wire \in [Slots -> Messages] BY WireTypes
<1>2. wire'[s] = IF wire[s].op = "set" THEN [wire[s] EXCEPT !.live = FALSE] ELSE Idle
  BY DEF Abandoned
<1>3. wire[s].op = "set" BY <1>2 DEF Idle
<1>4. wire[s] \in [op : {"set"}, p : Products, q : Nat, live : BOOLEAN]
  BY <1>1, <1>3, MessageParts
<1> QED BY <1>2, <1>3, <1>4

LEMMA CoveredUser ==
  ASSUME TypeOK, Covered, NEW p \in Products, Additions(p) \/ Taps(p)
  PROVE  Covered'
<1>1. CASE wire' = wire BY <1>1 DEF Covered
<1>2. list \in AllCarts /\ list[p] \in Nat /\ Unit[p] \in Nat
  BY UnitAssumption DEF TypeOK, AllCarts
<1>3. CASE TapMinus(p)
  <2>1. CASE Decreasable(p) /\ SetQuantity(p, list[p] - 1)
    <3>1. list[p] * Unit[p] <= Total(list) /\ Total(list) <= Balance
      BY <1>2, <2>1, TotalCovers DEF Decreasable
    <3>2. list[p] > 1 BY <2>1 DEF Decreasable
    <3>3. (list[p] - 1) * Unit[p] <= list[p] * Unit[p] /\ list[p] * Unit[p] \in Nat
      BY <1>2, <3>2, Distribute
    <3>4. list[p] - 1 \in Nat /\ (list[p] - 1) * Unit[p] \in Nat BY <1>2, <3>2
    <3>5. (list[p] - 1) * Unit[p] <= Balance
      BY <1>2, <3>1, <3>3, <3>4, TotalType, BalanceAssumption
    <3> QED BY <2>1, <3>4, <3>5, SetCovered
  <2> QED BY <1>1, <1>3, <2>1 DEF TapMinus
<1>4. CASE TapRemove(p)
  <2>1. 0 * Unit[p] <= Balance BY <1>2, BalanceAssumption
  <2> QED BY <1>4, <2>1, SetCovered DEF TapRemove
<1> QED BY <1>1, <1>3, <1>4
        DEF Additions, AddToCart, ServerAdds, AdditionLost, Taps, TapPlus

LEMMA CoveredNetwork ==
  ASSUME TypeOK, Covered, NEW s \in Slots,
         Network(s) \/ Lost(s) \/ EmptyListCrashes(s)
  PROVE  Covered'
<1>1. CASE EmptyListCrashes(s)
  BY <1>1, AbandonedQuiet, QuietCovered DEF EmptyListCrashes, Crash
<1>2. CASE Network(s) \/ Lost(s)
  <2>1. \E m : m.op # "set" /\ wire' = [wire EXCEPT ![s] = m]
    BY <1>2 DEF Network, ServerSet, ServerList, ChangeConfirmed, GetMycartList,
       ListArrives, NoListArrives, Lost, Idle, Fetch
  <2> QED BY <2>1, OtherMessage, QuietCovered
<1> QED BY <1>1, <1>2

LEMMA CoveredIncrease ==
  ASSUME TypeOK, Covered, IncreaseFires
  PROVE  Covered'
<1> DEFINE p == At(list, Head(delayed))
<1>1. Head(delayed) \in 1 .. Rows(list)
  BY FirstWaiting, HeldFinite DEF IncreaseFires, TypeOK, Waiting
<1>2. p \in Products BY <1>1, RowShows, HeldFinite
<1> HIDE DEF p
<1>3. list \in AllCarts /\ list[p] \in Nat /\ Unit[p] \in Nat
  BY <1>2, UnitAssumption DEF TypeOK, AllCarts
<1>4. CASE Affordable(p) /\ SetQuantity(p, list[p] + 1)
  <2>1. list[p] * Unit[p] <= Total(list) /\ Total(list) + Unit[p] <= Balance
    BY <1>2, <1>3, <1>4, TotalCovers DEF Affordable
  <2>2. (list[p] + 1) * Unit[p] = list[p] * Unit[p] + Unit[p]
        /\ list[p] * Unit[p] \in Nat
    BY <1>3, Distribute
  <2>3. (list[p] + 1) * Unit[p] <= Balance
    BY <1>3, <2>1, <2>2, TotalType, BalanceAssumption
  <2> QED BY <1>2, <1>3, <1>4, <2>3, SetCovered
<1>5. CASE wire' = wire BY <1>5 DEF Covered
<1> QED BY <1>4, <1>5 DEF IncreaseFires, p

LEMMA CoveredScreens ==
  ASSUME TypeOK, Covered,
         \/ OpenCart \/ BackBTN \/ CheckoutBTN \/ BackToCart \/ Relaunch
         \/ IncreaseCrashes \/ Elsewhere
  PROVE  Covered'
<1>1. \/ wire' = wire \/ wire' = Abandoned
      \/ \E s \in Slots : wire' = [wire EXCEPT ![s] = Fetch]
  BY DEF OpenCart, BackBTN, CheckoutBTN, BackToCart, Relaunch, IncreaseCrashes,
     Elsewhere, OrderTaken, PopToRoot, CrashElsewhere, Crash, Appear,
     GetMycartList
<1>2. CASE wire' = wire BY <1>2 DEF Covered
<1>3. Fetch.op # "set" BY DEF Fetch
<1> QED BY <1>1, <1>2, <1>3, AbandonedQuiet, OtherMessage, QuietCovered

\* The server's cart changes by a request, an order or a new product.
LEMMA BalanceStep ==
  ASSUME TypeOK, EachWithinBalance, Covered, Addable, Next
  PROVE  EachWithinBalance'
<1>1. cart \in AllCarts /\ wire \in [Slots -> Messages] BY WireTypes DEF TypeOK
<1>2. ASSUME NEW p \in Products, ServerAdds(p) PROVE EachWithinBalance'
  <2>1. Unit[p] \in Nat /\ 1 * Unit[p] = Unit[p] BY UnitAssumption
  <2>2. Unit[p] <= Balance BY <1>2 DEF ServerAdds, Addable
  <2>3. \A q \in Products : cart'[q] = cart[q] \/ (q = p /\ cart'[q] = 1)
    BY <1>1, <1>2 DEF ServerAdds, AllCarts
  <2> QED BY <2>1, <2>2, <2>3 DEF EachWithinBalance
<1>3. ASSUME NEW s \in Slots, ServerSet(s) PROVE EachWithinBalance'
  <2>1. wire[s].p \in Products /\ wire[s].q * Unit[wire[s].p] <= Balance
    BY <1>1, <1>3, MessageParts DEF ServerSet, Covered
  <2>2. \A q \in Products :
          cart'[q] = cart[q] \/ (q = wire[s].p /\ cart'[q] = wire[s].q)
    BY <1>1, <1>3, <2>1 DEF ServerSet, AllCarts
  <2> QED BY <2>1, <2>2 DEF EachWithinBalance
<1>4. CASE OrderTaken
  <2>1. \A q \in Products : cart'[q] = cart[q] \/ cart'[q] = 0
    BY <1>4 DEF OrderTaken
  <2>2. \A q \in Products : 0 * Unit[q] <= Balance
    BY UnitAssumption, BalanceAssumption
  <2> QED BY <2>1, <2>2 DEF EachWithinBalance
<1>5. CASE cart' = cart BY <1>5 DEF EachWithinBalance
<1>6. ASSUME NEW p \in Products, Additions(p) \/ Taps(p)
      PROVE  ServerAdds(p) \/ cart' = cart
  BY <1>6 DEF Additions, AddToCart, AdditionLost, Taps, TapPlus, TapMinus,
     TapRemove
<1>7. ASSUME NEW s \in Slots, Network(s) \/ Lost(s) \/ EmptyListCrashes(s)
      PROVE  ServerSet(s) \/ cart' = cart
  BY <1>7 DEF Network, ServerList, ChangeConfirmed, ListArrives, NoListArrives,
     Lost, EmptyListCrashes
<1>8. CASE \/ OpenCart \/ BackBTN \/ CheckoutBTN \/ BackToCart \/ Relaunch
           \/ IncreaseFires \/ IncreaseCrashes \/ Elsewhere
  BY <1>4, <1>5, <1>8 DEF OpenCart, BackBTN, CheckoutBTN, BackToCart, Relaunch,
     IncreaseFires, IncreaseCrashes, Elsewhere, PopToRoot, CrashElsewhere
<1> QED BY <1>2, <1>3, <1>5, <1>6, <1>7, <1>8 DEF Next, Local, Crashes

BalanceInv == TypeOK /\ EachWithinBalance /\ Covered /\ Addable

\* The product page tests the price before it asks for the product.
LEMMA AddableStep == Addable /\ Next => Addable'
BY DEF Addable, Next, Local, Crashes, Elsewhere, Additions, AddToCart,
   ServerAdds, AdditionLost, Taps, TapPlus, TapMinus, TapRemove, OpenCart,
   BackBTN, CheckoutBTN, BackToCart, Relaunch, IncreaseFires, Network,
   ServerSet, ServerList, ChangeConfirmed, ListArrives, NoListArrives, Lost,
   IncreaseCrashes, EmptyListCrashes, OrderTaken, PopToRoot, CrashElsewhere

LEMMA BalanceInit == Init => BalanceInv
<1> SUFFICES ASSUME Init PROVE BalanceInv
  OBVIOUS
<1>1. \A p \in Products : cart[p] * Unit[p] <= Balance
  BY UnitAssumption, BalanceAssumption DEF Init, Empty
<1>2. Covered /\ Addable BY DEF Init, Covered, Addable, Idle
<1> QED BY <1>1, <1>2, TypeInit DEF BalanceInv, EachWithinBalance

LEMMA BalanceInvStep == BalanceInv /\ [Next]_vars => BalanceInv'
<1> SUFFICES ASSUME BalanceInv, [Next]_vars PROVE BalanceInv'
  OBVIOUS
<1>1. CASE UNCHANGED vars
  BY <1>1, TypeStep DEF vars, BalanceInv, EachWithinBalance, Covered, Addable
<1>2. CASE Next
  <2>1. Covered'
    BY <1>2, CoveredUser, CoveredNetwork, CoveredIncrease, CoveredScreens
    DEF BalanceInv, Next, Local, Crashes
  <2> QED BY <1>2, <2>1, TypeStep, BalanceStep, AddableStep DEF BalanceInv
<1> QED BY <1>1, <1>2

\* However stale the list and whichever row a delayed tap hits, the server
\* never holds more of a product than the balance pays for: the total that
\* is tested covers the product (increaseProductQty, decreaseProductQty).
THEOREM BalanceHolds == Spec => []EachWithinBalance
<1>1. BalanceInv => EachWithinBalance BY DEF BalanceInv
<1> QED BY <1>1, BalanceInit, BalanceInvStep, PTL DEF Spec

-----------------------------------------------------------------------------
(* Rows that can be tapped                                                 *)

\* The strengthening: it holds of a hidden table and under other screens
\* too, so that uncovering the screen cannot break it.
ListDrawn == list # Empty => shown = list

LEMMA DrawnInit == Init => ListDrawn
BY DEF Init, ListDrawn

\* The taps: a tap redraws the table or leaves both alone.
LEMMA DrawnTaps ==
  ASSUME ListDrawn, NEW p \in Products, Taps(p)
  PROVE  ListDrawn'
<1>1. CASE TapPlus(p)   BY <1>1 DEF TapPlus, ListDrawn
<1>2. CASE TapMinus(p)  BY <1>2 DEF TapMinus, ListDrawn
<1>3. CASE TapRemove(p) BY <1>3 DEF TapRemove, ListDrawn
<1> QED BY <1>1, <1>2, <1>3 DEF Taps

\* Requests and replies: the list is emptied, or arrives and is drawn.
LEMMA DrawnNetwork ==
  ASSUME ListDrawn, NEW s \in Slots, Network(s) \/ Lost(s)
  PROVE  ListDrawn'
<1>1. CASE ServerSet(s)       BY <1>1 DEF ServerSet, ListDrawn, Empty
<1>2. CASE ServerList(s)      BY <1>2 DEF ServerList, ListDrawn, Empty
<1>3. CASE ChangeConfirmed(s) BY <1>3 DEF ChangeConfirmed, GetMycartList, ListDrawn
<1>4. CASE ListArrives(s)     BY <1>4 DEF ListArrives, ListDrawn
<1>5. CASE NoListArrives(s)   BY <1>5 DEF NoListArrives, ListDrawn
<1>6. CASE Lost(s)            BY <1>6 DEF Lost, ListDrawn
<1> QED BY <1>1, <1>2, <1>3, <1>4, <1>5, <1>6 DEF Network

\* The screens, the crashes and what happens above the cart.
LEMMA DrawnScreens ==
  ASSUME ListDrawn,
         \/ OpenCart \/ BackBTN \/ CheckoutBTN \/ BackToCart \/ IncreaseFires
         \/ Crashes \/ Relaunch \/ Elsewhere
  PROVE  ListDrawn'
<1>1. CASE OpenCart BY <1>1 DEF OpenCart, GetMycartList, ListDrawn
<1>2. CASE BackBTN  BY <1>2 DEF BackBTN, ListDrawn
<1>3. CASE CheckoutBTN BY <1>3 DEF CheckoutBTN, ListDrawn
<1>4. CASE BackToCart
  BY <1>4 DEF BackToCart, Appear, GetMycartList, ListDrawn
<1>5. CASE IncreaseFires BY <1>5 DEF IncreaseFires, ListDrawn
<1>6. CASE Crashes
  <2>1. CASE IncreaseCrashes BY <2>1 DEF IncreaseCrashes, ListDrawn
  <2>2. ASSUME NEW s \in Slots, EmptyListCrashes(s) PROVE ListDrawn'
    BY <2>2 DEF EmptyListCrashes, ListDrawn
  <2> QED BY <1>6, <2>1, <2>2 DEF Crashes
<1>7. CASE Relaunch BY <1>7 DEF Relaunch, ListDrawn
<1>8. CASE Elsewhere
  BY <1>8 DEF Elsewhere, OrderTaken, PopToRoot, CrashElsewhere, ListDrawn
<1> QED BY <1>1, <1>2, <1>3, <1>4, <1>5, <1>6, <1>7, <1>8

LEMMA DrawnStep == ListDrawn /\ [Next]_vars => ListDrawn'
<1> SUFFICES ASSUME ListDrawn, [Next]_vars PROVE ListDrawn'
  OBVIOUS
<1>1. ASSUME NEW p \in Products, Additions(p) PROVE ListDrawn'
  BY <1>1 DEF Additions, AddToCart, ServerAdds, AdditionLost, ListDrawn
<1>2. CASE UNCHANGED vars BY <1>2 DEF vars, ListDrawn
<1> QED BY <1>1, <1>2, DrawnTaps, DrawnNetwork, DrawnScreens DEF Next, Local

\* A row that can be tapped stands for the row of the list with its number,
\* or the list is empty (tappedIndexPath.row in HR_MyCartVC).
THEOREM CellsAreRows == Spec => []CellsMatchList
<1>1. Init => ListDrawn BY DrawnInit
<1>2. ListDrawn /\ [Next]_vars => ListDrawn' BY DrawnStep
<1>3. ListDrawn => CellsMatchList BY DEF ListDrawn, CellsMatchList
<1> QED BY <1>1, <1>2, <1>3, PTL DEF Spec
=============================================================================
