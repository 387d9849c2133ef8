\* Two requests at a time, replies in any order, losses, both ways of
\* telling that a cart is empty, orders taken at any moment.
CONSTANTS
  Products = {1, 2}
  Unit <- UnitPrices
  Balance = 3
  Slots = {s1, s2}
  MaxDelayed = 1
  MaxAdding = 1
  Failures = TRUE
  EmptyArrays = TRUE
  Redeems = TRUE
SPECIFICATION VisitSpec
INVARIANTS
  TypeOK
  EachWithinBalance
  CellsMatchList
  QuietScreenIsCurrent
  BlankIsAwaited
PROPERTIES
  BlankIsTemporary
