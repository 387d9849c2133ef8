\* Two choices, two chains at a time, losses, both ways of telling that the
\* cart is empty.
CONSTANTS
  Filters = {3, 4}
  Total <- Products
  PageRows = 2
  Slots = {s1, s2}
  MaxIndex = 4
  MaxRows = 4
  Failures = TRUE
  EmptyArrays = TRUE
SPECIFICATION VisitSpec
INVARIANTS
  TypeOK
  CellsMatchRows
  PeacefulPrefix
  InOrderUnlessCrossed
  EndIsAwaited
PROPERTIES
  EndIsReached
