\* Requests lost, replies in any order, up to three timers, the screen left and
\* opened again.
CONSTANTS
  Products = {1}
  Carts <- SomeCarts
  Countdown = 4
  Slots = {s1, s2}
  MaxOtps = 2
  MaxOrders = 2
  Failures = TRUE
SPECIFICATION FairSpec
INVARIANTS
  TypeOK
  SuccessMeansPlaced
  CountdownShared
  HiddenIsTimed
PROPERTIES
  OrderAuthorised
  ResendReturns
  OrdersKept
