\* One request of the cart screen, two of the OTP screen at a time; the
\* products together cost more than the balance.
CONSTANTS
  Products = {1, 2}
  Unit <- UnitPrices
  Balance = 2
  Slots = {s1}
  MaxDelayed = 1
  MaxAdding = 1
  Failures = FALSE
  EmptyArrays = TRUE
  Redeems = TRUE
  Carts <- SomeCarts
  Countdown = 1
  OtpSlots = {t1, t2}
  MaxOtps = 1
  MaxOrders = 1
SPECIFICATION CheckoutSpec
INVARIANTS
  CheckoutTypeOK
PROPERTIES
  SettledOrderWithinBalance
  CartSpec
  OtpSpec
SYMMETRY OtpSymmetry
