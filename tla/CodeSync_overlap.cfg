\* Two submissions at a time over a connection that stays up: the two
\* submitters, scans and removals overlap in every order.
CONSTANTS
  Codes = {c1, c2}
  Limit = 2
  Calls = {k1, k2}
  Outages = FALSE
  MaxCrashes = 0
SPECIFICATION Spec
SYMMETRY Symmetry
INVARIANTS
  IInv
  NoUnlistedLoss
  CacheCoversStore
