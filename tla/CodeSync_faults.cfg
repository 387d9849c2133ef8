\* One code, two submissions at a time, outages at any moment, two crashes.
CONSTANTS
  Codes = {c1}
  Limit = 1
  Calls = {k1, k2}
  Outages = TRUE
  MaxCrashes = 2
SPECIFICATION Spec
SYMMETRY Symmetry
INVARIANTS
  NoUnsentLoss
PROPERTIES
  DeletionsNamed
