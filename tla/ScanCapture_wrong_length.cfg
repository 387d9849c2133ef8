\* A row with a text that no alert would let pass.
CONSTANTS
  Codes = {c1}
  WrongLength = wrong
  RowIds = {r1, r2}
  Limit = 1
  MaxFrames = 1
  MaxTimers = 1
  Outages = TRUE
SPECIFICATION Spec
INVARIANTS
  OnlyValidStored
