\* Two codes and a text of a wrong length for two rows, two frames in flight,
\* outages at any moment; the table seen as the list of ScanList; liveness of
\* the camera of a phone that stays online.
CONSTANTS
  Codes = {c1, c2}
  WrongLength = wrong
  RowIds = {1, 2, 3}
  Limit = 2
  MaxFrames = 2
  MaxTimers = 1
  Outages = TRUE
SPECIFICATION FairSpec
VIEW RowsByCode
INVARIANTS
  TypeOK
  LimitRespected
PROPERTIES
  DirtyOnlyDeferred
  
  BoundedList
  
