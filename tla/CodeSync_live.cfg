\* More codes than the list holds, one submission at a time, outages at any
\* moment, a crash: the table seen as the list of ScanList, and emptied.
CONSTANTS
  Codes = {c1, c2}
  Limit = 1
  Calls = {k1}
  Outages = TRUE
  MaxCrashes = 1
SPECIFICATION FairSpec
PROPERTIES
  EventuallySynced
  BoundedList
