\* Two codes and a connection that stays up: a code scanned while another
\* is being submitted.
CONSTANTS
  Codes = {c1, c2}
  Limit = 2
  Calls = {k1}
  Outages = FALSE
  MaxCrashes = 0
SPECIFICATION Spec
PROPERTIES
  SyncedMeansSent
