\* One code, one submission: what the popup says when there is no connection.
CONSTANTS
  Codes = {c1}
  Limit = 1
  Calls = {k1}
  Outages = TRUE
  MaxCrashes = 0
SPECIFICATION Spec
PROPERTIES
  SubmittedMeansSent
