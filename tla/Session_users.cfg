\* Two users with a code each, two chains and two dashboards alive at a time.
CONSTANTS
  Users = {u1, u2}
  NoUser = nobody
  PerUser = 1
  Dashes = {d1, d2}
  Chains = {k1, k2}
SPECIFICATION Spec
SYMMETRY Symmetry
INVARIANTS
  TypeOK
  OwnCodes
  OwnReport
  OwnCredit
