SPECIFICATION FairSpec
CONSTANTS
  Cells = {c1, c2}
  Volumes = {v1, v2, v3}
  MaxE = 3
  NoBump = NoBump
  MaxRc = 1
INVARIANTS StaleFailsForever SuccessIsCurrentOrInFlight
PROPERTY BumpReturns
