SPECIFICATION FairSpec
CONSTANTS
  Jobs = {j1, j2, j3}
  Scopes = {s1}
  Limits = {1}
  MaxQueued = 2
  MaxPolicies = 1
  ConfiguresAlone = TRUE
PROPERTY EveryJobEnds
CHECK_DEADLOCK FALSE
