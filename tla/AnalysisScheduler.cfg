SPECIFICATION Spec
CONSTANTS
  Jobs = {j1, j2, j3}
  Scopes = {s1, s2}
  Limits = {1, 2}
  MaxQueued = 2
  MaxPolicies = 2
  ConfiguresAlone = TRUE
SYMMETRY Symmetric
INVARIANT CountersExact
INVARIANT LoadIsBounded
INVARIANT SupersededIsNotPublished
INVARIANT NewestIsPublished
CHECK_DEADLOCK FALSE
