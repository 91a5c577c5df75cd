SPECIFICATION Spec
CONSTANTS
  Jobs = {j1, j2}
  Scopes = {s1}
  Limits = {1}
  MaxQueued = 2
  MaxPolicies = 2
  ConfiguresAlone = FALSE
SYMMETRY Symmetric
CHECK_DEADLOCK FALSE
INVARIANT ConcurrencyBounded
