SPECIFICATION ScenesSpec
CONSTANTS
  Threads = {t1, t2, t3}
  Occurrences = {o1, o2}
  Values = {v1, v2}
  Vacant = Vacant
  MaxHandles = 2
  MaxEdits = 3
  Instances = {t1, t2, t3}
  Shapes = {v1, v2}
  Places = {o1, o2}
  Labels = {a}
  Absent = Absent
  MaximumRefits = 1
  MaxMeshes = 2
  MaxDeltas = 2
  CarefulClient = TRUE
SYMMETRY Symmetric
INVARIANT SerialUpdates
INVARIANT ReleasedStaysReleased
INVARIANT QueriesSeeTheScene
INVARIANT RefitsBounded
PROPERTY OnlyRealConflicts
PROPERTY ReportIsTruthful
CHECK_DEADLOCK FALSE
