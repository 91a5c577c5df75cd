SPECIFICATION Spec
CONSTANTS
  Instances = {i1, i2, i3}
  Shapes = {s1, s2}
  Places = {p1, p2}
  Labels = {a}
  Absent = Absent
  MaximumRefits = 1
  MaxMeshes = 1
  MaxDeltas = 2
  CarefulClient = FALSE

INVARIANT ReusedStaysValid
