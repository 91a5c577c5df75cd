SPECIFICATION Spec
CONSTANTS
  PopulationSize = 2
  OffspringSize = 1
  Results = {r1}
  Times = {t1}
  Absent = Absent
  MaxRevision = 1
  Submissions <- McSubmissions
  RetainsHandle = FALSE
  MaxFaults = 0
INVARIANT CreateCanBeRepeated
