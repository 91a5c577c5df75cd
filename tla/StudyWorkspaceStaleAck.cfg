SPECIFICATION Spec
CONSTANTS
  PopulationSize = 2
  OffspringSize = 1
  Results = {r1}
  Times = {t1}
  Absent = Absent
  MaxRevision = 2
  Submissions <- McSubmissions
  RetainsHandle = TRUE
  MaxFaults = 1
INVARIANT AckReportsCommit
