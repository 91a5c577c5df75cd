SPECIFICATION Spec
CONSTANTS
  PopulationSize = 2
  OffspringSize = 1
  Results = {r1, r2}
  Times = {t1, t2}
  Absent = Absent
  MaxRevision = 3
  Submissions <- McSubmissions
  RetainsHandle = FALSE
  MaxFaults = 1
SYMMETRY Symmetry
INVARIANTS
  AlwaysRecoverable
  ResumedExactly
PROPERTIES
  StudyOnlyGrows
  ImplementsContract
