CONSTANTS
  j1 = j1
  j2 = j2
  Jobs <- MCJobs
  Watched <- MCWatched
  Workloads <- MCWorkloads
  EarlierMatrices <- MCEarlierMatrices
  Sensors = 2
  Chunks = 2
  MATRIX_CACHE_CAPACITY = 3
SPECIFICATION Spec
INVARIANTS
  ProgressIsTruthful
  CancelledInOneChunk
  HandlesOutliveTheirUse
  DuplicatesAreRaces
PROPERTY
  JobsAreReleased
