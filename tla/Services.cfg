SPECIFICATION ServicesSpec
CONSTANTS
  s1 = s1
  s2 = s2
  Shells <- CommandShells
  Files <- CommandFiles
  CommandSessions <- ShellSessions
  Initially <- CommandInputs
  MaxRepetitions = 2
  Callers = {c1, c2}
  MaxBatches = 2
  MaxCapacity = 2
  Threads = {c1, c2}
  Requests = {0, 3}
  Scenes <- SessionScenes
  MeshBytes <- SessionMeshes
  InstanceBytes = 1
  RayBytes = 2
  Policies <- SessionPolicies
  MaxTraces = 2
  MaxFaults = 2
  MaxStores = 2
  Directions <- StudyDirections
  Evaluations <- StudyEvaluations
  Reference <- StudyReference
  PopulationSize = 4
  OffspringSize = 1
  ArchiveCapacity = 3
  MaxGenerations = 2
SYMMETRY Symmetry
INVARIANTS
  RefusalsWriteOnlyTheSizing
  SizingIsEnough
  HandlesAreKnown
  BatchesAccounted
  SuccessIsWhole
  AnswersAreOwn
  RefusalsTouchNothing
  RepeatedRoundsAreOne
  HitsAreWhole
  BrokenDeviceIsLeft
  RecordsAreTrue
  PlanIsOfTheScene
  ArenaWithinBudget
  FrontsAreLayers
  HypervolumeIsCovered
  RestoredIsTheSame
