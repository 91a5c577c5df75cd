CONSTANTS
  c1 = c1
  c2 = c2
  Threads <- MCThreads
  Requests = {0, 3}
  Scenes <- MCScenes
  MeshBytes <- MCMeshBytes
  InstanceBytes = 1
  RayBytes = 2
  Policies <- MCPolicies
  MaxTraces = 2
  MaxFaults = 2
  MaxStores = 2
SPECIFICATION SessionSpec
SYMMETRY Symmetry
INVARIANT GpuMemoryIsCapped
