SPECIFICATION Spec
CONSTANTS
  Threads = {t1, t2}
  k1 = k1
  k2 = k2
  k3 = k3
  Keys = {k1, k2, k3}
  Size <- Sizes
  HeaderBytes = 1
  MemoryBudget = 2
  DiskBudget = 5
  Absent = Absent
  Dead = Dead
  MaxFaults = 1
SYMMETRY Symmetric
INVARIANT MemoryWithinBudget
INVARIANT DiskTierExact
INVARIANT CallsSucceed
PROPERTY PutIsStored
