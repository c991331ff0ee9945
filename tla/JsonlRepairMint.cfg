CONSTANTS
  w1 = w1  w2 = w2  w3 = w3  p1 = p1  p2 = p2
  Workers <- MCWorkers
  Procs <- MCProcs
  ProcOf <- TwoProcesses
  OpsOf <- MintAndRepair
  OsLock = "flock"
  Inodes = {i1, i2, i3}
  SeedFiles <- CollidedSeeds
  NoWorker = NoWorker
  NoInode = 0
  MaxCalls = 3
  MaxCrashes = 0
  MaxTears = 0
SPECIFICATION Spec
INVARIANTS ReturnedIdsDistinct
