CONSTANTS
  w1 = w1  w2 = w2  w3 = w3  p1 = p1  p2 = p2
  Workers <- MCWorkers
  Procs <- MCProcs
  ProcOf <- OneProcess
  OpsOf <- Minting
  OsLock = "sentinel"
  Inodes = {i1}
  SeedFiles <- PlainSeeds
  NoWorker = NoWorker
  NoInode = 0
  MaxCalls = 3
  MaxCrashes = 1
  MaxTears = 2
SPECIFICATION FaultSpec
INVARIANTS WholeIdsDistinct 
PROPERTY EveryCallEnds
