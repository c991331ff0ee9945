CONSTANTS
  c1 = c1  c2 = c2  c3 = c3  p1 = p1  p2 = p2
  Clients <- MCClients
  Procs = {p1, p2}
  ProcOf <- MCProcOf
  FlagSets <- MCFlagSets
  NewFlags = {FALSE}
  MaxCalls = 3
  MaxSeed = 1
  MaxCrashes = 1
SYMMETRY MCSymmetry
SPECIFICATION Spec
INVARIANTS CacheIsNoOlder ProtectionIsSeen ForksOverlap ChainsEnd
