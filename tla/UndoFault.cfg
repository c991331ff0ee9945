\* One process restores; copying the store into a snapshot may fail.
SPECIFICATION Spec
CONSTANTS
  u1 = u1
  u2 = u2
  decisions = decisions
  skills = skills
  Users = {u1}
  File = {decisions, skills}
  Home <- MCHome
  MaxSnapshots = 2
  Faults = {"in"}
  MaxLine = 2
  MaxSeed = 2
  MaxCalls = 1
  MaxCrashes = 0
CHECK_DEADLOCK FALSE
INVARIANT NothingDestroyed
