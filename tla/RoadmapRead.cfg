\* A reader saves what it read while a writer adds a phase.
SPECIFICATION RSpec
CONSTANTS
  a = a  b = b  r = r
  Writers <- MCWriters
  Readers = {r}
  Phases = {1, 2, 3}
  MaxCalls = 4
INVARIANT NothingForgotten
CHECK_DEADLOCK FALSE
