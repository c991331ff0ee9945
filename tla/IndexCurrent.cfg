\* Files are deleted and restored between two runs of `codevira index`.
SPECIFICATION CSpec
CONSTANTS
  f = f  g = g
  Files <- MCFiles
  Imports <- MCImports
  Inside <- MCInside
  Runners = {"cli"}
  Threshold = 3
  MaxVersion = 2
  MaxEdits = 3
  MaxFaults = 0
INVARIANT UpToDate
CHECK_DEADLOCK FALSE
