CONSTANTS
  Docs = {d1}
  Syncs = {s1, s2}
  MaxFiles = 2
  MaxVersion = 1
  PageSize = 1
  MaxFaults = 0
  NoTask = none
SPECIFICATION DocsSpec
INVARIANTS
  EditsKeepTheLock
SYMMETRY Symmetry
CHECK_DEADLOCK FALSE
