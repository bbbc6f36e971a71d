CONSTANTS
  Docs = {d1}
  Syncs = {s1, s2}
  MaxFiles = 2
  MaxVersion = 2
  PageSize = 1
  MaxFaults = 1
  NoTask = none
SPECIFICATION DocsSpec
SYMMETRY Symmetry
INVARIANTS
  SyncsExclusive
  
  DeletedIsNotFound
PROPERTIES
  OthersKept
CHECK_DEADLOCK FALSE
