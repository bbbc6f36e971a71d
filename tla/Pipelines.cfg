SPECIFICATION PartsSpec
CONSTANTS
  Editors = {e1, e2}
  MaxSaves = 3
  Nodes = {n1, n2}
  FirstNodes = {n1}
  Contents = {v1, v2}
  MaxDrawings = 2
  MaxLosses = 1
  Nobody = Nobody
  NumMiddle = 3
  Routers = {2}
  Codes = {3}
  Handles = {"h1", "h2"}
  OddEdges = TRUE
  Messages = {m1, m2}
  Workers = {w1, w2}
  Tools = {}
  Expected = 1
  Ending = {}
  MaxEdits = 0
  MaxDeaths = 1
  MaxTriggers = 8
SYMMETRY Symmetry
INVARIANTS
  QuietIsSaved
  InputsArrive
  PipelinesRunRight
  TriggersTally
PROPERTIES
  PatchesFit
CHECK_DEADLOCK FALSE
