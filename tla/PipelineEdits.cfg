SPECIFICATION EditsSpec
CONSTANTS
  Editors = {e1}
  MaxSaves = 2
  Nodes = {n1, n2}
  FirstNodes = {n1}
  Contents = {v1, v2}
  MaxDrawings = 2
  MaxLosses = 0
  Nobody = Nobody
PROPERTIES
  DeferredEdgesGoOut
CHECK_DEADLOCK FALSE
