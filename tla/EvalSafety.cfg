CONSTANTS
  Messages = {1}
  Evaluators = {e1, e2}
  Drivers = {d1, d2}
  Workers = {w1, w2}
  BATCH_SIZE = 1
  BATCHES_PER_TICK = 1
  MAX_STALLS = 2
  MaxFaults = 2
SYMMETRY Symmetry
SPECIFICATION Spec
INVARIANTS
  RunIsSafe
PROPERTIES
  FirstResultWins
  ImplementsPlan
CHECK_DEADLOCK FALSE
