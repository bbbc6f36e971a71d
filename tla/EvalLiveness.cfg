CONSTANTS
  Messages = {1, 2, 3}
  Evaluators = {e1}
  Drivers = {d1}
  Workers = {w1}
  BATCH_SIZE = 1
  BATCHES_PER_TICK = 2
  MAX_STALLS = 3
  MaxFaults = 1
SPECIFICATION FairSpec
INVARIANTS
  
  FinalizedAggregatesAll
PROPERTIES
  RunsEnd
CHECK_DEADLOCK FALSE
