SPECIFICATION ScheduleSpec
CONSTANTS
  Messages = {m1}
  Workers = {w1}
  Tools = {t1}
  Expected = 1
  Ending = {}
  MaxEdits = 1
  MaxDeaths = 0
  MaxTriggers = 8
PROPERTIES
  CancelledForGood
CHECK_DEADLOCK FALSE
