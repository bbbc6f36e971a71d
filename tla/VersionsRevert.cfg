SPECIFICATION VersionSpec
CONSTANTS
  Publishes = {p1, p2}
  Reverts = {v1}
  VersionRequests = {}
  MaxVersions = 3
  MaxVersionFaults = 0
  NoOperation = NoOperation
INVARIANTS
  RevertsDoNotInterleave
CHECK_DEADLOCK FALSE
