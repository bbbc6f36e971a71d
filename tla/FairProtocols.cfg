SPECIFICATION FairProtocolsSpec
CONSTANTS
  Timeouts = {t1, t2}
  FromFirst = {t2}
  EndingTimeouts = {}
  Total = 1
  TotalFailures = 1
  MaxHumans = 2
  MaxExtra = 0
  MaxKills = 0
  Statics = {lt}
  ConversationEnds = {}
  LastTimeouts = {lt}
  EndingStatics = {lt}
  Publishes = {p1, p2}
  Reverts = {v1}
  VersionRequests = {g1}
  MaxVersions = 2
  MaxVersionFaults = 1
  NoOperation = NoOperation
  Items = {1}
  Reviewers = {r1}
  Requests = {q1}
  Admins = {b1}
  MaxRequired = 2
  Choices = {"picked"}
  Messages = {m1}
  Workers = {w1}
  Tools = {t3}
  Expected = 2
  Ending = {m1}
  MaxEdits = 1
  MaxDeaths = 1
  MaxTriggers = 3
INVARIANTS
  CompletedWasTried
  VersionsAreKept
PROPERTIES
  Completes
  
  LockGivenBack
  FormsEnd
CHECK_DEADLOCK FALSE
