SPECIFICATION ProtocolsSpec
CONSTANTS
  Timeouts = {t1}
  FromFirst = {}
  EndingTimeouts = {t1}
  Total = 1
  TotalFailures = 1
  MaxHumans = 2
  MaxExtra = 1
  MaxKills = 1
  Statics = {ce, lt}
  ConversationEnds = {ce}
  LastTimeouts = {lt}
  EndingStatics = {lt}
  Ticks = {k1, k2, k3}
  NewSessions = {s1}
  Threshold = 2
  MaxToggles = 1
  NoTick = NoTick
  FullRuns = {f1}
  DeltaRuns = {d1}
  Targets = {x1, x2}
  RuleTags = {m1}
  MaxTagEdits = 1
  Ratchets = {w1, w2}
  MaxReports = 2
  MaxForms = 1
  Notices = {n1, n2}
  Members = {u1}
  MaxClicks = 1
  Calls = {c1, c2, c3}
  MaxConfigs = 2
  MaxExpiries = 1
  NoCall = NoCall
  Visits = {z1, z2}
  Identities = {i1, i2}
  Limit = 1
  MaxWindows = 2
  MaxLosses = 1
  Annotations = {a1, a2}
  Changes = {h1, h2}
  MaxData = 3
  NoChange = NoChange
  NoAnnotation = NoAnnotation
INVARIANTS
  
  
  TagsAreRight
  
  TokenIsShared
  LimitIsKept
  OutputsAreCurrent

  
CHECK_DEADLOCK FALSE
