SPECIFICATION Spec
CONSTANTS
    m1 = m1
    m2 = m2
    m3 = m3
    v1 = v1
    Messages <- MCMessages
    Versions <- MCVersions
    Channels <- MCChannels
    MaxSessions = 3
    MaxOverlap = 2
    MaxRetries = 1
INVARIANTS
  
  BotAfterConsent
  
  TurnsKept
PROPERTIES
  BlockIsFinal
  EventuallyDone
CHECK_DEADLOCK FALSE
