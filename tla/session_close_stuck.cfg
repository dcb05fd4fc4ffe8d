CONSTANTS
  NoSession = NoSession
  Obj = {o1}
  MaxSessions = 1
  MaxEpoch = 1
SPECIFICATION FairSpec
PROPERTIES
  CloseReachesClosed
CHECK_DEADLOCK FALSE
