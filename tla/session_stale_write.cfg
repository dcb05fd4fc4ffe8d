CONSTANTS
  NoSession = NoSession
  Obj = {o1}
  MaxSessions = 1
  MaxEpoch = 2
SPECIFICATION Spec
PROPERTIES
  StaleWorkerKeepsOff
CHECK_DEADLOCK FALSE
