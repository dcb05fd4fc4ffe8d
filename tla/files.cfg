SPECIFICATION Spec
CONSTANTS
  Slot = {s1, s2}
  Owner = {o1, o2, o3}
  Job = {j1, j2}
  Ops = {"replace", "create", "download"}
  Faults = {}
  Pieces = 2
  MaxRunning = 2
  MaxToggles = 2
  First = First
  NoFile = NoFile
  NoJob = NoJob
  NoOwner = NoOwner
INVARIANTS OneJobPerSession NoJobIsForgotten ReaderSeesWhole
 
CHECK_DEADLOCK FALSE
