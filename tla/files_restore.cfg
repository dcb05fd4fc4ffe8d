SPECIFICATION Spec
CONSTANTS
  Slot = {s1}
  Owner = {o1}
  Job = {j1}
  Ops = {"replace"}
  Faults = {"lose"}
  Pieces = 2
  MaxRunning = 2
  MaxToggles = 0
  First = First
  NoFile = NoFile
  NoJob = NoJob
  NoOwner = NoOwner
INVARIANTS OriginalIsThere
CHECK_DEADLOCK FALSE
