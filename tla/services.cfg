SPECIFICATION Spec
CONSTANTS
  NoReq = NoReq
  Req = {r1, r2}
  MaxRequests = 1
  Client = {chat}
  MaxPieces = 2
  Notes = {n1, n2}
  Hosts = {h1}
  Batch = 2
  MaxVersion = 3
  MaxToggles = 2
  MaxFailures = 1
  MaxRestarts = 1
  Conns = {1, 2}
  MaxStarts = 2
  MaxActive = 1
  MaxInbox = 1
  MaxCalls = 2
  Savers = {1, 2}
  MaxSaves = 3
  MaxLoads = 2
  Programs = {1, 2}
  Versions = 3
  Statements = 2
  MaxRuns = 2
INVARIANTS CancelSticks AnswersAreWhole   ItemsAreAuthorised SavesAreWhole SchemaIsComplete
PROPERTIES FreedWorkerLeaves EverythingIndexed NobodyIsHeld
CHECK_DEADLOCK FALSE
