SPECIFICATION Spec
CONSTANTS
  Dials = {1, 2, 3}
  Hosts = {1}
  HostKey = {1, 2}
  Letters = {"a", "w", "?"}
  MaxLine = 4
  MaxFeed = 2
  MaxEpoch = 3
  MaxQueued = 2
  MaxSizes = 1
  MaxPieces = 3
  MaxBody = 2
  Ids = {1}
  Numbers = {1}
  Tags = {1}
  MaxImage = 2
  MaxStore = 3
  Rows = 2
  Heights = {2}
  Cap = 1
  MaxKeys = 2
  MaxShown = 1
  MaxLines = 2
INVARIANTS OneKeyPerHost LinesAreNotMistaken ConnectionGetsItsOwn ReadsDoNotMatter StoreHoldsWhatIsShown 
PROPERTIES UploadsKeepShown
CHECK_DEADLOCK FALSE
