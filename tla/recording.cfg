CONSTANTS NoRec = NoRec NoObj = NoObj Obj = {o1} MaxGen = 2 MaxRows = 2 MaxPieces = 2 QueueCap = 3 WindowLines = 2 BigPart = 2
SPECIFICATION Spec
INVARIANTS  OffMeansOff QueueAccounted NothingVanishes CommittedInOrder
CHECK_DEADLOCK FALSE
