CONSTANTS NoRec = NoRec NoObj = NoObj Obj = {o1} MaxGen = 1 MaxRows = 2 MaxPieces = 1 QueueCap = 3 WindowLines = 2 BigPart = 2
SPECIFICATION Spec
INVARIANT EndedSessionsAreClosed
CHECK_DEADLOCK FALSE
