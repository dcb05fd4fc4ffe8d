CONSTANTS NoSession = NoSession Obj = {o1} MaxSessions = 1 MaxEpoch = 3
SPECIFICATION FairSpec
INVARIANTS StateMatchesWorker ConnectingIsServed RecorderOfCurrentConnection FreedSessionsHaveNoOwner
PROPERTIES StaleWorkersExit CloseTakesEffect
CHECK_DEADLOCK FALSE
