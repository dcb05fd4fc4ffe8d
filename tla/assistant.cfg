SPECIFICATION Spec
CONSTANTS
  MaxRounds = 2
  MaxCalls = 3
  CallsPerTurn = 2
  MaxSteps = 2
  MaxAsked = 2
  MaxItems = 1
  MaxClears = 1
  MaxToggles = 1
  AnswerCalls = 2
  MaxPieces = 2
  MaxAnswers = 2
  Notes = {1, 2}
  Commands = {3, 4}
  Limits = {1, 2}
  K = 60
INVARIANTS PairsAreWhole SentIsPaired  CallsComeBackWhole PagesAreFused
PROPERTIES QuietAfterAnswer
CHECK_DEADLOCK FALSE
