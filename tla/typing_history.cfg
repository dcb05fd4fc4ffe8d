SPECIFICATION Spec
CONSTANTS
  Letters = {"a", "w"}
  MaxLine = 4
  MaxFeed = 2
INVARIANTS EditedIsNotLearned
CHECK_DEADLOCK FALSE
