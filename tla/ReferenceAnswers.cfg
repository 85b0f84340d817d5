\* Small inputs of every algorithm; CHECK_DEADLOCK is off because a computation ends.
SPECIFICATION Spec
CONSTANTS
  Tasks <- MCTasks
INVARIANTS
  AnswerIsRight
  EliminationIsExact
CHECK_DEADLOCK FALSE
