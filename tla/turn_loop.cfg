SPECIFICATION Spec
CONSTANTS
  FailureThreshold = 2
  MaxToolIterations = 1
  FinalAnswerEnabled = FALSE
  GuardEnabled = TRUE
  HasExecutor = TRUE
  HookMayRaise = TRUE
  CancelAtBarrier = TRUE
  MaxTurns = 3
INVARIANTS
  AnswerIsCaptured
  BreakerCountsFailures
  ConsolidatesOwnTurn
CHECK_DEADLOCK FALSE
