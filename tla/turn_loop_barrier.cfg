SPECIFICATION FairSpec
CONSTANTS
  FailureThreshold = 2
  MaxToolIterations = 2
  FinalAnswerEnabled = TRUE
  GuardEnabled = TRUE
  HasExecutor = TRUE
  HookMayRaise = TRUE
  CancelAtBarrier = FALSE
  MaxTurns = 2
INVARIANTS
  PairedHistory
  BoundedTurn
  EveryTurnProcessed
PROPERTIES
  KeepsContract
  PostProcessBeforeNextTurn
  TurnReturns
CHECK_DEADLOCK FALSE
