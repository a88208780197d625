SPECIFICATION Spec
CONSTANTS
  Layers <- MCLayers
  Levels <- MCLevels
  TokenBudget = 3
  MaxCycles = 3
  KeepLastN = 3
  SummarizeOn = {"token_threshold"}
  Stores = {"memory", "sqlite"}
  Words = {1, 2}
  KindWord <- MCKindWord
  Says <- MCAClaim
  Replies <- MCNothing
  Areas <- MCAreas
  MaxCalls = 3
  MaxTools = 1
  MaxFaults = 1
  MaxForgets = 0
INVARIANTS
  RequestIsRecent
PROPERTIES
  LoopSettles
CHECK_DEADLOCK FALSE
