SPECIFICATION Spec
CONSTANTS
  Layers <- MCOneLayer
  Levels <- MCNoLadder
  TokenBudget = 3
  MaxCycles = 3
  KeepLastN = 2
  SummarizeOn = {"token_threshold"}
  Stores = {"memory"}
  Words = {1, 2}
  KindWord <- MCKindWord
  Says <- MCSays
  Replies <- MCReplies
  Areas <- MCNoAreas
  MaxCalls = 3
  MaxTools = 0
  MaxFaults = 1
  MaxForgets = 1
INVARIANTS
  ArchiveReadsBack
  StatementsReachTheLedger
  CorrectionsDoNotFork
PROPERTIES
  ForgottenStaysForgotten
CHECK_DEADLOCK FALSE
