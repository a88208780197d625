SPECIFICATION Spec
CONSTANTS
  Keys = {ls, grep}
  Results = {r1, r2}
  BadArgs = badArgs
  NotesBeforeStop = 2
  MaxIdenticalCalls = 4
  MixedMessages = FALSE
  MaxMessageCalls = 3
  MaxCalls = 6
SYMMETRY Symmetry
INVARIANTS
  CountersMatchLog
  NotesAreTruthful
CHECK_DEADLOCK FALSE
