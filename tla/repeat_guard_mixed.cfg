SPECIFICATION Spec
CONSTANTS
  Keys = {ls, grep}
  Results = {r1, r2}
  BadArgs = badArgs
  NotesBeforeStop = 2
  MaxIdenticalCalls = 4
  MixedMessages = TRUE
  MaxMessageCalls = 3
  MaxCalls = 6
SYMMETRY Symmetry
INVARIANT ObservesOwnResult
CHECK_DEADLOCK FALSE
