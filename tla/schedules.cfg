SPECIFICATION FairSpec
CONSTANTS
  Rows = {s1, s2}
  Engines = {e1}
  Skips = {s2}
  Period = 1
  None = none
  MaxTime = 2
  MaxInterrupts = 1
INVARIANTS
  ClaimsHaveRunners
  FiresOnce
PROPERTIES
  EventuallyServed
CHECK_DEADLOCK FALSE
