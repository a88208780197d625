SPECIFICATION FairSpec
CONSTANTS
  big = big
  small = small
  Targets <- MCTargets
  Config <- MCConfig
  Requests <- MCRequests
  MaxSheds = 2
  MaxChunks = 2
  MaxTools = 2
  MaxCalls = 2
  MaxRetargets = 1
  MaxFaults = 1
INVARIANTS
  AttemptIsWhole
  RequestStaysPaired
  LogFollowsCall
PROPERTIES
  CallsEnd
