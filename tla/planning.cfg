SPECIFICATION FairSpec
CONSTANTS
  Plans = {p1, p2}
  Tasks <- MCTasks
  Unverifiable = {2}
  Agents = {a1, a2}
  Areas = {"unset", "work"}
  Fallback = "here"
  Known = {"work"}
  Guide = TRUE
  Sizes <- MCSizes
  MaxChars = 4
  MaxTurns = 2
  MaxCalls = 2
  MaxEdits = 2
  MaxFaults = 1
INVARIANTS
  StepsCompleteOnce
  PromptFits
PROPERTIES
  CallsReturn
CHECK_DEADLOCK FALSE
