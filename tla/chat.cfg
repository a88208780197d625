SPECIFICATION Spec
CONSTANTS
  Trees <- MCTrees
  Configs = {2, 3, 4}
  Startup = 1
  Library <- MCLibrary
  BuiltIns = {"review"}
  Skills = {1}
  Models = {"default", "other"}
  here = here
  there = there
  Places = {here, there}
  MaxMessages = 3
  MaxEvents <- MCMaxEvents
  Extras <- MCExtras
  MentionOnly = TRUE
SYMMETRY MCPlaces
INVARIANTS
  ConversationsStayApart
  TurnsAreFresh
  RuntimeFollowsConfig
  FilesDecide
  AnswersInOrder
PROPERTIES
  AnswersStay
