SPECIFICATION FairSpec
CONSTANTS
  None = None
  a1 = a1
  a2 = a2
  p1 = p1
  p2 = p2
  c1 = c1
  c2 = c2
  Asks <- MCAsks
  Posts <- MCPosts
  Calls <- MCCalls
  Ids <- MCIds
INVARIANTS
  OwnAnswerOnly
  NothingLeftBehind
  NeverDisowned
PROPERTIES
  EveryAskEnds
  ImplementsQuestions
CHECK_DEADLOCK FALSE
