SPECIFICATION CallsFairSpec
CONSTANTS
  a1 = a1
  a2 = a2
  p1 = p1
  c1 = c1
  None = None
  MaxNotes = 1
  Asks <- MCAsks
  Posts <- MCPost
  Calls <- MCCall
  Ids <- MCIds
INVARIANTS
  ResultComesLast
  NoQuestionOutlivesItsCall
PROPERTIES
  StreamCloses
CHECK_DEADLOCK FALSE
