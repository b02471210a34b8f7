SPECIFICATION ServerFairSpec
CONSTANTS
  s1 = s1
  s2 = s2
  a = a
  b = b
  x = x
  v = v
  w = w
  Open = Open
  Close = Close
  Patterns <- MCPatterns
  Uris <- MCUris
  LateUris <- MCLateUris
  Slash = Slash
  MaxValues = 100
  NoResult = NoResult
  None = None
  Odd = Odd
  DefaultLevel = 2
  Slots <- MCSlots
  Messages <- MCMessages
  Built <- MCBuilt
  LateTools <- MCLateTools
  LatePrompts <- MCLatePrompts
  LateMethods <- MCLateMethods
  Levels <- MCLevels
INVARIANTS
  LogsOnlyAsAsked
  ReadsWhatWasNamed
  AnswersFit
PROPERTIES
  ModernLeavesNoTrace
  EveryMessageEnds
CHECK_DEADLOCK FALSE
