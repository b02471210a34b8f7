SPECIFICATION LSpec
CONSTANTS
  s1 = s1
  s2 = s2
  Subs <- MCSubs
  Topics <- MCTopics
  MaxChanges = 3
SYMMETRY Symmetric
INVARIANTS
  HearsExactlyWhatItAskedFor
  AcknowledgedFirstClosedLast
  EndsWithAResult
CHECK_DEADLOCK FALSE
