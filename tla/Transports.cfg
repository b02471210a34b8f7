SPECIFICATION ClientFairSpec
CONSTANTS
  c1 = c1
  c2 = c2
  Discover = Discover
  Rediscover = Rediscover
  Initialize = Initialize
  None = None
  Calls <- MCCalls
  Ordinary <- MCOrdinary
  Tracked <- MCTracked
  Tasks <- MCTasks
  Kinds <- MCKinds
  EraModes <- MCModes
  Children <- MCChildren
  Spoken <- MCSpoken
  Lists <- MCLists
  Cap = 1
  MaxNoise = 2
  Permits = 1
  MaxChallenges = 1
INVARIANTS
  SpeaksTheSettledEra
PROPERTIES
  KeepsThePromise
  DeadChildIsNoticed
  ResumedUnlessOvertaken
CHECK_DEADLOCK FALSE
