SPECIFICATION ClientFairSpec
CONSTANTS
  o1 = o1
  o2 = o2
  o3 = o3
  q1 = q1
  k1 = k1
  None = None
  Cap = 1
  Ops <- MCOps
  Rounds = 2
  Codes = {"not_found"}
  Mixes <- MCMixes
  Callers <- MCCallers
  Waiters <- MCCallers
  Pushes <- MCPushes
  Cancellers <- MCCancellers
INVARIANTS
  OneReader
  OwnValue
PROPERTIES
  MadeInTurn
  EveryOperationEnds
CHECK_DEADLOCK FALSE
