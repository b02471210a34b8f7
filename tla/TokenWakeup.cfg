SPECIFICATION TokenFairSpec
CONSTANTS
  w1 = w1
  k1 = k1
  Waiters <- MCWaiters
  Cancellers <- MCCancellers
PROPERTIES
  CancelledResolves
CHECK_DEADLOCK FALSE
