SPECIFICATION EraFairSpec
CONSTANTS
  r1 = r1
  r2 = r2
  y1 = y1
  Requests <- MCRequests
  Notes <- MCNone
  Replies <- MCReplies
  Modes <- MCModes
  Peers <- MCPeers
  Gateways <- MCGateways
  MaxRetries = 1
  MaxFinals = 2
INVARIANTS
  EraIsTrue
  OneStreamBeforeLegacy
  OneExchangeTells
  OncePerIssue
  FallbackNeverRepeats
PROPERTIES
  EveryRequestSettles
CHECK_DEADLOCK FALSE
