SPECIFICATION SettleFairSpec
CONSTANTS
  r1 = r1
  Discover = Discover
  Initialize = Initialize
  Initialized = Initialized
  Requests <- MCRequests
  Notes <- MCNotes
  Replies <- MCNone
  Modes <- MCModes
  Peers <- MCPeers
  Gateways <- MCDirect
  MaxRetries = 0
  MaxFinals = 1
INVARIANTS
  SettledAgrees
PROPERTIES
  SettlingEnds
CHECK_DEADLOCK FALSE
