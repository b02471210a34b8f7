SPECIFICATION ExchangeFairSpec
CONSTANTS
  c1 = c1
  c2 = c2
  c3 = c3
  other = other
  here = here
  elsewhere = elsewhere
  Endpoint = here
  Loopback <- MCLoopback
  AllowedHosts <- MCAllowedHosts
  Other = other
  None = None
  Unknown = Unknown
  Calls <- MCCalls
  Slots <- MCSlots
  Tools <- MCTools
  Prompts <- MCPrompts
  Optional <- MCOptional
  Deployments <- MCDeployments
  Overridden <- MCOverridden
  Wanted <- MCWanted
  Requests <- MCRequests
  Results <- MCResults
  MaxInputRounds = 3
  MaxStreamRetries = 1
  MaxOthers = 1
INVARIANTS
  OwnRequestsPass
  RefusalIsSeen
  CarriesTheLastRound
PROPERTIES
  EveryExchangeEnds
CHECK_DEADLOCK FALSE
