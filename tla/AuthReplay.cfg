SPECIFICATION AuthSpec
CONSTANTS
  r1 = r1
  r2 = r2
  s1 = s1
  s2 = s2
  i1 = i1
  i2 = i2
  None = None
  Requests <- MCRequests
  Scopes <- MCScopes
  Issuers <- MCIssuers
  Server <- MCServer
  UrlOf <- MCUrlOf
  Webs <- MCWebs
  Hinted <- MCHinted
  Documents <- MCDocuments
  Endpoints <- MCEndpoints
  First = i1
  Situations <- MCSituations
  MaxUpgrades = 1
  MaxUpsets = 1
INVARIANT
  RejectionNotReplayed
CHECK_DEADLOCK FALSE
