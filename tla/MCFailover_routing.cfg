SPECIFICATION FairSpec
CONSTANTS
  s1 = s1
  s2 = s2
  u1 = u1
  u2 = u2
  u3 = u3
  m = m
  n = n
  NoModel = NoModel
  NoRoute = NoRoute
  Slots <- RSlots
  KindOf <- RKind
  Upstreams <- RUpstreams
  ApiType <- RApi
  Limit <- RLimit
  Models <- RModels
  TenantOrder <- ROrder
  Resolve <- RResolve
  AliasChoices <- RAlias
  Access <- RAccess
  MaxRetries = 1
  NewSettings <- RNew
  Tables <- RTables
  MaxEdits = 1
INVARIANTS VisitBound NeverDead OnlyPermitted NeverUnavailable
PROPERTIES FuelBurns EveryRequestEnds
