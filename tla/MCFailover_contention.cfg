SPECIFICATION FairSpec
CONSTANTS
  s1 = s1
  s2 = s2
  u1 = u1
  u2 = u2
  u3 = u3
  m = m
  n = n
  NoModel = NoModel
  NoRoute = NoRoute
  Slots <- CSlots
  KindOf <- CKind
  Upstreams <- CUpstreams
  ApiType <- CApi
  Limit <- CLimit
  Models <- CModels
  TenantOrder <- COrder
  Resolve <- CResolve
  AliasChoices <- CAlias
  Access <- CAccess
  MaxRetries = 1
  NewSettings <- CNew
  Tables <- CTables
  MaxEdits = 0
INVARIANTS TypeOK UpstreamOvershoot
PROPERTIES KeepsPromise
