SPECIFICATION Spec
CONSTANTS
  None = None
  Feeds = {1, 2}
  Loads = {r1, r2}
  CacheSeconds = 1
  MaxAge <- MCMaxAge
  Cooldown = 1
  MaxTime = 1
  SavedBefore = 1
INVARIANTS ServedKnownGood RefreshesApart
PROPERTIES LoneLoadReturns
CHECK_DEADLOCK FALSE
