SPECIFICATION Spec
CONSTANTS
  None = None
  Feeds = {1, 2}
  Loads = {r1}
  CacheSeconds = 1
  MaxAge <- MCMaxAge
  Cooldown = 1
  MaxTime = 1
  SavedBefore = 1
PROPERTIES EveryLoadReturns
CHECK_DEADLOCK FALSE
