CONSTANTS
  Tokens = {t1, t2}
  Readers = {r1, r2}
  t1 = t1
  t2 = t2
  r1 = r1
  r2 = r2
  Retry <- MCRetry
  Cooldown = 2
  ActiveAge = 2
  Take = 1
  MaxTime = 3
  MaxLost = 1
SPECIFICATION RotationSpec
INVARIANTS TypeOK SavedIsLogged EngineRowsFresh EveryPoolInTurn
SYMMETRY Symmetry
CHECK_DEADLOCK FALSE
