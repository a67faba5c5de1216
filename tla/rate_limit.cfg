SPECIFICATION Spec
CONSTANTS
  a1 = a1  all = all  w1 = w1
  Keys <- MCKeys
  Requests = {r1, r2, r3}
  CheckLists <- MCCheckLists
  Limit <- MCLimit
  Window <- MCWindow
  MaxBuckets = 2
  Grace = 1
  MaxAttempts = 2
  MaxLost = 3
  MaxTime = 3
SYMMETRY Symmetry
INVARIANTS WithinLimit AllOrNothing RetryAfterExact BucketsBounded
PROPERTIES ImplementsWindow
CHECK_DEADLOCK FALSE
