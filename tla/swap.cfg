SPECIFICATION Spec
CONSTANTS
  w1 = w1  t1 = t1  None = None
  Wallets = {w1}
  Tokens = {t1}
  ReservationIds = {x1}
  RequestIds = {r1}
  Digests = {d1, d2}
  Executors = {e1, e2}
  Preparers = {p1}
  AdmissionLimit = 2
  WalletLimit = 2
  WalletTokenLimit = 2
  MaxPending = 2
  ReservationTtl = 2
  LockTtl = 1
  OneShot = FALSE
  GateTtl = 0
  ClockLag = 1
  ClockLead = 0
  RepeatIds = TRUE
  MaxTime = 4
  OneShotPair <- MCPair
  OrderLifetimes <- OneLifetime
SYMMETRY Symmetry
INVARIANTS OneDigestPerOrder SlotsBacked
PROPERTIES LockTakenBackByOwner ConfirmedNotRestarted PendingNeverReplaced
CHECK_DEADLOCK FALSE
