SPECIFICATION Spec
CONSTANTS
  w1 = w1  t1 = t1  None = None
  Wallets = {w1}
  Tokens = {t1}
  ReservationIds = {x1, x2}
  RequestIds = {r1, r2}
  Digests = {d1, d2}
  Executors = {e1, e2}
  Preparers = {p1, p2}
  AdmissionLimit = 2
  WalletLimit = 2
  WalletTokenLimit = 1
  MaxPending = 2
  ReservationTtl = 3
  LockTtl = 3
  OneShot = TRUE
  GateTtl = 2
  ClockLag = 1
  ClockLead = 0
  RepeatIds = FALSE
  MaxTime = 4
  OneShotPair <- MCPair
  OrderLifetimes <- TwoLifetimes
SYMMETRY Symmetry
INVARIANTS TypeOK PairCapacityInTime SentIsApprovedInTime OneShotSingleTransactionInTime
PROPERTIES GateNeverRevertsInTime
CHECK_DEADLOCK FALSE
