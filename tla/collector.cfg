SPECIFICATION FairSpec
CONSTANTS
  Owned = Owned
  Runners = {p1}
  None = None
  Timeout = 1
  Interval = 2
  StaleAge = 3
  MaxFaults = 3
INVARIANTS OneCycleAtATime SupervisedLockFresh
PROPERTIES LoopNeverStuck StopReturns CyclesGoOn
