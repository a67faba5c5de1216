SPECIFICATION Spec
CONSTANTS
  Subjects = {g1}
  Signals = {k1, k2, k3}
  Threads = {p1, p2}
  Limit = 2
  Window = 3
  ClockLag = 1
  MaxTime = 5
SYMMETRY Symmetry
INVARIANTS QuotaWithinWindow ShownIsCounted
PROPERTIES SlotHeldForWindow HiddenOnlyWhenFull
CHECK_DEADLOCK FALSE
