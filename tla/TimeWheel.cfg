CONSTANTS
  TVR_SIZE = 2
  TVN_SIZE = 2
  FALLBACK = 1
  Timers = {a, b}
  Delays = {5, 33}
  Start = 1
  MaxBusy = 1
  Horizon = 35
  Nowhere = Nowhere
  Never = Never
SPECIFICATION Spec
INVARIANTS TypeOK NoEndlessSleep OverdueLessThanTurn
PROPERTY ImplementsTimerSet
CHECK_DEADLOCK FALSE
