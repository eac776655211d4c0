CONSTANTS
  c1 = c1  c2 = c2  c3 = c3  c4 = c4
  s1 = s1  s2 = s2
  Coros = {c1, c2, c3, c4}
  SchedOf <- OneOutside
  NoSched = NoSched
  NoCoro = NoCoro
  UNLOCKED = UNLOCKED
  LOCKED_NO_WAITERS = LOCKED_NO_WAITERS
SPECIFICATION FairSpec
INVARIANTS TypeOK MutualExclusion NoLostWaiter TakesAChain
PROPERTIES ImplementsFifoLock EveryLockSucceeds
CHECK_DEADLOCK FALSE
