CONSTANTS
  c1 = c1  c2 = c2  c3 = c3  c4 = c4  t1 = t1  t2 = t2  s1 = s1  s2 = s2
  Coros = {c1, c2, c3, c4}
  Setters = {t1, t2}
  Scheds = {s1, s2}
  SchedOf <- Mixed
  NoSched = NoSched
  Nobody = Nobody
  InboxCapacity = 2
SPECIFICATION FairSpec
INVARIANTS TypeOK NoStrandedWaiter WaitersOnce
PROPERTY AllWaitersResumed
