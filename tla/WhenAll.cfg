CONSTANTS
  N = 3
  Scheds = {s1, s2}
  Outside = Outside
  None = None
SPECIFICATION FairSpec
INVARIANTS TypeOK ResultsComplete ResumedOnceAtTheEnd
PROPERTY WhenAllReturns
CHECK_DEADLOCK FALSE
