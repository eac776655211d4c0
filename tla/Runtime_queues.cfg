CONSTANTS
  s1 = s1  s2 = s2  c1 = c1  c2 = c2  c3 = c3  c4 = c4
  Scheds = {s1, s2}
  Externals = {Main}
  Main = Main
  Coros = {c1, c2, c4}
  HomeOf <- Homes
  Booted = {s2}
  InboxCapacity = 1
  LocalCapacity = 2
  BATCH_PIPELINE_DEPTH = 2
  NoOp = NoOp
  None = None
  TAG_INBOX = TAG_INBOX
SPECIFICATION Spec
INVARIANTS TypeOK OnePlace
CHECK_DEADLOCK FALSE
