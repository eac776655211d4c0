CONSTANTS
  Coros = {h1, h2}
  Receives = {h1, h2}
  Ctxs = {x1, x2}
  SqSize = 2
  BUF_RING_SIZE = 1
  TailWrap = 2
  Fds = {f1, f2}
  Clients = {a, b, c}
  None = None
  NoBuffer = NoBuffer
  ENOBUFS = ENOBUFS
SPECIFICATION FairSpec
INVARIANTS TypeOK NoneStranded DescriptorsOwned AnswersItsClient BuffersReturned
PROPERTY AnsweredOrClosed
