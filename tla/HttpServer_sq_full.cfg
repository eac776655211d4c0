CONSTANTS
  Coros = {h1, h2}
  Receives = {h1, h2}
  Ctxs = {x1, x2}
  SqSize = 1
  BUF_RING_SIZE = 1
  TailWrap = 2
  Fds = {f1, f2}
  Clients = {a, b}
  None = None
  NoBuffer = NoBuffer
  ENOBUFS = ENOBUFS
SPECIFICATION Spec
INVARIANT SqNeverFull
