CONSTANTS
  BUF_RING_SIZE = 2
  TailWrap = 4
  Receives = {r1, r2}
  NoBuffer = NoBuffer
  ENOBUFS = ENOBUFS
SPECIFICATION RingSpec
INVARIANT EmptyOnlyWhenAllUsed
