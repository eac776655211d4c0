CONSTANTS
  BUF_RING_SIZE = 4
  TailWrap = 8
  Receives = {r1, r2}
  NoBuffer = NoBuffer
  ENOBUFS = ENOBUFS
SPECIFICATION RingSpec
INVARIANT HeldOnce
