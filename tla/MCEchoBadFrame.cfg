CONSTANTS
  Conns = {c1, c2, c3}
  Variants = {v5, v8}
  RxBufSize = 5
  SndBuf = 9
  MaxSegment = 4
  Environments <- MCDying
SPECIFICATION Spec
INVARIANT BadFrameCostsOne
CHECK_DEADLOCK FALSE
