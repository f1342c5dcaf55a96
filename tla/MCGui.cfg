CONSTANTS
  Conns = {c1, c2, c3}
  Variants = {v5, v8}
  RxBufSize = 4
  SndBuf = 9
  MaxSegment = 3
  Environments <- MCNetworks
SPECIFICATION GuiSpec
INVARIANTS GuiTypeOK ConfirmedIsLoaded
PROPERTIES DisplayedIsOwn Unlocks
CHECK_DEADLOCK FALSE
