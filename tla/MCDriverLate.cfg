CONSTANTS
  v5 = v5
  v8 = v8
  Variants <- MCVariants
  bitstreams <- MCBitstreams
  NumFrames = 2
  Programs <- ServerOnly
  MaxCalls = 6
  Depth = 1
  PcapSlow = TRUE
  DmaSlow = TRUE
SPECIFICATION BenchSpec
PROPERTY DoneIsOwn
CHECK_DEADLOCK FALSE
