CONSTANTS
  v5 = v5
  v8 = v8
  Variants <- MCVariants
  bitstreams <- MCBitstreams
  NumFrames = 2
  Programs <- Both
  MaxCalls = 6
  Depth = 2
  PcapSlow = TRUE
  DmaSlow = TRUE
SPECIFICATION BenchSpec
INVARIANTS BenchTypeOK OwnDigit SuiteScoresAll
PROPERTIES LoadedMeansReady BenchEnds
CHECK_DEADLOCK FALSE
