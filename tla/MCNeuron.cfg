CONSTANTS
  NumWeight = 4
  MemSpan = 4
  ResetCycles = 3
  Overrun = 2
SPECIFICATION Spec
INVARIANTS TypeOK CorrectResult ResultOnTime AddressInStep
