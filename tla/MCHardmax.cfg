CONSTANTS
  NumberOfInputs = 4
  Words = {0, 1, 2}
SPECIFICATION Spec
INVARIANTS TypeOK DigitCorrect
PROPERTY ScanEnds
