CONSTANTS
  NumWeight <- MCNumWeight
  Neurons <- MCNeurons
  MemSpan <- MCMemSpan
  Scores <- MCScores
  ResetCycles = 6
  MaxGap = 2
SPECIFICATION Spec
INVARIANTS TypeOK InnerContract InOrder SettledRead
PROPERTY Answered
