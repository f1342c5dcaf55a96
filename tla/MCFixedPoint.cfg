CONSTANTS
  Half = 64
  RomHalf = 8
  Step = 8
  Formats <- MCFormats
SPECIFICATION Spec
INVARIANTS TypeOK Saturates RomMatchesGenerator
