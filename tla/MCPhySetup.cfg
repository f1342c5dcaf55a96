CONSTANTS
  Chips <- MCChips
  Settings <- MCSettings
  Timeout = 2
  MaxSetups = 2
  MaxReplugs = 1
SPECIFICATION Spec
INVARIANTS TypeOK ClockMatchesLink
PROPERTY SetupEnds
CHECK_DEADLOCK FALSE
