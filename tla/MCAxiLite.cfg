CONSTANTS
  Registers = {0, 1, 2, 3}
  Data = {0, 1}
  DataFirst = FALSE
SPECIFICATION Spec
INVARIANTS TypeOK RegistersAsWritten ResponsePaired ReadBack
PROPERTY Served
