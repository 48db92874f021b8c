CONSTANTS
  MaxLines = 4
  Lengths = {1, 2, 4}
  MaxLength = 3
  CommandLength = 1
  IncomingLength = 1
  MaxCuts = 2
SPECIFICATION Spec
INVARIANTS EveryLineCounted
PROPERTIES WholeLinesInOrder
CHECK_DEADLOCK FALSE
