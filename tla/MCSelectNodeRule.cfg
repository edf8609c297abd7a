SPECIFICATION ScanSpec
CONSTANTS
  MaxInt = 31
  MaxNodes = 3
  Loads <- MCLoads
CHECK_DEADLOCK FALSE
INVARIANT
  SelectsFewestRunning
