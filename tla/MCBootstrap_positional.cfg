SPECIFICATION Spec
CONSTANTS
  Settings <- MCSettings
  MaxWords = 3
CHECK_DEADLOCK FALSE
INVARIANTS
  OnlyFlagsAndValues
