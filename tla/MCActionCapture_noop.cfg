SPECIFICATION Spec
CONSTANTS
  StreamCap = 12
  MaxWarnings = 5
INVARIANTS
  NoOpActionFails
