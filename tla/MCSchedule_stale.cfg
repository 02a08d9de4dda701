SPECIFICATION Spec
CONSTANTS
  Interval = 3
  Timeout = 4
  Overhead = 0
INVARIANTS
  StaleMeansStopped
