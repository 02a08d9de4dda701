SPECIFICATION FairSpec
CONSTANTS
  Interval = 3
  Timeout = 4
  Overhead = 2
INVARIANTS
  TypeOK
  LiveScheduleFresh
  RestartKeepsCadence
PROPERTIES
  WedgeNoticed
