SPECIFICATION FairSpec
CONSTANTS
  Settings <- MCSettings
  MaxWords = 3
CHECK_DEADLOCK FALSE
INVARIANTS
  TypeOK
  CommandAsWritten
  CommandWithinContract
  ProbeAgrees
  StartedMeansWritable
PROPERTIES
  BootstrapEnds
