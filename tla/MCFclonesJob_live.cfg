SPECIFICATION FairSpec
CONSTANTS
  Procs = {p1, p2}
  Files = {f1}
  NoProc = NoProc
  NoFile = NoFile
  Configs <- SomeConfigs
PROPERTIES
  LockReleased
