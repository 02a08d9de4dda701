SPECIFICATION Spec
CONSTANTS
  Procs = {p1, p2}
  Files = {f1, f2}
  NoProc = NoProc
  NoFile = NoFile
  Configs <- PairConfigs
SYMMETRY MCSymmetry
INVARIANTS
  TypeOK
  LockOwned
  OneScanAtATime
  LiveReportIntact
  ResultTellsFailure
  OrphansAccounted
  SweepComplete
PROPERTIES
  ImplementsExclusiveRun
