SPECIFICATION Spec
CONSTANTS
  Clients = {c1, c2}
  Ticker = Ticker
  QueueCapacity = 2
SYMMETRY MCSymmetry
INVARIANTS
  TypeOK
  DrainStaysUnhealthy
  MarkerHonest
  StampTellsLastScheduled
  ExitCodeHonest
  WaitersOwedOne
  CleanStop
  OnceVerdict
