SPECIFICATION FairSpec
CONSTANTS
  Clients = {c1}
  Ticker = Ticker
  QueueCapacity = 1
PROPERTIES
  ShutdownCompletes
  EveryoneAnswered
