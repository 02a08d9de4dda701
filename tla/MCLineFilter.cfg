SPECIFICATION Spec
CONSTANTS
  Streams <- MCStreams
  MaxLineBytes = 4
CHECK_DEADLOCK FALSE
INVARIANTS
  TypeOK
  ChunkingInvisible
  EveryByteJudged
  LogIsClean
