SPECIFICATION Spec
CHECK_DEADLOCK FALSE
CONSTANTS
  KeepGroups = 2
  MaxPairs = 3
  CapBytes = 5
  MaxTokens = 7
  MaxCount = 3
  MaxFiles = 3
  MaxWidth = 2
INVARIANTS
  TypeOK
  StrictContract
  ReportTellsDocument
  LogTellsDocument
  LogCutAtCaps
