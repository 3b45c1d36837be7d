SPECIFICATION EngineSpec
CONSTANTS
  NoItem = NoItem
  Producers = {p1, p2}
  Consumers = {logger}
  Logger = logger
  Kinds = {"master", "audit", "shadow", "bench"}
  Size = 2
  MaxItems = 2
CHECK_DEADLOCK FALSE
INVARIANTS
  EngineTypeOK
  FileIsPrefix
  NoFalseSuccess
  TotalsMatchFile
PROPERTIES
  Terminates
