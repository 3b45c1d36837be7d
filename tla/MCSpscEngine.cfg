SPECIFICATION Spec
CONSTANTS
  Kinds = {"engine", "bench", "spsc", "json"}
  Size = 2
  Total = 6
INVARIANTS
  NothingLostButTheLast
PROPERTIES
  ImplementsLog
  Terminates
CHECK_DEADLOCK FALSE
