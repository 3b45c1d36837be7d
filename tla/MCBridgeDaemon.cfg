SPECIFICATION Spec
CONSTANTS
  Size = 2
  MaxEvents = 5
  MaxKills = 2
  MaxFailures = 2
INVARIANTS
  LedgerMatchesTail
  RowsAreEvents
PROPERTIES
  ImplementsLedger
CHECK_DEADLOCK FALSE
