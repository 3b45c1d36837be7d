SPECIFICATION Spec
CONSTANTS
  FillSize = 3
  RxSize = 3
  Batch = 2
  TelemetryPeriod = 2
  MaxPackets = 6
INVARIANTS
  FramesConserved
  PacketsInOrder
PROPERTIES
  ImplementsWindow
CHECK_DEADLOCK FALSE
