SPECIFICATION Spec
CONSTANTS
  r1 = r1
  r2 = r2
  r3 = r3
  r4 = r4
  k1 = k1
  k2 = k2
  k3 = k3
  Reqs = {r1, r2, r3, r4}
  Keys = {k1, k2, k3}
  KeyOf <- MCKeyOf
  Capacity = 1
  BatchSize = 2
  HotRestart = TRUE
  AutoRollback = TRUE
  MaxStarts = 2
  MaxFaults = 1
  MaxCrashes = 1
  MaxCancels = 1
CHECK_DEADLOCK FALSE
SYMMETRY MCSymmetry
INVARIANTS
  TypeOK
  BoundedMemory
  AcceptedOnceUnlessUndermined
  PayloadHasNonce
  HeldOnceInOrder
  NothingLostWithoutFailure
PROPERTIES
  DrainedAtExit
