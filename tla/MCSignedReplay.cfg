SPECIFICATION Spec
CONSTANTS
  r1 = r1
  r2 = r2
  Reqs = {r1, r2}
  Alterable = {r1}
  CellReqs = {r1}
  RemoteReqs = {r1}
  MaxDrift = 0
  MaxTimeout = 2
  MaxNow = 1
CHECK_DEADLOCK FALSE
INVARIANT SignedOnceAcceptedOnce
