SPECIFICATION FairSpec
CONSTANTS
  r1 = r1
  r2 = r2
  r3 = r3
  r4 = r4
  k1 = k1
  k2 = k2
  k3 = k3
  Reqs = {r1, r2, r3}
  Keys = {k1, k2}
  KeyOf <- MCKeyOf
  Capacity = 1
  BatchSize = 2
  HotRestart = FALSE
  AutoRollback = FALSE
  MaxStarts = 1
  MaxFaults = 0
  MaxCrashes = 0
  MaxCancels = 0
CHECK_DEADLOCK FALSE
PROPERTY AcceptedEventuallyStored
