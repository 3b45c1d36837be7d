SPECIFICATION Spec
CONSTANTS
  MaxRuns = 3
  MaxKills = 1
  MaxTidyings = 1
CHECK_DEADLOCK FALSE
INVARIANTS
  ArtifactOnBranch
  RestoredWasSealed
PROPERTIES
  CompleteIsEarned
  EvidenceNamesItsBundle
