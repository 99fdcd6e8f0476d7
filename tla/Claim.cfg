SPECIFICATION Spec
CONSTANTS
  n1 = n1
  n2 = n2
  v1 = v1
  c1 = c1
  c2 = c2
  CPs <- MCCPs
  Seed <- MCSeed
  Workers = {}
  PVs <- MCPVs
  Attempts = 2
  Crds <- MCCrds
  MaxTries = 2
  Pinning = TRUE
INVARIANTS BootedArePrepared AllFromOneDb RestoredOrWarned HalfBuiltNeverApplied NothingLeftSuspended
PROPERTIES FirstPlacedOnPin
VIEW Seen
CHECK_DEADLOCK FALSE
