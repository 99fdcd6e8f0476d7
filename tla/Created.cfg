SPECIFICATION Spec
CONSTANTS
  git = git
  c1 = c1
  w1 = w1
  h1 = h1
  h2 = h2
  HrNames <- MCHrNames
  HrName = h1
  Vols <- MCVols
  Git = git
  CPs <- MCCPs
  Workers <- MCWorkers
  Attempts = 2
  MaxVersion = 2
  MaxOdd = 1
INVARIANTS  SnapshotIsFinal FrozenIsDead
VIEW Seen
CHECK_DEADLOCK FALSE
