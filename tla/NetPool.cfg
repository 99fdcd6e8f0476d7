SPECIFICATION FairSpec
CONSTANTS
  Run = {r1, r2}
  Pool = {p1}
  Fixed = {f1}
  Watched = {p1}
  Silent = {}
  Count = 1
  TTL = 2
  None = None
  Owner <- MCOwner
  PoolName <- MCPoolName
  ClaimName <- MCClaimName
INVARIANTS TypeOK LeaseExclusive PoolWireExclusive
PROPERTIES LeasesAreNotStolen PoolLeaseLapses LockIsFreed
