SPECIFICATION Spec
CONSTANTS
  r1 = r1
  r2 = r2
  r3 = r3
  h1 = h1
  h2 = h2
  n1 = n1
  n2 = n2
  n3 = n3
  c12 = c12
  c3 = c3
  None = None
  Run = {r1, r2, r3}
  Together = 2
  VM = {v1, v2, v3}
  Hash = {h1, h2}
  Name = {n1, n2, n3, c12, c3}
  NameOf <- RepoNameOf
  CloneOf <- RepoCloneOf
  Asks <- OneChangeSet
  Begins <- RepoBegins
  Unseen = FALSE
  Unreadable = FALSE
  ProbeFails = TRUE
  StateDir = TRUE
SYMMETRY Symmetry
INVARIANTS RegisteredContent ClonesAreOwn
PROPERTIES ClonedContent LiveClusterSurvives
