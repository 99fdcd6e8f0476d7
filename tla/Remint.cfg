SPECIFICATION Spec
CONSTANTS
  s1 = s1
  s2 = s2
  Slots <- MCSlots
  SeedRuns = 1
  LaptopRuns = 1
INVARIANTS ChildrenOwned FirstRunIsExact
PROPERTY KeepsContract
SYMMETRY Sym
CHECK_DEADLOCK FALSE
