SPECIFICATION Spec
CONSTANTS
  s1 = s1
  s2 = s2
  Slots <- MCSlots
INVARIANTS NoDuplicateNames MustToolsFirst
PROPERTY RewritesStick
VIEW Seen
SYMMETRY Sym
CHECK_DEADLOCK FALSE
