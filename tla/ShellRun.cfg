SPECIFICATION ShellFairSpec
CONSTANTS
  Timeout = 3
  Grandchildren = TRUE
  Check = TRUE
  MaxLines = 3
  MaxNow = 6
INVARIANTS OwnChildIsBounded HonestOutcome
PROPERTIES RunEnds
CHECK_DEADLOCK FALSE
