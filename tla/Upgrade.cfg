SPECIFICATION Spec
CONSTANTS
  MaxUpgrades = 2
  Targets = {1, 2}
  Released = {1}
  Patience = 1
  ChangeSets <- MCChangeSets
INVARIANTS
  StaysYours
  GreenKnewAll
  BaselineIsBefore
  OwnKillExplained
CONSTRAINT ScenarioGoesOn
CHECK_DEADLOCK FALSE
