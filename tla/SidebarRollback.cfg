SPECIFICATION Spec
CONSTANTS
  MaxRenames = 2
  MaxFetches = 0
  MaxToggles = 0
INVARIANT RolledBackIsPersisted
CHECK_DEADLOCK FALSE
