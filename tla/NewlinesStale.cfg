SPECIFICATION Spec
CONSTANTS
  Sources <- MCStaleSources
INVARIANTS
  Consistent
CHECK_DEADLOCK FALSE
