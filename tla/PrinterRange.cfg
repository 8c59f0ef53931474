SPECIFICATION Spec
CONSTANTS
  Files <- MCRangeFiles
  BaseIndent = 0
  WsCap = 16
INVARIANTS
  SameCode
CHECK_DEADLOCK FALSE
