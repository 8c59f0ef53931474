SPECIFICATION Spec
CONSTANTS
  Files <- MCFiles
  BaseIndent = 0
  WsCap = 16
INVARIANTS
  SameCode
  CommentsStay
  Aligned
  Stable
CHECK_DEADLOCK FALSE
