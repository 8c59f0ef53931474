SPECIFICATION Spec
CONSTANTS
  Sources <- MCSources
INVARIANTS
  EdgesTight
  Consistent
  CommentsStay
  Stable
CHECK_DEADLOCK FALSE
