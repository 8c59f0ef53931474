SPECIFICATION Spec
CONSTANTS
  Comments <- MCComments
  MaxLines = 3
INVARIANTS
  MakesProgress
  SpansCover
  TextKept
  DirectivesApart
  Settled
  HeuristicsRest
CHECK_DEADLOCK FALSE
