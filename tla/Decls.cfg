SPECIFICATION Spec
CONSTANTS
  Size = 3
  Sources <- MCSources
  Cgo <- MCCgo
INVARIANTS
  Stable
  SpecsKept
  DirectivesKept
  ConstantsKept
  Separated
  Grouped
