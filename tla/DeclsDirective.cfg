SPECIFICATION Spec
CONSTANTS
  Size = 3
  Sources <- MCDirectiveSources
  Cgo <- MCCgo
INVARIANTS
  DirectivesKept
