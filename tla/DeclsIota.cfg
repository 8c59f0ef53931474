SPECIFICATION Spec
CONSTANTS
  Size = 3
  Sources <- MCIotaSources
  Cgo <- MCCgo
INVARIANTS
  ConstantsKept
