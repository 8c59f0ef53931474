SPECIFICATION Spec
CONSTANTS
  Files <- MCFiles
  Rules <- MCRules
INVARIANTS
  Located
  ReturnsOwn
  FieldsKept
  Stable
