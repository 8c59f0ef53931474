SPECIFICATION Spec
CONSTANTS
  Files <- MCInterfaceFiles
  Rules <- MCRules
INVARIANTS
  FieldsKept
