SPECIFICATION Spec
CONSTANTS
  Dirs <- MCDirs
  Root <- MCRoot
  Parent <- MCParent
  Callers = {main, task}
  Calls = 2
INVARIANTS
  ReturnsEnclosing
