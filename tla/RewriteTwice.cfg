SPECIFICATION Spec
CONSTANTS
  t1 = t1
  t2 = t2
  Tasks <- MCTasks
  Lengths = {1, 2, 3}
  Scenarios <- MCTwice
INVARIANTS
  AlwaysUpdated
