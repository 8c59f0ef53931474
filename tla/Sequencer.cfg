SPECIFICATION FairSpec
CONSTANTS
  N = 4
  MaxWeight = 2
  MaxWrites = 1
  Weights <- MCWeights
INVARIANTS
  TypeOK
  OneOwner
  OutputInOrder
  ExitStatusFaithful
  WeightAccounted
PROPERTIES
  SerialSpec
  EventuallyExits
