SPECIFICATION FairSpec
CONSTANTS
  N = 3
  Cap = 3
  Depth = 1
  Walks = 1
  Failures = 1
  Profiles = {TRUE, FALSE}
INVARIANTS
  DescriptorsBounded
PROPERTIES
  ExitsEventually
