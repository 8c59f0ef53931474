SPECIFICATION FairSpec
CONSTANTS
  N = 3
  Cap = 2
  Depth = 1
  Walks = 1
  Failures = 2
  Profiles = {FALSE}
PROPERTIES
  ExitsEventually
\* The program really stops when every slot is lost.
CHECK_DEADLOCK FALSE
