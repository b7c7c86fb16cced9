SPECIFICATION Spec
CONSTANTS
  W = 3
  H = 3
  Sizes = {0, 2}
  Calls <- MCEdges
  Faults = {}
  MaxFd = 5
INVARIANT LegalSucceeds
CHECK_DEADLOCK FALSE
