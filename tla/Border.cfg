SPECIFICATION FairSpec
CONSTANTS
  W = 3
  H = 3
  Sizes = {0, 2, 3}
  Calls <- MCCalls
  Faults = {"copy", "begin", "task", "end", "sync"}
  MaxFd = 5
INVARIANTS BorderDrawn OwnFenceOnly NothingLeft
PROPERTY CallReturns
CHECK_DEADLOCK FALSE
