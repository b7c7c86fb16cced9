SPECIFICATION Spec
SYMMETRY Symmetry
CONSTANTS
  Threads = {t1, t2}
  Calls <- MCCalls
  Hosts <- MCHosts
  MaxFd = 10
  Addrs = {a1, a2}
  NoAddr = NoAddr
  MaxTries = 1
  MaxRefusals = 1
INVARIANT FenceCovers
INVARIANT AcquireSettled
INVARIANT TableLives
PROPERTY OwnClosed
CHECK_DEADLOCK FALSE
