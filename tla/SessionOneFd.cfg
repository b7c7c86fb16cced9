SPECIFICATION Spec
CONSTANTS
  Threads = {t1, t2}
  Fds = {1, 2, 3}
  NULL = NULL
  Faults = {"version"}
  Hosts <- MultiDrivers
  ApiVersion <- Shipped
  MaxCalls = 2
INVARIANT
  OneFd
CHECK_DEADLOCK FALSE
