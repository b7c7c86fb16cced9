SPECIFICATION FairSpec
CONSTANTS
  Threads = {t1, t2}
  Fds = {1, 2, 3}
  NULL = NULL
  Faults = {"open", "version", "info"}
  Hosts <- AnyDriver
  ApiVersion <- Shipped
  MaxCalls = 2
INVARIANTS
  SessionReady
  NoInitWhileUsed
PROPERTIES
  StoredOnce
  CallsReturn
CHECK_DEADLOCK FALSE
