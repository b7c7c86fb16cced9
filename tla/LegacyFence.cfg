SPECIFICATION Spec
CONSTANTS
  Threads = {t1}
  Ctx = {c1}
  NoCtx = NoCtx
  Clients = {"disciplined"}
  Drivers = {"new", "old", "compat"}
  Garbage = {TRUE, FALSE}
  Faults = {}
  MaxRef = 2
INVARIANT FenceClosedOnce
CHECK_DEADLOCK FALSE
