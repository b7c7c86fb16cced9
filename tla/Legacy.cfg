SPECIFICATION Spec
CONSTANTS
  Threads = {t1, t2, t3}
  Ctx = {c1, c2}
  NoCtx = NoCtx
  Clients = {"disciplined", "manual"}
  Drivers = {"new", "old", "compat"}
  Garbage = {TRUE, FALSE}
  Faults = {"open", "version", "check", "blit"}
  MaxRef = 3
INVARIANTS BlitSafe HoldersCounted OneContext FenceNotLeft
SYMMETRY Symmetry
CHECK_DEADLOCK FALSE
