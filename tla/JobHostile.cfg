SPECIFICATION FairSpec
CONSTANTS
  Threads = {t1, t2}
  Handles = {h1, h2}
  Addrs = {a1, a2, a3}
  Tasks = {x}
  TaskNumMax = 1
  NULL = NULL
  Shared = TRUE
  UseConfig = FALSE
  CancelFailed = FALSE
  MallocFails = TRUE
  KernelKeeps = FALSE
INVARIANTS
  LockDiscipline
  MapBacked
  SubmitExclusive
  NoLeak
PROPERTY EndReturns
