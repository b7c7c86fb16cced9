SPECIFICATION Spec
CONSTANTS
  Threads = {t1, t2}
  Handles = {h1, h2}
  Addrs = {a1, a2}
  Tasks = {x, y}
  TaskNumMax = 2
  NULL = NULL
  Shared = FALSE
  UseConfig = TRUE
  CancelFailed = TRUE
  MallocFails = TRUE
  KernelKeeps = TRUE
INVARIANTS ConfigReadsLiveJob KernelAgrees RequestsReclaimed
PROPERTY ImplementsBatch
