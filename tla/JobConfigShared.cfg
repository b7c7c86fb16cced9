SPECIFICATION Spec
CONSTANTS
  Threads = {t1, t2}
  Handles = {h1}
  Addrs = {a1, a2}
  Tasks = {x}
  TaskNumMax = 1
  NULL = NULL
  Shared = TRUE
  UseConfig = TRUE
  CancelFailed = FALSE
  MallocFails = FALSE
  KernelKeeps = FALSE
INVARIANT ConfigReadsLiveJob
