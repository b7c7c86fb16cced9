SPECIFICATION Spec
CONSTANTS
  Chips = {"rk3588", "rk3576", "rk3538", "common_rga2", "rv1103b", "rk3506"}
  Heaps = {"rk3588", "rk3538", "rv1103b"}
  PerfThreads = 2
  WhileNum = 1
  MaxRuns = 2
  MaxFaults = 1
  NULL = NULL
INVARIANTS TypeOK FaultFound NoFalseAlarm EndsClean
