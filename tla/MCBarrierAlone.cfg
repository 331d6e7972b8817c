SPECIFICATION BarrierSpec
CONSTANTS
  Threads = {f1, f2}
  ThreadTasks = {t1}
  Threshold = 2
  MaxRounds = 1
INVARIANT WaitsForDistinctTasks
CHECK_DEADLOCK FALSE
