SPECIFICATION CoordinationSpec
CONSTANTS
  Futures = {f1, f2, f3}
  Tasks = {t1}
  InitialPermits = 1
  MaxPermits = 2
  Amounts = {1, 2}
  MaxSupply = 3
  Listeners = {l1, l2}
  Pollers = {p1, p2}
  Noop = noop
  MaxGeneration = 2
  Threads = {f1, f2, f3}
  ThreadTasks = {p1, p2}
  Threshold = 2
  MaxRounds = 2
  CellCallers = {f1, f2, f3}
  NoContent = nocontent
  Callers = {f1, f2, f3}
  NoValue = novalue
SYMMETRY Symmetry
INVARIANTS
  PermitsConserved
  NoLostWakeup
  CloseReleasesWaiters
  NoLostNotification
  RoundsAreComplete
  CellIsSetOnce
  ValueIsSetOnce
PROPERTY NoOvertaking
CHECK_DEADLOCK FALSE
