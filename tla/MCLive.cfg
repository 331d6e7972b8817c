SPECIFICATION LiveSpec
CONSTANTS
  Futures = {f1, f2, f3}
  Tasks = {t1, t2}
  Acquirers = {f1, f2}
  Wakers = {w1}
  Supply = 2
  Spawned = {t1}
  Aborters = {a1, a2}
  PipeSize = 1
  MaxOutput = 3
  Threads = {loop, u1}
  Writers = {}
  Loop = loop
  Kinds = {"Sender", "UdpSocket"}
  ReactorGenerations = 2
INVARIANTS
  MutualExclusion
  NoLostWakeup
PROPERTIES
  NoOvertaking
  LocksServe
  TasksComplete
  ChildrenAreReaped
  IoCompletes
CHECK_DEADLOCK FALSE
