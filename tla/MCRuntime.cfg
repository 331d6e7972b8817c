SPECIFICATION RuntimeSpec
CONSTANTS
  SetTasks = {t1, t2, t3}
  LocalTasks = {t1, t2}
  Jobs = {j1, j2}
  Clones = {c1, c2}
  N = 3
  MaxTime = 6
  Generations = 2
  Millisecond = 2
  Tolerance = 1
  Period = 2
  Durations = {1, 3}
  Listeners = {l1, l2}
  SignalKinds = {k1, k2}
  SocketSize = 2
  MaxRaised = 2
  MaxAddresses = 2
  Threads = {loop, u1, u2}
  Writers = {u2}
  Loop = loop
  Kinds = {"Receiver", "TcpHalves"}
  Ops <- EndpointOps
  ReactorGenerations = 2
INVARIANTS
  JoinSetIsExact
  LocalTasksAreRun
  ClosuresRunOnce
  CombinatorsAreExact
  SleepsAreExact
  SignalsWake
  SocketsSound
  ReadinessIsExact
CHECK_DEADLOCK FALSE
