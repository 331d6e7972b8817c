SPECIFICATION SignalsSpec
CONSTANTS
  Listeners = {l1, l2}
  SignalKinds = {k1, k2}
  SocketSize = 2
  MaxRaised = 3
INVARIANT SignalsCoalesce
CHECK_DEADLOCK FALSE
