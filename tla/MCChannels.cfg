SPECIFICATION Spec
CONSTANTS
  Senders = {s1, s2}
  Capacity = 2
  Users = {t1}
  Batches = {1, 2}
  MaxSends = 3
  Messages = {v1, v2}
  Values = {v1, v2}
  Pollers = {t1, t2}
  Receivers = {r1, r2}
  Publishers = {s1, s2}
  Subscribers = {r1, r2}
  Wanted = {v2}
  Width = 8
  MaxVersion = 3
  MaxSeq = 4
SYMMETRY Symmetry
INVARIANTS
  CapacityRespected
  MpscDelivers
  OneshotDelivers
  WatchIsExact
  LagIsExact
CHECK_DEADLOCK FALSE
