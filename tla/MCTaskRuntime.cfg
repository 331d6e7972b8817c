SPECIFICATION Spec
CONSTANTS
  Tasks = {t1, t2}
  Aborters = {a1}
SYMMETRY Symmetry
INVARIANTS
  FinishedMeansDropped
  ResultIsFaithful
  StopsAtPollBoundary
  ActiveTasksCounted
  AbortDecides
CHECK_DEADLOCK FALSE
