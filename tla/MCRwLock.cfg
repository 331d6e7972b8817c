SPECIFICATION FairSpec
CONSTANTS
  Futures = {f1, f2, f3}
  Tasks = {t1}
  Limits = {1, 2, 3}
PROPERTIES
  RwLockIsSafe
  WaitersAreServed
