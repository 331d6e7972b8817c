SPECIFICATION Spec
CONSTANTS
  Futures = {f1, f2}
  Tasks = {t1}
  Limits = {1}
INVARIANT ReadersWithinLimit
