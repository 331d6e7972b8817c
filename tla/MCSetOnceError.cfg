SPECIFICATION OnceSpec
CONSTANTS
  Callers = {c1, c2}
  NoValue = novalue
INVARIANT SetErrorMeansInitialized
CHECK_DEADLOCK FALSE
