SPECIFICATION Spec
CONSTANTS
  MaxInput = 3
  MaxCalls = 1
  Sizes = {1, 2}
INVARIANT StdinFits
CHECK_DEADLOCK FALSE
