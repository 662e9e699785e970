SPECIFICATION Spec
CONSTANTS
  Sites = {4, 5}
  x = x
  y = y
  Variables <- BothVariables
  Options <- NoOption
  MaxCalls = 3
INVARIANT SmallestReturned
CHECK_DEADLOCK FALSE
