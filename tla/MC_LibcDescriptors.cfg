SPECIFICATION Spec
CONSTANTS
  Sites = {4, 5}
  x = x
  y = y
  Variables <- BothVariables
  Options <- ExtremeOptions
  MaxCalls = 4
SYMMETRY Swaps
INVARIANTS ReturnedCovered OpenFound ClosedFree ClosedRefused SupportOpen
CHECK_DEADLOCK FALSE
