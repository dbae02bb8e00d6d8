SPECIFICATION Spec
CONSTANTS
  Times = {1, 2, 3, 4, 5}
  Places = {1}
  Debounce = 2
  Neighbours = 5
  Requests = {r1, r2}
  MayFail = FALSE
INVARIANTS Alternates
CHECK_DEADLOCK FALSE
