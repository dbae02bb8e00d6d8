SPECIFICATION Spec
CONSTANTS
  Times = {1, 2, 3, 4, 5, 6}
  Places = {1}
  Debounce = 2
  Neighbours = 5
  Requests = {r1}
  MayFail = TRUE
INVARIANTS Alternates SelfHeals
CHECK_DEADLOCK FALSE
