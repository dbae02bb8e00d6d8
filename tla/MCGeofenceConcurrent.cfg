SPECIFICATION Spec
CONSTANTS
  Times = {1, 2, 3, 4}
  Places = {1, 2}
  Debounce = 2
  Neighbours = 2
  Requests = {r1, r2}
  MayFail = TRUE
SYMMETRY RequestSymmetry
INVARIANTS AlertedOnce
PROPERTIES DwellProved
CHECK_DEADLOCK FALSE
