SPECIFICATION Spec
CONSTANTS
  Times = {1, 2, 3, 4, 5}
  Places = {1}
  Debounce = 1
  Neighbours = 5
  Requests = {r1}
  MayFail = TRUE
PROPERTIES RecordedIsPushed
CHECK_DEADLOCK FALSE
