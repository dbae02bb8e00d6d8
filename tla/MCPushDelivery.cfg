SPECIFICATION Spec
CONSTANTS
  Notifiers = {n1, n2}
  Registrars = {r1}
  Endpoints = {e1, e2}
  Configured = {e1}
  Keys = {k1, k2}
  Nothing = Nothing
  KeyBound = 1
  MaxTracked = 1
  QueueCap = 1
  MaxAttempts = 2
  MaxEvents = 1
  MaxCalls = 2
  MaxRegistered = 1
  MayTimeOut = TRUE
SYMMETRY Symmetry
INVARIANTS NeverOverCounts LedgerBounded Accounted
PROPERTIES BeyondIsEarned
CHECK_DEADLOCK FALSE
