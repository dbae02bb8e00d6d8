SPECIFICATION AlertsSpec
CONSTANTS
  Halves = {"queue", "list", "status"}
  Notifiers = {n1, n2}
  Registrars = {r1}
  Endpoints = {e1}
  Configured = {e1}
  Keys = {k1}
  Nothing = Nothing
  KeyBound = 1
  MaxTracked = 1
  QueueCap = 1
  MaxAttempts = 2
  MaxEvents = 2
  MaxCalls = 2
  MaxRegistered = 1
  MayTimeOut = TRUE
  Servers = {"a", "b"}
  MaxSaves = 1
  MaxTrouble = 1
  Crossings <- MCCrossings
  Limit = 1
  MaxReads = 1
  ProviderOf <- MCProviderOf
  MaxWaiting = 2
  MaxToggles = 2
INVARIANTS EmptyIsTheLog StaleListIsReplaced
PROPERTIES AllRecorded LostPushIsFound StatusSettles
CHECK_DEADLOCK FALSE
