SPECIFICATION UpkeepSpec
CONSTANTS
  Requests = {r1, r2}
  Month = 2
  LastMonth = 2
  MaxTime = 4
  FutureSkew = 1
  Backlog = 3
  Window = 1
  Ahead = 2
  MaxFaults = 1
  MaxStarts = 2
  Strangers <- MCStrangers
  Accounts = {v1, v2}
  MaxAddress = 3
  MaxLost = 1
  MaxDeaths = 1
  MaxTasks = 2
INVARIANTS AnsweredIsKept MonthTurnHeals
PROPERTIES RetentionHonoured NeverNone EventuallyReachable
CHECK_DEADLOCK FALSE
