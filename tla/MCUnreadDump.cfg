SPECIFICATION PartsSpec
CONSTANTS
  Parts = {"boot"}
  Families = {f1, f2}
  Devices = {d1}
  Viewers = {v1}
  Places = {g1}
  Tokens = {t1, t2, t3}
  Requests = {r1}
  MaxNow = 1
  TTLs = {0, 1}
  TrailStamps = {1, 2, 3, 4}
  MaxHistoryLimit = 2
  AskedLimits = {0, 1, 2, 3}
  Senders = {s1, s2}
  Grace = 3
  MaxExchange = 1
  MaxSend = 1
  Lifetimes = {3, 5}
  MaxClock = 8
  Environments <- MCEnvironments
  Top = 32
  Second = 6
  Day = 12
  Interval = 6
  DefaultLive = 3
  DefaultStale = 9
  Latest = 2
  MaxTrouble = 1
  MaxReboots = 2
  Advisories = {"a", "b"}
  Levels = {0, 2}
  MaxMessages = 3
  MaxEntries = 2
  LastYear = 2101
SYMMETRY PartsSymmetry
INVARIANT GreenIsEvidence
CHECK_DEADLOCK FALSE
