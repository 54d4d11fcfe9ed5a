CONSTANTS
  Users = {u1}
  Deletable = {}
  Regens = {}
  Cron = cron
  Workers = {w1}
  NoUser = nobody
  DayLen = 3
  Timeout = 2
  MaxDay = 4
  MaxBeats = 2
  MaxClicks = 0
  MaxFaults = 0
  MaxCrashes = 2
  QueueCap = 1
  Backlog = FALSE
SPECIFICATION FairSpec
CHECK_DEADLOCK FALSE
INVARIANTS NoDoubleCount
PROPERTIES LedgerKept UpToDate
