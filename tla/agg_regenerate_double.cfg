CONSTANTS
  Users = {u1}
  Deletable = {}
  Regens = {r1}
  Cron = cron
  Workers = {w1}
  NoUser = nobody
  DayLen = 3
  Timeout = 2
  MaxDay = 3
  MaxBeats = 2
  MaxClicks = 1
  MaxFaults = 0
  MaxCrashes = 0
  QueueCap = 1
  Backlog = FALSE
SPECIFICATION Spec
CHECK_DEADLOCK FALSE
INVARIANTS NoDoubleCount
