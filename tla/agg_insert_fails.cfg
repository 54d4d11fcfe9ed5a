CONSTANTS
  Users = {u1}
  Deletable = {}
  Regens = {}
  Cron = cron
  Workers = {w1}
  NoUser = nobody
  DayLen = 3
  Timeout = 2
  MaxDay = 3
  MaxBeats = 1
  MaxClicks = 0
  MaxFaults = 1
  MaxCrashes = 0
  QueueCap = 1
  Backlog = FALSE
SPECIFICATION Spec
CHECK_DEADLOCK FALSE
INVARIANTS NoDaySkipped
