CONSTANTS
  Users = {u1}
  Deletable = {u1}
  Regens = {r1, r2}
  Cron = cron
  Workers = {w1}
  NoUser = nobody
  DayLen = 2
  Timeout = 1
  MaxDay = 1
  MaxBeats = 1
  MaxClicks = 2
  MaxFaults = 1
  MaxCrashes = 1
  QueueCap = 1
  Backlog = TRUE
SPECIFICATION FairSpec
CHECK_DEADLOCK FALSE
INVARIANTS TypeOK OneFinishedDayPerRow LockExclusive

PROPERTIES LatchReleased
