CONSTANTS
  Users = {u1}
  Clearers = {}
  Dumps = {d1, d2}
  Reqs = {r1, r2}
  NoRow = NoRow
  Workers = 1
  StuckAfter = 1
  ExpireAfter = 2
  Prompt = TRUE
  LastPost = 1
  MaxClock = 4
  MaxFaults = 1
  MaxCrashes = 1
  MaxClears = 0
SPECIFICATION FairSpec
CHECK_DEADLOCK FALSE
INVARIANTS TypeOK NoOrphanFile CompletedHasFile
PROPERTIES ExportRemoved
