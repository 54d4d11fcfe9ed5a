CONSTANTS
  Users = {u1}
  Clearers = {u1}
  Dumps = {d1, d2}
  Reqs = {r1}
  NoRow = NoRow
  Workers = 1
  StuckAfter = 1
  ExpireAfter = 4
  Prompt = FALSE
  LastPost = 0
  MaxClock = 3
  MaxFaults = 1
  MaxCrashes = 1
  MaxClears = 1
SPECIFICATION FairSpec
CHECK_DEADLOCK FALSE
PROPERTIES ExportSettles
