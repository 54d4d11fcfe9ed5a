CONSTANTS
  Users = {1, 2}
  HalfCPUs = 2
  Capacity = 2
  MaxRuns = 2
  Times <- TheTimes
  Day = 8
  Timeout = 3
  Kinds <- TheKinds
  MaxBeats = 3
  Settings <- TheSettings
  r1 = r1
  Readers = {r1}
  Rows = {1}
  Nothing = Nothing
  MaxChanges = 2
  MaxPosts = 2
  Heartbeats = {"h1", "h2"}
  Project <- ProjectOf
  Counted = {"h1"}
  MaxReads = 1
  MaxTroubles = 1
  a = a
  b = b
  c = c
  Servers = {a, b, c}
  Outside = Outside
  Routes <- IntoCycle
  Nowhere = Nowhere
  Hashes = {"h1", "h2"}
  MaxLoad = 3
  MaxFailures = 1
  LastBeat = 3
  DayLength = 2
  BatchSize = 2
  MaxImports = 2
  Listed <- AllListed
  SchemaAt <- SchemaMigration
  Dialects = {"sqlite", "mysql", "postgres", "mssql"}
  Ages = {0, 15}
  MaxStarts = 2
  MaxFaults = 1
SPECIFICATION AllFairSpec
CHECK_DEADLOCK FALSE
INVARIANTS AllTypesOK NearRecompute FilterGivesItem CachedIsCurrent ProjectsComplete CountsWhole
PROPERTIES ViewsCatchUp CountCatchesUp RelayEnds ImportComplete MigrationsSettle
