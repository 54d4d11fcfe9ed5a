CONSTANTS
  Times <- TheTimes
  Day = 8
  Timeout = 3
  Kinds <- TheKinds
  MaxBeats = 4
  Settings <- TheSettings
SPECIFICATION Spec
CHECK_DEADLOCK FALSE
INVARIANTS RetrievedIsRecomputed
