CONSTANTS
  Users = {u1}
  Reqs = {r1}
  Readers = {q1}
  IgnorePreference = FALSE
  MaxSaves = 1
  MaxFaults = 0
  MaxCrashes = 0
SPECIFICATION FairSpec
PROPERTIES OptedOutIsDropped
