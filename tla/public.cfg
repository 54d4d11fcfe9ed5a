CONSTANTS
  Users = {u1}
  Reqs = {r1, r2}
  Readers = {q1}
  IgnorePreference = FALSE
  MaxSaves = 2
  MaxFaults = 1
  MaxCrashes = 1
SPECIFICATION PublicSpec
INVARIANTS TypeOK AtMostTwo SharingAgrees
PROPERTIES EachListedOnce PagesForget
