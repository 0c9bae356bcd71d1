SPECIFICATION Spec
CONSTANTS
  Providers = {p}
  Configs = {c1}
  Models = {m1}
  Accounts = {a1, a2}
  MaxToken = 3
  MaxCrashes = 1
  MaxEdits = 0
  Faults <- Refused
  SavesRaceRefreshes = TRUE
  Absent = absent
  Missing = missing
  Nobody = nobody
SYMMETRY Interchangeable
INVARIANTS DiskFollowsControl
PROPERTIES OnlyOvertakenSavesRollBack RemovedStaysRemoved LoginIsKept
