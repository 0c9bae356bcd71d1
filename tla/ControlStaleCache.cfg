SPECIFICATION Spec
CONSTANTS
  Providers = {p}
  Configs = {c1, c2}
  Models = {m1}
  Accounts = {a1}
  MaxToken = 2
  MaxCrashes = 1
  MaxEdits = 0
  Faults <- NoFaults
  SavesRaceRefreshes = FALSE
  Absent = absent
  Missing = missing
  Nobody = nobody
INVARIANTS StaleCacheFailsClosed
