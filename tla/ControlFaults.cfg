SPECIFICATION Spec
CONSTANTS
  Providers = {p}
  Configs = {c1}
  Models = {m1}
  Accounts = {a1, a2}
  MaxToken = 2
  MaxCrashes = 1
  MaxEdits = 1
  Faults <- AllFaults
  SavesRaceRefreshes = TRUE
  Absent = absent
  Missing = missing
  Nobody = nobody
SYMMETRY Interchangeable
INVARIANTS EgressFollowsControl
