SPECIFICATION FairSpec
CONSTANTS
  Providers = {p}
  Configs = {c1}
  Models = {m1}
  Accounts = {a1, a2}
  MaxToken = 3
  MaxCrashes = 0
  MaxEdits = 0
  Faults <- NoFaults
  SavesRaceRefreshes = FALSE
  Absent = absent
  Missing = missing
  Nobody = nobody
INVARIANTS SavedCredentialUsable
PROPERTIES StaleIsRefreshed
