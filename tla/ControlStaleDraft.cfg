SPECIFICATION Spec
CONSTANTS
  Providers = {p}
  Configs = {c1}
  Models = {m1}
  Accounts = {a1}
  MaxToken = 3
  MaxCrashes = 0
  MaxEdits = 0
  Faults <- NoFaults
  SavesRaceRefreshes = TRUE
  Absent = absent
  Missing = missing
  Nobody = nobody
PROPERTIES CredentialNeverRollsBack
