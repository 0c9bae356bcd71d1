SPECIFICATION Spec
CONSTANTS
  Kinds <- LocaleAndDock
  Providers = {1, 2}
  Operations = {"login", "test", "discover", "save", "remove"}
  LateCancels = {"login"}
  SaveFaults = {"unwritten"}
  LOG_CHANNEL_CAPACITY = 1
  RETAINED_DAYS = 1
  Days = {1, 2, 3, 4}
  StartDays = {1}
  Kept = {1, 3}
  Damaged = {3}
  DiskMayFill = FALSE
  WindowMayFail = TRUE
  UnhideUnseen = FALSE
  EagerClicks = FALSE
  Budgets <- Clicks5
INVARIANTS
  CredentialOfTheForm
CHECK_DEADLOCK FALSE
