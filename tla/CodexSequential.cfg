SPECIFICATION Spec
CONSTANTS
  Urls = {u1, u2, u3}
  UserValues = {noKeys, custom}
  NoKeys = noKeys
  Bodies = {blank, text}
  Blank = blank
  Ops = {main}
  Boot = main
  Menu <- SequentialMenu
  Racers = {}
  CodexDuringOps = TRUE
  None = none
  Settings = settings
  Tray = tray
SYMMETRY Interchangeable
INVARIANTS RecoveryDataKept BlockedOnlyByInterruption Custody
PROPERTIES KeepsManagedKeys BackupNotRebased RestoreReturnsOriginal CacheFollowsConfig
