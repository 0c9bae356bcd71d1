SPECIFICATION Spec
CONSTANTS
  Urls = {u1, u2, u3}
  UserValues = {noKeys, custom}
  NoKeys = noKeys
  Bodies = {blank}
  Blank = blank
  Settings = settings
  Tray = tray
  Ops = {settings, tray}
  Boot = settings
  Menu <- OverlapMenu
  Racers = {}
  CodexDuringOps = FALSE
  None = none
SYMMETRY Interchangeable
INVARIANT RecoveryDataKept
