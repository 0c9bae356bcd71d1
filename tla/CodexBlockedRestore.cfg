SPECIFICATION Spec
CONSTANTS
  Urls = {u1}
  UserValues = {noKeys, custom}
  NoKeys = noKeys
  Bodies = {blank}
  Blank = blank
  Settings = settings
  Tray = tray
  Ops = {main}
  Boot = main
  Menu <- SequentialMenu
  Racers = {}
  CodexDuringOps = FALSE
  None = none
SYMMETRY Interchangeable
INVARIANT BlockedOnlyByEdits
