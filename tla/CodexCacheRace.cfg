SPECIFICATION Spec
CONSTANTS
  Urls = {u1, u2, u3}
  UserValues = {noKeys, custom}
  NoKeys = noKeys
  Bodies = {blank}
  Blank = blank
  Settings = settings
  Tray = tray
  Ops = {main}
  Boot = main
  Menu <- SequentialMenu
  Racers = {}
  CodexDuringOps = TRUE
  None = none
SYMMETRY Interchangeable
PROPERTY NoStaleCache
