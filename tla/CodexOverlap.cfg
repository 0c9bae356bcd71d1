SPECIFICATION Spec
CONSTANTS
  Urls = {u1, u2}
  UserValues = {noKeys}
  NoKeys = noKeys
  Bodies = {blank, text}
  Blank = blank
  Settings = settings
  Tray = tray
  Ops = {settings, tray}
  Boot = settings
  Menu <- OverlapMenu
  Racers = {"operation"}
  CodexDuringOps = FALSE
  None = none
SYMMETRY Interchangeable
INVARIANTS BodyCustody
PROPERTIES UserContentPreserved
