SPECIFICATION FairSpec
CONSTANTS
  Processes = {p1, p2}
  OldDocs = {old1, old2}
  NewDocs = {defaults, edited}
  OldCaches = {oldCache}
  NewCaches = {empty, filled}
  default_providers = defaults
  empty_cache = empty
  Directories = {d1, d2, d3}
  MaxMishaps = 2
  MaxEdits = 1
  EditsDuringStart = TRUE
  Missing = missing
  Nobody = nobody
INVARIANTS ReceiptTellsTheTruth
PROPERTIES OriginalsAreKept UpgradeIsCompleted
