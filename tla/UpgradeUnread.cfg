SPECIFICATION Spec
CONSTANTS
  Processes = {p1}
  OldDocs = {old1}
  NewDocs = {defaults, edited}
  OldCaches = {oldCache}
  NewCaches = {empty, filled}
  default_providers = defaults
  empty_cache = empty
  Directories = {d1, d2, d3}
  MaxMishaps = 1
  MaxEdits = 1
  EditsDuringStart = FALSE
  Missing = missing
  Nobody = nobody
INVARIANT LoadsCompatible
