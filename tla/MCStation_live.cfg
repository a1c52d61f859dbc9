SPECIFICATION FairSpec
CONSTANTS
  Tags = {t1}
  Jobs = {j1}
  Blank = Blank
  Reports = {r1}
  Settings = {Defaults}
  Defaults = Defaults
  Absent = Absent
  Devs = {d1}
  MaxScan = 1
  SyncFaults = TRUE
  Ops <- LiveOps
  Stops = TRUE
  OutOfMemory = TRUE
PROPERTIES SavesNoHalfRow TasksAreSaved StopTerminates
