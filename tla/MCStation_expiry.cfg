SPECIFICATION Spec
CONSTANTS
  Tags = {t1}
  Jobs = {j1}
  Blank = Blank
  Reports = {r1}
  Settings = {custom, Defaults}
  Defaults = Defaults
  Absent = Absent
  Devs = {d1}
  MaxScan = 1
  SyncFaults = FALSE
  Ops <- FlaggedOps
  Stops = FALSE
  OutOfMemory = FALSE
PROPERTIES RemovesOnlyExpired
