SPECIFICATION Spec
CONSTANTS
  Keys = {k1, k2}
  v1 = v1
  v2 = v2
  Vals = {v1, v2}
  Absent = Absent
  Poison <- Apostrophe
  Faults <- NoFaults
  MaxRecycle = 3
PROPERTIES SyncMakesDiskEqualCache
