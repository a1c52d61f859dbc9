SPECIFICATION WhiteSpec
CONSTANTS
  Keys = {k1, k2}
  Vals = {on, off}
  Absent = Absent
  Poison <- NoPoison
  Faults <- AllFaults
  MaxRecycle = 2
  Addrs = {a1, a2, a3, a4}
  NULL = NULL
  Freed = Freed
  MaxNum = 3
SYMMETRY AnyTag
INVARIANTS ListsAreRows
PROPERTIES SavesEveryRow
