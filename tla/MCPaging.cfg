SPECIFICATION FairSpec
CONSTANTS
  Tags = {t1, t2, t3}
  None = none
  Queries = {task, json}
  Eager = {task}
  Size <- TwoEach
  Counted <- AllButOne
  MaxRank = 4
INVARIANTS TypeOK ScanComplete
PROPERTIES PagesMoveOn ScanEnds
