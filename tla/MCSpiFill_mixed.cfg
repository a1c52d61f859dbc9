SPECIFICATION AskSpec
CONSTANTS
  t1 = t1
  t2 = t2
  Tags = {t1, t2}
  Order <- Two
  None = none
  Frames = 3
  Cap = 2
  Slices <- Mixed
  LastSize <- Tail1
  EmptyNfc = {t2}
  Jobs = {"single", "tasks", "marks", "white"}
  Wanted <- PictureOrNfc
  Replaced = {t2}
  WhiteStops = {t2}
  InRange = {t1}
INVARIANT TypeOK
INVARIANT UsedFramesArePrefix
PROPERTY NoSliceSkipped
PROPERTY AskedForIsGiven
