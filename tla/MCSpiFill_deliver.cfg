SPECIFICATION FairSpec
CONSTANTS
  t1 = t1
  t2 = t2
  Tags = {t1, t2}
  Order <- Two
  None = none
  Frames = 3
  Cap = 2
  Slices <- Five
  LastSize <- Tail1
  EmptyNfc = {}
  Jobs = {"tasks", "marks", "white"}
  Wanted <- PictureOrLed
  Replaced = {}
  WhiteStops = {}
  InRange = {t1, t2}
PROPERTY Delivered
