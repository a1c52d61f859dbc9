SPECIFICATION FairSpec
CONSTANTS
  None = none
  Boards = {b1, b2}
  Parts <- Halves
  Cycle = 2
  Elapsed <- OneSecond
  MaxPics = 2
  MaxTrouble = 1
INVARIANTS TypeOK ToldWasShown NoMixture SuccessWasTold
PROPERTY Confirmed
