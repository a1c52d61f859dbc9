SPECIFICATION FairSpec
CONSTANTS
  c1 = c1
  c2 = c2
  Cmds = {c1, c2}
  Parts <- OneAndTwo
  Rejected = {c2}
  Noise = noise
  Stops = TRUE
INVARIANTS TypeOK ConfirmedWereExecuted
PROPERTIES Delivered FailsOver ThreadEnds
