SPECIFICATION FairSpec
CONSTANTS
  Clients = {c1, c2}
  Polite = {c1}
  None = none
  Room = 3
  MaxSent = 3
INVARIANTS TypeOK LoginIsOfThisSession 
PROPERTIES PoliteIsAnswered LeavingIsNoticed
