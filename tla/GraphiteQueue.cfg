SPECIFICATION FairSpec
CONSTANTS
  Capacity = 3
  BatchSend = 2
  MaxPuts = 7
INVARIANTS TypeOK NothingLost InOrder
PROPERTY Delivers
