SPECIFICATION FairSpec
CONSTANTS
  b1 = b1
  b2 = b2
  Boards <- TwoBoards
  NoBoard = NoBoard
  FirstTable <- OnePaired
  Kept = 1
  Asks = {"own", "job", "pair", "arrange"}
  MaxIds = 2
  MaxTables = 1
PROPERTIES EndsStay JobsEnd
