SPECIFICATION Spec
CONSTANTS
  b1 = b1
  b2 = b2
  Boards <- TwoBoards
  NoBoard = NoBoard
  FirstTable <- OnePaired
  Kept = 2
  Asks = {"job"}
  MaxIds = 1
  MaxTables = 0
INVARIANTS NoJobOutlivesRestart
