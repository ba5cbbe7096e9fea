SPECIFICATION Spec
CONSTANTS
  b1 = b1
  b2 = b2
  Boards <- TwoBoards
  NoBoard = NoBoard
  FirstTable <- BothPaired
  Kept = 2
  Asks = {"job", "restart", "release"}
  MaxIds = 2
  MaxTables = 1
INVARIANTS TypeOK ReachTheirBoard NoJobIsForgotten
