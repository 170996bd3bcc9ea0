CONSTANTS
  Mode = {"taker", "momentum", "maker"}
  Lot = {2}
  MAX_POSITION = 2
  QUOTE_SIZE = 1
  MAX_INVENTORY = 1
  NoAnswer = NoAnswer
  MaxOrders = 2
  MaxMishaps = 2
  Spent = 1
  SpentBoth = 2
  SpentMakers = 3
SPECIFICATION Spec
INVARIANTS BooksAccounted PauseStopsOrders PositionWithinCap EndsFlatButStrays
PROPERTIES BooksConverge
CHECK_DEADLOCK FALSE
