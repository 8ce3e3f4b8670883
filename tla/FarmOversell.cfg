SPECIFICATION Spec
CONSTANTS
  Market = {m1}
  Role = {"FAV"}
  Own <- OneFav
  Room <- OneFav
  KeepOrders = FALSE
  None = None
  MaxRuns = 1
  MaxCommands = 0
  MaxShares = 2
  MaxOrders = 1
  May = {}
INVARIANTS NeverSellsOwn
CHECK_DEADLOCK FALSE
