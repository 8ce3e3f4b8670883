SPECIFICATION FairSpec
CONSTANTS
  Market = {m1}
  Role = {"FAV"}
  Own <- NoFav
  Room <- OneFav
  KeepOrders = TRUE
  None = None
  MaxRuns = 2
  MaxCommands = 1
  MaxShares = 1
  MaxOrders = 1
  May = {"db", "kill"}
PROPERTIES CommandsAreTheirOwn StopIsObeyed TakenDown
CHECK_DEADLOCK FALSE
