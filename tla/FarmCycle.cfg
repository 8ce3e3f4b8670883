SPECIFICATION Spec
CONSTANTS
  Market = {m1}
  Role = {"LONG"}
  Own <- NoLong
  Room <- OneLong
  KeepOrders = FALSE
  None = None
  MaxRuns = 2
  MaxCommands = 0
  MaxShares = 1
  MaxOrders = 2
  May = {"signal", "kill", "cancel", "read"}
INVARIANTS BookIsSound ClearedWhenStopped BaselineIsOwn
CHECK_DEADLOCK FALSE
