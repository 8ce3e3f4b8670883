CONSTANTS
  None = None
  Dollar = 100
  Shown <- MCShown
  Band = 11
  MinSize = 20
  OrderMin = 5
  TwoSided = 180
  MinFav = 180
  MaxLead = 1
  AskOffset = 1
  MinCapture = 1
  EvMargin = 1
  MinLowScore = 12
  KeepRatio = 80
  FreeMaxCost = 50
  DepthFree = 250
  NetSlack = 2
  SoleLead = 2
  SoleKeep = 1
  Capital = 10000
  Budget = 150
  Rate = 1000
  Fills <- MCFills
  Sold <- MCSold
  Drag = 10
  FragileDrop = 6
  Dwell = 2
  SoleExit = 2
  DropWindow = 2
  DropBy = 2
  DropDepth = 3
  Cooldown = 2
  NakedCooldown = 2
  Resume = 1
  Stages <- MCStages
  OptedIn = TRUE
  History = TRUE
  BookSet <- MCBooks
  Starts <- MCStarts
  Signs = {"paused", "unrewarded", "retire"}
  Parts = {10}
  MaxEvents = 2
SPECIFICATION Spec
INVARIANTS NeverMeetsItself LadderMissesNothing ScanAgrees FreeForTheDwell
PROPERTIES Settles
CHECK_DEADLOCK FALSE
