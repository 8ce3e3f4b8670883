INIT MCInit
NEXT MCNext
CONSTANTS
  None = None
  Failing = Failing
  Junk = Junk
  a = a
  b = b
  c = c
  yes = yes
  no = no
  Rewarded = {a, b}
  EventOf <- OneEvent
  BestFirst <- DeskBest
  Listings <- DeskListings
  MinRate = 1
  MinWindow = 1
  MinPrice = 2
  Assess <- DeskAssess
  Tapes = 1
  Samples = {{a}}
  MinFit = 1
  MaxScans = 2
  MaxActs = 2
  Tokens = {yes, no}
  Sibling <- OtherToken
  Wire = 2
  MaxSets = 2
  MaxTicks = 1
  MaxFaults = 1
  Unwanted = Unwanted
  QueueBatches = 1
  KeptDays = 1
  MaxSamples = 3
  MaxDays = 3
  MaxRuns = 2
  Fields = {"runs", "event", "works"}
  Regions = {"status", "banner"}
  Shows <- PageShows
  SnapshotOf = {"status", "banner"}
  Up = 1
  MaxChanges = 2
  MaxDrops = 1
  Keys = {"a", "b"}
  Unknown = "u"
  GroupOf <- Ones
  Low <- Ones
  High <- Twos
  Texts = {1, 2, 3, Junk}
  Bases <- TwoBases
  Defaults <- Ones
  MaxWrites = 2
  Wants <- HistoryWants
  HistoryS = 3
  RetryS = 1
  SeedS = 2
  MaxNow = 3
  MaxReads = 2
  Screened = {a, b, c}
  Ranked <- ThreeRanked
  Placed = {a, b}
  EventIn <- EventOfTwo
  InQuiet = {a}
  Answers <- TriageAnswers
  Pages = {{1}}
  Workers = 2
  EventMarkets = 2
  TopN = 2
  MaxAsks = 2
  MaxRestarts = 1
  LastId = 7
  Native = {1, 2, 3, 4, 5, 6}
  PageRows = 3
  Stride = 2
  Threads = 2
  Attempts = 2
  Begins <- FirstListed
  MaxMoves = 3
  MaxListings = 2
  Mids = {5, 6}
  Lots <- HoldingChanges
  OrderMin = 1
  PositionsS = 2
  MidSampleS = 2
  Lookback = 2
  Limit = 2
  EventsKept = 3
  MidsKept = 2
  MaxTime = 7
  MaxFills = 2
  MaxFailures = 3
INVARIANTS
  ReadIsTrue
  EvidenceHolds
  ExitIsBest
  ListingIsWhole
  ReadsAreKept
  FillsAreKept
  DecisionsAreLogged
  WaitingIsServed
  RowsAreTheirOwn
  FeedIsFaithful
  WrittenOrWarned
  ReplaysAreBlind
  SettingsHold
  SignalledIsShown
CHECK_DEADLOCK FALSE
