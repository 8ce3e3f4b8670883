------------------------------- MODULE Parts -------------------------------
(* The market queue, the market feed, the book recorder, the console's signals, the settings, the
   reads of the markets' histories, Claude's screens, the listing of the rewarded markets and what
   the farmer remembers of its fills: each keeps a state of its own and runs alone with its
   environment. A behaviour is one of the nine; what each promises is its own module's, here for
   every value of its constants. *)
EXTENDS Integers, Sequences

CONSTANTS
  Rewarded, EventOf(_), BestFirst, Listings, MinRate, MinWindow, MinPrice, Assess(_, _, _), Tapes,
  Samples, MinFit, MaxScans, MaxActs,                  \* of Desk
  Tokens, Sibling(_), Wire, MaxSets, MaxTicks, MaxFaults, Unwanted, \* of Feed
  QueueBatches, KeptDays, MaxSamples, MaxDays, MaxRuns, \* of Books
  Fields, Regions, Shows, SnapshotOf, Up, MaxChanges, MaxDrops, \* of Signals
  Keys, Unknown, GroupOf, Low, High, Texts, Bases, Defaults, MaxWrites, Junk, \* of Settings
  Wants, HistoryS, RetryS, SeedS, MaxNow, MaxReads,     \* of Histories
  Screened, Ranked, Placed, EventIn(_), InQuiet, Answers, Pages, Workers, EventMarkets, TopN,
  MaxAsks, MaxRestarts, Failing,                        \* of Triage
  LastId, Native, PageRows, Stride, Threads, Attempts, Begins, MaxMoves, MaxListings, \* of Listing
  Mids, Lots, OrderMin, PositionsS, MidSampleS, Lookback, Limit, EventsKept, MidsKept, MaxTime, MaxFills, MaxFailures, \* of Outbox
  None

VARIABLES part, \* the one that runs
  x1, x2, x3, x4, x5, x6, x7, x8, x9, x10, x11, x12, x13, x14, x15, x16 \* its variables, in the order it declares them; the rest None
xs == <<x1, x2, x3, x4, x5, x6, x7, x8, x9, x10, x11, x12, x13, x14, x15, x16>>
vars == <<part, xs>>

De == INSTANCE Desk WITH
  Markets <- Rewarded, Best <- BestFirst,
  rows <- x1, log <- x2, mutes <- x3, prior <- x4, job <- x5, scans <- x6, started <- x7,
  half <- x8, check <- x9, acts <- x10

Fe == INSTANCE Feed WITH
  Left <- Unwanted,
  wanted <- x1, stop <- x2, pc <- x3, tokens <- x4, updates <- x5, up <- x6, down <- x7,
  served <- x8, tick <- x9, heard <- x10, said <- x11, sets <- x12, ticks <- x13,
  faults <- x14

Bo == INSTANCE Books WITH
  day <- x1, runs <- x2, taken <- x3, pc <- x4, samples <- x5, queue <- x6, stop <- x7,
  thread <- x8, final <- x9, hand <- x10, conn <- x11, file <- x12, written <- x13,
  warned <- x14, unsent <- x15, lost <- x16

Si == INSTANCE Signals WITH
  db <- x1, commits <- x2, aged <- x3, shared <- x4, request <- x5, dirty <- x6,
  shown <- x7, page <- x8, poll <- x9, marks <- x10, told <- x11, wire <- x12,
  changes <- x13, drops <- x14

Se == INSTANCE Settings WITH
  rows <- x1, pc <- x2, base <- x3, cfg <- x4, errors <- x5, queued <- x6, status <- x7,
  log <- x8, meant <- x9, assumed <- x10, due <- x11, runs <- x12, writes <- x13

Hi == INSTANCE Histories WITH
  Markets <- Rewarded,
  now <- x1, alive <- x2, wanted <- x3, read <- x4, due <- x5, fetching <- x6, shown <- x7,
  flushing <- x8, saved <- x9, states <- x10, tapes <- x11, reads <- x12

Tr == INSTANCE Triage WITH
  Markets <- Screened, EventOf <- EventIn, Raised <- Failing,
  queue <- x1, running <- x2, workers <- x3, thread <- x4, top <- x5, rows <- x6, done <- x7,
  asks <- x8, restarts <- x9

Li == INSTANCE Listing WITH
  MaxReads <- MaxListings,
  listed <- x1, sorted <- x2, moves <- x3, mode <- x4, pages <- x5, batch <- x6, attempt <- x7,
  reads <- x8, always <- x9, ever <- x10, rows <- x11, rates <- x12

Ou == INSTANCE Outbox WITH
  MaxNow <- MaxTime, MaxFaults <- MaxFailures,
  now <- x1, mid <- x2, held <- x3, fills <- x4, faults <- x5, pc <- x6, seen <- x7, readAt <- x8,
  fillMid <- x9, midAt <- x10, events <- x11, mids <- x12, log <- x13, stored <- x14,
  emitted <- x15, first <- x16

Init ==
  \/ part = "desk" /\ De!Init
     /\ x11 = None /\ x12 = None /\ x13 = None /\ x14 = None /\ x15 = None /\ x16 = None
  \/ part = "feed" /\ Fe!Init
     /\ x15 = None /\ x16 = None
  \/ part = "books" /\ Bo!Init
  \/ part = "signals" /\ Si!Init
     /\ x15 = None /\ x16 = None
  \/ part = "settings" /\ Se!Init
     /\ x14 = None /\ x15 = None /\ x16 = None
  \/ part = "histories" /\ Hi!Init
     /\ x13 = None /\ x14 = None /\ x15 = None /\ x16 = None
  \/ part = "triage" /\ Tr!Init
     /\ x10 = None /\ x11 = None /\ x12 = None /\ x13 = None /\ x14 = None /\ x15 = None /\ x16 = None
  \/ part = "listing" /\ Li!Init
     /\ x13 = None /\ x14 = None /\ x15 = None /\ x16 = None
  \/ part = "outbox" /\ Ou!Init

DeskSteps == part = "desk" /\ De!Next /\ UNCHANGED <<part, x11, x12, x13, x14, x15, x16>>
FeedSteps == part = "feed" /\ Fe!Next /\ UNCHANGED <<part, x15, x16>>
BooksSteps == part = "books" /\ Bo!Next /\ UNCHANGED part
SignalsSteps == part = "signals" /\ Si!Next /\ UNCHANGED <<part, x15, x16>>
SettingsSteps == part = "settings" /\ Se!Next /\ UNCHANGED <<part, x14, x15, x16>>
HistoriesSteps == part = "histories" /\ Hi!Next /\ UNCHANGED <<part, x13, x14, x15, x16>>
TriageSteps == part = "triage" /\ Tr!Next /\ UNCHANGED <<part, x10, x11, x12, x13, x14, x15, x16>>
ListingSteps == part = "listing" /\ Li!Next /\ UNCHANGED <<part, x13, x14, x15, x16>>
OutboxSteps == part = "outbox" /\ Ou!Next /\ UNCHANGED part
Next ==
  \/ DeskSteps \/ FeedSteps \/ BooksSteps \/ SignalsSteps
  \/ SettingsSteps \/ HistoriesSteps \/ TriageSteps \/ ListingSteps \/ OutboxSteps
Spec == Init /\ [][Next]_vars

\* What a market's row says is decided was decided.
DecisionsAreLogged == part = "desk" => De!DecisionsAreLogged
\* The feed tells its consumer what it wants, as it is.
FeedIsFaithful == part = "feed" => Fe!FeedIsFaithful
\* A sample is written or warned of.
WrittenOrWarned == part = "books" => Bo!WrittenOrWarned
\* A region that had its signals shows what they were about.
SignalledIsShown == part = "signals" => Si!SignalledIsShown
\* The farmer runs with what was asked.
SettingsHold == part = "settings" => Se!SettingsHold
\* A tape taken for saved is stored, and a market left alone has a read.
ReadsAreKept == part = "histories" => Hi!ReadsAreKept
\* A waiting market has a worker to come to it.
WaitingIsServed == part = "triage" => Tr!WaitingIsServed
\* A market's row is of its own screen.
RowsAreTheirOwn == part = "triage" => Tr!RowsAreTheirOwn
\* A reading misses no market listed throughout.
ListingIsWhole == part = "listing" => Li!ListingIsWhole
\* A fill, and the midpoint it was made at, outlive the farmer.
FillsAreKept == part = "outbox" => Ou!FillsAreKept
============================================================================
