----------------------------- MODULE PartsProofs -----------------------------
(* What the nine components promise, of the composition: the theorems of each one's own module,
   whose instance here has the same state as the component's. *)
EXTENDS Parts, TLAPS

DeP == INSTANCE DeskProofs WITH
  Markets <- Rewarded, Best <- BestFirst,
  rows <- x1, log <- x2, mutes <- x3, prior <- x4, job <- x5, scans <- x6, started <- x7,
  half <- x8, check <- x9, acts <- x10

FeP == INSTANCE FeedProofs WITH
  Left <- Unwanted,
  wanted <- x1, stop <- x2, pc <- x3, tokens <- x4, updates <- x5, up <- x6, down <- x7,
  served <- x8, tick <- x9, heard <- x10, said <- x11, sets <- x12, ticks <- x13,
  faults <- x14

StP == INSTANCE StoresProofs WITH
  Markets <- Rewarded,
  day <- x1, runs <- x2, taken <- x3, pc <- x4, samples <- x5, queue <- x6, stop <- x7,
  thread <- x8, final <- x9, hand <- x10, conn <- x11, file <- x12, written <- x13,
  warned <- x14, unsent <- x15, lost <- x16,
  rows <- x1, step <- x2, base <- x3, cfg <- x4, errors <- x5, queued <- x6, status <- x7,
  log <- x8, meant <- x9, assumed <- x10, due <- x11, starts <- x12, writes <- x13,
  now <- x1, alive <- x2, wanted <- x3, read <- x4, dueNext <- x5, fetching <- x6, shown <- x7,
  flushing <- x8, saved <- x9, states <- x10, tapes <- x11, reads <- x12,
  waiting <- x1, running <- x2, workers <- x3, screens <- x4, top <- x5, triages <- x6, done <- x7,
  asks <- x8, restarts <- x9,
  listed <- x1, sorted <- x2, moves <- x3, mode <- x4, pages <- x5, batch <- x6, attempt <- x7,
  listings <- x8, always <- x9, ever <- x10, listing <- x11, rates <- x12,
  time <- x1, bookMid <- x2, shares <- x3, fills <- x4, failures <- x5, stage <- x6, position <- x7,
  readAt <- x8, fillMid <- x9, midAt <- x10, events <- x11, mids <- x12, eventLog <- x13,
  sampled <- x14, emitted <- x15, firstEvent <- x16

SiP == INSTANCE SignalsProofs WITH
  db <- x1, commits <- x2, aged <- x3, shared <- x4, request <- x5, dirty <- x6,
  shown <- x7, page <- x8, poll <- x9, marks <- x10, told <- x11, wire <- x12,
  changes <- x13, drops <- x14

-----------------------------------------------------------------------------
LEMMA SameDeskInit == De!Init => DeP!Init
  BY DEF De!Init, DeP!Init, De!Runners, DeP!Runners

LEMMA SameDeskNext == De!Next => DeP!Next
  BY Zenon DEF De!Next, DeP!Next, De!Runners, DeP!Runners, De!ScanStart, DeP!ScanStart, De!ScanReads,
     DeP!ScanReads, De!ScanEnds, DeP!ScanEnds, De!SetApproval, DeP!SetApproval,
     De!RejectMarket, DeP!RejectMarket, De!ApproveMarket, DeP!ApproveMarket,
     De!UnrejectMarket, DeP!UnrejectMarket, De!RetireMarket, DeP!RetireMarket,
     De!MarkRetired, DeP!MarkRetired, De!CheckBegins, DeP!CheckBegins, De!SecondWrite,
     DeP!SecondWrite, De!Mute, DeP!Mute, De!Unmute, DeP!Unmute, De!RecordRewards,
     DeP!RecordRewards, De!RecordPaying, DeP!RecordPaying, De!Here, DeP!Here, De!tables,
     DeP!tables, De!AssessAll, DeP!AssessAll, De!Candidates, DeP!Candidates, De!Valued,
     DeP!Valued, De!Top, DeP!Top, De!Fitted, DeP!Fitted, De!Kept, DeP!Kept, De!Store,
     DeP!Store, De!Act, DeP!Act, De!LogDecision, DeP!LogDecision, De!Unapproved,
     DeP!Unapproved, De!scanning, DeP!scanning, De!Statuses, DeP!Statuses, De!Decide,
     DeP!Decide, De!FromRejected, DeP!FromRejected,
     De!ScreenListing, DeP!ScreenListing, De!ResolutionSignal, DeP!ResolutionSignal,
     De!RowOf, DeP!RowOf, De!Cardinality, DeP!Cardinality, De!ToSet,
     DeP!ToSet, De!Max, DeP!Max, De!Min, DeP!Min, De!Last, DeP!Last

LEMMA SameDesk == DeP!DecisionsAreLogged => De!DecisionsAreLogged
  BY DEF De!DecisionsAreLogged, DeP!DecisionsAreLogged, De!Here, DeP!Here, De!LastOf, DeP!LastOf,
     De!Cardinality, DeP!Cardinality, De!ToSet, DeP!ToSet, De!Max, DeP!Max, De!Min, DeP!Min,
     De!Last, DeP!Last

\* However scans, checks, farmer and operator interleave: a market's status is what the log says of it.
THEOREM DecisionsStand == ASSUME DeP!NoneIsNone PROVE Spec => []DecisionsAreLogged
<1>1. Init /\ part = "desk" => DeP!Init
  BY SameDeskInit DEF Init
<1>2. part = "desk" /\ [Next]_vars => [DeP!Next]_(DeP!vars) /\ (part = "desk")'
  BY SameDeskNext DEF Next, vars, xs, DeskSteps, FeedSteps, BooksSteps, SignalsSteps,
     SettingsSteps, HistoriesSteps, TriageSteps, ListingSteps, OutboxSteps,
     DeP!vars, DeP!tables, DeP!scanning
<1>3. ~(part = "desk") /\ [Next]_vars => (~(part = "desk"))'
  BY DEF Next, vars, DeskSteps, FeedSteps, BooksSteps, SignalsSteps,
     SettingsSteps, HistoriesSteps, TriageSteps, ListingSteps, OutboxSteps
<1>4. DeP!DecisionsAreLogged => DecisionsAreLogged
  BY SameDesk DEF DecisionsAreLogged
<1>5. ~(part = "desk") => DecisionsAreLogged
  BY DEF DecisionsAreLogged
<1>6. DeP!Spec => []DeP!DecisionsAreLogged
  BY DeP!StatusesAreLogged
<1> QED BY <1>1, <1>2, <1>3, <1>4, <1>5, <1>6, PTL DEF Spec, DeP!Spec

-----------------------------------------------------------------------------
LEMMA SameFeedInit == Fe!Init => FeP!Init
  BY DEF Fe!Init, FeP!Init

LEMMA SameFeedNext == Fe!Next => FeP!Next
  BY Zenon DEF Fe!Next, FeP!Next, Fe!TickChanges, FeP!TickChanges, Fe!PriceChanges, FeP!PriceChanges,
     Fe!SetTokens, FeP!SetTokens, Fe!Serves, FeP!Serves, Fe!Stop, FeP!Stop, Fe!Top, FeP!Top,
     Fe!Connect, FeP!Connect, Fe!Look, FeP!Look, Fe!Match, FeP!Match, Fe!Recv, FeP!Recv,
     Fe!Deliver, FeP!Deliver, Fe!Raised, FeP!Raised, Fe!Wait, FeP!Wait, Fe!Sends, FeP!Sends,
     Fe!Each, FeP!Each, Fe!consumer, FeP!consumer, Fe!Message, FeP!Message, Fe!bounds,
     FeP!bounds, Fe!connection, FeP!connection, Fe!Op, FeP!Op, Fe!Closed, FeP!Closed,
     Fe!Operations, FeP!Operations, Fe!ParseFrame, FeP!ParseFrame, Fe!Hears, FeP!Hears,
     Fe!Updates, FeP!Updates, Fe!Update, FeP!Update, Fe!Cardinality, FeP!Cardinality,
     Fe!SetToSeq, FeP!SetToSeq, Fe!Last, FeP!Last, Fe!ToSet, FeP!ToSet, Fe!IsInjective,
     FeP!IsInjective

LEMMA SameFeed == FeP!FeedIsFaithful => Fe!FeedIsFaithful
  BY DEF Fe!FeedIsFaithful, FeP!FeedIsFaithful, Fe!ToBeServed, FeP!ToBeServed, Fe!Names, FeP!Names,
     Fe!Cardinality, FeP!Cardinality, Fe!SetToSeq, FeP!SetToSeq, Fe!Last, FeP!Last,
     Fe!ToSet, FeP!ToSet, Fe!IsInjective, FeP!IsInjective

\* However the tokens change and the connection fails: the consumer is told what it wants, in its ticks.
THEOREM FeedIsTrusted == ASSUME FeP!FeedAssumption PROVE Spec => []FeedIsFaithful
<1>1. Init /\ part = "feed" => FeP!Init
  BY SameFeedInit DEF Init
<1>2. part = "feed" /\ [Next]_vars => [FeP!Next]_(FeP!vars) /\ (part = "feed")'
  BY SameFeedNext DEF Next, vars, xs, DeskSteps, FeedSteps, BooksSteps, SignalsSteps,
     SettingsSteps, HistoriesSteps, TriageSteps, ListingSteps, OutboxSteps,
     FeP!vars, FeP!connection, FeP!consumer, FeP!bounds
<1>3. ~(part = "feed") /\ [Next]_vars => (~(part = "feed"))'
  BY DEF Next, vars, DeskSteps, FeedSteps, BooksSteps, SignalsSteps,
     SettingsSteps, HistoriesSteps, TriageSteps, ListingSteps, OutboxSteps
<1>4. FeP!FeedIsFaithful => FeedIsFaithful
  BY SameFeed DEF FeedIsFaithful
<1>5. ~(part = "feed") => FeedIsFaithful
  BY DEF FeedIsFaithful
<1>6. FeP!Spec => []FeP!FeedIsFaithful
  BY FeP!FeedKeepsFaith
<1> QED BY <1>1, <1>2, <1>3, <1>4, <1>5, <1>6, PTL DEF Spec, FeP!Spec

-----------------------------------------------------------------------------
LEMMA SameBooksInit == Bo!Init => StP!Init
  BY DEF Bo!Init, StP!Init, Bo!Idle, StP!Idle

LEMMA SameBooksNext == Bo!Next => StP!Next
  BY Zenon DEF Bo!Next, StP!Next, Bo!NextDay, StP!NextDay, Bo!Run, StP!Run, Bo!Start, StP!Start, Bo!Sample,
     StP!Sample, Bo!Settled, StP!Settled, Bo!Shutdown, StP!Shutdown, Bo!Exit, StP!Exit,
     Bo!Wake, StP!Wake, Bo!Take, StP!Take, Bo!Flush, StP!Flush, Bo!Write, StP!Write,
     Bo!recorder, StP!recorder, Bo!kept, StP!kept, Bo!Queued, StP!Queued, Bo!OnWake,
     StP!OnWake, Bo!Put, StP!Put, Bo!Pruned, StP!Pruned, Bo!ToSet, StP!ToSet

LEMMA SameBooks == StP!WrittenOrWarned => Bo!WrittenOrWarned
  BY DEF Bo!WrittenOrWarned, StP!WrittenOrWarned, Bo!Queued, StP!Queued, Bo!ToSet, StP!ToSet

\* However the queue fills, the writes fail and the runs end: a sample is written or warned of.
THEOREM NoSampleSilent == ASSUME StP!BooksAssumption PROVE Spec => []WrittenOrWarned
<1>1. Init /\ part = "books" => StP!Init
  BY SameBooksInit DEF Init
<1>2. part = "books" /\ [Next]_vars => [StP!Next]_(StP!vars) /\ (part = "books")'
  BY SameBooksNext DEF Next, vars, xs, DeskSteps, FeedSteps, BooksSteps, SignalsSteps,
     SettingsSteps, HistoriesSteps, TriageSteps, ListingSteps, OutboxSteps,
     StP!vars, StP!recorder, StP!kept
<1>3. ~(part = "books") /\ [Next]_vars => (~(part = "books"))'
  BY DEF Next, vars, DeskSteps, FeedSteps, BooksSteps, SignalsSteps,
     SettingsSteps, HistoriesSteps, TriageSteps, ListingSteps, OutboxSteps
<1>4. StP!WrittenOrWarned => WrittenOrWarned
  BY SameBooks DEF WrittenOrWarned
<1>5. ~(part = "books") => WrittenOrWarned
  BY DEF WrittenOrWarned
<1>6. StP!Spec => []StP!WrittenOrWarned
  BY StP!SamplesAreKept
<1> QED BY <1>1, <1>2, <1>3, <1>4, <1>5, <1>6, PTL DEF Spec, StP!Spec

-----------------------------------------------------------------------------
LEMMA SameSignalsInit == Si!Init => SiP!Init
  BY DEF Si!Init, SiP!Init, Si!Processes, SiP!Processes, Si!NoClock, SiP!NoClock, Si!Idle, SiP!Idle,
     Si!Zero, SiP!Zero, Si!NewPoll, SiP!NewPoll, Si!Statements, SiP!Statements,
     Si!Statement, SiP!Statement

LEMMA SameSignalsNext == Si!Next => SiP!Next
  BY Zenon DEF Si!Next, SiP!Next, Si!Publish, SiP!Publish, Si!StopFarmer, SiP!StopFarmer, Si!StartFarmer,
     SiP!StartFarmer, Si!Decide, SiP!Decide, Si!Beat, SiP!Beat, Si!Connect, SiP!Connect,
     Si!Look, SiP!Look, Si!Connected, SiP!Connected, Si!Tell, SiP!Tell, Si!Drop, SiP!Drop,
     Si!Farm, SiP!Farm, Si!Work, SiP!Work, Si!Processes, SiP!Processes, Si!Lapse, SiP!Lapse,
     Si!Begin, SiP!Begin, Si!Version, SiP!Version, Si!Reuse, SiP!Reuse, Si!Read, SiP!Read,
     Si!Render, SiP!Render, Si!Deliver, SiP!Deliver, Si!Odd, SiP!Odd, Si!Commit, SiP!Commit,
     Si!Renewed, SiP!Renewed, Si!Lapsed, SiP!Lapsed, Si!browser, SiP!browser, Si!stream,
     SiP!stream, Si!Idle, SiP!Idle, Si!NewPoll, SiP!NewPoll, Si!databases, SiP!databases,
     Si!Statements, SiP!Statements, Si!Comes, SiP!Comes, Si!Seen, SiP!Seen, Si!ClockAfter,
     SiP!ClockAfter, Si!Found, SiP!Found, Si!Moved, SiP!Moved, Si!AsksOf, SiP!AsksOf,
     Si!Zero, SiP!Zero, Si!Serves, SiP!Serves, Si!FarmStatements, SiP!FarmStatements,
     Si!Reading, SiP!Reading, Si!Listens, SiP!Listens, Si!Tools, SiP!Tools, Si!NoClock,
     SiP!NoClock, Si!Statement, SiP!Statement, Si!Running, SiP!Running

LEMMA SameSignals == SiP!SignalledIsShown => Si!SignalledIsShown
  BY DEF Si!SignalledIsShown, SiP!SignalledIsShown, Si!Idle, SiP!Idle, Si!Listens, SiP!Listens,
     Si!NoClock, SiP!NoClock, Si!Zero, SiP!Zero, Si!Processes, SiP!Processes

\* However commits, polls, deliveries and renders interleave: a region that had its signals shows them.
THEOREM RegionsAreCurrent == ASSUME SiP!SignalsAssumption PROVE Spec => []SignalledIsShown
<1>1. Init /\ part = "signals" => SiP!Init
  BY SameSignalsInit DEF Init
<1>2. part = "signals" /\ [Next]_vars => [SiP!Next]_(SiP!vars) /\ (part = "signals")'
  BY SameSignalsNext DEF Next, vars, xs, DeskSteps, FeedSteps, BooksSteps, SignalsSteps,
     SettingsSteps, HistoriesSteps, TriageSteps, ListingSteps, OutboxSteps,
     SiP!vars, SiP!databases, SiP!browser, SiP!stream
<1>3. ~(part = "signals") /\ [Next]_vars => (~(part = "signals"))'
  BY DEF Next, vars, DeskSteps, FeedSteps, BooksSteps, SignalsSteps,
     SettingsSteps, HistoriesSteps, TriageSteps, ListingSteps, OutboxSteps
<1>4. SiP!SignalledIsShown => SignalledIsShown
  BY SameSignals DEF SignalledIsShown
<1>5. ~(part = "signals") => SignalledIsShown
  BY DEF SignalledIsShown
<1>6. SiP!Spec => []SiP!SignalledIsShown
  BY SiP!SignalsAreShown
<1> QED BY <1>1, <1>2, <1>3, <1>4, <1>5, <1>6, PTL DEF Spec, SiP!Spec

-----------------------------------------------------------------------------
LEMMA SameSettingsInit == Se!Init => StP!Se!Init
  BY Zenon DEF Se!Init, StP!Se!Init, Se!Values, StP!Se!Values, Se!ParseSetting, StP!Se!ParseSetting

LEMMA SameSettingsNext == Se!Next => StP!Se!Next
  BY Zenon DEF Se!Next, StP!Se!Next, Se!Forms, StP!Se!Forms, Se!Save, StP!Se!Save, Se!Refuse,
     StP!Se!Refuse, Se!Reset, StP!Se!Reset, Se!Start, StP!Se!Start, Se!Cycle, StP!Se!Cycle,
     Se!Flush, StP!Se!Flush, Se!Exit, StP!Se!Exit, Se!Publish, StP!Se!Publish, Se!Apply,
     StP!Se!Apply, Se!Overlaid, StP!Se!Overlaid, Se!Writes, StP!Se!Writes, Se!SettingValue,
     StP!Se!SettingValue, Se!Errors, StP!Se!Errors, Se!Values, StP!Se!Values,
     Se!ParseSetting, StP!Se!ParseSetting, Se!farmer, StP!Se!farmer, Se!published,
     StP!Se!published, Se!asked, StP!Se!asked, Se!SetToSeq, StP!Se!SetToSeq, Se!Cardinality,
     StP!Se!Cardinality, Se!IsInjective, StP!Se!IsInjective

LEMMA SameSettings == StP!Se!SettingsHold => Se!SettingsHold
  BY DEF Se!SettingsHold, StP!Se!SettingsHold, Se!ChangesTold, StP!Se!ChangesTold, Se!Tell,
     StP!Se!Tell, Se!Change, StP!Se!Change

\* However forms, resets, restarts and failing cycles interleave: the farmer runs with what was asked.
THEOREM SettingsStand == ASSUME StP!Se!SettingsAssumption PROVE Spec => []SettingsHold
<1>1. Init /\ part = "settings" => StP!Se!Init
  BY SameSettingsInit DEF Init
<1>2. part = "settings" /\ [Next]_vars => [StP!Se!Next]_(StP!Se!vars) /\ (part = "settings")'
  BY SameSettingsNext DEF Next, vars, xs, DeskSteps, FeedSteps, BooksSteps, SignalsSteps,
     SettingsSteps, HistoriesSteps, TriageSteps, ListingSteps, OutboxSteps,
     StP!Se!vars, StP!Se!farmer, StP!Se!published, StP!Se!asked
<1>3. ~(part = "settings") /\ [Next]_vars => (~(part = "settings"))'
  BY DEF Next, vars, DeskSteps, FeedSteps, BooksSteps, SignalsSteps,
     SettingsSteps, HistoriesSteps, TriageSteps, ListingSteps, OutboxSteps
<1>4. StP!Se!SettingsHold => SettingsHold
  BY SameSettings DEF SettingsHold
<1>5. ~(part = "settings") => SettingsHold
  BY DEF SettingsHold
<1>6. StP!Se!Spec => []StP!Se!SettingsHold
  BY StP!RunsWithWhatWasAsked
<1> QED BY <1>1, <1>2, <1>3, <1>4, <1>5, <1>6, PTL DEF Spec, StP!Se!Spec

-----------------------------------------------------------------------------
LEMMA SameHistoriesInit == Hi!Init => StP!Hi!Init
  BY Zenon DEF Hi!Init, StP!Hi!Init, Hi!Nothing, StP!Hi!Nothing

LEMMA SameHistoriesNext == Hi!Next => StP!Hi!Next
  BY Zenon DEF Hi!Next, StP!Hi!Next, Hi!Tick, StP!Hi!Tick, Hi!Look, StP!Hi!Look, Hi!Land, StP!Hi!Land,
     Hi!Miss, StP!Hi!Miss, Hi!Cycle, StP!Hi!Cycle, Hi!Flush, StP!Hi!Flush, Hi!SaveTape,
     StP!Hi!SaveTape, Hi!Publish, StP!Hi!Publish, Hi!SaveFails, StP!Hi!SaveFails, Hi!Stop,
     StP!Hi!Stop, Hi!Start, StP!Hi!Start, Hi!Seed, StP!Hi!Seed, Hi!Fresh, StP!Hi!Fresh,
     Hi!SavedOf, StP!Hi!SavedOf, Hi!Unsaved, StP!Hi!Unsaved, Hi!TapeOf, StP!Hi!TapeOf,
     Hi!ReadFor, StP!Hi!ReadFor, Hi!NextToRead, StP!Hi!NextToRead, Hi!Unread, StP!Hi!Unread,
     Hi!Due, StP!Hi!Due, Hi!IsDue, StP!Hi!IsDue, Hi!Kept, StP!Hi!Kept, Hi!Wanted,
     StP!Hi!Wanted, Hi!Nothing, StP!Hi!Nothing, Hi!stores, StP!Hi!stores

LEMMA SameHistories == StP!Hi!ReadsAreKept => Hi!ReadsAreKept
  BY DEF Hi!ReadsAreKept, StP!Hi!ReadsAreKept

\* However reads, cycles, flushes and runs interleave: a saved tape is stored, a market left alone is read.
THEOREM ReadsSurvive == ASSUME StP!Hi!HistoriesAssumption, StP!ReadIsNotNone PROVE Spec => []ReadsAreKept
<1>1. Init /\ part = "histories" => StP!Hi!Init
  BY SameHistoriesInit DEF Init
<1>2. part = "histories" /\ [Next]_vars => [StP!Hi!Next]_(StP!Hi!vars) /\ (part = "histories")'
  BY SameHistoriesNext DEF Next, vars, xs, DeskSteps, FeedSteps, BooksSteps, SignalsSteps,
     SettingsSteps, HistoriesSteps, TriageSteps, ListingSteps, OutboxSteps,
     StP!Hi!vars, StP!Hi!stores
<1>3. ~(part = "histories") /\ [Next]_vars => (~(part = "histories"))'
  BY DEF Next, vars, DeskSteps, FeedSteps, BooksSteps, SignalsSteps,
     SettingsSteps, HistoriesSteps, TriageSteps, ListingSteps, OutboxSteps
<1>4. StP!Hi!ReadsAreKept => ReadsAreKept
  BY SameHistories DEF ReadsAreKept
<1>5. ~(part = "histories") => ReadsAreKept
  BY DEF ReadsAreKept
<1>6. StP!Hi!Spec => []StP!Hi!ReadsAreKept
  BY StP!ReadsKept
<1> QED BY <1>1, <1>2, <1>3, <1>4, <1>5, <1>6, PTL DEF Spec, StP!Hi!Spec

-----------------------------------------------------------------------------
LEMMA SameTriageInit == Tr!Init => StP!Tr!Init
  BY Zenon DEF Tr!Init, StP!Tr!Init, Tr!Gone, StP!Tr!Gone, Tr!kept, StP!Tr!kept

LEMMA SameTriageNext == Tr!Next => StP!Tr!Next
  BY Zenon DEF Tr!Next, StP!Tr!Next, Tr!Ask, StP!Tr!Ask, Tr!TopReads, StP!Tr!TopReads, Tr!TopQueues,
     StP!Tr!TopQueues, Tr!Restart, StP!Tr!Restart, Tr!Take, StP!Tr!Take, Tr!Leave,
     StP!Tr!Leave, Tr!Screen, StP!Tr!Screen, Tr!StoreTriage, StP!Tr!StoreTriage, Tr!Finish,
     StP!Tr!Finish, Tr!Enqueue, StP!Tr!Enqueue, Tr!Fresh, StP!Tr!Fresh, Tr!Among,
     StP!Tr!Among, Tr!FirstBatch, StP!Tr!FirstBatch, Tr!Left, StP!Tr!Left,
     Tr!NearImpossible, StP!Tr!NearImpossible, Tr!Decide, StP!Tr!Decide, Tr!Asked,
     StP!Tr!Asked, Tr!BriefOf, StP!Tr!BriefOf, Tr!VerifyBrief, StP!Tr!VerifyBrief,
     Tr!Outcome, StP!Tr!Outcome, Tr!Error, StP!Tr!Error, Tr!RulesUnavailable,
     StP!Tr!RulesUnavailable, Tr!FactsOf, StP!Tr!FactsOf, Tr!Told, StP!Tr!Told, Tr!Judged,
     StP!Tr!Judged, Tr!ScreenEvent, StP!Tr!ScreenEvent, Tr!Zipped, StP!Tr!Zipped,
     Tr!OutcomeOf, StP!Tr!OutcomeOf, Tr!RowOf, StP!Tr!RowOf, Tr!AfterScreen,
     StP!Tr!AfterScreen, Tr!Gone, StP!Tr!Gone, Tr!Looking, StP!Tr!Looking, Tr!kept,
     StP!Tr!kept, Tr!ToSet, StP!Tr!ToSet, Tr!IsInjective, StP!Tr!IsInjective, Tr!Min,
     StP!Tr!Min, Tr!Cardinality, StP!Tr!Cardinality

LEMMA SameTriageWaitingIsServed == StP!Tr!WaitingIsServed => Tr!WaitingIsServed
  BY DEF Tr!WaitingIsServed, StP!Tr!WaitingIsServed, Tr!Live, StP!Tr!Live, Tr!Holding,
     StP!Tr!Holding, Tr!ToSet, StP!Tr!ToSet, Tr!IsInjective, StP!Tr!IsInjective,
     Tr!Cardinality, StP!Tr!Cardinality

\* However requests, screens, failures and restarts interleave: a waiting market has a worker to come.
THEOREM ScreensAreServed == ASSUME StP!Tr!TriageAssumption PROVE Spec => []WaitingIsServed
<1>1. Init /\ part = "triage" => StP!Tr!Init
  BY SameTriageInit DEF Init
<1>2. part = "triage" /\ [Next]_vars => [StP!Tr!Next]_(StP!Tr!vars) /\ (part = "triage")'
  BY SameTriageNext DEF Next, vars, xs, DeskSteps, FeedSteps, BooksSteps, SignalsSteps,
     SettingsSteps, HistoriesSteps, TriageSteps, ListingSteps, OutboxSteps,
     StP!Tr!vars, StP!Tr!kept
<1>3. ~(part = "triage") /\ [Next]_vars => (~(part = "triage"))'
  BY DEF Next, vars, DeskSteps, FeedSteps, BooksSteps, SignalsSteps,
     SettingsSteps, HistoriesSteps, TriageSteps, ListingSteps, OutboxSteps
<1>4. StP!Tr!WaitingIsServed => WaitingIsServed
  BY SameTriageWaitingIsServed DEF WaitingIsServed
<1>5. ~(part = "triage") => WaitingIsServed
  BY DEF WaitingIsServed
<1>6. StP!Tr!Spec => []StP!Tr!WaitingIsServed
  BY StP!WaitingServed
<1> QED BY <1>1, <1>2, <1>3, <1>4, <1>5, <1>6, PTL DEF Spec, StP!Tr!Spec

LEMMA SameTriageRowsAreTheirOwn == StP!Tr!RowsAreTheirOwn => Tr!RowsAreTheirOwn
  BY DEF Tr!RowsAreTheirOwn, StP!Tr!RowsAreTheirOwn, Tr!OwnRow, StP!Tr!OwnRow, Tr!NearImpossible,
     StP!Tr!NearImpossible

\* However a batch fails for some of its markets: a row rests on what was judged of its market.
THEOREM ScreensAreOwn == ASSUME StP!Tr!TriageAssumption PROVE Spec => []RowsAreTheirOwn
<1>1. Init /\ part = "triage" => StP!Tr!Init
  BY SameTriageInit DEF Init
<1>2. part = "triage" /\ [Next]_vars => [StP!Tr!Next]_(StP!Tr!vars) /\ (part = "triage")'
  BY SameTriageNext DEF Next, vars, xs, DeskSteps, FeedSteps, BooksSteps, SignalsSteps,
     SettingsSteps, HistoriesSteps, TriageSteps, ListingSteps, OutboxSteps,
     StP!Tr!vars, StP!Tr!kept
<1>3. ~(part = "triage") /\ [Next]_vars => (~(part = "triage"))'
  BY DEF Next, vars, DeskSteps, FeedSteps, BooksSteps, SignalsSteps,
     SettingsSteps, HistoriesSteps, TriageSteps, ListingSteps, OutboxSteps
<1>4. StP!Tr!RowsAreTheirOwn => RowsAreTheirOwn
  BY SameTriageRowsAreTheirOwn DEF RowsAreTheirOwn
<1>5. ~(part = "triage") => RowsAreTheirOwn
  BY DEF RowsAreTheirOwn
<1>6. StP!Tr!Spec => []StP!Tr!RowsAreTheirOwn
  BY StP!RowsTheirOwn
<1> QED BY <1>1, <1>2, <1>3, <1>4, <1>5, <1>6, PTL DEF Spec, StP!Tr!Spec

-----------------------------------------------------------------------------
LEMMA SameListingInit == Li!Init => StP!Li!Init
  BY Zenon DEF Li!Init, StP!Li!Init

LEMMA SameListingNext == Li!Next => StP!Li!Next
  BY Zenon DEF Li!Next, StP!Li!Next, Li!Joins, StP!Li!Joins, Li!Leaves, StP!Li!Leaves, Li!PageComes,
     StP!Li!PageComes, Li!Begin, StP!Li!Begin, Li!NextBatch, StP!Li!NextBatch, Li!Stitch,
     StP!Li!Stitch, Li!RequestFails, StP!Li!RequestFails, Li!Stop, StP!Li!Stop, Li!reader,
     StP!Li!reader, Li!ById, StP!Li!ById, Li!Ordered, StP!Li!Ordered, Li!RowsAt,
     StP!Li!RowsAt, Li!NoPages, StP!Li!NoPages, Li!Offset, StP!Li!Offset, Li!Attempt,
     StP!Li!Attempt, Li!Short, StP!Li!Short, Li!Upto, StP!Li!Upto, Li!IsSortedPage,
     StP!Li!IsSortedPage, Li!Overlap, StP!Li!Overlap, Li!Fails, StP!Li!Fails, Li!RatesOf,
     StP!Li!RatesOf, Li!Cardinality, StP!Li!Cardinality, Li!Reverse, StP!Li!Reverse, Li!Min,
     StP!Li!Min, Li!ToSet, StP!Li!ToSet, Li!Last, StP!Li!Last

LEMMA SameListing == StP!Li!ListingIsWhole => Li!ListingIsWhole
  BY DEF Li!ListingIsWhole, StP!Li!ListingIsWhole

\* However markets come and go between the pages: a read misses none listed throughout it.
THEOREM ListingStands == ASSUME StP!Li!ListingAssumption PROVE Spec => []ListingIsWhole
<1>1. Init /\ part = "listing" => StP!Li!Init
  BY SameListingInit DEF Init
<1>2. part = "listing" /\ [Next]_vars => [StP!Li!Next]_(StP!Li!vars) /\ (part = "listing")'
  BY SameListingNext DEF Next, vars, xs, DeskSteps, FeedSteps, BooksSteps, SignalsSteps,
     SettingsSteps, HistoriesSteps, TriageSteps, ListingSteps, OutboxSteps,
     StP!Li!vars, StP!Li!reader
<1>3. ~(part = "listing") /\ [Next]_vars => (~(part = "listing"))'
  BY DEF Next, vars, DeskSteps, FeedSteps, BooksSteps, SignalsSteps,
     SettingsSteps, HistoriesSteps, TriageSteps, ListingSteps, OutboxSteps
<1>4. StP!Li!ListingIsWhole => ListingIsWhole
  BY SameListing DEF ListingIsWhole
<1>5. ~(part = "listing") => ListingIsWhole
  BY DEF ListingIsWhole
<1>6. StP!Li!Spec => []StP!Li!ListingIsWhole
  BY StP!NothingIsMissed
<1> QED BY <1>1, <1>2, <1>3, <1>4, <1>5, <1>6, PTL DEF Spec, StP!Li!Spec

-----------------------------------------------------------------------------
LEMMA SameOutboxInit == Ou!Init => StP!Ou!Init
  BY Zenon DEF Ou!Init, StP!Ou!Init

LEMMA SameOutboxNext == Ou!Next => StP!Ou!Next
  BY Zenon DEF Ou!Next, StP!Ou!Next, Ou!Tick, StP!Ou!Tick, Ou!Start, StP!Ou!Start, Ou!RefreshPositions,
     StP!Ou!RefreshPositions, Ou!Plan, StP!Ou!Plan, Ou!Flush, StP!Ou!Flush, Ou!Exit,
     StP!Ou!Exit, Ou!farmer, StP!Ou!farmer, Ou!published, StP!Ou!published, Ou!Highest,
     StP!Ou!Highest, Ou!FillEvents, StP!Ou!FillEvents, Ou!Before, StP!Ou!Before,
     Ou!FillMidSeen, StP!Ou!FillMidSeen, Ou!HeldFillMid, StP!Ou!HeldFillMid, Ou!ReadFills,
     StP!Ou!ReadFills, Ou!LastBought, StP!Ou!LastBought, Ou!LastFillMid, StP!Ou!LastFillMid,
     Ou!Fault, StP!Ou!Fault, Ou!FirstRead, StP!Ou!FirstRead, Ou!RecordFill,
     StP!Ou!RecordFill, Ou!LaterRead, StP!Ou!LaterRead, Ou!Publish, StP!Ou!Publish, Ou!Left,
     StP!Ou!Left, Ou!Max, StP!Ou!Max, Ou!Min, StP!Ou!Min, Ou!Reverse, StP!Ou!Reverse,
     Ou!Contains, StP!Ou!Contains, Ou!Since, StP!Ou!Since, Ou!KeptEvents, StP!Ou!KeptEvents,
     Ou!KeptMids, StP!Ou!KeptMids

LEMMA SameOutbox == StP!Ou!FillsAreKept => Ou!FillsAreKept
<1>1. StP!Ou!KeptEvents = Ou!KeptEvents /\ StP!Ou!KeptMids = Ou!KeptMids
  BY Zenon DEF Ou!KeptEvents, StP!Ou!KeptEvents, Ou!KeptMids, StP!Ou!KeptMids, Ou!Since, StP!Ou!Since,
     Ou!Max, StP!Ou!Max
<1>2. StP!Ou!LastFillMid(Ou!KeptEvents, Ou!KeptMids) = Ou!LastFillMid(Ou!KeptEvents, Ou!KeptMids)
  BY Zenon DEF Ou!LastFillMid, StP!Ou!LastFillMid, Ou!LastBought, StP!Ou!LastBought, Ou!ReadFills,
     StP!Ou!ReadFills, Ou!Highest, StP!Ou!Highest, Ou!FillMidSeen, StP!Ou!FillMidSeen, Ou!Before,
     StP!Ou!Before, Ou!Max, StP!Ou!Max, Ou!Min, StP!Ou!Min, Ou!Reverse, StP!Ou!Reverse
<1>3. StP!Ou!FillMidSurvives => Ou!FillMidSurvives
  BY <1>1, <1>2 DEF Ou!FillMidSurvives, StP!Ou!FillMidSurvives, Ou!IsLastBought, StP!Ou!IsLastBought,
     Ou!InReach, StP!Ou!InReach, Ou!Stands, StP!Ou!Stands, Ou!AtLeast, StP!Ou!AtLeast
<1>4. StP!Ou!OutboxIsKept => Ou!OutboxIsKept
  BY DEF Ou!OutboxIsKept, StP!Ou!OutboxIsKept, Ou!Rising, StP!Ou!Rising, Ou!Queued, StP!Ou!Queued
<1> QED BY <1>3, <1>4 DEF Ou!FillsAreKept, StP!Ou!FillsAreKept

\* However flushes fail and runs end: a fill, and the midpoint it was made at, outlive the farmer,
\* as long as a start neither deletes the fill for its age nor leaves it out of those it reads back.
THEOREM FillsStand == ASSUME StP!Ou!OutboxAssumption PROVE Spec => []FillsAreKept
<1>1. Init /\ part = "outbox" => StP!Ou!Init
  BY SameOutboxInit DEF Init
<1>2. part = "outbox" /\ [Next]_vars => [StP!Ou!Next]_(StP!Ou!vars) /\ (part = "outbox")'
  BY SameOutboxNext DEF Next, vars, xs, DeskSteps, FeedSteps, BooksSteps, SignalsSteps,
     SettingsSteps, HistoriesSteps, TriageSteps, ListingSteps, OutboxSteps,
     StP!Ou!vars, StP!Ou!farmer, StP!Ou!published
<1>3. ~(part = "outbox") /\ [Next]_vars => (~(part = "outbox"))'
  BY DEF Next, vars, DeskSteps, FeedSteps, BooksSteps, SignalsSteps,
     SettingsSteps, HistoriesSteps, TriageSteps, ListingSteps, OutboxSteps
<1>4. StP!Ou!FillsAreKept => FillsAreKept
  BY SameOutbox DEF FillsAreKept
<1>5. ~(part = "outbox") => FillsAreKept
  BY DEF FillsAreKept
<1>6. StP!Ou!Spec => []StP!Ou!FillsAreKept
  BY StP!FillsSurvive
<1> QED BY <1>1, <1>2, <1>3, <1>4, <1>5, <1>6, PTL DEF Spec, StP!Ou!Spec

==============================================================================
