# Verification of polymarket-tools in TLA+

This directory holds TLA+ models of polymarket-tools, the TLC runs that check
them on small instances, and proofs that TLAPS checks for every instance. Paths
below are those of the repository (`src/tools/sniper.py` and so on).

| file | what it is |
|---|---|
| `Sniper.tla` | the sniper: lanes, fires, rows, worker runs, exchange |
| `WatchPromise.tla` | what the sniper promises the operator, as a state machine |
| `Restore.tla` | job queue, job thread, snapshot, preview, restore |
| `Farmer.tla` | the reward farmer's runs, cycle, markets, orders, baseline and commands |
| `Quoting.tla`, `Targets.tla`, `MarketCycle.tla` | the farmer's pricing: the rules, the target of a cycle and the keep rules, one market cycle after cycle |
| `FillCost.tla`, `Tape.tla` | how often a bid fills; the read of a market's trades that says so |
| `Exits.tla` | what an exit is worth |
| `Listing.tla` | the listing of rewarded markets, read while it changes |
| `Histories.tla`, `Outbox.tla`, `Settings.tla`, `Books.tla` | the farmer's reader thread, what it publishes, its settings, its book recorder |
| `Desk.tla`, `Triage.tla`, `Signals.tla` | the market queue and who decides, Claude's screens, what a page shows |
| `Feed.tla` | the websocket feed of the sniper |
| `Backtests.tla` | what a replay may know |
| `Parts.tla` | the nine parts with proofs, over one set of variables |
| `SniperProofs.tla`, `RestoreProofs.tla`, `FarmerProofs.tla`, `DeskProofs.tla`, `SignalsProofs.tla`, `FeedProofs.tla` | theorems about the module of the name |
| `StoresProofs.tla` | theorems about `Books`, `Settings`, `Histories`, `Triage`, `Listing` and `Outbox` |
| `PartsProofs.tla` | the properties of the run of the parts, for every value of their constants |
| `MCSniper.tla`, `MCRestore.tla`, `MCFarmer.tla`, `MCMarket.tla`, `MCParts.tla` | constants of the TLC runs; `MCParts` also adds the parts without proofs to `Parts` |
| `*.cfg` | one for each run of `PROJECT.json` |

Operators whose comment begins with `Fault:` are deliberate mistakes. No
specification uses them: `PROJECT.json` lists, for each property, the definition
a fault replaces and the property that then fails.

## 1. Inventory of the system

Four long-lived processes share no memory. They meet in SQLite files.

    console (no key) --- tools.db --- worker (key)  --- Polymarket
       |                                                  |
       +---------------- farm.db ---- farmer (key) -------+
                            |
                         screener          farm_books.db <- farmer only

| component | state it keeps | operations | interacts with | what is hard | what makes it correct |
|---|---|---|---|---|---|
| **Sniper** `tools/sniper.py` | `watches` rows; in memory `_adopted`, `_armed`, the claims, the fires, three queues | adopt, see a tick, claim, post, retry, settle, disarm, stop, restart | the console by rows, the exchange by posts, the feed and a poll for ticks | four threads with one lock between them; posts that time out; a crash between a post and its row | one order for a watch; an end in the row is true; a disarm and a tick are answered; it stops |
| **Worker** `tools/worker.py` | `worker_status`, a heartbeat, one job thread | start, beat, claim a job, stop, hand over | sniper, job thread, tools.db | a run that stalls and is replaced; a job thread outliving its run | one job runs at a time; a dead run's job does not block; a closed job stays closed |
| **Snapshot and restore** `tools/snapshot.py`, `tools/restore.py` | snapshots, restore lines | snapshot, preview, plan, place line by line | exchange, farm.db (whose market it is) | posts with no answer; a stop or a crash half way; identical orders | a restore can be repeated; each line is true; each restore was previewed |
| **Farmer** `farm/reward_farmer.py` | `markets` (in memory), orders at the exchange, `baseline_*` columns | start, read controls, read positions, plan, cancel, post, retire, stop | console by rows and commands, exchange, data API, Gamma | positions, orders and rows read at different moments; any call may fail; stops at any point | no slot holds two orders; a stop takes orders down; own shares stay unsold; controls take effect |
| **Pricing** parts of `reward_farmer.py` and `reward_screener.py` | a market's phase, midpoints seen, resting orders | quote, target, keep, plan a scan | the cycle | a kept order beside a new one; a shortcut in a search; two copies of one rule | our orders do not match each other; the shortcut loses nothing; the scan plans what the farmer rests |
| **Order pricing** `farm/fill_cost.py`, `farm/exit_value.py` | a market's history and tape; lazily filled curves | read, count, fit, value | farmer, screener | rows that move between pages; caches filled part way | counts are the true trades; a value is the best ask's |
| **farm.db** `farm/farm_db.py` | markets, commands, settings, events, mids, triage, scans | one transaction each | all four processes | level-triggered flags against queued commands; two writers of one status | a human's decision stands; a command is obeyed by the run it was sent to |
| **Readers in the farmer** (`MarketInfos`, `Histories`, `TotalRates`) | last read of each wanted market | refresh, replace | the cycle reads without a lock | `wanted` and `read` swapped by different threads | what is taken for saved is saved; nothing left alone is stale |
| **Book recorder** `farm/farm_books.py` | a bounded queue and a writer thread | put, drain, join | farmer | a full queue; a failed batch; a stop while draining | what is accepted is written or warned about |
| **Market feed** `polymarket/feed.py` | a socket and a token set | subscribe, update, reconnect | sniper | the set changes at any point of the connection | what is served is what is wanted |
| **Triage runner** `console/triage_runner.py`, `farm/triage.py` | a FIFO, a running set, two workers | enqueue, take a batch, finish | console requests, farm.db | lists read at different moments; a worker ending as one is queued | no market is screened twice at once; a queued one is screened; a row rests on its own screen |
| **Screener** `farm/reward_screener.py` | candidates and the prior in farm.db | list, screen, store | farm.db, Gamma, CLOB | two scans at once beside decisions; a listing that moves | a decision is never undone by a scan |
| **Scan runner, event stream** `console/scan.py`, `console/pages/stream.py` | one scan at a time; last counters sent | start, report; poll, send | console requests, farm.db | a start racing an end; a change between two reads | one scan runs; a page hears of each change |
| **Settings** `farm_db.py`, `console/pages/settings.py` | rows over the farmer's options | save, reset, apply, publish | console, farmer | two tabs; a restart or failing cycle between a save and its use | each cycle runs with what was last asked |
| **Analysis** `analysis/*_backtest.py` | folds, priors, caches | replay | stored books, tapes | knowing the future by a cache or an order of calls | a forecast rests on what was known by then |
| **Console pages, shell** | none but caches | arm, disarm, place, approve, pause, stop... | tools.db, farm.db | two tabs, stale pages | decisions are guarded in the statement |
| **Keys** `polymarket/keys.py` | none after start | read from environment, vault or standard input | worker and farmer start-up | a vault that stays unlocked on failure | the vault is locked again |
| **Infrastructure, entry point, picker** | files | one pass each | outside programs | none of their own | |

`PROJECT.json` repeats this list with what is modelled of each, and holds every
hazard found while reading, at its line, with the property that covers it or the
reason none does.

## 2. The models and the code

### Sniper

`Sniper` is `tools/sniper.py` with the statements of `tools/db.py` it runs.

| code | model |
|---|---|
| `watches.state`, `.reason`, `.disarm_requested_at` | `state`, `reason`, `asked` |
| `worker_status`, the main loop of `worker.py` around the sniper | `status`, `ctl`, `stop` |
| `Sniper._adopted`, `_armed`, the claim locks, `abort` flags | `adopted`, `routed`, `claimed`, `abort` |
| `_control_inbox`; `_slow_adoptions`; `_slow_retries` and `_slow_fires` | `inbox`; `joins`; `fire` at `waiting`, `due` |
| a `Fire` and where its post is; `Fire.attempts` | `fire`, `attempts` |
| what feed, poll and slow do now | `lane` |
| rows read by one reconcile and used later | `view` |
| ticks, posts under way, accepted orders | `ticked`, `sent`, `orders` |

Every worker run is its own element of `Proc`, so a restart, a takeover after
missed beats, and an old run that lives on need no special case. The control
lane is the only one that runs a statement, and it is cut wherever another lane
can act: a reconcile first reads the rows (`view`), then treats one watch at a
time. A disarm is cut between its two transactions: the row is closed, then
the line is logged and the watch forgotten (`sniper.py:706-709`, `:727-729`), so a
line that raises leaves a closed row held. The lines of an event that is drained
may raise as well. A post is three steps: sent, decided by the exchange, answered. The
answer may be lost (a timeout) before or after the decision. Time is abstract:
`RETRY_WINDOW_S` and `RETRY_DELAY_S` become "at most `MaxAttempts` posts, each
due at some moment after the last".

`WatchPromise` is the table of ends in `docs/sniper.md` as a state machine over
the row, the posts in doubt, and the orders placed; a run that starts over a row
that still says firing interrupts the watch. `Sniper!KeepsPromise` is the
refinement: rows by their reason, orders summed over runs.

### Restore

`Restore` covers the jobs of `tools.db`, the job thread of each worker run, the
console routes that queue jobs, and the account's orders. An order is named by
where it came from (an original one, or line n of job j), which lets a property
say which post an order is. The plan of `restore.plan`, a walk with a `Counter`,
is written in closed form over the positions. A post is sent, decided and
answered apart, as in `Sniper`. The model lists open orders only once every
earlier post is decided: a post the exchange accepts after a later listing is
outside it, and the code cannot tell such an order from a cancelled one.

### Farmer and its prices

There are two views. `Farmer` is one thread whose cycle is a chain of `pc`
values, one for each stretch the console, the exchange or a signal can come
between:

    read -> commands -> positions -> plan -> cancel -> post -> settle -> read

| code | model |
|---|---|
| `markets.status`, `.paused`, `.baseline_*`; unconsumed `commands` | `row`; `commands` |
| open orders, wallet | `book`, `wallet` |
| `Farmer.markets` (`Managed`) | `mem`: phase, approved, paused, baseline, position, naked cooldown |
| `stop_reason`, `keep_orders` | `stop` |
| the commands read, the plans of a cycle | `batch`, `plan` |

`commands` and `batch` are sets of rows; `IsNext` says which of a batch is
obeyed, the oldest, as `pending_commands` orders them.

`StepState` is `step_state` as an ordered table of rules. What an observation
holds is a free choice of what the rules tell apart. What a plan rests is a
choice too: any subset of the slots the phase allows, bids of any size the
capital and the naked budget allow, asks of all the farm holds. A refused post
is as one the target left out. The read of positions fails where the code can
raise: at a save of the baseline, and at the midpoints read for a fill, when the
position is set and the cooldown a longshot fill would start is not. A market
whose Gamma record is missing is passed over by a reload, its pause as it was.

`MarketCycle` is the other view: one market, cycle after cycle, with the plans
computed. `Quoting` has the pricing rules in whole ticks and shares (a score is
the code's times `Band^2`), `Targets` the search for the favorite bid, the sole
bid, the rules that keep a resting order, and the scan's own copy of the
planning. Prices, sizes and midpoints are exact; the expected fills at a
distance and the chance that an ask sells are tables. The others' book, our
fills, the signals (paused, unrewarded, to retire) and the time to the end date
move between cycles.

Assumed of the outside by both: a listing that succeeds shows every resting
order, and a positions page that comes is complete and current when read. The
dry run, `--once` and the heartbeat are not modelled.

### The components of `MCParts`

Each is a module of its own and shares no state with another. `Parts`
instantiates `Desk`, `Feed`, `Books`, `Signals`, `Settings`, `Histories`,
`Triage`, `Listing` and `Outbox` over one set of variables, `part` saying which
one runs; a behaviour picks one and stays with it. `MCParts` extends it, with
`Tape`, `Exits` and `Backtests` as further parts over the same variables.

| module | code | what moves around it |
|---|---|---|
| `Tape` on `FillCost` | `fetch_read`, `fetch_trades`, the history and the buy tape made of a read, their stored forms, the prior's fit, the fill curve | trades come between any two pages and move the rows; the row cap cuts the listing |
| `Exits` | `ExitModel`: tape weights, curves filled downwards as far as asked, `fill_value`, `choose` | calls in any order |
| `Listing` | `fetch_rewards_listing`, its page threads and attempts, `TotalRates` | markets join and leave between pages, pages come in any order, requests fail |
| `Histories` | `Histories.refresh`, `save_tapes`, `seed_histories` | the loop changes what is wanted, reads fail, a flush and a restart come anywhere |
| `Outbox` | `emit`, `flush`, `refresh_positions`, `last_fill_mid`, `publish`, and at a start `prune_events`, `prune_mids` | fills, midpoints, failed flushes, restarts that delete what is old before they read back |
| `Desk` | scans, the screen's store, approve, reject, unreject, retire, mute, the live check of any market by its address, the farmer's retirement | console and command-line scans overlap; a request or a scan ends half done |
| `Triage` | `TriageRunner`, the batch of an event, brief, judges, `combine`, the rows stored | requests between the workers' looks; the database, the rules and Claude raise; restarts |
| `Feed` | `MarketFeed`: connect, subscribe, receive, reconnect, stop | the set changes anywhere; the wire delays both ways and fails; ticks change |
| `Books` | `BookRecorder`: put, drain, open, prune, write, stop, join | a full queue, a disk that fails, days that pass, runs that end first |
| `Backtests` on `FillCost` | `cases`, `Replay`, priors, folds and bursts of the three backtests | any world of a small set, any order of cases |
| `Settings` | saved groups, resets, `apply_settings`, `publish` | two tabs, restarts with other options, failing cycles, text that does not parse |
| `Signals` | `routes.signals`, `Context.snapshot`, the regions of a page, each statement of a poll or a request a step of its own | commits between any two statements, rows that lapse by the clock, requests that share a snapshot, lost connections, regions that reload unasked (their timers) |

External, modelled from how `src/` uses it: the exchange's order book and
account, the data API, Gamma, the websocket and the server behind it, Claude,
the browser, the operating system. `PROJECT.json` marks those definitions.

## 3. The runs

Worker or farmer runs are two: each property speaks of one run, or of what one
leaves for the next. Counters (`MaxAttempts`, `MaxJobs`, `MaxCommands`,
`MaxOrders`, `MaxShares`, `MaxEvents` and the like) are as small as let the case
the property is about happen, which its mutant in `PROJECT.json` shows. `May`
switches faults on, so that each run combines those its question needs.

| run | states | what it shows |
|---|---|---|
| `sniper_restart` | 29,000 | one guarded watch, feed and poll, two runs with stops, crashes and failed statements, three attempts: no retry after anything but a refusal (`RetryOnlyAfterRefusals`), one order over all runs (`FiresOnce`), a closed row is over (`ClosedIsOver`): the ends documented as certain are, and a fire under way is of an open row its run holds |
| `sniper_takeover` | 935,000 | a run that missed its beats is replaced and lives on: each run places one order at most (`OneOrderPerLife`), what it wrote is true of its own posts (`OutcomeIsTrue`), a closed row never changes (`ClosedIsFinal`). One hot lane and one attempt: what moves here are the two runs and the late answers. The race of feed and poll is in `sniper_restart` and `sniper_promise`, and in the theorem `OneOrder` |
| `sniper_promise` | 146,000 | a live and a dry watch on one token, a run with a key and one without, clean stops: the lanes implement `WatchPromise` (`KeepsPromise`); the gap between post and row is covered by an event in the inbox and only held watches are routed (`MemoryFitsTheRows`). No crash and no failed statement here: what those do to the gap is `sniper_restart`'s question |
| `sniper_live` | 34,000 | with fairness: a disarm is answered, a tick is answered, a stop ends the run |
| `sniper_cut_gap` | violation | `CloseCutsOpenFires` |
| `restore_again` | 1,792,000 | two identical orders, four jobs, crashes: restores and previews in any order never leave more copies than there were (`NeverDoubled`); every restore follows its own preview and no running job lacks its thread (`QueueIsSound`) |
| `restore_faults` | 828,000 | failed statements, stops, partial fills, expiry, farmed markets, a replaced run: each line is true and at most one post lacks one (`LinesAreTrue`), a closed job stays closed (`EndedIsFinal`) |
| `farm_cycle` | 211,000 | a longshot, two runs, interrupts, deaths, failed cancels, listings and reads: types and no two orders in one slot (`BookIsSound`), a stopped run leaves none of its own (`ClearedWhenStopped`), the baseline never takes in what the farm bought (`BaselineIsOwn`) |
| `farm_controls` | 123,000 | a favorite, two runs, one command, failed statements and deaths, with fairness: a command acts on its own run and once (`CommandsAreTheirOwn`), a stop ends the run (`StopIsObeyed`), a pause takes the bids down and a retirement every order (`TakenDown`) |
| `farm_oversell` | violation | `NeverSellsOwn` |
| `market` | 11,400 | five books (deep, thin, low, one-sided, high) over prices 88 to 99, two starts, two moves: our orders never match each other (`NeverMeetsItself`), the search's shortcut loses nothing (`LadderMissesNothing`), the scan plans what the farmer rests and a sole bid makes its own midpoint (`ScanAgrees`), a free longshot bid was free all through the dwell (`FreeForTheDwell`), a still market leaves the orders alone (`Settles`) |
| `parts` | 3,245,000 | each component of `MCParts`, in the order of its table: `ReadIsTrue`, `EvidenceHolds`; `ExitIsBest`; `ListingIsWhole`; `ReadsAreKept`; `FillsAreKept`; `DecisionsAreLogged`; `WaitingIsServed`, `RowsAreTheirOwn`; `FeedIsFaithful`; `WrittenOrWarned`; `ReplaysAreBlind`; `SettingsHold`; `SignalledIsShown` |

Why the bounds are enough. One watch suffices for properties of one watch, since
watches interact only through the token (two watches on one token in
`sniper_promise` and `sniper_live`) and through the inbox. Two hot lanes are all
there are. One order position and its copies are all a restore compares
(`restore_again` has two). A market's cycle is independent of the others but for
the failure of shared calls, so `Farmer` runs with one market. One share makes a
token's holdings zero or not, and the baseline zero; the oversell run has two.
`market`'s books hold each place a midpoint can be (above, inside, near and
below the range, none), depth on both sides of the free test, and both ends of
the price range; its two moves let a book change between a target and the next.
The parts have two markets or tokens where one disturbs another (three in
`Triage`, where an event has two), two of every thread there are two of, faults
and changes up to two or three, and pages, queues and wires that two entries
overfill. The outbox reads two fills back, keeps fills for three cycles of its seven
and samples for two, so that each of the three limits of the code (100 fills, 30
days, 7 days) cuts a fill off in some behaviour; a restart may come at any point.

Deadlock is not checked: each bound (runs, jobs, commands) lets the system come
to rest, and so does the code when it is told to stop.

### Fairness

`Sniper!FairSpec`: the threads of a run are scheduled (weak fairness of the
control lane, of each hot lane, and of the slow lane), which the operating
system gives them. Strong fairness is used where a step is repeatedly possible
though not continuously: leaving the loop (the main thread looks at its stop
between ticks), an adoption starting (it waits while fires are due, and these
are bounded), and a book read or prepared send that is retried every tick. A
request that never ends, or a book that can never be read, is thus excluded: the
code has a timeout for the one and no answer to the other.

`Farmer!FairSpec`: the main thread goes on (weak fairness), and a statement or a
cancel it retries each cycle works in the end (strong fairness). Nothing is
assumed of the operator, of fills, or of reads that fail: `farm_controls` leaves
those out, because a farmer that can never read its orders can plan nothing.
Leaving `plan` is fair as a change of `pc`, which says the same as fairness of
the planning action without enumerating its plans for each transition.

## 4. Proofs

Eight modules hold theorems, for every value of the constants their assumptions
allow. The constants' assumptions are the modules' own, which TLC evaluates in
every run of a module that extends theirs. A theorem that rests on one that no
run's module extends, or on more, says so in its statement:

| hypothesis | of | why |
|---|---|---|
| `FeedAssumption`, `BooksAssumption`, `SignalsAssumption`, `SettingsAssumption`, `HistoriesAssumption`, `TriageAssumption`, `ListingAssumption`, `OutboxAssumption` | the theorems of that module and of its part | the module's own, evaluated by `parts`: the tokens are finitely many and a market has two, the queue holds a batch, the keys are finitely many, the ranking names no market twice, there is a worker, and the like |
| `ReadIsNotNone` | `ReadsKept`, `ReadsSurvive` | the value `None` is not also a read |
| `NoneIsNone` | the theorems of `DeskProofs` and `FarmerProofs` | the value `None` is not also a row, a decision or a market's runtime; TLC cannot evaluate that of a model value |
| `"stall" \notin May` | `OneOrderOverRuns`, `EndsAreCertain`, `HoldsWhatItFires`, `ClosedStaysOver` | a run replaced for missed beats is not fenced (`db.py:326`): it fires as well, so what is said of all runs together is false with it; what is said of each run (`OneOrder`, `OutcomesTrue`) is proved with it |
| `May \subseteq {"stop"}` | `MemoryFits`, `PromiseKept` | a crash between a post and its row, or a statement that raises, leaves the row behind what was posted; these are the documented cases of an `interrupted` or `disarmed` row |
| `NoStall` | `SafeToRunAgain` | a run that stalls goes on placing while its replacement places the same snapshot: with `May = {"stall"}`, two orders, five jobs and two runs TLC finds four orders where there were two |
| `Orderly` | `QueueSound` | `NoStall`, and no `finish_job` that raises (`worker.py:115`) |
| `"db" \notin May` | `AsideIsOwn` | a first baseline whose save raises is never saved (`reward_farmer.py:2348`) |

| theorem | what holds | rests on |
|---|---|---|
| `SniperProofs!TypeCorrect`, `Invariance` | `[]TypeOK`; `attempts` never passes the window | `IInv` |
| `SniperProofs!OneOrder` | no run places two orders for a watch | `IInv` |
| `SniperProofs!RetrySafe` | a fire that may still post has no undecided and no accepted post | `IInv` |
| `SniperProofs!ClosedFinal` | a closed row never changes | each statement's guard, over what a lane may still hold |
| `SniperProofs!OutcomesTrue` | an end in the log or in a row is what the exchange made of the posts | `OutInv` |
| `SniperProofs!OneOrderOverRuns` | a watch has one order at most, over all runs | `FireInv` |
| `SniperProofs!EndsAreCertain` | an end documented as certain is, and no post can still change it | `EndsInv` |
| `SniperProofs!HoldsWhatItFires` | a run routes only watches it holds, one of a token; what it fires it holds, and its row is open; a closed row is held only where a disarm won the claim and its line was not logged, and nothing of it is ever fired | `HoldInv` |
| `SniperProofs!ClosedStaysOver` | both of these: a closed row is over | the two theorems |
| `SniperProofs!MemoryFits` | a post whose row says armed has its event in the inbox | `KeepInv` |
| `SniperProofs!PromiseKept` | `Spec` implements `WatchPromise` | `KeepInv`; a step of the lanes is a step of the promise or none |
| `RestoreProofs!NoRestoreUnread` | every restore follows a finished preview of its snapshot, whatever fails | `QInv` |
| `RestoreProofs!EndedFinal` | a job that ended stays as it ended | the guard of `Finish` and of the next start |
| `RestoreProofs!LinesTrue` | whatever fails: a restore's lines say what became of its orders, at most the one in hand has none | `LInv` |
| `RestoreProofs!SafeToRunAgain` | no sequence of restores leaves more copies of an order than there were | `DInv` |
| `RestoreProofs!QueueSound` | without statements that raise and workers that stall, a running job has its live thread | `RInv` |
| `FarmerProofs!OrdersAreTended` | whatever fails: one order to a slot unless a cancel failed; a run that ended by cancelling leaves none of its own but those | `OrdersInv` |
| `FarmerProofs!TheBookIsSound` | the state is of its type in every step, and `OneOrderToASlot` | `Sound`, `TypeInv` |
| `FarmerProofs!CommandsActOnce` | a command acts on the run it was sent to, and no cooldown is ended twice by one | `CommandsInv` |
| `FarmerProofs!AsideIsOwn` | while no statement raises, the baseline holds only the wallet's own | `Sound`, `AsideKept` |
| `DeskProofs!StatusesAreLogged` | a status is what the newest decision says | `DInv` |
| `SignalsProofs!SignalsAreShown` | what was signalled is shown or on its way | `SInv` |
| `FeedProofs!FeedKeepsFaith` | the server will serve what the feed filters by; a price comes in the tick last heard | `FInv` |
| `StoresProofs!SamplesAreKept` | no sample of a farmer that shuts down is dropped in silence, rows come in the order of their samples | `BInv` |
| `StoresProofs!RunsWithWhatWasAsked` | each cycle runs with what was last asked of each key, and its events tell every change | `SetInv` |
| `StoresProofs!ReadsKept` | a tape taken for saved is stored or a later one is; a market left alone has a young read | `HisInv` |
| `StoresProofs!WaitingServed` | while a market waits a worker lives; none waits twice or is screened twice at once | `TriInv` |
| `StoresProofs!RowsTheirOwn` | a row rests on the judge runs and the facts of its market | `TriInv` |
| `StoresProofs!NothingIsMissed` | a read that is taken has every market listed throughout its attempt, and none that never was | `LisInv` |
| `StoresProofs!FillsSurvive` | a fill is published once and in order; a start that still reads the last favorite fill back finds a fill mid no lower than the one an ended run had, were nothing queued and the fill recorded by that run or its midpoints still kept; for every limit and every age at which fills and midpoints are deleted | `OutInv` of `Outbox` |
| `PartsProofs!DecisionsStand`, `FeedIsTrusted`, `NoSampleSilent`, `RegionsAreCurrent`, `SettingsStand`, `ReadsSurvive`, `ScreensAreServed`, `ScreensAreOwn`, `ListingStands`, `FillsStand` | the ten properties of `parts` of that subject, of the composition | the theorem of the part, and that a part's steps are its module's |

The inductive invariants, and why each is needed:

- `IInv` is `TypeOK`, `Custody` and `OneLaneFires`. That a run posts once rests
  on what it knows (the stage of the fire) agreeing with what it sent
  (`Custody`): an accepted post counts one order, only a claimed watch has a
  fire, a fire that may post has nothing on the way, a fire in an attempt has
  room in its window. `Custody` is kept only because no two lanes work on one
  fire at once: the claim gives it to one hot lane, and the queues hand it to
  the slow lane one at a time.
- `OutInv` adds who holds a watch (`Held`), and that every event on its way
  (`EventsTrue`) and every end written (`EndsTrue`) agrees with the posts. An
  end is written from an event, an event from the answer a lane saw, and in
  between another lane, a stop or a replacement may act, so all three are needed.
- `FireInv` adds what one run leaves another: the run that lives owns the
  worker's row (`OneAlive`), what is not up holds nothing (`Empty`), nothing is
  fired before its tick (`AfterTheTick`), and what one run has sent for a watch no
  other has sent or may send (`Spent`). The last is why `FiresOnce` holds over a
  crash between a post and its row: the row may say `armed`, but a run that reads
  the book after the tick routes no watch of it. `EndsInv` adds that the run which
  tells, or wrote, a certain end is the only one that sent (`EventsSole`,
  `EndsSole`), and `HoldInv` that a reconcile acts on rows that are still what it
  read (`ViewHolds`) and that
  a lane looks at and fires only what its run holds (`FiresItsOwn`). A row closed by
  a disarm whose line is not logged yet is claimed, so no lane can start on it.
- `KeepInv` says where the news of a post is. What a row does not say yet is in
  the inbox of its run (`News`); a run that closes has read its inbox and a run
  that is gone wrote its ends (`Settled`); an outcome has its cause, a disarm or a
  dry watch (`Causes`). With it each step of the lanes is one step of
  `WatchPromise` or none, action by action.
- `QInv` ties a restore in the queue to a finished preview before it, and the
  snapshots to the jobs that made them. `RInv` adds that one run of the worker
  lives at a time, that its thread lives with it, and that a job says running
  only while a thread has it. Without `Orderly` the last does not hold of the
  code: a finish that raises leaves the row running (`worker.py:115`).
- `LInv` ties a job's thread to the posts of its line: every post is of a restore
  and of an order that has a line or is the next to have one (`PostsAreOfLines`),
  a line says what became of its post (`LinesTell`), and a thread is at most one
  order ahead of its lines (`ThreadsAtWork`), so one post at most lacks a line.
- `DInv` counts. For each token, side and price: no snapshot has more untouched
  orders than the account had (`SnapshotsFew`), no more rest or may come to rest
  (`FullFew`), and what a restore has yet to post fits beside those (`PendingFew`).
  A plan posts the entries of a snapshot beyond as many as still rest, which a
  ranking of the entries turns into a count (`BeyondTheFirst`, `PlanFew`), and a
  snapshot lists no more than rest (`TakeFew`). It needs that threads send only
  what their plan says is missing, and one worker at a time.
- `TypeInv` is `TypeOK` of the farmer, which holds because a run that is up has
  started, so that what it places carries its number. `CommandsInv`: what a run
  reads was sent to it (`OfThisRun`), an id is one command's (`OneById`), and an
  `end_cooldown` that ended one and was not stamped is read again and stamped
  before a cycle can begin another cooldown (`EndedAreOver`).
- `OrdersInv`: a plan goes only where nothing rests but what it cancels first
  (`PlacesAreFree`), the orders a run placed are of markets it still manages,
  and a retired market's are cancelled or missed (`OwnAreFarmed`). The second is
  why a shutdown that walks over `Farmer.markets` finds them all.
- `AsideKept`: memory and row agree on the baseline; until there is one the
  wallet holds no more than its own, because nothing is placed in a market
  without one. A save that raises breaks the first, and with it the theorem.
- `DInv` of the desk: nothing is decided ahead of the row it is decided on, also
  by the second half of a request. `SInv`: each cache is as fresh as the version
  it was read at, and for every change signalled and not yet shown there is a
  signal on the wire or a request that will serve it. The stream asks for its
  clock after its rows; were it asked before, a change between the two would be
  signalled by no poll.
- `FInv` of the feed names, for each token the consumer never dropped, the tick it
  will have heard after each frame on the wire (`LeadAt`): the prices of a frame
  are in it, in the frame in hand they come after it, and after the last frame it
  is the token's tick, once the server serves it. A token heard of in an earlier
  connection is unserved only until the first operation of this one is taken.
  `Named` is why an update of such a token is never filtered out before its price
  is: whatever names it on either wire, the feed filters by it. That
  `Operations` undoes what is on the wire is `Brings`, from `LastDecides`.
- `BInv` of the recorder says where every sample is: with the farmer, in a batch
  of the queue, in the hand of the thread, in a row, warned of, or gone with a run
  that ended first (`Counted`). On the way they keep their order (`OnTheirWay`),
  and a thread has ended only after the stop, with nothing left, while the stop
  comes after the farmer's last put (`Ending`); this is what a join waits for.
- `SetInv`: a key's row is what was last asked of it, but for a save that found its
  value in effect (`RowsAsAsked`), and a run that is down has no event queued. The
  events stored and queued together lead from the options a run started with to
  what its cycle runs with, which a failed flush or cycle leaves as it is: it is
  why the promise counts what is queued too.
- `HisInv`: a market's saved tape is no newer than the one a flush holds, and that
  no newer than the one last read (`TapesGrow`); what is saved, and what a flush has
  passed, the database covers (`Covered`); a market not due for longer than a retry
  was read for what it is due for (`ReadForDue`). A run that is down has nothing
  under way, so that the order holds again once it has seeded from the database.
- `TriInv` is `WaitingIsServed` itself, which is inductive, with the types it needs
  (`Shapes`), and for the rows that what a worker has yet to store are the rows of
  the last of its markets, in their order (`OutcomesAreOwn`). What is left of a
  list is stated by ranks (`Among`: the nth is the one with n up to it), since
  `SelectSeq` is a recursion; `Ranks` and `AmongIs` say it keeps the order, drops
  nothing and repeats nothing. `WaitingIsServed` would not be inductive without
  its count of the live: a request starts as many workers as the count leaves
  room for, so a count above the living ones would leave a market waiting.
- `LisInv` says of each page, at whatever moment it came, what it lacks of the
  markets listed throughout the attempt (`always`): none within its ends, and
  none after its first row where it is short (`HoldsItsStretch`); of the first
  page, none before its last (`HoldsTheStart`). These survive every market that
  joins or leaves, since `always` only shrinks. Pages that overlap then leave no
  gap, which `StitchedIsWhole` shows of a market by the last page that begins no
  later than it. A listing not served by id shows in a page of two rows or more,
  which falls (`IsSortedPage`), or is one page. `ById` is by ranks (`Ranks`), for
  the same reason as above.
- `OutInv` of the outbox: the log and the queue together rise (`Counted`), so a
  fill is known by its number; and a fill mid the farmer holds was weighed in the
  last favorite bid on them (`Weighed`): the event says no less, or the fill is of
  an earlier run, what is stored before it says no less, and no sample still
  queued is old enough to change that. The second case is why a start that took
  its fill mid from the record keeps it, without an event to say so; it lasts only
  while those samples are kept, which is what `Stands` says in the property.

Steps that leave an invariant's variables alone are dismissed by frame lemmas
(`CustodyKept`, `LanesKept`, `QuietIsSound`, `AsideFrame`, ...); the others have
one case for each action.

A part's theorem is carried to `Parts` by an instance of its proof module with
the part's variables: a step of the composition is a step of the part or none
(`SameDeskNext` and the like unfold the two copies of each definition).

Only model-checked: everything of `market`, whose search for a bid folds over
prices and sizes, and the parts `Tape`, `Exits` and `Backtests`: what they
promise rests on folds, `FlattenSeq` or sorted sequences, which are recursions
over data. `ClearedWhenStopped`, `BaselineIsOwn`,
`CommandsAreTheirOwn` and `OneOrderToASlot` are proved; the farmer's
`StopIsObeyed` and `TakenDown` and the sniper's three liveness properties are
not: liveness under fairness (`ENABLED`) is out of the prover's reach, as is what
a fold or a recursion computes for every input.

## 5. Where the code and its documents differ

Shown by a run:

- `sniper_cut_gap`. A clean stop within 0.25 s of a refusal leaves the fire
  uncut, because `close` calls `work_once`, which skips a fire that is not due.
  The row stays `firing` and the next start says an order may rest.
- `farm_oversell`. Positions are read every 60 s and orders every cycle. An ask
  that fills between two reads is rested again for shares that are gone, and is
  cut only to all the wallet holds, so shares from before the farm can be sold.

Met while modelling, without a run of their own. In the sniper and the jobs:

- A run replaced for missed beats is not fenced (`db.py:326`): it may fire before
  its next beat tells it to stop, and its replacement fires too. `FiresOnce`
  is therefore checked without stalls, and `OneOrderPerLife` with them.
- A worker that dies after a post and before the row says `firing` leaves an
  `armed` row; if a disarm is asked, the next worker writes `disarmed` while the
  order rests (`sniper.py:704`), where `docs/sniper.md` has "`disarmed` means no
  order".
- A disarm whose log line raises leaves its row closed and the watch held, claimed
  and routed (`sniper.py:708`, `:727`) until the worker, which the exception ends,
  is gone; nothing fires it.
- A `finish_job` that raises leaves the row running until the next start.

In the farmer:

- A first baseline whose save raises is never saved (`reward_farmer.py:2348`).
- The failed cancels of a retiring market are not tried again, as it is no longer
  planned (`:2095`); a market with no book or no position obeys neither a pause
  nor a retirement until it has both (`:2506`).
- A market rejected and approved again within one cycle can be retired by the
  cycle that read the rejection (`farm_db.py:882`).
- The naked cooldown is in memory only. A short or empty positions page ratchets
  the baseline down. A bid placed again after a fill not yet seen may pass the
  capital. A second SIGTERM cuts the shutdown's cancels short.
- `quotes_at` takes its midpoint from the quoted book without the longshot bid.
- `pre_fill_mid`'s cutoff can fall after the read before; a crash between the
  read of a fill and the flush loses the fill's event.
- The fill mid of shares held at a restart can be lost, so their exit is priced
  without it: a start deletes fills older than 30 days and midpoints older than 7
  before it reads back (`reward_farmer.py:2141`, `farm_db.py:1032-1045`), and reads
  the newest 100 fills (`:2384`), among which asks may leave no favorite bid. Of a
  fill that an earlier run recorded too low, only midpoints still kept tell more.
  `FillMidSurvives` says what stays true by `InReach` and `Stands`.
- Midpoints that cannot be read when a fill is seen end the cycle after the
  position was set: a longshot fill of that read starts no cooldown (`:2361`).

In the console and the screener:

- Approve and reject are two transactions each (`review.py:287`); the live check
  may overwrite a market approved meanwhile with an older row (`review.py:144`).
- `enqueue_top` reads what is finished before what runs, so a market that ends in
  between is screened again (`triage_runner.py:47`). A market the database cannot
  place is screened alone and leaves no row. A fact's `verified` plays no part in
  the verdict.
- A scan whose `after_store` raises is reported as failed though it is stored.
- `docs/console.md` says a form writes only the fields changed: a stale tab's
  form writes back a field another tab changed. After a reset, a save of the
  value the farmer last ran with writes nothing.
- A change between a page's read and its stream's first poll, or while it
  reconnects, is not signalled; the orders and sniper regions have no timer to
  make up for it. A worker stopped and started between two polls is not either.
- Rows cut by the cap at exactly the second a read says it is complete from are
  missing (`ReadIsTrue` is strict about that second). Trades that come while
  pages are read duplicate maker rows; hits do not change.
- A history and a tape of one seed may come from different reads.
- `fill_backtest` counts a sweep that straddles the decision both as known and as
  realised.
- The feed may give a price in a newer tick than the old book a token dropped and
  asked for again hears first; a token removed and added back before the feed
  looks gets no new book. The recorder does not put the samples gathered since
  the last flush at a stop, and does not retry a failed prune within a run.

## 6. What is left

Not modelled, and why: key handling (process start-up), the readers of
Polymarket (requests and parsing; what they return, a failure included, is a
choice of the models), the entry point and picker, the infrastructure program.
Of modelled components: schema migrations, pruning of tools.db, reads made only
to show something (the review queue's page among them), the view models, the scores and tables the analysis prints,
gamma's enrichment and the ranking score of the screener, the farmer's dry run
and `--once`. These are sequential and either pure or input and output.

What would come next:

1. `ExitIsBest` as a theorem: the curves of `Exits` are filled downwards as far as
   asked, which an invariant over positions can say; its weights are folds, and
   would have to become a function first.
2. A run of `MarketCycle` inside `Farmer`, which today meet only in what each
   assumes of the other: that a plan is one of the choices `Targets` of `Farmer`
   allows.
