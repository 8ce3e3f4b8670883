---- MODULE MCParts ----
(***************************************************************************)
(* The nine components of Parts and the others that share no state with    *)
(* the rest, on small instances: a behaviour picks one and runs it alone   *)
(* with its environment.                                                   *)
(***************************************************************************)
EXTENDS Parts, FiniteSets

CONSTANTS a, b, c, yes, no \* markets and tokens

(***************************************************************************)
(* The read of one market's trades                                         *)
(***************************************************************************)
FillOf(w, as, sd, p, size) == [wallet |-> w, asset |-> as, side |-> sd, price |-> p, size |-> size]
Made(as, sd, p, fills) == [asset |-> as, side |-> sd, price |-> p, fills |-> fills]
DeepSell == Made("favorite", "SELL", 13, <<FillOf("a", "favorite", "BUY", 13, 1)>>)
SplitSell == Made("favorite", "SELL", 15,
               <<FillOf("a", "favorite", "BUY", 16, 1), FillOf("b", "other", "SELL", 7, 1)>>)
NearBuy == Made("favorite", "BUY", 18,
             <<FillOf("a", "favorite", "SELL", 18, 1), FillOf("b", "other", "BUY", 2, 1)>>)
Trades == {DeepSell, SplitSell, NearBuy,
           Made("favorite", "SELL", 16, <<FillOf("a", "favorite", "BUY", 16, 1)>>),
           Made("other", "BUY", 5, <<FillOf("a", "favorite", "BUY", 15, 1), FillOf("b", "favorite", "BUY", 12, 0)>>)}
\* Older and newer trades; one at 2, before what the history counts; two deep ones too far
\* apart to be one, with a shallow one between them.
TapePasts == UNION {[times -> Trades] : times \in SUBSET {4, 5, 8}} \cup
             {[t \in times \cup {2} |-> IF t = 2 THEN DeepSell ELSE SplitSell] : times \in SUBSET {4, 8}} \cup
             {[t \in {4, 6, 8} |-> IF t = 6 THEN SplitSell ELSE DeepSell]}
Mid(t, p) == [t |-> t, p |-> p]
\* Falling, rising late, with a gap between 5 and 7, and never known.
TapePaths == {<<Mid(1, 17), Mid(2, 17), Mid(4, 17), Mid(5, 16), Mid(7, 17), Mid(8, 17)>>,
              <<Mid(1, 17), Mid(4, 16), Mid(5, 15), Mid(7, 15)>>, <<Mid(6, 17), Mid(8, 18)>>, <<>>}
TapeDistances == <<0, 1, 3>>
TapeStrengths == <<1, 5>>
TapeDefault == [rates |-> <<50, 20, 5>>, strengths |-> <<1, 2, 4>>, markets |-> 0, at |-> None,
                floor |-> 16, exitRate |-> 20, exitStrength |-> 3]
TapeOthers == <<[events |-> <<3, 1, 0>>, days |-> 6, readAt |-> 9, floor |-> 16, exits |-> 1, held |-> 2],
                [events |-> <<0, 0, 0>>, days |-> 0, readAt |-> 9, floor |-> 16, exits |-> 0, held |-> 0]>>

Ta == INSTANCE Tape WITH
  SweepGap <- 1, SweepSpan <- 2, PreSweep <- 1, DeclusterBy <- 3, HistoryDays <- 6,
  Distances <- TapeDistances, ExitAt <- 2, MinMarkets <- 2, Strengths <- TapeStrengths,
  Unit <- 100, FloorRate <- 1, DefaultPrior <- TapeDefault, Top <- 20, Rows <- 3, Pages <- 2,
  LateKinds <- {SplitSell, NearBuy}, Pasts <- TapePasts, Paths <- TapePaths, Now <- 9,
  MidsLead <- 1, MidsChunk <- 3, Floor <- 16, Others <- TapeOthers, TapeRows <- 2, MaxLate <- 2,
  trades <- x1, mids <- x2, phase <- x3, got <- x4, pages <- x5, every <- x6, everyFrom <- x7,
  takers <- x8, takerFrom <- x9, read <- x10, prior <- x11

(***************************************************************************)
(* The exit values of one market                                           *)
(***************************************************************************)
Piece(p, size) == [price |-> p, size |-> size]
Sweep(at, pieces) == [at |-> at, pieces |-> pieces]
Recorded(from, sweeps) == [from |-> from, sweeps |-> sweeps]
Takes == {<<Piece(7, 1)>>, <<Piece(6, 2), Piece(5, 2)>>, <<Piece(4, 3)>>}
\* No tape, an empty one, one of a single sweep and one of two.
ExitTapes == {None, Recorded(1, <<>>)}
             \cup {Recorded(from, <<Sweep(2, take)>>) : from \in {1, 2}, take \in Takes}
             \cup {Recorded(1, <<Sweep(2, one), Sweep(4, two)>>) : one, two \in Takes}
Held(shares, cost) == [shares |-> shares, cost |-> cost]
ExitWeight == <<4, 3, 2, 1, 1, 1>>
ExitMarks == <<0, 1, 1, 2>>
ExitSold == <<0, 40, 60, 80>>
ExitUnsold == <<90, 52, 33, 12>>

Ex == INSTANCE Exits WITH
  Top <- 8, Stride <- 2, Tapes <- ExitTapes, Weight <- ExitWeight, ReadAt <- 5,
  Sizes <- {1, 2, 4}, PriorMarks <- ExitMarks, Arrivals <- 1, MarkBuys <- 1, ArrivalTime <- 0,
  Sold <- ExitSold, Unsold <- ExitUnsold, PTrue <- 7,
  Holdings <- {Held(0, 0), Held(1, 5), Held(3, 12)}, MinCapture <- 1, Tie <- 30, Added <- {1, 2},
  MaxCalls <- 2, tape <- x1, holding <- x2, curves <- x3, held <- x4, calls <- x5, answer <- x6

(***************************************************************************)
(* The listing of the rewarded markets                                     *)
(***************************************************************************)
FirstListed == {1..5, {1, 2}, 2..7, {}}

(***************************************************************************)
(* The farmer's reads of its markets' histories                            *)
(***************************************************************************)
Want(m, floor) == [market |-> m, floor |-> floor]
HistoryWants == {<<Want(a, 1), Want(b, 1)>>, <<Want(a, 2)>>}

(***************************************************************************)
(* The farmer's events and samples, and the fills read back                *)
(***************************************************************************)
HoldingChanges == {<<0, 0>>, <<2, 0>>, <<-1, 0>>, <<-1, 1>>}

(***************************************************************************)
(* The market queue: scans and decisions                                   *)
(***************************************************************************)
OneEvent(m) == "e1"
Fine == [active |-> TRUE, accepting |-> TRUE, excluded |-> FALSE, spread |-> 1, rate |-> 2, window |-> 2,
         price |-> 2, eventClosed |-> FALSE, proposed |-> FALSE, book |-> TRUE]
DeskListings == {[m \in {a, b} |-> Fine],
                 [m \in {a, b} |-> IF m = b THEN [Fine EXCEPT !.proposed = TRUE] ELSE Fine]}
DeskBest == <<a, b>>
DeskAssess(m, fit, own) == CASE m = a -> IF fit = "fitted" /\ ~own THEN "costs" ELSE "floor"
                             [] m = b -> IF own THEN "costs" ELSE "sole"

(***************************************************************************)
(* The markets Claude screens                                              *)
(***************************************************************************)
EventOfTwo(m) == IF m = c THEN c ELSE "e1"
Run(answer) == [answer |-> answer, paths |-> {TRUE}, settled |-> TRUE]
ThreeRanked == <<a, b, c>>
TriageAnswers == {<<Run("near_impossible"), Run("near_impossible")>>, <<Failing, Run("possible")>>,
                  <<Run("near_impossible"), [Run("near_impossible") EXCEPT !.settled = FALSE]>>}

(***************************************************************************)
(* The market feed                                                         *)
(***************************************************************************)
OtherToken(t) == IF t = yes THEN no ELSE yes

(***************************************************************************)
(* The replays                                                             *)
(***************************************************************************)
Bought(at, p, size) == [at |-> at, price |-> p, size |-> size]
Fetched(start, trades, mids, samples) ==
  [start |-> start, trades |-> trades, mids |-> mids, readAt |-> 9, expires |-> 9, samples |-> samples]
ReplayRecords ==
  {Fetched(1, <<Bought(2, 6, 1), Bought(3, 5, 2), Bought(4, 3, 1), Bought(7, 4, 2)>>,
           <<Mid(1, 7), Mid(3, 6), Mid(5, 7), Mid(8, 6)>>, <<2, 3, 4, 7>>),
   Fetched(2, <<Bought(3, 5, 2), Bought(4, 4, 1), Bought(5, 6, 3), Bought(6, 7, 1)>>,
           <<Mid(2, 6), Mid(4, 8), Mid(6, 5)>>, <<3, 4, 8, 9>>),
   Fetched(4, <<>>, <<Mid(1, 7), Mid(6, 5)>>, <<4>>),
   Fetched(1, <<Bought(1, 5, 1), Bought(4, 5, 1), Bought(8, 3, 2)>>, <<>>, <<1, 2, 3, 4, 5, 6>>),
   Fetched(6, <<Bought(6, 4, 1), Bought(8, 7, 1)>>, <<Mid(3, 6), Mid(7, 7)>>, <<6, 7>>)}
ReplayDistances == <<1, 2>>
ReplayStrengths == <<1, 2>>
ReplayDefault == [rates |-> <<3, 2>>, strengths |-> <<1, 1>>, markets |-> 0, at |-> 0, floor |-> 6,
                  exitRate |-> 4, exitStrength |-> 1]

Ba == INSTANCE Backtests WITH
  Ids <- <<a, b, c>>, Folds <- 2, Records <- ReplayRecords, PriorMin <- 1, Every <- 1,
  Warmup <- 1, Horizon <- 2, FavLow <- 6, FavHigh <- 8, DecisionS <- 2, RunGap <- 2, SampleS <- 1,
  Prices <- {5, 6}, Size <- 3, SweepGap <- 1, SweepSpan <- 2, PreSweep <- 1, DeclusterBy <- 1,
  HistoryDays <- 6, Distances <- ReplayDistances, ExitAt <- 1, MinMarkets <- 1,
  Strengths <- ReplayStrengths, Unit <- 12, FloorRate <- 1, DefaultPrior <- ReplayDefault,
  Top <- 10, world <- x1, which <- x2, todo <- x3, replay <- x4, got <- x5

(***************************************************************************)
(* The farmer's settings                                                   *)
(***************************************************************************)
Both(of_a, of_b) == [k \in {"a", "b"} |-> IF k = "a" THEN of_a ELSE of_b]
Ones == Both(1, 1)
Twos == Both(2, 2)
TwoBases == {Both(1, 1), Both(2, 1)}

(***************************************************************************)
(* The console's signals to a page                                         *)
(***************************************************************************)
PageShows == [status |-> {"event"}, banner |-> {"runs", "works"}]

(***************************************************************************)
(* Each runs alone                                                         *)
(***************************************************************************)
ASSUME Fe!FeedAssumption
ASSUME Bo!BooksAssumption
ASSUME Si!SignalsAssumption
ASSUME Se!SettingsAssumption
ASSUME Hi!HistoriesAssumption
ASSUME Tr!TriageAssumption
ASSUME Li!ListingAssumption
ASSUME Ou!OutboxAssumption

MCInit ==
  \/ Init
  \/ /\ part = "tape" /\ Ta!Init
     /\ x12 = None /\ x13 = None /\ x14 = None /\ x15 = None /\ x16 = None
  \/ /\ part = "exits" /\ Ex!Init
     /\ x7 = None /\ x8 = None /\ x9 = None /\ x10 = None /\ x11 = None /\ x12 = None
     /\ x13 = None /\ x14 = None /\ x15 = None /\ x16 = None
  \/ /\ part = "backtests" /\ Ba!Init
     /\ x6 = None /\ x7 = None /\ x8 = None /\ x9 = None /\ x10 = None /\ x11 = None
     /\ x12 = None /\ x13 = None /\ x14 = None /\ x15 = None /\ x16 = None

TapeSteps == part = "tape" /\ Ta!Next
  /\ UNCHANGED <<part, x12, x13, x14, x15, x16>>
ExitsSteps == part = "exits" /\ Ex!Next
  /\ UNCHANGED <<part, x7, x8, x9, x10, x11, x12, x13, x14, x15, x16>>
BacktestsSteps == part = "backtests" /\ Ba!Next
  /\ UNCHANGED <<part, x6, x7, x8, x9, x10, x11, x12, x13, x14, x15, x16>>

MCNext ==
  \/ Next
  \/ TapeSteps \/ ExitsSteps \/ BacktestsSteps

\* A market's history and tape say what was traded.
ReadIsTrue == part = "tape" => Ta!ReadIsTrue
\* What a prior is fitted from is evidence.
EvidenceHolds == part = "tape" => Ta!EvidenceHolds
\* An exit value is the best ask's.
ExitIsBest == part = "exits" => Ex!ExitIsBest
\* A replay sees nothing of its case's future.
ReplaysAreBlind == part = "backtests" => Ba!ReplaysAreBlind
====
