------------------------------- MODULE Backtests -------------------------------
(* The replays of the backtests (analysis/exit_backtest.py, fill_backtest.py, pricing_backtest.py):
   what each forecasts a case from, and what it scores the case on. A world is what was fetched
   of the markets. Times are whole units, prices ticks; a fit stands for what it was fit on. *)
EXTENDS FillCost

CONSTANTS Ids,        \* the markets' condition ids, in order
          Folds,      \* FOLDS
          Records,    \* what may have been fetched of a market: [start, trades, mids, readAt, expires, samples]
          PriorMin,   \* PRIOR_MIN_MARKETS
          Every, Warmup, Horizon, \* EVERY_DAYS, WARMUP_DAYS, HORIZON_DAYS
          FavLow, FavHigh,        \* FAV_RANGE
          DecisionS, RunGap, SampleS, \* DECISION_S, RUN_GAP_S, BOOK_SAMPLE_S
          Prices, Size \* what an arm may ask or bid, and for how many shares

VARIABLES world,
          which,  \* the replay: "exits", "fills", "prices"
          todo,   \* its cases still to forecast
          replay, \* Replay: what it holds of one time
          got     \* the case forecast last, and what from
vars == <<world, which, todo, replay, got>>

Markets == ToSet(Ids)
FoldOf(m) == (CHOOSE i \in DOMAIN Ids : Ids[i] = m) % Folds
Others(fold) == {m \in Markets : FoldOf(m) # fold}

\* The last mid at or before t.
MidAt(mids, t) == LET upto == {i \in DOMAIN mids : mids[i].t <= t}
                  IN IF upto = {} THEN None ELSE mids[Max(upto)].p

(***************************************************************************)
(* Cases                                                                   *)
(***************************************************************************)

\* On one clock for all markets, a warmup after `first`, a horizon before the read or the
\* expiry, while the mid is a favorite's.
CasesFrom(w, m, first) ==
  {[market |-> m, t |-> k * Every, mid |-> MidAt(w[m].mids, k * Every)] :
     k \in {j \in 0..w[m].readAt :
              /\ first + Warmup <= j * Every
              /\ j * Every <= Min({w[m].readAt, w[m].expires}) - Horizon
              /\ MidAt(w[m].mids, j * Every) \in FavLow..FavHigh}}

\* The cases whose other folds hold enough markets with tape at t to fit a prior.
WithPrior(w, cases) ==
  {c \in cases : Cardinality({m \in Others(FoldOf(c.market)) : w[m].start < c.t}) >= PriorMin}

ExitCases(w) ==
  WithPrior(w, UNION {CasesFrom(w, m, w[m].trades[1].at) : m \in {x \in Markets : w[x].trades # <<>>}})
FillCases(w) == UNION {CasesFrom(w, m, w[m].start) : m \in Markets}

\* The samples parted where they are further apart than RunGap.
Runs(samples) ==
  FoldLeft(LAMBDA runs, s : IF runs # <<>> /\ s - Last(Last(runs)) <= RunGap
                            THEN Append(Front(runs), Append(Last(runs), s)) ELSE Append(runs, <<s>>),
           <<>>, samples)
Picked(run) ==
  FoldLeft(LAMBDA picked, s : IF picked = <<>> \/ s >= Last(picked) + DecisionS
                              THEN Append(picked, s) ELSE picked, <<>>, run)

\* When each decision of a run ends: at the next one, or after the run's last sample.
Ends(picked, run) == Append(Tail(picked), Last(run) + SampleS)

Decisions(m, samples) ==
  LET runs == Runs(samples)
  IN UNION {LET picked == Picked(runs[r])
                ends == Ends(picked, runs[r])
            IN {[market |-> m, t |-> picked[i], end |-> ends[i]] : i \in DOMAIN picked}
            : r \in DOMAIN runs}
PriceCases(w) == UNION {{d \in Decisions(m, w[m].samples) : d.t >= w[m].start} : m \in Markets}

(***************************************************************************)
(* What is known at a time                                                 *)
(***************************************************************************)

Upto(trades, t) == SelectSeq(trades, LAMBDA s : s.at <= t)
Until(trades, t) == SelectSeq(trades, LAMBDA s : s.at < t)
After(trades, t) == SelectSeq(trades, LAMBDA s : s.at > t)
HitsOf(trades) == {[at |-> s.at, deep |-> s.price] : s \in ToSet(trades)}

\* The tape as a read at t would have found it.
AsOf(record, t) == [trades |-> Upto(record.trades, t), first |-> Min({record.start, t}), readAt |-> t]

\* The tape's pieces under the mid before them, for the distance arm.
ViewOf(record, tape) ==
  [i \in DOMAIN tape.trades |->
     LET mid == MidAt(record.mids, tape.trades[i].at - PreSweep)
     IN IF mid = None THEN 0 ELSE mid - tape.trades[i].price]

TapeAndView(record, t) == LET tape == AsOf(record, t) IN [tape |-> tape, view |-> ViewOf(record, tape)]

\* A prior of the tapes with any exposure, None when they are too few.
FitExitPrior(held) ==
  LET usable == {m \in DOMAIN held : held[m].tape.first < held[m].tape.readAt}
  IN IF Cardinality(usable) < PriorMin THEN None ELSE [m \in usable |-> held[m]]

FillHistory(record, t) ==
  MakeHistory(HitsOf(Upto(record.trades, t)), record.mids, record.start, t, FavLow)

AnyStrength == [i \in 0..Len(Distances) |-> Strengths[1]]
InOrder(f) == LET ids == SelectSeq(Ids, LAMBDA m : m \in DOMAIN f) IN [i \in DOMAIN ids |-> f[ids[i]]]
FitFillPrior(histories, t) == FitPrior(InOrder(histories), t, FavLow, AnyStrength)

\* The sells chained as fill_cost chains hits: each burst at its first sell's time.
Bursts(sells) ==
  FoldLeft(LAMBDA acc, s :
             IF acc # <<>> /\ s.at - Last(acc).last <= SweepGap /\ s.at - Last(acc).at <= SweepSpan
             THEN Append(Front(acc), [Last(acc) EXCEPT !.pieces = Append(@, s), !.last = s.at])
             ELSE Append(acc, [at |-> s.at, pieces |-> <<s>>, last |-> s.at]),
           <<>>, sells)
Shares(pieces) == MapThenSumSet(LAMBDA i : pieces[i].size, DOMAIN pieces)

\* Fault: a burst still running at t is known whole.
WholeBursts(sells, t) == SelectSeq(Bursts(sells), LAMBDA b : b.at < t)

\* The bursts of the sells before t: one still running at t is cut there.
BurstsBefore(sells, t) ==
  LET known == SelectSeq(Bursts(sells), LAMBDA b : b.at < t)
  IN IF known = <<>> \/ Last(known).last < t THEN known
     ELSE LET cut == SelectSeq(sells, LAMBDA s : Last(known).at <= s.at /\ s.at < t)
          IN Append(Front(known), Bursts(cut)[1])

\* The first mid and the mid each hit's sweep would find: all that a history's events read.
HitMids(record) ==
  LET mids == record.mids
      found == {LET upto == {i \in DOMAIN mids : mids[i].t <= s.at - PreSweep}
                IN IF upto = {} THEN 1 ELSE Max(upto) : s \in ToSet(record.trades)}
      kept == {1} \cup found
  IN SelectSeq([i \in DOMAIN mids |-> IF i \in kept THEN mids[i] ELSE None], LAMBDA x : x # None)

PriceHistory(record, mids, t) ==
  MakeHistory(HitsOf(Until(record.trades, t)), SelectSeq(mids, LAMBDA x : x.t < t), record.start, t, FavLow)

\* The bursts of the history's days, where the mid was a favorite's, and those days.
OwnSwept(record, t, history) ==
  LET own == SelectSeq(BurstsBefore(record.trades, t),
                       LAMBDA b : /\ b.at >= t - history.days
                                  /\ MidAt(record.mids, b.at - PreSweep) \in FavLow..Top)
  IN [sizes |-> [i \in DOMAIN own |-> Shares(own[i].pieces)], days |-> history.days]

\* One market's whole span, for the other folds: its bursts, its days, and how far the mid fell
\* a horizon after each burst.
FoldStats(record) ==
  LET mids == record.mids
      from == IF mids = <<>> THEN 0 ELSE Max({record.start, mids[1].t + PreSweep})
      last == IF mids = <<>> THEN 0 ELSE Last(mids).t
      used == SelectSeq(Bursts(record.trades),
                        LAMBDA b : from <= b.at /\ b.at < last
                                   /\ MidAt(mids, b.at - PreSweep) \in FavLow..Top)
      later == SelectSeq(used, LAMBDA b : b.at + Horizon <= last)
  IN [sizes |-> [i \in DOMAIN used |-> Shares(used[i].pieces)], days |-> Max({0, last - from}),
      falls |-> [i \in DOMAIN later |-> MidAt(mids, later[i].at - PreSweep) - MidAt(mids, later[i].at + Horizon)]]
FitFold(w, fold) == [m \in Others(fold) |-> FoldStats(w[m])]

(***************************************************************************)
(* What a case is scored on                                                *)
(***************************************************************************)

\* What is left of an ask rested for the horizon: each later buy at it or over takes from it.
Simulate(record, price, t) ==
  FoldLeft(LAMBDA left, s : IF s.at > t + Horizon \/ s.price < price THEN left
                            ELSE left - Min({left, s.size}),
           Size, After(record.trades, t))

\* The events a history counts in the horizon after t.
Realised(record, t) ==
  MakeHistory(HitsOf(After(record.trades, t)), record.mids, t, t + Horizon, FavLow).events

\* A bid held over an interval: each burst that starts in it fills the shares sold strictly under
\* the bid, until none is left; one with no mid a horizon later is counted out.
Score(record, bid, d) ==
  LET here == SelectSeq(Bursts(record.trades), LAMBDA b : d.t <= b.at /\ b.at < d.end)
      Under(b) == Shares(SelectSeq(b.pieces, LAMBDA p : p.price < bid))
  IN FoldLeft(LAMBDA acc, b :
                LET filled == Min({Size - acc.filled - acc.dropped, Under(b)})
                IN IF record.mids # <<>> /\ b.at + Horizon <= Last(record.mids).t
                   THEN [acc EXCEPT !.filled = @ + filled] ELSE [acc EXCEPT !.dropped = @ + filled],
              [filled |-> 0, dropped |-> 0], here)

Marked(record, d) == record.mids # <<>> /\ d.end + Horizon <= Last(record.mids).t

(***************************************************************************)
(* The replays                                                             *)
(***************************************************************************)

Nothing == [t |-> None, held |-> [x \in {} |-> x], priors |-> [x \in {} |-> x]]

Init ==
  /\ world \in [Markets -> Records] /\ which \in {"exits", "fills", "prices"}
  /\ todo = CASE which = "exits" -> ExitCases(world) [] which = "fills" -> FillCases(world)
              [] which = "prices" -> PriceCases(world)
  /\ replay = Nothing /\ got = None

\* Fault: what was read for an earlier time is kept.
Kept(t) == [replay EXCEPT !.t = t]

\* One time is held at once.
At(t) == IF replay.t = t THEN replay ELSE [Nothing EXCEPT !.t = t]

\* Cases are replayed in time order.
NextCase(c) == /\ c \in todo /\ (\A d \in todo : c.t <= d.t) /\ todo' = todo \ {c}
               /\ UNCHANGED <<world, which>>

\* An arm prices an ask from the tapes as of t and a prior of the other folds, each made once.
PickExit(c) ==
  /\ which = "exits" /\ NextCase(c)
  /\ \E r \in {At(c.t)}, fold \in {FoldOf(c.market)} :
       \E need \in {{c.market} \cup (IF fold \in DOMAIN r.priors THEN {} ELSE Others(fold))} :
         \E held \in {r.held @@ [m \in need |-> TapeAndView(world[m], c.t)]} :
           /\ replay' = [t |-> r.t, held |-> held,
                         priors |-> IF fold \in DOMAIN r.priors THEN r.priors
                                    ELSE r.priors @@ (fold :> FitExitPrior([m \in Others(fold) |-> held[m]]))]
           /\ got' = [case |-> c, known |-> [own |-> held[c.market], prior |-> replay'.priors[fold]]]

\* The market's forecast, from every market's history as of t, and what followed; a case whose
\* other folds had too little history is dropped.
SeeFills(c) ==
  /\ which = "fills" /\ NextCase(c)
  /\ \E r \in {At(c.t)}, fold \in {FoldOf(c.market)} :
       \E held \in {r.held @@ [m \in Markets |-> FillHistory(world[m], c.t)]} :
         /\ replay' = [t |-> r.t, held |-> held,
                       priors |-> IF fold \in DOMAIN r.priors THEN r.priors
                                  ELSE r.priors @@ (fold :> FitFillPrior([m \in Others(fold) |-> held[m]], c.t))]
         /\ got' = IF replay'.priors[fold] = None THEN None
                   ELSE [case |-> c, known |-> [own |-> held[c.market], prior |-> replay'.priors[fold]]]

\* A decision of the pricing replay, whichever bid its arm chooses: scored where its interval ends
\* a horizon before the last mid.
Price(c, bid) ==
  /\ which = "prices" /\ NextCase(c) /\ UNCHANGED replay
  /\ \E history \in {PriceHistory(world[c.market], HitMids(world[c.market]), c.t)} :
       got' = [case |-> c, bid |-> bid, score |-> IF Marked(world[c.market], c) THEN Score(world[c.market], bid, c) ELSE None,
               known |-> [events |-> history.events, days |-> history.days,
                          swept |-> OwnSwept(world[c.market], c.t, history),
                          fit |-> FitFold(world, FoldOf(c.market))]]

Next ==
  \/ \E c \in todo : PickExit(c) \/ SeeFills(c)
  \/ \E c \in todo, bid \in Prices : Price(c, bid)

(***************************************************************************)
(* What the replays promise                                                *)
(***************************************************************************)

\* A market as it stood at t: nothing after it was fetched yet.
Past(record, t) == [record EXCEPT !.trades = Upto(@, t), !.mids = SelectSeq(@, LAMBDA x : x.t <= t)]
JustBefore(record, t) == [record EXCEPT !.trades = Until(@, t), !.mids = SelectSeq(@, LAMBDA x : x.t < t)]

\* What a case may know: its own market before its time, and of the others those outside its fold.
MayKnow(c) ==
  LET others == Others(FoldOf(c.market))
      record == world[c.market]
      past == [m \in Markets |-> Past(world[m], c.t)]
  IN CASE which = "exits" -> [own |-> TapeAndView(past[c.market], c.t),
                              prior |-> FitExitPrior([m \in others |-> TapeAndView(past[m], c.t)])]
       [] which = "fills" -> [own |-> FillHistory(past[c.market], c.t),
                              prior |-> FitFillPrior([m \in others |-> FillHistory(past[m], c.t)], c.t)]
       [] which = "prices" ->
            LET before == JustBefore(record, c.t)
                history == PriceHistory(before, before.mids, c.t)
            IN [events |-> history.events, days |-> history.days,
                swept |-> OwnSwept(before, c.t, history), fit |-> FitFold(world, FoldOf(c.market))]

\* What was traded up to a case's time does not count in its score.
ScoredOnWhatFollows(c) ==
  LET record == world[c.market]
      after == [record EXCEPT !.trades = After(@, c.t)]
  IN CASE which = "exits" -> /\ got.known.prior # None
                             /\ \A p \in Prices : Simulate(record, p, c.t) = Simulate(after, p, c.t)
       [] which = "fills" -> Realised(record, c.t) = Realised(after, c.t)
       [] which = "prices" ->
            /\ got.score # None => got.score.filled <= Size /\ got.score.dropped = 0
            /\ \A x \in c.t..(c.end - 1) :
                 \E s \in ToSet(record.samples) : s <= x /\ x - s < Max({RunGap, SampleS})
            /\ \A d \in Decisions(c.market, record.samples) \ {[market |-> c.market, t |-> c.t, end |-> c.end]} :
                 d.end <= c.t \/ c.end <= d.t

\* Whatever the order and the caches of a replay: a forecast rests on what its market showed by
\* then and on other folds, as if nothing later had been fetched; a case kept for a prior has
\* one; a burst still running is cut; no trade is both known to a case and scored on it, nor scored
\* by two decisions; a bid is held only while its market was sampled, and its fills all marked.
ReplaysAreBlind == got # None => got.known = MayKnow(got.case) /\ ScoredOnWhatFollows(got.case)
================================================================================
