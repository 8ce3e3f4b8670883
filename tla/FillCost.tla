------------------------------- MODULE FillCost -------------------------------
(* How often a resting favorite bid fills, from the trades that hit such bids: the rules of
   farm/fill_cost.py. Times are whole units, prices ticks, and a rate is in parts of Unit. *)
EXTENDS Integers, SequencesExt

CONSTANTS SweepGap,   \* SWEEP_GAP_S
          SweepSpan,  \* MAX_SWEEP_SPAN_S
          PreSweep,   \* PRE_SWEEP_S
          DeclusterBy,\* DECLUSTER_S
          HistoryDays,
          Distances,  \* below the mid a sweep is counted at, increasing
          ExitAt,     \* the place of EXIT_DISTANCE in Distances
          MinMarkets, \* PRIOR_MIN_MARKETS
          Strengths,  \* what a prior's strength may be, increasing
          Unit,       \* one event a unit of time
          FloorRate,  \* of Unit
          DefaultPrior,
          Top,        \* the price of a share that pays out
          None

Version == 2
Counts == DOMAIN Distances

(***************************************************************************)
(* A market's history                                                      *)
(***************************************************************************)

\* The hits chained into sweeps, each at its first hit's time and its deepest price: a hit
\* joins the last sweep while it comes within SweepGap of it and the sweep spans SweepSpan.
Chain(acc, t, deep) ==
  LET n == Len(acc.sweeps)
  IN IF n > 0 /\ t - acc.last <= SweepGap /\ t - acc.sweeps[n].at <= SweepSpan
     THEN [sweeps |-> [acc.sweeps EXCEPT ![n].deep = Min({@, deep})], last |-> t]
     ELSE [sweeps |-> Append(acc.sweeps, [at |-> t, deep |-> deep]), last |-> t]

Sweeps(hits) ==
  FoldLeft(LAMBDA acc, t : LET here == {h.deep : h \in {x \in hits : x.at = t}}
                           IN IF here = {} THEN acc ELSE Chain(acc, t, Min(here)),
           [sweeps |-> <<>>, last |-> 0],
           [t \in 1..Max({h.at : h \in hits} \cup {0}) |-> t]).sweeps

\* The mid a sweep at t found: the last one PreSweep before it.
MidFound(mids, t) == mids[Max({i \in DOMAIN mids : mids[i].t <= t - PreSweep})].p

\* The sweeps of the history that found a mid at or above the floor, with how far they reached.
Reached(sweeps, mids, from, now, floor) ==
  FoldLeft(LAMBDA acc, s :
             IF from <= s.at /\ s.at < now /\ MidFound(mids, s.at) >= floor
             THEN Append(acc, [at |-> s.at, mid |-> MidFound(mids, s.at),
                               reach |-> MidFound(mids, s.at) - s.deep])
             ELSE acc,
           <<>>, sweeps)

\* Fault: a sweep is compared with the last one that came, counted or not.
DeclusteredFromAny(reached, d) ==
  LET far == SelectSeq(reached, LAMBDA s : s.reach > d)
  IN FoldLeftDomain(LAMBDA counted, i :
                      IF i = 1 \/ far[i].at - far[i - 1].at > DeclusterBy
                      THEN Append(counted, far[i]) ELSE counted,
                    <<>>, far)

\* The sweeps counted at a distance: one within DeclusterBy of the last counted is one with it.
Declustered(reached, d) ==
  FoldLeft(LAMBDA counted, s :
             IF s.reach > d /\ (counted = <<>> \/ s.at - Last(counted).at > DeclusterBy)
             THEN Append(counted, s) ELSE counted,
           <<>>, reached)

\* When the mid was back where the sweep found it, PreSweep after it at the earliest; or None.
Recovery(mids, s, now) ==
  LET back == {m \in ToSet(mids) : m.t >= s.at + PreSweep /\ m.t < now /\ m.p >= s.mid}
  IN IF back = {} THEN None ELSE Min({m.t : m \in back})

\* Usable from the latest of where the trades are whole, the history's length and the mids.
UsableFrom(mids, start, now) ==
  Max({start, now - HistoryDays, IF mids = <<>> THEN now ELSE mids[1].t + PreSweep})

HistoryOf(reached, mids, from, now, floor) ==
  LET counted == [i \in Counts |-> Declustered(reached, Distances[i])]
      holds == {[at |-> s.at, back |-> Recovery(mids, s, now)] : s \in ToSet(counted[ExitAt])}
  IN [events |-> [i \in Counts |-> Len(counted[i])],
      days |-> Max({0, now - from}), readAt |-> now, floor |-> floor,
      exits |-> Cardinality({h \in holds : h.back # None}),
      held |-> MapThenSumSet(LAMBDA h : (IF h.back = None THEN now ELSE h.back) - h.at, holds)]

MakeHistory(hits, mids, start, now, floor) ==
  LET from == UsableFrom(mids, start, now)
  IN HistoryOf(Reached(Sweeps(hits), mids, from, now, floor), mids, from, now, floor)

\* A stored history reads back only as one the grid and the version allow.
HistoryToJson(h) == [v |-> Version, distances |-> Distances, history |-> h]

HistoryFromJson(row) ==
  LET h == row.history
      valid == /\ row.v = Version /\ row.distances = Distances
               /\ Len(h.events) = Len(Distances)
               /\ \A i \in Counts : h.events[i] >= 0 /\ (i > 1 => h.events[i - 1] >= h.events[i])
               /\ 0 <= h.days /\ h.days <= HistoryDays
               /\ 0 < h.floor /\ h.floor < Top
               /\ 0 <= h.exits /\ h.exits <= h.events[ExitAt]
               /\ h.held >= 0
  IN IF row # None /\ valid THEN h ELSE None

(***************************************************************************)
(* The prior of many markets, and the curve a bid is valued with            *)
(***************************************************************************)

\* The markets' counts over their exposures. Which strength makes them likeliest is the pick,
\* any of Strengths; but no count at all takes the largest.
Total(ns) == FoldLeft(+, 0, ns)

Pooled(counts, exposures, pick) ==
  LET rate == (Unit * Total(counts)) \div Total(exposures)
  IN [rate |-> rate, strength |-> IF Total(counts) = 0 THEN Last(Strengths) ELSE pick]

\* The prior of the histories read with this floor, None when too few have any days.
PriorOf(usable, held, at, floor, pick) ==
  LET Days == [j \in DOMAIN usable |-> usable[j].days]
      point == [i \in Counts |-> Pooled([j \in DOMAIN usable |-> usable[j].events[i]], Days, pick[i])]
      exit == IF held = <<>> THEN [rate |-> DefaultPrior.exitRate, strength |-> DefaultPrior.exitStrength]
              ELSE Pooled([j \in DOMAIN held |-> held[j].exits],
                          [j \in DOMAIN held |-> held[j].held], pick[0])
  IN [rates |-> [i \in Counts |-> point[i].rate], strengths |-> [i \in Counts |-> point[i].strength],
      markets |-> Len(usable), at |-> at, floor |-> floor,
      exitRate |-> exit.rate, exitStrength |-> exit.strength]

FitPrior(histories, at, floor, pick) ==
  LET usable == SelectSeq(histories, LAMBDA h : h.days > 0 /\ h.floor = floor)
  IN IF Len(usable) < MinMarkets THEN None
     ELSE PriorOf(usable, SelectSeq(usable, LAMBDA h : h.held > 0), at, floor, pick)

PriorToJson(p) == [v |-> Version, distances |-> Distances, prior |-> p]

PriorFromJson(row) ==
  LET p == row.prior
      valid == /\ row.v = Version /\ row.distances = Distances
               /\ Len(p.rates) = Len(Distances) /\ Len(p.strengths) = Len(Distances)
               /\ \A i \in Counts : p.rates[i] >= 0 /\ p.strengths[i] > 0
               /\ p.markets >= 0 /\ 0 < p.floor /\ p.floor < Top
               /\ p.exitRate >= 0 /\ p.exitStrength > 0
  IN IF row # None /\ valid THEN p ELSE None

\* A history of another floor or of no days is dropped, a prior of another floor replaced.
UsableHistory(h, floor) == IF h # None /\ h.floor = floor /\ h.days > 0 THEN h ELSE None
UsablePrior(p, floor) == IF p.floor = floor THEN p ELSE DefaultPrior

\* Fault: the market's own counts stand as they are, not raised to those farther out.
CurveOfRaw(h, p) ==
  LET raw == IF h = None THEN p.rates
             ELSE [i \in Counts |-> (Unit * h.events[i] + p.strengths[i] * p.rates[i])
                                      \div (h.days + p.strengths[i])]
  IN [rates |-> [i \in Counts |-> Max({FloorRate, raw[i]})],
      fromHistory |-> h # None, exitPerDay |-> p.exitRate]

\* The events that reach past a bid at each distance: the market's own, shrunk toward the prior,
\* each raised to the largest farther out and to FloorRate.
CurveOf(h, p) ==
  LET raw == IF h = None THEN p.rates
             ELSE [i \in Counts |-> (Unit * h.events[i] + p.strengths[i] * p.rates[i])
                                      \div (h.days + p.strengths[i])]
      exit == IF h = None THEN p.exitRate
              ELSE (Unit * h.exits + p.exitStrength * p.exitRate) \div (h.held + p.exitStrength)
  IN [rates |-> [i \in Counts |-> Max({FloorRate} \cup {raw[j] : j \in i..Len(Distances)})],
      fromHistory |-> h # None, exitPerDay |-> exit]

FillCurve(h, p, floor) == CurveOf(UsableHistory(h, floor), UsablePrior(p, floor))

FillSource(h, p, floor) ==
  IF UsableHistory(h, floor) # None THEN "history"
  ELSE IF UsablePrior(p, floor).markets = 0 THEN "default" ELSE "prior"

\* Events that reach past a bid at a distance, linear between the grid's and flat outside them.
PerDay(curve, distance) ==
  LET i == Cardinality({j \in Counts : Distances[j] <= distance})
  IN IF i = 0 THEN curve.rates[1]
     ELSE IF i = Len(Distances) THEN Last(curve.rates)
     ELSE curve.rates[i] - ((distance - Distances[i]) * (curve.rates[i] - curve.rates[i + 1]))
                             \div (Distances[i + 1] - Distances[i])
=============================================================================
