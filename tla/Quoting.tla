------------------------------ MODULE Quoting ------------------------------
(* What the farmer wants to rest in one market: the pricing rules of
   farm/reward_farmer.py ("Planning (pure)") and farm/reward_screener.py ("Scoring and
   planning (pure)") over integers. Farmer.tla takes their outcome as a choice; here they
   are computed, so that what they promise of one another can be checked.

   A price is a whole number of ticks, Dollar of them to a dollar. A midpoint or a distance
   is in half ticks: the midpoint of a bid and an ask is their sum. A score is the code's
   times Band^2, so that it is a whole number, and money is in ticks times shares. Sizes
   are whole shares (the code's step is 0.01). A book is what the others rest in the
   favorite's book: shares at each price, 0 for none. *)
EXTENDS Integers, Sequences, FiniteSetsExt, SequencesExt

CONSTANTS Dollar,       \* ticks to a dollar
          Shown,        \* the favorite prices a book may hold
          Band,         \* v, the reward band, in half ticks
          MinSize,      \* the reward minimum of the market, shares
          OrderMin,     \* ORDER_MIN_SHARES
          TwoSided,     \* TWO_SIDED_ABOVE, half ticks
          MinFav,       \* cfg.min_fav, half ticks
          MaxLead,      \* cfg.max_lead, ticks
          AskOffset,    \* cfg.ask_offset, half ticks
          MinCapture,   \* cfg.min_capture, ticks
          EvMargin,     \* cfg.ev_margin, ticks
          MinLowScore,  \* cfg.min_low_score, a score
          KeepRatio,    \* cfg.keep_ratio, percent
          FreeMaxCost,  \* FREE_MAX_COST, ticks a share for a full score
          DepthFree,    \* DEPTH_FREE_SHARES
          NetSlack,     \* NET_KEEP_SLACK_USD, ticks
          SoleLead,     \* SOLE_BID_LEAD_TICKS
          SoleKeep,     \* SOLE_BID_KEEP_ABOVE, ticks
          Capital,      \* fm.capital, ticks
          Budget,       \* fm.naked_budget_usd, ticks
          Rate,         \* the market's daily pool, ticks
          Fills(_),     \* fills of a bid a day, per thousand, at a distance; never rising with it
          Sold(_),      \* percent of an inventory its ask sells; never rising with the shares
          Drag,         \* percent a share unsold loses to the hurdle rate
          None

ASSUME QuotingAssumption ==
  /\ Dollar \in Nat /\ Shown \subseteq 1..(Dollar - 1) /\ Shown # {}
  /\ {Band, MinSize, OrderMin} \subseteq Nat \ {0}
  /\ None \notin Int

Slot == <<"FAV_BID", "LONG_ASK", "FAV_ASK", "LONG_BID">>
Slots == {Slot[i] : i \in 1..4}
Favorite(s) == s \in {"FAV_BID", "FAV_ASK"}
Buys(s) == s \in {"FAV_BID", "LONG_BID"}
QOne(s) == s \in {"FAV_BID", "LONG_ASK"}

Books == [bids : [Shown -> Nat], asks : [Shown -> Nat]]
NoOrders == [FAV_BID |-> None, LONG_ASK |-> None, FAV_ASK |-> None, LONG_BID |-> None]

CeilDiv(a, b) == -((-a) \div b)
AtLeastZero(x) == IF x > 0 THEN x ELSE 0
Lowest(S) == IF S = {} THEN None ELSE Min(S)
Highest(S) == IF S = {} THEN None ELSE Max(S)

(***************************************************************************)
(* Scores and books                                                        *)
(***************************************************************************)

Mirror(p) == Dollar - p

\* S(v, s): nothing outside the band, and nothing for an order past the midpoint.
Score(d) == IF 0 <= d /\ d < Band THEN (Band - d) * (Band - d) ELSE 0

TokenMid(s, mid) == IF Favorite(s) THEN mid ELSE 2 * Dollar - mid
OrderScore(s, p, mid) ==
  Score(IF Buys(s) THEN TokenMid(s, mid) - 2 * p ELSE 2 * p - TokenMid(s, mid))
SizedScore(s, p, n, mid) == IF n >= MinSize THEN OrderScore(s, p, mid) ELSE 0

\* One side alone earns a third between 0.10 and 0.90, and nothing outside.
QMin(one, two, mid) ==
  IF mid <= TwoSided /\ mid >= 2 * Dollar - TwoSided
  THEN Max({Min({one, two}), Max({one, two}) \div 3})
  ELSE Min({one, two})

BestBid(b) == Highest({p \in Shown : b.bids[p] >= MinSize})
BestAsk(b) == Lowest({p \in Shown : b.asks[p] >= MinSize})
TopBid(b) == Highest({p \in Shown : b.bids[p] > 0})
TopAsk(b) == Lowest({p \in Shown : b.asks[p] > 0})

AdjustedMid(b) ==
  IF BestBid(b) = None \/ BestAsk(b) = None THEN None ELSE BestBid(b) + BestAsk(b)

\* Where an order shows in the favorite's book: a longshot order on the other side, at the
\* mirrored price.
ShownAt(s, p) == IF Favorite(s) THEN p ELSE Mirror(p)

\* orders is a function from slots to [price, size] or None.
OwnOn(orders, one) == {s \in Slots : orders[s] # None /\ QOne(s) = one}
Merged(side, orders, one, sign) ==
  LET own == OwnOn(orders, one)
      at(p) == {s \in own : ShownAt(s, orders[s].price) = p}
  IN [p \in {ShownAt(s, orders[s].price) : s \in own} \cap Shown |->
        AtLeastZero(side[p] + sign * MapThenSumSet(LAMBDA s : orders[s].size, at(p)))] @@ side
AdjustLevels(b, orders, sign) == [bids |-> Merged(b.bids, orders, TRUE, sign),
                                  asks |-> Merged(b.asks, orders, FALSE, sign)]

\* Fault: our own orders count among the others'.
NothingStripped(levels, orders) == levels
StripOwn(levels, orders) == AdjustLevels(levels, orders, -1)

CreatedMid(p, bid, ask) == Max({p, bid}) + ask

\* All the others' orders of at least the minimum, as one maker's score.
CompetingScore(b, mid) ==
  QMin(MapThenSumSet(LAMBDA p : Score(mid - 2 * p) * b.bids[p],
                     {p \in Shown : b.bids[p] >= MinSize}),
       MapThenSumSet(LAMBDA p : Score(2 * p - mid) * b.asks[p],
                     {p \in Shown : b.asks[p] >= MinSize}), mid)

SharesAhead(b, p) == MapThenSumSet(LAMBDA q : b.bids[q], {q \in Shown : q > p /\ b.bids[q] > 0})

FavCeiling(b) ==
  LET bid == BestBid(b)
      price == Min({bid + MaxLead, TopAsk(b) - 1})
  IN IF bid = None \/ BestAsk(b) = None THEN None ELSE IF price >= 1 THEN price ELSE None

\* The walk down the grid from the ceiling ends at the first price that scores nothing.
FavBidCandidates(b, cap) ==
  LET top == IF cap = None THEN FavCeiling(b) ELSE Min({FavCeiling(b), cap})
      scores(p) == Score(CreatedMid(p, BestBid(b), BestAsk(b)) - 2 * p) > 0
  IN IF FavCeiling(b) = None THEN {}
     ELSE {p \in 1..top : \A q \in p..top : scores(q)}

\* Whether pulling the best bid takes the midpoint under MinFav or down by drop.
FragileMid(b, drop) ==
  LET pulled == AdjustedMid([b EXCEPT !.bids[BestBid(b)] = 0])
  IN pulled = None \/ pulled < MinFav \/ AdjustedMid(b) - pulled >= drop

(***************************************************************************)
(* What is held, and the zones of a longshot bid                           *)
(***************************************************************************)

\* A position is [fav, favCost, long, longCost]: shares and what they cost, so that the
\* average a floor is read from is favCost / fav.
NoPosition == [fav |-> 0, favCost |-> 0, long |-> 0, longCost |-> 0]
Average(cost, n) == IF n = 0 THEN 0 ELSE CeilDiv(cost, n)
ExitFloor(pos) == Average(pos.favCost, pos.fav) + MinCapture
LongExitFloor(pos) == Average(pos.longCost, pos.long) + MinCapture
CapitalRoom(pos) == AtLeastZero(Capital - pos.favCost)
NakedRoom(pos) == AtLeastZero(Budget - pos.longCost)

\* zones is [free, max, sole, steady]: the longshot prices offering FREE_RETURN, MAX_RETURN
\* and SOLE_BID_FREE_RETURN a year, which fall as the end date nears, and the lowest
\* midpoint of the dwell, None while there is none.
OverMaxReturn(p, z) == p > z.max
UnderFreeReturn(p, z) == p < z.free
FreeZoneOpen(pos) == pos.long < MinSize
LongZones(z, pos) == IF FreeZoneOpen(pos) THEN z ELSE [z EXCEPT !.steady = None]

SizedWithoutBudget(p, shareScore, z) ==
  /\ z.steady # None /\ UnderFreeReturn(p, z)
  /\ FreeMaxCost * Min({shareScore, Score((2 * Dollar - z.steady) - 2 * p)})
       >= p * Band * Band
FreeOfBudget(p, mid, pos, z) ==
  SizedWithoutBudget(p, OrderScore("LONG_BID", p, mid), LongZones(z, pos))

(***************************************************************************)
(* The longshot bid that balances a score                                  *)
(***************************************************************************)

\* The cheapest price whose covering size it may rest, free of the room or within it; with
\* none, the price where the room buys the most score. None without a price that scores
\* MinLowScore short of crossing.
LongshotBid(b, mid, need, room, z) ==
  LET lowMid == 2 * Dollar - mid
      limit == IF TopBid(b) = None THEN lowMid ELSE Min({lowMid, 2 * Mirror(TopBid(b))})
      s(p) == Score(lowMid - 2 * p)
      ceiling == Lowest({p \in 1..(Dollar - 1) : 2 * p < limit /\ s(p) >= MinLowScore})
      scored == {p \in 1..ceiling : s(p) > 0 /\ ~OverMaxReturn(p, z)}
      covering(p) == Max({MinSize, CeilDiv(need, s(p))})
      covers == {p \in scored : SizedWithoutBudget(p, s(p), z) \/ p * covering(p) <= room}
      buys(p) == s(p) * (room \div p)
      most == Min({p \in scored : \A q \in scored : buys(q) <= buys(p)})
  IN IF need <= 0 \/ ceiling = None THEN None
     ELSE IF scored = {} THEN None
     ELSE IF covers # {}
          THEN [price |-> Min(covers), size |-> covering(Min(covers)), score |-> s(Min(covers))]
     ELSE IF room \div most >= MinSize
          THEN [price |-> most, size |-> room \div most, score |-> s(most)]
     ELSE None

(***************************************************************************)
(* The orders of a plan                                                    *)
(***************************************************************************)

\* What a plan is made from, e: [book, pos, z, naked, fillMid, pTrue], the book without our
\* own orders, the position, the zones, whether the naked leg may rest, the midpoint before
\* the fill the inventory came from, and the operator's p_true in ticks, or None for a market
\* that follows the book. An order of a plan is [price, size, score].
BookMid(e) == AdjustedMid(e.book)

\* The highest favorite bid the market's worth allows, and that worth in half ticks.
EvCap(e) ==
  IF e.pTrue # None THEN e.pTrue - EvMargin
  ELSE IF BookMid(e) = None THEN None ELSE BookMid(e) \div 2
Worth(e) == IF e.pTrue # None THEN 2 * e.pTrue ELSE BookMid(e)

\* At the mirror of the favorite bid, or of the highest one allowed; never under cost.
PlanLongAsk(e, p) ==
  LET at == IF p = None THEN FavCeiling(e.book) ELSE p
  IN IF at = None THEN None ELSE Max({Mirror(at), LongExitFloor(e.pos)})

\* Above the midpoint, the one before the fill when higher, and above cost; None if it would
\* cross.
PlanFavAsk(e, mid) ==
  LET bid == TopBid(e.book)
      anchor == IF e.fillMid = None THEN mid ELSE Max({mid, e.fillMid})
      wanted == Max({CeilDiv(anchor + Max({AskOffset, 2}), 2), ExitFloor(e.pos),
                     IF bid = None THEN 0 ELSE bid + 1})
      price == Min({wanted, Dollar - 1})
  IN IF bid # None /\ price <= bid THEN None ELSE price

Order(price, size) == [price |-> price, size |-> size]
Scored(s, price, size, mid) ==
  [price |-> price, size |-> size, score |-> SizedScore(s, price, size, mid)]
QOf(order) == IF order = None THEN 0 ELSE order.score * order.size

\* The two exits with the favorite bid at p.
ExitsAt(e, p) ==
  LET longAsk == IF e.pos.long >= OrderMin THEN PlanLongAsk(e, p) ELSE None
      favAsk == IF e.pos.fav >= OrderMin THEN PlanFavAsk(e, BookMid(e)) ELSE None
  IN [NoOrders EXCEPT !["LONG_ASK"] = IF longAsk = None THEN None ELSE Order(longAsk, e.pos.long),
                      !["FAV_ASK"] = IF favAsk = None THEN None ELSE Order(favAsk, e.pos.fav)]

\* The midpoint once the plan's exits and its favorite bid have joined the book.
QuotedMid(e, p, n, exits) ==
  AdjustedMid(AdjustLevels(e.book, IF p = None \/ n = 0 THEN exits
                                   ELSE [exits EXCEPT !["FAV_BID"] = Order(p, n)], 1))

Balancing(e, mid, need) ==
  IF e.naked THEN LongshotBid(e.book, mid, need, NakedRoom(e.pos), LongZones(e.z, e.pos))
  ELSE None

\* A plan is [mid, orders]. A favorite bid of n at p that scores share, the longshot bid low
\* that balances it in full, the exits' orders as scored: the favorite bid shrinks to what
\* Q_two reaches, and under the reward minimum it is dropped, the longshot bid derived again.
Trimmed(e, p, n, share, low, asks, mid) ==
  LET qOne == QOf(asks["LONG_ASK"])
      reached == QOf(asks["FAV_ASK"]) + QOf(low)
      size == IF share > 0 /\ qOne + share * n > reached
              THEN AtLeastZero(reached - qOne) \div share ELSE n
  IN [mid |-> mid,
      orders |-> IF size >= MinSize
                 THEN [asks EXCEPT !["FAV_BID"] = [price |-> p, size |-> size, score |-> share],
                                   !["LONG_BID"] = low]
                 ELSE [asks EXCEPT !["LONG_BID"] =
                         Balancing(e, mid, qOne - QOf(asks["FAV_ASK"]))]]
Balance(e, p, n, share, asks, mid) ==
  Trimmed(e, p, n, share,
        Balancing(e, mid, QOf(asks["LONG_ASK"]) + share * n - QOf(asks["FAV_ASK"])), asks, mid)
Quotes(e, p, n, exits, mid) ==
  LET share == IF p = None THEN 0 ELSE OrderScore("FAV_BID", p, mid)
      rest(s) == IF exits[s] = None THEN None
                 ELSE Scored(s, exits[s].price, exits[s].size, mid)
  IN Balance(e, p, IF share > 0 THEN n ELSE 0, share,
             [NoOrders EXCEPT !["LONG_ASK"] = rest("LONG_ASK"), !["FAV_ASK"] = rest("FAV_ASK")],
             mid)
QuotesOver(e, p, n, exits) == Quotes(e, p, n, exits, QuotedMid(e, p, n, exits))
QuotesAt(e, p, n) ==
  IF BookMid(e) = None THEN [mid |-> None, orders |-> NoOrders]
  ELSE QuotesOver(e, p, n, ExitsAt(e, p))

QTotal(orders, one) == MapThenSumSet(LAMBDA s : QOf(orders[s]), {s \in Slots : QOne(s) = one})
PlanQ(plan) == QMin(QTotal(plan.orders, TRUE), QTotal(plan.orders, FALSE), plan.mid)

(***************************************************************************)
(* What a plan earns                                                       *)
(***************************************************************************)

\* In hundredths of a tick: what is sold goes at the ask, never credited over the worth, and
\* what is not pays the worth at the end, discounted.
ShareValue(worth, ask, n) ==
  LET credit == IF ask = None THEN worth ELSE Min({2 * ask, worth})
  IN (credit * Sold(n) * 100 + worth * (100 - Sold(n)) * (100 - Drag)) \div 200

\* The ask that would rest once the bid has filled.
FillExitPrice(e, bid) ==
  PlanFavAsk([e EXCEPT !.pos.fav = @ + bid.size, !.pos.favCost = @ + bid.size * bid.price],
             BookMid(e))

\* [price, size, reward, cost] a day, a fill sold at the ask `sale`: the fills charged only
\* when a sweep reaches the bid, and never as income.
ValueQuote(e, plan, sale) ==
  LET bid == plan.orders["FAV_BID"]
      q == PlanQ(plan)
      reward == IF q > 0 THEN (Rate * q) \div (q + CompetingScore(e.book, plan.mid)) ELSE 0
      fills == IF SharesAhead(e.book, bid.price) > DepthFree THEN 0
               ELSE bid.size * Fills(plan.mid - 2 * bid.price)
      loss == 100 * bid.price - ShareValue(Worth(e), sale, e.pos.fav + bid.size)
  IN IF bid = None THEN [price |-> None, size |-> 0, reward |-> reward, cost |-> 0]
     ELSE [price |-> bid.price, size |-> bid.size, reward |-> reward,
           cost |-> (fills * AtLeastZero(loss)) \div 100000]
ValueOf(e, plan) ==
  LET bid == plan.orders["FAV_BID"]
  IN ValueQuote(e, plan, IF bid = None THEN None ELSE FillExitPrice(e, bid))
Net(value) == value.reward - value.cost
=============================================================================
