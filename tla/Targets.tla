------------------------------- MODULE Targets -------------------------------
(* The target of one cycle and what becomes of the orders resting: the search for the
   favorite bid that earns the most, the sole bid, the rules that keep a resting order, and
   the scan's own plan of a market (farm/reward_farmer.py "Planning (pure)",
   farm/reward_screener.py plan_at to assess_sole). *)
EXTENDS Quoting

CONSTANTS FragileDrop   \* config.fragile_drop, half ticks

(***************************************************************************)
(* The favorite bid that earns the most                                    *)
(***************************************************************************)

\* SIZE_LADDER in eighths.
SizeLadder == <<8, 6, 4, 2, 1>>
LadderSize(pos, p, k) == (SizeLadder[k] * CapitalRoom(pos)) \div (8 * p)

\* A target is [mid, orders, best, resting, baseline, sole]: a plan, the value of the bid
\* chosen, the value of the plan around the favorite bid as it rests, the net of the plan
\* with none, and for a sole bid the slots whose resting bid it was planned around.
TargetOf(plan, best, resting, baseline) ==
  [mid |-> plan.mid, orders |-> plan.orders, best |-> best, resting |-> resting,
   baseline |-> baseline, sole |-> None]

\* The plan with the favorite bid at p starting at n, and its value; None when it rests none.
ValuedPlan(e, plan) ==
  IF plan.orders["FAV_BID"] = None THEN None ELSE [plan |-> plan, value |-> ValueOf(e, plan)]
Valued(e, p, n) == ValuedPlan(e, QuotesAt(e, p, n))

\* Of two choices the later one wins a tie: the lower price, then the smaller size.
Better(a, b) == a = None \/ Net(b.value) >= Net(a.value)

Descending(S) ==
  [i \in 1..Cardinality(S) |-> CHOOSE p \in S : Cardinality({q \in S : q > p}) = i - 1]

\* One rung of the ladder at p, acc the search so far: the best choice, the highest net, and
\* the reward of the size before at this price, None once smaller sizes are out.
Tried(choice, acc) ==
  IF choice = None THEN [acc EXCEPT !.reward = None]
  ELSE [best |-> IF Better(acc.best, choice) THEN choice ELSE acc.best,
        bar |-> Max({acc.bar, Net(choice.value)}), reward |-> choice.value.reward]
Rung(e, p, k, full, acc) ==
  Tried(IF k = 1 THEN full
        ELSE IF acc.reward = None \/ LadderSize(e.pos, p, k) < MinSize THEN None
        ELSE IF acc.reward < acc.bar THEN None ELSE Valued(e, p, LadderSize(e.pos, p, k)), acc)

\* Fault: the full size sets the bar for its own price alone.
FullSizeOnly(e, p, full, acc) == Rung(e, p, 1, full, acc)
Ladder(e, p, full, acc) ==
  FoldLeft(LAMBDA x, k : Rung(e, p, k, full, x), acc, [k \in 1..Len(SizeLadder) |-> k])

\* The best of the prices and sizes tried. Every price is valued at its full size first,
\* which sets the bar a smaller size's reward has to reach to be tried.
BestOf(e, prices, full) ==
  LET at(p) == {c \in full : c.value.price = p}
      start == [best |-> None, bar |-> Max({Net(c.value) : c \in full}), reward |-> None]
  IN IF full = {} THEN None
     ELSE FoldLeft(LAMBDA acc, p : Ladder(e, p, IF at(p) = {} THEN None ELSE CHOOSE c \in at(p) : TRUE,
                                          acc), start, Descending(prices)).best
BestChoice(e, prices) ==
  BestOf(e, prices, {Valued(e, p, LadderSize(e.pos, p, 1)) : p \in prices} \ {None})

\* The best choice rests when it nets more than the plan without a favorite bid.
TargetWith(base, baseline, best, around) ==
  IF base.mid = None THEN TargetOf(base, None, None, 0)
  ELSE IF best = None THEN TargetOf(base, None, None, baseline)
  ELSE IF Net(best.value) <= baseline THEN TargetOf(base, None, None, baseline)
  ELSE TargetOf(best.plan, best.value, IF around = None THEN None ELSE around.value, baseline)
TargetAmong(e, base, prices, history, resting) ==
  TargetWith(base, Net(ValueOf(e, base)), IF history THEN BestChoice(e, prices) ELSE None,
             IF resting # None /\ resting.price \in prices
             THEN Valued(e, resting.price, resting.size) ELSE None)

\* history says the fills are drawn from the market's own; resting is the favorite bid
\* resting, or None.
TargetOrders(e, history, resting) ==
  TargetAmong(e, QuotesAt(e, None, 0), FavBidCandidates(e.book, EvCap(e)), history, resting)

\* Whether the others' bids carry a favorite bid: a midpoint in range, and a price at which
\* the plan rests one.
Supported(e) ==
  /\ BookMid(e) # None /\ BookMid(e) >= MinFav
  /\ \E p \in FavBidCandidates(e.book, EvCap(e)) :
        QuotesAt([e EXCEPT !.naked = TRUE], p, LadderSize(e.pos, p, 1)).orders["FAV_BID"] # None

(***************************************************************************)
(* The sole bid                                                            *)
(***************************************************************************)

SoleLongAllowed(p, z) == IF p <= 1 THEN ~OverMaxReturn(p, z) ELSE p < z.sole

\* A sole bid's favorite bid, [price, size, stays]: as high over the lowest price that scores
\* as its lead, the cap and the ask let it, the one resting staying in reach of that; None
\* when there is no such price, or with fullLead when it cannot have its lead.
SoleFavBid(e, bid, lowest, ceiling, fullLead) ==
  LET price == Min({lowest + SoleLead, ceiling})
      stays == /\ bid # None
               /\ bid.price \in lowest..Min({price + SoleKeep, ceiling})
               /\ bid.size >= MinSize
               /\ 4 * bid.price * bid.size <= 5 * CapitalRoom(e.pos)
  IN IF price < lowest \/ (fullLead /\ lowest + SoleLead > ceiling) THEN None
     ELSE IF stays THEN [price |-> bid.price, size |-> bid.size, stays |-> TRUE]
     ELSE [price |-> price, size |-> CapitalRoom(e.pos) \div price, stays |-> FALSE]

\* Its target, around the longshot bid low, [price, size, kept].
SoleOrders(e, fav, low, favAsk, mid) ==
  [FAV_BID |-> Scored("FAV_BID", fav.price, fav.size, mid),
   LONG_BID |-> Scored("LONG_BID", low.price, low.size, mid),
   LONG_ASK |-> IF e.pos.long < OrderMin THEN None
                ELSE Scored("LONG_ASK", PlanLongAsk(e, fav.price), e.pos.long, mid),
   FAV_ASK |-> IF favAsk = None THEN None ELSE Scored("FAV_ASK", favAsk, e.pos.fav, mid)]
SoleTarget(orders, fav, low, mid) ==
  IF fav.size < MinSize \/ mid < MinFav THEN None
  ELSE IF orders["FAV_BID"].score = 0 \/ orders["LONG_BID"].score = 0 THEN None
  ELSE [mid |-> mid, orders |-> orders, best |-> None, resting |-> None, baseline |-> 0,
        sole |-> {s \in Slots : (s = "FAV_BID" /\ fav.stays) \/ (s = "LONG_BID" /\ low.kept)}]
SoleBidMid(e, fav, ask) ==
  CreatedMid(fav.price, IF BestBid(e.book) = None THEN 0 ELSE BestBid(e.book), ask)
SoleMade(e, fav, low, favAsk, mid) == SoleTarget(SoleOrders(e, fav, low, favAsk, mid), fav, low, mid)
SoleWith(e, fav, low, favAsk, ask) ==
  IF fav = None THEN None ELSE SoleMade(e, fav, low, favAsk, SoleBidMid(e, fav, ask))

\* The asks that hold the favorite bid down: the others', the longshot bid's in the
\* favorite's book, and our own exit when it counts.
SoleUnder(e, orders, low, edge, cap, favAsk, ask, fullLead) ==
  SoleWith(e, SoleFavBid(e, orders["FAV_BID"], Max({1, edge - ask + 1, ask - Band + 1}),
                         Min({cap, TopAsk(e.book) - 1, ask - 1}), fullLead),
           low, favAsk, ask)
SoleBeside(e, orders, low, edge, favAsk, fullLead) ==
  IF BestAsk(e.book) = None \/ EvCap(e) = None THEN None
  ELSE SoleUnder(e, orders, low, edge, EvCap(e), favAsk,
                 Min({BestAsk(e.book), Mirror(low.price)}
                     \cup (IF favAsk # None /\ e.pos.fav >= MinSize THEN {favAsk} ELSE {})),
                 fullLead)
SoleBidAround(e, orders, low, fullLead) ==
  LET edge == 2 * Mirror(low.price) - Band
  IN SoleBeside(e, orders, low, edge,
                IF e.pos.fav >= OrderMin THEN PlanFavAsk(e, edge) ELSE None, fullLead)

\* The longshot bids a sole bid may be planned around, in the order they are tried: the one
\* resting or the cheapest, then down from the highest allowed.
SoleLongBids(e, orders) ==
  LET room == NakedRoom(e.pos)
      low == orders["LONG_BID"]
      kept == low # None /\ low.size >= MinSize /\ SoleLongAllowed(low.price, e.z)
      new(p) == [price |-> p, size |-> room \div p, kept |-> FALSE]
      first == IF kept THEN <<[price |-> low.price, size |-> low.size, kept |-> TRUE]>>
               ELSE IF SoleLongAllowed(1, e.z) /\ room >= MinSize THEN <<new(1)>> ELSE <<>>
      over == {p \in 2..(Dollar - 1) : /\ SoleLongAllowed(p, e.z) /\ room \div p >= MinSize
                                       /\ kept => p > low.price}
  IN first \o [i \in 1..Cardinality(over) |-> new(Descending(over)[i])]

\* The first plan that rests: under TWO_SIDED_ABOVE only around the longshot bid resting or
\* the cheapest one.
SoleRests(low, t) == t # None /\ (low.kept \/ low.price = 1 \/ t.mid > TwoSided)
SoleFirst(e, orders, longs, fullLead) ==
  FoldLeft(LAMBDA found, low :
             LET t == IF found = None THEN SoleBidAround(e, orders, low, fullLead) ELSE None
             IN IF found # None THEN found ELSE IF SoleRests(low, t) THEN t ELSE None,
           None, longs)
SoleElse(first, e, orders, longs) ==
  IF first # None THEN first ELSE SoleFirst(e, orders, longs, FALSE)
SoleBidTarget(e, orders) ==
  LET longs == SoleLongBids(e, orders)
  IN SoleElse(SoleFirst(e, orders, longs, TRUE), e, orders, longs)

(***************************************************************************)
(* What becomes of the orders resting                                      *)
(***************************************************************************)

AbsOf(n) == IF n < 0 THEN -n ELSE n
Sized(n, wanted) == 10 * n >= 8 * wanted /\ 4 * n <= 5 * wanted

\* Judged by the net of the orders planned around it as it rests.
KeepsFavBid(o, t, e) ==
  LET slack == Max({((100 - KeepRatio) * AbsOf(Net(t.best))) \div 100, NetSlack})
  IN /\ t.resting # None
     /\ Net(t.resting) >= Net(t.best) - slack
     /\ Net(t.resting) > t.baseline
     /\ Sized(o.size, t.resting.size)
     /\ EvCap(e) # None /\ o.price <= EvCap(e)
     /\ 4 * o.price * o.size <= 5 * CapitalRoom(e.pos)

\* Fault: judged by its price and its cost, whatever it still scores.
KeepsLongBidUnscored(o, t, e) ==
  /\ ~OverMaxReturn(o.price, e.z)
  /\ o.price <= t.orders["LONG_BID"].price \/ o.price <= 3
  /\ o.price * o.size <= NakedRoom(e.pos)

\* Judged by the score it covers, within the return limit and the budget.
KeepsLongBid(o, t, e) ==
  LET need == QOf(t.orders["LONG_BID"])
      share == OrderScore("LONG_BID", o.price, t.mid)
      free == FreeOfBudget(o.price, t.mid, e.pos, e.z)
  IN /\ ~OverMaxReturn(o.price, e.z)
     /\ \/ o.price <= t.orders["LONG_BID"].price \/ o.price <= 3
        \/ OrderScore("LONG_BID", o.price - 3, t.mid) < MinLowScore
     /\ 100 * share * (o.size + 1) >= KeepRatio * need
     /\ o.price = 1 \/ share * o.size <= 2 * need \/ free
     /\ o.price * o.size <= NakedRoom(e.pos) \/ free

KeepsFavAsk(o, t, e) ==
  LET wanted == t.orders["FAV_ASK"]
  IN /\ o.price >= wanted.price - 2
     /\ 100 * OrderScore("FAV_ASK", o.price, t.mid)
          >= KeepRatio * OrderScore("FAV_ASK", wanted.price, t.mid)
     /\ Sized(o.size, wanted.size)
     /\ o.price >= ExitFloor(e.pos)

KeepsLongAsk(o, t, e) ==
  /\ o.price <= t.orders["LONG_ASK"].price
  /\ Sized(o.size, t.orders["LONG_ASK"].size)
  /\ o.price >= LongExitFloor(e.pos)

Keeps(s, o, t, e) ==
  /\ o # None /\ t.orders[s] # None
  /\ IF t.sole # None /\ Buys(s) THEN s \in t.sole
     ELSE CASE s = "FAV_BID" -> KeepsFavBid(o, t, e)
            [] s = "LONG_BID" -> KeepsLongBid(o, t, e)
            [] s = "FAV_ASK" -> KeepsFavAsk(o, t, e)
            [] s = "LONG_ASK" -> KeepsLongAsk(o, t, e)

\* Re-planned around the favorite bid that stays, so that what balances it is sized for it.
Replanned(t, around) ==
  IF around.orders["FAV_BID"] = None THEN t
  ELSE [t EXCEPT !.mid = around.mid, !.orders = around.orders]
AroundKeptBid(t, bid, e) ==
  IF ~Keeps("FAV_BID", bid, t, e) THEN t
  ELSE IF Order(t.orders["FAV_BID"].price, t.orders["FAV_BID"].size) = bid THEN t
  ELSE Replanned(t, QuotesAt(e, bid.price, bid.size))

(***************************************************************************)
(* The scan's plan of a market, from no position                           *)
(***************************************************************************)

\* Fault: the favorite bid keeps its size when the longshot bid leaves it short.
PlanPairWhole(p, size, share, low, mid) ==
  IF low = None THEN None
  ELSE [mid |-> mid, orders |-> [NoOrders EXCEPT !["LONG_BID"] = low,
          !["FAV_BID"] = [price |-> p, size |-> size, score |-> share]]]
\* The favorite bid at p and the longshot bid that balances it; None for a Skip.
PlanPair(p, size, share, low, mid) ==
  LET trimmed == Min({size, QOf(low) \div share})
  IN IF low = None THEN None
     ELSE IF trimmed < MinSize THEN None
     ELSE [mid |-> mid, orders |-> [NoOrders EXCEPT !["LONG_BID"] = low,
             !["FAV_BID"] = [price |-> p, size |-> trimmed, score |-> share]]]
PlanScored(b, p, size, mid, z) ==
  LET share == Score(mid - 2 * p)
  IN IF share = 0 THEN None
     ELSE PlanPair(p, size, share,
                   LongshotBid(b, mid, share * size, Budget, [z EXCEPT !.steady = AdjustedMid(b)]),
                   mid)
PlanAt(b, p, z) ==
  LET size == Max({MinSize, Capital \div p})
  IN PlanScored(b, p, size,
                AdjustedMid(AdjustLevels(b, [NoOrders EXCEPT !["FAV_BID"] = Order(p, size)], 1)), z)

\* What values it: the book alone, as there is no position.
ScanOf(b, z) == [book |-> b, pos |-> NoPosition, z |-> [z EXCEPT !.steady = AdjustedMid(b)],
                 naked |-> TRUE, fillMid |-> None, pTrue |-> None]
\* The plan that earns the most, ties to the lower price.
Priced(b, p, plan, z) == [price |-> p, plan |-> plan, net |-> Net(ValueQuote(ScanOf(b, z), plan, None))]
MostOf(plans) ==
  LET best == {c \in plans : \A d \in plans : d.net < c.net \/ (d.net = c.net /\ d.price >= c.price)}
  IN IF plans = {} THEN None
     ELSE LET c == CHOOSE c \in best : TRUE IN IF c.net <= 0 THEN None ELSE c.plan
PlanQuotes(b, z) ==
  MostOf({Priced(b, p, PlanAt(b, p, z), z) :
            p \in {q \in FavBidCandidates(b, None) : PlanAt(b, q, z) # None}})

Assess(b, z) ==
  IF AdjustedMid(b) = None THEN None
  ELSE IF AdjustedMid(b) < MinFav \/ FragileMid(b, FragileDrop) THEN None ELSE PlanQuotes(b, z)
\* Only the ask caps a sole bid of the scan: its p_true is a dollar, with no margin.
AssessSole(b, z) == SoleBidTarget([ScanOf(b, z) EXCEPT !.pTrue = Dollar + EvMargin], NoOrders)
=============================================================================
