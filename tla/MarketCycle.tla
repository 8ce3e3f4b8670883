----------------------------- MODULE MarketCycle -----------------------------
(* One market over many cycles of the farmer: step_market of farm/reward_farmer.py, with
   the plans of Targets computed, while the others' book moves, our orders fill and the end
   date nears. Farmer.tla has the processes around it: the console, the stop, the database
   and the failures. A duration is a number of cycles. *)
EXTENDS Targets

CONSTANTS Dwell,        \* FREE_DWELL_S
          SoleExit,     \* SOLE_BID_EXIT_S
          DropWindow,   \* cfg.drop_window_s
          DropBy,       \* cfg.drop_threshold, ticks
          DropDepth,    \* DROP_DEPTH
          Cooldown,     \* cfg.cooldown_s
          NakedCooldown,\* cfg.naked_cooldown_s
          Resume,       \* RESUME_MARGIN, half ticks
          Stages,       \* the zones as the end date nears, [free, max, sole] each
          OptedIn,      \* fm.sole_bid
          History,      \* whether the market's own fills have been read
          BookSet,      \* the others' books
          Starts,       \* what a run may begin with: [book, pos, pTrue]
          Signs,        \* what the row or Polymarket may say: "paused", "unrewarded", "retire"
          Parts,        \* the shares a fill may take, besides the whole order
          MaxEvents     \* bound on the moves of the book, the fills, the stages and the signs

VARIABLES levels,   \* what the others rest
          orders,   \* our resting orders, one to a slot
          held,     \* the shares the farm holds and what they cost
          pTrue,    \* fm.p_true, ticks, or None for a market that follows the book
          stage,    \* which of Stages the end date is in
          pos,      \* held as last read
          listed,   \* the orders as this cycle listed them
          state,    \* [phase, left], left of a cooldown
          watch,    \* the midpoints of the dwell, as long as every cycle had one
          asks,     \* the drop asks of the window, None for a cycle without
          since,    \* for how many cycles the others' bids support a bid, or None
          fillMid, nakedFor,
          target,   \* what the cycle just done planned, None once the world has moved
          events
world == <<levels, held, pTrue, stage, events>>
memory == <<pos, state, watch, asks, since, fillMid, nakedFor>>
vars == <<world, orders, memory, listed, target>>

Init ==
  /\ \E s \in Starts : levels = s.book /\ held = s.pos /\ pos = s.pos /\ pTrue = s.pTrue
  /\ orders = NoOrders /\ listed = None /\ stage = 1
  /\ state = [phase |-> "QUOTING", left |-> 0]
  /\ watch = <<>> /\ asks = <<>> /\ since = None /\ fillMid = None /\ nakedFor = 0
  /\ target = None /\ events = 0

(***************************************************************************)
(* The world                                                               *)
(***************************************************************************)

\* An order that would trade at once with the others' at b: post-only, it is refused; and no
\* others' order comes to rest where it meets one of ours, which would fill instead.
Crosses(b, s, o) ==
  LET p == ShownAt(s, o.price)
  IN IF QOne(s) THEN \E q \in Shown : q <= p /\ b.asks[q] > 0
                ELSE \E q \in Shown : q >= p /\ b.bids[q] > 0

Happens == events < MaxEvents /\ events' = events + 1

BookMoves ==
  /\ Happens
  /\ levels' \in BookSet \ {levels}
  /\ \A s \in Slots : orders[s] # None => ~Crosses(levels', s, orders[s])
  /\ target' = None
  /\ UNCHANGED <<orders, held, pTrue, stage, memory, listed>>

Holds(s) == IF Favorite(s) THEN held.fav ELSE held.long

\* n shares of an order trade, ours being at the front of what the others rest or not; an ask
\* sells no more than is held.
Trades(p, s, price, n) ==
  CASE s = "FAV_BID" -> [p EXCEPT !.fav = @ + n, !.favCost = @ + n * price]
    [] s = "LONG_BID" -> [p EXCEPT !.long = @ + n, !.longCost = @ + n * price]
    [] s = "FAV_ASK" -> [p EXCEPT !.fav = @ - n, !.favCost = @ - (n * @) \div p.fav]
    [] s = "LONG_ASK" -> [p EXCEPT !.long = @ - n, !.longCost = @ - (n * @) \div p.long]
OrderFills(s) ==
  /\ orders[s] # None /\ Happens
  /\ \E n \in {orders[s].size} \cup {m \in Parts : m < orders[s].size} :
       /\ Buys(s) \/ n <= Holds(s)
       /\ held' = Trades(held, s, orders[s].price, n)
       /\ orders' = [orders EXCEPT ![s] = IF n = orders[s].size THEN None
                                          ELSE [@ EXCEPT !.size = @ - n]]
  /\ target' = None
  /\ UNCHANGED <<levels, pTrue, stage, memory, listed>>

EndDateNears ==
  /\ stage < Len(Stages) /\ stage' = stage + 1 /\ Happens
  /\ target' = None
  /\ UNCHANGED <<levels, held, pTrue, orders, memory, listed>>

(***************************************************************************)
(* The cycle                                                               *)
(***************************************************************************)

\* A read of the positions: a favorite fill keeps the midpoint before it, a longshot fill
\* keeps the naked bid off the book.
ReadPositions ==
  /\ pos # held
  /\ pos' = held
  /\ fillMid' \in IF held.fav > pos.fav /\ watch # <<>> THEN {Max({watch[i]} \cup ({fillMid} \ {None})) : i \in 1..Len(watch)}
                 ELSE {fillMid}
  /\ nakedFor' = IF held.long > pos.long THEN NakedCooldown ELSE nakedFor
  /\ target' = None
  /\ UNCHANGED <<world, orders, state, watch, asks, since, listed>>

ListOrders ==
  /\ listed = None
  /\ listed' = orders
  /\ UNCHANGED <<world, orders, memory, target>>

LastOf(s, n) == SubSeq(s, Max({1, Len(s) - n + 1}), Len(s))

WatchMid(w, mid) == IF mid = None THEN <<>> ELSE LastOf(Append(w, mid), Dwell + 1)
\* Fault: the midpoint of the cycle alone vouches for the dwell.
SteadyNow(w) == IF w = <<>> THEN None ELSE Last(w)
SteadyMid(w) == IF Len(w) = Dwell + 1 THEN Min({w[i] : i \in 1..Len(w)}) ELSE None

\* The price at which the asks add up to DropDepth reward minimums.
DropAsk(b) ==
  Lowest({p \in Shown : MapThenSumSet(LAMBDA q : b.asks[q], {q \in Shown : q <= p /\ b.asks[q] > 0})
                          >= DropDepth * MinSize})
AskDropped(ask) ==
  /\ ask # None
  /\ \E i \in 1..Len(asks) : asks[i] # None /\ asks[i] - ask >= DropBy

HeldFillMid(mid) ==
  IF fillMid = None \/ pos.fav < OrderMin THEN None
  ELSE IF mid # None /\ mid >= fillMid THEN None ELSE fillMid

Phase(p) == [phase |-> p, left |-> 0]
StepState(sign, mid, ask, sole) ==
  LET was == IF state.phase \in {"PAUSED", "UNREWARDED"} THEN Phase("QUOTING") ELSE state
      left == AtLeastZero(was.left - 1)
  IN IF state.phase = "RETIRED" \/ sign = "retire" THEN Phase("RETIRED")
     ELSE IF sign = "unrewarded" THEN Phase("UNREWARDED")
     ELSE IF sign = "paused" THEN Phase("PAUSED")
     ELSE IF mid = None /\ sole = None
          THEN IF was.phase = "SOLE_BID" THEN Phase("QUOTING") ELSE [was EXCEPT !.left = left]
     ELSE IF AskDropped(ask) THEN [phase |-> "COOLDOWN", left |-> Cooldown]
     ELSE IF was.phase = "COOLDOWN" /\ left > 0 THEN [was EXCEPT !.left = left]
     ELSE IF sole # None THEN Phase("SOLE_BID")
     ELSE IF mid < MinFav THEN Phase("BELOW_RANGE")
     ELSE IF was.phase = "BELOW_RANGE" /\ mid < MinFav + Resume THEN was
     ELSE Phase("QUOTING")

Exchange == AdjustLevels(levels, orders, 1)
\* Support that has lasted ends or forestalls a sole bid: at once for a market that is not
\* one, after SoleExit cycles without a break for one that is.
Older(age) == IF age = None THEN None ELSE Min({age + 1, SoleExit})
SupportAge(e) ==
  IF ~Supported(e) THEN None ELSE IF since = None THEN 0 ELSE Older(since)
SupportHeld(age) == age # None /\ (state.phase # "SOLE_BID" \/ age >= SoleExit)

\* What the cycle plans from, with the book as it is without our own orders.
Seen(book) ==
  LET mid == AdjustedMid(book)
  IN [book |-> book, pos |-> pos, naked |-> nakedFor = 0, fillMid |-> HeldFillMid(mid),
      z |-> [free |-> Stages[stage].free, max |-> Stages[stage].max,
             sole |-> Stages[stage].sole, steady |-> SteadyMid(WatchMid(watch, mid))],
      pTrue |-> pTrue]

\* What is planned in a phase, sole being the sole bid planned.
Planned(phase, e, sole) ==
  CASE phase = "SOLE_BID" -> sole
    [] phase \in {"COOLDOWN", "BELOW_RANGE", "UNREWARDED"}
         -> TargetOf(QuotesAt([e EXCEPT !.naked = FALSE], None, 0), None, None, 0)
    [] phase = "QUOTING" -> AroundKeptBid(TargetOrders(e, History, listed["FAV_BID"]), listed["FAV_BID"], e)
    [] OTHER -> TargetOf([mid |-> BookMid(e), orders |-> NoOrders], None, None, 0)

Cycle(sign) ==
  /\ listed # None
  /\ \E e \in {Seen(StripOwn(Exchange, listed))} :
     \E age \in {IF OptedIn /\ e.naked THEN SupportAge(e) ELSE Older(since)} :
     \E sole \in {IF OptedIn /\ e.naked /\ ~SupportHeld(age) THEN SoleBidTarget(e, listed) ELSE None} :
     \E next \in {StepState(sign, BookMid(e), DropAsk(e.book), sole)} :
     \E t \in {Planned(next.phase, e, sole)} :
       LET kept == {s \in Slots : Keeps(s, listed[s], t, e)}
       IN /\ watch' = WatchMid(watch, BookMid(e)) /\ since' = age /\ fillMid' = e.fillMid
          /\ state' = next
          /\ asks' = LastOf(Append(asks, DropAsk(e.book)), DropWindow)
          /\ nakedFor' = AtLeastZero(nakedFor - 1)
          /\ orders' = [s \in Slots |->
               IF s \in kept THEN orders[s]
               ELSE IF t.orders[s] = None THEN None
               ELSE IF Crosses(levels, s, t.orders[s]) THEN None
               ELSE Order(t.orders[s].price, t.orders[s].size)]
          /\ target' = [plan |-> t, e |-> e, true |-> listed = orders]
  /\ listed' = None
  /\ IF sign = "none" THEN UNCHANGED events ELSE Happens
  /\ UNCHANGED <<levels, held, pTrue, stage, pos>>

Next ==
  \/ BookMoves
  \/ \E s \in Slots : OrderFills(s)
  \/ EndDateNears
  \/ ReadPositions
  \/ ListOrders
  \/ \E sign \in {"none"} \cup Signs : Cycle(sign)

Spec == Init /\ [][Next]_vars

(***************************************************************************)
(* Properties                                                              *)
(***************************************************************************)

Fresh == target # None
Plan == target.plan
Bid(s) == Plan.orders[s]

\* The resting orders never trade with one another: a favorite and a longshot bid that add up
\* to a dollar match, as do two asks that do, and a token's bid at its own ask. A kept order
\* and a new one come from plans of different cycles (reward_farmer.py reconcile, keep_failure,
\* around_kept_bid).
NeverMeetsItself ==
  \A s, r \in Slots :
    (orders[s] # None /\ orders[r] # None /\ QOne(s) /\ ~QOne(r))
       => ShownAt(s, orders[s].price) < ShownAt(r, orders[r].price)

\* target_orders tries a smaller size only while the size before it earns enough to beat the
\* best net so far. That leaves out no price and no size that would have won: the bid chosen
\* earns the most of all, and of equals it has the lowest price.
LadderMissesNothing ==
  (Fresh /\ state.phase = "QUOTING" /\ Plan.best # None) =>
    LET e == target.e
        tried == {<<p, k>> \in FavBidCandidates(e.book, EvCap(e)) \X (1..Len(SizeLadder)) :
                    LadderSize(e.pos, p, k) >= MinSize}
        all == {Valued(e, t[1], LadderSize(e.pos, t[1], t[2])) : t \in tried} \ {None}
        most == {c \in all : \A d \in all : Net(d.value) <= Net(c.value)}
    IN \E c \in most : /\ c.value = Plan.best
                       /\ \A d \in most : c.value.price <= d.value.price

\* The scan plans a market with code of its own (plan_at), "as the farmer prices it with no
\* longshot shares held": at every price of every book it finds the two bids the farmer's
\* quotes_at finds, or neither does. What it lists (assess), the farmer bids on.
ScanPlansAsTheFarmer ==
  Fresh =>
    LET b == target.e.book
        z == target.e.z
        farmed(p) == QuotesAt(ScanOf(b, z), p, Max({MinSize, Capital \div p}))
        bids(plan) == IF plan.orders["FAV_BID"] = None THEN None ELSE plan
    IN /\ \A p \in FavBidCandidates(b, None) : PlanAt(b, p, z) = bids(farmed(p))
       /\ Assess(b, z) # None => TargetOrders(ScanOf(b, z), TRUE, None).orders["FAV_BID"] # None

\* A longshot bid that costs more than the budget leaves has passed the free test against the
\* midpoint of every cycle of the dwell (steady_mid), and no longshot shares wait for an exit.
FreeForTheDwell ==
  (Fresh /\ Bid("LONG_BID") # None /\ Bid("LONG_BID").price * Bid("LONG_BID").size > NakedRoom(pos))
    => /\ Len(watch) = Dwell + 1 /\ FreeZoneOpen(pos)
       /\ \A i \in 1..Len(watch) :
            FreeMaxCost * OrderScore("LONG_BID", Bid("LONG_BID").price, watch[i])
              >= Bid("LONG_BID").price * Band * Band

\* A sole bid makes its own midpoint and is scored against it (sole_bid_around): once its orders
\* rest in the others' book, that is the midpoint the book has, inside the farmed range. So for
\* the farmer's and for the one the scan lists (assess_sole).
MakesItsMid(b, t) ==
  /\ AdjustedMid(AdjustLevels(b, t.orders, 1)) = t.mid
  /\ t.mid >= MinFav /\ \A s \in {"FAV_BID", "LONG_BID"} : t.orders[s].score > 0
SoleBidMakesItsMid ==
  Fresh => /\ state.phase = "SOLE_BID" => MakesItsMid(target.e.book, Plan)
           /\ LET scan == AssessSole(target.e.book, target.e.z)
              IN scan # None => MakesItsMid(target.e.book, scan)

\* Both: what the scan lists is what the farmer bids, and a sole bid of either makes its midpoint.
ScanAgrees == ScanPlansAsTheFarmer /\ SoleBidMakesItsMid

\* A cycle in which nothing but our own orders moved leaves them as they are: they are taken
\* out of the book before it is planned from (strip_own), so that no bid of ours is led by the
\* next, and what the cycle before placed or kept is kept (keep_failure, around_kept_bid).
SameButBook(e, f) == [e EXCEPT !.book = f.book] = f
Settles ==
  [][(/\ Fresh /\ target' # None /\ target.true /\ target'.true
       /\ SameButBook(target.e, target'.e) /\ state' = state)
     => orders' = orders]_vars
=============================================================================
