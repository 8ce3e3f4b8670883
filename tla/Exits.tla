-------------------------------- MODULE Exits --------------------------------
(* What a favorite exit is worth (farm/exit_value.py): the buys of a tape weighed, the rate an
   ask sells at, and the curve of an inventory's values, filled in from the top down as far as
   its callers reach. Prices are ticks, times units; what the exponentials of a rate come to is
   a table by the rate's level. *)
EXTENDS Integers, SequencesExt

CONSTANTS Top,        \* the price of a share that pays out: asks rest up to a tick under it
          Stride,     \* the curve's step, a multiple of the tick
          Tapes,      \* the tapes a market may have, None for the prior alone
          Weight,     \* what a sweep weighs by its age, falling: a sequence
          ReadAt,     \* when a tape was read
          Sizes,      \* the buckets of the inventory sizes
          PriorMarks, \* the shares a sweep takes under the prior, by yield and size
          Arrivals,   \* the prior's sweeps a unit of time
          MarkBuys, ArrivalTime, \* the prior's strengths: ExitParams
          Sold,       \* of a price, what an ask brings before the sales stop, by the rate's level
          Unsold,     \* of p_true, what is left unsold brings, by the rate's level
          PTrue,
          Holdings,   \* [shares, cost] the exits may be valued around
          MinCapture, \* policy.min_capture
          Tie,        \* EXIT_TIE_USD
          Added,      \* the shares a bid may add
          MaxCalls,   \* bound on the calls of one model
          None

VARIABLES tape, holding,
          curves, \* the curves built so far, by bucket: [down, best], the values from the top down
          held,   \* what the holding is worth, None before it is asked for
          calls,
          answer  \* what the last call returned
vars == <<tape, holding, curves, held, calls, answer>>

(***************************************************************************)
(* The rate of sales: TapeView, ExitPrior, sales_rate                      *)
(***************************************************************************)

\* The return a buyer accepts: here the ticks under the top, whenever it bought.
Yield(price) == Top - price

\* The effective sweeps of a tape, and the effective time it is complete for.
W(t) == FoldLeft(LAMBDA acc, s : acc + Weight[1 + ReadAt - s.at], 0, t.sweeps)
D(t) == FoldLeft(+, 0, [a \in 1..(ReadAt - t.from) |-> Weight[a]])

\* The shares a sweep took at yields up to r, capped at the inventory resting.
Took(s, r, size) ==
  Min({size, FoldLeft(LAMBDA acc, p : acc + (IF Yield(p.price) <= r THEN p.size ELSE 0),
                      0, s.pieces)})
Cum(t, r, size) ==
  FoldLeft(LAMBDA acc, s : acc + Weight[1 + ReadAt - s.at] * Took(s, r, size), 0, t.sweeps)

\* A count over its exposure, shrunk toward the prior's rate by its strength, undivided.
Shrunk(seen, exposure, rate, strength) ==
  IF exposure + strength > 0 THEN [n |-> seen + strength * rate, d |-> exposure + strength]
                             ELSE [n |-> rate, d |-> 1]

\* The prior's mark: nothing at no yield, flat past the grid.
Mark(r, size) == IF r = 0 THEN 0 ELSE PriorMarks[Min({r, Len(PriorMarks)})] * size

Product(a, b) == [n |-> a.n * b.n, d |-> a.d * b.d]
SalesRate(r, size) ==
  IF tape = None THEN [n |-> Arrivals * Mark(r, size), d |-> 1]
  ELSE Product(Shrunk(W(tape), D(tape), Arrivals, ArrivalTime),
               Shrunk(Cum(tape, r, size), W(tape), Mark(r, size), MarkBuys))

(***************************************************************************)
(* An inventory's curve: ExitCurve                                         *)
(***************************************************************************)

LevelOf(rate, size) == Min({Len(Sold), 1 + (rate.n \div (rate.d * size))})
AtLevel(price, i) == [price |-> price, worth |-> price * Sold[i] + PTrue * Unsold[i]]
ValueAt(size, price) == AtLevel(price, LevelOf(SalesRate(Yield(price), size), size))

LastAsk == Top - 1
TopStep == LastAsk \div Stride
Step(price) == Max({1, (price + Stride - 1) \div Stride})
OnGrid(price) == price % Stride = 0

\* The better of a new value and the best over it; of equals, the new one, whose price is lower.
Better(v, best) == IF v.worth >= best.worth THEN v ELSE best

\* Fault: of equals, the best already there stands.
FilledKeepsFirst(c, v) ==
  [down |-> Append(c.down, v),
   best |-> Append(c.best, IF c.best = <<>> \/ v.worth > Last(c.best).worth THEN v ELSE Last(c.best))]

Filled(c, v) ==
  [down |-> Append(c.down, v),
   best |-> Append(c.best, IF c.best = <<>> THEN v ELSE Better(v, Last(c.best)))]

\* The curve valued down to the lowest grid ask at or over the price.
GridFrom(c, size, price) ==
  FoldLeft(LAMBDA acc, j : Filled(acc, ValueAt(size, j)), c,
           [i \in 1..(TopStep - Step(price) + 1 - Len(c.down)) |->
              (TopStep - Len(c.down) - i + 1) * Stride])

\* The values at the price and each grid ask over it, ascending, of a curve valued so far.
ValuesFrom(c, size, price) ==
  LET grid == Reverse(SubSeq(c.down, 1, TopStep - Step(price) + 1))
  IN IF price > LastAsk THEN <<>>
     ELSE IF OnGrid(price) /\ grid # <<>> THEN grid ELSE <<ValueAt(size, price)>> \o grid

BestFrom(c, size, price) ==
  LET k == Step(price)
      best == IF k <= TopStep THEN c.best[TopStep - k + 1] ELSE None
      own == ValueAt(size, price)
  IN IF price > LastAsk THEN None
     ELSE IF OnGrid(price) /\ k <= TopStep THEN best
     ELSE IF best = None THEN own ELSE Better(own, best)

(***************************************************************************)
(* The model of one market and one holding: ExitModel                      *)
(***************************************************************************)

Off(n, size) == Max({n - size, size - n})
Bucket(size) == Min({n \in Sizes : \A m \in Sizes : Off(n, size) <= Off(m, size)})

Empty == [down |-> <<>>, best |-> <<>>]

Init ==
  /\ tape \in Tapes /\ holding \in Holdings
  /\ curves = [n \in Sizes |-> Empty] /\ held = None
  /\ calls = 0 /\ answer = None

Reaches(cs, size, price) ==
  IF price > LastAsk THEN cs ELSE [cs EXCEPT ![size] = GridFrom(@, size, price)]

Call(result) ==
  /\ calls < MaxCalls /\ calls' = calls + 1 /\ answer' = result
  /\ UNCHANGED <<tape, holding>>

\* The ask for the holding, at lowest or over it: the lowest within the tie of the best.
Near(values, shares) ==
  {v \in ToSet(values) : v.worth * shares >= Max({u.worth : u \in ToSet(values)}) * shares - Tie}
Chosen(values, shares) ==
  IF values = <<>> THEN None ELSE CHOOSE v \in Near(values, shares) :
                                    \A u \in Near(values, shares) : v.price <= u.price

Choose(lowest) ==
  /\ holding.shares > 0
  /\ \E n \in {Bucket(holding.shares)} : \E cs \in {Reaches(curves, n, lowest)} :
       /\ curves' = cs
       /\ Call([call |-> "choose", size |-> n, from |-> lowest,
                value |-> Chosen(ValuesFrom(cs[n], n, lowest), holding.shares)])
  /\ UNCHANGED held

ChooseNothing(lowest) ==
  /\ holding.shares = 0
  /\ Call([call |-> "none", from |-> lowest])
  /\ UNCHANGED <<curves, held>>

\* What a bid's fill adds: the best ask's value of the holding with it, less that of the holding.
Hold == [price |-> None, worth |-> PTrue * Unsold[1]]
Best(cs, n, floor) == IF floor > LastAsk THEN Hold ELSE BestFrom(cs[n], n, floor)
FloorOf(cost, shares) == ((cost + shares - 1) \div shares) + MinCapture

Worth(cs) == IF held # None THEN held ELSE IF holding.shares = 0 THEN 0
             ELSE holding.shares * Best(cs, Bucket(holding.shares),
                                        FloorOf(holding.cost, holding.shares)).worth
WithHeld == IF held # None \/ holding.shares = 0 THEN curves
            ELSE Reaches(curves, Bucket(holding.shares), FloorOf(holding.cost, holding.shares))

Fill(added, bid) ==
  LET total == holding.shares + added
      floor == FloorOf(holding.cost + added * bid, total)
  IN \E n \in {Bucket(total)} : \E first \in {WithHeld} : \E cs \in {Reaches(first, n, floor)} :
       \E worth \in {Worth(first)} :
         /\ curves' = cs /\ held' = worth
         /\ Call([call |-> "fill", size |-> n, from |-> floor, value |-> Best(cs, n, floor),
                  adds |-> total * Best(cs, n, floor).worth - worth])

Next ==
  \/ \E lowest \in 1..Top : Choose(lowest) \/ ChooseNothing(lowest)
  \/ \E added \in Added, bid \in 1..LastAsk : Fill(added, bid)

(***************************************************************************)
(* What the model promises                                                 *)
(***************************************************************************)

\* Every ask that may rest at a price or over it, each valued for itself.
Asks(size, from) == {ValueAt(size, p) : p \in {q \in from..LastAsk : q = from \/ q % Stride = 0}}
Highest(size, from) == Max({v.worth : v \in Asks(size, from)})

\* Whatever was asked of the curves before, as they are only valued as far down as a caller
\* reached: a fill is valued at the best of every ask over its floor, the cheapest of equals,
\* what it adds is counted from what the holding alone is worth, and the ask chosen is the
\* cheapest within the tie of the best.
ExitIsBest ==
  /\ answer # None /\ answer.call = "fill" =>
       /\ IF answer.from > LastAsk THEN answer.value = Hold
          ELSE \E v \in Asks(answer.size, answer.from) :
                 /\ answer.value = v /\ v.worth = Highest(answer.size, answer.from)
                 /\ \A u \in Asks(answer.size, answer.from) : u.worth = v.worth => v.price <= u.price
  /\ answer # None /\ answer.call = "choose" =>
       IF answer.from > LastAsk THEN answer.value = None
       ELSE \E v \in Asks(answer.size, answer.from) :
              /\ answer.value = v
              /\ \A u \in Asks(answer.size, answer.from) :
                   u.price < v.price
                   => (Highest(answer.size, answer.from) - u.worth) * holding.shares > Tie
              /\ (Highest(answer.size, answer.from) - v.worth) * holding.shares <= Tie
=============================================================================
