------------------------------- MODULE MCMarket -------------------------------
EXTENDS MarketCycle

MCShown == 88..99
\* Shares at a few prices, none elsewhere.
Side(f) == [p \in MCShown |-> IF p \in DOMAIN f THEN f[p] ELSE 0]
Book(b, a) == [bids |-> Side(b), asks |-> Side(a)]

DeepBook == Book(92 :> 60 @@ 91 :> 80 @@ 90 :> 200, 95 :> 60 @@ 96 :> 150 @@ 97 :> 300)
Thin == Book(91 :> 30 @@ 89 :> 40, 94 :> 25 @@ 97 :> 90)
Low == Book(90 :> 40 @@ 88 :> 200, 91 :> 60 @@ 95 :> 200)
OneSided == Book(88 :> 10, 96 :> 40 @@ 97 :> 60)
High == Book(96 :> 50 @@ 94 :> 60, 98 :> 40 @@ 99 :> 200)
MCBooks == {DeepBook, Thin, Low, OneSided, High}

MCStages == << [free |-> 2, max |-> 5, sole |-> 3], [free |-> 1, max |-> 2, sole |-> 2] >>
MCFills(d) == IF d >= 11 THEN 10 ELSE 120 - 10 * d
MCSold(n) == IF n <= 30 THEN 67 ELSE Max({5, 67 - (n - 30) \div 2})
\* A market that follows its book, from no shares; and one with a p_true of its own, from an
\* inventory with both exits to rest.
MCStarts ==
  {[book |-> DeepBook, pTrue |-> None, pos |-> NoPosition],
   [book |-> OneSided, pTrue |-> 97, pos |-> [fav |-> 40, favCost |-> 3680, long |-> 25, longCost |-> 75]]}
===============================================================================
