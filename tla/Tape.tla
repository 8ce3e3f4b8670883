--------------------------------- MODULE Tape ---------------------------------
(* Reading a market's trades (farm/reward_screener.py: fetch_read): the pages of every row, those
   of the takers' rows, the mids, while new trades move the rows from page to page; then the
   history and the buy tape made of them. Prices are ticks of the favorite, times units. *)
EXTENDS FillCost

CONSTANTS Rows, Pages,     \* TRADES_PAGE, TRADES_PAGES
          LateKinds,       \* the trades takers make, [asset, side, price, fills], that may come during the read
          Pasts,           \* the trades that may have happened: when, of which kind
          Paths,           \* what the mids may have been: sequences of [t, p]
          Now,             \* when the read begins
          MidsLead, MidsChunk, \* MIDS_LEAD_S, MIDS_CHUNK_S
          Floor,           \* the caller's min_fav
          Others,          \* the histories of the scan's other markets
          TapeRows,        \* TAPE_ROWS_FARMER
          MaxLate          \* bound on the trades during the read

VARIABLES trades,   \* the market's trades, newest first: [at, kind]
          mids,     \* what the mids have been
          phase,    \* "every", "taker", "mids", "made", "failed"
          got,      \* the rows read of the listing being read
          pages,    \* how many of its pages
          every, everyFrom, takers, takerFrom, \* the rows of both, and where they are complete from
          read,     \* [history, tape], None before
          prior     \* the prior of the scan, the default before
vars == <<trades, mids, phase, got, pages, every, everyFrom, takers, takerFrom, read, prior>>

Cutoff == Now - HistoryDays
Other(price) == Top - price

(***************************************************************************)
(* Polymarket's listings of the trades                                     *)
(***************************************************************************)

\* A taker's row, at the volume-weighted price of its fills, and a row for each maker it filled.
TakerRow(n, t) ==
  [tx |-> n, wallet |-> "taker", asset |-> t.kind.asset, side |-> t.kind.side,
   size |-> Total([i \in DOMAIN t.kind.fills |-> t.kind.fills[i].size]),
   price |-> t.kind.price, at |-> t.at]
MakerRow(n, t, i) ==
  LET f == t.kind.fills[i]
  IN [tx |-> n, wallet |-> f.wallet, asset |-> f.asset, side |-> f.side, size |-> f.size,
      price |-> f.price, at |-> t.at]
AllRowsOf(n, t) == <<TakerRow(n, t)>> \o [i \in DOMAIN t.kind.fills |-> MakerRow(n, t, i)]

\* A trade's number counts from the oldest, so that it keeps it.
Listing(takerOnly) ==
  FlattenSeq([i \in DOMAIN trades |->
                LET n == Len(trades) + 1 - i
                IN IF takerOnly THEN <<TakerRow(n, trades[i])>> ELSE AllRowsOf(n, trades[i])])

(***************************************************************************)
(* What the rows say                                                       *)
(***************************************************************************)

ParseTrade(row) == row.size > 0 /\ 0 < row.price /\ row.price < Top

FavPrice(row) == IF row.asset = "favorite" THEN row.price ELSE Other(row.price)
\* Buying the other outcome sells the favorite: the pair is minted or merged.
FavSide(row) ==
  IF row.asset = "favorite" THEN row.side ELSE IF row.side = "BUY" THEN "SELL" ELSE "BUY"

Key(row) == <<row.tx, row.wallet, row.asset, row.side, row.size, row.price>>
Same(rows, row) == Cardinality({i \in DOMAIN rows : Key(rows[i]) = Key(row)})

\* Every row less the takers', each as often as it was listed.
MakerPlaces(taker, all) ==
  {i \in DOMAIN all : ParseTrade(all[i])
     /\ Cardinality({j \in 1..i : Key(all[j]) = Key(all[i])}) > Same(taker, all[i])}

\* A hit's deepest price is the lowest of its own and of its transaction's makers' that bought.
ParseHits(taker, makers) ==
  {[at |-> t.at, deep |-> Min({FavPrice(t)} \cup {FavPrice(m) : m \in
                                  {x \in makers : x.tx = t.tx /\ FavSide(x) = "BUY"}})] :
     t \in {x \in ToSet(taker) : ParseTrade(x) /\ FavSide(x) = "SELL"}}

\* A transaction's shares at each price, of its makers on the other side or, without any, its own.
Pieces(rows) ==
  [p \in {FavPrice(r) : r \in ToSet(rows)} |->
     Total([i \in DOMAIN rows |-> IF FavPrice(rows[i]) = p THEN rows[i].size ELSE 0])]

Sweep(n, side, taker, all, places) ==
  LET own == SelectSeq(taker, LAMBDA r : r.tx = n /\ ParseTrade(r) /\ FavSide(r) = side)
      makers == FoldLeftDomain(LAMBDA acc, i : IF i \in places /\ all[i].tx = n
                                                  /\ FavSide(all[i]) # side
                                               THEN Append(acc, all[i]) ELSE acc, <<>>, all)
  IN [at |-> Min({r.at : r \in ToSet(own)}),
      pieces |-> Pieces(IF makers = <<>> THEN own ELSE makers)]

\* The sweeps of takers on a side of the favorite: _parse_sweeps, behind parse_buys and parse_sells.
ParseSweeps(side, taker, all, places) ==
  {Sweep(n, side, taker, all, places) :
     n \in {r.tx : r \in {x \in ToSet(taker) : ParseTrade(x) /\ FavSide(x) = side}}}

\* The mids are asked for in chunks, whose ends both are read.
FetchMids(from, to) ==
  LET chunks == {lo \in from..(to - 1) : (lo - from) % MidsChunk = 0}
      In(lo, m) == lo <= m.t /\ m.t <= Min({to, lo + MidsChunk})
  IN SelectSeq(mids, LAMBDA m : \E lo \in chunks : In(lo, m))

BuyTape(sweeps, readAt, from) == [sweeps |-> sweeps, readAt |-> readAt, from |-> from]

\* The newest rows of a tape, complete from the oldest kept.
TapeToJson(tape, rows) ==
  LET Newer(s) == Cardinality({x \in tape.sweeps : x.at > s.at})
      kept == {s \in tape.sweeps : Newer(s) < rows}
  IN [v |-> 1, tape |-> IF Cardinality(tape.sweeps) <= rows THEN tape
                        ELSE BuyTape(kept, tape.readAt, Min({s.at : s \in kept}))]
TapeFromJson(row) ==
  LET valid == /\ row.v = 1
               /\ \A s \in row.tape.sweeps :
                    /\ s.at >= row.tape.from /\ DOMAIN s.pieces # {}
                    /\ \A p \in DOMAIN s.pieces : 0 < p /\ p < Top /\ s.pieces[p] > 0
  IN IF row # None /\ valid THEN row.tape ELSE None

(***************************************************************************)
(* The read                                                                *)
(***************************************************************************)

\* The trades of a past, newest first.
TradesAt(past) ==
  FoldLeft(LAMBDA acc, t : IF t \in DOMAIN past
                           THEN <<[at |-> t, kind |-> past[t]]>> \o acc ELSE acc,
           <<>>, [t \in 1..Now |-> t])

Init ==
  /\ \E past \in Pasts : trades = TradesAt(past)
  /\ mids \in Paths
  /\ phase = "every" /\ got = <<>> /\ pages = 0
  /\ every = <<>> /\ everyFrom = 0 /\ takers = <<>> /\ takerFrom = 0
  /\ read = None /\ prior = DefaultPrior

\* A taker trades while the read goes on: the rows already there move down the listing.
Trade(kind) ==
  /\ phase = "taker" \/ (phase = "every" /\ pages > 0)
  /\ Cardinality({i \in DOMAIN trades : trades[i].at >= Now}) < MaxLate
  /\ trades' = <<[at |-> Now + Cardinality({i \in DOMAIN trades : trades[i].at >= Now}),
                  kind |-> kind]>> \o trades
  /\ UNCHANGED <<mids, phase, got, pages, every, everyFrom, takers, takerFrom, read, prior>>

Page(listing) == SubSeq(listing, pages * Rows + 1, Min({Len(listing), (pages + 1) * Rows}))
Oldest(rows, cutoff) == Min({r.at : r \in ToSet(rows)} \cup {IF rows = <<>> THEN cutoff ELSE Now + MaxLate})

\* Fault: a listing the row cap ended counts as read back to the cutoff.
CompleteToCutoff(rows, page, cutoff) == cutoff

\* Complete from the cutoff, unless the row cap ended the listing: then from its oldest row.
CompleteFrom(rows, page, cutoff) ==
  IF Len(page) < Rows \/ Oldest(rows, cutoff) < cutoff THEN cutoff
  ELSE Max({cutoff, Oldest(rows, cutoff)})

\* Pages stop at a short one, at one reaching past the cutoff, or at the most there are.
LastPage(rows, page, cutoff) ==
  Len(page) < Rows \/ Oldest(rows, cutoff) < cutoff \/ pages + 1 = Pages

More(page) ==
  /\ got' = got \o page /\ pages' = pages + 1
  /\ UNCHANGED <<phase, every, everyFrom, takers, takerFrom>>

ReadEvery ==
  /\ phase = "every"
  /\ \E page \in {Page(Listing(FALSE))} :
       IF ~LastPage(got \o page, page, Cutoff) THEN More(page)
       ELSE /\ every' = got \o page /\ everyFrom' = CompleteFrom(got \o page, page, Cutoff)
            /\ phase' = "taker" /\ got' = <<>> /\ pages' = 0
            /\ UNCHANGED <<takers, takerFrom>>
  /\ UNCHANGED <<trades, mids, read, prior>>

ReadTakers ==
  /\ phase = "taker"
  /\ \E page \in {Page(Listing(TRUE))} :
       IF ~LastPage(got \o page, page, everyFrom) THEN More(page)
       ELSE /\ takers' = got \o page /\ takerFrom' = CompleteFrom(got \o page, page, everyFrom)
            /\ phase' = "mids" /\ got' = <<>> /\ pages' = 0
            /\ UNCHANGED <<every, everyFrom>>
  /\ UNCHANGED <<trades, mids, read, prior>>

Start == Max({everyFrom, takerFrom})
Hits == LET places == MakerPlaces(takers, every)
        IN ParseHits(takers, {every[i] : i \in places})
Buys == {s \in ParseSweeps("BUY", takers, every, MakerPlaces(takers, every)) : s.at >= Start}

ReadMids ==
  /\ phase = "mids" /\ phase' = "made"
  /\ \E found \in {FetchMids(Start - PreSweep - MidsLead, Now)} :
       read' = [history |-> MakeHistory(Hits, found, Start, Now, Floor),
                tape |-> BuyTape(Buys, Now, Start)]
  /\ UNCHANGED <<trades, mids, got, pages, every, everyFrom, takers, takerFrom, prior>>

\* A request fails: the market is left out of the scan's histories.
Fails ==
  /\ phase \in {"every", "taker", "mids"} /\ phase' = "failed"
  /\ got' = <<>> /\ pages' = 0 /\ every' = <<>> /\ takers' = <<>>
  /\ UNCHANGED <<trades, mids, everyFrom, takerFrom, read, prior>>

\* The scan's prior, of the markets it read; with too few the stored one stands.
Fit ==
  /\ phase \in {"made", "failed"} /\ phase' = "fit"
  /\ \E pick \in {[i \in {0} \cup Counts |-> s] : s \in ToSet(Strengths)} :
       \E fitted \in {FitPrior(IF read = None THEN Others ELSE Append(Others, read.history),
                               Now, Floor, pick)} :
         prior' = IF fitted = None THEN prior ELSE fitted
  /\ UNCHANGED <<trades, mids, got, pages, every, everyFrom, takers, takerFrom, read>>

Next ==
  \/ \E kind \in LateKinds : Trade(kind)
  \/ ReadEvery \/ ReadTakers \/ ReadMids \/ Fails \/ Fit

(***************************************************************************)
(* What the read promises                                                  *)
(***************************************************************************)

Sells(t) == FavSide(TakerRow(0, t)) = "SELL"
Filled(t) == {f \in ToSet(t.kind.fills) : f.size > 0}
Shares(t, p) == Total([i \in DOMAIN t.kind.fills |->
                         IF FavPrice(t.kind.fills[i]) = p THEN t.kind.fills[i].size ELSE 0])
Whole(t) == Start < t.at /\ t.at < Now
HitOf(t) == [at |-> t.at, deep |-> Min({FavPrice(f) : f \in Filled(t)})]

\* Whatever trades come between two pages, and wherever the row cap cuts the listing: past the
\* second a read says it is complete from, its hits are the sales into favorite bids with their
\* true deepest price, no more and no fewer, and no buy is missing or short of shares.
ReadIsTrue ==
  phase = "made" =>
    LET past == {t \in ToSet(trades) : Whole(t)}
    IN /\ {h \in Hits : Whole(h)} = {HitOf(t) : t \in {x \in past : Sells(x)}}
       /\ \A t \in {x \in past : ~Sells(x)} : \E s \in read.tape.sweeps :
            /\ s.at = t.at /\ DOMAIN s.pieces = {FavPrice(f) : f \in Filled(t)}
            /\ \A p \in DOMAIN s.pieces : s.pieces[p] >= Shares(t, p)

\* What is stored of a read is what the next run reads back: every history made keeps the
\* shape its reader checks for, though each count is declustered for itself; so do the prior
\* and the tape, which cut short still holds every buy after its start; and no bid is charged
\* fewer fills than one farther from the mid.
EvidenceHolds ==
  /\ phase = "made" =>
       /\ HistoryFromJson(HistoryToJson(read.history)) = read.history
       /\ \E kept \in {TapeFromJson(TapeToJson(read.tape, TapeRows))} :
            kept # None /\ kept.sweeps = {s \in read.tape.sweeps : s.at >= kept.from}
  /\ phase = "fit" =>
       /\ PriorFromJson(PriorToJson(prior)) = prior
       /\ \E curve \in {FillCurve(IF read = None THEN None ELSE read.history, prior, Floor)} :
            \A d \in 0..Last(Distances) :
              PerDay(curve, d) >= PerDay(curve, d + 1) /\ PerDay(curve, d + 1) >= FloorRate
=============================================================================
