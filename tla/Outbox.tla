-------------------------------- MODULE Outbox --------------------------------
(* What the farmer remembers of a market through farm.db (farm/reward_farmer.py: emit, flush,
   refresh_positions, last_fill_mid, settle; farm/farm_db.py: publish): its fills and midpoints
   wait in memory for the flush, and a restart takes the price its exit needs from what was
   published, of which every start drops what is too old. Times are cycles. *)
EXTENDS Integers, SequencesExt

CONSTANTS Mids,         \* the midpoints the book may have
          Lots,         \* how the favorite and longshot shares may change between two cycles
          OrderMin,     \* ORDER_MIN_SHARES
          PositionsS,   \* POSITIONS_S
          MidSampleS,   \* MID_SAMPLE_S
          Lookback,     \* FILL_MID_LOOKBACK_S
          Limit,        \* of the fills read back
          EventsKept, MidsKept, \* EVENTS_KEPT_DAYS, MIDS_KEPT_DAYS
          MaxNow, MaxFills, MaxFaults, \* bounds on the time, the fills, and the failures and ends
          None

\* The shares held of each token, what is recorded of a fill, and a midpoint sampled.
Shares == [fav : Nat, long : Nat]
Events == [id : Nat, at : Nat, slot : {"FAV_BID", "FAV_ASK", "LONG_BID", "LONG_ASK"}, fillMid : Mids \cup {None}]
MidSamples == [at : Nat, mid : Mids]

OutboxAssumption ==
  /\ Mids \subseteq Int /\ None \notin Mids /\ None \notin Shares /\ None \notin Events
  /\ PositionsS \in Nat \ {0} /\ MidSampleS \in Nat /\ MaxFills \in Nat
  /\ Lots \subseteq Int \X Int
  /\ Lookback \in Nat /\ Limit \in Nat /\ EventsKept \in Nat /\ MidsKept \in Nat

VARIABLES now, mid, held, \* the world; the shares are [fav, long]
          fills, faults,  \* so far
          pc,        \* "down", "positions", "plan", "flush", "between"
          seen,      \* managed.position as last read, or None
          readAt,    \* positions_at
          fillMid,   \* managed.fill_mid
          midAt,     \* mid_sampled_at
          events, mids,  \* what waits for the flush
          log, stored,   \* farm.db: farm_events and farm_mids
          emitted, first \* the number of the last event, and of the first of this run
farmer == <<seen, readAt, fillMid, midAt, events, mids, emitted, first>>
published == <<log, stored>>
vars == <<now, mid, held, fills, faults, pc, farmer, published>>

Init ==
  /\ now = 1 /\ mid \in Mids /\ held = [fav |-> 0, long |-> 0] /\ fills = 0 /\ faults = 0 /\ pc = "down"
  /\ seen = None /\ readAt = 0 /\ fillMid = None /\ midAt = None
  /\ events = <<>> /\ mids = <<>> /\ emitted = 0 /\ first = 1
  /\ log = <<>> /\ stored = <<>>

(***************************************************************************)
(* The fill mid                                                            *)
(***************************************************************************)

Highest(ms) == IF ms \ {None} = {} THEN None ELSE Max(ms \ {None})

\* The slots that filled between two reads: a bid by more shares, its ask by fewer.
FillEvents(before, after) ==
  (IF after.fav = before.fav THEN <<>>
   ELSE <<IF after.fav > before.fav THEN "FAV_BID" ELSE "FAV_ASK">>)
  \o (IF after.long = before.long THEN <<>>
      ELSE <<IF after.long > before.long THEN "LONG_BID" ELSE "LONG_ASK">>)

\* The samples PositionsS or more before a fill was seen, as far as they are read back.
Before(at, samples) ==
  {i \in DOMAIN samples : samples[i].mid # None /\ samples[i].at \in (at - Lookback)..(at - PositionsS)}

\* pre_fill_mid: the mid of the last of them.
FillMidSeen(at, samples) ==
  IF Before(at, samples) = {} THEN None ELSE samples[Max(Before(at, samples))].mid

\* The fill mid while it prices an exit: there are shares to rest one, and the mid is under it.
HeldFillMid == IF fillMid = None \/ seen.fav < OrderMin \/ mid >= fillMid THEN None ELSE fillMid

\* The newest fills first, no more than Limit.
ReadFills(rows) == SubSeq(Reverse(rows), 1, Min({Limit, Len(rows)}))

\* Fault: the last fill on record is taken, whichever slot it filled.
LastOfAnySlot(back) == IF back = <<>> THEN None ELSE back[1]

\* The last favorite bid's fill.
LastBought(back) ==
  LET favs == {i \in DOMAIN back : back[i].slot = "FAV_BID"}
  IN IF favs = {} THEN None ELSE back[Min(favs)]

\* The fill mid of shares held at the start: the mid before the last favorite fill on record, or
\* the fill mid that fill recorded.
LastFillMid(rows, samples) ==
  LET last == LastBought(ReadFills(rows))
  IN IF last = None THEN None ELSE Highest({last.fillMid, FillMidSeen(last.at, samples)})

\* prune_events, prune_mids: the rows of a time before t are deleted, and rows are in order of time.
Since(rows, t) ==
  SubSeq(rows, 1 + Max({n \in 0..Len(rows) : \A i \in 1..n : rows[i].at < t}), Len(rows))
KeptEvents == Since(log, now - EventsKept)
KeptMids == Since(stored, now - MidsKept)

(***************************************************************************)
(* The world                                                               *)
(***************************************************************************)

\* Between two cycles the book moves and orders fill.
Tick(m, lot) ==
  /\ pc \in {"between", "down"} /\ now < MaxNow /\ now' = now + 1 /\ mid' = m
  /\ lot # <<0, 0>> => pc = "between" /\ fills < MaxFills
  /\ held.fav + lot[1] >= 0 /\ held.long + lot[2] >= 0
  /\ held' = [fav |-> held.fav + lot[1], long |-> held.long + lot[2]]
  /\ fills' = IF lot = <<0, 0>> THEN fills ELSE fills + 1
  /\ pc' = IF pc = "between" THEN "positions" ELSE pc
  /\ UNCHANGED <<faults, farmer, published>>

(***************************************************************************)
(* A run of the farmer                                                     *)
(***************************************************************************)

Fault(happens) == faults' = faults + (IF happens THEN 1 ELSE 0) /\ faults' <= MaxFaults

Start ==
  /\ pc = "down" /\ pc' = "positions"
  /\ log' = KeptEvents /\ stored' = KeptMids
  /\ readAt' = now /\ first' = emitted + 1
  /\ UNCHANGED <<now, mid, held, fills, faults, seen, fillMid, midAt, events, mids, emitted>>

\* A read of the positions, where one is due: the first takes the fill mid from the record.
FirstRead ==
  /\ fillMid' = IF held.fav >= OrderMin THEN LastFillMid(log, stored) ELSE fillMid
  /\ UNCHANGED <<events, emitted>>

\* A favorite fill's event says the fill mid, which weighs the earlier ones too.
RecordFill(n, slot, of) ==
  [id |-> n, at |-> now, slot |-> slot, fillMid |-> IF slot = "FAV_BID" THEN of ELSE None]

LaterRead ==
  LET slots == FillEvents(seen, held)
      bought == Contains(slots, "FAV_BID")
      of == IF bought THEN Highest({fillMid, FillMidSeen(now, stored)}) ELSE fillMid
  IN /\ fillMid' = of
     /\ events' = events \o [i \in DOMAIN slots |-> RecordFill(emitted + i, slots[i], of)]
     /\ emitted' = emitted + Len(slots)

RefreshPositions ==
  /\ pc = "positions" /\ pc' = "plan"
  /\ IF seen = None \/ now >= readAt
     THEN /\ \/ /\ seen' = held /\ UNCHANGED faults
                /\ seen = None => FirstRead
                /\ seen # None => LaterRead
             \/ Fault(TRUE) /\ UNCHANGED <<seen, fillMid, events, emitted>>  \* the request failed
          /\ readAt' = now + PositionsS
     ELSE UNCHANGED <<seen, readAt, fillMid, events, emitted, faults>>
  /\ UNCHANGED <<now, mid, held, fills, midAt, mids, first, published>>

\* Planning and settling the market: the fill mid is let go, the mid is sampled. A market whose
\* positions were never read is not planned.
Plan ==
  /\ pc = "plan" /\ pc' = "flush"
  /\ IF seen = None THEN UNCHANGED <<fillMid, midAt, mids>>
     ELSE /\ fillMid' = HeldFillMid
          /\ IF midAt = None \/ now - midAt >= MidSampleS
             THEN midAt' = now /\ mids' = Append(mids, [at |-> now, mid |-> mid])
             ELSE UNCHANGED <<midAt, mids>>
  /\ UNCHANGED <<now, mid, held, fills, faults, seen, readAt, events, emitted, first, published>>

\* farm_db.publish: the events and the mids in one transaction, which the database may refuse.
Publish(works) ==
  IF works THEN log' = log \o events /\ stored' = stored \o mids ELSE UNCHANGED published

\* What was not published is kept.
Left(waiting, works) == IF works THEN <<>> ELSE waiting

Flush(works) ==
  /\ pc = "flush" /\ pc' = "between"
  /\ Fault(~works) /\ Publish(works) /\ events' = Left(events, works) /\ mids' = Left(mids, works)
  /\ UNCHANGED <<now, mid, held, fills, seen, readAt, fillMid, midAt, emitted, first>>

\* The run ends, wherever it is: a stop publishes what waits, a crash, or the database, does not.
Exit(works) ==
  /\ pc # "down" /\ pc' = "down" /\ Fault(TRUE) /\ Publish(works)
  /\ seen' = None /\ readAt' = 0 /\ fillMid' = None /\ midAt' = None /\ events' = <<>> /\ mids' = <<>>
  /\ UNCHANGED <<now, mid, held, fills, emitted, first>>

Next ==
  \/ \E m \in Mids, lot \in Lots : Tick(m, lot)
  \/ Start \/ RefreshPositions \/ Plan
  \/ \E works \in BOOLEAN : Flush(works) \/ Exit(works)
Spec == Init /\ [][Next]_vars

(***************************************************************************)
(* What is remembered                                                      *)
(***************************************************************************)

\* However the flushes fail and wherever the farmer goes down: a fill is recorded once and in
\* order, and none of this run is missing that is not still queued.
Rising(es) == \A i, j \in DOMAIN es : i < j => es[i].id < es[j].id
Queued == log \o events
OutboxIsKept ==
  /\ Rising(log)
  /\ pc # "down" => Rising(Queued) /\ {n \in {Queued[i].id : i \in DOMAIN Queued} : n >= first} = first..emitted

\* The last favorite fill, and whether a start of now would find it: it is not so old that it
\* is deleted, and the fills after it are fewer than are read back.
IsLastBought(rows, k) ==
  /\ k \in DOMAIN rows /\ rows[k].slot = "FAV_BID"
  /\ \A j \in DOMAIN rows : j > k => rows[j].slot # "FAV_BID"
InReach(k) == log[k].at >= now - EventsKept /\ Len(log) - k < Limit

\* Its fill mid stands: this run recorded it, or the samples before the fill are still kept.
Stands(k) == log[k].id >= first \/ log[k].at - Lookback >= now - MidsKept

\* Were the farmer to start again now, with no fill left to publish, it would price the exit of
\* the shares held no lower than this run does, where the last favorite fill is in reach.
AtLeast(x, y) == x # None /\ x >= y
FillMidSurvives ==
  fillMid # None /\ events = <<>> =>
    \E k \in DOMAIN log :
      /\ IsLastBought(log, k)
      /\ InReach(k) /\ Stands(k) => AtLeast(LastFillMid(KeptEvents, KeptMids), fillMid)

\* Both: what was filled, and at what midpoint, outlives the farmer.
FillsAreKept == OutboxIsKept /\ FillMidSurvives

(***************************************************************************)
(* What keeps it                                                           *)
(***************************************************************************)

Shapes ==
  /\ now \in Nat /\ mid \in Mids /\ held \in Shares /\ fills \in 0..MaxFills
  /\ pc \in {"down", "positions", "plan", "flush", "between"}
  /\ seen \in Shares \cup {None} /\ fillMid \in Mids \cup {None}
  /\ log \in Seq(Events) /\ events \in Seq(Events) /\ stored \in Seq(MidSamples) /\ mids \in Seq(MidSamples)
  /\ emitted \in Nat /\ first \in Nat

\* Nothing is remembered or emitted before the first read; what was emitted is numbered and of
\* the past.
Counted ==
  /\ seen = None => fillMid = None /\ events = <<>> /\ mids = <<>>
  /\ pc = "down" => seen = None
  /\ pc # "down" /\ seen = None => emitted < first
  /\ Rising(Queued) /\ \A i \in DOMAIN Queued : Queued[i].id <= emitted /\ Queued[i].at <= now

\* A fill mid is weighed in the last favorite fill: it says it, or it is of an earlier run and the
\* samples before it still say it, which none that waits for the flush can change.
Weighed ==
  fillMid # None => \E k \in DOMAIN Queued :
    /\ IsLastBought(Queued, k)
    /\ \/ AtLeast(Queued[k].fillMid, fillMid)
       \/ /\ Queued[k].id < first /\ AtLeast(FillMidSeen(Queued[k].at, stored), fillMid)
          /\ \A i \in DOMAIN mids : mids[i].at >= Queued[k].at

OutInv == Shapes /\ Counted /\ Weighed /\ OutboxIsKept
=============================================================================
