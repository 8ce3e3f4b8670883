------------------------------- MODULE Listing -------------------------------
(* The listing of the markets that pay rewards, read page by page while markets join and leave
   it (farm/reward_screener.py: fetch_rewards_listing), and the thread of the farmer that keeps
   the rates it gives (farm/reward_farmer.py: TotalRates). A market is its place by condition id. *)
EXTENDS Integers, SequencesExt

CONSTANTS LastId,    \* the condition ids are 1..LastId
          Native,    \* those Polymarket itself pays; a sponsor alone pays the others
          PageRows,  \* REWARDS_PAGE
          Stride,    \* REWARDS_STRIDE
          Threads,   \* REWARDS_THREADS
          Attempts,  \* REWARDS_ATTEMPTS
          Begins,    \* what may be listed at first
          MaxMoves,  \* bound on the markets that join or leave
          MaxReads,  \* bound on the reads the thread begins
          None

ListingAssumption ==
  /\ LastId \in Nat /\ PageRows \in Nat /\ Stride \in Nat /\ Threads \in Nat
  /\ Begins \subseteq SUBSET (1..LastId)

VARIABLES listed,  \* Polymarket's listing
          sorted,  \* whether it is served by condition id
          moves,
          mode,    \* the reader: "waiting", "reading", "stopped"
          pages,   \* the pages read so far, in order
          batch,   \* the pages of this batch as they come, None while on their way
          attempt, reads,
          always, ever, \* what was listed throughout this attempt, and at some time of it
          rows,    \* what the last read gave, None before the first or when it failed
          rates    \* the thread's rates: the markets it has one for, None before the first
reader == <<mode, pages, batch, attempt, reads, rows, rates>>
vars == <<listed, sorted, moves, reader, always, ever>>

(***************************************************************************)
(* Polymarket                                                              *)
(***************************************************************************)

\* The nth by id is the one with n of them up to it; they are served so, or not.
ById == [n \in 1..Cardinality(listed) |-> CHOOSE m \in listed : Cardinality({k \in listed : k <= m}) = n]
Ordered == IF sorted THEN ById ELSE Reverse(ById)
RowsAt(offset) == SubSeq(Ordered, offset + 1, Min({Len(Ordered), offset + PageRows}))

Joins(m) ==
  /\ m \notin listed /\ moves < MaxMoves /\ mode = "reading"
  /\ listed' = listed \cup {m} /\ ever' = ever \cup {m} /\ moves' = moves + 1
  /\ UNCHANGED <<sorted, reader, always>>

Leaves(m) ==
  /\ m \in listed /\ moves < MaxMoves /\ mode = "reading"
  /\ listed' = listed \ {m} /\ always' = always \ {m} /\ moves' = moves + 1
  /\ UNCHANGED <<sorted, reader, ever>>

(***************************************************************************)
(* The read                                                                *)
(***************************************************************************)

Init ==
  /\ listed \in Begins /\ sorted \in BOOLEAN /\ moves = 0
  /\ mode = "waiting" /\ pages = <<>> /\ batch = <<>> /\ attempt = 0 /\ reads = 0
  /\ always = {} /\ ever = {} /\ rows = None /\ rates = None

NoPages == [i \in 1..Threads |-> None]
Offset(i) == (Len(pages) + i - 1) * Stride

\* An attempt begins: a batch of pages a stride apart is asked for at once.
Attempt(n) ==
  /\ pages' = <<>> /\ batch' = NoPages /\ attempt' = n
  /\ always' = listed /\ ever' = listed

Begin ==
  /\ mode = "waiting" /\ reads < MaxReads
  /\ mode' = "reading" /\ reads' = reads + 1 /\ rows' = None /\ Attempt(1)
  /\ UNCHANGED <<listed, sorted, moves, rates>>

\* A page comes; each has the rows of its own moment.
PageComes(i) ==
  /\ mode = "reading" /\ batch[i] = None
  /\ batch' = [batch EXCEPT ![i] = RowsAt(Offset(i))]
  /\ UNCHANGED <<listed, sorted, moves, mode, pages, attempt, reads, always, ever, rows, rates>>

Short(i) == batch[i] # None /\ Len(batch[i]) < PageRows
Upto(i) == pages \o SubSeq(batch, 1, i)

\* Every page of the batch is full: the next one is asked for.
NextBatch ==
  /\ mode = "reading" /\ \A i \in 1..Threads : batch[i] # None /\ ~Short(i)
  /\ pages' = Upto(Threads) /\ batch' = NoPages
  /\ UNCHANGED <<listed, sorted, moves, mode, attempt, reads, always, ever, rows, rates>>

IsSortedPage(page) == \A i \in 1..(Len(page) - 1) : page[i] < page[i + 1]

\* Fault: pages that only touch count as overlapping, as if they were read end to end.
OverlapAtAll(ps) == TRUE

\* Neighbouring pages overlap, so that no row between them can be missing.
Overlap(ps) == \A i \in 1..(Len(ps) - 1) : ps[i + 1] # <<>> /\ Head(ps[i + 1]) <= Last(ps[i])

Fails == mode' = "waiting" /\ pages' = <<>> /\ batch' = <<>> /\ UNCHANGED <<attempt, rows, rates, always, ever>>

\* The rates of a read replace the thread's whole, unless there are none.
RatesOf(found) == IF found \cap Native = {} THEN rates ELSE found \cap Native

\* The first short page ends the read; later pages of its batch are not looked at.
Stitch ==
  \E i \in 1..Threads :
    /\ mode = "reading" /\ Short(i) /\ \A j \in 1..(i - 1) : batch[j] # None /\ ~Short(j)
    /\ \E ps \in {Upto(i)} :
         \/ /\ \E page \in ToSet(ps) : ~IsSortedPage(page)
            /\ Fails
         \/ /\ \A page \in ToSet(ps) : IsSortedPage(page)
            /\ ~Overlap(ps) /\ attempt = Attempts
            /\ Fails
         \/ /\ \A page \in ToSet(ps) : IsSortedPage(page)
            /\ ~Overlap(ps) /\ attempt < Attempts
            /\ Attempt(attempt + 1) /\ UNCHANGED <<mode, rows, rates>>
         \/ /\ \A page \in ToSet(ps) : IsSortedPage(page)
            /\ Overlap(ps)
            /\ \E found \in {UNION {ToSet(page) : page \in ToSet(ps)}} :
                 rows' = found /\ rates' = RatesOf(found)
            /\ mode' = "waiting" /\ pages' = <<>> /\ batch' = <<>>
            /\ UNCHANGED <<attempt, always, ever>>
    /\ UNCHANGED <<listed, sorted, moves, reads>>

\* A request fails, or its cursor is no row offset any more: the read raises, the rates stay.
RequestFails ==
  /\ mode = "reading" /\ Fails
  /\ UNCHANGED <<listed, sorted, moves, reads>>

Stop ==
  /\ mode = "waiting" /\ mode' = "stopped"
  /\ UNCHANGED <<listed, sorted, moves, pages, batch, attempt, reads, always, ever, rows, rates>>

Next ==
  \/ \E m \in 1..LastId : Joins(m) \/ Leaves(m)
  \/ \E i \in 1..Threads : PageComes(i)
  \/ Begin \/ NextBatch \/ Stitch \/ RequestFails \/ Stop
Spec == Init /\ [][Next]_vars

(***************************************************************************)
(* What the listing promises                                               *)
(***************************************************************************)

\* Markets may join and leave between any two pages, and the pages of a batch come in any order:
\* a read that is taken holds every market listed throughout it, and none that never was.
ListingIsWhole ==
  /\ rows # None => always \subseteq rows /\ rows \subseteq ever
  /\ rates # None => rates # {} /\ rates \subseteq Native

(***************************************************************************)
(* What keeps it                                                           *)
(***************************************************************************)

\* A page, as what is listed throughout the attempt stands to it: within its ends, or after its
\* first row where it is short, nothing is missing; its rows rise, or fall where ids are not sorted.
HoldsItsStretch(page) ==
  /\ page \in Seq(ever) /\ Len(page) <= PageRows
  /\ \A i, j \in DOMAIN page : i < j => IF sorted THEN page[i] < page[j] ELSE page[i] > page[j]
  /\ sorted /\ page # <<>> =>
       \A m \in always : m >= page[1] /\ (Len(page) < PageRows \/ m <= page[Len(page)]) => m \in ToSet(page)

\* The first page has the start of the listing.
HoldsTheStart(page) ==
  /\ Len(page) < PageRows => always \subseteq ToSet(page)
  /\ sorted /\ page # <<>> => \A m \in always : m <= page[Len(page)] => m \in ToSet(page)

PagesHold ==
  /\ pages \in Seq(Seq(ever)) /\ batch \in Seq(Seq(ever) \cup {None}) /\ Len(batch) = Threads
  /\ \A k \in DOMAIN pages : HoldsItsStretch(pages[k]) /\ Len(pages[k]) = PageRows
  /\ \A i \in DOMAIN batch : batch[i] # None => HoldsItsStretch(batch[i])
  /\ pages # <<>> => HoldsTheStart(pages[1])
  /\ pages = <<>> /\ Threads > 0 /\ batch[1] # None => HoldsTheStart(batch[1])

LisInv ==
  /\ listed \subseteq 1..LastId /\ sorted \in BOOLEAN
  /\ mode = "reading" =>
       /\ rows = None /\ always \subseteq listed /\ listed \subseteq ever /\ ever \subseteq 1..LastId
       /\ PagesHold
  /\ ListingIsWhole
=============================================================================
