----------------------------- MODULE StoresProofs -----------------------------
(* Six components that hand on what the farmer or the console learns, or was told, to who comes
   after it: the recorder of the books (Books), the settings (Settings), the reads of the markets'
   histories (Histories), the Claude screens (Triage), the listing of the rewarded markets (Listing)
   and the farmer's events and midpoints (Outbox). Each keeps its promise for every value of its
   constants: what happens to a sample, to an operator's form, to a tape, to a market that waits,
   to one that is listed and to a fill is what it should, whatever fails or ends meanwhile. The six
   share no variable; the state of Books has its own names here. *)
EXTENDS Books, SequenceTheorems, FiniteSetTheorems, TLAPS

CONSTANTS
  Keys, Unknown, GroupOf, Low, High, Texts, Bases, Defaults, MaxWrites, Junk, \* of Settings
  Markets, Wants, HistoryS, RetryS, SeedS, MaxNow, MaxReads, \* of Histories
  Screened, Ranked, Placed, EventIn(_), InQuiet, Answers, Pages, Workers, EventMarkets, TopN,
  MaxAsks, MaxRestarts, Failing, \* of Triage
  LastId, Native, PageRows, Stride, Threads, Attempts, Begins, MaxMoves, MaxListings, \* of Listing
  Mids, Lots, OrderMin, PositionsS, MidSampleS, Lookback, Limit, EventsKept, MidsKept, MaxTime, MaxFills, MaxFailures, \* of Outbox
  None

VARIABLES
  rows, step, base, cfg, errors, queued, status, log, meant, assumed, due, starts, writes, \* of Settings
  now, alive, wanted, read, dueNext, fetching, shown, flushing, saved, states, tapes, reads, \* of Histories
  waiting, running, workers, screens, top, triages, done, asks, restarts, \* of Triage
  listed, sorted, moves, mode, pages, batch, attempt, listings, always, ever, listing, rates, \* of Listing
  time, bookMid, shares, fills, failures, stage, position, readAt, fillMid, midAt, events, mids,
  eventLog, sampled, emitted, firstEvent \* of Outbox

Se == INSTANCE Settings WITH pc <- step, runs <- starts
Hi == INSTANCE Histories WITH due <- dueNext
Tr == INSTANCE Triage WITH
  Markets <- Screened, EventOf <- EventIn, Raised <- Failing,
  queue <- waiting, thread <- screens, rows <- triages
Li == INSTANCE Listing WITH MaxReads <- MaxListings, reads <- listings, rows <- listing
Ou == INSTANCE Outbox WITH
  MaxNow <- MaxTime, MaxFaults <- MaxFailures, now <- time, mid <- bookMid, held <- shares,
  faults <- failures, pc <- stage, seen <- position, log <- eventLog, stored <- sampled, first <- firstEvent

(***************************************************************************)
(* The recorder                                                            *)
(***************************************************************************)

Samples == [id : Nat, day : Nat]

\* The state is what the declarations say.
Shapes ==
  /\ day \in Nat /\ taken \in Nat
  /\ pc \in {"down", "starting", "cycle", "flush", "joining"}
  /\ thread \in {"none", "waiting", "draining", "writing", "ended"}
  /\ samples \in Seq(Samples) /\ hand \in Seq(Samples) /\ written \in Seq(Samples)
  /\ queue \in Seq(Seq(Samples))

\* The recorder runs from the start of the run; it ends after the stop only, which comes after the
\* last put, and with nothing left.
Ending ==
  /\ pc \in {"down", "starting"} => thread = "none"
  /\ stop => pc = "joining"
  /\ final => stop
  /\ thread = "ended" => final /\ queue = <<>>
  /\ thread # "writing" => hand = <<>>

\* The samples are on their way in the order they were taken: from the ones the farmer has, by the
\* queue and the hand, to the rows.
Rising(s) == \A i, j \in DOMAIN s : i < j => s[i].id < s[j].id
Before(early, late) == \A s \in early, t \in late : s.id < t.id
OnTheirWay ==
  /\ Rising(samples) /\ Rising(hand) /\ Rising(written) /\ \A i \in DOMAIN queue : Rising(queue[i])
  /\ \A i, j \in DOMAIN queue : i < j => Before(ToSet(queue[i]), ToSet(queue[j]))
  /\ Before(Queued, ToSet(samples))
  /\ Before(ToSet(hand), Queued \cup ToSet(samples))
  /\ Before(ToSet(written), ToSet(hand) \cup Queued \cup ToSet(samples))

\* Of what was warned of nothing is on its way.
NotTold == (ToSet(written) \cup ToSet(hand) \cup Queued \cup ToSet(samples)) \cap warned = {}

Stays == \A s \in ToSet(written) : s.day >= day - KeptDays => s \in file
NoneSilent == \A gone \in lost : ~gone[2]

\* Every sample is somewhere.
All == ToSet(written) \cup warned \cup unsent \cup {gone[1] : gone \in lost}
         \cup Queued \cup ToSet(hand) \cup ToSet(samples)
Counted == {s.id : s \in All} = 1..taken

BInv == Shapes /\ Ending /\ OnTheirWay /\ NotTold /\ Stays /\ NoneSilent /\ Counted

-----------------------------------------------------------------------------
(* The samples of a sequence and of a queue                                *)

BatchesOf(q) == UNION {ToSet(q[i]) : i \in DOMAIN q}

LEMMA SetOfEmpty == ToSet(<<>>) = {} /\ BatchesOf(<<>>) = {}
  BY DEF ToSet, BatchesOf

LEMMA SetOfAppend ==
  ASSUME NEW S, NEW s \in Seq(S), NEW e \in S
  PROVE  ToSet(Append(s, e)) = ToSet(s) \cup {e}
  BY AppendProperties, LenProperties DEF ToSet

LEMMA SetOfConcat ==
  ASSUME NEW S, NEW s \in Seq(S), NEW t \in Seq(S)
  PROVE  ToSet(s \o t) = ToSet(s) \cup ToSet(t)
<1>1. \A i \in 1..Len(t) : (s \o t)[Len(s) + i] = t[i] /\ Len(s) + i \in 1..(Len(s) + Len(t))
  BY ConcatProperties, LenProperties
<1>2. \A i \in 1..Len(s) : (s \o t)[i] = s[i] /\ i \in 1..(Len(s) + Len(t))
  BY ConcatProperties, LenProperties
<1>3. DOMAIN (s \o t) = 1..(Len(s) + Len(t)) /\ DOMAIN s = 1..Len(s) /\ DOMAIN t = 1..Len(t)
  BY ConcatProperties, LenProperties
<1>4. \A i \in 1..(Len(s) + Len(t)) : i \in 1..Len(s) \/ i - Len(s) \in 1..Len(t)
  BY LenProperties
<1>5. ToSet(s \o t) \subseteq ToSet(s) \cup ToSet(t)
  BY <1>3, <1>4, ConcatProperties, LenProperties DEF ToSet
<1>6. ToSet(s) \subseteq ToSet(s \o t)
  BY <1>2, <1>3 DEF ToSet
<1>7. ToSet(t) \subseteq ToSet(s \o t)
  BY <1>1, <1>3 DEF ToSet
<1> QED BY <1>5, <1>6, <1>7

LEMMA BatchesOfAppend ==
  ASSUME NEW S, NEW q \in Seq(Seq(S)), NEW b \in Seq(S)
  PROVE  BatchesOf(Append(q, b)) = BatchesOf(q) \cup ToSet(b)
<1>1. DOMAIN q = 1..Len(q) /\ DOMAIN Append(q, b) = 1..(Len(q) + 1) /\ Len(q) \in Nat
  BY AppendProperties, LenProperties
<1>2. \A i \in 1..Len(q) : Append(q, b)[i] = q[i]
  BY AppendProperties
<1>3. Append(q, b)[Len(q) + 1] = b
  BY AppendProperties
<1>4. \A x \in BatchesOf(Append(q, b)) : x \in BatchesOf(q) \cup ToSet(b)
  <2> SUFFICES ASSUME NEW i \in 1..(Len(q) + 1), NEW x \in ToSet(Append(q, b)[i])
               PROVE  x \in BatchesOf(q) \cup ToSet(b)
    BY <1>1 DEF BatchesOf
  <2>1. i \in 1..Len(q) \/ i = Len(q) + 1
    BY <1>1
  <2> QED BY <1>1, <1>2, <1>3, <2>1 DEF BatchesOf
<1>5. ToSet(b) \subseteq BatchesOf(Append(q, b))
  <2>1. Len(q) + 1 \in DOMAIN Append(q, b)
    BY <1>1
  <2> QED BY <1>3, <2>1 DEF BatchesOf
<1>6. BatchesOf(q) \subseteq BatchesOf(Append(q, b))
  <2>1. \A i \in DOMAIN q : i \in DOMAIN Append(q, b) /\ Append(q, b)[i] = q[i]
    BY <1>1, <1>2
  <2> QED BY <2>1 DEF BatchesOf
<1> QED BY <1>4, <1>5, <1>6

LEMMA BatchesOfTail ==
  ASSUME NEW S, NEW q \in Seq(Seq(S)), q # <<>>
  PROVE  BatchesOf(q) = ToSet(Head(q)) \cup BatchesOf(Tail(q))
<1>1. DOMAIN q = 1..Len(q) /\ DOMAIN Tail(q) = 1..(Len(q) - 1) /\ Len(q) \in Nat \ {0}
  BY HeadTailProperties, LenProperties, EmptySeq
<1>2. \A i \in 1..(Len(q) - 1) : Tail(q)[i] = q[i + 1]
  BY HeadTailProperties
<1>3. Head(q) = q[1]
  OBVIOUS
<1>4. BatchesOf(q) \subseteq ToSet(Head(q)) \cup BatchesOf(Tail(q))
  <2> SUFFICES ASSUME NEW i \in DOMAIN q, NEW x \in ToSet(q[i])
               PROVE  x \in ToSet(Head(q)) \cup BatchesOf(Tail(q))
    BY DEF BatchesOf
  <2>1. i = 1 \/ (i - 1 \in DOMAIN Tail(q) /\ Tail(q)[i - 1] = q[i])
    BY <1>1, <1>2
  <2> QED BY <1>3, <2>1 DEF BatchesOf
<1>5. ToSet(Head(q)) \subseteq BatchesOf(q)
  <2>1. 1 \in DOMAIN q
    BY <1>1
  <2> QED BY <1>3, <2>1 DEF BatchesOf
<1>6. BatchesOf(Tail(q)) \subseteq BatchesOf(q)
  <2>1. \A i \in DOMAIN Tail(q) : i + 1 \in DOMAIN q /\ Tail(q)[i] = q[i + 1]
    BY <1>1, <1>2
  <2> QED BY <2>1 DEF BatchesOf
<1> QED BY <1>4, <1>5, <1>6

LEMMA RisingAppend ==
  ASSUME NEW s \in Seq(Samples), NEW e \in Samples, Rising(s), Before(ToSet(s), {e})
  PROVE  Rising(Append(s, e))
<1>1. DOMAIN s = 1..Len(s) /\ DOMAIN Append(s, e) = 1..(Len(s) + 1) /\ Len(s) \in Nat
  BY AppendProperties, LenProperties
<1>2. \A i \in 1..Len(s) : Append(s, e)[i] = s[i] /\ s[i].id < e.id
  BY AppendProperties, <1>1 DEF Before, ToSet
<1>3. Append(s, e)[Len(s) + 1] = e
  BY AppendProperties
<1> QED BY <1>1, <1>2, <1>3 DEF Rising

LEMMA RisingConcat ==
  ASSUME NEW s \in Seq(Samples), NEW t \in Seq(Samples), Rising(s), Rising(t),
         Before(ToSet(s), ToSet(t))
  PROVE  Rising(s \o t)
<1>1. DOMAIN (s \o t) = 1..(Len(s) + Len(t)) /\ DOMAIN s = 1..Len(s) /\ DOMAIN t = 1..Len(t)
      /\ Len(s) \in Nat /\ Len(t) \in Nat
  BY ConcatProperties, LenProperties
<1>2. \A i \in 1..(Len(s) + Len(t)) : (s \o t)[i] = IF i <= Len(s) THEN s[i] ELSE t[i - Len(s)]
  BY ConcatProperties
<1> SUFFICES ASSUME NEW i \in 1..(Len(s) + Len(t)), NEW j \in 1..(Len(s) + Len(t)), i < j
             PROVE  (s \o t)[i].id < (s \o t)[j].id
  BY <1>1 DEF Rising
<1>3. CASE j <= Len(s)
  BY <1>1, <1>2, <1>3 DEF Rising
<1>4. CASE i > Len(s)
  <2>1. i - Len(s) \in DOMAIN t /\ j - Len(s) \in DOMAIN t /\ i - Len(s) < j - Len(s)
    BY <1>1, <1>4
  <2> QED BY <1>1, <1>2, <1>4, <2>1 DEF Rising
<1>5. CASE i <= Len(s) /\ j > Len(s)
  <2>1. i \in DOMAIN s /\ j - Len(s) \in DOMAIN t
    BY <1>1, <1>5
  <2> QED BY <1>1, <1>2, <1>5, <2>1 DEF Before, ToSet
<1> QED BY <1>1, <1>3, <1>4, <1>5

-----------------------------------------------------------------------------
(* Each step keeps the invariant                                           *)

LEMMA QueuedIs == Queued = BatchesOf(queue)
  BY DEF Queued, BatchesOf

\* A sample on its way has a number that was given.
LEMMA NumbersGiven ==
  ASSUME Counted, NEW s \in All
  PROVE  s.id \in 1..taken
  BY DEF Counted

LEMMA AllTyped ==
  ASSUME Shapes
  PROVE  /\ ToSet(samples) \subseteq Samples /\ ToSet(hand) \subseteq Samples
         /\ ToSet(written) \subseteq Samples /\ Queued \subseteq Samples
<1>1. \A s \in Seq(Samples) : ToSet(s) \subseteq Samples
  BY ElementOfSeq, LenProperties DEF ToSet
<1>2. \A i \in DOMAIN queue : queue[i] \in Seq(Samples)
  BY ElementOfSeq, LenProperties DEF Shapes
<1> QED BY <1>1, <1>2 DEF Shapes, Queued

LEMMA InitHolds ==
  ASSUME Init
  PROVE  BInv
<1> USE DEF Init, Idle
<1>1. Shapes
  BY EmptySeq DEF Shapes
<1>2. Ending
  BY DEF Ending
<1>3. ToSet(samples) = {} /\ ToSet(hand) = {} /\ ToSet(written) = {} /\ Queued = {}
  BY SetOfEmpty, QueuedIs
<1>4. OnTheirWay
  BY <1>3 DEF OnTheirWay, Rising, Before
<1>5. All = {}
  BY <1>3 DEF All
<1>6. Counted
  BY <1>5 DEF Counted
<1> QED BY <1>1, <1>2, <1>3, <1>4, <1>6 DEF BInv, NotTold, Stays, NoneSilent

LEMMA QuietKeeps ==
  ASSUME BInv, BooksAssumption,
         NextDay \/ Run \/ Start \/ Settled \/ Shutdown \/ Wake \/ UNCHANGED vars
  PROVE  BInv'
<1>1. UNCHANGED <<samples, queue, hand, file, written, warned, unsent, lost, taken>>
  BY DEF NextDay, Run, Start, Settled, Shutdown, Wake, kept, recorder, vars
<1>2. Shapes'
  BY <1>1 DEF BInv, Shapes, NextDay, Run, Start, Settled, Shutdown, Wake, OnWake, recorder, vars
<1>3. Ending'
  BY <1>1 DEF BInv, Shapes, Ending, NextDay, Run, Start, Settled, Shutdown, Wake, OnWake, recorder, vars
<1>4. day' \in Nat /\ day' >= day
  BY DEF BInv, Shapes, NextDay, Run, Start, Settled, Shutdown, Wake, vars
<1>5. Stays'
  <2> SUFFICES ASSUME NEW s \in ToSet(written), s.day >= day' - KeptDays
               PROVE  s \in file
    BY <1>1 DEF Stays
  <2>1. s \in Samples
    BY AllTyped DEF BInv
  <2>2. s.day >= day - KeptDays
    BY <1>4, <2>1 DEF BooksAssumption, BInv, Shapes, Samples
  <2> QED BY <2>2 DEF BInv, Stays
<1>6. Queued' = Queued
  BY <1>1 DEF Queued
<1>7. OnTheirWay' /\ NotTold' /\ NoneSilent' /\ Counted'
  BY <1>1, <1>6 DEF BInv, OnTheirWay, NotTold, NoneSilent, Counted, All
<1> QED BY <1>2, <1>3, <1>5, <1>7 DEF BInv

LEMMA SampleKeeps ==
  ASSUME BInv, Sample
  PROVE  BInv'
<1> DEFINE new == [id |-> taken + 1, day |-> day]
<1>1. new \in Samples /\ samples' = Append(samples, new) /\ taken' = taken + 1 /\ taken \in Nat
      /\ samples \in Seq(Samples)
  BY DEF BInv, Shapes, Sample, Samples
<1>2. UNCHANGED <<day, pc, queue, stop, thread, final, hand, file, written, warned, unsent, lost>>
  BY DEF Sample, recorder, kept
<1>3. Shapes'
  BY <1>1, <1>2, AppendProperties DEF BInv, Shapes
<1>4. Ending'
  BY <1>2 DEF BInv, Ending
<1>5. Queued' = Queued /\ ToSet(samples') = ToSet(samples) \cup {new}
  BY <1>1, <1>2, SetOfAppend DEF Queued
<1>6. \A s \in All : s.id \in 1..taken
  BY NumbersGiven DEF BInv
<1>7. Before(All, {new})
  BY <1>1, <1>6 DEF Before
<1>8. Rising(samples')
  BY <1>1, <1>7, RisingAppend DEF BInv, OnTheirWay, Before, All
<1>9. OnTheirWay'
  BY <1>2, <1>5, <1>7, <1>8 DEF BInv, OnTheirWay, Before, All
<1>10. new \notin warned
  BY <1>1, <1>6 DEF All
<1>11. NotTold' /\ Stays' /\ NoneSilent'
  BY <1>2, <1>5, <1>10 DEF BInv, NotTold, Stays, NoneSilent
<1>12. All' = All \cup {new}
  BY <1>2, <1>5 DEF All
<1>13. {s.id : s \in All \cup {new}} = {s.id : s \in All} \cup {new.id}
  OBVIOUS
<1>14. Counted'
  <2>1. {s.id : s \in All} = 1..taken
    BY DEF BInv, Counted
  <2>2. new.id = taken + 1
    OBVIOUS
  <2> HIDE DEF new
  <2>3. {s.id : s \in All'} = {s.id : s \in All} \cup {taken + 1}
    BY <1>12, <1>13, <2>2
  <2>4. 1..taken' = (1..taken) \cup {taken + 1}
    BY <1>1
  <2> QED BY <2>1, <2>3, <2>4 DEF Counted
<1> QED BY <1>3, <1>4, <1>9, <1>11, <1>14 DEF BInv

\* Samples that come before others, by their numbers, are none of them.
LEMMA BeforeIsApart ==
  ASSUME NEW early, NEW late, late \subseteq Samples, Before(early, late)
  PROVE  early \cap late = {}
  BY DEF Before, Samples

LEMMA FlushKeeps ==
  ASSUME BInv, NEW tapesSaved \in BOOLEAN, Flush(tapesSaved)
  PROVE  BInv'
<1>1. UNCHANGED <<day, taken, stop, thread, final, hand, file, written, unsent, lost>>
      /\ pc = "flush" /\ pc' = "cycle"
  BY DEF Flush
<1>2. samples \in Seq(Samples) /\ queue \in Seq(Seq(Samples)) /\ ~stop /\ thread # "ended"
  BY <1>1 DEF BInv, Shapes, Ending
<1>3. samples' \in {samples, <<>>} /\ queue' \in {queue, Append(queue, samples)}
  BY DEF Flush, Put
<1>8. samples' \in Seq(Samples) /\ queue' \in Seq(Seq(Samples))
  <2>1. Append(queue, samples) \in Seq(Seq(Samples)) /\ <<>> \in Seq(Samples)
    BY <1>2, AppendProperties, EmptySeq
  <2> QED BY <1>2, <1>3, <2>1
<1>9. Shapes' /\ Ending'
  BY <1>1, <1>2, <1>8 DEF BInv, Shapes, Ending
<1>4. CASE UNCHANGED <<samples, queue, warned>>
  <2>1. Queued' = Queued
    BY <1>4 DEF Queued
  <2> QED BY <1>1, <1>9, <1>4, <2>1 DEF BInv, OnTheirWay, NotTold, Stays, NoneSilent, Counted, All
<1>5. CASE samples' = <<>> /\ UNCHANGED queue /\ warned' = warned \cup ToSet(samples)
  <2>1. Queued' = Queued /\ ToSet(samples') = {} /\ Rising(samples')
    BY <1>5, SetOfEmpty DEF Queued, Rising
  <2>2. OnTheirWay'
    BY <1>1, <1>5, <2>1 DEF BInv, OnTheirWay, Before
  <2>3. (ToSet(written) \cup ToSet(hand) \cup Queued) \cap ToSet(samples) = {}
    BY AllTyped, BeforeIsApart DEF BInv, OnTheirWay, Before
  <2>4. NotTold' /\ Stays' /\ NoneSilent'
    BY <1>1, <1>5, <2>1, <2>3 DEF BInv, NotTold, Stays, NoneSilent
  <2>5. All' = All
    BY <1>1, <1>5, <2>1 DEF All
  <2> QED BY <1>1, <1>9, <2>2, <2>4, <2>5 DEF BInv, Counted
<1>6. CASE samples' = <<>> /\ queue' = Append(queue, samples) /\ UNCHANGED warned
  <2>1. Queued' = Queued \cup ToSet(samples)
    <3>1. BatchesOf(Append(queue, samples)) = BatchesOf(queue) \cup ToSet(samples)
      BY <1>2, BatchesOfAppend
    <3> QED BY <1>6, <3>1 DEF Queued, BatchesOf
  <2>2. ToSet(samples') = {} /\ Rising(samples')
    BY <1>6, SetOfEmpty DEF Rising
  <2>3. \A i \in DOMAIN queue' : \/ i \in DOMAIN queue /\ queue'[i] = queue[i]
                                 \/ i = Len(queue) + 1 /\ queue'[i] = samples
    <3> DEFINE q == Append(queue, samples)
    <3>1. q \in Seq(Seq(Samples)) /\ Len(q) = Len(queue) + 1 /\ q[Len(queue) + 1] = samples
          /\ \A i \in 1..Len(queue) : q[i] = queue[i]
      BY <1>2, AppendProperties
    <3>2. DOMAIN q = 1..(Len(queue) + 1) /\ DOMAIN queue = 1..Len(queue) /\ Len(queue) \in Nat
      BY <1>2, <3>1, LenProperties
    <3> QED BY <1>6, <3>1, <3>2
  <2>10. DOMAIN queue' \subseteq 1..(Len(queue) + 1) /\ Len(queue) \in Nat
    BY <1>2, <2>3, LenProperties
  <2>4. \A i \in DOMAIN queue : i < Len(queue) + 1 /\ ToSet(queue[i]) \subseteq Queued
    BY <1>2, LenProperties DEF Queued
  <2>5. \A i \in DOMAIN queue' : Rising(queue'[i])
    BY <2>3 DEF BInv, OnTheirWay
  <2>6. \A i, j \in DOMAIN queue' : i < j => Before(ToSet(queue'[i]), ToSet(queue'[j]))
    <3> SUFFICES ASSUME NEW i \in DOMAIN queue', NEW j \in DOMAIN queue', i < j
                 PROVE  Before(ToSet(queue'[i]), ToSet(queue'[j]))
      OBVIOUS
    <3>1. i \in DOMAIN queue /\ queue'[i] = queue[i]
      BY <2>3, <2>10
    <3>2. CASE j \in DOMAIN queue /\ queue'[j] = queue[j]
      BY <3>1, <3>2 DEF BInv, OnTheirWay
    <3>3. CASE queue'[j] = samples
      BY <2>4, <3>1, <3>3 DEF BInv, OnTheirWay, Before
    <3> QED BY <2>3, <3>2, <3>3
  <2>7. OnTheirWay'
    BY <1>1, <2>1, <2>2, <2>5, <2>6 DEF BInv, OnTheirWay, Before
  <2>8. NotTold' /\ Stays' /\ NoneSilent'
    BY <1>1, <1>6, <2>1, <2>2 DEF BInv, NotTold, Stays, NoneSilent
  <2>9. All' = All
    BY <1>1, <1>6, <2>1, <2>2 DEF All
  <2> QED BY <1>1, <1>9, <2>7, <2>8, <2>9 DEF BInv, Counted
<1>7. CASE samples = <<>> /\ samples' = <<>> /\ UNCHANGED <<queue, warned>>
  BY <1>4, <1>7
<1> QED BY <1>4, <1>5, <1>6, <1>7 DEF Flush, Put

LEMMA ExitKeeps ==
  ASSUME BInv, Exit
  PROVE  BInv'
<1>1. /\ pc' = "down" /\ thread' = "none" /\ ~stop' /\ ~final'
      /\ samples' = <<>> /\ queue' = <<>> /\ hand' = <<>>
      /\ UNCHANGED <<day, taken, file, written, warned>>
      /\ unsent' = unsent \cup ToSet(samples)
      /\ lost' = lost \cup {<<s, stop /\ thread = "ended">> : s \in Queued \cup ToSet(hand)}
  BY DEF Exit, kept
<1>2. Shapes'
  BY <1>1, EmptySeq DEF BInv, Shapes
<1>3. Ending'
  BY <1>1 DEF Ending
<1>4. ToSet(samples') = {} /\ ToSet(hand') = {} /\ Queued' = {}
  BY <1>1, SetOfEmpty DEF Queued, BatchesOf
<1>5. OnTheirWay'
  BY <1>1, <1>4 DEF BInv, OnTheirWay, Before, Rising
<1>6. NotTold' /\ Stays'
  BY <1>1, <1>4 DEF BInv, NotTold, Stays
<1>7. NoneSilent'
  <2>1. CASE thread = "ended"
    <3>1. queue = <<>> /\ hand = <<>>
      BY <2>1 DEF BInv, Ending
    <3>2. Queued \cup ToSet(hand) = {}
      BY <3>1, SetOfEmpty DEF Queued, BatchesOf
    <3> QED BY <1>1, <3>2 DEF BInv, NoneSilent
  <2>2. CASE thread # "ended"
    <3>1. (stop /\ thread = "ended") = FALSE
      BY <2>2
    <3>2. lost' = lost \cup {<<s, FALSE>> : s \in Queued \cup ToSet(hand)}
      BY <1>1, <3>1
    <3>3. \A gone \in lost' : gone \in lost \/ gone[2] = FALSE
      <4>1. \A s \in Queued \cup ToSet(hand) : <<s, FALSE>>[2] = FALSE
        OBVIOUS
      <4> QED BY <3>2, <4>1
    <3> QED BY <3>3 DEF BInv, NoneSilent
  <2> QED BY <2>1, <2>2
<1>8. {gone[1] : gone \in lost'} = {gone[1] : gone \in lost} \cup Queued \cup ToSet(hand)
  <2> DEFINE end == stop /\ thread = "ended"
             left == Queued \cup ToSet(hand)
  <2>1. lost' = lost \cup {<<s, end>> : s \in left}
    BY <1>1
  <2> HIDE DEF end, left
  <2>2. \A s \in left : <<s, end>> \in lost' /\ <<s, end>>[1] = s
    BY <2>1
  <2>3. \A gone \in lost' : gone \in lost \/ gone[1] \in left
    BY <2>1
  <2>4. \A gone \in lost : gone \in lost'
    BY <2>1
  <2>5. {gone[1] : gone \in lost'} = {gone[1] : gone \in lost} \cup left
    BY <2>2, <2>3, <2>4
  <2> QED BY <2>5 DEF left
<1>9. All' = All
  BY <1>1, <1>4, <1>8 DEF All
<1> QED BY <1>1, <1>2, <1>3, <1>5, <1>6, <1>7, <1>9 DEF BInv, Counted

LEMMA TakeKeeps ==
  ASSUME BInv, Take
  PROVE  BInv'
<1>1. UNCHANGED <<day, taken, pc, samples, stop, final, file, written, warned, unsent, lost>>
      /\ thread = "draining" /\ hand = <<>>
  BY DEF Take, BInv, Ending, kept
<1>2. CASE queue = <<>> /\ UNCHANGED <<queue, hand>>
  <2>1. thread' = IF final THEN "ended" ELSE "waiting"
    BY <1>2 DEF Take
  <2>2. Queued' = Queued
    BY <1>2 DEF Queued
  <2>3. Shapes' /\ Ending'
    BY <1>1, <1>2, <2>1 DEF BInv, Shapes, Ending
  <2> QED BY <1>1, <1>2, <2>2, <2>3 DEF BInv, OnTheirWay, NotTold, Stays, NoneSilent, Counted, All
<1>3. CASE queue # <<>> /\ thread' = "writing" /\ hand' = Head(queue) /\ queue' = Tail(queue)
  <2>1. queue \in Seq(Seq(Samples))
    BY DEF BInv, Shapes
  <2>2. Shapes'
    BY <1>1, <1>3, <2>1, HeadTailProperties DEF BInv, Shapes
  <2>3. Ending'
    BY <1>1, <1>3 DEF BInv, Shapes, Ending
  <2>4. Queued = ToSet(hand') \cup Queued'
    <3>1. BatchesOf(queue) = ToSet(Head(queue)) \cup BatchesOf(Tail(queue))
      BY <1>3, <2>1, BatchesOfTail
    <3> QED BY <1>3, <3>1 DEF Queued, BatchesOf
  <2>5. ToSet(hand) = {}
    BY <1>1, SetOfEmpty
  <2>6. /\ 1 \in DOMAIN queue /\ hand' = queue[1]
        /\ \A i \in DOMAIN queue' : i + 1 \in DOMAIN queue /\ queue'[i] = queue[i + 1] /\ 1 < i + 1
        /\ \A i, j \in DOMAIN queue' : i < j => i + 1 < j + 1
    BY <1>3, <2>1, HeadTailProperties, LenProperties, EmptySeq
  <2>7. Before(ToSet(hand'), Queued')
    BY <2>6 DEF BInv, OnTheirWay, Queued, Before
  <2>8. Rising(hand') /\ \A i \in DOMAIN queue' : Rising(queue'[i])
    BY <2>6 DEF BInv, OnTheirWay
  <2>9. \A i, j \in DOMAIN queue' : i < j => Before(ToSet(queue'[i]), ToSet(queue'[j]))
    BY <2>6 DEF BInv, OnTheirWay
  <2>10. OnTheirWay'
    BY <1>1, <2>4, <2>7, <2>8, <2>9 DEF BInv, OnTheirWay, Before
  <2>11. NotTold' /\ Stays' /\ NoneSilent'
    BY <1>1, <2>4 DEF BInv, NotTold, Stays, NoneSilent
  <2>12. All' = All
    BY <1>1, <2>4, <2>5 DEF All
  <2> QED BY <1>1, <2>2, <2>3, <2>10, <2>11, <2>12 DEF BInv, Counted
<1> QED BY <1>2, <1>3 DEF Take

LEMMA WriteKeeps ==
  ASSUME BInv, NEW opened \in BOOLEAN, NEW pruned \in BOOLEAN, NEW recorded \in BOOLEAN,
         Write(opened, pruned, recorded)
  PROVE  BInv'
<1>1. UNCHANGED <<day, taken, pc, samples, queue, stop, final, unsent, lost>>
      /\ thread = "writing" /\ thread' = "draining" /\ hand' = <<>>
  BY DEF Write
<1>2. hand \in Seq(Samples) /\ written \in Seq(Samples)
  BY DEF BInv, Shapes
<1>3. Queued' = Queued /\ ToSet(hand') = {} /\ Rising(hand')
  BY <1>1, SetOfEmpty DEF Queued, Rising
<1>4. Ending'
  BY <1>1 DEF BInv, Ending
<1>5. NoneSilent'
  BY <1>1 DEF BInv, NoneSilent
<1>6. CASE recorded
  <2>1. written' = written \o hand /\ warned' = warned /\ ToSet(hand) \subseteq file'
        /\ Pruned \subseteq file'
    BY <1>6 DEF Write, Pruned
  <2>2. ToSet(written') = ToSet(written) \cup ToSet(hand)
    BY <1>2, <2>1, SetOfConcat
  <2>3. Rising(written')
    BY <1>2, <2>1, RisingConcat DEF BInv, OnTheirWay, Before
  <2>4. Shapes'
    BY <1>1, <1>2, <2>1, EmptySeq, ConcatProperties DEF BInv, Shapes
  <2>5. OnTheirWay'
    BY <1>1, <1>3, <2>2, <2>3 DEF BInv, OnTheirWay, Before
  <2>6. Stays'
    BY <1>1, <2>1, <2>2 DEF BInv, Stays, Pruned
  <2>7. NotTold'
    BY <1>1, <1>3, <2>1, <2>2 DEF BInv, NotTold
  <2>8. All' = All
    BY <1>1, <1>3, <2>1, <2>2 DEF All
  <2> QED BY <1>1, <1>4, <1>5, <2>4, <2>5, <2>6, <2>7, <2>8 DEF BInv, Counted
<1>7. CASE ~recorded
  <2>1. written' = written /\ warned' = warned \cup ToSet(hand) /\ Pruned \subseteq file'
    BY <1>7 DEF Write, Pruned
  <2>2. Shapes'
    BY <1>1, <2>1, EmptySeq DEF BInv, Shapes
  <2>3. OnTheirWay'
    BY <1>1, <1>3, <2>1 DEF BInv, OnTheirWay, Before
  <2>4. Stays'
    BY <1>1, <2>1 DEF BInv, Stays, Pruned
  <2>5. ToSet(written) \cap ToSet(hand) = {} /\ ToSet(hand) \cap (Queued \cup ToSet(samples)) = {}
    BY AllTyped, BeforeIsApart DEF BInv, OnTheirWay, Before
  <2>6. NotTold'
    BY <1>1, <1>3, <2>1, <2>5 DEF BInv, NotTold
  <2>7. All' = All
    BY <1>1, <1>3, <2>1 DEF All
  <2> QED BY <1>1, <1>4, <1>5, <2>2, <2>3, <2>4, <2>6, <2>7 DEF BInv, Counted
<1> QED BY <1>6, <1>7

LEMMA StepKeeps ==
  ASSUME BInv, BooksAssumption, [Next]_vars
  PROVE  BInv'
<1>1. CASE NextDay \/ Run \/ Start \/ Settled \/ Shutdown \/ Wake \/ UNCHANGED vars
  BY <1>1, QuietKeeps
<1>2. CASE Sample
  BY <1>2, SampleKeeps
<1>3. CASE \E tapesSaved \in BOOLEAN : Flush(tapesSaved)
  BY <1>3, FlushKeeps
<1>4. CASE Exit
  BY <1>4, ExitKeeps
<1>5. CASE Take
  BY <1>5, TakeKeeps
<1>6. CASE \E opened, pruned, recorded \in BOOLEAN : Write(opened, pruned, recorded)
  BY <1>6, WriteKeeps
<1> QED BY <1>1, <1>2, <1>3, <1>4, <1>5, <1>6 DEF Next

LEMMA InvGivesPromise ==
  ASSUME BInv
  PROVE  WrittenOrWarned
<1>1. \A i \in 1..(Len(written) - 1) : written[i].id < written[i + 1].id
  <2>1. DOMAIN written = 1..Len(written) /\ Len(written) \in Nat
    BY LenProperties DEF BInv, Shapes
  <2> QED BY <2>1 DEF BInv, OnTheirWay, Rising
<1> QED BY <1>1 DEF BInv, Stays, NotTold, NoneSilent, Counted, All, WrittenOrWarned

-----------------------------------------------------------------------------
\* Whatever the queue, the disk and the stop do (farm_books.py: put, drain, run): rows are written
\* in the order their samples were taken and stay for KeptDays, no sample is both written and
\* warned of, and none is lost silently after a stop the recorder finished.
THEOREM SamplesAreKept ==
  ASSUME BooksAssumption
  PROVE  Spec => []WrittenOrWarned
<1>1. Init => BInv
  BY InitHolds
<1>2. BInv /\ [Next]_vars => BInv'
  BY StepKeeps
<1>3. BInv => WrittenOrWarned
  BY InvGivesPromise
<1> QED BY <1>1, <1>2, <1>3, PTL DEF Spec

(***************************************************************************)
(* The settings                                                            *)
(***************************************************************************)

LEMMA SameFinite == ASSUME NEW S PROVE Se!Cardinality(S) = Cardinality(S) /\ (Se!IsFiniteSet(S) <=> IsFiniteSet(S))
  BY Zenon DEF Se!Cardinality, Cardinality, Se!IsFiniteSet, IsFiniteSet

\* A set of keys as a sequence.
LEMMA SeqOfSet ==
  ASSUME NEW S, IsFiniteSet(S)
  PROVE  Se!SetToSeq(S) \in Seq(S)
<1> DEFINE n == Cardinality(S)
           f == Se!SetToSeq(S)
<1>1. n \in Nat /\ ExistsBijection(1..n, S)
  BY FS_CardinalityType, FS_NatBijection, FS_CountingElements
<1>2. \E g \in [1..n -> S] : Se!IsInjective(g)
  BY <1>1 DEF ExistsBijection, Bijection, Injection, IsInjective, Se!IsInjective
<1>3. f \in [1..n -> S]
  BY <1>2, SameFinite DEF Se!SetToSeq
<1> QED BY <1>1, <1>3, SeqDef

LEMMA WiderSeq ==
  ASSUME NEW S, NEW T, NEW s \in Seq(S), \A i \in 1..Len(s) : s[i] \in T
  PROVE  s \in Seq(T)
<1>1. Len(s) \in Nat /\ s \in [1..Len(s) -> T]
  BY LenProperties
<1> QED BY <1>1, SeqDef

\* What a row says when it parses.
LEMMA ValuesType ==
  ASSUME Se!SettingsAssumption, NEW table \in [Keys \cup {Unknown} -> Texts \cup {None}]
  PROVE  /\ DOMAIN Se!Values(table) \subseteq Keys
         /\ \A k \in DOMAIN Se!Values(table) :
              Se!Values(table)[k] = table[k] /\ table[k] \in Low[k]..High[k] /\ table[k] \in Int
         /\ \A k \in Keys : k \in DOMAIN Se!Values(table) <=> (table[k] # None /\ Se!ParseSetting(k, table[k]) # Junk)
         /\ Se!Errors(table) \subseteq Keys \cup {Unknown}
BY DEF Se!Values, Se!ParseSetting, Se!Errors, Se!SettingsAssumption, Se!Configs

LEMMA SetStarts == ASSUME Se!SettingsAssumption, Se!Init PROVE Se!SetInv
<1>1. Se!Shapes
  <2>1. meant \in [Keys -> Int \cup {None}]
    BY ValuesType DEF Se!Init
  <2> QED BY <2>1 DEF Se!Shapes, Se!Init, Se!SettingsAssumption
<1>2. Se!RowsAsAsked
  BY DEF Se!RowsAsAsked, Se!Init
<1> QED BY <1>1, <1>2 DEF Se!SetInv, Se!NothingQueued, Se!SettingsHold, Se!Init

\* The value in effect of a key that has a row is its row's.
LEMMA SaveKeepsSettings == ASSUME Se!SettingsAssumption, Se!SetInv, NEW form \in Se!Forms, Se!Save(form) PROVE Se!SetInv'
<1>1. DOMAIN form \subseteq Keys /\ \A k \in DOMAIN form : form[k] \in Texts /\ form[k] # Junk /\ form[k] \in Int
                                       /\ form[k] # None /\ Se!ParseSetting(k, form[k]) # Junk
  <2>1. PICK x \in Keys : form \in [{k \in Keys : GroupOf[k] = GroupOf[x]} -> Texts]
    BY DEF Se!Forms
  <2>2. \A k \in DOMAIN form : k \in Keys /\ form[k] \in Texts /\ Se!ParseSetting(k, form[k]) # Junk
    BY <2>1 DEF Se!Save
  <2> QED BY <2>2 DEF Se!ParseSetting, Se!SettingsAssumption
<1>2. PICK changed \in {{k \in DOMAIN form : form[k] # Se!SettingValue(k, rows, status)}} :
       /\ rows' = [k \in DOMAIN rows |-> IF k \in changed THEN form[k] ELSE rows[k]]
       /\ assumed' = (assumed \ changed) \cup {k \in DOMAIN form \ changed : k \notin DOMAIN Se!Values(rows)}
  BY DEF Se!Save
<1>3. rows' \in [Keys \cup {Unknown} -> Texts \cup {None}]
  BY <1>1, <1>2 DEF Se!SetInv, Se!Shapes
<1>4. meant' = [k \in Keys |-> IF k \in DOMAIN form THEN form[k] ELSE meant[k]] /\ UNCHANGED <<base, cfg, step, queued, log, due, starts>>
  BY DEF Se!Save, Se!farmer, Se!published
<1>5. meant' \in [Keys -> Int \cup {None}] /\ \A k \in Keys : meant'[k] = IF k \in DOMAIN form THEN form[k] ELSE meant[k]
  BY <1>1, <1>4 DEF Se!SetInv, Se!Shapes
<1>6. Se!Shapes'
  BY <1>3, <1>4, <1>5 DEF Se!SetInv, Se!Shapes
<1>7. Se!RowsAsAsked'
  <2> SUFFICES ASSUME NEW k \in Keys, k \notin assumed'
               PROVE  meant'[k] = IF k \in DOMAIN Se!Values(rows)' THEN rows'[k] ELSE None
    BY DEF Se!RowsAsAsked
  <2>1. k \in DOMAIN Se!Values(rows)' <=> (rows'[k] # None /\ Se!ParseSetting(k, rows'[k]) # Junk)
    BY <1>3, ValuesType DEF Se!Values
  <2>2. k \in DOMAIN Se!Values(rows) <=> (rows[k] # None /\ Se!ParseSetting(k, rows[k]) # Junk)
    BY ValuesType DEF Se!SetInv, Se!Shapes
  <2>3. DOMAIN rows = Keys \cup {Unknown}
    BY DEF Se!SetInv, Se!Shapes
  <2>4. CASE k \in changed
    BY <1>1, <1>2, <1>5, <2>1, <2>3, <2>4
  <2>5. CASE k \in DOMAIN form \ changed
    <3>1. k \in DOMAIN Se!Values(rows) /\ form[k] = rows[k]
      BY <1>2, <2>5 DEF Se!SettingValue
    <3>2. rows'[k] = rows[k]
      BY <1>2, <2>3, <2>5
    <3> QED BY <1>5, <2>1, <2>2, <2>5, <3>1, <3>2
  <2>6. CASE k \notin DOMAIN form
    <3>1. rows'[k] = rows[k] /\ k \notin assumed /\ meant'[k] = meant[k]
      BY <1>2, <1>5, <2>3, <2>6
    <3> QED BY <2>1, <2>2, <3>1 DEF Se!SetInv, Se!RowsAsAsked
  <2> QED BY <1>2, <2>4, <2>5, <2>6
<1>8. Se!NothingQueued' /\ Se!SettingsHold'
  BY <1>4 DEF Se!SetInv, Se!NothingQueued, Se!SettingsHold, Se!ChangesTold, Se!Tell, Se!Change
<1> QED BY <1>6, <1>7, <1>8 DEF Se!SetInv

LEMMA ResetKeepsSettings == ASSUME Se!SettingsAssumption, Se!SetInv, NEW x \in Keys, Se!Reset(x) PROVE Se!SetInv'
<1>1. /\ rows' = [rows EXCEPT ![x] = None] /\ meant' = [meant EXCEPT ![x] = None] /\ assumed' = assumed \ {x}
      /\ UNCHANGED <<base, cfg, step, queued, log, due, starts>>
  BY DEF Se!Reset, Se!farmer, Se!published
<1>2. Se!Shapes'
  BY <1>1 DEF Se!SetInv, Se!Shapes
<1>3. Se!RowsAsAsked'
  <2> SUFFICES ASSUME NEW k \in Keys, k \notin assumed'
               PROVE  meant'[k] = IF k \in DOMAIN Se!Values(rows)' THEN rows'[k] ELSE None
    BY DEF Se!RowsAsAsked
  <2>1. k \in DOMAIN Se!Values(rows)' <=> (rows'[k] # None /\ Se!ParseSetting(k, rows'[k]) # Junk)
    BY <1>2, ValuesType DEF Se!Values, Se!Shapes
  <2>2. k \in DOMAIN Se!Values(rows) <=> (rows[k] # None /\ Se!ParseSetting(k, rows[k]) # Junk)
    BY ValuesType DEF Se!SetInv, Se!Shapes
  <2>3. CASE k = x
    BY <1>1, <2>1, <2>3 DEF Se!SetInv, Se!Shapes
  <2>4. CASE k # x
    BY <1>1, <2>1, <2>2, <2>4 DEF Se!SetInv, Se!Shapes, Se!RowsAsAsked
  <2> QED BY <2>3, <2>4
<1>4. Se!NothingQueued' /\ Se!SettingsHold'
  BY <1>1 DEF Se!SetInv, Se!NothingQueued, Se!SettingsHold, Se!ChangesTold, Se!Tell, Se!Change
<1> QED BY <1>2, <1>3, <1>4 DEF Se!SetInv

\* What a cycle takes over is what was asked.
LEMMA TakesWhatWasAsked ==
  ASSUME Se!SettingsAssumption, Se!Shapes, Se!RowsAsAsked, base' \in Se!Configs, NEW last, NEW known, Se!Apply(last, known)
  PROVE  cfg' \in Se!Configs /\ cfg' = due'
<1>1. cfg' = [k \in Keys |-> IF k \in DOMAIN Se!Values(rows) THEN Se!Values(rows)[k] ELSE base'[k]]
  BY DEF Se!Apply, Se!Overlaid
<1>2. cfg' \in Se!Configs /\ \A k \in Keys : cfg'[k] = IF k \in DOMAIN Se!Values(rows) THEN rows[k] ELSE base'[k]
  <2>1. \A k \in Keys : cfg'[k] = IF k \in DOMAIN Se!Values(rows) THEN rows[k] ELSE base'[k]
    BY <1>1, ValuesType DEF Se!Shapes
  <2>2. \A k \in Keys : cfg'[k] \in UNION {Low[x]..High[x] : x \in Keys}
    <3> SUFFICES ASSUME NEW k \in Keys PROVE cfg'[k] \in UNION {Low[x]..High[x] : x \in Keys}
      OBVIOUS
    <3>1. base'[k] \in UNION {Low[x]..High[x] : x \in Keys}
      BY DEF Se!Configs
    <3>2. k \in DOMAIN Se!Values(rows) => rows[k] \in Low[k]..High[k]
      BY ValuesType DEF Se!Shapes
    <3> QED BY <2>1, <3>1, <3>2
  <2> QED BY <1>1, <2>1, <2>2 DEF Se!Configs
<1>3. \A k \in Keys \ assumed : cfg'[k] = IF meant[k] = None THEN base'[k] ELSE meant[k]
  <2>1. \A k \in DOMAIN Se!Values(rows) : rows[k] # None
    BY ValuesType DEF Se!Shapes, Se!SettingsAssumption
  <2> QED BY <1>2, <2>1 DEF Se!RowsAsAsked
<1>4. due' = [k \in Keys |-> IF k \in assumed THEN cfg'[k] ELSE IF meant[k] = None THEN base'[k] ELSE meant[k]]
  BY DEF Se!Apply
<1>5. cfg' = [k \in Keys |-> cfg'[k]]
  BY <1>2 DEF Se!Configs
<1>6. \A k \in Keys : cfg'[k] = due'[k]
  BY <1>3, <1>4
<1> QED BY <1>2, <1>4, <1>5, <1>6

\* Alerts change nothing of what is told.
LEMMA AlertsTellNothing ==
  ASSUME NEW from, NEW E \in Seq(Se!Events), NEW c, Se!Tell(from, E, Len(E), c), NEW A \in Seq([alert : Keys \cup {Unknown}]),
         \A i \in DOMAIN E : Se!Change(E[i]) => Se!Tell(from, E, i - 1, E[i].old)
  PROVE  /\ E \o A \in Seq(Se!Events)
         /\ Se!Tell(from, E \o A, Len(E \o A), c)
         /\ \A i \in DOMAIN (E \o A) : Se!Change((E \o A)[i]) => Se!Tell(from, E \o A, i - 1, (E \o A)[i].old)
<1> DEFINE F == E \o A
<1>0. A \in Seq(Se!Events)
  <2>1. \A i \in 1..Len(A) : A[i] \in Se!Events
    BY ElementOfSeq DEF Se!Events
  <2> QED BY <2>1, SeqDef, LenProperties
<1>1. F \in Seq(Se!Events) /\ Len(F) = Len(E) + Len(A) /\ Len(E) \in Nat /\ Len(A) \in Nat /\ Len(F) \in Nat
  BY <1>0
<1>2. \A i \in 1..Len(E) : F[i] = E[i]
  OBVIOUS
<1>3. \A i \in Len(E) + 1 .. Len(F) : ~Se!Change(F[i])
  <2> SUFFICES ASSUME NEW i \in Len(E) + 1 .. Len(F) PROVE ~Se!Change(F[i])
    OBVIOUS
  <2>1. i - Len(E) \in 1..Len(A) /\ F[i] = A[i - Len(E)]
    BY <1>1
  <2>2. F[i] \in [alert : Keys \cup {Unknown}]
    BY <2>1, ElementOfSeq
  <2> QED BY <2>2 DEF Se!Change
<1> HIDE DEF F
<1>4. \A n \in 0..Len(E) : \A d : Se!Tell(from, E, n, d) => Se!Tell(from, F, n, d)
  <2> SUFFICES ASSUME NEW n \in 0..Len(E), NEW d, Se!Tell(from, E, n, d) PROVE Se!Tell(from, F, n, d)
    OBVIOUS
  <2>1. \A i \in 1..n : Se!Change(F[i]) <=> Se!Change(E[i])
    BY <1>1, <1>2
  <2>2. CASE d = from /\ \A i \in 1..n : ~Se!Change(E[i])
    BY <2>1, <2>2 DEF Se!Tell
  <2>3. CASE \E j \in 1..n : Se!Change(E[j]) /\ E[j].new = d /\ \A i \in (j + 1)..n : ~Se!Change(E[i])
    <3>1. PICK j \in 1..n : Se!Change(E[j]) /\ E[j].new = d /\ \A i \in (j + 1)..n : ~Se!Change(E[i])
      BY <2>3
    <3>2. F[j] = E[j] /\ \A i \in (j + 1)..n : ~Se!Change(F[i])
      BY <1>1, <1>2, <2>1, <3>1
    <3> QED BY <2>1, <3>1, <3>2 DEF Se!Tell
  <2> QED BY <2>2, <2>3 DEF Se!Tell
<1>5. Se!Tell(from, F, Len(F), c)
  <2>1. Se!Tell(from, F, Len(E), c)
    BY <1>1, <1>4
  <2>2. CASE \A i \in 1..Len(E) : ~Se!Change(F[i])
    <3>1. \A i \in 1..Len(F) : ~Se!Change(F[i])
      BY <1>1, <1>3, <2>2
    <3>2. c = from
      BY <1>1, <2>1, <2>2 DEF Se!Tell
    <3> QED BY <3>1, <3>2 DEF Se!Tell
  <2>3. CASE ~(\A i \in 1..Len(E) : ~Se!Change(F[i]))
    <3>1. PICK j \in 1..Len(E) : Se!Change(F[j]) /\ F[j].new = c /\ \A i \in (j + 1)..Len(E) : ~Se!Change(F[i])
      BY <2>1, <2>3 DEF Se!Tell
    <3>2. j \in 1..Len(F) /\ \A i \in (j + 1)..Len(F) : ~Se!Change(F[i])
      BY <1>1, <1>3, <3>1
    <3> QED BY <3>1, <3>2 DEF Se!Tell
  <2> QED BY <2>2, <2>3
<1>6. \A i \in DOMAIN F : Se!Change(F[i]) => Se!Tell(from, F, i - 1, F[i].old)
  <2> SUFFICES ASSUME NEW i \in DOMAIN F, Se!Change(F[i]) PROVE Se!Tell(from, F, i - 1, F[i].old)
    OBVIOUS
  <2>1. i \in 1..Len(E) /\ F[i] = E[i] /\ i \in DOMAIN E
    BY <1>1, <1>2, <1>3
  <2>2. Se!Tell(from, E, i - 1, E[i].old)
    BY <2>1
  <2> QED BY <1>1, <1>4, <2>1, <2>2
<1> QED BY <1>1, <1>5, <1>6 DEF F

\* A change is told of by the event that tells it.
LEMMA ChangeTellsItself ==
  ASSUME NEW from, NEW E \in Seq(Se!Events), NEW last \in Se!Configs, NEW next \in Se!Configs, Se!Tell(from, E, Len(E), last),
         \A i \in DOMAIN E : Se!Change(E[i]) => Se!Tell(from, E, i - 1, E[i].old)
  PROVE  LET F == E \o <<[old |-> last, new |-> next]>>
         IN /\ F \in Seq(Se!Events)
            /\ Se!Tell(from, F, Len(F), next)
            /\ \A i \in DOMAIN F : Se!Change(F[i]) => Se!Tell(from, F, i - 1, F[i].old)
<1> DEFINE e == [old |-> last, new |-> next]
           F == E \o <<e>>
<1>0. e \in Se!Events /\ Se!Change(e) /\ e.new = next /\ e.old = last
  BY DEF Se!Events, Se!Change
<1> HIDE DEF e
<1>1. F \in Seq(Se!Events) /\ Len(F) = Len(E) + 1 /\ Len(E) \in Nat /\ F[Len(F)] = e
  BY <1>0
<1>2. \A i \in 1..Len(E) : F[i] = E[i]
  BY <1>0
<1> HIDE DEF F
<1>4. \A n \in 0..Len(E) : \A d : Se!Tell(from, E, n, d) => Se!Tell(from, F, n, d)
  <2> SUFFICES ASSUME NEW n \in 0..Len(E), NEW d, Se!Tell(from, E, n, d) PROVE Se!Tell(from, F, n, d)
    OBVIOUS
  <2>1. \A i \in 1..n : Se!Change(F[i]) <=> Se!Change(E[i])
    BY <1>1, <1>2
  <2>2. CASE d = from /\ \A i \in 1..n : ~Se!Change(E[i])
    BY <2>1, <2>2 DEF Se!Tell
  <2>3. CASE \E j \in 1..n : Se!Change(E[j]) /\ E[j].new = d /\ \A i \in (j + 1)..n : ~Se!Change(E[i])
    <3>1. PICK j \in 1..n : Se!Change(E[j]) /\ E[j].new = d /\ \A i \in (j + 1)..n : ~Se!Change(E[i])
      BY <2>3
    <3>2. F[j] = E[j] /\ \A i \in (j + 1)..n : ~Se!Change(F[i])
      BY <1>1, <1>2, <2>1, <3>1
    <3> QED BY <2>1, <3>1, <3>2 DEF Se!Tell
  <2> QED BY <2>2, <2>3 DEF Se!Tell
<1>5. Se!Tell(from, F, Len(F), next)
  <2>1. Len(F) \in 1..Len(F) /\ \A i \in (Len(F) + 1)..Len(F) : ~Se!Change(F[i])
    BY <1>1
  <2> QED BY <1>0, <1>1, <2>1 DEF Se!Tell
<1>6. \A i \in DOMAIN F : Se!Change(F[i]) => Se!Tell(from, F, i - 1, F[i].old)
  <2> SUFFICES ASSUME NEW i \in DOMAIN F, Se!Change(F[i]) PROVE Se!Tell(from, F, i - 1, F[i].old)
    OBVIOUS
  <2>0. DOMAIN F = 1..Len(F)
    BY <1>1
  <2>1. CASE i = Len(F)
    <3>1. Se!Tell(from, F, Len(E), last)
      BY <1>1, <1>4
    <3> QED BY <1>0, <1>1, <2>1, <3>1
  <2>2. CASE i # Len(F)
    <3>1. i \in 1..Len(E) /\ F[i] = E[i] /\ i \in DOMAIN E
      BY <1>1, <1>2, <2>0, <2>2
    <3>2. Se!Tell(from, E, i - 1, E[i].old)
      BY <3>1
    <3> QED BY <1>1, <1>4, <3>1, <3>2
  <2> QED BY <2>1, <2>2
<1> QED BY <1>1, <1>5, <1>6 DEF F, e

LEMMA ApplyTells ==
  ASSUME Se!SettingsAssumption, Se!Shapes, NEW from, cfg' \in Se!Configs, NEW last \in Se!Configs, NEW known,
         NEW L \in Seq(Se!Events), Se!Apply(last, known),
         LET E == L \o queued
         IN /\ Se!Tell(from, E, Len(E), last)
            /\ \A i \in DOMAIN E : Se!Change(E[i]) => Se!Tell(from, E, i - 1, E[i].old)
  PROVE  LET E == L \o queued'
         IN /\ queued' \in Seq(Se!Events)
            /\ Se!Tell(from, E, Len(E), cfg')
            /\ \A i \in DOMAIN E : Se!Change(E[i]) => Se!Tell(from, E, i - 1, E[i].old)
<1> DEFINE S == {[alert |-> k] : k \in Se!Errors(rows) \ known}
           A == Se!SetToSeq(S)
           B == IF cfg' = last THEN <<>> ELSE <<[old |-> last, new |-> cfg']>>
           E == L \o queued
<1>1. A \in Seq([alert : Keys \cup {Unknown}])
  <2>1. S \subseteq [alert : Keys \cup {Unknown}]
    <3>1. \A k \in Se!Errors(rows) : k \in Keys \cup {Unknown}
      BY ValuesType DEF Se!Shapes
    <3>2. \A k \in Keys \cup {Unknown} : [alert |-> k] \in [alert : Keys \cup {Unknown}]
      OBVIOUS
    <3> QED BY <3>1, <3>2
  <2>2. IsFiniteSet(Keys \cup {Unknown})
    BY FS_AddElement, SameFinite DEF Se!SettingsAssumption
  <2>3. IsFiniteSet(Se!Errors(rows) \ known)
    BY <2>2, ValuesType, FS_Subset DEF Se!Shapes
  <2>4. IsFiniteSet(S)
    <3> DEFINE T == Se!Errors(rows) \ known
               f == [k \in T |-> [alert |-> k]]
    <3>1. f \in Surjection(T, S)
      BY DEF Surjection
    <3> QED BY <2>3, <3>1, FS_Surjection
  <2>5. A \in Seq(S)
    BY <2>4, SeqOfSet
  <2> HIDE DEF A, S
  <2>6. \A i \in 1..Len(A) : A[i] \in [alert : Keys \cup {Unknown}]
    BY <2>1, <2>5, ElementOfSeq
  <2> QED BY <2>5, <2>6, WiderSeq
<1>2. queued' = queued \o A \o B
  BY DEF Se!Apply
<1>3. L \in Seq(Se!Events) /\ queued \in Seq(Se!Events) /\ E \in Seq(Se!Events) /\ A \in Seq(Se!Events)
  <2>1. \A i \in 1..Len(A) : A[i] \in Se!Events
    BY <1>1, ElementOfSeq DEF Se!Events
  <2>2. A \in Seq(Se!Events)
    BY <1>1, <2>1, SeqDef, LenProperties
  <2> QED BY <2>2 DEF Se!Shapes
<1> HIDE DEF A, E
<1>4. LET F == E \o A
      IN /\ F \in Seq(Se!Events) /\ Se!Tell(from, F, Len(F), last)
         /\ \A i \in DOMAIN F : Se!Change(F[i]) => Se!Tell(from, F, i - 1, F[i].old)
  BY <1>1, <1>3, AlertsTellNothing DEF E
<1> DEFINE F == E \o A
<1>5. LET G == F \o B
      IN /\ G \in Seq(Se!Events) /\ Se!Tell(from, G, Len(G), cfg')
         /\ \A i \in DOMAIN G : Se!Change(G[i]) => Se!Tell(from, G, i - 1, G[i].old)
  <2> HIDE DEF F
  <2>0. F \in Seq(Se!Events) /\ Se!Tell(from, F, Len(F), last)
         /\ \A i \in DOMAIN F : Se!Change(F[i]) => Se!Tell(from, F, i - 1, F[i].old)
    BY <1>4 DEF F
  <2>1. CASE cfg' = last
    <3>1. F \o B = F
      BY <2>0, <2>1
    <3> QED BY <2>0, <2>1, <3>1
  <2>2. CASE cfg' # last
    <3>1. B = <<[old |-> last, new |-> cfg']>>
      BY <2>2
    <3> HIDE DEF B
    <3> QED BY <2>0, <3>1, ChangeTellsItself
  <2> QED BY <2>1, <2>2
<1>6. B \in Seq(Se!Events)
  <2>1. [old |-> last, new |-> cfg'] \in Se!Events
    BY DEF Se!Events
  <2> QED BY <2>1
<1>7. L \o queued' = F \o B /\ queued' \in Seq(Se!Events)
  BY <1>2, <1>3, <1>6 DEF E
<1> QED BY <1>5, <1>7

LEMMA StartKeepsSettings == ASSUME Se!SettingsAssumption, Se!SetInv, NEW b \in Bases, Se!Start(b) PROVE Se!SetInv'
<1>1. b \in Se!Configs /\ base' = b /\ Se!Apply(b, {}) /\ log' = <<>> /\ UNCHANGED <<rows, meant, assumed>> /\ step' = "starting"
      /\ queued = <<>>
  BY DEF Se!Start, Se!SettingsAssumption, Se!SetInv, Se!NothingQueued
<1>2. cfg' \in Se!Configs /\ cfg' = due'
  BY <1>1, TakesWhatWasAsked DEF Se!SetInv
<1>3. queued' \in Seq(Se!Events) /\ Se!ChangesTold'
  <2> DEFINE E == <<>> \o queued
  <2>1. E = <<>> /\ <<>> \in Seq(Se!Events)
    BY <1>1
  <2>2. Se!Tell(b, E, Len(E), b) /\ \A i \in DOMAIN E : Se!Change(E[i]) => Se!Tell(b, E, i - 1, E[i].old)
    BY <2>1 DEF Se!Tell
  <2> QED BY <1>1, <1>2, <2>1, <2>2, ApplyTells DEF Se!SetInv, Se!ChangesTold
<1> QED BY <1>1, <1>2, <1>3 DEF Se!SetInv, Se!Shapes, Se!RowsAsAsked, Se!NothingQueued, Se!SettingsHold, Se!Values, Se!ParseSetting

LEMMA CycleKeepsSettings == ASSUME Se!SettingsAssumption, Se!SetInv, Se!Cycle PROVE Se!SetInv'
<1>1. base' = base /\ Se!Apply(cfg, errors) /\ UNCHANGED <<log, rows, meant, assumed>> /\ step' = "applied"
      /\ step # "down" /\ base \in Se!Configs /\ cfg \in Se!Configs /\ log \in Seq(Se!Events)
  BY DEF Se!Cycle, Se!published, Se!SetInv, Se!Shapes
<1>2. cfg' \in Se!Configs /\ cfg' = due'
  BY <1>1, TakesWhatWasAsked DEF Se!SetInv
<1>3. queued' \in Seq(Se!Events) /\ Se!ChangesTold'
  BY <1>1, <1>2, ApplyTells DEF Se!SetInv, Se!SettingsHold, Se!ChangesTold
<1> QED BY <1>1, <1>2, <1>3 DEF Se!SetInv, Se!Shapes, Se!RowsAsAsked, Se!NothingQueued, Se!SettingsHold, Se!Values, Se!ParseSetting

\* Publishing moves what is queued to the log.
LEMMA FlushKeepsSettings == ASSUME Se!SettingsAssumption, Se!SetInv, Se!Flush \/ Se!Exit PROVE Se!SetInv'
<1>1. UNCHANGED <<rows, base, cfg, meant, assumed, due>> /\ step # "down"
  BY DEF Se!Flush, Se!Exit, Se!asked
<1>2. CASE Se!Publish
  <2>1. log' = log \o queued /\ queued' = <<>>
    BY <1>2 DEF Se!Publish
  <2>2. log' \o queued' = log \o queued /\ log' \in Seq(Se!Events)
    BY <2>1 DEF Se!SetInv, Se!Shapes
  <2>3. Se!ChangesTold => Se!ChangesTold'
    BY <1>1, <2>2 DEF Se!ChangesTold
  <2>4. Se!Shapes' /\ Se!RowsAsAsked'
    BY <1>1, <2>1, <2>2 DEF Se!SetInv, Se!Shapes, Se!RowsAsAsked, Se!Values, Se!ParseSetting
  <2> QED BY <1>1, <2>1, <2>3, <2>4 DEF Se!SetInv, Se!NothingQueued, Se!SettingsHold
<1>3. CASE UNCHANGED <<log, queued>> /\ step' # "down"
  BY <1>1, <1>3 DEF Se!SetInv, Se!Shapes, Se!RowsAsAsked, Se!NothingQueued, Se!SettingsHold, Se!ChangesTold, Se!Values, Se!ParseSetting
<1>4. CASE UNCHANGED log /\ queued' = <<>> /\ step' = "down"
  BY <1>1, <1>4 DEF Se!SetInv, Se!Shapes, Se!RowsAsAsked, Se!NothingQueued, Se!SettingsHold, Se!Values, Se!ParseSetting
<1> QED BY <1>2, <1>3, <1>4 DEF Se!Flush, Se!Exit, Se!published

LEMMA SetIsKept == ASSUME Se!SettingsAssumption, Se!SetInv, [Se!Next]_(Se!vars) PROVE Se!SetInv'
<1>1. ASSUME NEW form \in Se!Forms, Se!Save(form) PROVE Se!SetInv'
  BY <1>1, SaveKeepsSettings
<1>2. CASE UNCHANGED <<rows, Se!farmer, Se!published, Se!asked>>
  BY <1>2 DEF Se!SetInv, Se!Shapes, Se!RowsAsAsked, Se!NothingQueued, Se!SettingsHold, Se!ChangesTold, Se!Values, Se!ParseSetting,
              Se!farmer, Se!published, Se!asked
<1>3. ASSUME NEW form \in Se!Forms, Se!Refuse(form) PROVE Se!SetInv'
  BY <1>2, <1>3 DEF Se!Refuse
<1>4. ASSUME NEW x \in Keys, Se!Reset(x) PROVE Se!SetInv'
  BY <1>4, ResetKeepsSettings
<1>5. ASSUME NEW b \in Bases, Se!Start(b) PROVE Se!SetInv'
  BY <1>5, StartKeepsSettings
<1> QED BY <1>1, <1>2, <1>3, <1>4, <1>5, CycleKeepsSettings, FlushKeepsSettings DEF Se!Next, Se!vars

\* Whatever forms, resets, restarts and failing cycles there are (reward_farmer.py: apply_settings,
\* flush; farm_db.py: put_settings, delete_setting): each cycle runs with what was last asked of
\* each key before it, and the events published and queued tell every change of the run.
THEOREM RunsWithWhatWasAsked == ASSUME Se!SettingsAssumption PROVE Se!Spec => []Se!SettingsHold
<1>1. Se!Init => Se!SetInv
  BY SetStarts
<1>2. Se!SetInv /\ [Se!Next]_(Se!vars) => Se!SetInv'
  BY SetIsKept
<1>3. Se!SetInv => Se!SettingsHold
  BY DEF Se!SetInv
<1> QED BY <1>1, <1>2, <1>3, PTL DEF Se!Spec

(***************************************************************************)
(* The reads of the markets' histories                                     *)
(***************************************************************************)

\* None is no read: a read has a tape.
ReadIsNotNone == "tape" \notin DOMAIN None

LEMMA HisStarts == ASSUME Hi!HistoriesAssumption, ReadIsNotNone, Hi!Init PROVE Hi!HisInv
<1>1. Hi!Nothing \in [Markets -> {None}]
  BY DEF Hi!Nothing
<1>2. Hi!Shapes
  BY <1>1 DEF Hi!Shapes, Hi!Init
<1> QED BY <1>1, <1>2 DEF Hi!HisInv, Hi!TapesGrow, Hi!Covered, Hi!Covers, Hi!ReadForDue, Hi!DownIsEmpty, Hi!Init, Hi!AtMost, Hi!TapeOf

\* Forgetting a read loses nothing that was saved.
LEMMA LookKeepsHistories == ASSUME Hi!HistoriesAssumption, ReadIsNotNone, Hi!HisInv, Hi!Look PROVE Hi!HisInv'
<1>1. /\ alive /\ read' = Hi!Kept(read) /\ dueNext' = Hi!Kept(dueNext) /\ fetching = None
      /\ UNCHANGED <<now, alive, wanted, shown, flushing, saved, states, tapes, reads>>
  BY DEF Hi!Look, Hi!stores
<1>2. /\ read' \in [Markets -> Hi!Reads \cup {None}] /\ \A c \in Markets : read'[c] \in {read[c], None}
      /\ dueNext' \in [Markets -> [at : Int, want : [market : Markets, floor : Int]] \cup {None}]
      /\ \A c \in Markets : (read'[c] = read[c] /\ dueNext'[c] = dueNext[c]) \/ dueNext'[c] = None
  BY <1>1 DEF Hi!Kept, Hi!HisInv, Hi!Shapes
<1>3. fetching' = None \/ fetching' \in [want : [market : Markets, floor : Int], at : {now}]
  <2>1. CASE Hi!Due = {}
    BY <2>1 DEF Hi!Look
  <2>2. CASE Hi!Due # {}
    <3>1. PICK i \in DOMAIN wanted : fetching' = [want |-> wanted[i], at |-> now]
      BY <2>2 DEF Hi!Look, Hi!Due
    <3>2. wanted[i] \in [market : Markets, floor : Int]
      BY LenProperties, ElementOfSeq DEF Hi!HisInv, Hi!Shapes
    <3> QED BY <3>1, <3>2
  <2> QED BY <2>1, <2>2
<1>4. Hi!Shapes'
  BY <1>1, <1>2, <1>3 DEF Hi!HisInv, Hi!Shapes
<1>5. Hi!TapesGrow'
  BY <1>1, <1>2 DEF Hi!HisInv, Hi!TapesGrow, Hi!AtMost, Hi!TapeOf
<1>6. Hi!Covered'
  BY <1>1 DEF Hi!HisInv, Hi!Covered, Hi!Covers, Hi!TapeOf
<1>7. Hi!ReadForDue'
  BY <1>1, <1>2, <1>3 DEF Hi!HisInv, Hi!ReadForDue, Hi!Shapes
<1> QED BY <1>1, <1>4, <1>5, <1>6, <1>7 DEF Hi!HisInv, Hi!DownIsEmpty

LEMMA LandKeepsHistories == ASSUME Hi!HistoriesAssumption, ReadIsNotNone, Hi!HisInv, Hi!Land PROVE Hi!HisInv'
<1> DEFINE m == fetching.want.market
           r == [id |-> reads', at |-> fetching.at, floor |-> fetching.want.floor, tape |-> reads']
<1>1. /\ fetching # None /\ reads' = reads + 1 /\ read' = [read EXCEPT ![m] = r] /\ fetching' = None
      /\ dueNext' = [dueNext EXCEPT ![m] = [at |-> fetching.at + HistoryS, want |-> fetching.want]]
      /\ UNCHANGED <<now, alive, wanted, shown, flushing, saved, states, tapes>>
  BY DEF Hi!Land, Hi!ReadFor, Hi!stores
<1>2. /\ fetching.want \in [market : Markets, floor : Int] /\ fetching.at \in Int /\ m \in Markets
      /\ HistoryS \in Int /\ fetching.at <= now /\ alive /\ reads' \in Int
  BY <1>1 DEF Hi!HisInv, Hi!Shapes, Hi!HistoriesAssumption, Hi!ReadForDue, Hi!DownIsEmpty
<1>3. r \in Hi!Reads /\ r # None /\ Hi!TapeOf(r) = reads' /\ r.at = fetching.at /\ r.floor = fetching.want.floor
  BY <1>2 DEF Hi!Reads, ReadIsNotNone, Hi!TapeOf
<1> HIDE DEF r
<1>4. Hi!Shapes'
  BY <1>1, <1>2, <1>3 DEF Hi!HisInv, Hi!Shapes
<1>5. Hi!TapesGrow'
  <2> SUFFICES ASSUME NEW c \in Markets
      PROVE  /\ \A x \in {Hi!TapeOf(read'[c]), Hi!TapeOf(tapes[c]), saved[c]} : Hi!AtMost(x, reads')
             /\ Hi!AtMost(saved[c], Hi!TapeOf(read'[c]))
             /\ flushing # None => /\ Hi!AtMost(Hi!TapeOf(flushing.reads[c]), reads')
                                   /\ Hi!AtMost(saved[c], Hi!TapeOf(flushing.reads[c]))
                                   /\ Hi!AtMost(Hi!TapeOf(flushing.reads[c]), Hi!TapeOf(read'[c]))
    BY <1>1 DEF Hi!TapesGrow, Hi!TapeOf, Hi!AtMost
  <2>1. \A x \in Int \cup {None} : Hi!AtMost(x, reads) => Hi!AtMost(x, reads')
    BY <1>1, <1>2 DEF Hi!AtMost, Hi!HisInv, Hi!Shapes, Hi!HistoriesAssumption
  <2>2. \A y \in Hi!Reads \cup {None} : Hi!TapeOf(y) \in Int \cup {None}
    BY DEF Hi!TapeOf, Hi!Reads
  <2>3. /\ Hi!TapeOf(tapes[c]) \in Int \cup {None} /\ saved[c] \in Int \cup {None}
        /\ Hi!TapeOf(read[c]) \in Int \cup {None}
        /\ flushing # None => Hi!TapeOf(flushing.reads[c]) \in Int \cup {None}
    BY <2>2 DEF Hi!HisInv, Hi!Shapes
  <2>4. c # m => read'[c] = read[c]
    BY <1>1 DEF Hi!HisInv, Hi!Shapes
  <2>5. c = m => Hi!TapeOf(read'[c]) = reads'
    BY <1>1, <1>2, <1>3 DEF Hi!HisInv, Hi!Shapes
  <2>6. Hi!AtMost(reads', reads')
    BY <1>2 DEF Hi!AtMost
  <2> QED BY <2>1, <2>3, <2>4, <2>5, <2>6 DEF Hi!HisInv, Hi!TapesGrow
<1>6. Hi!Covered'
  BY <1>1 DEF Hi!HisInv, Hi!Covered, Hi!Covers, Hi!TapeOf
<1>7. Hi!ReadForDue'
  <2> SUFFICES ASSUME NEW c \in Markets, dueNext'[c] # None, now + RetryS < dueNext'[c].at
               PROVE  read'[c] # None /\ read'[c].floor = dueNext'[c].want.floor /\ dueNext'[c].at = read'[c].at + HistoryS
    BY <1>1 DEF Hi!ReadForDue
  <2>1. CASE c = m
    <3>1. read'[c] = r /\ dueNext'[c] = [at |-> fetching.at + HistoryS, want |-> fetching.want]
      BY <1>1, <1>2, <2>1 DEF Hi!HisInv, Hi!Shapes
    <3> QED BY <1>3, <3>1
  <2>2. CASE c # m
    <3>1. read'[c] = read[c] /\ dueNext'[c] = dueNext[c]
      BY <1>1, <2>2 DEF Hi!HisInv, Hi!Shapes
    <3> QED BY <3>1 DEF Hi!HisInv, Hi!ReadForDue
  <2> QED BY <2>1, <2>2
<1> QED BY <1>1, <1>2, <1>4, <1>5, <1>6, <1>7 DEF Hi!HisInv, Hi!DownIsEmpty

LEMMA MissKeepsHistories == ASSUME Hi!HistoriesAssumption, Hi!HisInv, Hi!Miss PROVE Hi!HisInv'
<1> DEFINE m == fetching.want.market
<1>1. /\ fetching # None /\ fetching' = None
      /\ dueNext' = [dueNext EXCEPT ![m] = [at |-> fetching.at + RetryS, want |-> fetching.want]]
      /\ UNCHANGED <<now, alive, wanted, read, shown, flushing, saved, states, tapes, reads>>
  BY DEF Hi!Miss, Hi!ReadFor, Hi!stores
<1>2. /\ fetching.want \in [market : Markets, floor : Int] /\ fetching.at \in Int /\ m \in Markets
      /\ RetryS \in Int /\ fetching.at <= now /\ alive /\ now \in Int
  BY <1>1 DEF Hi!HisInv, Hi!Shapes, Hi!HistoriesAssumption, Hi!ReadForDue, Hi!DownIsEmpty
<1>4. Hi!Shapes'
  BY <1>1, <1>2 DEF Hi!HisInv, Hi!Shapes
<1>5. Hi!TapesGrow' /\ Hi!Covered'
  BY <1>1 DEF Hi!HisInv, Hi!TapesGrow, Hi!AtMost, Hi!Covered, Hi!Covers, Hi!TapeOf
<1>7. Hi!ReadForDue'
  <2> SUFFICES ASSUME NEW c \in Markets, dueNext'[c] # None, now + RetryS < dueNext'[c].at
               PROVE  read[c] # None /\ read[c].floor = dueNext'[c].want.floor /\ dueNext'[c].at = read[c].at + HistoryS
    BY <1>1 DEF Hi!ReadForDue
  <2>1. CASE c = m
    <3>1. dueNext'[c] = [at |-> fetching.at + RetryS, want |-> fetching.want]
      BY <1>1, <1>2, <2>1 DEF Hi!HisInv, Hi!Shapes
    <3> QED BY <1>2, <3>1
  <2>2. CASE c # m
    <3>1. dueNext'[c] = dueNext[c]
      BY <1>1, <2>2 DEF Hi!HisInv, Hi!Shapes
    <3> QED BY <3>1 DEF Hi!HisInv, Hi!ReadForDue
  <2> QED BY <2>1, <2>2
<1> QED BY <1>1, <1>2, <1>4, <1>5, <1>7 DEF Hi!HisInv, Hi!DownIsEmpty

LEMMA TickKeepsHistories == ASSUME Hi!HistoriesAssumption, Hi!HisInv, Hi!Tick PROVE Hi!HisInv'
<1>1. now' = now + 1 /\ UNCHANGED <<alive, wanted, read, dueNext, fetching, shown, flushing, saved, states, tapes, reads>>
  BY DEF Hi!Tick, Hi!stores
<1>2. now \in Int /\ RetryS \in Int /\ \A c \in Markets : dueNext[c] # None => dueNext[c].at \in Int
  BY DEF Hi!HisInv, Hi!Shapes, Hi!HistoriesAssumption
<1>3. fetching # None => fetching.at \in Int
  BY DEF Hi!HisInv, Hi!Shapes
<1>4. Hi!ReadForDue'
  BY <1>1, <1>2, <1>3 DEF Hi!HisInv, Hi!ReadForDue
<1>5. Hi!Shapes' /\ Hi!TapesGrow' /\ Hi!Covered' /\ Hi!DownIsEmpty'
  BY <1>1, <1>2 DEF Hi!HisInv, Hi!Shapes, Hi!TapesGrow, Hi!AtMost, Hi!Covered, Hi!Covers, Hi!TapeOf, Hi!DownIsEmpty
<1> QED BY <1>4, <1>5 DEF Hi!HisInv

LEMMA CycleKeepsHistories == ASSUME Hi!HistoriesAssumption, Hi!HisInv, Hi!Cycle PROVE Hi!HisInv'
<1>1. /\ alive /\ wanted' \in Wants
      /\ UNCHANGED <<now, alive, read, dueNext, fetching, flushing, saved, states, tapes, reads>>
  BY DEF Hi!Cycle, Hi!stores
<1>2. wanted' \in Seq([market : Markets, floor : Int])
  BY <1>1 DEF Hi!HistoriesAssumption
<1>3. shown' \in [Markets -> Hi!Reads \cup {None}]
  <2>1. \A c \in Markets : read[c] # None => [read[c] EXCEPT !.tape = None] \in Hi!Reads
    BY DEF Hi!HisInv, Hi!Shapes, Hi!Reads
  <2> QED BY <2>1 DEF Hi!Cycle
<1>4. Hi!Shapes'
  BY <1>1, <1>2, <1>3 DEF Hi!HisInv, Hi!Shapes
<1> QED BY <1>1, <1>4 DEF Hi!HisInv, Hi!TapesGrow, Hi!AtMost, Hi!Covered, Hi!Covers, Hi!TapeOf, Hi!ReadForDue, Hi!DownIsEmpty

LEMMA FlushKeepsHistories == ASSUME Hi!HistoriesAssumption, Hi!HisInv, Hi!Flush PROVE Hi!HisInv'
<1> DEFINE L == {c \in Markets : read[c] # None}
<1>1. /\ alive /\ flushing' = [reads |-> read, left |-> L]
      /\ UNCHANGED <<now, alive, wanted, read, dueNext, fetching, shown, saved, states, tapes, reads>>
  BY DEF Hi!Flush, Hi!stores
<1>2. flushing'.reads = read /\ flushing'.left = L
  BY <1>1
<1>3. Hi!Shapes'
  BY <1>1 DEF Hi!HisInv, Hi!Shapes
<1>4. Hi!TapesGrow'
  <2>1. \A y \in Int \cup {None} : Hi!AtMost(y, y)
    BY DEF Hi!AtMost
  <2>2. \A c \in Markets : Hi!TapeOf(read[c]) \in Int \cup {None}
    BY DEF Hi!HisInv, Hi!Shapes, Hi!TapeOf, Hi!Reads
  <2> QED BY <1>1, <1>2, <2>1, <2>2 DEF Hi!HisInv, Hi!TapesGrow, Hi!AtMost, Hi!TapeOf
<1>5. Hi!Covered'
  BY <1>1, <1>2 DEF Hi!HisInv, Hi!Covered, Hi!Covers, Hi!TapeOf
<1> QED BY <1>1, <1>3, <1>4, <1>5 DEF Hi!HisInv, Hi!ReadForDue, Hi!DownIsEmpty

\* Only a tape newer than the one saved is written over it.
LEMMA SaveKeepsHistories == ASSUME Hi!HistoriesAssumption, ReadIsNotNone, Hi!HisInv, NEW c \in Markets, Hi!SaveTape(c) PROVE Hi!HisInv'
<1>1. /\ flushing # None /\ c \in flushing.left /\ flushing' = [flushing EXCEPT !.left = @ \ {c}]
      /\ tapes' = IF Hi!Unsaved(c) THEN [tapes EXCEPT ![c] = flushing.reads[c]] ELSE tapes
      /\ UNCHANGED <<now, alive, wanted, read, dueNext, fetching, shown, saved, states, reads>>
  BY DEF Hi!SaveTape
<1>2. /\ flushing \in [reads : [Markets -> Hi!Reads \cup {None}], left : SUBSET Markets]
      /\ flushing'.reads = flushing.reads /\ flushing'.left = flushing.left \ {c}
  BY <1>1 DEF Hi!HisInv, Hi!Shapes
<1>3. \A d \in Markets \ {c} : tapes'[d] = tapes[d]
  BY <1>1 DEF Hi!HisInv, Hi!Shapes
<1> DEFINE x == Hi!TapeOf(flushing.reads[c])
<1>4. CASE Hi!Unsaved(c)
  <2>1. x # None /\ x # saved[c] /\ flushing.reads[c] # None /\ tapes'[c] = flushing.reads[c] /\ tapes'[c].tape = x
        /\ flushing.reads[c] \in Hi!Reads /\ x \in Int
    BY <1>1, <1>2, <1>4 DEF Hi!Unsaved, Hi!TapeOf, Hi!HisInv, Hi!Shapes, Hi!Reads
  <2>2. tapes' \in [Markets -> Hi!Reads \cup {None}]
    BY <1>1, <1>4, <2>1 DEF Hi!HisInv, Hi!Shapes
  <2>3. Hi!Shapes'
    BY <1>1, <1>2, <1>3, <2>1, <2>2 DEF Hi!HisInv, Hi!Shapes
  <2>4. Hi!TapesGrow'
    <3>1. Hi!TapeOf(tapes'[c]) = x /\ Hi!AtMost(x, reads)
      BY <1>1, <2>1 DEF Hi!HisInv, Hi!TapesGrow, Hi!TapeOf
    <3> HIDE DEF x
    <3> QED BY <1>1, <1>2, <1>3, <3>1 DEF Hi!HisInv, Hi!TapesGrow, Hi!AtMost, Hi!TapeOf
  <2>5. Hi!Covered'
    <3>1. Hi!Covers(c, saved[c])'
      BY <1>1, <2>1 DEF Hi!Covers, Hi!HisInv, Hi!TapesGrow, Hi!AtMost, Hi!Shapes
    <3>2. x >= x
      BY <2>1
    <3>3. Hi!Covers(c, Hi!TapeOf(flushing.reads[c]))'
      BY <1>2, <2>1, <3>2 DEF Hi!Covers, Hi!TapeOf
    <3>4. \A d \in Markets \ {c} : Hi!Covers(d, saved[d])' /\ (d \notin flushing'.left => Hi!Covers(d, Hi!TapeOf(flushing.reads[d]))')
      BY <1>1, <1>2, <1>3 DEF Hi!HisInv, Hi!Covered, Hi!Covers, Hi!TapeOf
    <3> QED BY <3>1, <3>3, <3>4 DEF Hi!Covered
  <2> QED BY <1>1, <2>3, <2>4, <2>5 DEF Hi!HisInv, Hi!ReadForDue, Hi!DownIsEmpty
<1>5. CASE ~Hi!Unsaved(c)
  <2>1. x \in {None, saved[c]} /\ tapes' = tapes
    BY <1>1, <1>5 DEF Hi!Unsaved
  <2>2. Hi!Covers(c, x)
    BY <2>1 DEF Hi!HisInv, Hi!Covered, Hi!Covers
  <2>3. Hi!Covered'
    BY <1>1, <1>2, <2>1, <2>2 DEF Hi!HisInv, Hi!Covered, Hi!Covers, Hi!TapeOf
  <2>4. Hi!Shapes'
    BY <1>1, <1>2, <2>1 DEF Hi!HisInv, Hi!Shapes
  <2>5. Hi!TapesGrow'
    BY <1>1, <1>2, <2>1 DEF Hi!HisInv, Hi!TapesGrow, Hi!AtMost, Hi!TapeOf
  <2> QED BY <1>1, <2>1, <2>3, <2>4, <2>5 DEF Hi!HisInv, Hi!ReadForDue, Hi!DownIsEmpty
<1> QED BY <1>4, <1>5

\* A flush that has looked at every tape has covered them.
LEMMA PublishKeepsHistories == ASSUME Hi!HistoriesAssumption, Hi!HisInv, NEW works, Hi!Publish(works) PROVE Hi!HisInv'
<1>1. /\ flushing # None /\ flushing.left = {} /\ flushing' = None
      /\ saved' = [c \in Markets |-> Hi!TapeOf(flushing.reads[c])]
      /\ states' = IF works THEN shown ELSE states
      /\ UNCHANGED <<now, alive, wanted, read, dueNext, fetching, shown, tapes, reads>>
  BY DEF Hi!Publish, Hi!SavedOf
<1>2. \A c \in Markets : Hi!TapeOf(flushing.reads[c]) \in Int \cup {None}
  BY <1>1 DEF Hi!HisInv, Hi!Shapes, Hi!TapeOf, Hi!Reads
<1>3. Hi!Shapes'
  BY <1>1, <1>2 DEF Hi!HisInv, Hi!Shapes
<1>4. Hi!TapesGrow'
  BY <1>1, <1>2 DEF Hi!HisInv, Hi!TapesGrow, Hi!TapeOf, Hi!AtMost
<1>5. Hi!Covered'
  BY <1>1, <1>2 DEF Hi!HisInv, Hi!Covered, Hi!Covers, Hi!TapeOf
<1> QED BY <1>1, <1>3, <1>4, <1>5 DEF Hi!HisInv, Hi!ReadForDue, Hi!DownIsEmpty

LEMMA SaveFailsKeepsHistories == ASSUME Hi!HistoriesAssumption, Hi!HisInv, Hi!SaveFails PROVE Hi!HisInv'
<1>1. /\ flushing' = None
      /\ UNCHANGED <<now, alive, wanted, read, dueNext, fetching, shown, saved, states, tapes, reads>>
  BY DEF Hi!SaveFails, Hi!stores
<1>2. Hi!Shapes'
  BY <1>1 DEF Hi!HisInv, Hi!Shapes
<1> QED BY <1>1, <1>2 DEF Hi!HisInv, Hi!TapesGrow, Hi!AtMost, Hi!Covered, Hi!Covers, Hi!TapeOf, Hi!ReadForDue, Hi!DownIsEmpty

LEMMA StopKeepsHistories == ASSUME Hi!HistoriesAssumption, Hi!HisInv, Hi!Stop PROVE Hi!HisInv'
<1>1. /\ alive' = FALSE /\ wanted' = <<>> /\ read' = Hi!Nothing /\ dueNext' = Hi!Nothing /\ fetching' = None
      /\ shown' = Hi!Nothing /\ flushing' = None /\ saved' = Hi!Nothing /\ UNCHANGED <<now, states, tapes, reads>>
  BY DEF Hi!Stop, Hi!stores
<1>2. Hi!Nothing \in [Markets -> {None}]
  BY DEF Hi!Nothing
<1>3. Hi!Shapes'
  BY <1>1, <1>2 DEF Hi!HisInv, Hi!Shapes
<1>4. Hi!TapesGrow'
  BY <1>1, <1>2 DEF Hi!HisInv, Hi!TapesGrow, Hi!AtMost, Hi!TapeOf
<1> QED BY <1>1, <1>2, <1>3, <1>4 DEF Hi!HisInv, Hi!Covered, Hi!Covers, Hi!TapeOf, Hi!ReadForDue, Hi!DownIsEmpty

LEMMA StartKeepsHistories == ASSUME Hi!HistoriesAssumption, ReadIsNotNone, Hi!HisInv, Hi!Start PROVE Hi!HisInv'
<1>1. /\ ~alive /\ alive' /\ wanted' \in Wants
      /\ read' = [c \in Markets |-> IF \E i \in DOMAIN wanted' : wanted'[i].market = c
                                THEN Hi!Seed(c) ELSE None]
      /\ saved' = [c \in Markets |-> Hi!TapeOf(read'[c])]
      /\ fetching = None /\ flushing = None /\ dueNext = Hi!Nothing
      /\ UNCHANGED <<now, dueNext, fetching, shown, flushing, states, tapes, reads>>
  BY DEF Hi!Start, Hi!stores, Hi!HisInv, Hi!DownIsEmpty
<1>2. wanted' \in Seq([market : Markets, floor : Int])
  BY <1>1 DEF Hi!HistoriesAssumption
<1>3. \A c \in Markets : /\ Hi!Seed(c) \in Hi!Reads \cup {None}
                         /\ Hi!TapeOf(Hi!Seed(c)) \in {None, Hi!TapeOf(tapes[c])}
  <2> SUFFICES ASSUME NEW c \in Markets PROVE Hi!Seed(c) \in Hi!Reads \cup {None} /\ Hi!TapeOf(Hi!Seed(c)) \in {None, Hi!TapeOf(tapes[c])}
    OBVIOUS
  <2>1. states[c] \in Hi!Reads \cup {None} /\ tapes[c] \in Hi!Reads \cup {None}
    BY DEF Hi!HisInv, Hi!Shapes
  <2>2. Hi!Fresh(tapes[c]) => tapes[c] # None /\ tapes[c].tape \in Int \cup {None}
    BY <2>1 DEF Hi!Fresh, Hi!Reads
  <2> QED BY <2>1, <2>2 DEF Hi!Seed, Hi!Fresh, Hi!TapeOf, Hi!Reads, ReadIsNotNone
<1>4. read' \in [Markets -> Hi!Reads \cup {None}] /\ \A c \in Markets : Hi!TapeOf(read'[c]) \in {None, Hi!TapeOf(tapes[c])}
  BY <1>1, <1>3 DEF Hi!TapeOf
<1>5. \A c \in Markets : Hi!TapeOf(read'[c]) \in Int \cup {None} /\ saved'[c] = Hi!TapeOf(read'[c])
  BY <1>1, <1>4 DEF Hi!TapeOf, Hi!Reads
<1>6. saved' \in [Markets -> Int \cup {None}]
  BY <1>1, <1>5
<1>7. Hi!Shapes'
  <2>1. \A f \in {read', shown', states', tapes'} : f \in [Markets -> Hi!Reads \cup {None}]
    BY <1>1, <1>4 DEF Hi!HisInv, Hi!Shapes
  <2>2. UNCHANGED <<now, reads, dueNext, fetching, flushing, tapes>>
    BY <1>1
  <2> QED BY <1>2, <1>6, <2>1, <2>2 DEF Hi!HisInv, Hi!Shapes
<1>8. Hi!TapesGrow'
  <2> SUFFICES ASSUME NEW c \in Markets
      PROVE  /\ \A x \in {Hi!TapeOf(read'[c]), Hi!TapeOf(tapes[c]), saved'[c]} : Hi!AtMost(x, reads)
             /\ Hi!AtMost(saved'[c], Hi!TapeOf(read'[c]))
    BY <1>1 DEF Hi!TapesGrow, Hi!TapeOf, Hi!AtMost
  <2>1. Hi!AtMost(Hi!TapeOf(tapes[c]), reads)
    BY DEF Hi!HisInv, Hi!TapesGrow
  <2>2. Hi!AtMost(Hi!TapeOf(read'[c]), Hi!TapeOf(read'[c]))
    BY <1>5 DEF Hi!AtMost
  <2> QED BY <1>4, <1>5, <2>1, <2>2 DEF Hi!AtMost
<1>9. Hi!Covered'
  <2> SUFFICES ASSUME NEW c \in Markets, saved'[c] # None PROVE tapes[c] # None /\ tapes[c].tape >= saved'[c]
    BY <1>1 DEF Hi!Covered, Hi!Covers
  <2>1. saved'[c] = Hi!TapeOf(tapes[c])
    BY <1>4, <1>5
  <2>2. tapes[c] # None /\ saved'[c] = tapes[c].tape /\ saved'[c] \in Int
    BY <1>5, <2>1 DEF Hi!TapeOf
  <2> QED BY <2>2
<1>10. Hi!ReadForDue' /\ Hi!DownIsEmpty'
  BY <1>1 DEF Hi!ReadForDue, Hi!DownIsEmpty, Hi!Nothing
<1> QED BY <1>7, <1>8, <1>9, <1>10 DEF Hi!HisInv

LEMMA HisIsKept == ASSUME Hi!HistoriesAssumption, ReadIsNotNone, Hi!HisInv, [Hi!Next]_(Hi!vars) PROVE Hi!HisInv'
<1>1. CASE UNCHANGED Hi!vars
  BY <1>1 DEF Hi!vars, Hi!stores, Hi!HisInv, Hi!Shapes, Hi!TapesGrow, Hi!AtMost, Hi!Covered, Hi!Covers, Hi!TapeOf, Hi!ReadForDue, Hi!DownIsEmpty
<1>2. ASSUME NEW c \in Markets, Hi!SaveTape(c) PROVE Hi!HisInv'
  BY <1>2, SaveKeepsHistories
<1>3. ASSUME NEW works \in BOOLEAN, Hi!Publish(works) PROVE Hi!HisInv'
  BY <1>3, PublishKeepsHistories
<1> QED BY <1>1, <1>2, <1>3, TickKeepsHistories, LookKeepsHistories, LandKeepsHistories, MissKeepsHistories, CycleKeepsHistories, FlushKeepsHistories, SaveFailsKeepsHistories,
           StopKeepsHistories, StartKeepsHistories DEF Hi!Next

LEMMA HisPromises == ASSUME Hi!HistoriesAssumption, Hi!HisInv PROVE Hi!ReadsAreKept
<1>1. \A c \in Markets : saved[c] # None => tapes[c] # None /\ tapes[c].tape >= saved[c]
  BY DEF Hi!HisInv, Hi!Covered, Hi!Covers
<1>2. ASSUME NEW i \in DOMAIN wanted, dueNext[wanted[i].market] # None, dueNext[wanted[i].market].want = wanted[i],
             now + RetryS < dueNext[wanted[i].market].at
      PROVE  /\ read[wanted[i].market] # None /\ read[wanted[i].market].floor = wanted[i].floor
             /\ now - read[wanted[i].market].at < HistoryS
  <2> DEFINE c == wanted[i].market
  <2>1. c \in Markets
    <3>1. wanted[i] \in [market : Markets, floor : Int]
      BY LenProperties, ElementOfSeq DEF Hi!HisInv, Hi!Shapes
    <3> QED BY <3>1
  <2>2. read[c] # None /\ read[c].floor = dueNext[c].want.floor /\ dueNext[c].at = read[c].at + HistoryS
    BY <1>2, <2>1 DEF Hi!HisInv, Hi!ReadForDue
  <2>3. now \in Int /\ RetryS \in Nat /\ HistoryS \in Int /\ read[c].at \in Int
    BY <2>1, <2>2 DEF Hi!HisInv, Hi!Shapes, Hi!Reads, Hi!HistoriesAssumption
  <2> QED BY <1>2, <2>2, <2>3
<1> QED BY <1>1, <1>2 DEF Hi!ReadsAreKept

\* Whatever the reader, the cycles, the flushes and the ends of runs do (reward_farmer.py: Histories,
\* save_tapes, seed_histories): a tape taken for saved is in the database, or a later one is, and a
\* market left alone for longer than a retry has a read of what is wanted of it, young enough.
THEOREM ReadsKept == ASSUME Hi!HistoriesAssumption, ReadIsNotNone PROVE Hi!Spec => []Hi!ReadsAreKept
<1>1. Hi!Init => Hi!HisInv
  BY HisStarts
<1>2. Hi!HisInv /\ [Hi!Next]_(Hi!vars) => Hi!HisInv'
  BY HisIsKept
<1>3. Hi!HisInv => Hi!ReadsAreKept
  BY HisPromises
<1> QED BY <1>1, <1>2, <1>3, PTL DEF Hi!Spec

(***************************************************************************)
(* The Claude screens                                                      *)
(***************************************************************************)

\* In a finite set of integers, each has a place of its own, and no place is empty.
LEMMA Ranks ==
  ASSUME NEW at, at \subseteq Int, IsFiniteSet(at)
  PROVE  /\ Cardinality(at) \in Nat
         /\ \A i \in at : Cardinality({j \in at : j <= i}) \in 1..Cardinality(at)
         /\ \A i, k \in at : Cardinality({j \in at : j <= i}) = Cardinality({j \in at : j <= k}) => i = k
         /\ \A n \in 1..Cardinality(at) : \E i \in at : Cardinality({j \in at : j <= i}) = n
<1> DEFINE upto(i) == {j \in at : j <= i}
           N == Cardinality(at)
           f == [i \in at |-> Cardinality(upto(i))]
<1>1. N \in Nat
  BY FS_CardinalityType
<1>2. \A i \in at : IsFiniteSet(upto(i)) /\ Cardinality(upto(i)) \in 1..N
  <2> SUFFICES ASSUME NEW i \in at PROVE IsFiniteSet(upto(i)) /\ Cardinality(upto(i)) \in 1..N
    OBVIOUS
  <2>1. upto(i) \in SUBSET at /\ i \in upto(i)
    OBVIOUS
  <2>2. IsFiniteSet(upto(i)) /\ Cardinality(upto(i)) <= N
    BY <2>1, FS_Subset
  <2>3. Cardinality(upto(i)) \in Nat /\ Cardinality(upto(i)) # 0
    BY <2>1, <2>2, FS_CardinalityType, FS_EmptySet
  <2> QED BY <1>1, <2>2, <2>3
<1>3. \A i, k \in at : i < k => Cardinality(upto(i)) # Cardinality(upto(k))
  <2> SUFFICES ASSUME NEW i \in at, NEW k \in at, i < k, Cardinality(upto(i)) = Cardinality(upto(k)) PROVE FALSE
    OBVIOUS
  <2>0. i \in Int /\ k \in Int /\ \A j \in at : j \in Int
    OBVIOUS
  <2>1. upto(i) \in SUBSET upto(k) /\ k \in upto(k) /\ k \notin upto(i)
    <3>1. \A j \in at : j <= i => j <= k
      BY <2>0
    <3>2. k <= k /\ ~(k <= i)
      BY <2>0
    <3> QED BY <3>1, <3>2
  <2>2. upto(i) = upto(k)
    <3>1. \A T \in SUBSET upto(k) : Cardinality(upto(k)) = Cardinality(T) => upto(k) = T
      <4>1. IsFiniteSet(upto(k))
        BY <1>2
      <4> QED BY <4>1, FS_Subset
    <3> HIDE DEF upto
    <3> QED BY <2>1, <3>1
  <2> QED BY <2>1, <2>2
<1> HIDE DEF upto, N
<1>4. \A i, k \in at : Cardinality(upto(i)) = Cardinality(upto(k)) => i = k
  <2> SUFFICES ASSUME NEW i \in at, NEW k \in at, Cardinality(upto(i)) = Cardinality(upto(k)) PROVE i = k
    OBVIOUS
  <2>1. i \in Int /\ k \in Int
    OBVIOUS
  <2> QED BY <1>3, <2>1
<1>5. f \in Injection(at, 1..N)
  <2>1. f \in [at -> 1..N]
    BY <1>2
  <2>2. \A i, k \in at : f[i] = f[k] => i = k
    BY <1>4
  <2> QED BY <2>1, <2>2, Zenon DEF Injection, IsInjective
<1>6. IsFiniteSet(1..N) /\ Cardinality(1..N) = N
  BY <1>1, FS_Interval
<1>7. f \in Surjection(at, 1..N)
  BY <1>5, <1>6, FS_Injection DEF N
<1>8. \A n \in 1..N : \E i \in at : f[i] = n
  BY <1>7, Zenon DEF Surjection
<1> QED BY <1>1, <1>2, <1>4, <1>8 DEF upto, N

LEMMA SameSize == \A S : Tr!Cardinality(S) = Cardinality(S)
  BY Zenon DEF Tr!Cardinality, Cardinality, Tr!IsFiniteSet, IsFiniteSet

\* What is among a set is all that is in it of the list, once if it was once.
LEMMA AmongIs ==
  ASSUME NEW S, NEW s \in Seq(S), NEW K
  PROVE  /\ Tr!Among(s, K) \in Seq(S)
         /\ Tr!ToSet(Tr!Among(s, K)) = Tr!ToSet(s) \cap K
         /\ Tr!IsInjective(s) => Tr!IsInjective(Tr!Among(s, K))
<1> DEFINE at == {i \in DOMAIN s : s[i] \in K}
           rank(i) == Tr!Cardinality({j \in at : j <= i})
           pick(n) == CHOOSE i \in at : rank(i) = n
           r == Tr!Among(s, K)
<1>0. DOMAIN s = 1..Len(s) /\ Len(s) \in Nat /\ \A i \in DOMAIN s : s[i] \in S
  BY LenProperties, ElementOfSeq
<1>1. at \subseteq Int /\ IsFiniteSet(at)
  <2>1. at \in SUBSET (1..Len(s)) /\ IsFiniteSet(1..Len(s))
    BY <1>0, FS_Interval, SameSize
  <2>2. at \subseteq Int
    BY <1>0
  <2> HIDE DEF at
  <2> QED BY <2>1, <2>2, FS_Subset, SameSize
<1>2. /\ Tr!Cardinality(at) \in Nat
      /\ \A i \in at : rank(i) \in 1..Tr!Cardinality(at)
      /\ \A i, k \in at : rank(i) = rank(k) => i = k
      /\ \A n \in 1..Tr!Cardinality(at) : \E i \in at : rank(i) = n
  <2> DEFINE upto(i) == {j \in at : j <= i}
  <2>1. Tr!Cardinality(at) = Cardinality(at)
    BY SameSize
  <2>2. \A i : rank(i) = Cardinality(upto(i))
    BY SameSize
  <2>3. /\ Cardinality(at) \in Nat
        /\ \A i \in at : Cardinality(upto(i)) \in 1..Cardinality(at)
        /\ \A i, k \in at : Cardinality(upto(i)) = Cardinality(upto(k)) => i = k
        /\ \A n \in 1..Cardinality(at) : \E i \in at : Cardinality(upto(i)) = n
    <3> HIDE DEF at
    <3> QED BY <1>1, Ranks
  <2> HIDE DEF rank, upto, at
  <2> QED BY <2>1, <2>2, <2>3
<1>3. r = [n \in 1..Tr!Cardinality(at) |-> s[pick(n)]]
  BY DEF Tr!Among
<1> HIDE DEF rank, at, r
<1>4. \A n \in 1..Tr!Cardinality(at) : pick(n) \in at /\ rank(pick(n)) = n
  BY <1>2
<1>5. \A i \in at : pick(rank(i)) = i
  BY <1>2, <1>4
<1> HIDE DEF pick
<1>6. \A n \in 1..Tr!Cardinality(at) : r[n] = s[pick(n)] /\ pick(n) \in DOMAIN s /\ s[pick(n)] \in K
  BY <1>3, <1>4 DEF at
<1>7. r \in Seq(S)
  <2>1. r \in [1..Tr!Cardinality(at) -> S]
    BY <1>0, <1>3, <1>6
  <2> QED BY <1>2, <2>1, SeqDef
<1>8. Tr!ToSet(r) = Tr!ToSet(s) \cap K
  <2>1. \A x \in Tr!ToSet(r) : x \in Tr!ToSet(s) \cap K
    BY <1>3, <1>6 DEF Tr!ToSet
  <2>2. ASSUME NEW x \in Tr!ToSet(s) \cap K PROVE x \in Tr!ToSet(r)
    <3>1. PICK i \in DOMAIN s : x = s[i]
      BY DEF Tr!ToSet
    <3>2. i \in at
      BY <3>1 DEF at
    <3>3. rank(i) \in DOMAIN r /\ r[rank(i)] = s[i]
      BY <1>2, <1>3, <1>5, <3>2
    <3> QED BY <3>1, <3>3 DEF Tr!ToSet
  <2> QED BY <2>1, <2>2
<1>9. Tr!IsInjective(s) => Tr!IsInjective(r)
  <2> SUFFICES ASSUME Tr!IsInjective(s), NEW n \in DOMAIN r, NEW m \in DOMAIN r, r[n] = r[m] PROVE n = m
    BY DEF Tr!IsInjective
  <2>1. n \in 1..Tr!Cardinality(at) /\ m \in 1..Tr!Cardinality(at)
    BY <1>3
  <2>2. pick(n) = pick(m)
    BY <1>6, <2>1 DEF Tr!IsInjective
  <2> QED BY <1>4, <2>1, <2>2
<1> QED BY <1>7, <1>8, <1>9 DEF r

LEMMA MinOfTwo ==
  ASSUME NEW x \in Int, NEW y \in Int
  PROVE  Tr!Min({x, y}) = IF x <= y THEN x ELSE y
<1> DEFINE least == IF x <= y THEN x ELSE y
<1>1. least \in {x, y} /\ \A z \in {x, y} : least <= z
  OBVIOUS
<1>2. \A m \in {x, y} : (\A z \in {x, y} : m <= z) => m = least
  OBVIOUS
<1> QED BY <1>1, <1>2 DEF Tr!Min

\* The first of a list are among the list.
LEMMA FirstOf ==
  ASSUME NEW S, NEW s \in Seq(S), NEW n \in Nat
  PROVE  LET r == SubSeq(s, 1, Tr!Min({n, Len(s)}))
         IN r \in Seq(S) /\ Tr!ToSet(r) \subseteq Tr!ToSet(s) /\ (Tr!IsInjective(s) => Tr!IsInjective(r))
<1> DEFINE k == Tr!Min({n, Len(s)})
           r == SubSeq(s, 1, k)
<1>1. k \in Nat /\ k <= Len(s) /\ Len(s) \in Nat /\ DOMAIN s = 1..Len(s)
  BY MinOfTwo, LenProperties
<1> HIDE DEF k
<1>2. r \in Seq(S) /\ DOMAIN r = 1..k /\ \A i \in 1..k : r[i] = s[i]
  BY <1>1
<1> HIDE DEF r
<1>3. Tr!ToSet(r) \subseteq Tr!ToSet(s)
  BY <1>1, <1>2 DEF Tr!ToSet
<1>4. Tr!IsInjective(s) => Tr!IsInjective(r)
  BY <1>1, <1>2 DEF Tr!IsInjective
<1> QED BY <1>2, <1>3, <1>4 DEF k, r

\* Two lists with nothing in common, one after the other.
LEMMA OneAfterTheOther ==
  ASSUME NEW S, NEW s \in Seq(S), NEW t \in Seq(S)
  PROVE  /\ s \o t \in Seq(S) /\ Tr!ToSet(s \o t) = Tr!ToSet(s) \cup Tr!ToSet(t)
         /\ Tr!IsInjective(s) /\ Tr!IsInjective(t) /\ Tr!ToSet(s) \cap Tr!ToSet(t) = {} => Tr!IsInjective(s \o t)
<1> DEFINE r == s \o t
<1>1. Len(s) \in Nat /\ Len(t) \in Nat /\ DOMAIN s = 1..Len(s) /\ DOMAIN t = 1..Len(t)
  BY LenProperties
<1>2. /\ r \in Seq(S) /\ Len(r) = Len(s) + Len(t) /\ DOMAIN r = 1..(Len(s) + Len(t))
      /\ \A i \in 1..Len(s) : r[i] = s[i]
      /\ \A i \in (Len(s) + 1)..(Len(s) + Len(t)) : r[i] = t[i - Len(s)] /\ i - Len(s) \in 1..Len(t)
      /\ \A i \in 1..Len(t) : r[Len(s) + i] = t[i] /\ Len(s) + i \in DOMAIN r
  BY <1>1
<1> HIDE DEF r
<1>3. Tr!ToSet(r) = Tr!ToSet(s) \cup Tr!ToSet(t)
  <2>1. ASSUME NEW x \in Tr!ToSet(r) PROVE x \in Tr!ToSet(s) \cup Tr!ToSet(t)
    <3>1. PICK i \in DOMAIN r : x = r[i]
      BY <2>1 DEF Tr!ToSet
    <3>2. CASE i \in 1..Len(s)
      BY <1>1, <1>2, <3>1, <3>2 DEF Tr!ToSet
    <3>3. CASE i \in (Len(s) + 1)..(Len(s) + Len(t))
      BY <1>1, <1>2, <3>1, <3>3 DEF Tr!ToSet
    <3> QED BY <1>1, <1>2, <3>1, <3>2, <3>3
  <2>2. ASSUME NEW x \in Tr!ToSet(s) PROVE x \in Tr!ToSet(r)
    <3>1. PICK i \in DOMAIN s : x = s[i]
      BY <2>2 DEF Tr!ToSet
    <3>2. i \in DOMAIN r /\ r[i] = x
      BY <1>1, <1>2, <3>1
    <3> QED BY <3>2 DEF Tr!ToSet
  <2>3. ASSUME NEW x \in Tr!ToSet(t) PROVE x \in Tr!ToSet(r)
    <3>1. PICK i \in DOMAIN t : x = t[i]
      BY <2>3 DEF Tr!ToSet
    <3>2. Len(s) + i \in DOMAIN r /\ r[Len(s) + i] = x
      BY <1>1, <1>2, <3>1
    <3> QED BY <3>2 DEF Tr!ToSet
  <2> QED BY <2>1, <2>2, <2>3
<1>4. Tr!IsInjective(s) /\ Tr!IsInjective(t) /\ Tr!ToSet(s) \cap Tr!ToSet(t) = {} => Tr!IsInjective(r)
  <2> SUFFICES ASSUME Tr!IsInjective(s), Tr!IsInjective(t), Tr!ToSet(s) \cap Tr!ToSet(t) = {},
                      NEW i \in DOMAIN r, NEW j \in DOMAIN r, r[i] = r[j]
               PROVE  i = j
    BY DEF Tr!IsInjective
  <2>1. \A k \in 1..Len(s), l \in 1..Len(t) : s[k] # t[l]
    BY <1>1 DEF Tr!ToSet
  <2>2. (i \in 1..Len(s) \/ i \in (Len(s) + 1)..(Len(s) + Len(t))) /\ (j \in 1..Len(s) \/ j \in (Len(s) + 1)..(Len(s) + Len(t)))
    BY <1>1, <1>2
  <2>3. CASE i \in 1..Len(s) /\ j \in 1..Len(s)
    BY <1>1, <1>2, <2>3 DEF Tr!IsInjective
  <2>4. CASE i \in (Len(s) + 1)..(Len(s) + Len(t)) /\ j \in (Len(s) + 1)..(Len(s) + Len(t))
    <3>1. i - Len(s) \in DOMAIN t /\ j - Len(s) \in DOMAIN t /\ t[i - Len(s)] = t[j - Len(s)]
      BY <1>1, <1>2, <2>4
    <3>2. i - Len(s) = j - Len(s)
      BY <3>1 DEF Tr!IsInjective
    <3> QED BY <1>1, <2>4, <3>2
  <2>5. CASE i \in 1..Len(s) /\ j \in (Len(s) + 1)..(Len(s) + Len(t))
    BY <1>2, <2>1, <2>5
  <2>6. CASE j \in 1..Len(s) /\ i \in (Len(s) + 1)..(Len(s) + Len(t))
    BY <1>2, <2>1, <2>6
  <2> QED BY <2>2, <2>3, <2>4, <2>5, <2>6
<1> QED BY <1>2, <1>3, <1>4 DEF r

LEMMA LiveAre ==
  ASSUME Tr!TriageAssumption, Tr!Shapes
  PROVE  /\ Tr!Live = {w \in 1..Workers : screens[w].at # "gone"}
         /\ IsFiniteSet(1..Workers) /\ Tr!Cardinality(1..Workers) = Workers /\ Workers \in Nat /\ Workers > 0
         /\ IsFiniteSet(Tr!Live) /\ Tr!Cardinality(Tr!Live) \in Nat /\ Tr!Cardinality(Tr!Live) <= Workers
<1>1. IsFiniteSet(1..Workers) /\ Tr!Cardinality(1..Workers) = Workers /\ Workers \in Nat /\ Workers > 0
  BY FS_Interval, SameSize DEF Tr!TriageAssumption
<1>2. Tr!Live \in SUBSET (1..Workers)
  BY DEF Tr!Live
<1>3. IsFiniteSet(Tr!Live) /\ Tr!Cardinality(Tr!Live) <= Workers
  BY <1>1, <1>2, FS_Subset, SameSize
<1> QED BY <1>1, <1>3, FS_CardinalityType, SameSize DEF Tr!Live, Tr!Shapes

LEMMA TriStarts == ASSUME Tr!TriageAssumption, Tr!Init PROVE Tr!TriInv
<1>1. Tr!Live = {} /\ \A w \in 1..Workers : screens[w] = Tr!Gone
  BY DEF Tr!Init, Tr!Live, Tr!Gone
<1>2. Tr!Shapes
  <2>1. \A w \in 1..Workers :
       /\ screens[w] = [at |-> screens[w].at, ids |-> screens[w].ids, outcomes |-> screens[w].outcomes]
       /\ screens[w].at \in {"gone", "looking", "screening", "storing"}
       /\ screens[w].ids \in Seq(Screened) /\ screens[w].outcomes \in Seq(Tr!ToSet(screens[w].outcomes))
    <3>1. \A S : <<>> \in Seq(S)
      OBVIOUS
    <3>2. \A w \in 1..Workers : screens[w] = [at |-> "gone", ids |-> <<>>, outcomes |-> <<>>]
      BY <1>1 DEF Tr!Gone
    <3>3. \A w \in 1..Workers : screens[w].at = "gone" /\ screens[w].ids = <<>> /\ screens[w].outcomes = <<>>
      BY <3>2
    <3> QED BY <3>1, <3>2, <3>3
  <2> QED BY <2>1 DEF Tr!Shapes, Tr!Init
<1>3. Tr!Cardinality(Tr!Live) = 0
  BY <1>1, FS_EmptySet, SameSize
<1>4. Tr!WaitingIsServed
  BY <1>1, <1>3 DEF Tr!WaitingIsServed, Tr!Init, Tr!IsInjective, Tr!ToSet
<1> QED BY <1>1, <1>2, <1>4 DEF Tr!TriInv, Tr!OutcomesAreOwn, Tr!RowsAreTheirOwn, Tr!Init, Tr!Gone

\* What is queued finds a worker, or starts one.
LEMMA EnqueueKeepsTriage ==
  ASSUME Tr!TriageAssumption, Tr!TriInv, NEW ids \in Seq(Screened), Tr!IsInjective(ids), Tr!Enqueue(ids), UNCHANGED <<running, triages>>
  PROVE  Tr!TriInv'
<1> DEFINE F == Tr!Fresh(ids)
<1>1. F \in Seq(Screened) /\ Tr!IsInjective(F) /\ Tr!ToSet(F) \cap (Tr!ToSet(waiting) \cup running) = {} /\ Len(F) \in Nat
      /\ Tr!ToSet(F) \subseteq Screened
  BY AmongIs, LenProperties DEF Tr!Fresh
<1>2. /\ waiting' = waiting \o F /\ waiting \in Seq(Screened)
  BY DEF Tr!Enqueue, Tr!TriInv, Tr!Shapes
<1>3. PICK born \in SUBSET {w \in 1..Workers : screens[w].at = "gone"} :
       /\ Tr!Cardinality(born) = Tr!Min({Len(F), Workers - workers})
       /\ workers' = workers + Tr!Cardinality(born)
       /\ screens' = [w \in 1..Workers |-> IF w \in born THEN Tr!Looking ELSE screens[w]]
  BY DEF Tr!Enqueue
<1> HIDE DEF F
<1>4. /\ waiting' \in Seq(Screened) /\ Tr!ToSet(waiting') = Tr!ToSet(waiting) \cup Tr!ToSet(F) /\ Tr!IsInjective(waiting')
  BY <1>1, <1>2, OneAfterTheOther DEF Tr!TriInv, Tr!WaitingIsServed
<1>5. /\ DOMAIN screens' = 1..Workers
      /\ \A w \in born : screens'[w] = [at |-> "looking", ids |-> <<>>, outcomes |-> <<>>]
      /\ \A w \in (1..Workers) \ born : screens'[w] = screens[w]
  BY <1>3 DEF Tr!Looking, Tr!Gone
<1>6. Tr!Live' = Tr!Live \cup born /\ Tr!Live \cap born = {} /\ born \subseteq 1..Workers
  <2>1. \A w \in born : w \in 1..Workers /\ screens[w].at = "gone" /\ screens'[w].at = "looking"
    <3>1. \A w \in born : w \in 1..Workers /\ screens[w].at = "gone"
      OBVIOUS
    <3>2. \A w \in born : screens'[w].at = "looking"
      <4> HIDE <1>3
      <4> QED BY <1>5
    <3> QED BY <3>1, <3>2
  <2>2. \A w \in 1..Workers : w \in Tr!Live' <=> w \in Tr!Live \/ w \in born
    <3> SUFFICES ASSUME NEW w \in 1..Workers PROVE w \in Tr!Live' <=> w \in Tr!Live \/ w \in born
      OBVIOUS
    <3>1. CASE w \in born
      BY <2>1, <3>1 DEF Tr!Live
    <3>2. CASE w \notin born
      <4>1. screens'[w] = screens[w]
        BY <1>5, <3>2
      <4> QED BY <3>2, <4>1 DEF Tr!Live
    <3> QED BY <3>1, <3>2
  <2>3. Tr!Live' \subseteq 1..Workers /\ Tr!Live \subseteq 1..Workers /\ Tr!Live \cap born = {}
    BY <2>1 DEF Tr!Live
  <2> QED BY <2>1, <2>2, <2>3
<1>7. /\ IsFiniteSet(born) /\ Tr!Cardinality(born) \in Nat
      /\ Tr!Cardinality(Tr!Live') = Tr!Cardinality(Tr!Live) + Tr!Cardinality(born)
  <2>1. IsFiniteSet(1..Workers) /\ born \in SUBSET (1..Workers) /\ IsFiniteSet(Tr!Live) /\ Tr!Cardinality(Tr!Live) \in Nat
    BY <1>6, LiveAre DEF Tr!TriInv
  <2>2. IsFiniteSet(born)
    BY <2>1, FS_Subset, SameSize
  <2>3. Tr!Cardinality(born) \in Nat
    BY <2>2, FS_CardinalityType, SameSize
  <2>4. Tr!Cardinality(Tr!Live \cup born) = Tr!Cardinality(Tr!Live) + Tr!Cardinality(born) - Tr!Cardinality({})
    BY <1>6, <2>1, <2>2, FS_Union, SameSize
  <2>5. Tr!Cardinality({}) = 0
    BY FS_EmptySet, SameSize
  <2> QED BY <1>6, <2>1, <2>2, <2>3, <2>4, <2>5
<1>8. workers = Tr!Cardinality(Tr!Live) /\ workers \in Nat /\ workers <= Workers /\ Workers \in Nat /\ Workers > 0
  BY LiveAre DEF Tr!TriInv, Tr!WaitingIsServed
<1>9. Tr!Shapes'
  <2>1. workers' \in Nat
    BY <1>3, <1>7, <1>8
  <2>2. \A S : <<>> \in Seq(S)
    OBVIOUS
  <2>3. \A w \in 1..Workers :
       /\ screens'[w] = [at |-> screens'[w].at, ids |-> screens'[w].ids, outcomes |-> screens'[w].outcomes]
       /\ screens'[w].at \in {"gone", "looking", "screening", "storing"}
       /\ screens'[w].ids \in Seq(Screened) /\ screens'[w].outcomes \in Seq(Tr!ToSet(screens'[w].outcomes))
    <3> SUFFICES ASSUME NEW w \in 1..Workers
        PROVE  /\ screens'[w] = [at |-> screens'[w].at, ids |-> screens'[w].ids, outcomes |-> screens'[w].outcomes]
               /\ screens'[w].at \in {"gone", "looking", "screening", "storing"}
               /\ screens'[w].ids \in Seq(Screened) /\ screens'[w].outcomes \in Seq(Tr!ToSet(screens'[w].outcomes))
      OBVIOUS
    <3>1. CASE w \in born
      <4>1. screens'[w] = [at |-> "looking", ids |-> <<>>, outcomes |-> <<>>]
        BY <1>5, <3>1
      <4> QED BY <2>2, <4>1
    <3>2. CASE w \notin born
      <4>1. screens'[w] = screens[w]
        BY <1>5, <3>2
      <4> QED BY <4>1 DEF Tr!TriInv, Tr!Shapes
    <3> QED BY <3>1, <3>2
  <2> QED BY <1>4, <1>5, <2>1, <2>3 DEF Tr!TriInv, Tr!Shapes
<1>10. waiting' # <<>> => Tr!Live' # {}
  <2>1. CASE waiting # <<>>
    BY <1>6, <2>1 DEF Tr!TriInv, Tr!WaitingIsServed
  <2>2. CASE waiting = <<>> /\ waiting' # <<>>
    <3>1. Len(F) >= 1
      BY <1>1, <1>2, <2>2, EmptySeq
    <3>2. CASE workers = Workers
      <4>1. Tr!Cardinality({}) = 0
        BY FS_EmptySet, SameSize
      <4>2. Tr!Cardinality(Tr!Live) # 0
        BY <1>8, <3>2
      <4>3. Tr!Live # {}
        BY <4>1, <4>2
      <4> QED BY <1>6, <4>3
    <3>3. CASE workers < Workers
      <4>1. Tr!Cardinality(born) = IF Len(F) <= Workers - workers THEN Len(F) ELSE Workers - workers
        BY <1>1, <1>3, <1>8, MinOfTwo
      <4>2. Tr!Cardinality(born) # 0
        BY <1>1, <1>8, <3>1, <3>3, <4>1
      <4> QED BY <1>6, <4>2, FS_EmptySet, SameSize
    <3> QED BY <1>8, <3>2, <3>3
  <2> QED BY <2>1, <2>2
<1>11. /\ \A w \in born : Tr!Holding(w)' = {} /\ Tr!Holding(w) = {}
       /\ \A w \in (1..Workers) \ born : Tr!Holding(w)' = Tr!Holding(w)
  <2>1. \A w \in born : screens[w].at = "gone"
    BY <1>3
  <2> QED BY <1>5, <2>1 DEF Tr!Holding
<1>12. Tr!WaitingIsServed'
  <2>1. running' = UNION {Tr!Holding(w)' : w \in Tr!Live'}
    <3>1. running = UNION {Tr!Holding(w) : w \in Tr!Live} /\ running' = running
      BY DEF Tr!TriInv, Tr!WaitingIsServed
    <3>2. \A w \in Tr!Live : Tr!Holding(w)' = Tr!Holding(w)
      BY <1>6, <1>11 DEF Tr!Live
    <3> QED BY <1>6, <1>11, <3>1, <3>2
  <2>2. \A v, w \in Tr!Live' : v # w => Tr!Holding(v)' \cap Tr!Holding(w)' = {}
    BY <1>6, <1>11 DEF Tr!TriInv, Tr!WaitingIsServed, Tr!Live
  <2>3. workers' = Tr!Cardinality(Tr!Live')
    BY <1>3, <1>7, <1>8
  <2>4. Tr!ToSet(waiting') \cap running' = {}
    BY <1>1, <1>4 DEF Tr!TriInv, Tr!WaitingIsServed
  <2> QED BY <1>4, <1>10, <2>1, <2>2, <2>3, <2>4 DEF Tr!WaitingIsServed
<1>13. Tr!OutcomesAreOwn' /\ Tr!RowsAreTheirOwn'
  <2>1. Tr!OutcomesAreOwn'
    <3>1. \A w \in 1..Workers : screens'[w].at = "storing" => screens'[w] = screens[w]
      BY <1>5
    <3> QED BY <3>1 DEF Tr!TriInv, Tr!OutcomesAreOwn
  <2> QED BY <2>1 DEF Tr!TriInv, Tr!RowsAreTheirOwn
<1> QED BY <1>9, <1>12, <1>13 DEF Tr!TriInv

\* What is taken is no longer waiting and is held by the worker that took it.
LEMMA TakeKeepsTriage == ASSUME Tr!TriageAssumption, Tr!TriInv, NEW w \in 1..Workers, Tr!Take(w) PROVE Tr!TriInv'
<1>1. /\ screens[w].at = "looking" /\ waiting # <<>> /\ waiting \in Seq(Screened) /\ Tr!IsInjective(waiting)
      /\ UNCHANGED <<workers, triages>>
  BY DEF Tr!Take, Tr!kept, Tr!TriInv, Tr!Shapes, Tr!WaitingIsServed
<1>2. PICK ids \in {<<Head(waiting)>>} \cup (IF Head(waiting) \in Placed THEN {Tr!FirstBatch(waiting)} ELSE {}) :
       /\ waiting' = Tr!Left(ids)
       /\ running' = running \cup Tr!ToSet(ids)
       /\ screens' = [screens EXCEPT ![w] = [at |-> "screening", ids |-> ids, outcomes |-> <<>>]]
  BY DEF Tr!Take
<1>3. ids \in Seq(Screened) /\ Tr!ToSet(ids) \subseteq Tr!ToSet(waiting) /\ Tr!ToSet(ids) \subseteq Screened
  <2>1. CASE ids = <<Head(waiting)>>
    <3>1. Head(waiting) = waiting[1] /\ 1 \in DOMAIN waiting /\ waiting[1] \in Screened
      BY <1>1, LenProperties, EmptySeq, ElementOfSeq
    <3>2. ids \in Seq(Screened) /\ Tr!ToSet(ids) = {waiting[1]}
      BY <2>1, <3>1 DEF Tr!ToSet
    <3> QED BY <3>1, <3>2 DEF Tr!ToSet
  <2>2. CASE ids = Tr!FirstBatch(waiting)
    <3> DEFINE together == Tr!Among(waiting, {m \in Placed : EventIn(m) = EventIn(waiting[1])})
    <3>1. together \in Seq(Screened) /\ Tr!ToSet(together) \subseteq Tr!ToSet(waiting)
      BY <1>1, AmongIs
    <3>2. ids = SubSeq(together, 1, Tr!Min({EventMarkets, Len(together)}))
      BY <2>2 DEF Tr!FirstBatch
    <3> HIDE DEF together
    <3>3. ids \in Seq(Screened) /\ Tr!ToSet(ids) \subseteq Tr!ToSet(together)
      BY <3>1, <3>2, FirstOf DEF Tr!TriageAssumption
    <3>4. Tr!ToSet(waiting) \subseteq Screened
      BY <1>1, LenProperties, ElementOfSeq DEF Tr!ToSet
    <3> QED BY <3>1, <3>3, <3>4
  <2> QED BY <2>1, <2>2
<1>4. /\ waiting' \in Seq(Screened) /\ Tr!IsInjective(waiting')
      /\ Tr!ToSet(waiting') = Tr!ToSet(waiting) \cap (Screened \ Tr!ToSet(ids))
  BY <1>1, <1>2, AmongIs DEF Tr!Left
<1>5. /\ DOMAIN screens' = 1..Workers
      /\ screens'[w] = [at |-> "screening", ids |-> ids, outcomes |-> <<>>]
      /\ \A v \in (1..Workers) \ {w} : screens'[v] = screens[v]
  <2>1. screens[w] = [at |-> screens[w].at, ids |-> screens[w].ids, outcomes |-> screens[w].outcomes] /\ DOMAIN screens = 1..Workers
    BY DEF Tr!TriInv, Tr!Shapes
  <2> QED BY <1>2, <2>1
<1>6. screens'[w].at = "screening" /\ screens'[w].ids = ids /\ screens'[w].outcomes = <<>>
  BY <1>5
<1>7. Tr!Live' = Tr!Live /\ w \in Tr!Live
  <2>1. \A v \in 1..Workers : v \in Tr!Live' <=> v \in Tr!Live
    BY <1>1, <1>5, <1>6 DEF Tr!Live
  <2>2. Tr!Live' \subseteq 1..Workers /\ Tr!Live \subseteq 1..Workers /\ w \in Tr!Live
    BY <1>1 DEF Tr!Live
  <2> QED BY <2>1, <2>2
<1>8. Tr!Holding(w)' = Tr!ToSet(ids) /\ Tr!Holding(w) = {} /\ \A v \in (1..Workers) \ {w} : Tr!Holding(v)' = Tr!Holding(v)
  <2>1. Tr!Holding(w)' = Tr!ToSet(ids)
    BY <1>6 DEF Tr!Holding
  <2>2. Tr!Holding(w) = {}
    BY <1>1 DEF Tr!Holding
  <2>3. \A v \in (1..Workers) \ {w} : Tr!Holding(v)' = Tr!Holding(v)
    BY <1>5 DEF Tr!Holding
  <2> QED BY <2>1, <2>2, <2>3
<1>9. Tr!Shapes'
  <2>0. \A S : <<>> \in Seq(S)
    OBVIOUS
  <2>1. \A v \in 1..Workers :
       /\ screens'[v] = [at |-> screens'[v].at, ids |-> screens'[v].ids, outcomes |-> screens'[v].outcomes]
       /\ screens'[v].at \in {"gone", "looking", "screening", "storing"}
       /\ screens'[v].ids \in Seq(Screened) /\ screens'[v].outcomes \in Seq(Tr!ToSet(screens'[v].outcomes))
    BY <1>3, <1>5, <1>6, <2>0 DEF Tr!TriInv, Tr!Shapes
  <2> QED BY <1>1, <1>2, <1>3, <1>4, <1>5, <2>1 DEF Tr!TriInv, Tr!Shapes
<1>10. Tr!WaitingIsServed'
  <2>1. running = UNION {Tr!Holding(v) : v \in Tr!Live} /\ Tr!ToSet(waiting) \cap running = {}
        /\ \A u, v \in Tr!Live : u # v => Tr!Holding(u) \cap Tr!Holding(v) = {}
    BY DEF Tr!TriInv, Tr!WaitingIsServed
  <2>2. Tr!Live \subseteq 1..Workers
    BY DEF Tr!Live
  <2>3. running' = UNION {Tr!Holding(v)' : v \in Tr!Live'}
    BY <1>2, <1>7, <1>8, <2>1, <2>2
  <2>4. \A v \in Tr!Live \ {w} : Tr!Holding(v)' = Tr!Holding(v) /\ Tr!Holding(v) \cap Tr!ToSet(ids) = {}
    BY <1>3, <1>8, <2>1, <2>2
  <2>5. \A u, v \in Tr!Live' : u # v => Tr!Holding(u)' \cap Tr!Holding(v)' = {}
    <3> SUFFICES ASSUME NEW u \in Tr!Live, NEW v \in Tr!Live, u # v PROVE Tr!Holding(u)' \cap Tr!Holding(v)' = {}
      BY <1>7
    <3>1. CASE u = w
      BY <1>8, <2>4, <3>1
    <3>2. CASE v = w
      BY <1>8, <2>4, <3>2
    <3>3. CASE u # w /\ v # w
      BY <2>1, <2>4, <3>3
    <3> QED BY <3>1, <3>2, <3>3
  <2>6. Tr!ToSet(waiting') \cap running' = {}
    BY <1>2, <1>4, <2>1
  <2>7. workers' = Tr!Cardinality(Tr!Live')
    BY <1>1, <1>7 DEF Tr!TriInv, Tr!WaitingIsServed
  <2> QED BY <1>4, <1>7, <2>3, <2>5, <2>6, <2>7 DEF Tr!WaitingIsServed
<1>11. Tr!OutcomesAreOwn' /\ Tr!RowsAreTheirOwn'
  <2>1. \A v \in 1..Workers : screens'[v].at = "storing" => screens'[v] = screens[v]
    BY <1>5, <1>6
  <2>2. Tr!OutcomesAreOwn'
    BY <2>1 DEF Tr!TriInv, Tr!OutcomesAreOwn
  <2> QED BY <1>1, <2>2 DEF Tr!TriInv, Tr!RowsAreTheirOwn
<1> QED BY <1>9, <1>10, <1>11 DEF Tr!TriInv

\* A worker leaves only when nothing waits.
LEMMA LeaveKeepsTriage == ASSUME Tr!TriageAssumption, Tr!TriInv, NEW w \in 1..Workers, Tr!Leave(w) PROVE Tr!TriInv'
<1>1. /\ screens[w].at = "looking" /\ waiting = <<>> /\ workers' = workers - 1 /\ screens' = [screens EXCEPT ![w] = Tr!Gone]
      /\ UNCHANGED <<waiting, running, triages>>
  BY DEF Tr!Leave, Tr!kept
<1>2. /\ DOMAIN screens' = 1..Workers /\ screens'[w] = [at |-> "gone", ids |-> <<>>, outcomes |-> <<>>]
      /\ \A v \in (1..Workers) \ {w} : screens'[v] = screens[v]
  BY <1>1 DEF Tr!TriInv, Tr!Shapes, Tr!Gone
<1>3. screens'[w].at = "gone" /\ screens'[w].ids = <<>> /\ screens'[w].outcomes = <<>>
  BY <1>2
<1>4. Tr!Live' = Tr!Live \ {w} /\ w \in Tr!Live
  <2>1. \A v \in 1..Workers : v \in Tr!Live' <=> v \in Tr!Live /\ v # w
    BY <1>1, <1>2, <1>3 DEF Tr!Live
  <2>2. Tr!Live' \subseteq 1..Workers /\ Tr!Live \subseteq 1..Workers /\ w \in Tr!Live
    BY <1>1 DEF Tr!Live
  <2> QED BY <2>1, <2>2
<1>5. workers' = Tr!Cardinality(Tr!Live') /\ workers' \in Nat
  <2>1. IsFiniteSet(Tr!Live) /\ Tr!Cardinality(Tr!Live) \in Nat /\ workers = Tr!Cardinality(Tr!Live)
    BY LiveAre DEF Tr!TriInv, Tr!WaitingIsServed
  <2>2. Tr!Cardinality(Tr!Live \ {w}) = Tr!Cardinality(Tr!Live) - 1 /\ IsFiniteSet(Tr!Live \ {w})
    BY <1>4, <2>1, FS_RemoveElement, SameSize
  <2>3. Tr!Cardinality(Tr!Live \ {w}) \in Nat
    BY <2>2, FS_CardinalityType, SameSize
  <2> QED BY <1>1, <1>4, <2>1, <2>2, <2>3
<1>6. Tr!Holding(w)' = {} /\ Tr!Holding(w) = {} /\ \A v \in (1..Workers) \ {w} : Tr!Holding(v)' = Tr!Holding(v)
  BY <1>1, <1>2, <1>3 DEF Tr!Holding
<1>7. Tr!Shapes'
  <2>1. \A S : <<>> \in Seq(S)
    OBVIOUS
  <2>2. \A v \in 1..Workers :
       /\ screens'[v] = [at |-> screens'[v].at, ids |-> screens'[v].ids, outcomes |-> screens'[v].outcomes]
       /\ screens'[v].at \in {"gone", "looking", "screening", "storing"}
       /\ screens'[v].ids \in Seq(Screened) /\ screens'[v].outcomes \in Seq(Tr!ToSet(screens'[v].outcomes))
    BY <1>2, <1>3, <2>1 DEF Tr!TriInv, Tr!Shapes
  <2> QED BY <1>1, <1>2, <1>5, <2>2 DEF Tr!TriInv, Tr!Shapes
<1>8. Tr!WaitingIsServed'
  <2>1. Tr!Live \subseteq 1..Workers
    BY DEF Tr!Live
  <2>2. running' = UNION {Tr!Holding(v)' : v \in Tr!Live'}
    <3>1. running = UNION {Tr!Holding(v) : v \in Tr!Live} /\ running' = running
      BY <1>1 DEF Tr!TriInv, Tr!WaitingIsServed
    <3> QED BY <1>4, <1>6, <2>1, <3>1
  <2>3. \A u, v \in Tr!Live' : u # v => Tr!Holding(u)' \cap Tr!Holding(v)' = {}
    BY <1>4, <1>6, <2>1 DEF Tr!TriInv, Tr!WaitingIsServed
  <2> QED BY <1>1, <1>5, <2>2, <2>3 DEF Tr!TriInv, Tr!WaitingIsServed
<1>9. Tr!OutcomesAreOwn' /\ Tr!RowsAreTheirOwn'
  <2>1. \A v \in 1..Workers : screens'[v].at = "storing" => screens'[v] = screens[v]
    BY <1>2, <1>3
  <2>2. Tr!OutcomesAreOwn'
    BY <2>1 DEF Tr!TriInv, Tr!OutcomesAreOwn
  <2> QED BY <1>1, <2>2 DEF Tr!TriInv, Tr!RowsAreTheirOwn
<1> QED BY <1>7, <1>8, <1>9 DEF Tr!TriInv

\* While a worker goes on with what it holds, the queue is served as it was.
LEMMA StillServed ==
  ASSUME Tr!TriInv, UNCHANGED <<waiting, running, workers>>, NEW w \in 1..Workers, DOMAIN screens' = 1..Workers,
         \A v \in (1..Workers) \ {w} : screens'[v] = screens[v],
         screens[w].at \in {"screening", "storing"}, screens'[w].at \in {"screening", "storing"},
         screens'[w].ids = screens[w].ids
  PROVE  Tr!WaitingIsServed'
<1>1. \A v \in 1..Workers : Tr!Holding(v)' = Tr!Holding(v)
  BY DEF Tr!Holding
<1>2. Tr!Live' = Tr!Live
  <2>1. \A v \in 1..Workers : v \in Tr!Live' <=> v \in Tr!Live
    BY DEF Tr!Live
  <2> QED BY <2>1 DEF Tr!Live
<1>3. Tr!Live \subseteq 1..Workers
  BY DEF Tr!Live
<1>4. running' = UNION {Tr!Holding(v)' : v \in Tr!Live'}
  <2>1. running = UNION {Tr!Holding(v) : v \in Tr!Live}
    BY DEF Tr!TriInv, Tr!WaitingIsServed
  <2> QED BY <1>1, <1>2, <1>3, <2>1
<1>5. \A u, v \in Tr!Live' : u # v => Tr!Holding(u)' \cap Tr!Holding(v)' = {}
  BY <1>1, <1>2, <1>3 DEF Tr!TriInv, Tr!WaitingIsServed
<1>6. workers' = Tr!Cardinality(Tr!Live')
  BY <1>2 DEF Tr!TriInv, Tr!WaitingIsServed
<1> QED BY <1>2, <1>4, <1>5, <1>6 DEF Tr!TriInv, Tr!WaitingIsServed

LEMMA OfItsOwn == ASSUME NEW n \in Nat, NEW s, s = [i \in 1..n |-> s[i]] PROVE s \in Seq(Tr!ToSet(s)) /\ Len(s) = n
<1>1. DOMAIN s = 1..n
  OBVIOUS
<1>2. \A i \in 1..n : s[i] \in Tr!ToSet(s)
  BY <1>1 DEF Tr!ToSet
<1>3. s \in [1..n -> Tr!ToSet(s)]
  BY <1>2
<1>4. s \in Seq(Tr!ToSet(s))
  BY <1>3, SeqDef
<1> QED BY <1>1, <1>4, LenProperties

\* What is judged of a market is about it.
LEMMA JudgedIsOwn ==
  ASSUME NEW asked, NEW k \in DOMAIN asked, NEW facts \in Tr!FactsOf(asked), NEW page, NEW said
  PROVE  LET m == asked[k]
             outcome == Tr!Judged(m, Tr!VerifyBrief(Tr!BriefOf(facts, k), page), Tr!Told(said, m))
         IN Tr!OwnRow(m, Tr!RowOf(outcome, "text"))
<1> DEFINE m == asked[k]
           brief == Tr!VerifyBrief(Tr!BriefOf(facts, k), page)
           calls == Tr!Told(said, m)
           outcome == Tr!Judged(m, brief, calls)
<1>1. DOMAIN brief = DOMAIN facts /\ \A i \in DOMAIN brief : brief[i].toward = (k \in facts[i].numbers) /\ brief[i].of = facts[i].of
  BY DEF Tr!VerifyBrief, Tr!BriefOf
<1>2. \A i \in DOMAIN facts : (k \in facts[i].numbers) = (m \in facts[i].of)
  <2>1. CASE facts = <<>>
    BY <2>1
  <2>2. CASE \E about \in SUBSET Tr!ToSet(asked) : facts = <<[numbers |-> {j \in DOMAIN asked : asked[j] \in about}, of |-> about]>>
    <3>1. PICK about : facts = <<[numbers |-> {j \in DOMAIN asked : asked[j] \in about}, of |-> about]>>
      BY <2>2
    <3>2. DOMAIN facts = {1} /\ facts[1] = [numbers |-> {j \in DOMAIN asked : asked[j] \in about}, of |-> about]
      BY <3>1
    <3>3. facts[1].numbers = {j \in DOMAIN asked : asked[j] \in about} /\ facts[1].of = about
      BY <3>2
    <3> QED BY <3>2, <3>3
  <2> QED BY <2>1, <2>2 DEF Tr!FactsOf
<1>3. \A i \in DOMAIN brief : brief[i].toward = (m \in brief[i].of)
  BY <1>1, <1>2
<1>4. Failing \notin Tr!ToSet(calls) => \A i \in DOMAIN calls : calls[i].of = m
  <2>1. \A i \in DOMAIN calls : calls[i] # Failing => calls[i].of = m
    BY DEF Tr!Told
  <2>2. \A i \in DOMAIN calls : calls[i] \in Tr!ToSet(calls)
    BY DEF Tr!ToSet
  <2> QED BY <2>1, <2>2
<1> HIDE DEF brief, calls, m
<1>5. CASE Failing \in Tr!ToSet(calls)
  <2>1. outcome = [status |-> "error", verdict |-> None, runs |-> <<>>, brief |-> <<>>]
    BY <1>5 DEF Tr!Judged, Tr!Error
  <2> DEFINE row == Tr!RowOf(outcome, "text")
  <2>2. row.status = "error" /\ row.verdict = None /\ row.runs = <<>> /\ row.brief = <<>> /\ row.rules = "text"
    BY <2>1 DEF Tr!RowOf
  <2> HIDE DEF row
  <2>3. Tr!OwnRow(m, row)
    BY <2>2 DEF Tr!OwnRow
  <2> QED BY <2>3 DEF m, brief, calls, row
<1>6. CASE Failing \notin Tr!ToSet(calls)
  <2> DEFINE verdict == Tr!Decide(calls, brief, m \in InQuiet)
  <2>1. outcome = [status |-> "ok", verdict |-> verdict, runs |-> calls, brief |-> brief]
    BY <1>6 DEF Tr!Judged, Tr!Outcome
  <2>2. /\ calls = <<>> => verdict = "needs_human"
        /\ verdict = "near_impossible" => /\ \A i \in DOMAIN calls : Tr!NearImpossible(calls[i]) /\ calls[i].settled
                                          /\ \A i \in DOMAIN brief : ~brief[i].toward
    BY DEF Tr!Decide
  <2> HIDE DEF verdict
  <2> DEFINE row == Tr!RowOf(outcome, "text")
  <2>3. row.status = "ok" /\ row.verdict = verdict /\ row.runs = calls /\ row.brief = brief /\ row.rules = "text"
    BY <2>1 DEF Tr!RowOf
  <2> HIDE DEF row
  <2>4. Tr!OwnRow(m, row)
    <3>1. row.verdict = "near_impossible" => \A i \in DOMAIN row.brief : m \notin row.brief[i].of
      BY <1>3, <2>2, <2>3
    <3> QED BY <1>3, <1>4, <1>6, <2>2, <2>3, <3>1 DEF Tr!OwnRow
  <2> QED BY <2>4 DEF m, brief, calls, row
<1> QED BY <1>5, <1>6

\* The outcome of a market is its own, whichever of its batch were asked about.
LEMMA OutcomeIsOwn ==
  ASSUME NEW ids \in Seq(Screened), NEW rules \in [Tr!ToSet(ids) -> {"text", "blank", "raised"}],
         NEW facts \in Tr!FactsOf(Tr!Asked(ids, rules)) \cup {Failing}, NEW page, NEW said, NEW i \in DOMAIN ids
  PROVE  LET asked == Tr!Asked(ids, rules)
             screened == Tr!ScreenEvent(asked, facts, page, said)
         IN Tr!OwnRow(ids[i], Tr!RowOf(Tr!OutcomeOf(ids[i], ids, rules, asked, screened), rules[ids[i]]))
<1> DEFINE asked == Tr!Asked(ids, rules)
           screened == Tr!ScreenEvent(asked, facts, page, said)
           m == ids[i]
           at == {k \in DOMAIN screened : asked[k] = m}
           outcome == Tr!OutcomeOf(m, ids, rules, asked, screened)
           row == Tr!RowOf(outcome, rules[m])
<1> SUFFICES Tr!OwnRow(m, row)
  OBVIOUS
<1>1. Tr!ToSet(asked) = {n \in Tr!ToSet(ids) : rules[n] = "text"}
  <2>1. Tr!ToSet(asked) = Tr!ToSet(ids) \cap {n \in DOMAIN rules : rules[n] = "text"}
    BY AmongIs DEF Tr!Asked
  <2> HIDE DEF asked
  <2> QED BY <2>1
<1>2. rules[m] \in {"text", "blank", "raised"}
  BY DEF Tr!ToSet
<1>3. DOMAIN screened = DOMAIN asked
  BY DEF Tr!ScreenEvent
<1>4. outcome = IF at # {} THEN screened[CHOOSE k \in at : TRUE] ELSE IF rules[m] = "blank" THEN Tr!RulesUnavailable ELSE Tr!Error
  BY DEF Tr!OutcomeOf, Tr!Zipped
<1>5. row.status = outcome.status /\ row.verdict = outcome.verdict /\ row.runs = outcome.runs /\ row.brief = outcome.brief
      /\ row.rules = rules[m]
  BY DEF Tr!RowOf
<1>6. outcome = Tr!Error => (rules[m] # "blank" => Tr!OwnRow(m, row))
  <2> HAVE outcome = Tr!Error
  <2>1. outcome = [status |-> "error", verdict |-> None, runs |-> <<>>, brief |-> <<>>]
    BY DEF Tr!Error
  <2> HIDE DEF outcome, row, m
  <2>2. row.status = "error" /\ row.verdict = None /\ row.runs = <<>> /\ row.brief = <<>> /\ row.rules = rules[m]
    BY <1>5, <2>1
  <2>3. rules[m] # "blank" /\ row.verdict # "near_impossible" => Tr!OwnRow(m, row)
    BY <2>2 DEF Tr!OwnRow
  <2>4. rules[m] # "blank" => Tr!OwnRow(m, row)
    BY <2>2 DEF Tr!OwnRow
  <2> QED BY <2>4
<1>7. CASE at # {}
  <2>1. PICK k \in at : outcome = screened[k]
    BY <1>4, <1>7
  <2>2. k \in DOMAIN asked /\ asked[k] = m
    BY <1>3, <2>1
  <2>3. rules[m] = "text"
    BY <1>1, <2>2 DEF Tr!ToSet
  <2>4. CASE facts = Failing
    <3>1. outcome = Tr!Error
      BY <2>1, <2>2, <2>4 DEF Tr!ScreenEvent
    <3> QED BY <1>6, <2>3, <3>1
  <2>5. CASE facts # Failing
    <3>1. outcome = Tr!Judged(asked[k], Tr!VerifyBrief(Tr!BriefOf(facts, k), page), Tr!Told(said[asked[k]], asked[k]))
      BY <2>1, <2>2, <2>5 DEF Tr!ScreenEvent
    <3>2. facts \in Tr!FactsOf(asked)
      BY <2>5
    <3> HIDE DEF outcome, asked
    <3>3. Tr!OwnRow(asked[k], Tr!RowOf(Tr!Judged(asked[k], Tr!VerifyBrief(Tr!BriefOf(facts, k), page), Tr!Told(said[asked[k]], asked[k])), "text"))
      BY <2>2, <3>2, JudgedIsOwn
    <3> QED BY <2>2, <2>3, <3>1, <3>3
  <2> QED BY <2>4, <2>5
<1>8. CASE at = {} /\ rules[m] = "blank"
  <2>1. outcome = Tr!RulesUnavailable
    BY <1>4, <1>8
  <2>2. outcome = [status |-> "ok", verdict |-> "needs_human", runs |-> <<>>, brief |-> <<>>]
    BY <2>1 DEF Tr!RulesUnavailable, Tr!Outcome
  <2> HIDE DEF outcome, row, m
  <2>3. row.status = "ok" /\ row.verdict = "needs_human" /\ row.runs = <<>> /\ row.brief = <<>> /\ row.rules = "blank"
    BY <1>5, <1>8, <2>2
  <2>4. Tr!OwnRow(m, row)
    BY <2>3 DEF Tr!OwnRow
  <2> QED BY <2>4
<1>9. CASE at = {} /\ rules[m] # "blank"
  <2>1. outcome = Tr!Error
    BY <1>4, <1>9
  <2> QED BY <1>6, <1>9, <2>1
<1> QED BY <1>7, <1>8, <1>9

LEMMA ScreenKeepsTriage == ASSUME Tr!TriageAssumption, Tr!TriInv, NEW w \in 1..Workers, Tr!Screen(w) PROVE Tr!TriInv'
<1> DEFINE ids == screens[w].ids
           rowOf(rules, asked, screened, i) == Tr!RowOf(Tr!OutcomeOf(ids[i], ids, rules, asked, screened), rules[ids[i]])
<1>1. /\ screens[w].at = "screening" /\ UNCHANGED <<waiting, running, workers, triages>>
      /\ ids \in Seq(Screened) /\ DOMAIN screens = 1..Workers
      /\ screens[w] = [at |-> screens[w].at, ids |-> screens[w].ids, outcomes |-> screens[w].outcomes]
  BY DEF Tr!Screen, Tr!kept, Tr!TriInv, Tr!Shapes
<1>2. PICK rules \in [Tr!ToSet(ids) -> {"text", "blank", "raised"}] :
        \E asked \in {Tr!Asked(ids, rules)} :
          \E facts \in Tr!FactsOf(asked) \cup {Failing}, page \in Pages, said \in [Tr!ToSet(asked) -> Answers] :
            \E screened \in {Tr!ScreenEvent(asked, facts, page, said)} :
              screens' = [screens EXCEPT ![w] = [at |-> "storing", ids |-> @.ids,
                                               outcomes |-> [i \in DOMAIN @.ids |-> rowOf(rules, asked, screened, i)]]]
  BY DEF Tr!Screen
<1>3a. PICK asked \in {Tr!Asked(ids, rules)} :
          \E facts \in Tr!FactsOf(asked) \cup {Failing}, page \in Pages, said \in [Tr!ToSet(asked) -> Answers] :
            \E screened \in {Tr!ScreenEvent(asked, facts, page, said)} :
              screens' = [screens EXCEPT ![w] = [at |-> "storing", ids |-> @.ids,
                                               outcomes |-> [i \in DOMAIN @.ids |-> rowOf(rules, asked, screened, i)]]]
  BY <1>2
<1>3b. PICK facts \in Tr!FactsOf(asked) \cup {Failing}, page \in Pages, said \in [Tr!ToSet(asked) -> Answers] :
            \E screened \in {Tr!ScreenEvent(asked, facts, page, said)} :
              screens' = [screens EXCEPT ![w] = [at |-> "storing", ids |-> @.ids,
                                               outcomes |-> [i \in DOMAIN @.ids |-> rowOf(rules, asked, screened, i)]]]
  BY <1>3a
<1>3. PICK screened \in {Tr!ScreenEvent(asked, facts, page, said)} :
              screens' = [screens EXCEPT ![w] = [at |-> "storing", ids |-> @.ids,
                                               outcomes |-> [i \in DOMAIN @.ids |-> rowOf(rules, asked, screened, i)]]]
  BY <1>3b
<1> DEFINE outcomes == [i \in DOMAIN ids |-> rowOf(rules, asked, screened, i)]
<1>4. \A i \in DOMAIN ids : Tr!OwnRow(ids[i], outcomes[i])
  <2>1. asked = Tr!Asked(ids, rules) /\ screened = Tr!ScreenEvent(asked, facts, page, said)
    OBVIOUS
  <2>2. facts \in Tr!FactsOf(Tr!Asked(ids, rules)) \cup {Failing}
    BY <2>1
  <2> SUFFICES ASSUME NEW i \in DOMAIN ids PROVE Tr!OwnRow(ids[i], rowOf(rules, asked, screened, i))
    OBVIOUS
  <2>3. Tr!OwnRow(ids[i], rowOf(rules, Tr!Asked(ids, rules), Tr!ScreenEvent(Tr!Asked(ids, rules), facts, page, said), i))
    BY <1>1, <2>2, OutcomeIsOwn
  <2> QED BY <2>1, <2>3
<1>5. screens' = [screens EXCEPT ![w] = [at |-> "storing", ids |-> ids, outcomes |-> outcomes]]
  BY <1>3
<1>6. DOMAIN outcomes = DOMAIN ids /\ outcomes = [i \in DOMAIN ids |-> outcomes[i]]
  OBVIOUS
<1> HIDE DEF outcomes
<1>7. outcomes \in Seq(Tr!ToSet(outcomes)) /\ Len(outcomes) = Len(ids) /\ Len(ids) \in Nat /\ DOMAIN ids = 1..Len(ids)
  <2>1. DOMAIN ids = 1..Len(ids) /\ Len(ids) \in Nat
    BY <1>1, LenProperties
  <2>2. outcomes = [i \in 1..Len(ids) |-> outcomes[i]]
    BY <1>6, <2>1
  <2> QED BY <2>1, <2>2, OfItsOwn
<1>8. /\ DOMAIN screens' = 1..Workers
      /\ screens'[w] = [at |-> "storing", ids |-> ids, outcomes |-> outcomes]
      /\ \A v \in (1..Workers) \ {w} : screens'[v] = screens[v]
  BY <1>1, <1>5
<1>9. screens'[w].at = "storing" /\ screens'[w].ids = ids /\ screens'[w].outcomes = outcomes
  BY <1>8
<1>10. Tr!WaitingIsServed'
  BY <1>1, <1>8, <1>9, StillServed
<1>11. Tr!Shapes'
  <2>1. \A v \in 1..Workers :
       /\ screens'[v] = [at |-> screens'[v].at, ids |-> screens'[v].ids, outcomes |-> screens'[v].outcomes]
       /\ screens'[v].at \in {"gone", "looking", "screening", "storing"}
       /\ screens'[v].ids \in Seq(Screened) /\ screens'[v].outcomes \in Seq(Tr!ToSet(screens'[v].outcomes))
    BY <1>1, <1>7, <1>8, <1>9 DEF Tr!TriInv, Tr!Shapes
  <2> QED BY <1>1, <1>8, <2>1 DEF Tr!TriInv, Tr!Shapes
<1>12. Tr!OutcomesAreOwn'
  <2>1. Len(ids) - Len(outcomes) = 0 /\ \A i \in DOMAIN outcomes : Tr!OwnRow(ids[(Len(ids) - Len(outcomes)) + i], outcomes[i])
    <3>1. Len(ids) - Len(outcomes) = 0
      BY <1>7
    <3>2. \A i \in DOMAIN outcomes : (Len(ids) - Len(outcomes)) + i = i
      BY <1>6, <1>7, <3>1
    <3> QED BY <1>4, <1>6, <3>1, <3>2
  <2> SUFFICES ASSUME NEW v \in 1..Workers, screens'[v].at = "storing"
               PROVE  LET stored == Len(screens'[v].ids) - Len(screens'[v].outcomes)
                      IN stored >= 0 /\ \A i \in DOMAIN screens'[v].outcomes : Tr!OwnRow(screens'[v].ids[stored + i], screens'[v].outcomes[i])
    BY DEF Tr!OutcomesAreOwn, Tr!OwnRow, Tr!NearImpossible
  <2>2. CASE v = w
    BY <1>7, <1>9, <2>1, <2>2
  <2>3. CASE v # w
    BY <1>8, <2>3 DEF Tr!TriInv, Tr!OutcomesAreOwn
  <2> QED BY <2>2, <2>3
<1>13. Tr!RowsAreTheirOwn'
  BY <1>1 DEF Tr!TriInv, Tr!RowsAreTheirOwn, Tr!OwnRow, Tr!NearImpossible
<1> QED BY <1>10, <1>11, <1>12, <1>13 DEF Tr!TriInv

\* What is stored is the row of the first market still to store.
LEMMA StoreKeepsTriage == ASSUME Tr!TriageAssumption, Tr!TriInv, NEW w \in 1..Workers, Tr!StoreTriage(w) PROVE Tr!TriInv'
<1> DEFINE ids == screens[w].ids
           outcomes == screens[w].outcomes
           stored == Len(ids) - Len(outcomes)
           m == ids[stored + 1]
<1>1. /\ screens[w].at = "storing" /\ outcomes # <<>> /\ UNCHANGED <<waiting, running, workers>>
      /\ ids \in Seq(Screened) /\ outcomes \in Seq(Tr!ToSet(outcomes)) /\ DOMAIN screens = 1..Workers
      /\ screens[w] = [at |-> screens[w].at, ids |-> ids, outcomes |-> outcomes]
      /\ screens' = [screens EXCEPT ![w].outcomes = Tail(@)]
      /\ DOMAIN triages = Screened
  BY DEF Tr!StoreTriage, Tr!TriInv, Tr!Shapes
<1>2. triages' = [triages EXCEPT ![ids[Len(ids) - Len(outcomes) + 1]] = Head(outcomes)]
  BY DEF Tr!StoreTriage
<1>0. stored >= 0
  BY <1>1 DEF Tr!TriInv, Tr!OutcomesAreOwn
<1>3. \A i \in DOMAIN outcomes : Tr!OwnRow(ids[stored + i], outcomes[i])
  BY <1>1 DEF Tr!TriInv, Tr!OutcomesAreOwn
<1>4. Len(ids) \in Nat /\ Len(outcomes) \in Nat /\ Len(outcomes) >= 1 /\ DOMAIN ids = 1..Len(ids) /\ DOMAIN outcomes = 1..Len(outcomes)
  BY <1>1, LenProperties, EmptySeq
<1> HIDE DEF ids, outcomes
<1>5. stored \in Nat /\ stored + 1 \in DOMAIN ids /\ m \in Screened
  <2>1. stored \in Nat /\ stored + 1 \in 1..Len(ids)
    BY <1>0, <1>4
  <2> QED BY <1>1, <1>4, <2>1, ElementOfSeq
<1>6. Tr!OwnRow(m, Head(outcomes))
  BY <1>1, <1>3, <1>4
<1>7. /\ Tail(outcomes) \in Seq(Tr!ToSet(outcomes)) /\ Len(Tail(outcomes)) = Len(outcomes) - 1
      /\ DOMAIN Tail(outcomes) = 1..(Len(outcomes) - 1)
      /\ \A i \in 1..(Len(outcomes) - 1) : Tail(outcomes)[i] = outcomes[i + 1]
  BY <1>1, <1>4
<1>8. Tail(outcomes) \in Seq(Tr!ToSet(Tail(outcomes)))
  <2>1. Tail(outcomes) = [i \in 1..(Len(outcomes) - 1) |-> Tail(outcomes)[i]]
    <3> DEFINE rest == Tail(outcomes)
    <3>1. rest \in Seq(Tr!ToSet(outcomes)) /\ DOMAIN rest = 1..(Len(outcomes) - 1)
      BY <1>7
    <3> HIDE DEF rest
    <3>2. rest = [i \in DOMAIN rest |-> rest[i]]
      BY <3>1
    <3> QED BY <3>1, <3>2 DEF rest
  <2>2. Len(outcomes) - 1 \in Nat
    BY <1>4
  <2> QED BY <2>1, <2>2, OfItsOwn
<1>9. /\ DOMAIN screens' = 1..Workers
      /\ screens'[w] = [at |-> "storing", ids |-> ids, outcomes |-> Tail(outcomes)]
      /\ \A v \in (1..Workers) \ {w} : screens'[v] = screens[v]
  <2>1. screens' = [screens EXCEPT ![w] = [screens[w] EXCEPT !.outcomes = Tail(outcomes)]]
    BY <1>1 DEF outcomes
  <2>2. [screens[w] EXCEPT !.outcomes = Tail(outcomes)] = [at |-> "storing", ids |-> ids, outcomes |-> Tail(outcomes)]
    <3>1. \A a, b, c, d : [[at |-> a, ids |-> b, outcomes |-> c] EXCEPT !.outcomes = d] = [at |-> a, ids |-> b, outcomes |-> d]
      OBVIOUS
    <3> QED BY <1>1, <3>1
  <2> QED BY <1>1, <2>1, <2>2
<1>10. screens'[w].at = "storing" /\ screens'[w].ids = ids /\ screens'[w].outcomes = Tail(outcomes)
  BY <1>9
<1>11. Tr!WaitingIsServed'
  BY <1>1, <1>9, <1>10, StillServed
<1>12. Tr!Shapes'
  <2>1. \A v \in 1..Workers :
       /\ screens'[v] = [at |-> screens'[v].at, ids |-> screens'[v].ids, outcomes |-> screens'[v].outcomes]
       /\ screens'[v].at \in {"gone", "looking", "screening", "storing"}
       /\ screens'[v].ids \in Seq(Screened) /\ screens'[v].outcomes \in Seq(Tr!ToSet(screens'[v].outcomes))
    BY <1>1, <1>8, <1>9, <1>10 DEF Tr!TriInv, Tr!Shapes
  <2> QED BY <1>1, <1>2, <1>9, <2>1 DEF Tr!TriInv, Tr!Shapes
<1>13. Tr!OutcomesAreOwn'
  <2> SUFFICES ASSUME NEW v \in 1..Workers, screens'[v].at = "storing"
               PROVE  LET left == Len(screens'[v].ids) - Len(screens'[v].outcomes)
                      IN left >= 0 /\ \A i \in DOMAIN screens'[v].outcomes : Tr!OwnRow(screens'[v].ids[left + i], screens'[v].outcomes[i])
    BY DEF Tr!OutcomesAreOwn, Tr!OwnRow, Tr!NearImpossible
  <2>1. CASE v = w
    <3>1. Len(ids) - Len(Tail(outcomes)) = stored + 1
      BY <1>4, <1>7
    <3>2. \A i \in DOMAIN Tail(outcomes) : Tr!OwnRow(ids[(stored + 1) + i], Tail(outcomes)[i])
      <4> SUFFICES ASSUME NEW i \in 1..(Len(outcomes) - 1) PROVE Tr!OwnRow(ids[(stored + 1) + i], Tail(outcomes)[i])
        BY <1>7
      <4>1. i + 1 \in DOMAIN outcomes /\ (stored + 1) + i = stored + (i + 1)
        BY <1>4, <1>5
      <4>2. Tr!OwnRow(ids[stored + (i + 1)], outcomes[i + 1])
        BY <1>3, <4>1
      <4> QED BY <1>7, <4>1, <4>2
    <3>3. stored + 1 >= 0
      BY <1>5
    <3>4. screens'[v].ids = ids /\ screens'[v].outcomes = Tail(outcomes)
      BY <1>10, <2>1
    <3> HIDE DEF stored
    <3> QED BY <3>1, <3>2, <3>3, <3>4
  <2>2. CASE v # w
    BY <1>9, <2>2 DEF Tr!TriInv, Tr!OutcomesAreOwn
  <2> QED BY <2>1, <2>2
<1>14. Tr!RowsAreTheirOwn'
  <2> SUFFICES ASSUME NEW n \in Screened, triages'[n] # None PROVE Tr!OwnRow(n, triages'[n])
    BY DEF Tr!RowsAreTheirOwn, Tr!OwnRow, Tr!NearImpossible
  <2>1. CASE n = m
    BY <1>1, <1>2, <1>5, <1>6, <2>1
  <2>2. CASE n # m
    BY <1>1, <1>2, <1>5, <2>2 DEF Tr!TriInv, Tr!RowsAreTheirOwn
  <2> QED BY <2>1, <2>2
<1> QED BY <1>11, <1>12, <1>13, <1>14 DEF Tr!TriInv

\* A worker that is done with its batch, however it ended, goes on looking.
LEMMA FinishKeepsTriage == ASSUME Tr!TriageAssumption, Tr!TriInv, NEW w \in 1..Workers, NEW raised \in BOOLEAN, Tr!Finish(w, raised) PROVE Tr!TriInv'
<1>1. /\ screens[w].at \in {"screening", "storing"} /\ running' = running \ Tr!ToSet(screens[w].ids)
      /\ screens' = [screens EXCEPT ![w] = Tr!Looking] /\ UNCHANGED <<waiting, workers, triages>> /\ DOMAIN screens = 1..Workers
  BY DEF Tr!Finish, Tr!AfterScreen, Tr!kept, Tr!TriInv, Tr!Shapes
<1>2. /\ DOMAIN screens' = 1..Workers /\ screens'[w] = [at |-> "looking", ids |-> <<>>, outcomes |-> <<>>]
      /\ \A v \in (1..Workers) \ {w} : screens'[v] = screens[v]
  BY <1>1 DEF Tr!Looking, Tr!Gone
<1>3. screens'[w].at = "looking" /\ screens'[w].ids = <<>> /\ screens'[w].outcomes = <<>>
  BY <1>2
<1>4. Tr!Live' = Tr!Live /\ w \in Tr!Live /\ Tr!Live \subseteq 1..Workers
  <2>1. \A v \in 1..Workers : v \in Tr!Live' <=> v \in Tr!Live
    BY <1>1, <1>2, <1>3 DEF Tr!Live
  <2>2. Tr!Live' \subseteq 1..Workers /\ Tr!Live \subseteq 1..Workers /\ w \in Tr!Live
    BY <1>1 DEF Tr!Live
  <2> QED BY <2>1, <2>2
<1>5. Tr!Holding(w)' = {} /\ Tr!Holding(w) = Tr!ToSet(screens[w].ids) /\ \A v \in (1..Workers) \ {w} : Tr!Holding(v)' = Tr!Holding(v)
  <2>1. Tr!Holding(w)' = {}
    BY <1>3 DEF Tr!Holding
  <2>2. Tr!Holding(w) = Tr!ToSet(screens[w].ids)
    BY <1>1 DEF Tr!Holding
  <2>3. \A v \in (1..Workers) \ {w} : Tr!Holding(v)' = Tr!Holding(v)
    BY <1>2 DEF Tr!Holding
  <2> QED BY <2>1, <2>2, <2>3
<1>6. Tr!Shapes'
  <2>1. \A S : <<>> \in Seq(S)
    OBVIOUS
  <2>2. \A v \in 1..Workers :
       /\ screens'[v] = [at |-> screens'[v].at, ids |-> screens'[v].ids, outcomes |-> screens'[v].outcomes]
       /\ screens'[v].at \in {"gone", "looking", "screening", "storing"}
       /\ screens'[v].ids \in Seq(Screened) /\ screens'[v].outcomes \in Seq(Tr!ToSet(screens'[v].outcomes))
    BY <1>2, <1>3, <2>1 DEF Tr!TriInv, Tr!Shapes
  <2> QED BY <1>1, <1>2, <2>2 DEF Tr!TriInv, Tr!Shapes
<1>7. Tr!WaitingIsServed'
  <2>1. running = UNION {Tr!Holding(v) : v \in Tr!Live} /\ \A u, v \in Tr!Live : u # v => Tr!Holding(u) \cap Tr!Holding(v) = {}
    BY DEF Tr!TriInv, Tr!WaitingIsServed
  <2>2. running' = UNION {Tr!Holding(v)' : v \in Tr!Live'}
    <3>1. \A v \in Tr!Live \ {w} : Tr!Holding(v)' = Tr!Holding(v) /\ Tr!Holding(v) \cap Tr!Holding(w) = {}
      BY <1>4, <1>5, <2>1
    <3>2. \A x : x \in running' <=> \E v \in Tr!Live : x \in Tr!Holding(v)'
      <4>1. \A x : x \in running' <=> (\E v \in Tr!Live : x \in Tr!Holding(v)) /\ x \notin Tr!Holding(w)
        BY <1>1, <1>5, <2>1
      <4> QED BY <1>4, <1>5, <3>1, <4>1
    <3> QED BY <1>4, <3>2
  <2>3. \A u, v \in Tr!Live' : u # v => Tr!Holding(u)' \cap Tr!Holding(v)' = {}
    BY <1>4, <1>5, <2>1
  <2>4. workers' = Tr!Cardinality(Tr!Live')
    BY <1>1, <1>4 DEF Tr!TriInv, Tr!WaitingIsServed
  <2>5. Tr!ToSet(waiting') \cap running' = {}
    BY <1>1 DEF Tr!TriInv, Tr!WaitingIsServed
  <2> QED BY <1>1, <1>4, <2>2, <2>3, <2>4, <2>5 DEF Tr!TriInv, Tr!WaitingIsServed
<1>8. Tr!OutcomesAreOwn' /\ Tr!RowsAreTheirOwn'
  <2>1. \A v \in 1..Workers : screens'[v].at = "storing" => screens'[v] = screens[v]
    BY <1>2, <1>3
  <2>2. Tr!OutcomesAreOwn'
    BY <2>1 DEF Tr!TriInv, Tr!OutcomesAreOwn
  <2> QED BY <1>1, <2>2 DEF Tr!TriInv, Tr!RowsAreTheirOwn
<1> QED BY <1>6, <1>7, <1>8 DEF Tr!TriInv

\* A restart forgets what waited and ran, and keeps the rows.
LEMMA RestartKeepsTriage == ASSUME Tr!TriageAssumption, Tr!TriInv, Tr!Restart PROVE Tr!TriInv'
<1>1. waiting' = <<>> /\ running' = {} /\ workers' = 0 /\ screens' = [w \in 1..Workers |-> Tr!Gone] /\ UNCHANGED triages
  BY DEF Tr!Restart, Tr!kept
<1>2. \A w \in 1..Workers : screens'[w] = [at |-> "gone", ids |-> <<>>, outcomes |-> <<>>]
  BY <1>1 DEF Tr!Gone
<1>3. \A w \in 1..Workers : screens'[w].at = "gone" /\ screens'[w].ids = <<>> /\ screens'[w].outcomes = <<>>
  BY <1>2
<1>4. Tr!Live' = {}
  BY <1>3 DEF Tr!Live
<1>5. Tr!Shapes'
  <2>1. \A S : <<>> \in Seq(S)
    OBVIOUS
  <2> QED BY <1>1, <1>2, <1>3, <2>1 DEF Tr!TriInv, Tr!Shapes
<1>6. Tr!WaitingIsServed'
  <2>1. Tr!Cardinality(Tr!Live') = 0
    BY <1>4, FS_EmptySet, SameSize
  <2> QED BY <1>1, <1>4, <2>1 DEF Tr!WaitingIsServed, Tr!IsInjective, Tr!ToSet
<1> QED BY <1>1, <1>3, <1>5, <1>6 DEF Tr!TriInv, Tr!OutcomesAreOwn, Tr!RowsAreTheirOwn

LEMMA AskKeepsTriage == ASSUME Tr!TriageAssumption, Tr!TriInv, NEW m \in Screened, Tr!Ask(m) PROVE Tr!TriInv'
<1>1. <<m>> \in Seq(Screened) /\ Tr!IsInjective(<<m>>) /\ Tr!Enqueue(<<m>>) /\ UNCHANGED <<running, triages>>
  BY DEF Tr!Ask, Tr!kept, Tr!IsInjective
<1> QED BY <1>1, EnqueueKeepsTriage

LEMMA TopQueuesKeepsTriage == ASSUME Tr!TriageAssumption, Tr!TriInv, Tr!TopQueues PROVE Tr!TriInv'
<1> DEFINE ids == Tr!Among(Ranked, Screened \ UNION Tr!ToSet(top))
           first == SubSeq(ids, 1, Tr!Min({TopN, Len(ids)}))
<1>1. ids \in Seq(Screened) /\ Tr!IsInjective(ids)
  BY AmongIs DEF Tr!TriageAssumption
<1>2. Tr!Enqueue(first) /\ UNCHANGED <<running, triages>>
  BY DEF Tr!TopQueues, Tr!kept
<1> HIDE DEF ids
<1>3. first \in Seq(Screened) /\ Tr!IsInjective(first)
  BY <1>1, FirstOf DEF Tr!TriageAssumption
<1> HIDE DEF first
<1> QED BY <1>2, <1>3, EnqueueKeepsTriage

LEMMA Unmoved == ASSUME Tr!TriInv, UNCHANGED <<waiting, running, workers, screens, triages>> PROVE Tr!TriInv'
<1>1. Tr!Live' = Tr!Live /\ \A w \in 1..Workers : Tr!Holding(w)' = Tr!Holding(w)
  BY DEF Tr!Live, Tr!Holding
<1>2. Tr!Shapes'
  BY DEF Tr!TriInv, Tr!Shapes
<1>3. Tr!WaitingIsServed'
  <2>1. Tr!Live \subseteq 1..Workers
    BY DEF Tr!Live
  <2>2. running' = UNION {Tr!Holding(w)' : w \in Tr!Live'}
    BY <1>1, <2>1 DEF Tr!TriInv, Tr!WaitingIsServed
  <2>3. \A v, w \in Tr!Live' : v # w => Tr!Holding(v)' \cap Tr!Holding(w)' = {}
    BY <1>1, <2>1 DEF Tr!TriInv, Tr!WaitingIsServed
  <2> QED BY <1>1, <2>2, <2>3 DEF Tr!TriInv, Tr!WaitingIsServed
<1>4. Tr!OutcomesAreOwn'
  BY DEF Tr!TriInv, Tr!OutcomesAreOwn
<1>5. Tr!RowsAreTheirOwn'
  BY DEF Tr!TriInv, Tr!RowsAreTheirOwn
<1> QED BY <1>2, <1>3, <1>4, <1>5 DEF Tr!TriInv

LEMMA TriIsMaintained == ASSUME Tr!TriageAssumption, Tr!TriInv, [Tr!Next]_(Tr!vars) PROVE Tr!TriInv'
<1>1. CASE \E m \in Screened : Tr!Ask(m)
  BY <1>1, AskKeepsTriage
<1>2. CASE Tr!TopReads
  BY <1>2, Unmoved DEF Tr!TopReads, Tr!kept
<1>3. CASE Tr!TopQueues
  BY <1>3, TopQueuesKeepsTriage
<1>4. CASE Tr!Restart
  BY <1>4, RestartKeepsTriage
<1>5. CASE \E w \in 1..Workers : Tr!Take(w)
  BY <1>5, TakeKeepsTriage
<1>6. CASE \E w \in 1..Workers : Tr!Leave(w)
  BY <1>6, LeaveKeepsTriage
<1>7. CASE \E w \in 1..Workers : Tr!Screen(w)
  BY <1>7, ScreenKeepsTriage
<1>8. CASE \E w \in 1..Workers : Tr!StoreTriage(w)
  BY <1>8, StoreKeepsTriage
<1>9. CASE \E w \in 1..Workers : \E raised \in BOOLEAN : Tr!Finish(w, raised)
  BY <1>9, FinishKeepsTriage
<1>10. CASE UNCHANGED Tr!vars
  BY <1>10, Unmoved DEF Tr!vars, Tr!kept
<1> QED BY <1>1, <1>2, <1>3, <1>4, <1>5, <1>6, <1>7, <1>8, <1>9, <1>10 DEF Tr!Next

LEMMA TriIsKept == ASSUME Tr!TriageAssumption PROVE Tr!Spec => []Tr!TriInv
<1>1. Tr!Init => Tr!TriInv
  BY TriStarts
<1>2. Tr!TriInv /\ [Tr!Next]_(Tr!vars) => Tr!TriInv'
  BY TriIsMaintained
<1> QED BY <1>1, <1>2, PTL DEF Tr!Spec

\* Whatever is asked, read or raised (triage_runner.py: _enqueue, _take, _work): while a market
\* waits a worker lives to take it, no market waits twice or while it is screened, and what is
\* shown as running is what the live workers hold, each market held by one of them.
THEOREM WaitingServed == ASSUME Tr!TriageAssumption PROVE Tr!Spec => []Tr!WaitingIsServed
<1>1. Tr!TriInv => Tr!WaitingIsServed
  BY DEF Tr!TriInv
<1> QED BY <1>1, TriIsKept, PTL

\* However a batch fails for some of its markets (triage.py: screen_event, _judged, decide;
\* triage_runner.py: screen_and_store): a row stored for a market rests on judge runs of that
\* market and on facts about it, and its verdict on every run of them.
THEOREM RowsTheirOwn == ASSUME Tr!TriageAssumption PROVE Tr!Spec => []Tr!RowsAreTheirOwn
<1>1. Tr!TriInv => Tr!RowsAreTheirOwn
  BY DEF Tr!TriInv
<1> QED BY <1>1, TriIsKept, PTL

(***************************************************************************)
(* The listing of the rewarded markets                                     *)
(***************************************************************************)

LEMMA SizeIs == \A S : Li!Cardinality(S) = Cardinality(S) /\ (Li!IsFiniteSet(S) <=> IsFiniteSet(S))
  BY Zenon DEF Li!Cardinality, Cardinality, Li!IsFiniteSet, IsFiniteSet

\* The listing by id has each market that is listed, once, rising.
LEMMA ByIdIs ==
  ASSUME listed \subseteq Int, IsFiniteSet(listed)
  PROVE  /\ Cardinality(listed) \in Nat
         /\ Li!ById \in [1..Cardinality(listed) -> listed]
         /\ \A m \in listed : \E n \in 1..Cardinality(listed) : Li!ById[n] = m
         /\ \A i, j \in 1..Cardinality(listed) : i < j => Li!ById[i] < Li!ById[j]
<1> DEFINE N == Cardinality(listed)
           upto(m) == {k \in listed : k <= m}
           rank(m) == Li!Cardinality({k \in listed : k <= m})
           at(n) == CHOOSE m \in listed : rank(m) = n
<1>0. Li!Cardinality(listed) = N /\ \A m : rank(m) = Cardinality(upto(m))
  BY SizeIs
<1>1. /\ N \in Nat
      /\ \A m \in listed : Cardinality(upto(m)) \in 1..N
      /\ \A m, k \in listed : Cardinality(upto(m)) = Cardinality(upto(k)) => m = k
      /\ \A n \in 1..N : \E m \in listed : Cardinality(upto(m)) = n
  BY Ranks
<1>2. Li!ById = [n \in 1..N |-> at(n)]
  BY <1>0 DEF Li!ById
<1> HIDE DEF rank
<1>3. \A n \in 1..N : at(n) \in listed /\ Cardinality(upto(at(n))) = n
  <2> HIDE DEF upto, N
  <2> QED BY <1>0, <1>1
<1>4. ASSUME NEW i \in 1..N, NEW j \in 1..N, i < j PROVE at(i) < at(j)
  <2>1. SUFFICES ASSUME at(j) <= at(i) PROVE FALSE
    <3>1. at(i) \in Int /\ at(j) \in Int
      BY <1>3
    <3> HIDE DEF at
    <3> QED BY <3>1
  <2>2. at(i) \in listed /\ at(j) \in listed /\ \A k \in listed : k \in Int
    BY <1>3
  <2>3. upto(at(j)) \in SUBSET upto(at(i))
    <3>1. \A k \in listed : k <= at(j) => k <= at(i)
      <4>1. \A x, y, k \in Int : k <= x /\ x <= y => k <= y
        OBVIOUS
      <4>2. at(i) \in Int /\ at(j) \in Int /\ \A k \in listed : k \in Int
        BY <2>2, Zenon
      <4> HIDE DEF at
      <4> QED BY <2>1, <4>1, <4>2
    <3> HIDE DEF at
    <3> QED BY <3>1
  <2>4. IsFiniteSet(upto(at(i)))
    <3> DEFINE low == upto(at(i))
    <3>1. low \in SUBSET listed
      OBVIOUS
    <3> HIDE DEF low
    <3>2. IsFiniteSet(low)
      BY <3>1, FS_Subset
    <3> QED BY <3>2 DEF low
  <2>5. Cardinality(upto(at(j))) <= Cardinality(upto(at(i)))
    <3> HIDE DEF upto, at
    <3> QED BY <2>3, <2>4, FS_Subset
  <2>6. Cardinality(upto(at(j))) = j /\ Cardinality(upto(at(i))) = i
    <3> HIDE DEF at, upto
    <3> QED BY <1>3
  <2> HIDE DEF at, upto, N
  <2> QED BY <1>1, <1>4, <2>5, <2>6
<1> HIDE DEF at, upto
<1>5. \A m \in listed : \E n \in 1..N : at(n) = m
  <2> SUFFICES ASSUME NEW m \in listed PROVE \E n \in 1..N : at(n) = m
    OBVIOUS
  <2>1. Cardinality(upto(m)) \in 1..N /\ at(Cardinality(upto(m))) = m
    <3>1. \A k \in listed : rank(k) = rank(m) => k = m
      BY <1>0, <1>1
    <3>2. Cardinality(upto(m)) \in 1..N /\ rank(m) = Cardinality(upto(m))
      BY <1>0, <1>1
    <3>3. at(rank(m)) \in listed /\ rank(at(rank(m))) = rank(m)
      BY <3>2 DEF at
    <3> QED BY <3>1, <3>2, <3>3
  <2> QED BY <2>1
<1> QED BY <1>1, <1>2, <1>3, <1>4, <1>5 DEF N

\* So has what is served, which falls where ids are not sorted.
LEMMA OrderedIs ==
  ASSUME listed \subseteq Int, IsFiniteSet(listed)
  PROVE  /\ Cardinality(listed) \in Nat
         /\ Li!Ordered \in [1..Cardinality(listed) -> listed]
         /\ \A m \in listed : \E n \in 1..Cardinality(listed) : Li!Ordered[n] = m
         /\ \A i, j \in 1..Cardinality(listed) :
              i < j => IF sorted THEN Li!Ordered[i] < Li!Ordered[j] ELSE Li!Ordered[i] > Li!Ordered[j]
<1> DEFINE N == Cardinality(listed)
<1>1. /\ N \in Nat /\ Li!ById \in [1..N -> listed]
      /\ \A m \in listed : \E n \in 1..N : Li!ById[n] = m
      /\ \A i, j \in 1..N : i < j => Li!ById[i] < Li!ById[j]
  BY ByIdIs
<1> HIDE DEF N
<1>2. CASE sorted
  BY <1>1, <1>2 DEF Li!Ordered, N
<1>3. CASE ~sorted
  <2>0. Li!ById \in Seq(listed) /\ Len(Li!ById) = N
    BY <1>1, SeqDef
  <2>1. Li!Ordered = [n \in 1..N |-> Li!ById[N - n + 1]]
    BY <1>3, <2>0 DEF Li!Ordered, Li!Reverse
  <2>2. \A n \in 1..N : N - n + 1 \in 1..N /\ N - (N - n + 1) + 1 = n
    BY <1>1
  <2>3. Li!Ordered \in [1..N -> listed]
    BY <1>1, <2>1, <2>2
  <2>4. \A m \in listed : \E n \in 1..N : Li!Ordered[n] = m
    BY <1>1, <2>1, <2>2
  <2>5. ASSUME NEW i \in 1..N, NEW j \in 1..N, i < j PROVE Li!Ordered[i] > Li!Ordered[j]
    <3>1. N - i + 1 \in 1..N /\ N - j + 1 \in 1..N /\ N - j + 1 < N - i + 1
      BY <1>1, <2>5
    <3>2. Li!ById[N - j + 1] < Li!ById[N - i + 1] /\ Li!ById[N - j + 1] \in Int /\ Li!ById[N - i + 1] \in Int
      BY <1>1, <3>1
    <3> QED BY <2>1, <3>2
  <2> QED BY <1>1, <1>3, <2>3, <2>4, <2>5 DEF N
<1> QED BY <1>2, <1>3

LEMMA LeastOf ==
  ASSUME NEW x \in Int, NEW y \in Int
  PROVE  Li!Min({x, y}) = IF x <= y THEN x ELSE y
<1> DEFINE least == IF x <= y THEN x ELSE y
<1>1. least \in {x, y} /\ \A z \in {x, y} : least <= z
  OBVIOUS
<1>2. \A m \in {x, y} : (\A z \in {x, y} : m <= z) => m = least
  OBVIOUS
<1> QED BY <1>1, <1>2 DEF Li!Min

LEMMA IdsAreFinite ==
  ASSUME Li!ListingAssumption, listed \subseteq 1..LastId
  PROVE  listed \subseteq Int /\ IsFiniteSet(listed) /\ \A m \in listed : m \in Int
<1>1. LastId \in Int /\ IsFiniteSet(1..LastId)
  BY FS_Interval DEF Li!ListingAssumption
<1>2. IsFiniteSet(listed)
  BY <1>1, FS_Subset
<1> QED BY <1>1, <1>2

\* A page as it comes has its stretch of the listing, and the first the start of it.
LEMMA PageIsTrue ==
  ASSUME Li!ListingAssumption, listed \subseteq 1..LastId, sorted \in BOOLEAN, always \subseteq listed, listed \subseteq ever,
         NEW offset \in Nat
  PROVE  /\ Li!HoldsItsStretch(Li!RowsAt(offset))
         /\ offset = 0 => Li!HoldsTheStart(Li!RowsAt(offset))
<1> DEFINE N == Cardinality(listed)
           upto == IF N <= offset + PageRows THEN N ELSE offset + PageRows
           O == Li!Ordered
           page == Li!RowsAt(offset)
<1>0. PageRows \in Nat /\ \A m \in listed : m \in Int
  BY IdsAreFinite DEF Li!ListingAssumption
<1>1. /\ N \in Nat /\ O \in [1..N -> listed]
      /\ \A m \in listed : \E n \in 1..N : O[n] = m
      /\ \A i, j \in 1..N : i < j => IF sorted THEN O[i] < O[j] ELSE O[i] > O[j]
  BY IdsAreFinite, OrderedIs
<1>2. O \in Seq(listed) /\ Len(O) = N
  BY <1>1, SeqDef
<1> HIDE DEF N
<1>3. upto \in Nat /\ upto <= N /\ upto <= offset + PageRows /\ (upto < offset + PageRows => upto = N)
  BY <1>0, <1>1
<1>4. page = SubSeq(O, offset + 1, upto)
  BY <1>0, <1>1, <1>2, LeastOf DEF Li!RowsAt
<1> HIDE DEF O, upto, page
<1> DEFINE length == IF offset <= upto THEN upto - offset ELSE 0
<1>5. length \in Nat /\ length <= PageRows /\ offset + length <= N + offset /\ \A i \in 1..length : offset + i \in 1..N
  BY <1>0, <1>1, <1>3
<1>6. page \in Seq(listed) /\ Len(page) = length /\ DOMAIN page = 1..length /\ \A i \in 1..length : page[i] = O[offset + i] /\ page[i] \in listed
  <2>1. page = [i \in 1..length |-> O[offset + i]]
    BY <1>1, <1>2, <1>3, <1>4, <1>5
  <2>2. page \in [1..length -> listed]
    BY <1>1, <1>5, <2>1
  <2>3. page \in Seq(listed) /\ Len(page) = length
    BY <1>5, <2>2, SeqDef
  <2>4. DOMAIN page = 1..length /\ \A i \in 1..length : page[i] = O[offset + i]
    BY <2>1
  <2> QED BY <2>2, <2>3, <2>4
<1> HIDE DEF length
<1>7. page \in Seq(ever)
  <2>1. page \in [1..length -> ever]
    <3>1. page = [i \in 1..length |-> page[i]]
      BY <1>6
    <3>2. \A i \in 1..length : page[i] \in ever
      BY <1>6
    <3> QED BY <3>1, <3>2
  <2> QED BY <1>5, <2>1, SeqDef
<1>8. ASSUME NEW i \in DOMAIN page, NEW j \in DOMAIN page, i < j
      PROVE  IF sorted THEN page[i] < page[j] ELSE page[i] > page[j]
  <2>1. i \in 1..length /\ j \in 1..length
    BY <1>6
  <2>2. offset + i \in 1..N /\ offset + j \in 1..N
    BY <1>5, <2>1
  <2>3. offset + i < offset + j
    BY <1>5, <1>8, <2>1
  <2> QED BY <1>1, <1>6, <2>1, <2>2, <2>3
\* A market of the listing past the first row and up to the last is a row.
<1>9. ASSUME sorted, page # <<>>, NEW m \in listed, m >= page[1] \/ offset = 0, length < PageRows \/ m <= page[length]
      PROVE  m \in Li!ToSet(page)
  <2>1. length \in Nat \ {0}
    BY <1>5, <1>6, <1>9
  <2>2. PICK n \in 1..N : O[n] = m
    BY <1>1
  <2>3. n >= offset + 1
    <3>1. CASE offset = 0
      BY <1>1, <2>2, <3>1
    <3>2. CASE m >= page[1]
      <4>1. offset + 1 \in 1..N /\ page[1] = O[offset + 1]
        BY <1>5, <1>6, <2>1
      <4>2. O[n] \in Int /\ O[offset + 1] \in Int
        BY <1>0, <1>1, <4>1
      <4>3. n < offset + 1 => O[n] < O[offset + 1]
        BY <1>1, <1>9, <4>1
      <4> QED BY <1>1, <2>2, <3>2, <4>1, <4>2, <4>3
    <3> QED BY <1>9, <3>1, <3>2
  <2>4. n <= offset + length
    <3>1. CASE length < PageRows
      <4>1. length = upto - offset /\ upto = N
        BY <1>0, <1>1, <1>3, <2>1, <3>1 DEF length
      <4> QED BY <1>1, <2>2, <4>1
    <3>2. CASE m <= page[length]
      <4>1. offset + length \in 1..N /\ page[length] = O[offset + length]
        <5>1. length \in 1..length
          BY <2>1
        <5> QED BY <1>5, <1>6, <5>1
      <4>2. O[n] \in Int /\ O[offset + length] \in Int
        BY <1>0, <1>1, <4>1
      <4>3. offset + length < n => O[offset + length] < O[n]
        BY <1>1, <1>9, <4>1
      <4> QED BY <1>1, <2>1, <2>2, <3>2, <4>1, <4>2, <4>3
    <3> QED BY <1>9, <3>1, <3>2
  <2>5. n - offset \in 1..length /\ page[n - offset] = m
    <3>1. n - offset \in 1..length /\ offset + (n - offset) = n
      BY <1>1, <2>1, <2>2, <2>3, <2>4
    <3> QED BY <1>6, <2>2, <3>1
  <2> QED BY <1>6, <2>5 DEF Li!ToSet
<1>10. Li!HoldsItsStretch(page)
  <2>1. Len(page) <= PageRows
    BY <1>5, <1>6
  <2>2. sorted /\ page # <<>> =>
          \A m \in always : m >= page[1] /\ (Len(page) < PageRows \/ m <= page[Len(page)]) => m \in Li!ToSet(page)
    BY <1>6, <1>9
  <2> QED BY <1>7, <1>8, <2>1, <2>2 DEF Li!HoldsItsStretch
<1>11. ASSUME offset = 0 PROVE Li!HoldsTheStart(page)
  <2>1. ASSUME Len(page) < PageRows, NEW m \in always PROVE m \in Li!ToSet(page)
    <3>1. PICK n \in 1..N : O[n] = m
      BY <1>1
    <3>2. length = N
      BY <1>0, <1>1, <1>3, <1>6, <1>11, <2>1 DEF length
    <3>3. n \in 1..length /\ page[n] = O[n]
      BY <1>1, <1>6, <1>11, <3>2
    <3> QED BY <1>6, <3>1, <3>3 DEF Li!ToSet
  <2>2. sorted /\ page # <<>> => \A m \in always : m <= page[Len(page)] => m \in Li!ToSet(page)
    BY <1>6, <1>9, <1>11
  <2> QED BY <2>1, <2>2 DEF Li!HoldsTheStart
<1> QED BY <1>10, <1>11 DEF page

LEMMA LisStarts == ASSUME Li!ListingAssumption, Li!Init PROVE Li!LisInv
  BY DEF Li!ListingAssumption, Li!Init, Li!LisInv, Li!ListingIsWhole

\* As markets come and go, a page asks for no more of what it should hold.
LEMMA PagesStillHold ==
  ASSUME Li!PagesHold, pages' = pages, batch' = batch, sorted' = sorted, always' \subseteq always, ever \subseteq ever'
  PROVE  Li!PagesHold'
<1>1. \A page \in Seq(ever) : page \in Seq(ever')
  BY WiderSeq
<1>2. pages \in Seq(Seq(ever')) /\ batch \in Seq(Seq(ever') \cup {None})
  <2>1. Seq(ever) \subseteq Seq(ever') /\ Seq(ever) \cup {None} \subseteq Seq(ever') \cup {None}
    BY <1>1
  <2> QED BY <2>1, WiderSeq DEF Li!PagesHold
<1>3. \A page : Li!HoldsItsStretch(page) =>
        /\ page \in Seq(ever') /\ Len(page) <= PageRows
        /\ \A i, j \in DOMAIN page : i < j => IF sorted THEN page[i] < page[j] ELSE page[i] > page[j]
        /\ sorted /\ page # <<>> =>
             \A m \in always' : m >= page[1] /\ (Len(page) < PageRows \/ m <= page[Len(page)]) => m \in Li!ToSet(page)
  BY <1>1 DEF Li!HoldsItsStretch
<1>4. \A page : Li!HoldsTheStart(page) =>
        /\ Len(page) < PageRows => always' \subseteq Li!ToSet(page)
        /\ sorted /\ page # <<>> => \A m \in always' : m <= page[Len(page)] => m \in Li!ToSet(page)
  BY DEF Li!HoldsTheStart
<1>5. \A k \in DOMAIN pages : Li!HoldsItsStretch(pages[k])' /\ Len(pages[k]) = PageRows
  BY <1>3 DEF Li!PagesHold, Li!HoldsItsStretch, Li!ToSet
<1>6. \A i \in DOMAIN batch : batch[i] # None => Li!HoldsItsStretch(batch[i])'
  BY <1>3 DEF Li!PagesHold, Li!HoldsItsStretch, Li!ToSet
<1>7. pages # <<>> => Li!HoldsTheStart(pages[1])'
  BY <1>4 DEF Li!PagesHold, Li!HoldsTheStart, Li!ToSet
<1>8. pages = <<>> /\ Threads > 0 /\ batch[1] # None => Li!HoldsTheStart(batch[1])'
  BY <1>4 DEF Li!PagesHold, Li!HoldsTheStart, Li!ToSet
<1> QED BY <1>2, <1>5, <1>6, <1>7, <1>8 DEF Li!PagesHold

\* An attempt begins with no page.
LEMMA NoneAreRead ==
  ASSUME Li!ListingAssumption, pages' = <<>>, batch' = Li!NoPages
  PROVE  Li!PagesHold'
<1>1. Threads \in Nat /\ Li!NoPages = [i \in 1..Threads |-> None]
  BY DEF Li!ListingAssumption, Li!NoPages
<1>2. Li!NoPages \in Seq(Seq(ever') \cup {None}) /\ Len(Li!NoPages) = Threads
  <2>1. Li!NoPages \in [1..Threads -> Seq(ever') \cup {None}]
    BY <1>1
  <2> QED BY <1>1, <2>1, SeqDef
<1>3. \A i \in DOMAIN Li!NoPages : Li!NoPages[i] = None
  BY <1>1
<1>4. Threads > 0 => Li!NoPages[1] = None
  BY <1>1
<1> HIDE DEF Li!NoPages
<1>5. <<>> \in Seq(Seq(ever')) /\ DOMAIN <<>> = {}
  OBVIOUS
<1> QED BY <1>2, <1>3, <1>4, <1>5 DEF Li!PagesHold

LEMMA MovesKeepListing ==
  ASSUME Li!ListingAssumption, Li!LisInv, NEW m \in 1..LastId, Li!Joins(m) \/ Li!Leaves(m)
  PROVE  Li!LisInv'
<1>1. mode = "reading" /\ mode' = mode /\ sorted' = sorted /\ pages' = pages /\ batch' = batch /\ listing' = listing /\ rates' = rates
  BY DEF Li!Joins, Li!Leaves, Li!reader
<1>2. /\ sorted \in BOOLEAN /\ listing = None /\ always \subseteq listed /\ listed \subseteq ever
      /\ ever \subseteq 1..LastId /\ Li!PagesHold /\ Li!ListingIsWhole
  BY <1>1 DEF Li!LisInv
<1>3. listed' \subseteq 1..LastId /\ always' \subseteq listed' /\ listed' \subseteq ever' /\ ever' \subseteq 1..LastId
  BY <1>2 DEF Li!Joins, Li!Leaves, Li!reader
<1>4. always' \subseteq always /\ ever \subseteq ever'
  BY <1>2 DEF Li!Joins, Li!Leaves, Li!reader
<1>5. Li!PagesHold'
  BY <1>1, <1>2, <1>4, PagesStillHold
<1>6. Li!ListingIsWhole'
  BY <1>1, <1>2 DEF Li!ListingIsWhole
<1> QED BY <1>1, <1>2, <1>3, <1>5, <1>6 DEF Li!LisInv

LEMMA BeginKeepsListing == ASSUME Li!ListingAssumption, Li!LisInv, Li!Begin PROVE Li!LisInv'
<1>1. Li!PagesHold'
  BY NoneAreRead DEF Li!Begin, Li!Attempt
<1>2. listing' = None /\ rates' = rates /\ listed' = listed /\ always' = listed /\ ever' = listed /\ sorted' = sorted
  BY DEF Li!Begin, Li!Attempt
<1> QED BY <1>1, <1>2 DEF Li!LisInv, Li!ListingIsWhole

LEMMA PageKeepsListing ==
  ASSUME Li!ListingAssumption, Li!LisInv, NEW i \in 1..Threads, Li!PageComes(i)
  PROVE  Li!LisInv'
<1> DEFINE page == Li!RowsAt(Li!Offset(i))
<1>1. /\ mode = "reading" /\ batch' = [batch EXCEPT ![i] = page]
      /\ UNCHANGED <<listed, sorted, mode, pages, always, ever, listing, rates>>
  BY DEF Li!PageComes
<1>2. /\ listed \subseteq 1..LastId /\ sorted \in BOOLEAN /\ listing = None /\ always \subseteq listed /\ listed \subseteq ever
      /\ ever \subseteq 1..LastId /\ Li!PagesHold /\ Li!ListingIsWhole
  BY <1>1 DEF Li!LisInv
<1>3. Threads \in Nat /\ Stride \in Nat /\ Len(pages) \in Nat /\ (pages = <<>> => Len(pages) = 0)
  BY <1>2, LenProperties DEF Li!ListingAssumption, Li!PagesHold
<1>4. Li!Offset(i) \in Nat /\ (pages = <<>> /\ i = 1 => Li!Offset(i) = 0)
  <2>1. Len(pages) + i - 1 \in Nat /\ (pages = <<>> /\ i = 1 => Len(pages) + i - 1 = 0)
    BY <1>3
  <2>2. \A x, y \in Nat : x * y \in Nat /\ 0 * y = 0
    OBVIOUS
  <2> QED BY <1>3, <2>1, <2>2 DEF Li!Offset
<1>5. Li!HoldsItsStretch(page) /\ (pages = <<>> /\ i = 1 => Li!HoldsTheStart(page))
  BY <1>2, <1>4, PageIsTrue
<1> HIDE DEF page
<1>6. /\ batch \in Seq(Seq(ever) \cup {None}) /\ Len(batch) = Threads /\ DOMAIN batch = 1..Threads
      /\ page \in Seq(ever)
  BY <1>2, <1>5, LenProperties DEF Li!PagesHold, Li!HoldsItsStretch
<1>7. /\ batch' \in Seq(Seq(ever) \cup {None}) /\ Len(batch') = Threads /\ DOMAIN batch' = 1..Threads
      /\ batch'[i] = page /\ \A j \in 1..Threads : j # i => batch'[j] = batch[j]
  <2>1. batch' \in [1..Threads -> Seq(ever) \cup {None}]
    <3>1. batch \in [1..Threads -> Seq(ever) \cup {None}]
      BY <1>6
    <3> QED BY <1>1, <1>6, <3>1
  <2>2. batch' \in Seq(Seq(ever) \cup {None}) /\ Len(batch') = Threads
    BY <1>3, <2>1, SeqDef
  <2> QED BY <1>1, <1>6, <2>2
<1>8. \A j \in 1..Threads : batch'[j] # None => Li!HoldsItsStretch(batch'[j])
  BY <1>2, <1>5, <1>6, <1>7 DEF Li!PagesHold
<1>9. pages = <<>> /\ Threads > 0 /\ batch'[1] # None => Li!HoldsTheStart(batch'[1])
  BY <1>2, <1>3, <1>5, <1>7 DEF Li!PagesHold
<1>10. /\ \A p : Li!HoldsItsStretch(p) => (/\ p \in Seq(ever') /\ Len(p) <= PageRows
          /\ \A x, y \in DOMAIN p : x < y => IF sorted' THEN p[x] < p[y] ELSE p[x] > p[y]
          /\ sorted' /\ p # <<>> =>
               \A m \in always' : m >= p[1] /\ (Len(p) < PageRows \/ m <= p[Len(p)]) => m \in Li!ToSet(p))
       /\ \A p : Li!HoldsTheStart(p) => (/\ Len(p) < PageRows => always' \subseteq Li!ToSet(p)
          /\ sorted' /\ p # <<>> => \A m \in always' : m <= p[Len(p)] => m \in Li!ToSet(p))
  BY <1>1 DEF Li!HoldsItsStretch, Li!HoldsTheStart
<1>11. Li!PagesHold'
  <2>1. pages' \in Seq(Seq(ever')) /\ batch' \in Seq(Seq(ever') \cup {None}) /\ Len(batch') = Threads
    BY <1>1, <1>2, <1>7 DEF Li!PagesHold
  <2>2. \A k \in DOMAIN pages' : Li!HoldsItsStretch(pages[k])' /\ Len(pages'[k]) = PageRows
    BY <1>1, <1>2, <1>10 DEF Li!PagesHold, Li!HoldsItsStretch, Li!ToSet
  <2>3. \A j \in DOMAIN batch' : batch'[j] # None => Li!HoldsItsStretch(batch[j])'
    <3> SUFFICES ASSUME NEW j \in 1..Threads, batch'[j] # None PROVE Li!HoldsItsStretch(batch[j])'
      BY <1>7
    <3>0. PICK p : p = batch'[j]
      OBVIOUS
    <3>1. Li!HoldsItsStretch(p)
      BY <1>8, <3>0
    <3>2. /\ p \in Seq(ever') /\ Len(p) <= PageRows
          /\ \A x, y \in DOMAIN p : x < y => IF sorted' THEN p[x] < p[y] ELSE p[x] > p[y]
          /\ sorted' /\ p # <<>> =>
               \A m \in always' : m >= p[1] /\ (Len(p) < PageRows \/ m <= p[Len(p)]) => m \in Li!ToSet(p)
      BY <1>1, <3>1 DEF Li!HoldsItsStretch
    <3> QED BY <3>0, <3>2 DEF Li!HoldsItsStretch, Li!ToSet
  <2>4. pages' # <<>> => Li!HoldsTheStart(pages[1])'
    BY <1>1, <1>2, <1>10 DEF Li!PagesHold, Li!HoldsTheStart, Li!ToSet
  <2>5. pages' = <<>> /\ Threads > 0 /\ batch'[1] # None => Li!HoldsTheStart(batch[1])'
    BY <1>1, <1>9, <1>10 DEF Li!HoldsTheStart, Li!ToSet
  <2> QED BY <2>1, <2>2, <2>3, <2>4, <2>5 DEF Li!PagesHold
<1>12. Li!ListingIsWhole'
  BY <1>1, <1>2 DEF Li!ListingIsWhole
<1> QED BY <1>1, <1>2, <1>11, <1>12 DEF Li!LisInv

\* The pages up to the ith of a batch that has come so far hold what they should.
LEMMA UptoHolds ==
  ASSUME Li!ListingAssumption, Li!PagesHold, NEW i \in 0..Threads, \A j \in 1..i : batch[j] # None
  PROVE  /\ Li!Upto(i) \in Seq(Seq(ever)) /\ Len(Li!Upto(i)) = Len(pages) + i /\ Len(pages) \in Nat
         /\ \A k \in 1..Len(pages) : Li!Upto(i)[k] = pages[k]
         /\ \A j \in 1..i : Li!Upto(i)[Len(pages) + j] = batch[j]
         /\ \A k \in DOMAIN Li!Upto(i) : Li!HoldsItsStretch(Li!Upto(i)[k])
         /\ Li!Upto(i) # <<>> => Li!HoldsTheStart(Li!Upto(i)[1])
<1> DEFINE L == Len(pages)
           part == SubSeq(batch, 1, i)
           ps == Li!Upto(i)
<1>0. Threads \in Nat /\ i \in Nat /\ i <= Threads
  BY DEF Li!ListingAssumption
<1>1. pages \in Seq(Seq(ever)) /\ L \in Nat /\ DOMAIN pages = 1..L /\ (pages = <<>> <=> L = 0)
  BY LenProperties DEF Li!PagesHold
<1>2. batch \in Seq(Seq(ever) \cup {None}) /\ Len(batch) = Threads /\ DOMAIN batch = 1..Threads
  BY LenProperties DEF Li!PagesHold
<1>3. part = [j \in 1..i |-> batch[j]]
  BY <1>0, <1>2
<1>4. \A j \in 1..i : batch[j] \in Seq(ever)
  BY <1>0, <1>2
<1>5. part \in Seq(Seq(ever)) /\ Len(part) = i
  <2>1. part \in [1..i -> Seq(ever)]
    BY <1>3, <1>4
  <2> HIDE DEF part
  <2> QED BY <1>0, <2>1, SeqDef
<1>6. \A j \in 1..i : part[j] = batch[j]
  BY <1>3
<1>7. ps = pages \o part
  BY DEF Li!Upto
<1> HIDE DEF part, ps, L
<1>8. /\ ps \in Seq(Seq(ever)) /\ Len(ps) = L + i /\ DOMAIN ps = 1..(L + i)
      /\ \A k \in 1..L : ps[k] = pages[k]
      /\ \A j \in 1..i : ps[L + j] = part[j]
  <2>1. ps \in Seq(Seq(ever)) /\ Len(ps) = L + i
    BY <1>1, <1>5, <1>7, ConcatProperties DEF L
  <2>2. DOMAIN ps = 1..(L + i)
    BY <2>1, LenProperties
  <2>3. \A k \in 1..L : ps[k] = pages[k]
    BY <1>0, <1>1, <1>5, <1>7, ConcatProperties DEF L
  <2>4. \A j \in 1..i : ps[L + j] = part[j]
    <3> SUFFICES ASSUME NEW j \in 1..i PROVE ps[L + j] = part[j]
      OBVIOUS
    <3>1. L + j \in 1..(L + i) /\ L + j > L /\ L + j - L = j
      BY <1>0, <1>1
    <3> QED BY <1>0, <1>1, <1>5, <1>7, <3>1, ConcatProperties DEF L
  <2> QED BY <2>1, <2>2, <2>3, <2>4
<1>9. ASSUME NEW k \in 1..(L + i) PROVE Li!HoldsItsStretch(ps[k])
  <2>1. CASE k <= L
    <3>1. k \in DOMAIN pages /\ ps[k] = pages[k]
      BY <1>0, <1>1, <1>8, <2>1
    <3> QED BY <3>1 DEF Li!PagesHold
  <2>2. CASE k > L
    <3>1. k - L \in 1..i /\ k - L \in 1..Threads /\ L + (k - L) = k
      BY <1>0, <1>1, <2>2
    <3>2. ps[k] = batch[k - L] /\ batch[k - L] # None /\ k - L \in DOMAIN batch
      BY <1>2, <1>6, <1>8, <3>1
    <3> QED BY <3>2 DEF Li!PagesHold
  <2> QED BY <1>0, <1>1, <2>1, <2>2
<1>10. ASSUME ps # <<>> PROVE Li!HoldsTheStart(ps[1])
  <2>1. CASE L > 0
    <3>1. ps[1] = pages[1] /\ pages # <<>>
      BY <1>1, <1>8, <2>1
    <3> QED BY <3>1 DEF Li!PagesHold
  <2>2. CASE L = 0
    <3>1. i > 0
      BY <1>0, <1>8, <1>10, <2>2
    <3>2. ps[1] = batch[1] /\ batch[1] # None /\ pages = <<>> /\ Threads > 0
      BY <1>0, <1>1, <1>6, <1>8, <2>2, <3>1
    <3> QED BY <3>2 DEF Li!PagesHold
  <2> QED BY <1>1, <2>1, <2>2
<1> QED BY <1>1, <1>6, <1>8, <1>9, <1>10 DEF ps, L

LEMMA BatchKeepsListing == ASSUME Li!ListingAssumption, Li!LisInv, Li!NextBatch PROVE Li!LisInv'
<1> DEFINE ps == Li!Upto(Threads)
<1>1. /\ mode = "reading" /\ \A i \in 1..Threads : batch[i] # None /\ ~Li!Short(i)
      /\ pages' = ps /\ batch' = Li!NoPages
      /\ UNCHANGED <<listed, sorted, mode, always, ever, listing, rates>>
  BY DEF Li!NextBatch
<1>2. /\ listed \subseteq 1..LastId /\ sorted \in BOOLEAN /\ listing = None /\ always \subseteq listed /\ listed \subseteq ever
      /\ ever \subseteq 1..LastId /\ Li!PagesHold /\ Li!ListingIsWhole
  BY <1>1 DEF Li!LisInv
<1>3. Threads \in 0..Threads /\ Threads \in Nat /\ PageRows \in Nat
  BY DEF Li!ListingAssumption
<1>4. /\ ps \in Seq(Seq(ever)) /\ Len(ps) = Len(pages) + Threads /\ Len(pages) \in Nat
      /\ \A k \in 1..Len(pages) : ps[k] = pages[k]
      /\ \A j \in 1..Threads : ps[Len(pages) + j] = batch[j]
      /\ \A k \in DOMAIN ps : Li!HoldsItsStretch(ps[k])
      /\ ps # <<>> => Li!HoldsTheStart(ps[1])
  BY <1>1, <1>2, <1>3, UptoHolds
<1> HIDE DEF ps
<1>5. ASSUME NEW k \in DOMAIN ps PROVE Len(ps[k]) = PageRows
  <2>0. k \in 1..(Len(pages) + Threads)
    BY <1>4, LenProperties
  <2>1. CASE k <= Len(pages)
    <3>0. k \in 1..Len(pages) /\ DOMAIN pages = 1..Len(pages)
      BY <1>2, <1>3, <1>4, <2>0, <2>1, LenProperties DEF Li!PagesHold
    <3>1. k \in DOMAIN pages /\ ps[k] = pages[k]
      BY <1>4, <3>0
    <3> QED BY <1>2, <3>1 DEF Li!PagesHold
  <2>2. CASE k > Len(pages)
    <3>1. k - Len(pages) \in 1..Threads /\ Len(pages) + (k - Len(pages)) = k
      BY <1>3, <1>4, <2>0, <2>2
    <3>2. ps[k] = batch[k - Len(pages)]
      BY <1>4, <3>1
    <3>3. ~(Len(ps[k]) < PageRows)
      BY <1>1, <3>1, <3>2 DEF Li!Short
    <3>4. Len(ps[k]) <= PageRows /\ Len(ps[k]) \in Nat
      BY <1>4, <1>5, LenProperties DEF Li!HoldsItsStretch
    <3> QED BY <1>3, <3>3, <3>4
  <2> QED BY <1>3, <1>4, <2>0, <2>1, <2>2
<1>6. Threads > 0 => Li!NoPages[1] = None
  BY <1>3 DEF Li!NoPages
<1>7. \A i \in DOMAIN Li!NoPages : Li!NoPages[i] = None
  BY DEF Li!NoPages
<1>8. Li!NoPages \in Seq(Seq(ever) \cup {None}) /\ Len(Li!NoPages) = Threads
  <2>1. Li!NoPages \in [1..Threads -> Seq(ever) \cup {None}]
    BY DEF Li!NoPages
  <2> QED BY <1>3, <2>1, SeqDef
<1> HIDE DEF Li!NoPages
<1>9. Li!PagesHold'
  <2>1. pages' \in Seq(Seq(ever')) /\ batch' \in Seq(Seq(ever') \cup {None}) /\ Len(batch') = Threads
    BY <1>1, <1>4, <1>8
  <2>2. \A k \in DOMAIN pages' : Li!HoldsItsStretch(pages[k])' /\ Len(pages'[k]) = PageRows
    BY <1>1, <1>4, <1>5 DEF Li!HoldsItsStretch, Li!ToSet
  <2>3. \A j \in DOMAIN batch' : batch'[j] # None => Li!HoldsItsStretch(batch[j])'
    BY <1>1, <1>7
  <2>4. pages' # <<>> => Li!HoldsTheStart(pages[1])'
    BY <1>1, <1>4 DEF Li!HoldsTheStart, Li!ToSet
  <2>5. pages' = <<>> /\ Threads > 0 /\ batch'[1] # None => Li!HoldsTheStart(batch[1])'
    BY <1>1, <1>6
  <2> QED BY <2>1, <2>2, <2>3, <2>4, <2>5 DEF Li!PagesHold
<1>10. Li!ListingIsWhole'
  BY <1>1, <1>2 DEF Li!ListingIsWhole
<1> QED BY <1>1, <1>2, <1>9, <1>10 DEF Li!LisInv

LEMMA HasLast ==
  ASSUME NEW J, J \subseteq Int, IsFiniteSet(J), J # {}
  PROVE  \E k \in J : \A j \in J : j <= k
<1> DEFINE upto(k) == {j \in J : j <= k}
<1>1. Cardinality(J) \in Nat /\ \A n \in 1..Cardinality(J) : \E k \in J : Cardinality(upto(k)) = n
  BY Ranks
<1>2. Cardinality(J) # 0
  BY FS_EmptySet
<1>3. PICK k \in J : Cardinality(upto(k)) = Cardinality(J)
  <2>1. Cardinality(J) \in 1..Cardinality(J)
    BY <1>1, <1>2
  <2> HIDE DEF upto
  <2> QED BY <1>1, <2>1
<1>4. upto(k) \in SUBSET J
  OBVIOUS
<1>5. upto(k) = J
  <2> HIDE DEF upto
  <2> QED BY <1>3, <1>4, FS_Subset
<1> QED BY <1>5

\* What is stitched of pages that overlap, the last of them short: all that was listed throughout.
LEMMA StitchedIsWhole ==
  ASSUME Li!ListingAssumption, Li!PagesHold, sorted \in BOOLEAN, always \subseteq listed, listed \subseteq 1..LastId,
         ever \subseteq 1..LastId, NEW i \in 1..Threads, Li!Short(i), \A j \in 1..(i - 1) : batch[j] # None /\ ~Li!Short(j),
         \A page \in Li!ToSet(Li!Upto(i)) : Li!IsSortedPage(page), Li!Overlap(Li!Upto(i))
  PROVE  LET found == UNION {Li!ToSet(page) : page \in Li!ToSet(Li!Upto(i))}
         IN always \subseteq found /\ found \subseteq ever
<1> DEFINE ps == Li!Upto(i)
           n == Len(pages) + i
           found == UNION {Li!ToSet(page) : page \in Li!ToSet(ps)}
<1>0. Threads \in Nat /\ PageRows \in Nat /\ i \in 0..Threads /\ i \in Nat \ {0} /\ i \in 1..i
  BY DEF Li!ListingAssumption
<1>1. \A j \in 1..i : batch[j] # None
  BY <1>0 DEF Li!Short
<1>2. /\ ps \in Seq(Seq(ever)) /\ Len(ps) = n /\ Len(pages) \in Nat
      /\ \A k \in 1..Len(pages) : ps[k] = pages[k]
      /\ \A j \in 1..i : ps[Len(pages) + j] = batch[j]
      /\ \A k \in DOMAIN ps : Li!HoldsItsStretch(ps[k])
      /\ ps # <<>> => Li!HoldsTheStart(ps[1])
  BY <1>0, <1>1, UptoHolds
<1>3. n \in Nat \ {0} /\ DOMAIN ps = 1..n /\ 1 \in 1..n /\ n \in 1..n /\ ps # <<>>
  BY <1>0, <1>2, LenProperties
<1>4. Len(ps[n]) < PageRows
  BY <1>0, <1>2 DEF Li!Short
<1>5. (\A page \in Li!ToSet(ps) : Li!IsSortedPage(page)) /\ Li!Overlap(ps)
  OBVIOUS
<1> HIDE DEF ps, n, found
<1>6. ASSUME NEW k \in 1..n
      PROVE  /\ ps[k] \in Seq(ever) /\ Len(ps[k]) \in Nat /\ DOMAIN ps[k] = 1..Len(ps[k])
             /\ Li!HoldsItsStretch(ps[k]) /\ Li!IsSortedPage(ps[k]) /\ Li!ToSet(ps[k]) \subseteq found
  <2>1. ps[k] \in Li!ToSet(ps) /\ ps[k] \in Seq(ever) /\ Li!HoldsItsStretch(ps[k])
    BY <1>2, <1>3, ElementOfSeq DEF Li!ToSet
  <2> QED BY <1>5, <2>1, LenProperties DEF found
<1>7. ASSUME NEW k \in 1..(n - 1) PROVE Len(ps[k]) = PageRows
  <2>1. CASE k <= Len(pages)
    <3>1. k \in 1..Len(pages) /\ DOMAIN pages = 1..Len(pages)
      BY <1>2, <1>3, <2>1, LenProperties DEF Li!PagesHold
    <3> QED BY <1>2, <3>1 DEF Li!PagesHold
  <2>2. CASE k > Len(pages)
    <3>1. k - Len(pages) \in 1..(i - 1) /\ k - Len(pages) \in 1..i /\ Len(pages) + (k - Len(pages)) = k
      BY <1>0, <1>2, <1>3, <2>2 DEF n
    <3>2. ps[k] = batch[k - Len(pages)]
      BY <1>2, <3>1
    <3>3. ~(Len(ps[k]) < PageRows)
      BY <3>1, <3>2 DEF Li!Short
    <3>4. Len(ps[k]) <= PageRows /\ Len(ps[k]) \in Nat
      BY <1>3, <1>6 DEF Li!HoldsItsStretch
    <3> QED BY <1>0, <3>3, <3>4
  <2> QED BY <1>2, <1>3, <2>1, <2>2
<1>8. ASSUME NEW k \in 1..(n - 1)
      PROVE  k \in 1..n /\ k + 1 \in 1..n /\ ps[k + 1] # <<>> /\ ps[k + 1][1] <= ps[k][Len(ps[k])]
  <2>1. k \in 1..n /\ k + 1 \in 1..n /\ k \in 1..(Len(ps) - 1)
    BY <1>2, <1>3
  <2>2. ps[k + 1] # <<>> /\ Head(ps[k + 1]) <= Li!Last(ps[k])
    BY <1>5, <2>1 DEF Li!Overlap
  <2>3. Head(ps[k + 1]) = ps[k + 1][1]
    BY <1>6, <2>1, <2>2
  <2> QED BY <2>1, <2>2, <2>3 DEF Li!Last
\* Every full page has a row: the last one, if not the first, has one and is short.
<1>9. ASSUME n > 1 PROVE PageRows > 1
  <2>1. n - 1 \in 1..(n - 1) /\ n - 1 + 1 = n
    BY <1>3, <1>9
  <2>2. ps[n] # <<>> /\ Len(ps[n]) \in Nat
    BY <1>3, <1>6, <1>8, <2>1
  <2>3. Len(ps[n]) # 0
    BY <1>3, <1>6, <2>2
  <2> QED BY <1>0, <1>4, <2>2, <2>3
<1>10. found \subseteq ever
  <2> SUFFICES ASSUME NEW page \in Li!ToSet(ps), NEW m \in Li!ToSet(page) PROVE m \in ever
    BY DEF found
  <2>1. PICK k \in 1..n : page = ps[k]
    BY <1>3 DEF Li!ToSet
  <2>2. \A x \in DOMAIN page : page[x] \in ever
    BY <1>6, <2>1, ElementOfSeq
  <2> QED BY <2>2 DEF Li!ToSet
<1>11. CASE n = 1
  <2>1. always \subseteq Li!ToSet(ps[1])
    BY <1>2, <1>3, <1>4, <1>11 DEF Li!HoldsTheStart
  <2> QED BY <1>3, <1>6, <1>10, <2>1 DEF found, ps
<1>12. CASE n > 1 /\ ~sorted
  <2>1. Len(ps[1]) = PageRows /\ PageRows > 1
    BY <1>3, <1>7, <1>9, <1>12
  <2>2. 1 \in DOMAIN ps[1] /\ 2 \in DOMAIN ps[1] /\ 1 \in 1..(Len(ps[1]) - 1)
    BY <1>0, <1>3, <1>6, <2>1
  <2>3. ps[1][1] > ps[1][2] /\ ps[1][1] \in Int /\ ps[1][2] \in Int
    <3>1. ps[1][1] \in ever /\ ps[1][2] \in ever
      BY <1>3, <1>6, <2>2, ElementOfSeq
    <3>2. \A m \in ever : m \in Int
      BY DEF Li!ListingAssumption
    <3>3. ps[1][1] > ps[1][2]
      BY <1>3, <1>6, <1>12, <2>2 DEF Li!HoldsItsStretch
    <3> QED BY <3>1, <3>2, <3>3
  <2>4. ps[1][1] < ps[1][1 + 1]
    BY <1>3, <1>6, <2>2 DEF Li!IsSortedPage
  <2> QED BY <2>3, <2>4
<1>13. CASE n > 1 /\ sorted
  <2> SUFFICES ASSUME NEW m \in always PROVE m \in found
    BY <1>10 DEF found, ps
  <2>0. m \in Int /\ \A x \in ever : x \in Int
    BY DEF Li!ListingAssumption
  <2>1. ASSUME NEW k \in 1..n, ps[k] # <<>>
        PROVE  ps[k][1] \in Int /\ ps[k][Len(ps[k])] \in Int /\ ps[k][1] <= ps[k][Len(ps[k])]
    <3>1. Len(ps[k]) \in Nat \ {0} /\ 1 \in DOMAIN ps[k] /\ Len(ps[k]) \in DOMAIN ps[k]
      BY <1>6, <2>1
    <3>2. ps[k][1] \in ever /\ ps[k][Len(ps[k])] \in ever
      BY <1>6, <3>1, ElementOfSeq
    <3>3. 1 < Len(ps[k]) => ps[k][1] < ps[k][Len(ps[k])]
      BY <1>6, <1>13, <3>1 DEF Li!HoldsItsStretch
    <3>4. 1 = Len(ps[k]) => ps[k][1] = ps[k][Len(ps[k])]
      OBVIOUS
    <3>5. ps[k][1] \in Int /\ ps[k][Len(ps[k])] \in Int
      BY <2>0, <3>2
    <3>6. 1 < Len(ps[k]) \/ 1 = Len(ps[k])
      <4>1. \A l \in Nat \ {0} : 1 < l \/ 1 = l
        OBVIOUS
      <4> QED BY <3>1, <4>1
    <3> QED BY <3>3, <3>4, <3>5, <3>6
  <2>2. ps[1] # <<>>
    BY <1>0, <1>3, <1>7, <1>9, <1>13
  <2>3. CASE m <= ps[1][Len(ps[1])]
    <3>1. m \in Li!ToSet(ps[1])
      BY <1>2, <1>3, <1>13, <2>2, <2>3 DEF Li!HoldsTheStart
    <3> QED BY <1>3, <1>6, <3>1
  <2>4. CASE ~(m <= ps[1][Len(ps[1])])
    <3> DEFINE J == {k \in 1..n : ps[k] # <<>> /\ ps[k][1] <= m}
    <3>1. 1 \in J
      BY <1>3, <2>0, <2>1, <2>2, <2>4
    <3>2. J \in SUBSET (1..n) /\ IsFiniteSet(1..n)
      BY <1>3, FS_Interval
    <3>3. J \subseteq Int /\ IsFiniteSet(J) /\ J # {}
      <4>1. \A k \in 1..n : k \in Int
        BY <1>3
      <4> HIDE DEF J
      <4>2. J \subseteq Int
        BY <3>2, <4>1
      <4> QED BY <3>1, <3>2, <4>2, FS_Subset
    <3>4. PICK k \in J : \A j \in J : j <= k
      <4> HIDE DEF J
      <4> QED BY <3>3, HasLast
    <3>5. k \in 1..n /\ ps[k] # <<>> /\ m >= ps[k][1]
      BY <2>0, <2>1
    <3>6. Len(ps[k]) < PageRows \/ m <= ps[k][Len(ps[k])]
      <4>1. CASE k = n
        BY <1>4, <4>1
      <4>2. CASE k # n
        <5>1. k \in 1..(n - 1)
          BY <1>3, <3>5, <4>2
        <5>2. k + 1 \in 1..n /\ ps[k + 1] # <<>> /\ ps[k + 1][1] <= ps[k][Len(ps[k])]
          BY <1>8, <5>1
        <5>3. k + 1 \notin J
          BY <3>4, <3>5
        <5>4. ~(ps[k + 1][1] <= m)
          BY <5>2, <5>3
        <5> QED BY <2>0, <2>1, <3>5, <5>2, <5>4
      <4> QED BY <4>1, <4>2
    <3>7. m \in Li!ToSet(ps[k])
      BY <1>6, <1>13, <3>5, <3>6 DEF Li!HoldsItsStretch
    <3> QED BY <1>6, <3>5, <3>7
  <2> QED BY <2>3, <2>4
<1> QED BY <1>3, <1>11, <1>12, <1>13

LEMMA StitchKeepsListing == ASSUME Li!ListingAssumption, Li!LisInv, Li!Stitch PROVE Li!LisInv'
<1>1. PICK i \in 1..Threads :
        /\ mode = "reading" /\ Li!Short(i) /\ \A j \in 1..(i - 1) : batch[j] # None /\ ~Li!Short(j)
        /\ \E ps \in {Li!Upto(i)} :
              \/ Li!Fails
              \/ Li!Attempt(attempt + 1) /\ UNCHANGED <<mode, listing, rates>>
              \/ /\ \A page \in Li!ToSet(ps) : Li!IsSortedPage(page)
                 /\ Li!Overlap(ps)
                 /\ \E found \in {UNION {Li!ToSet(page) : page \in Li!ToSet(ps)}} :
                      listing' = found /\ rates' = Li!RatesOf(found)
                 /\ mode' = "waiting" /\ UNCHANGED <<always, ever>>
        /\ UNCHANGED <<listed, sorted>>
  BY Zenon DEF Li!Stitch
<1>2. /\ listed \subseteq 1..LastId /\ sorted \in BOOLEAN /\ listing = None /\ always \subseteq listed /\ listed \subseteq ever
      /\ ever \subseteq 1..LastId /\ Li!PagesHold /\ Li!ListingIsWhole
  BY <1>1 DEF Li!LisInv
<1>3. CASE Li!Fails
  BY <1>1, <1>2, <1>3 DEF Li!Fails, Li!LisInv, Li!ListingIsWhole
<1>4. CASE Li!Attempt(attempt + 1) /\ UNCHANGED <<mode, listing, rates>>
  <2>1. Li!PagesHold'
    BY <1>4, NoneAreRead DEF Li!Attempt
  <2> QED BY <1>1, <1>2, <1>4, <2>1 DEF Li!Attempt, Li!LisInv, Li!ListingIsWhole
<1>5. CASE /\ \A page \in Li!ToSet(Li!Upto(i)) : Li!IsSortedPage(page)
           /\ Li!Overlap(Li!Upto(i))
           /\ \E found \in {UNION {Li!ToSet(page) : page \in Li!ToSet(Li!Upto(i))}} :
                listing' = found /\ rates' = Li!RatesOf(found)
           /\ mode' = "waiting" /\ UNCHANGED <<always, ever>>
  <2> DEFINE found == UNION {Li!ToSet(page) : page \in Li!ToSet(Li!Upto(i))}
  <2>1. always \subseteq found /\ found \subseteq ever
    BY <1>1, <1>2, <1>5, StitchedIsWhole
  <2>2. listing' = found /\ rates' = Li!RatesOf(found)
    BY <1>5
  <2> HIDE DEF found
  <2>3. Li!ListingIsWhole'
    <3>1. always' \subseteq listing' /\ listing' \subseteq ever'
      BY <1>5, <2>1, <2>2
    <3>2. rates' # None => rates' # {} /\ rates' \subseteq Native
      BY <1>2, <2>2 DEF Li!RatesOf, Li!ListingIsWhole
    <3> QED BY <3>1, <3>2 DEF Li!ListingIsWhole
  <2> QED BY <1>1, <1>2, <1>5, <2>3 DEF Li!LisInv
<1> QED BY <1>1, <1>3, <1>4, <1>5

LEMMA LisIsKept == ASSUME Li!ListingAssumption, Li!LisInv, [Li!Next]_(Li!vars) PROVE Li!LisInv'
<1>1. CASE UNCHANGED Li!vars
  BY <1>1 DEF Li!vars, Li!reader, Li!LisInv, Li!ListingIsWhole, Li!PagesHold, Li!HoldsItsStretch, Li!HoldsTheStart
<1>2. CASE Li!RequestFails
  BY <1>2 DEF Li!RequestFails, Li!Fails, Li!LisInv, Li!ListingIsWhole
<1>3. CASE Li!Stop
  BY <1>3 DEF Li!Stop, Li!LisInv, Li!ListingIsWhole
<1> QED BY <1>1, <1>2, <1>3, MovesKeepListing, BeginKeepsListing, PageKeepsListing, BatchKeepsListing,
           StitchKeepsListing DEF Li!Next

\* However markets come and go between the pages of a read, and in whatever order they come: what is
\* stitched of pages that overlap has every market listed throughout the attempt, and none that never was.
THEOREM NothingIsMissed == ASSUME Li!ListingAssumption PROVE Li!Spec => []Li!ListingIsWhole
<1>1. Li!Init => Li!LisInv
  BY LisStarts
<1>2. Li!LisInv /\ [Li!Next]_(Li!vars) => Li!LisInv'
  BY LisIsKept
<1>3. Li!LisInv => Li!ListingIsWhole
  BY DEF Li!LisInv
<1> QED BY <1>1, <1>2, <1>3, PTL DEF Li!Spec

(***************************************************************************)
(* What the farmer remembers of its fills                                  *)
(***************************************************************************)

LEMMA SmallestIs ==
  ASSUME NEW J, NEW k \in J, \A j \in J : j \in Int /\ k <= j
  PROVE  Ou!Min(J) = k
<1>1. \A m \in J : (\A j \in J : m <= j) => m = k
  OBVIOUS
<1> QED BY <1>1 DEF Ou!Min

LEMMA LargestIs ==
  ASSUME NEW J, J \subseteq Int, IsFiniteSet(J), J # {}
  PROVE  Ou!Max(J) \in J /\ \A j \in J : j <= Ou!Max(J)
<1>1. PICK k \in J : \A j \in J : j <= k
  BY HasLast
<1>2. \A j \in J : k >= j
  BY <1>1
<1>3. Ou!Max(J) \in J /\ \A j \in J : Ou!Max(J) >= j
  BY <1>2 DEF Ou!Max
<1> HIDE DEF Ou!Max
<1>4. \A j \in J : j \in Int
  OBVIOUS
<1> QED BY <1>3, <1>4

\* The higher of two midpoints is there if one of them is, and no less.
LEMMA HighestIs ==
  ASSUME Ou!OutboxAssumption, NEW x \in Mids \cup {None}, NEW y \in Mids \cup {None}
  PROVE  LET h == Ou!Highest({x, y})
         IN /\ h \in {x, y} /\ (x # None => Ou!AtLeast(h, x)) /\ (y # None => Ou!AtLeast(h, y))
<1> DEFINE T == {x, y} \ {None}
           h == Ou!Highest({x, y})
<1>0. None \notin Mids /\ \A m \in Mids : m \in Int
  BY DEF Ou!OutboxAssumption
<1>1. CASE T = {}
  BY <1>1 DEF Ou!Highest
<1>2. CASE T # {}
  <2>1. T \subseteq Int
    BY <1>0
  <2>2. IsFiniteSet(T)
    <3>1. IsFiniteSet({x, y})
      <4>1. {x, y} = {x} \cup {y} /\ IsFiniteSet({x})
        BY FS_Singleton
      <4> QED BY <4>1, FS_AddElement
    <3>2. T \in SUBSET {x, y}
      OBVIOUS
    <3> HIDE DEF T
    <3> QED BY <3>1, <3>2, FS_Subset
  <2>3. h = Ou!Max(T)
    BY <1>2 DEF Ou!Highest
  <2>4. h \in T /\ \A j \in T : j <= h
    <3> HIDE DEF T
    <3> QED BY <1>2, <2>1, <2>2, <2>3, LargestIs
  <2> HIDE DEF h
  <2>5. h \in {x, y} /\ h # None /\ h \in Int
    BY <2>1, <2>4
  <2>6. (x # None => x \in Int /\ x <= h) /\ (y # None => y \in Int /\ y <= h)
    BY <1>0, <2>4
  <2> QED BY <2>5, <2>6 DEF Ou!AtLeast, h
<1> QED BY <1>1, <1>2

LEMMA GreatestIs ==
  ASSUME NEW J, NEW k \in J, \A j \in J : j \in Int /\ j <= k
  PROVE  Ou!Max(J) = k
<1>1. \A m \in J : (\A j \in J : m >= j) => m = k
  OBVIOUS
<1> QED BY <1>1 DEF Ou!Max

LEMMA BeforeIs ==
  ASSUME NEW sampleRows \in Seq(Ou!MidSamples), NEW at
  PROVE  /\ Ou!Before(at, sampleRows) \subseteq 1..Len(sampleRows) /\ Ou!Before(at, sampleRows) \subseteq Int
         /\ IsFiniteSet(Ou!Before(at, sampleRows))
         /\ Ou!Before(at, sampleRows) # {} =>
              /\ Ou!Max(Ou!Before(at, sampleRows)) \in Ou!Before(at, sampleRows)
              /\ \A j \in Ou!Before(at, sampleRows) : j <= Ou!Max(Ou!Before(at, sampleRows))
<1>1. Ou!Before(at, sampleRows) \in SUBSET (1..Len(sampleRows)) /\ Len(sampleRows) \in Nat
  BY LenProperties DEF Ou!Before
<1>2. IsFiniteSet(1..Len(sampleRows)) /\ \A i \in 1..Len(sampleRows) : i \in Int
  BY <1>1, FS_Interval
<1>3. Ou!Before(at, sampleRows) \subseteq Int /\ IsFiniteSet(Ou!Before(at, sampleRows))
  BY <1>1, <1>2, FS_Subset
<1> QED BY <1>1, <1>3, LargestIs

LEMMA FillMidSeenIs ==
  ASSUME NEW sampleRows \in Seq(Ou!MidSamples), NEW at
  PROVE  Ou!FillMidSeen(at, sampleRows) \in Mids \cup {None}
<1>1. CASE Ou!Before(at, sampleRows) = {}
  BY <1>1 DEF Ou!FillMidSeen
<1>2. CASE Ou!Before(at, sampleRows) # {}
  <2>1. Ou!Max(Ou!Before(at, sampleRows)) \in 1..Len(sampleRows)
    BY <1>2, BeforeIs
  <2>2. sampleRows[Ou!Max(Ou!Before(at, sampleRows))] \in Ou!MidSamples
    BY <2>1, ElementOfSeq
  <2> QED BY <1>2, <2>2 DEF Ou!FillMidSeen, Ou!MidSamples
<1> QED BY <1>1, <1>2

\* Samples of the fill's time or later do not change what the samples before it say.
LEMMA LaterSamples ==
  ASSUME Ou!OutboxAssumption, NEW s \in Seq(Ou!MidSamples), NEW late \in Seq(Ou!MidSamples),
         NEW at \in Nat, \A i \in DOMAIN late : late[i].at >= at
  PROVE  Ou!FillMidSeen(at, s \o late) = Ou!FillMidSeen(at, s)
<1> DEFINE L == Len(s)
           M == Len(late)
           both == s \o late
<1>0. PositionsS \in Nat \ {0}
  BY DEF Ou!OutboxAssumption
<1>1. L \in Nat /\ M \in Nat /\ DOMAIN s = 1..L /\ DOMAIN late = 1..M
  BY LenProperties
<1>2. /\ both \in Seq(Ou!MidSamples) /\ Len(both) = L + M
      /\ \A i \in 1..(L + M) : both[i] = IF i <= L THEN s[i] ELSE late[i - L]
  BY ConcatProperties
<1>3. DOMAIN both = 1..(L + M)
  BY <1>2, LenProperties
<1> HIDE DEF both
<1>4. Ou!Before(at, both) = Ou!Before(at, s)
  <2>1. ASSUME NEW i \in Ou!Before(at, both) PROVE i \in Ou!Before(at, s)
    <3>0. i \in 1..(L + M) /\ both[i].mid # None /\ both[i].at \in (at - Lookback)..(at - PositionsS)
      BY <1>3 DEF Ou!Before
    <3>1. CASE i <= L
      BY <1>1, <1>2, <3>0, <3>1 DEF Ou!Before
    <3>2. CASE ~(i <= L)
      <4>1. i - L \in 1..M /\ both[i] = late[i - L]
        BY <1>1, <1>2, <3>0, <3>2
      <4>2. late[i - L].at >= at /\ late[i - L].at \in Nat
        <5>1. late[i - L] \in Ou!MidSamples
          BY <4>1, ElementOfSeq
        <5> QED BY <1>1, <4>1, <5>1 DEF Ou!MidSamples
      <4> QED BY <1>0, <3>0, <4>1, <4>2
    <3> QED BY <3>1, <3>2
  <2>2. ASSUME NEW i \in Ou!Before(at, s) PROVE i \in Ou!Before(at, both)
    <3>0. i \in 1..L /\ s[i].mid # None /\ s[i].at \in (at - Lookback)..(at - PositionsS)
      BY <1>1 DEF Ou!Before
    <3>1. i \in 1..(L + M) /\ i <= L
      BY <1>1, <3>0
    <3> QED BY <1>2, <1>3, <3>0, <3>1 DEF Ou!Before
  <2> QED BY <2>1, <2>2
<1>5. Ou!Before(at, s) # {} => both[Ou!Max(Ou!Before(at, s))] = s[Ou!Max(Ou!Before(at, s))]
  <2> SUFFICES ASSUME Ou!Before(at, s) # {} PROVE both[Ou!Max(Ou!Before(at, s))] = s[Ou!Max(Ou!Before(at, s))]
    OBVIOUS
  <2>1. \A k \in 1..L : k \in 1..(L + M) /\ k <= L
    BY <1>1
  <2> QED BY <1>2, <2>1, BeforeIs
<1> QED BY <1>4, <1>5 DEF Ou!FillMidSeen, both

\* A start deletes the first n rows, each of them older than t, and leaves the others as they are.
Deletes(fillRows, t, n) ==
  /\ \A i \in 1..n : fillRows[i].at < t
  /\ Len(Ou!Since(fillRows, t)) = Len(fillRows) - n /\ DOMAIN Ou!Since(fillRows, t) = 1..(Len(fillRows) - n)
  /\ \A i \in 1..(Len(fillRows) - n) : n + i \in 1..Len(fillRows) /\ Ou!Since(fillRows, t)[i] = fillRows[n + i]

LEMMA SinceIs ==
  ASSUME NEW S, NEW fillRows \in Seq(S), NEW t
  PROVE  Ou!Since(fillRows, t) \in Seq(S) /\ \E n \in 0..Len(fillRows) : Deletes(fillRows, t, n)
<1> DEFINE L == Len(fillRows)
           J == {n \in 0..L : \A i \in 1..n : fillRows[i].at < t}
           n == Ou!Max(J)
           left == Ou!Since(fillRows, t)
<1>1. L \in Nat /\ DOMAIN fillRows = 1..L
  BY LenProperties
<1>2. n \in J
  <2>1. 0 \in J
    BY <1>1
  <2>2. J \in SUBSET (0..L) /\ IsFiniteSet(0..L) /\ \A j \in 0..L : j \in Int
    BY <1>1, FS_Interval
  <2> HIDE DEF J
  <2>3. J \subseteq Int /\ IsFiniteSet(J) /\ J # {}
    BY <2>1, <2>2, FS_Subset
  <2> QED BY <2>3, LargestIs
<1>3. left = SubSeq(fillRows, 1 + n, L)
  BY DEF Ou!Since
<1> HIDE DEF n, left
<1>4. n \in 0..L /\ \A i \in 1..n : fillRows[i].at < t
  BY <1>2
<1>5. 1 + n \in 1..(L + 1) /\ L \in (1 + n - 1)..L /\ L - n \in Nat /\ \A i \in 1..(L - n) : n + i \in 1..L
  BY <1>1, <1>4
<1>6. /\ left \in Seq(S) /\ Len(left) = IF 1 + n <= L THEN L - (1 + n) + 1 ELSE 0
      /\ \A i \in 1..(L - (1 + n) + 1) : left[i] = fillRows[(1 + n) + i - 1]
  BY <1>3, <1>5, SubSeqProperties
<1>7. L - (1 + n) + 1 = L - n /\ (~(1 + n <= L) => L - n = 0) /\ \A i \in 1..(L - n) : (1 + n) + i - 1 = n + i
  <2> HIDE DEF L
  <2> QED BY <1>1, <1>4
<1>8. Len(left) = L - n
  BY <1>6, <1>7
<1>9. DOMAIN left = 1..(L - n) /\ \A i \in 1..(L - n) : left[i] = fillRows[n + i]
  BY <1>6, <1>7, <1>8, LenProperties
<1>10. Deletes(fillRows, t, n)
  BY <1>4, <1>5, <1>8, <1>9 DEF Deletes, left
<1> QED BY <1>4, <1>6, <1>10 DEF left

\* Deleting samples older than those a fill looks back on does not change what these say.
LEMMA KeptSamples ==
  ASSUME Ou!OutboxAssumption, NEW s \in Seq(Ou!MidSamples), NEW at \in Nat, NEW t \in Int, at - Lookback >= t
  PROVE  Ou!FillMidSeen(at, Ou!Since(s, t)) = Ou!FillMidSeen(at, s)
<1> DEFINE L == Len(s)
           left == Ou!Since(s, t)
           B == Ou!Before(at, s)
           K == Ou!Before(at, left)
<1>1. PICK n \in 0..L : Deletes(s, t, n)
  BY SinceIs
<1>0. /\ \A i \in 1..n : s[i].at < t
      /\ DOMAIN left = 1..(L - n)
      /\ \A i \in 1..(L - n) : n + i \in 1..L /\ left[i] = s[n + i]
  BY <1>1 DEF Deletes
<1>2. L \in Nat /\ DOMAIN s = 1..L /\ Lookback \in Nat
  BY LenProperties DEF Ou!OutboxAssumption
<1> HIDE DEF left
<1>3. ASSUME NEW i \in B PROVE i > n /\ i \in 1..L /\ i - n \in K
  <2>1. i \in 1..L /\ s[i].mid # None /\ s[i].at \in (at - Lookback)..(at - PositionsS) /\ s[i].at \in Nat
    <3>1. i \in 1..L /\ s[i].mid # None /\ s[i].at \in (at - Lookback)..(at - PositionsS)
      BY <1>2 DEF Ou!Before
    <3>2. s[i] \in Ou!MidSamples
      BY <3>1, ElementOfSeq
    <3> QED BY <3>1, <3>2 DEF Ou!MidSamples
  <2>2. s[i].at >= at - Lookback
    BY <2>1
  <2>3. ~(s[i].at < t)
    BY <1>2, <2>1, <2>2
  <2>4. ~(i \in 1..n)
    BY <1>0, <2>3
  <2>5. i > n /\ i - n \in 1..(L - n) /\ n + (i - n) = i
    BY <1>0, <1>2, <2>1, <2>4
  <2> QED BY <1>0, <2>1, <2>5 DEF Ou!Before
<1>4. ASSUME NEW i \in K PROVE n + i \in B /\ i \in 1..(L - n)
  <2>1. i \in 1..(L - n) /\ left[i].mid # None /\ left[i].at \in (at - Lookback)..(at - PositionsS)
    BY <1>0 DEF Ou!Before
  <2> QED BY <1>0, <1>2, <2>1 DEF Ou!Before
<1>5. CASE B = {}
  BY <1>4, <1>5 DEF Ou!FillMidSeen, left
<1>6. CASE B # {}
  <2> DEFINE k == Ou!Max(B)
  <2>1. k \in B /\ \A j \in B : j <= k
    BY <1>6, BeforeIs
  <2> HIDE DEF B, K, k
  <2>2. k - n \in K /\ k \in 1..L /\ n + (k - n) = k /\ k - n \in 1..(L - n)
    BY <1>0, <1>2, <1>3, <2>1
  <2>3. \A j \in K : j \in Int /\ j <= k - n
    BY <1>0, <1>2, <1>4, <2>1, <2>2
  <2>4. Ou!Max(K) = k - n
    BY <2>2, <2>3, GreatestIs
  <2>5. left[k - n] = s[k]
    BY <1>0, <2>2
  <2> QED BY <1>6, <2>2, <2>4, <2>5 DEF Ou!FillMidSeen, B, K, k, left
<1> QED BY <1>5, <1>6

LEMMA OutQueuedIs ==
  ASSUME Ou!Shapes
  PROVE  /\ Ou!Queued \in Seq(Ou!Events) /\ Len(Ou!Queued) = Len(eventLog) + Len(events)
         /\ Len(eventLog) \in Nat /\ Len(events) \in Nat /\ DOMAIN eventLog = 1..Len(eventLog) /\ DOMAIN events = 1..Len(events)
         /\ DOMAIN Ou!Queued = 1..(Len(eventLog) + Len(events)) /\ \A i \in DOMAIN Ou!Queued : Ou!Queued[i] \in Ou!Events
         /\ \A i \in 1..Len(eventLog) : Ou!Queued[i] = eventLog[i] /\ i \in DOMAIN Ou!Queued
         /\ \A i \in 1..Len(events) : Ou!Queued[Len(eventLog) + i] = events[i]
         /\ events = <<>> => Ou!Queued = eventLog
<1>1. eventLog \in Seq(Ou!Events) /\ events \in Seq(Ou!Events)
  BY DEF Ou!Shapes
<1>2. Len(eventLog) \in Nat /\ Len(events) \in Nat /\ DOMAIN eventLog = 1..Len(eventLog) /\ DOMAIN events = 1..Len(events)
  BY <1>1, LenProperties
<1>3. /\ Ou!Queued \in Seq(Ou!Events) /\ Len(Ou!Queued) = Len(eventLog) + Len(events)
      /\ \A i \in 1..(Len(eventLog) + Len(events)) :
           Ou!Queued[i] = IF i <= Len(eventLog) THEN eventLog[i] ELSE events[i - Len(eventLog)]
  BY <1>1, ConcatProperties DEF Ou!Queued
<1>4. DOMAIN Ou!Queued = 1..(Len(eventLog) + Len(events))
  BY <1>3, LenProperties
<1>5. events = <<>> => Ou!Queued = eventLog
  BY <1>1, ConcatEmptySeq DEF Ou!Queued
<1> HIDE DEF Ou!Queued
<1>6. \A i \in 1..Len(eventLog) : Ou!Queued[i] = eventLog[i] /\ i \in DOMAIN Ou!Queued
  BY <1>2, <1>3, <1>4
<1>7. ASSUME NEW i \in 1..Len(events) PROVE Ou!Queued[Len(eventLog) + i] = events[i]
  <2>1. Len(eventLog) + i \in 1..(Len(eventLog) + Len(events)) /\ ~(Len(eventLog) + i <= Len(eventLog)) /\ Len(eventLog) + i - Len(eventLog) = i
    BY <1>2
  <2> QED BY <1>3, <2>1
<1>8. \A i \in DOMAIN Ou!Queued : Ou!Queued[i] \in Ou!Events
  BY <1>3, <1>4, ElementOfSeq
<1> QED BY <1>2, <1>3, <1>4, <1>5, <1>6, <1>7, <1>8

\* The last favorite fill is what a start finds of the rows, if it is one of the Limit newest.
LEMMA LastBoughtIs ==
  ASSUME Ou!OutboxAssumption, NEW fillRows \in Seq(Ou!Events)
  PROVE  /\ \A k : Ou!IsLastBought(fillRows, k) /\ Len(fillRows) - k < Limit => Ou!LastBought(Ou!ReadFills(fillRows)) = fillRows[k]
         /\ Ou!LastBought(Ou!ReadFills(fillRows)) # None =>
              \E k \in DOMAIN fillRows : Ou!IsLastBought(fillRows, k) /\ Ou!LastBought(Ou!ReadFills(fillRows)) = fillRows[k]
<1> DEFINE L == Len(fillRows)
           M == Ou!Min({Limit, L})
           back == Ou!ReadFills(fillRows)
           favs == {i \in DOMAIN back : back[i].slot = "FAV_BID"}
<1>1. L \in Nat /\ DOMAIN fillRows = 1..L /\ Limit \in Nat
  BY LenProperties DEF Ou!OutboxAssumption
<1>2. M \in Nat /\ M <= L /\ M <= Limit /\ (M = L \/ M = Limit)
  <2> HIDE DEF L
  <2> DEFINE J == {Limit, L}
  <2>1. CASE L <= Limit
    <3>1. L \in J /\ \A j \in J : j \in Int /\ L <= j
      BY <1>1, <2>1
    <3> HIDE DEF J
    <3>2. Ou!Min(J) = L
      BY <3>1, SmallestIs
    <3> QED BY <1>1, <2>1, <3>2 DEF J
  <2>2. CASE Limit <= L
    <3>1. Limit \in J /\ \A j \in J : j \in Int /\ Limit <= j
      BY <1>1, <2>2
    <3> HIDE DEF J
    <3>2. Ou!Min(J) = Limit
      BY <3>1, SmallestIs
    <3> QED BY <1>1, <2>2, <3>2 DEF J
  <2> QED BY <1>1, <2>1, <2>2
<1> HIDE DEF M
<1>3. /\ DOMAIN back = 1..M /\ \A i \in 1..M : L - i + 1 \in 1..L
      /\ \A i \in 1..M : back[i] = fillRows[L - i + 1]
  <2> DEFINE rev == [i \in 1..L |-> fillRows[L - i + 1]]
  <2>1. Ou!Reverse(fillRows) = rev
    BY DEF Ou!Reverse
  <2>2. back = SubSeq(rev, 1, M)
    BY <2>1 DEF Ou!ReadFills, M
  <2>3. \A i \in 1..L : L - i + 1 \in 1..L
    BY <1>1
  <2>4. rev \in [1..L -> Ou!Events]
    BY <2>3, ElementOfSeq
  <2>5. \A i \in 1..L : rev[i] = fillRows[L - i + 1]
    OBVIOUS
  <2> HIDE DEF rev, L
  <2>6. rev \in Seq(Ou!Events) /\ Len(rev) = L
    BY <1>1, <2>4, SeqDef
  <2>7. 1 \in 1..(Len(rev) + 1) /\ M \in (1 - 1)..Len(rev)
    BY <1>1, <1>2, <2>6
  <2>8. /\ back \in Seq(Ou!Events) /\ Len(back) = IF 1 <= M THEN M - 1 + 1 ELSE 0
        /\ \A i \in 1..(M - 1 + 1) : back[i] = rev[1 + i - 1]
    BY <2>2, <2>6, <2>7, SubSeqProperties
  <2>9. M - 1 + 1 = M /\ (~(1 <= M) => M = 0) /\ \A i \in 1..M : 1 + i - 1 = i /\ i \in 1..L
    BY <1>1, <1>2
  <2>10. DOMAIN back = 1..M
    BY <2>8, <2>9, LenProperties
  <2> QED BY <2>3, <2>5, <2>8, <2>9, <2>10
<1>4. DOMAIN back = 1..M /\ \A i \in 1..M : back[i] = fillRows[L - i + 1] /\ L - i + 1 \in 1..L
  BY <1>3
<1> HIDE DEF back
\* What is found in the place of a favorite fill among those read back.
<1>5. ASSUME NEW k, Ou!IsLastBought(fillRows, k), L - k < M PROVE Ou!LastBought(back) = fillRows[k]
  <2>1. k \in 1..L /\ fillRows[k].slot = "FAV_BID" /\ \A j \in 1..L : j > k => fillRows[j].slot # "FAV_BID"
    BY <1>1, <1>5 DEF Ou!IsLastBought
  <2>2. L - k + 1 \in 1..M /\ L - (L - k + 1) + 1 = k
    <3> HIDE DEF L
    <3>1. L \in Nat /\ M \in Nat /\ k \in 1..L /\ L - k < M
      BY <1>1, <1>2, <1>5, <2>1
    <3> QED BY <3>1
  <2>3. back[L - k + 1] = fillRows[k]
    BY <1>4, <2>2
  <2>4. ASSUME NEW j \in favs PROVE j \in Int /\ L - k + 1 <= j
    <3>1. j \in 1..M /\ L - j + 1 \in 1..L /\ fillRows[L - j + 1].slot = "FAV_BID"
      BY <1>4
    <3>2. ~(L - j + 1 > k)
      BY <2>1, <3>1
    <3> HIDE DEF L, favs
    <3>3. L \in Nat /\ M \in Nat /\ k \in 1..L /\ j \in 1..M
      BY <1>1, <1>2, <2>1, <3>1
    <3> QED BY <3>2, <3>3
  <2>5. L - k + 1 \in favs
    BY <1>4, <2>1, <2>2, <2>3
  <2>6. Ou!Min(favs) = L - k + 1
    <3> HIDE DEF favs
    <3> QED BY <2>4, <2>5, SmallestIs
  <2>7. Ou!LastBought(back) = back[Ou!Min(favs)]
    BY <2>5 DEF Ou!LastBought
  <2> QED BY <2>3, <2>6, <2>7
<1>6. ASSUME NEW k, Ou!IsLastBought(fillRows, k), L - k < Limit PROVE Ou!LastBought(back) = fillRows[k]
  <2>1. k \in 1..L
    BY <1>1, <1>6 DEF Ou!IsLastBought
  <2>2. L - k < M
    <3> HIDE DEF L
    <3>1. L \in Nat /\ k \in 1..L /\ (M = L \/ M = Limit) /\ L - k < Limit
      BY <1>1, <1>2, <1>6, <2>1
    <3> QED BY <3>1
  <2> QED BY <1>5, <1>6, <2>2
<1>7. ASSUME Ou!LastBought(back) # None
      PROVE  \E k \in DOMAIN fillRows : Ou!IsLastBought(fillRows, k) /\ Ou!LastBought(back) = fillRows[k]
  <2>1. PICK i \in favs : TRUE
    BY <1>7 DEF Ou!LastBought
  <2> DEFINE J == {j \in 1..L : fillRows[j].slot = "FAV_BID"}
  <2>2. i \in 1..M /\ L - i + 1 \in J
    BY <1>4, <2>1
  <2>3. J \in SUBSET (1..L) /\ IsFiniteSet(1..L) /\ \A j \in 1..L : j \in Int
    BY <1>1, FS_Interval
  <2>4. PICK k \in J : \A j \in J : j <= k
    <3> HIDE DEF J
    <3>1. J \subseteq Int /\ IsFiniteSet(J) /\ J # {}
      BY <2>2, <2>3, FS_Subset
    <3> QED BY <3>1, HasLast
  <2>5. \A j \in 1..L : j > k => fillRows[j].slot # "FAV_BID"
    BY <2>3, <2>4
  <2>6. Ou!IsLastBought(fillRows, k) /\ k \in 1..L
    BY <1>1, <2>4, <2>5 DEF Ou!IsLastBought
  <2>7. L - k < M
    <3>1. L - i + 1 <= k
      BY <2>2, <2>4
    <3>2. L \in Nat /\ M \in Nat /\ i \in 1..M /\ k \in 1..L
      BY <1>1, <1>2, <2>2, <2>6
    <3> HIDE DEF L
    <3> QED BY <3>1, <3>2
  <2> QED BY <1>1, <1>5, <2>6, <2>7
<1> QED BY <1>6, <1>7 DEF back

\* What a read of the positions makes of two reads: at most one fill a token, the favorite's first.
LEMMA SlotsAre ==
  ASSUME position \in Ou!Shares, shares \in Ou!Shares
  PROVE  LET slots == Ou!FillEvents(position, shares)
         IN /\ slots \in Seq({"FAV_BID", "FAV_ASK", "LONG_BID", "LONG_ASK"}) /\ Len(slots) \in 0..2 /\ DOMAIN slots = 1..Len(slots)
            /\ position = shares => Len(slots) = 0
            /\ \A i \in 1..Len(slots) : i # 1 => slots[i] # "FAV_BID"
            /\ Ou!Contains(slots, "FAV_BID") <=> Len(slots) # 0 /\ slots[1] = "FAV_BID"
<1> DEFINE slots == Ou!FillEvents(position, shares)
           S == {"FAV_BID", "FAV_ASK", "LONG_BID", "LONG_ASK"}
           f == IF shares.fav > position.fav THEN "FAV_BID" ELSE "FAV_ASK"
           l == IF shares.long > position.long THEN "LONG_BID" ELSE "LONG_ASK"
<1>0. f \in {"FAV_BID", "FAV_ASK"} /\ l \in {"LONG_BID", "LONG_ASK"}
  OBVIOUS
<1>1. position = shares => shares.fav = position.fav /\ shares.long = position.long
  OBVIOUS
<1>2. slots = (IF shares.fav = position.fav THEN <<>> ELSE <<f>>) \o (IF shares.long = position.long THEN <<>> ELSE <<l>>)
  BY DEF Ou!FillEvents
<1> HIDE DEF f, l, slots
<1>3. \/ slots = <<>>
      \/ slots = <<f>> /\ position # shares
      \/ slots = <<l>> /\ position # shares
      \/ slots \in Seq(S) /\ Len(slots) = 2 /\ slots[1] = f /\ slots[2] = l /\ position # shares
  <2>1. /\ <<>> \o <<>> = <<>> /\ <<>> \o <<l>> = <<l>> /\ <<f>> \o <<>> = <<f>>
        /\ <<f>> \o <<l>> \in Seq(S) /\ Len(<<f>> \o <<l>>) = 2 /\ (<<f>> \o <<l>>)[1] = f /\ (<<f>> \o <<l>>)[2] = l
    <3>1. <<>> \in Seq(S) /\ <<f>> \in Seq(S) /\ <<l>> \in Seq(S)
      BY <1>0
    <3>2. /\ <<f>> \o <<l>> \in Seq(S) /\ Len(<<f>> \o <<l>>) = 1 + 1
          /\ \A i \in 1..(1 + 1) : (<<f>> \o <<l>>)[i] = IF i <= 1 THEN <<f>>[i] ELSE <<l>>[i - 1]
      <4>1. Len(<<f>>) = 1 /\ Len(<<l>>) = 1
        OBVIOUS
      <4> QED BY <3>1, <4>1, ConcatProperties
    <3> QED BY <3>1, <3>2, ConcatEmptySeq
  <2>2. CASE shares.fav = position.fav /\ shares.long = position.long
    BY <1>2, <2>1, <2>2
  <2>3. CASE shares.fav = position.fav /\ shares.long # position.long
    BY <1>1, <1>2, <2>1, <2>3
  <2>4. CASE shares.fav # position.fav /\ shares.long = position.long
    BY <1>1, <1>2, <2>1, <2>4
  <2>5. CASE shares.fav # position.fav /\ shares.long # position.long
    BY <1>1, <1>2, <2>1, <2>5
  <2> QED BY <2>2, <2>3, <2>4, <2>5
<1>4. position = shares => slots = <<>>
  <2>1. <<>> \o <<>> = <<>>
    OBVIOUS
  <2> QED BY <1>1, <1>2, <2>1
<1>5. CASE slots = <<>>
  BY <1>4, <1>5 DEF Ou!Contains, slots
<1>6. CASE slots = <<f>> /\ position # shares
  BY <1>0, <1>6 DEF Ou!Contains, slots
<1>7. CASE slots = <<l>> /\ position # shares
  BY <1>0, <1>7 DEF Ou!Contains, slots
<1>8. CASE slots \in Seq(S) /\ Len(slots) = 2 /\ slots[1] = f /\ slots[2] = l /\ position # shares
  <2>1. DOMAIN slots = 1..2 /\ \A i \in 1..2 : i = 1 \/ i = 2
    BY <1>8, LenProperties
  <2> QED BY <1>0, <1>8, <2>1 DEF Ou!Contains, slots
<1> QED BY <1>3, <1>5, <1>6, <1>7, <1>8

LEMMA OutStarts == ASSUME Ou!OutboxAssumption, Ou!Init PROVE Ou!OutInv
<1>1. Ou!Queued = <<>>
  BY DEF Ou!Init, Ou!Queued
<1>2. Ou!Shapes
  BY DEF Ou!OutboxAssumption, Ou!Init, Ou!Shapes, Ou!Shares
<1>3. Ou!Counted
  <2>1. Ou!Rising(<<>>) /\ DOMAIN <<>> = {} /\ Len(<<>>) = 0
    BY DEF Ou!Rising
  <2> QED BY <1>1, <2>1 DEF Ou!Init, Ou!Counted
<1>4. Ou!Weighed
  BY DEF Ou!Init, Ou!Weighed
<1>5. Ou!OutboxIsKept
  BY DEF Ou!Init, Ou!OutboxIsKept, Ou!Rising
<1> QED BY <1>2, <1>3, <1>4, <1>5 DEF Ou!OutInv

\* The start of what rises does.
LEMMA RisingStart ==
  ASSUME Ou!Shapes, Ou!Rising(Ou!Queued)
  PROVE  Ou!Rising(eventLog)
<1>1. \A i \in DOMAIN eventLog : i \in DOMAIN Ou!Queued /\ Ou!Queued[i] = eventLog[i]
  BY OutQueuedIs
<1> QED BY <1>1 DEF Ou!Rising

LEMMA TickKeepsOutbox ==
  ASSUME Ou!OutboxAssumption, Ou!OutInv, NEW m \in Mids, NEW lot \in Lots, Ou!Tick(m, lot)
  PROVE  Ou!OutInv'
<1>1. /\ time' = time + 1 /\ bookMid' = m /\ stage' \in {stage, "positions"} /\ (stage = "down" => stage' = "down" /\ lot = <<0, 0>>)
      /\ (stage # "down" => stage' # "down")
      /\ UNCHANGED <<failures, position, readAt, fillMid, midAt, events, mids, emitted, firstEvent, eventLog, sampled>>
  BY DEF Ou!Tick, Ou!farmer, Ou!published
<1>2. Ou!Shapes /\ Ou!Counted /\ Ou!Weighed /\ Ou!OutboxIsKept
  BY DEF Ou!OutInv
<1>3. lot[1] \in Int /\ lot[2] \in Int
  BY DEF Ou!OutboxAssumption
<1>4. shares' \in Ou!Shares /\ fills' \in 0..MaxFills
  <2>1. shares \in Ou!Shares /\ fills \in 0..MaxFills /\ MaxFills \in Nat
    BY <1>2 DEF Ou!Shapes, Ou!OutboxAssumption
  <2>2. shares.fav \in Nat /\ shares.long \in Nat
    BY <2>1 DEF Ou!Shares
  <2>3. /\ shares.fav + lot[1] >= 0 /\ shares.long + lot[2] >= 0
        /\ shares' = [fav |-> shares.fav + lot[1], long |-> shares.long + lot[2]]
        /\ fills' = IF lot = <<0, 0>> THEN fills ELSE fills + 1
        /\ lot # <<0, 0>> => fills < MaxFills
    BY DEF Ou!Tick
  <2>4. shares' \in Ou!Shares
    BY <1>3, <2>2, <2>3 DEF Ou!Shares
  <2> QED BY <2>1, <2>3, <2>4
<1>5. Ou!Shapes'
  BY <1>1, <1>2, <1>4 DEF Ou!Shapes, Ou!Shares, Ou!Events, Ou!MidSamples
<1>6. Ou!Counted'
  <2>1. Ou!Queued' = Ou!Queued
    BY <1>1 DEF Ou!Queued
  <2>2. Ou!Rising(Ou!Queued)'
    BY <1>1, <1>2, <2>1 DEF Ou!Counted, Ou!Rising
  <2>3. \A i \in DOMAIN Ou!Queued' : Ou!Queued'[i].id <= emitted' /\ Ou!Queued'[i].at <= time'
    <3> SUFFICES ASSUME NEW i \in DOMAIN Ou!Queued PROVE Ou!Queued[i].id <= emitted /\ Ou!Queued[i].at <= time + 1
      BY <1>1, <2>1
    <3>1. Ou!Queued[i].id <= emitted /\ Ou!Queued[i].at <= time
      BY <1>2 DEF Ou!Counted
    <3>2. Ou!Queued[i].at \in Nat /\ time \in Nat
      <4>1. Ou!Queued[i] \in Ou!Events
        BY <1>2, OutQueuedIs
      <4> QED BY <1>2, <4>1 DEF Ou!Shapes, Ou!Events
    <3> QED BY <3>1, <3>2
  <2>4. /\ position' = None => fillMid' = None /\ events' = <<>> /\ mids' = <<>>
        /\ stage' = "down" => position' = None
        /\ stage' # "down" /\ position' = None => emitted' < firstEvent'
    BY <1>1, <1>2 DEF Ou!Counted
  <2> QED BY <2>2, <2>3, <2>4 DEF Ou!Counted
<1>7. Ou!Weighed'
  BY <1>1, <1>2 DEF Ou!Weighed, Ou!IsLastBought, Ou!AtLeast, Ou!Queued
<1>8. Ou!OutboxIsKept'
  BY <1>1, <1>2 DEF Ou!OutboxIsKept, Ou!Rising, Ou!Queued
<1> QED BY <1>5, <1>6, <1>7, <1>8 DEF Ou!OutInv

\* What is left of the fills after a start is in order, and of no later number or time.
LEMMA PruneKeepsOrder ==
  ASSUME NEW fillRows \in Seq(Ou!Events), Ou!Rising(fillRows), NEW t, NEW most \in Nat, NEW at \in Nat,
         \A i \in DOMAIN fillRows : fillRows[i].id <= most /\ fillRows[i].at <= at
  PROVE  /\ Ou!Since(fillRows, t) \in Seq(Ou!Events) /\ Ou!Rising(Ou!Since(fillRows, t))
         /\ \A i \in DOMAIN Ou!Since(fillRows, t) :
              Ou!Since(fillRows, t)[i].id \in Nat /\ Ou!Since(fillRows, t)[i].id <= most /\ Ou!Since(fillRows, t)[i].at <= at
<1> DEFINE left == Ou!Since(fillRows, t)
<1>1. left \in Seq(Ou!Events)
  BY SinceIs
<1>2. PICK n \in 0..Len(fillRows) : Deletes(fillRows, t, n)
  BY SinceIs
<1>3. /\ DOMAIN left = 1..(Len(fillRows) - n)
      /\ \A i \in 1..(Len(fillRows) - n) : n + i \in 1..Len(fillRows) /\ left[i] = fillRows[n + i]
  BY <1>2 DEF Deletes
<1>4. Len(fillRows) \in Nat /\ DOMAIN fillRows = 1..Len(fillRows)
  BY LenProperties
<1> HIDE DEF left
<1>5. \A i, j \in 1..(Len(fillRows) - n) : i < j => n + i < n + j
  BY <1>4
<1>6. Ou!Rising(left)
  BY <1>3, <1>4, <1>5 DEF Ou!Rising
<1>7. \A i \in DOMAIN left : left[i].id <= most /\ left[i].at <= at
  BY <1>3, <1>4
<1>8. \A i \in DOMAIN left : left[i].id \in Nat
  <2>1. \A i \in DOMAIN left : left[i] \in Ou!Events
    BY <1>1, ElementOfSeq, LenProperties
  <2> QED BY <2>1 DEF Ou!Events
<1> QED BY <1>1, <1>6, <1>7, <1>8 DEF left

LEMMA StartKeepsOutbox == ASSUME Ou!OutboxAssumption, Ou!OutInv, Ou!Start PROVE Ou!OutInv'
<1>1. /\ stage = "down" /\ stage' = "positions" /\ firstEvent' = emitted + 1
      /\ eventLog' = Ou!KeptEvents /\ sampled' = Ou!KeptMids
      /\ UNCHANGED <<time, bookMid, shares, fills, failures, position, fillMid, midAt, events, mids, emitted>>
  BY DEF Ou!Start
<1>2. Ou!Shapes /\ Ou!Counted /\ Ou!OutboxIsKept
  BY DEF Ou!OutInv
<1>3. position = None /\ fillMid = None /\ events = <<>> /\ mids = <<>>
  BY <1>1, <1>2 DEF Ou!Counted
<1>4. /\ eventLog \in Seq(Ou!Events) /\ sampled \in Seq(Ou!MidSamples) /\ emitted \in Nat /\ time \in Nat
      /\ Ou!Queued = eventLog
  BY <1>2, <1>3, OutQueuedIs DEF Ou!Shapes
<1>5. /\ eventLog' \in Seq(Ou!Events) /\ Ou!Rising(eventLog')
      /\ \A i \in DOMAIN eventLog' : eventLog'[i].id \in Nat /\ eventLog'[i].id <= emitted /\ eventLog'[i].at <= time
  <2>1. Ou!Rising(eventLog) /\ \A i \in DOMAIN eventLog : eventLog[i].id <= emitted /\ eventLog[i].at <= time
    BY <1>2, <1>4 DEF Ou!Counted
  <2> QED BY <1>1, <1>4, <2>1, PruneKeepsOrder DEF Ou!KeptEvents
<1>6. sampled' \in Seq(Ou!MidSamples)
  BY <1>1, <1>4, SinceIs DEF Ou!KeptMids
<1>7. Ou!Queued' = eventLog'
  BY <1>1, <1>3, <1>5, ConcatEmptySeq DEF Ou!Queued
<1>8. Ou!Shapes'
  BY <1>1, <1>2, <1>5, <1>6 DEF Ou!Shapes, Ou!Shares, Ou!Events, Ou!MidSamples
<1>9. Ou!Counted'
  <2>1. emitted' < firstEvent'
    BY <1>1, <1>4
  <2>2. Ou!Rising(Ou!Queued)' /\ \A i \in DOMAIN Ou!Queued' : Ou!Queued'[i].id <= emitted' /\ Ou!Queued'[i].at <= time'
    BY <1>1, <1>5, <1>7 DEF Ou!Rising
  <2> QED BY <1>1, <1>3, <2>1, <2>2 DEF Ou!Counted
<1>10. Ou!Weighed'
  BY <1>1, <1>3 DEF Ou!Weighed
<1>11. Ou!OutboxIsKept'
  <2>1. Ou!Rising(eventLog)' /\ Ou!Rising(Ou!Queued)'
    BY <1>5, <1>7 DEF Ou!Rising
  <2>2. {n \in {eventLog'[i].id : i \in DOMAIN eventLog'} : n >= emitted + 1} = (emitted + 1)..emitted
    <3>1. \A n \in {eventLog'[i].id : i \in DOMAIN eventLog'} : n \in Nat /\ n <= emitted
      BY <1>5
    <3>2. (emitted + 1)..emitted = {}
      BY <1>4
    <3> QED BY <1>4, <3>1, <3>2
  <2> QED BY <1>1, <1>7, <2>1, <2>2 DEF Ou!OutboxIsKept
<1> QED BY <1>8, <1>9, <1>10, <1>11 DEF Ou!OutInv

\* A read that sees no fill: the first one, one that fails, or one that is not due yet.
LEMMA QuietReadKeepsOutbox ==
  ASSUME Ou!OutboxAssumption, Ou!OutInv, stage = "positions", stage' = "plan",
         UNCHANGED <<time, bookMid, shares, fills, midAt, events, mids, emitted, firstEvent, eventLog, sampled>>,
         \/ position' = position /\ fillMid' = fillMid
         \/ position = None /\ position' = shares /\ Ou!FirstRead
  PROVE  Ou!OutInv'
<1>1. Ou!Shapes /\ Ou!Counted /\ Ou!Weighed /\ Ou!OutboxIsKept
  BY DEF Ou!OutInv
<1>2. Ou!Queued' = Ou!Queued
  BY DEF Ou!Queued
<1>3. shares \in Ou!Shares /\ shares # None /\ sampled \in Seq(Ou!MidSamples)
  BY <1>1 DEF Ou!Shapes, Ou!OutboxAssumption, Ou!Shares
<1>4. position = None => fillMid = None /\ events = <<>> /\ mids = <<>>
  BY <1>1 DEF Ou!Counted
<1> DEFINE back == Ou!LastFillMid(eventLog, sampled)
           Says(k, m) == Ou!AtLeast(Ou!Queued[k].fillMid, m) \/ Ou!AtLeast(Ou!FillMidSeen(Ou!Queued[k].at, sampled), m)
\* What the record gives is of the last favorite fill, one of an earlier run.
<1>5. position = None /\ back # None =>
        /\ back \in Mids
        /\ \E k \in DOMAIN Ou!Queued : Ou!IsLastBought(Ou!Queued, k) /\ Ou!Queued[k].id < firstEvent /\ Says(k, back)
  <2> SUFFICES ASSUME position = None, back # None
      PROVE  /\ back \in Mids
             /\ \E k \in DOMAIN Ou!Queued : Ou!IsLastBought(Ou!Queued, k) /\ Ou!Queued[k].id < firstEvent /\ Says(k, back)
    OBVIOUS
  <2>0. Ou!Queued = eventLog /\ eventLog \in Seq(Ou!Events) /\ emitted < firstEvent /\ emitted \in Nat /\ firstEvent \in Nat
    BY <1>1, <1>4, OutQueuedIs DEF Ou!Shapes, Ou!Counted
  <2>1. Ou!LastBought(Ou!ReadFills(eventLog)) # None
    BY DEF Ou!LastFillMid
  <2>2. PICK k \in DOMAIN eventLog : Ou!IsLastBought(eventLog, k) /\ Ou!LastBought(Ou!ReadFills(eventLog)) = eventLog[k]
    BY <2>0, <2>1, LastBoughtIs
  <2> DEFINE x == eventLog[k].fillMid
             y == Ou!FillMidSeen(eventLog[k].at, sampled)
  <2>3. eventLog[k] \in Ou!Events
    BY <2>0, <2>2, ElementOfSeq, LenProperties
  <2>4. x \in Mids \cup {None} /\ y \in Mids \cup {None}
    BY <1>3, <2>3, FillMidSeenIs DEF Ou!Events
  <2>5. back = Ou!Highest({x, y})
    BY <2>1, <2>2 DEF Ou!LastFillMid
  <2>6. back \in {x, y}
    <3> HIDE DEF x, y, back
    <3> QED BY <2>4, <2>5, HighestIs
  <2>7. back \in Mids /\ Ou!AtLeast(back, back)
    <3>1. back \in Mids /\ \A m \in Mids : m \in Int
      BY <2>4, <2>6 DEF Ou!OutboxAssumption
    <3> QED BY <3>1 DEF Ou!AtLeast
  <2>8. Says(k, back)
    <3> HIDE DEF back
    <3> QED BY <2>0, <2>6, <2>7
  <2>9. eventLog[k].id < firstEvent
    <3>1. eventLog[k].id \in Nat /\ eventLog[k].id <= emitted
      BY <1>1, <2>0, <2>3 DEF Ou!Counted, Ou!Events
    <3> QED BY <2>0, <3>1
  <2> HIDE DEF Says, back
  <2> QED BY <2>0, <2>2, <2>7, <2>8, <2>9
<1> HIDE DEF back, Says
<1>6. fillMid' \in Mids \cup {None}
  <2>1. fillMid \in Mids \cup {None}
    BY <1>1 DEF Ou!Shapes
  <2>2. CASE fillMid' = fillMid
    BY <2>1, <2>2
  <2>3. CASE position = None /\ fillMid' = back
    BY <1>5, <2>3
  <2> QED BY <2>2, <2>3 DEF Ou!FirstRead, back
<1>7. Ou!Shapes'
  BY <1>1, <1>3, <1>6 DEF Ou!Shapes, Ou!Shares, Ou!Events, Ou!MidSamples
<1>8. Ou!Counted'
  <2>1. Ou!Rising(Ou!Queued)' /\ \A i \in DOMAIN Ou!Queued' : Ou!Queued'[i].id <= emitted' /\ Ou!Queued'[i].at <= time'
    BY <1>1, <1>2 DEF Ou!Counted, Ou!Rising
  <2>2. (position' = None => position = None) /\ (position' = None => fillMid' = None /\ events' = <<>> /\ mids' = <<>>)
    BY <1>1, <1>3 DEF Ou!Counted
  <2>3. position' = None => emitted' < firstEvent'
    BY <1>1, <2>2 DEF Ou!Counted
  <2> QED BY <2>1, <2>2, <2>3 DEF Ou!Counted
<1>9. Ou!OutboxIsKept'
  BY <1>1, <1>2 DEF Ou!OutboxIsKept, Ou!Rising
<1>10. Ou!Weighed'
  <2>1. CASE fillMid' = fillMid
    BY <1>1, <1>2, <2>1 DEF Ou!Weighed, Ou!AtLeast, Ou!IsLastBought
  <2>2. CASE fillMid' # fillMid
    <3>1. position = None /\ fillMid' = back
      BY <2>2 DEF Ou!FirstRead, back
    <3> SUFFICES ASSUME fillMid' # None PROVE Ou!Weighed'
      BY DEF Ou!Weighed
    <3>2. PICK k \in DOMAIN Ou!Queued : Ou!IsLastBought(Ou!Queued, k) /\ Ou!Queued[k].id < firstEvent /\ Says(k, back)
      BY <1>5, <3>1
    <3>3. Ou!AtLeast(Ou!Queued[k].fillMid, fillMid') \/ Ou!AtLeast(Ou!FillMidSeen(Ou!Queued[k].at, sampled), fillMid')
      BY <3>1, <3>2 DEF Says
    <3>4. DOMAIN mids' = {}
      BY <1>4, <3>1
    <3> QED BY <1>2, <3>2, <3>3, <3>4 DEF Ou!Weighed, Ou!AtLeast, Ou!IsLastBought
  <2> QED BY <2>1, <2>2
<1> QED BY <1>7, <1>8, <1>9, <1>10 DEF Ou!OutInv

\* A later read emits an event for each fill it sees.
LEMMA FillsKeepOutbox ==
  ASSUME Ou!OutboxAssumption, Ou!OutInv, stage = "positions", stage' = "plan", position # None, position' = shares, Ou!LaterRead,
         UNCHANGED <<time, bookMid, shares, fills, midAt, mids, firstEvent, eventLog, sampled>>
  PROVE  Ou!OutInv'
<1> DEFINE slots == Ou!FillEvents(position, shares)
           m == Len(slots)
           bought == Ou!Contains(slots, "FAV_BID")
           of == IF bought THEN Ou!Highest({fillMid, Ou!FillMidSeen(time, sampled)}) ELSE fillMid
           new == [i \in DOMAIN slots |-> Ou!RecordFill(emitted + i, slots[i], of)]
           q == Ou!Queued
           N == Len(q)
           Slots == {"FAV_BID", "FAV_ASK", "LONG_BID", "LONG_ASK"}
<1>1. Ou!Shapes /\ Ou!Counted /\ Ou!Weighed /\ Ou!OutboxIsKept
  BY DEF Ou!OutInv
<1>2. fillMid' = of /\ events' = events \o new /\ emitted' = emitted + m
  BY DEF Ou!LaterRead
<1>3. /\ position \in Ou!Shares /\ shares \in Ou!Shares /\ fillMid \in Mids \cup {None} /\ time \in Nat /\ emitted \in Nat
      /\ fills \in Nat /\ events \in Seq(Ou!Events) /\ eventLog \in Seq(Ou!Events) /\ firstEvent \in Nat /\ sampled \in Seq(Ou!MidSamples)
  BY <1>1 DEF Ou!Shapes, Ou!OutboxAssumption
<1>4. /\ slots \in Seq(Slots) /\ m \in 0..2 /\ DOMAIN slots = 1..m /\ (position = shares => m = 0)
      /\ \A i \in 1..m : i # 1 => slots[i] # "FAV_BID"
      /\ bought <=> m # 0 /\ slots[1] = "FAV_BID"
  BY <1>3, SlotsAre
<1>5. of \in Mids \cup {None}
  <2>1. Ou!FillMidSeen(time, sampled) \in Mids \cup {None}
    BY <1>3, FillMidSeenIs
  <2> QED BY <1>3, <2>1, HighestIs
<1> HIDE DEF slots, m, bought, of
<1>6. \A i \in 1..m : /\ slots[i] \in Slots /\ new[i] = Ou!RecordFill(emitted + i, slots[i], of)
                        /\ new[i] \in Ou!Events /\ new[i].id = emitted + i /\ new[i].at = time /\ new[i].slot = slots[i]
                        /\ (slots[i] = "FAV_BID" => new[i].fillMid = of)
  <2> SUFFICES ASSUME NEW i \in 1..m
      PROVE /\ slots[i] \in Slots /\ new[i] = Ou!RecordFill(emitted + i, slots[i], of)
            /\ new[i] \in Ou!Events /\ new[i].id = emitted + i /\ new[i].at = time /\ new[i].slot = slots[i]
            /\ (slots[i] = "FAV_BID" => new[i].fillMid = of)
    OBVIOUS
  <2>1. slots[i] \in Slots /\ new[i] = Ou!RecordFill(emitted + i, slots[i], of) /\ emitted + i \in Nat
    BY <1>3, <1>4, ElementOfSeq
  <2> HIDE DEF new
  <2>2. new[i] = [id |-> emitted + i, at |-> time, slot |-> slots[i], fillMid |-> IF slots[i] = "FAV_BID" THEN of ELSE None]
    BY <2>1 DEF Ou!RecordFill
  <2> QED BY <1>3, <1>5, <2>1, <2>2 DEF Ou!Events
<1>7. new \in Seq(Ou!Events) /\ Len(new) = m
  <2>1. new \in [1..m -> Ou!Events] /\ m \in Nat
    BY <1>4, <1>6
  <2> HIDE DEF new
  <2> QED BY <2>1, SeqDef
<1> HIDE DEF new
<1>8. q \in Seq(Ou!Events) /\ N \in Nat /\ DOMAIN q = 1..N /\ Ou!Queued' = q \o new
  <2>1. q \in Seq(Ou!Events)
    BY <1>1, OutQueuedIs
  <2>2. Ou!Queued' = eventLog \o (events \o new)
    BY <1>2 DEF Ou!Queued
  <2> QED BY <1>3, <1>7, <2>1, <2>2, ConcatAssociative, LenProperties DEF Ou!Queued
<1> HIDE DEF q, N
<1> DEFINE p == q \o new
<1>9. /\ p \in Seq(Ou!Events) /\ Len(p) = N + m /\ DOMAIN p = 1..(N + m)
      /\ \A i \in 1..N : p[i] = q[i]
      /\ \A i \in 1..m : N + i \in 1..(N + m) /\ p[N + i] = new[i]
      /\ \A i \in 1..(N + m) : i \in 1..N \/ (i - N \in 1..m /\ N + (i - N) = i)
  <2>0. m \in Nat
    BY <1>4
  <2>1. p \in Seq(Ou!Events) /\ Len(p) = N + m /\ \A i \in 1..(N + m) : p[i] = IF i <= N THEN q[i] ELSE new[i - N]
    BY <1>7, <1>8, ConcatProperties DEF N
  <2>2. DOMAIN p = 1..(N + m)
    BY <2>1, LenProperties
  <2> HIDE DEF p
  <2>3. \A i \in 1..N : p[i] = q[i]
    BY <1>8, <2>0, <2>1
  <2>4. ASSUME NEW i \in 1..m PROVE N + i \in 1..(N + m) /\ p[N + i] = new[i]
    <3>1. N + i \in 1..(N + m) /\ ~(N + i <= N) /\ (N + i) - N = i
      BY <1>8, <2>0
    <3>2. p[N + i] = IF N + i <= N THEN q[N + i] ELSE new[(N + i) - N]
      BY <2>1, <3>1
    <3> QED BY <3>1, <3>2
  <2>5. \A i \in 1..(N + m) : i \in 1..N \/ (i - N \in 1..m /\ N + (i - N) = i)
    BY <1>8, <2>0
  <2> QED BY <2>1, <2>2, <2>3, <2>4, <2>5
<1>10. Ou!Queued' = p
  BY <1>8
<1> HIDE DEF p
<1>11. /\ Ou!Rising(q) /\ (\A i \in 1..N : q[i].id <= emitted /\ q[i].at <= time /\ q[i].id \in Nat /\ q[i].at \in Nat)
  <2>1. \A i \in 1..N : q[i] \in Ou!Events
    BY <1>8, ElementOfSeq
  <2> QED BY <1>1, <1>8, <2>1 DEF Ou!Counted, Ou!Events, q, N
<1>12. Ou!Rising(p)
  <2> SUFFICES ASSUME NEW i \in 1..(N + m), NEW j \in 1..(N + m), i < j PROVE p[i].id < p[j].id
    BY <1>9 DEF Ou!Rising
  <2>0. m \in Nat
    BY <1>4
  <2>1. CASE i \in 1..N /\ j \in 1..N
    BY <1>8, <1>9, <1>11, <2>1 DEF Ou!Rising
  <2>2. CASE i \in 1..N /\ j - N \in 1..m /\ N + (j - N) = j
    <3>1. p[i].id = q[i].id /\ p[j] = new[j - N]
      BY <1>9, <2>2
    <3>2. p[j].id = emitted + (j - N)
      BY <1>6, <2>2, <3>1
    <3>3. q[i].id <= emitted /\ q[i].id \in Nat /\ j - N > 0 /\ j - N \in Int
      BY <1>11, <2>0, <2>2
    <3> QED BY <1>3, <3>1, <3>2, <3>3
  <2>3. CASE i - N \in 1..m /\ N + (i - N) = i /\ j - N \in 1..m /\ N + (j - N) = j
    <3>1. p[i] = new[i - N] /\ p[j] = new[j - N]
      BY <1>9, <2>3
    <3>2. p[i].id = emitted + (i - N) /\ p[j].id = emitted + (j - N)
      BY <1>6, <2>3, <3>1
    <3> QED BY <1>3, <1>8, <2>0, <3>2
  <2>4. CASE j \in 1..N /\ i - N \in 1..m
    BY <1>8, <2>0, <2>4
  <2> QED BY <1>9, <2>1, <2>2, <2>3, <2>4
<1>13. Ou!Shapes'
  <2>1. events' \in Seq(Ou!Events)
    BY <1>2, <1>3, <1>7, ConcatProperties
  <2>2. emitted' \in Nat /\ fillMid' \in Mids \cup {None}
    BY <1>2, <1>3, <1>4, <1>5
  <2> QED BY <1>1, <1>3, <2>1, <2>2 DEF Ou!Shapes, Ou!Shares, Ou!Events, Ou!MidSamples
<1>14. Ou!Counted'
  <2>0. m \in Nat /\ shares # None
    BY <1>3, <1>4 DEF Ou!OutboxAssumption, Ou!Shares
  <2>1. Ou!Rising(Ou!Queued)'
    BY <1>10, <1>12 DEF Ou!Rising
  <2>2. ASSUME NEW i \in 1..(N + m) PROVE p[i].id <= emitted + m /\ p[i].at <= time
    <3>1. CASE i \in 1..N
      <4>1. p[i].id = q[i].id /\ p[i].at = q[i].at /\ q[i].id \in Nat /\ q[i].id <= emitted /\ q[i].at <= time
        BY <1>9, <1>11, <3>1
      <4>2. \A a \in Nat : a <= emitted => a <= emitted + m
        BY <1>3, <2>0
      <4> QED BY <4>1, <4>2
    <3>2. CASE i - N \in 1..m /\ N + (i - N) = i
      <4>1. p[i] = new[i - N]
        BY <1>9, <3>2
      <4>2. p[i].id = emitted + (i - N) /\ p[i].at = time
        BY <1>6, <3>2, <4>1
      <4> QED BY <1>3, <1>8, <2>0, <3>2, <4>2
    <3> QED BY <1>9, <3>1, <3>2
  <2>3. \A i \in DOMAIN Ou!Queued' : Ou!Queued'[i].id <= emitted' /\ Ou!Queued'[i].at <= time'
    BY <1>2, <1>9, <1>10, <2>2
  <2> QED BY <2>0, <2>1, <2>3 DEF Ou!Counted
<1>15. Ou!OutboxIsKept'
  <2>1. Ou!Rising(eventLog)'
    BY <1>1 DEF Ou!OutboxIsKept, Ou!Rising
  <2>2. {n \in {p[i].id : i \in DOMAIN p} : n >= firstEvent} = firstEvent..(emitted + m)
    <3>0. m \in Nat
      BY <1>4
    <3>1. {n \in {q[i].id : i \in DOMAIN q} : n >= firstEvent} = firstEvent..emitted
      BY <1>1 DEF Ou!OutboxIsKept, q
    <3>2. ASSUME NEW i \in 1..(N + m), p[i].id >= firstEvent PROVE p[i].id \in firstEvent..(emitted + m)
      <4>1. CASE i \in 1..N
        <5>1. p[i].id = q[i].id /\ q[i].id \in Nat /\ q[i].id <= emitted
          BY <1>9, <1>11, <4>1
        <5> QED BY <1>3, <3>0, <3>2, <5>1
      <4>2. CASE i - N \in 1..m /\ N + (i - N) = i
        <5>1. p[i].id = emitted + (i - N)
          BY <1>6, <1>9, <4>2
        <5> QED BY <1>3, <1>8, <3>0, <3>2, <4>2, <5>1
      <4> QED BY <1>9, <4>1, <4>2
    <3>3. ASSUME NEW n \in firstEvent..(emitted + m) PROVE n >= firstEvent /\ \E i \in 1..(N + m) : p[i].id = n
      <4>1. CASE n <= emitted
        <5>1. n \in firstEvent..emitted
          BY <1>3, <4>1
        <5>2. PICK i \in 1..N : q[i].id = n
          BY <1>8, <3>1, <5>1
        <5>3. i \in 1..(N + m) /\ p[i] = q[i]
          BY <1>8, <1>9, <3>0
        <5> QED BY <1>3, <5>1, <5>2, <5>3
      <4>2. CASE n > emitted
        <5>1. n - emitted \in 1..m /\ emitted + (n - emitted) = n /\ n >= firstEvent
          BY <1>3, <3>0, <4>2
        <5>2. p[N + (n - emitted)].id = n /\ N + (n - emitted) \in 1..(N + m)
          BY <1>6, <1>9, <5>1
        <5> QED BY <5>1, <5>2
      <4> QED BY <1>3, <4>1, <4>2
    <3> QED BY <1>9, <3>2, <3>3
  <2>3. Ou!Rising(Ou!Queued)'
    BY <1>10, <1>12 DEF Ou!Rising
  <2> QED BY <1>2, <1>10, <2>1, <2>2, <2>3 DEF Ou!OutboxIsKept
<1>16. Ou!Weighed'
  <2> SUFFICES ASSUME fillMid' # None PROVE Ou!Weighed'
    BY DEF Ou!Weighed
  <2>0. m \in Nat
    BY <1>4
  <2>1. CASE bought
    <3>1. 1 \in 1..m /\ slots[1] = "FAV_BID" /\ N + 1 \in 1..(N + m) /\ p[N + 1] = new[1]
      <4>1. 1 \in 1..m /\ slots[1] = "FAV_BID"
        BY <1>4, <2>0, <2>1
      <4> QED BY <1>9, <4>1
    <3>2. p[N + 1].slot = "FAV_BID" /\ p[N + 1].fillMid = of
      BY <1>6, <3>1
    <3>3. ASSUME NEW j \in 1..(N + m), j > N + 1 PROVE p[j].slot # "FAV_BID"
      <4>1. j - N \in 1..m /\ N + (j - N) = j /\ j - N # 1
        BY <1>8, <2>0, <3>3
      <4>2. p[j] = new[j - N] /\ new[j - N].slot = slots[j - N]
        BY <1>6, <1>9, <4>1
      <4> QED BY <1>4, <4>1, <4>2
    <3>4. of # None /\ of >= of
      <4>1. of # None /\ of \in Mids
        BY <1>2, <1>5
      <4>2. of \in Int
        BY <4>1 DEF Ou!OutboxAssumption
      <4> QED BY <4>1, <4>2
    <3>5. PICK k : k = N + 1
      OBVIOUS
    <3>6. Ou!Queued'[k].fillMid = fillMid' /\ Ou!Queued'[k].slot = "FAV_BID" /\ k \in DOMAIN Ou!Queued'
      BY <1>2, <1>9, <1>10, <3>1, <3>2, <3>5
    <3>7. \A j \in DOMAIN Ou!Queued' : j > k => Ou!Queued'[j].slot # "FAV_BID"
      BY <1>9, <1>10, <3>3, <3>5
    <3>8. fillMid' # None /\ fillMid' >= fillMid'
      BY <1>2, <3>4
    <3> QED BY <3>6, <3>7, <3>8 DEF Ou!Weighed, Ou!IsLastBought, Ou!AtLeast
  <2>2. CASE ~bought
    <3>1. fillMid' = fillMid
      BY <1>2, <2>2 DEF of
    <3>2. PICK k \in DOMAIN q :
            /\ Ou!IsLastBought(q, k)
            /\ \/ Ou!AtLeast(q[k].fillMid, fillMid)
               \/ /\ q[k].id < firstEvent /\ Ou!AtLeast(Ou!FillMidSeen(q[k].at, sampled), fillMid)
                  /\ \A i \in DOMAIN mids : mids[i].at >= q[k].at
      BY <1>1, <3>1 DEF Ou!Weighed, q
    <3>3. k \in 1..N /\ k \in 1..(N + m) /\ p[k] = q[k]
      BY <1>8, <1>9, <2>0
    <3>4. ASSUME NEW j \in 1..(N + m), j > k PROVE p[j].slot # "FAV_BID"
      <4>1. CASE j \in 1..N
        BY <1>8, <1>9, <3>2, <3>4, <4>1 DEF Ou!IsLastBought
      <4>2. CASE j - N \in 1..m /\ N + (j - N) = j
        <5>1. p[j] = new[j - N] /\ new[j - N].slot = slots[j - N]
          BY <1>6, <1>9, <4>2
        <5>2. slots[j - N] # "FAV_BID"
          <6>1. m # 0
            BY <2>0, <4>2
          <6> QED BY <1>4, <2>2, <4>2, <6>1
        <5> QED BY <5>1, <5>2
      <4> QED BY <1>9, <4>1, <4>2
    <3>5. Ou!IsLastBought(Ou!Queued', k)
      BY <1>8, <1>9, <1>10, <3>2, <3>3, <3>4 DEF Ou!IsLastBought
    <3>7. \/ Ou!AtLeast(Ou!Queued'[k].fillMid, fillMid')
          \/ /\ Ou!Queued'[k].id < firstEvent' /\ Ou!AtLeast(Ou!FillMidSeen(Ou!Queued'[k].at, sampled'), fillMid')
             /\ \A i \in DOMAIN mids' : mids'[i].at >= Ou!Queued'[k].at
      <4>1. Ou!Queued'[k] = q[k]
        BY <1>10, <3>3
      <4>2. mids' = mids /\ sampled' = sampled /\ firstEvent' = firstEvent
        OBVIOUS
      <4> QED BY <3>1, <3>2, <4>1, <4>2
    <3>8. k \in DOMAIN Ou!Queued'
      BY <1>9, <1>10, <3>3
    <3> QED BY <3>5, <3>7, <3>8 DEF Ou!Weighed, Ou!AtLeast, Ou!IsLastBought
  <2> QED BY <2>1, <2>2
<1> QED BY <1>13, <1>14, <1>15, <1>16 DEF Ou!OutInv

LEMMA ReadKeepsOutbox == ASSUME Ou!OutboxAssumption, Ou!OutInv, Ou!RefreshPositions PROVE Ou!OutInv'
<1>1. /\ stage = "positions" /\ stage' = "plan"
      /\ UNCHANGED <<time, bookMid, shares, fills, midAt, mids, firstEvent, eventLog, sampled>>
  BY DEF Ou!RefreshPositions, Ou!published
<1>2. \/ UNCHANGED <<position, fillMid, events, emitted>>
      \/ position = None /\ position' = shares /\ Ou!FirstRead
      \/ position # None /\ position' = shares /\ Ou!LaterRead
  BY DEF Ou!RefreshPositions
<1>3. CASE position # None /\ position' = shares /\ Ou!LaterRead
  BY <1>1, <1>3, FillsKeepOutbox
<1>4. CASE UNCHANGED <<position, fillMid, events, emitted>>
  BY <1>1, <1>4, QuietReadKeepsOutbox
<1>5. CASE position = None /\ position' = shares /\ Ou!FirstRead
  <2>1. UNCHANGED <<events, emitted>>
    BY <1>5 DEF Ou!FirstRead
  <2> QED BY <1>1, <1>5, <2>1, QuietReadKeepsOutbox
<1> QED BY <1>2, <1>3, <1>4, <1>5

LEMMA PlanKeepsOutbox == ASSUME Ou!OutboxAssumption, Ou!OutInv, Ou!Plan PROVE Ou!OutInv'
<1>1. /\ stage = "plan" /\ stage' = "flush"
      /\ UNCHANGED <<time, bookMid, shares, fills, position, readAt, events, emitted, firstEvent, eventLog, sampled>>
      /\ position = None => UNCHANGED <<fillMid, midAt, mids>>
      /\ mids' = mids \/ mids' = Append(mids, [at |-> time, mid |-> bookMid])
      /\ fillMid' \in {fillMid, None}
  BY DEF Ou!Plan, Ou!published, Ou!HeldFillMid
<1>2. Ou!Shapes /\ Ou!Counted /\ Ou!Weighed /\ Ou!OutboxIsKept
  BY DEF Ou!OutInv
<1>3. mids \in Seq(Ou!MidSamples) /\ time \in Nat /\ bookMid \in Mids
  BY <1>2 DEF Ou!Shapes
<1>4. mids' \in Seq(Ou!MidSamples) /\ \A i \in DOMAIN mids' : (i \in DOMAIN mids /\ mids'[i] = mids[i]) \/ mids'[i].at = time
  <2>1. CASE mids' = mids
    BY <1>3, <2>1
  <2>2. CASE mids' = Append(mids, [at |-> time, mid |-> bookMid])
    <3>1. [at |-> time, mid |-> bookMid] \in Ou!MidSamples
      BY <1>3 DEF Ou!MidSamples
    <3> DEFINE e == [at |-> time, mid |-> bookMid]
    <3>2. e.at = time
      OBVIOUS
    <3> HIDE DEF e
    <3>3. mids' \in Seq(Ou!MidSamples) /\ Len(mids') = Len(mids) + 1 /\ mids'[Len(mids) + 1] = e
          /\ \A i \in 1..Len(mids) : mids'[i] = mids[i]
      BY <1>3, <2>2, <3>1, AppendProperties DEF e
    <3>4. DOMAIN mids = 1..Len(mids) /\ DOMAIN mids' = 1..Len(mids') /\ Len(mids) \in Nat
      BY <1>3, <3>3, LenProperties
    <3>5. \A i \in 1..(Len(mids) + 1) : i \in 1..Len(mids) \/ i = Len(mids) + 1
      BY <3>4
    <3> QED BY <3>2, <3>3, <3>4, <3>5
  <2> QED BY <1>1, <2>1, <2>2
<1>5. Ou!Shapes'
  BY <1>1, <1>2, <1>4 DEF Ou!Shapes, Ou!Shares, Ou!Events, Ou!MidSamples
<1>6. Ou!Counted'
  BY <1>1, <1>2 DEF Ou!Counted, Ou!Rising, Ou!Queued
<1>7. Ou!OutboxIsKept'
  BY <1>1, <1>2 DEF Ou!OutboxIsKept, Ou!Rising, Ou!Queued
<1>8. Ou!Weighed'
  <2> SUFFICES ASSUME fillMid' # None PROVE Ou!Weighed'
    BY DEF Ou!Weighed
  <2>1. fillMid' = fillMid
    BY <1>1
  <2>2. PICK k \in DOMAIN Ou!Queued :
          /\ Ou!IsLastBought(Ou!Queued, k)
          /\ \/ Ou!AtLeast(Ou!Queued[k].fillMid, fillMid)
             \/ /\ Ou!Queued[k].id < firstEvent /\ Ou!AtLeast(Ou!FillMidSeen(Ou!Queued[k].at, sampled), fillMid)
                /\ \A i \in DOMAIN mids : mids[i].at >= Ou!Queued[k].at
    BY <1>2, <2>1 DEF Ou!Weighed
  <2>3. Ou!Queued' = Ou!Queued /\ sampled' = sampled /\ firstEvent' = firstEvent
    BY <1>1 DEF Ou!Queued
  <2>5. time >= Ou!Queued[k].at
    <3>1. Ou!Queued[k].at <= time /\ Ou!Queued[k] \in Ou!Events
      BY <1>2, OutQueuedIs DEF Ou!Counted
    <3>2. Ou!Queued[k].at \in Nat
      BY <3>1 DEF Ou!Events
    <3> QED BY <1>3, <3>1, <3>2
  <2>6. (\A i \in DOMAIN mids : mids[i].at >= Ou!Queued[k].at) => \A i \in DOMAIN mids' : mids'[i].at >= Ou!Queued'[k].at
    BY <1>4, <2>3, <2>5
  <2> QED BY <2>1, <2>2, <2>3, <2>6 DEF Ou!Weighed, Ou!IsLastBought, Ou!AtLeast
<1> QED BY <1>5, <1>6, <1>7, <1>8 DEF Ou!OutInv

LEMMA FlushKeepsOutbox == ASSUME Ou!OutboxAssumption, Ou!OutInv, NEW works \in BOOLEAN, Ou!Flush(works) PROVE Ou!OutInv'
<1>1. /\ stage = "flush" /\ stage' = "between"
      /\ UNCHANGED <<time, bookMid, shares, fills, position, fillMid, emitted, firstEvent>>
      /\ IF works THEN eventLog' = eventLog \o events /\ sampled' = sampled \o mids /\ events' = <<>> /\ mids' = <<>>
                  ELSE UNCHANGED <<eventLog, sampled, events, mids>>
  BY DEF Ou!Flush, Ou!Publish, Ou!Left, Ou!published
<1>2. Ou!Shapes /\ Ou!Counted /\ Ou!Weighed /\ Ou!OutboxIsKept
  BY DEF Ou!OutInv
<1>3. /\ eventLog \in Seq(Ou!Events) /\ events \in Seq(Ou!Events) /\ sampled \in Seq(Ou!MidSamples) /\ mids \in Seq(Ou!MidSamples)
      /\ Ou!Queued \in Seq(Ou!Events)
  BY <1>2, OutQueuedIs DEF Ou!Shapes
<1>4. Ou!Queued' = Ou!Queued
  <2>1. CASE works
    <3>1. Ou!Queued' = Ou!Queued \o <<>>
      BY <1>1, <2>1 DEF Ou!Queued
    <3> QED BY <1>3, <3>1, ConcatEmptySeq
  <2>2. CASE ~works
    BY <1>1, <2>2 DEF Ou!Queued
  <2> QED BY <2>1, <2>2
<1>5. /\ eventLog' \in Seq(Ou!Events) /\ events' \in Seq(Ou!Events) /\ sampled' \in Seq(Ou!MidSamples) /\ mids' \in Seq(Ou!MidSamples)
  <2>1. eventLog \o events \in Seq(Ou!Events) /\ sampled \o mids \in Seq(Ou!MidSamples)
    BY <1>3, ConcatProperties
  <2>2. <<>> \in Seq(Ou!Events) /\ <<>> \in Seq(Ou!MidSamples)
    OBVIOUS
  <2>3. CASE works
    <3>1. eventLog' = eventLog \o events /\ sampled' = sampled \o mids /\ events' = <<>> /\ mids' = <<>>
      BY <1>1, <2>3
    <3> QED BY <2>1, <2>2, <3>1
  <2>4. CASE ~works
    <3>1. eventLog' = eventLog /\ sampled' = sampled /\ events' = events /\ mids' = mids
      BY <1>1, <2>4
    <3> QED BY <1>3, <3>1
  <2> QED BY <2>3, <2>4
<1>6. Ou!Shapes'
  BY <1>1, <1>2, <1>5 DEF Ou!Shapes, Ou!Shares, Ou!Events, Ou!MidSamples
<1>7. Ou!Counted'
  <2>1. position' = None => fillMid' = None /\ events' = <<>> /\ mids' = <<>>
    BY <1>1, <1>2 DEF Ou!Counted
  <2>2. stage' # "down"
    BY <1>1
  <2>3. Ou!Rising(Ou!Queued)' /\ \A i \in DOMAIN Ou!Queued' : Ou!Queued'[i].id <= emitted' /\ Ou!Queued'[i].at <= time'
    BY <1>1, <1>2, <1>4 DEF Ou!Counted, Ou!Rising
  <2>4. position' = None => emitted' < firstEvent'
    BY <1>1, <1>2 DEF Ou!Counted
  <2> QED BY <2>1, <2>2, <2>3, <2>4 DEF Ou!Counted
<1>8. Ou!OutboxIsKept'
  <2>1. Ou!Rising(Ou!Queued)'
    BY <1>2, <1>4 DEF Ou!Counted, Ou!Rising
  <2>2. Ou!Rising(eventLog)'
    <3>1. CASE works
      BY <1>1, <1>2, <3>1 DEF Ou!Counted, Ou!Queued, Ou!Rising
    <3>2. CASE ~works
      BY <1>1, <1>2, <3>2 DEF Ou!OutboxIsKept, Ou!Rising
    <3> QED BY <3>1, <3>2
  <2>3. {n \in {Ou!Queued[i].id : i \in DOMAIN Ou!Queued} : n >= firstEvent} = firstEvent..emitted
    BY <1>1, <1>2 DEF Ou!OutboxIsKept
  <2> QED BY <1>1, <1>4, <2>1, <2>2, <2>3 DEF Ou!OutboxIsKept
<1>9. Ou!Weighed'
  <2> SUFFICES ASSUME fillMid' # None PROVE Ou!Weighed'
    BY DEF Ou!Weighed
  <2>1. fillMid' = fillMid
    BY <1>1
  <2>2. PICK k \in DOMAIN Ou!Queued :
          /\ Ou!IsLastBought(Ou!Queued, k)
          /\ \/ Ou!AtLeast(Ou!Queued[k].fillMid, fillMid)
             \/ /\ Ou!Queued[k].id < firstEvent /\ Ou!AtLeast(Ou!FillMidSeen(Ou!Queued[k].at, sampled), fillMid)
                /\ \A i \in DOMAIN mids : mids[i].at >= Ou!Queued[k].at
    BY <1>2, <2>1 DEF Ou!Weighed
  <2>3. PICK at : at = Ou!Queued[k].at
    OBVIOUS
  <2>4. ASSUME \A i \in DOMAIN mids : mids[i].at >= at
        PROVE  Ou!FillMidSeen(at, sampled') = Ou!FillMidSeen(at, sampled) /\ \A i \in DOMAIN mids' : mids'[i].at >= at
    <3>1. at \in Nat
      <4>1. Ou!Queued[k] \in Ou!Events
        BY <1>2, OutQueuedIs
      <4> QED BY <2>3, <4>1 DEF Ou!Events
    <3>2. CASE works
      <4>1. sampled' = sampled \o mids /\ DOMAIN mids' = {}
        BY <1>1, <3>2
      <4> QED BY <1>3, <2>4, <3>1, <4>1, LaterSamples
    <3>3. CASE ~works
      BY <1>1, <2>4, <3>3
    <3> QED BY <3>2, <3>3
  <2> QED BY <1>1, <1>4, <2>1, <2>2, <2>3, <2>4 DEF Ou!Weighed, Ou!IsLastBought, Ou!AtLeast
<1> QED BY <1>6, <1>7, <1>8, <1>9 DEF Ou!OutInv

LEMMA ExitKeepsOutbox == ASSUME Ou!OutboxAssumption, Ou!OutInv, NEW works \in BOOLEAN, Ou!Exit(works) PROVE Ou!OutInv'
<1>1. /\ stage' = "down" /\ position' = None /\ fillMid' = None /\ events' = <<>> /\ mids' = <<>>
      /\ UNCHANGED <<time, bookMid, shares, fills, emitted, firstEvent>>
      /\ (eventLog' = eventLog \o events /\ sampled' = sampled \o mids) \/ UNCHANGED <<eventLog, sampled>>
  BY DEF Ou!Exit, Ou!Publish, Ou!published
<1>2. Ou!Shapes /\ Ou!Counted /\ Ou!OutboxIsKept
  BY DEF Ou!OutInv
<1>3. /\ eventLog \in Seq(Ou!Events) /\ events \in Seq(Ou!Events) /\ sampled \in Seq(Ou!MidSamples) /\ mids \in Seq(Ou!MidSamples)
      /\ time \in Nat /\ emitted \in Nat /\ fills \in Nat
  BY <1>2 DEF Ou!Shapes, Ou!OutboxAssumption
<1>4. eventLog' \in Seq(Ou!Events) /\ sampled' \in Seq(Ou!MidSamples) /\ events' \in Seq(Ou!Events) /\ mids' \in Seq(Ou!MidSamples)
  <2>1. eventLog \o events \in Seq(Ou!Events) /\ sampled \o mids \in Seq(Ou!MidSamples)
    BY <1>3, ConcatProperties
  <2>2. eventLog' \in Seq(Ou!Events)
    <3>1. eventLog' = eventLog \o events \/ eventLog' = eventLog
      BY <1>1
    <3> QED BY <1>3, <2>1, <3>1
  <2>3. sampled' \in Seq(Ou!MidSamples)
    <3>1. sampled' = sampled \o mids \/ sampled' = sampled
      BY <1>1
    <3> QED BY <1>3, <2>1, <3>1
  <2>4. events' \in Seq(Ou!Events) /\ mids' \in Seq(Ou!MidSamples)
    <3>1. <<>> \in Seq(Ou!Events) /\ <<>> \in Seq(Ou!MidSamples)
      OBVIOUS
    <3> QED BY <1>1, <3>1
  <2> QED BY <2>2, <2>3, <2>4
<1>5. Ou!Shapes'
  BY <1>1, <1>2, <1>4 DEF Ou!Shapes, Ou!Shares, Ou!Events, Ou!MidSamples
\* What is queued then is what was published.
<1>6. Ou!Queued' = eventLog'
  BY <1>5, <1>1, <1>4, ConcatEmptySeq DEF Ou!Queued
<1>7. eventLog' = Ou!Queued \/ eventLog' = eventLog
  BY <1>1 DEF Ou!Queued
<1>8. /\ Ou!Rising(eventLog')
      /\ \A i \in DOMAIN eventLog' : eventLog'[i].id <= emitted /\ eventLog'[i].at <= time
  <2>1. /\ Ou!Rising(Ou!Queued)
        /\ \A i \in DOMAIN Ou!Queued : Ou!Queued[i].id <= emitted /\ Ou!Queued[i].at <= time
    BY <1>2 DEF Ou!Counted
  <2>2. CASE eventLog' = Ou!Queued
    BY <2>1, <2>2
  <2>3. CASE eventLog' = eventLog
    <3>1. Ou!Rising(eventLog)
      BY <1>2, <2>1, RisingStart
    <3>3. \A i \in DOMAIN eventLog : eventLog[i].id <= emitted /\ eventLog[i].at <= time
      <4>1. \A i \in DOMAIN eventLog : i \in DOMAIN Ou!Queued /\ Ou!Queued[i] = eventLog[i]
        BY <1>2, OutQueuedIs
      <4> QED BY <2>1, <4>1
    <3> QED BY <2>3, <3>1, <3>3
  <2> QED BY <1>7, <2>2, <2>3
<1>9. Ou!Counted'
  <2>2. Ou!Rising(Ou!Queued)'
    BY <1>6, <1>8 DEF Ou!Rising
  <2> QED BY <1>1, <1>6, <1>8, <2>2 DEF Ou!Counted
<1>10. Ou!OutboxIsKept'
  <2>1. Ou!Rising(eventLog)'
    BY <1>8 DEF Ou!Rising
  <2> QED BY <1>1, <2>1 DEF Ou!OutboxIsKept
<1>11. Ou!Weighed'
  BY <1>1 DEF Ou!Weighed
<1> QED BY <1>5, <1>9, <1>10, <1>11 DEF Ou!OutInv

\* OutInv is inductive; the samples and the fills read back are what makes a fill mid safe to forget.
LEMMA OutIsKept == ASSUME Ou!OutboxAssumption PROVE Ou!Spec => []Ou!OutInv
<1>1. ASSUME Ou!OutInv, [Ou!Next]_(Ou!vars) PROVE Ou!OutInv'
  <2>1. ASSUME NEW m \in Mids, NEW lot \in Lots, Ou!Tick(m, lot) PROVE Ou!OutInv'
    BY <1>1, <2>1, TickKeepsOutbox
  <2>2. ASSUME NEW works \in BOOLEAN, Ou!Flush(works) \/ Ou!Exit(works) PROVE Ou!OutInv'
    BY <1>1, <2>2, FlushKeepsOutbox, ExitKeepsOutbox
  <2>3. CASE UNCHANGED Ou!vars
    <3>1. UNCHANGED <<time, bookMid, shares, fills, stage, position, fillMid, events, mids, eventLog, sampled, emitted, firstEvent>>
      BY <2>3 DEF Ou!vars, Ou!farmer, Ou!published
    <3>2. Ou!Shapes' /\ Ou!Counted' /\ Ou!OutboxIsKept'
      BY <1>1, <3>1 DEF Ou!OutInv, Ou!Shapes, Ou!Counted, Ou!OutboxIsKept, Ou!Rising, Ou!Queued, Ou!Shares, Ou!Events, Ou!MidSamples
    <3>3. Ou!Weighed'
      BY <1>1, <3>1 DEF Ou!OutInv, Ou!Weighed, Ou!IsLastBought, Ou!AtLeast, Ou!Queued
    <3> QED BY <3>2, <3>3 DEF Ou!OutInv
  <2>4. CASE Ou!Start \/ Ou!RefreshPositions \/ Ou!Plan
    BY <1>1, <2>4, StartKeepsOutbox, ReadKeepsOutbox, PlanKeepsOutbox
  <2> QED BY <1>1, <2>1, <2>2, <2>3, <2>4 DEF Ou!Next
<1> QED BY <1>1, OutStarts, PTL DEF Ou!Spec

\* A fill mid weighed in the last favorite fill is what a start of now reads back of it, where the
\* fill is in reach and what is known of it stands.
LEMMA ReadBackHolds ==
  ASSUME Ou!OutboxAssumption, Ou!OutInv, fillMid # None, events = <<>>,
         NEW k \in DOMAIN eventLog, Ou!IsLastBought(eventLog, k), Ou!InReach(k), Ou!Stands(k),
         \/ Ou!AtLeast(eventLog[k].fillMid, fillMid)
         \/ eventLog[k].id < firstEvent /\ Ou!AtLeast(Ou!FillMidSeen(eventLog[k].at, sampled), fillMid)
  PROVE  Ou!AtLeast(Ou!LastFillMid(Ou!KeptEvents, Ou!KeptMids), fillMid)
<1> DEFINE e == eventLog[k]
           L == Len(eventLog)
           fillRows == Ou!KeptEvents
           x == e.fillMid
           y == Ou!FillMidSeen(e.at, Ou!KeptMids)
           h == Ou!LastFillMid(fillRows, Ou!KeptMids)
<1>1. /\ eventLog \in Seq(Ou!Events) /\ sampled \in Seq(Ou!MidSamples) /\ time \in Nat /\ firstEvent \in Nat
      /\ fillMid \in Mids /\ EventsKept \in Nat /\ MidsKept \in Nat /\ Lookback \in Nat /\ Limit \in Nat
  BY DEF Ou!OutInv, Ou!Shapes, Ou!OutboxAssumption
<1>2. L \in Nat /\ DOMAIN eventLog = 1..L /\ k \in 1..L /\ e \in Ou!Events /\ e.at \in Nat /\ e.id \in Nat
  <2>1. L \in Nat /\ DOMAIN eventLog = 1..L /\ k \in 1..L
    BY <1>1, LenProperties
  <2>2. e \in Ou!Events
    BY <1>1, <2>1, ElementOfSeq
  <2> QED BY <2>1, <2>2 DEF Ou!Events
\* The rows deleted come before the fill, so that it stays the last one and as near to the end.
<1>3. PICK n \in 0..L : Deletes(eventLog, time - EventsKept, n)
  BY <1>1, SinceIs
<1>4. /\ fillRows \in Seq(Ou!Events) /\ Len(fillRows) = L - n /\ DOMAIN fillRows = 1..(L - n)
      /\ \A i \in 1..(L - n) : n + i \in 1..L /\ fillRows[i] = eventLog[n + i]
      /\ \A i \in 1..n : eventLog[i].at < time - EventsKept
  BY <1>1, <1>3, SinceIs DEF Deletes, Ou!KeptEvents
<1> HIDE DEF fillRows, L
<1>5. k - n \in 1..(L - n) /\ n + (k - n) = k
  <2>1. e.at >= time - EventsKept
    BY DEF Ou!InReach
  <2>2. ~(k \in 1..n)
    BY <1>1, <1>2, <1>4, <2>1
  <2> HIDE DEF e
  <2> QED BY <1>2, <2>2
<1>6. fillRows[k - n] = e
  BY <1>4, <1>5
<1>7. Ou!IsLastBought(fillRows, k - n)
  <2>1. e.slot = "FAV_BID" /\ \A j \in 1..L : j > k => eventLog[j].slot # "FAV_BID"
    BY <1>2 DEF Ou!IsLastBought
  <2>2. ASSUME NEW j \in 1..(L - n), j > k - n PROVE fillRows[j].slot # "FAV_BID"
    <3>1. n + j \in 1..L /\ n + j > k
      BY <1>2, <1>4, <2>2
    <3> QED BY <1>4, <2>1, <3>1
  <2> QED BY <1>4, <1>5, <1>6, <2>1, <2>2 DEF Ou!IsLastBought
<1>8. Ou!LastBought(Ou!ReadFills(fillRows)) = e
  <2>1. L - k < Limit
    BY DEF Ou!InReach, L
  <2>2. Len(fillRows) - (k - n) < Limit
    BY <1>1, <1>2, <1>4, <2>1
  <2> QED BY <1>4, <1>6, <1>7, <2>2, LastBoughtIs
<1>9. h = Ou!Highest({x, y})
  <2>1. e # None
    BY <1>2 DEF Ou!OutboxAssumption
  <2> QED BY <1>8, <2>1 DEF Ou!LastFillMid
<1>10. x \in Mids \cup {None} /\ y \in Mids \cup {None}
  <2>1. Ou!KeptMids \in Seq(Ou!MidSamples)
    BY <1>1, SinceIs DEF Ou!KeptMids
  <2> QED BY <1>2, <2>1, FillMidSeenIs DEF Ou!Events
\* The samples before an earlier run's fill are kept.
<1>11. Ou!AtLeast(x, fillMid) \/ Ou!AtLeast(y, fillMid)
  <2>1. CASE Ou!AtLeast(e.fillMid, fillMid)
    BY <2>1
  <2>2. CASE e.id < firstEvent /\ Ou!AtLeast(Ou!FillMidSeen(e.at, sampled), fillMid)
    <3>1. e.at - Lookback >= time - MidsKept /\ time - MidsKept \in Int
      <4>1. ~(e.id >= firstEvent)
        BY <1>1, <1>2, <2>2
      <4> QED BY <1>1, <4>1 DEF Ou!Stands
    <3>2. y = Ou!FillMidSeen(e.at, sampled)
      <4> HIDE DEF e
      <4>1. Ou!FillMidSeen(e.at, Ou!Since(sampled, time - MidsKept)) = Ou!FillMidSeen(e.at, sampled)
        BY <1>1, <1>2, <3>1, KeptSamples
      <4> QED BY <4>1 DEF Ou!KeptMids
    <3> QED BY <2>2, <3>2
  <2> QED BY <2>1, <2>2
<1> HIDE DEF x, y, e, h
<1>12. h \in {x, y} /\ (x # None => Ou!AtLeast(h, x)) /\ (y # None => Ou!AtLeast(h, y))
  BY <1>9, <1>10, HighestIs
<1>13. ASSUME NEW z \in {x, y}, z # None, z >= fillMid, Ou!AtLeast(h, z) PROVE h # None /\ h >= fillMid
  <2>1. h # None /\ h >= z
    BY <1>13 DEF Ou!AtLeast
  <2>2. h \in Int /\ z \in Int /\ fillMid \in Int
    BY <1>1, <1>10, <1>12, <1>13, <2>1 DEF Ou!OutboxAssumption
  <2> QED BY <1>13, <2>1, <2>2
<1>14. h # None /\ h >= fillMid
  BY <1>11, <1>12, <1>13 DEF Ou!AtLeast
<1> QED BY <1>14 DEF h, fillRows, Ou!AtLeast

\* However the flushes fail and wherever the farmer goes down (reward_farmer.py: emit, flush, start,
\* refresh_positions; farm_db.py: publish, prune_events, prune_mids): a fill is published once and in
\* order, what this run emitted is published or queued, and what was bought has its fill mid in what
\* was published, as long as the fill is neither deleted for its age nor pushed out of the Limit fills
\* read back by later ones, and, where an earlier run recorded it, the samples before it are not
\* deleted. Nothing is assumed of how many fills there are, nor of the three limits.
THEOREM FillsSurvive == ASSUME Ou!OutboxAssumption PROVE Ou!Spec => []Ou!FillsAreKept
<1>1. ASSUME Ou!OutInv PROVE Ou!FillsAreKept
  <2>1. Ou!Shapes /\ Ou!Weighed /\ Ou!OutboxIsKept
    BY <1>1 DEF Ou!OutInv
  <2>2. ASSUME fillMid # None, events = <<>>
        PROVE  \E k \in DOMAIN eventLog :
                 /\ Ou!IsLastBought(eventLog, k)
                 /\ Ou!InReach(k) /\ Ou!Stands(k) => Ou!AtLeast(Ou!LastFillMid(Ou!KeptEvents, Ou!KeptMids), fillMid)
    <3>1. Ou!Queued = eventLog
      BY <2>1, <2>2, OutQueuedIs
    <3>2. PICK k \in DOMAIN eventLog :
            /\ Ou!IsLastBought(eventLog, k)
            /\ \/ Ou!AtLeast(eventLog[k].fillMid, fillMid)
               \/ eventLog[k].id < firstEvent /\ Ou!AtLeast(Ou!FillMidSeen(eventLog[k].at, sampled), fillMid)
      BY <2>1, <2>2, <3>1 DEF Ou!Weighed
    <3>3. Ou!InReach(k) /\ Ou!Stands(k) => Ou!AtLeast(Ou!LastFillMid(Ou!KeptEvents, Ou!KeptMids), fillMid)
      BY <1>1, <2>2, <3>2, ReadBackHolds
    <3> QED BY <3>2, <3>3
  <2> QED BY <2>1, <2>2 DEF Ou!FillsAreKept, Ou!FillMidSurvives
<1> QED BY <1>1, OutIsKept, PTL

===============================================================================
