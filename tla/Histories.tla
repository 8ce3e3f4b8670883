------------------------------ MODULE Histories ------------------------------
(* The farmer's reads of its markets' trades (farm/reward_farmer.py: Histories, Farmer.save_tapes,
   seed_histories): the main loop writes what it wants read, a thread of its own reads it, the
   flush saves the buy tapes read, and the next run starts from what was saved. *)
EXTENDS Integers, SequencesExt

CONSTANTS Markets,
          Wants,     \* what a cycle may want read, in order: sequences of [market, floor]
          HistoryS,  \* HISTORY_S
          RetryS,    \* HISTORY_RETRY_S
          SeedS,     \* HISTORY_SEED_S
          MaxNow,    \* bound on the time
          MaxReads,  \* bound on the reads made
          None

HistoriesAssumption ==
  /\ Wants \subseteq Seq([market : Markets, floor : Int])
  /\ HistoryS \in Nat /\ RetryS \in Nat /\ None \notin Int

VARIABLES now,
          alive,     \* the farmer runs
          wanted,    \* Histories.wanted, an ordered dict
          read,      \* Histories.read: [id, at, floor, tape], the tape the id of its own read
          due,       \* Histories._due: [at, want]
          fetching,  \* the read under way: [want, at]
          shown,     \* the history of each managed market's snapshot
          flushing,  \* the tapes a flush has yet to look at: [reads, left]
          saved,     \* Farmer.saved_tapes
          states,    \* farm.db: the history in each farm_state row
          tapes,     \* farm.db: fav_buys
          reads      \* the reads made so far
stores == <<states, tapes>>
vars == <<now, alive, wanted, read, due, fetching, shown, flushing, saved, stores, reads>>

Nothing == [c \in Markets |-> None]
Wanted(c) == \E i \in DOMAIN wanted : wanted[i].market = c
WantOf(c) == wanted[CHOOSE i \in DOMAIN wanted : wanted[i].market = c]
Kept(of) == [c \in Markets |-> IF Wanted(c) THEN of[c] ELSE None]

Init ==
  /\ now = 0 /\ alive = FALSE /\ wanted = <<>> /\ read = Nothing /\ due = Nothing
  /\ fetching = None /\ shown = Nothing /\ flushing = None /\ saved = Nothing
  /\ states = Nothing /\ tapes = Nothing /\ reads = 0

Tick ==
  /\ now < MaxNow /\ now' = now + 1
  /\ UNCHANGED <<alive, wanted, read, due, fetching, shown, flushing, saved, stores, reads>>

(***************************************************************************)
(* The reader's thread                                                     *)
(***************************************************************************)

IsDue(w) ==
  LET d == due[w.market] IN d = None \/ now >= d.at \/ d.want # w

Due == {i \in DOMAIN wanted : IsDue(wanted[i])}
Unread(i) == read[wanted[i].market] = None
\* The first of the wanted markets that are due, one without a read before any that has one.
NextToRead(i) == \A j \in Due \ {i} : IF Unread(i) = Unread(j) THEN i < j ELSE Unread(i)

\* The reader looks at what is wanted afresh, forgets the rest and sends the requests of a read.
Look ==
  /\ alive /\ fetching = None /\ reads < MaxReads
  /\ read' = Kept(read) /\ due' = Kept(due)
  /\ Due = {} => fetching' = None
  /\ Due # {} => \E i \in Due : NextToRead(i) /\ fetching' = [want |-> wanted[i], at |-> now]
  /\ UNCHANGED <<now, alive, wanted, shown, flushing, saved, stores, reads>>

\* Fault: a read counts for what is wanted of its market by the time it lands.
ReadForNow(f, delay) ==
  [at |-> f.at + delay, want |-> IF Wanted(f.want.market) THEN WantOf(f.want.market) ELSE f.want]

\* When a read is due again, and what it was made for.
ReadFor(f, delay) == [at |-> f.at + delay, want |-> f.want]

\* The answers are in: the read is published whole, stamped with the time it began.
Land ==
  /\ fetching # None
  /\ reads' = reads + 1
  /\ read' = [read EXCEPT ![fetching.want.market] =
                [id |-> reads', at |-> fetching.at, floor |-> fetching.want.floor, tape |-> reads']]
  /\ due' = [due EXCEPT ![fetching.want.market] = ReadFor(fetching, HistoryS)]
  /\ fetching' = None
  /\ UNCHANGED <<now, alive, wanted, shown, flushing, saved, stores>>

\* A request failed: the last read stays.
Miss ==
  /\ fetching # None
  /\ due' = [due EXCEPT ![fetching.want.market] = ReadFor(fetching, RetryS)]
  /\ fetching' = None
  /\ UNCHANGED <<now, alive, wanted, read, shown, flushing, saved, stores, reads>>

(***************************************************************************)
(* The main loop                                                           *)
(***************************************************************************)

\* Farmer.reload at a cycle's start, then Farmer.settle: each snapshot shows the history it
\* was planned with.
Cycle ==
  /\ alive /\ flushing = None
  /\ wanted' \in Wants
  /\ shown' = [c \in Markets |->
                 IF \E i \in DOMAIN wanted' : wanted'[i].market = c
                 THEN IF read[c] = None THEN None ELSE [read[c] EXCEPT !.tape = None]
                 ELSE None]
  /\ UNCHANGED <<now, alive, read, due, fetching, flushing, saved, stores, reads>>

\* Farmer.flush takes the reads there are once, and looks at each.
Flush ==
  /\ alive /\ flushing = None
  /\ flushing' = [reads |-> read, left |-> {c \in Markets : read[c] # None}]
  /\ UNCHANGED <<now, alive, wanted, read, due, fetching, shown, saved, stores, reads>>

TapeOf(r) == IF r = None THEN None ELSE r.tape
\* A tape that is not the one last saved.
Unsaved(c) == TapeOf(flushing.reads[c]) \notin {None, saved[c]}

\* Each changed tape is a transaction of its own.
SaveTape(c) ==
  /\ flushing # None /\ c \in flushing.left
  /\ flushing' = [flushing EXCEPT !.left = @ \ {c}]
  /\ tapes' = IF Unsaved(c) THEN [tapes EXCEPT ![c] = flushing.reads[c]] ELSE tapes
  /\ UNCHANGED <<now, alive, wanted, read, due, fetching, shown, saved, states, reads>>

\* Fault: the tapes saved are taken to be those there are once the last is saved.
SavedNow(f) == [c \in Markets |-> TapeOf(read[c])]

\* What counts as saved from then on: the tapes of the reads taken.
SavedOf(f) == [c \in Markets |-> TapeOf(f.reads[c])]

\* farm_db.publish: the states replaced whole. The database may fail it, after the tapes.
Publish(works) ==
  /\ flushing # None /\ flushing.left = {}
  /\ saved' = SavedOf(flushing)
  /\ states' = IF works THEN shown ELSE states
  /\ flushing' = None
  /\ UNCHANGED <<now, alive, wanted, read, due, fetching, shown, tapes, reads>>

\* A save fails: the flush ends there.
SaveFails ==
  /\ flushing # None /\ \E c \in flushing.left : Unsaved(c)
  /\ flushing' = None
  /\ UNCHANGED <<now, alive, wanted, read, due, fetching, shown, saved, stores, reads>>

(***************************************************************************)
(* The end of a run and the start of the next                              *)
(***************************************************************************)

Stop ==
  /\ alive /\ alive' = FALSE
  /\ wanted' = <<>> /\ read' = Nothing /\ due' = Nothing /\ fetching' = None
  /\ shown' = Nothing /\ flushing' = None /\ saved' = Nothing
  /\ UNCHANGED <<now, stores, reads>>

Fresh(r) == r # None /\ now - r.at < SeedS

\* Farmer.seed_histories: a fresh history seeds, with its market's tape while that is fresh too.
Seed(c) == IF Fresh(states[c])
           THEN [states[c] EXCEPT !.tape = IF Fresh(tapes[c]) THEN tapes[c].tape ELSE None]
           ELSE None

Start ==
  /\ ~alive /\ alive' = TRUE
  /\ wanted' \in Wants
  /\ read' = [c \in Markets |-> IF \E i \in DOMAIN wanted' : wanted'[i].market = c
                                THEN Seed(c) ELSE None]
  /\ saved' = [c \in Markets |-> TapeOf(read'[c])]
  /\ UNCHANGED <<now, due, fetching, shown, flushing, stores, reads>>

Next ==
  \/ Tick \/ Look \/ Land \/ Miss \/ Cycle \/ Flush
  \/ \E c \in Markets : SaveTape(c)
  \/ \E works \in BOOLEAN : Publish(works)
  \/ SaveFails \/ Stop \/ Start
Spec == Init /\ [][Next]_vars

(***************************************************************************)
(* What the main loop and the next run may rely on                         *)
(***************************************************************************)

\* However the reader, the main loop and its flushes fall in with each other: a tape the farmer
\* takes for saved is in the database, or a later one of its market is, so the next run can
\* start from it; and a market
\* the reader leaves alone for longer than a retry has a read of what is wanted of it now, no
\* older than HistoryS.
ReadsAreKept ==
  alive =>
    /\ \A c \in Markets : saved[c] # None => tapes[c] # None /\ tapes[c].tape >= saved[c]
    /\ \A i \in DOMAIN wanted :
         LET w == wanted[i]
             d == due[w.market]
         IN d # None /\ d.want = w /\ now + RetryS < d.at =>
              /\ read[w.market] # None /\ read[w.market].floor = w.floor
              /\ now - read[w.market].at < HistoryS

(***************************************************************************)
(* Why it holds                                                            *)
(***************************************************************************)

Reads == [id : Int, at : Int, floor : Int, tape : Int \cup {None}]
Shapes ==
  /\ now \in Int /\ reads \in Int
  /\ wanted \in Seq([market : Markets, floor : Int])
  /\ \A f \in {read, shown, states, tapes} : f \in [Markets -> Reads \cup {None}]
  /\ due \in [Markets -> [at : Int, want : [market : Markets, floor : Int]] \cup {None}]
  /\ saved \in [Markets -> Int \cup {None}]
  /\ fetching \in [want : [market : Markets, floor : Int], at : Int] \cup {None}
  /\ flushing \in [reads : [Markets -> Reads \cup {None}], left : SUBSET Markets] \cup {None}
  /\ \A c \in Markets : tapes[c] # None => tapes[c].tape # None

\* No tape is newer than the last read, and a later read's is newer than the one saved.
AtMost(x, y) == x # None /\ y # None => x <= y
TapesGrow ==
  \A c \in Markets :
    /\ \A x \in {TapeOf(read[c]), TapeOf(tapes[c]), saved[c]} : AtMost(x, reads)
    /\ AtMost(saved[c], TapeOf(read[c]))
    /\ flushing # None => /\ AtMost(TapeOf(flushing.reads[c]), reads)
                          /\ AtMost(saved[c], TapeOf(flushing.reads[c]))
                          /\ AtMost(TapeOf(flushing.reads[c]), TapeOf(read[c]))

\* What a tape is saved as covers it; a flush has covered all but those it has yet to look at.
Covers(c, x) == x # None => tapes[c] # None /\ tapes[c].tape >= x
Covered ==
  \A c \in Markets :
    /\ Covers(c, saved[c])
    /\ flushing # None /\ c \notin flushing.left => Covers(c, TapeOf(flushing.reads[c]))

\* A market not due for longer than a retry was read, for what its next read is due for.
ReadForDue ==
  /\ fetching # None => fetching.at <= now
  /\ \A c \in Markets : due[c] # None /\ now + RetryS < due[c].at =>
       read[c] # None /\ read[c].floor = due[c].want.floor /\ due[c].at = read[c].at + HistoryS

\* A run that is down has nothing under way.
DownIsEmpty ==
  ~alive => /\ fetching = None /\ flushing = None /\ wanted = <<>>
            /\ read = Nothing /\ due = Nothing /\ saved = Nothing

HisInv == Shapes /\ TapesGrow /\ Covered /\ ReadForDue /\ DownIsEmpty
=============================================================================
