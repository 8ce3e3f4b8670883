------------------------------- MODULE Sniper -------------------------------
(***************************************************************************)
(* The sniper of tools/sniper.py with the rows of tools.db it works on,    *)
(* the console that arms and disarms them, the worker runs that start,     *)
(* stop, crash or are replaced around it, and the exchange that answers    *)
(* its posts.                                                              *)
(*                                                                         *)
(* A worker run (an element of Proc) owns four lanes: control, which is    *)
(* the only one that touches tools.db; feed and poll, which see the tick   *)
(* and post inline; slow, which adopts watches and retries refused posts.  *)
(* The lanes share memory without a lock other than Watch.claim().  A      *)
(* restart of the worker is another element of Proc.                       *)
(***************************************************************************)
EXTENDS Naturals, Sequences, FiniteSets

CONSTANTS
  Watch,        \* watch rows, by id
  Token,        \* outcome tokens
  TokenOf,      \* the token of each watch
  Dry,          \* the watches armed as dry runs
  Guarded,      \* the watches with a guard
  Hot,          \* the lanes that see ticks: feed and poll
  Proc,         \* worker runs, in no order: each starts at most once
  Keyed,        \* the worker runs that hold a key
  None,         \* no worker run, or no watch
  MaxAttempts,  \* posts that fit in RETRY_WINDOW_S at one per RETRY_DELAY_S
  May           \* what may happen to a worker: "stop", it is told to; "crash", it dies
                \* without a word; "stall", it misses its beats for STALE_AFTER_S but
                \* lives on; "db", a statement outlasts the busy timeout and raises

ASSUME ConstantsAssumption ==
  /\ TokenOf \in [Watch -> Token]
  /\ Dry \subseteq Watch
  /\ Guarded \subseteq Watch
  /\ Keyed \subseteq Proc
  /\ "slow" \notin Hot
  /\ None \notin Proc \cup Watch
  /\ MaxAttempts \in Nat \ {0}
  /\ May \subseteq {"stop", "crash", "stall", "db"}

VARIABLES
  \* tools.db
  state,     \* watches.state, "none" before the row is inserted
  reason,    \* watches.reason
  asked,     \* the watches with a disarm_requested_at
  closer,    \* history: the worker run that closed the row
  status,    \* worker_status: the run that owns it, and whether it stopped
  \* the memory of each worker run
  ctl,       \* where its control lane is
  stop,      \* its stop event
  adopted,   \* _adopted
  routed,    \* _armed, by watch instead of by token
  claimed,   \* the watches whose claim lock is taken
  abort,     \* the watches with abort set
  inbox,     \* _control_inbox
  joins,     \* _slow_adoptions
  fire,      \* the stage of each Fire
  attempts,  \* Fire.attempts
  lane,      \* what the feed, poll and slow lanes are doing
  view,      \* the rows the running reconcile read
  \* the exchange
  ticked,    \* tokens whose tick has reached the target
  sent,      \* the last post of a run for a watch
  orders     \* orders the exchange accepted from a run for a watch

db   == <<state, reason, closer>>
life == <<ctl, stop, status>>
ctlMem == <<adopted, routed, abort, view>>
fireMem == <<fire, attempts>>
exchange == <<ticked, sent, orders>>
vars == <<db, asked, life, ctlMem, claimed, inbox, joins, fireMem, lane, exchange>>

-----------------------------------------------------------------------------
(* Rows and outcomes                                                       *)

OpenStates == {"armed", "firing"}
ClosedStates == {"fired", "rehearsed", "rejected", "missed", "failed", "disarmed"}
Reasons == {"none", "at_target", "guard", "venue", "sign", "stopped",
            "unanswered", "interrupted"}

IsOpen(w) == state[w] \in OpenStates

Outcome == {"missed", "guard_refused", "posted", "rehearsed", "refused", "unanswered",
            "unsigned", "cut_disarm", "cut_stop", "disarmed", "interrupted"}

Settle(o) ==
  CASE o = "missed"        -> [state |-> "missed",    reason |-> "at_target"]
    [] o = "guard_refused" -> [state |-> "rejected",  reason |-> "guard"]
    [] o = "posted"        -> [state |-> "fired",     reason |-> "none"]
    [] o = "rehearsed"     -> [state |-> "rehearsed", reason |-> "none"]
    [] o = "refused"       -> [state |-> "failed",    reason |-> "venue"]
    [] o = "unanswered"    -> [state |-> "failed",    reason |-> "unanswered"]
    [] o = "unsigned"      -> [state |-> "failed",    reason |-> "sign"]
    [] o = "cut_disarm"    -> [state |-> "disarmed",  reason |-> "none"]
    [] o = "cut_stop"      -> [state |-> "failed",    reason |-> "stopped"]
    [] o = "disarmed"      -> [state |-> "disarmed",  reason |-> "none"]
    [] o = "interrupted"   -> [state |-> "failed",    reason |-> "interrupted"]

\* Fault: the update does not ask whether the row is still open.
CloseRowAnyway(p, w, o) ==
  /\ state' = [state EXCEPT ![w] = Settle(o).state]
  /\ reason' = [reason EXCEPT ![w] = Settle(o).reason]
  /\ closer' = [closer EXCEPT ![w] = p]

\* close_watch: an open row takes the settlement, a closed one is left as it is.
CloseRow(p, w, o) ==
  IF IsOpen(w)
  THEN /\ state' = [state EXCEPT ![w] = Settle(o).state]
       /\ reason' = [reason EXCEPT ![w] = Settle(o).reason]
       /\ closer' = [closer EXCEPT ![w] = p]
  ELSE UNCHANGED db

(* What a lane leaves for the control lane: a watch and what became of it. *)
Event == [watch : Watch, what : {"prepared", "claimed"} \cup Outcome]

Tell(p, w, what) ==
  inbox' = [inbox EXCEPT ![p] = Append(@, [watch |-> w, what |-> what])]

-----------------------------------------------------------------------------
(* Lanes and worker runs                                                   *)

Lane == Hot \cup {"slow"}
Idle == [at |-> "idle", watch |-> None]
LaneStage == {"seen", "firing", "reading", "ready"}

FireStage == {"none", "won", "attempt", "posting", "waiting", "due", "over"}
Pending == {"waiting", "due"}        \* in _slow_retries or _slow_fires
UnderWay == FireStage \ {"none", "over"}

CtlStage == {"new", "starting", "serving", "reconciling", "claiming", "joining",
             "cutting", "draining", "closed", "dead"}
Alive(p) == ctl[p] \notin {"new", "dead"}
LanesUp(p) == ctl[p] \in {"serving", "reconciling", "claiming", "joining"}

\* Fault: the rows are read without their disarm request.
ViewOfUnasked(w) == IF IsOpen(w) THEN state[w] ELSE "shut"

ViewOf(w) ==
  CASE ~IsOpen(w)                              -> "shut"
    [] state[w] = "armed"  /\ w \notin asked   -> "armed"
    [] state[w] = "armed"  /\ w \in asked      -> "asked"
    [] state[w] = "firing" /\ w \notin asked   -> "firing"
    [] state[w] = "firing" /\ w \in asked      -> "asked_firing"
\* "written": the row was closed, and the line that says so is still to be logged.
ViewStage == {"shut", "armed", "asked", "firing", "asked_firing", "written", "done"}
NoView == [w \in Watch |-> "shut"]

OnLane(p, l, stage) == lane[p][l].at = stage
GoTo(p, l, stage, w) == lane' = [lane EXCEPT ![p][l] = [at |-> stage, watch |-> w]]
Free(p, l) == lane' = [lane EXCEPT ![p][l] = Idle]
Stage(p, w, stage) == fire' = [fire EXCEPT ![p][w] = stage]

\* The process is gone and its memory with it.
MemoryLost(p) ==
  /\ ctl' = [ctl EXCEPT ![p] = "dead"]
  /\ adopted' = [adopted EXCEPT ![p] = {}]
  /\ routed' = [routed EXCEPT ![p] = {}]
  /\ claimed' = [claimed EXCEPT ![p] = {}]
  /\ abort' = [abort EXCEPT ![p] = {}]
  /\ inbox' = [inbox EXCEPT ![p] = <<>>]
  /\ joins' = [joins EXCEPT ![p] = {}]
  /\ fire' = [fire EXCEPT ![p] = [w \in Watch |-> "none"]]
  /\ attempts' = [attempts EXCEPT ![p] = [w \in Watch |-> 0]]
  /\ lane' = [lane EXCEPT ![p] = [l \in Lane |-> Idle]]
  /\ view' = [view EXCEPT ![p] = NoView]

-----------------------------------------------------------------------------
Init ==
  /\ state = [w \in Watch |-> "none"]
  /\ reason = [w \in Watch |-> "none"]
  /\ asked = {}
  /\ closer = [w \in Watch |-> None]
  /\ status = [who |-> None, stopped |-> TRUE]
  /\ ctl = [p \in Proc |-> "new"]
  /\ stop = [p \in Proc |-> FALSE]
  /\ adopted = [p \in Proc |-> {}]
  /\ routed = [p \in Proc |-> {}]
  /\ claimed = [p \in Proc |-> {}]
  /\ abort = [p \in Proc |-> {}]
  /\ inbox = [p \in Proc |-> <<>>]
  /\ joins = [p \in Proc |-> {}]
  /\ fire = [p \in Proc |-> [w \in Watch |-> "none"]]
  /\ attempts = [p \in Proc |-> [w \in Watch |-> 0]]
  /\ lane = [p \in Proc |-> [l \in Lane |-> Idle]]
  /\ view = [p \in Proc |-> NoView]
  /\ ticked = {}
  /\ sent = [p \in Proc |-> [w \in Watch |-> "none"]]
  /\ orders = [p \in Proc |-> [w \in Watch |-> 0]]

-----------------------------------------------------------------------------
(* The console and the passing of time around a worker                     *)

\* db.arm_watch: the unique index refuses a second open watch of a token.
Arm(w) ==
  /\ state[w] = "none"
  /\ \A v \in Watch : TokenOf[v] = TokenOf[w] => ~IsOpen(v)
  /\ state' = [state EXCEPT ![w] = "armed"]
  /\ UNCHANGED <<reason, closer, asked, life, ctlMem, claimed, inbox, joins, fireMem, lane,
                 exchange>>

RequestDisarm(w) ==
  /\ IsOpen(w)
  /\ w \notin asked
  /\ asked' = asked \cup {w}
  /\ UNCHANGED <<db, life, ctlMem, claimed, inbox, joins, fireMem, lane, exchange>>

\* db.start_worker takes the row of a run that stopped, or whose last beat is
\* STALE_AFTER_S old: the run is dead, or it stalled.
StartWorker(p) ==
  /\ ctl[p] = "new"
  /\ status.stopped \/ "stall" \in May \/ status.who \in {q \in Proc : ctl[q] = "dead"}
  /\ status' = [who |-> p, stopped |-> FALSE]
  /\ ctl' = [ctl EXCEPT ![p] = "starting"]
  /\ UNCHANGED <<db, asked, stop, ctlMem, claimed, inbox, joins, fireMem, lane, exchange>>

\* db.beat finds another run in this one's place: the worker stops itself.
BeatFails(p) ==
  /\ Alive(p)
  /\ ~stop[p]
  /\ status.who # p
  /\ stop' = [stop EXCEPT ![p] = TRUE]
  /\ UNCHANGED <<db, asked, ctl, status, ctlMem, claimed, inbox, joins, fireMem, lane, exchange>>

\* Ctrl+C, a terminate signal, or a lane that raised.
StopSignal(p) ==
  /\ "stop" \in May
  /\ Alive(p)
  /\ ~stop[p]
  /\ stop' = [stop EXCEPT ![p] = TRUE]
  /\ UNCHANGED <<db, asked, ctl, status, ctlMem, claimed, inbox, joins, fireMem, lane,
                 exchange>>

\* The worker's finally, once the sniper's thread has ended.
StopWorker(p) ==
  /\ ctl[p] = "closed"
  /\ status' = IF status.who = p THEN [status EXCEPT !.stopped = TRUE] ELSE status
  /\ MemoryLost(p)
  /\ UNCHANGED <<db, asked, stop, exchange>>

Crash(p) ==
  /\ "crash" \in May
  /\ Alive(p)
  /\ MemoryLost(p)
  /\ UNCHANGED <<db, asked, stop, status, exchange>>

-----------------------------------------------------------------------------
(* The control lane                                                        *)

\* Fault: what a dead run left firing is closed as if it had been told to stop.
OpenAsStopped(p) ==
  /\ ctl[p] = "starting"
  /\ LET left == {w \in Watch : state[w] = "firing"}
         end == Settle("cut_stop")
     IN /\ state' = [w \in Watch |-> IF w \in left THEN end.state ELSE state[w]]
        /\ reason' = [w \in Watch |-> IF w \in left THEN end.reason ELSE reason[w]]
        /\ closer' = [w \in Watch |-> IF w \in left THEN p ELSE closer[w]]
  /\ ctl' = [ctl EXCEPT ![p] = "serving"]
  /\ UNCHANGED <<asked, stop, status, ctlMem, claimed, inbox, joins, fireMem, lane, exchange>>

\* open: the firing rows of an earlier run are closed in one transaction.
OpenSniper(p) ==
  /\ ctl[p] = "starting"
  /\ LET left == {w \in Watch : state[w] = "firing"}
         end == Settle("interrupted")
     IN /\ state' = [w \in Watch |-> IF w \in left THEN end.state ELSE state[w]]
        /\ reason' = [w \in Watch |-> IF w \in left THEN end.reason ELSE reason[w]]
        /\ closer' = [w \in Watch |-> IF w \in left THEN p ELSE closer[w]]
  /\ ctl' = [ctl EXCEPT ![p] = "serving"]
  /\ UNCHANGED <<asked, stop, status, ctlMem, claimed, inbox, joins, fireMem, lane, exchange>>

OpenFails(p) ==
  /\ "db" \in May
  /\ ctl[p] = "starting"
  /\ ctl' = [ctl EXCEPT ![p] = "closed"]
  /\ stop' = [stop EXCEPT ![p] = TRUE]
  /\ UNCHANGED <<db, asked, status, ctlMem, claimed, inbox, joins, fireMem, lane, exchange>>

\* A statement of a drain raises. run's finally closes the sniper; raised inside that
\* close, it ends it.
DrainRaises(p) ==
  /\ "db" \in May
  /\ ctl' = [ctl EXCEPT ![p] = IF @ = "draining" THEN "closed" ELSE "claiming"]
  /\ stop' = [stop EXCEPT ![p] = TRUE]
  /\ UNCHANGED status

\* The lines of an event are logged once all else it asks for was done, each in a
\* transaction of its own.
Logs(p) == UNCHANGED life \/ DrainRaises(p)

Draining(p) == ctl[p] \in {"serving", "draining"} /\ inbox[p] # <<>>
PopEvent(p) == inbox' = [inbox EXCEPT ![p] = Tail(@)]

DrainUnknown(p) ==
  /\ Draining(p)
  /\ Head(inbox[p]).watch \notin adopted[p]
  /\ PopEvent(p)
  /\ UNCHANGED <<db, asked, life, ctlMem, claimed, joins, fireMem, lane, exchange>>

DrainPrepared(p) ==
  /\ Draining(p)
  /\ LET w == Head(inbox[p]).watch IN
     /\ w \in adopted[p]
     /\ Head(inbox[p]).what = "prepared"
     /\ routed' = IF w \in claimed[p] THEN routed
                  ELSE [routed EXCEPT ![p] =
                          {v \in @ : TokenOf[v] # TokenOf[w]} \cup {w}]
     /\ IF w \in claimed[p] THEN UNCHANGED life ELSE Logs(p)
  /\ PopEvent(p)
  /\ UNCHANGED <<db, asked, adopted, abort, view, claimed, joins, fireMem, lane, exchange>>

\* mark_firing: only a row that is still armed.
DrainClaimed(p) ==
  /\ Draining(p)
  /\ LET w == Head(inbox[p]).watch IN
     /\ w \in adopted[p]
     /\ Head(inbox[p]).what = "claimed"
     /\ state' = IF state[w] = "armed" THEN [state EXCEPT ![w] = "firing"] ELSE state
  /\ Logs(p)
  /\ PopEvent(p)
  /\ UNCHANGED <<reason, closer, asked, ctlMem, claimed, joins, fireMem, lane, exchange>>

Forget(p, W) ==
  /\ adopted' = [adopted EXCEPT ![p] = @ \ W]
  /\ routed' = [routed EXCEPT ![p] = @ \ W]

DrainResolved(p) ==
  /\ Draining(p)
  /\ LET w == Head(inbox[p]).watch
         o == Head(inbox[p]).what
     IN /\ w \in adopted[p]
        /\ o \in Outcome
        /\ CloseRow(p, w, o)
        /\ Forget(p, {w})
        /\ IF IsOpen(w) THEN Logs(p) ELSE UNCHANGED life
  /\ PopEvent(p)
  /\ UNCHANGED <<asked, abort, view, claimed, joins, fireMem, lane, exchange>>

\* The event is off the deque when the statement that writes its row raises.
DrainFails(p) ==
  /\ Draining(p)
  /\ Head(inbox[p]).watch \in adopted[p]
  /\ PopEvent(p)
  /\ DrainRaises(p)
  /\ UNCHANGED <<db, asked, ctlMem, claimed, joins, fireMem, lane, exchange>>

\* A tick drains the inbox before it reconciles; an event that arrives between the two
\* could as well arrive after the read. The rows acted on are the ones read here.
ReconcileReads(p) ==
  /\ ctl[p] = "serving"
  /\ inbox[p] = <<>>
  /\ ctl' = [ctl EXCEPT ![p] = "reconciling"]
  /\ view' = [view EXCEPT ![p] = [w \in Watch |-> ViewOf(w)]]
  /\ UNCHANGED <<db, asked, stop, status, adopted, routed, abort, claimed, inbox, joins,
                 fireMem, lane, exchange>>

RowDone(p, w) == view' = [view EXCEPT ![p][w] = "done"]

\* The rows read are acted on one after the other.
TakesRow(p) == ctl[p] = "reconciling" /\ \A v \in Watch : view[p][v] # "written"

\* _disarm's first transaction.
DisarmWrites(p, w) ==
  /\ CloseRow(p, w, "disarmed")
  /\ view' = [view EXCEPT ![p][w] = "written"]

DisarmUnadopted(p, w) ==
  /\ TakesRow(p)
  /\ view[p][w] = "asked"
  /\ w \notin adopted[p]
  /\ DisarmWrites(p, w)
  /\ UNCHANGED <<asked, life, adopted, routed, abort, claimed, inbox, joins, fireMem, lane,
                 exchange>>

DisarmWins(p, w) ==
  /\ TakesRow(p)
  /\ view[p][w] \in {"asked", "asked_firing"}
  /\ w \in adopted[p] \ claimed[p]
  /\ claimed' = [claimed EXCEPT ![p] = @ \cup {w}]
  /\ DisarmWrites(p, w)
  /\ UNCHANGED <<asked, life, adopted, routed, abort, inbox, joins, fireMem, lane, exchange>>

\* Its second: the line is logged and only then is a watch that was held forgotten.
\* ReconcileFails is the line that cannot be.
DisarmLogged(p, w) ==
  /\ ctl[p] = "reconciling"
  /\ view[p][w] = "written"
  /\ Forget(p, {w})
  /\ RowDone(p, w)
  /\ UNCHANGED <<db, asked, life, abort, claimed, inbox, joins, fireMem, lane, exchange>>

\* Fault: a disarm closes the row although a lane won the claim.
DisarmCloses(p, w) ==
  /\ TakesRow(p)
  /\ view[p][w] \in {"asked", "asked_firing"}
  /\ w \in adopted[p] \cap claimed[p]
  /\ DisarmWrites(p, w)
  /\ UNCHANGED <<asked, life, adopted, routed, abort, claimed, inbox, joins, fireMem, lane,
                 exchange>>

DisarmLoses(p, w) ==
  /\ TakesRow(p)
  /\ view[p][w] \in {"asked", "asked_firing"}
  /\ w \in adopted[p] \cap claimed[p]
  /\ abort' = [abort EXCEPT ![p] = @ \cup {w}]
  /\ RowDone(p, w)
  /\ UNCHANGED <<db, asked, life, adopted, routed, claimed, inbox, joins, fireMem, lane,
                 exchange>>

\* A run without a key adopts dry rows only.
MayAdopt(p, w) == view[p][w] = "armed" /\ w \notin adopted[p] /\ (w \in Dry \/ p \in Keyed)

Adopt(p, w) ==
  /\ TakesRow(p)
  /\ MayAdopt(p, w)
  /\ adopted' = [adopted EXCEPT ![p] = @ \cup {w}]
  /\ joins' = [joins EXCEPT ![p] = @ \cup {w}]
  /\ RowDone(p, w)
  /\ UNCHANGED <<db, asked, life, routed, abort, claimed, inbox, fireMem, lane, exchange>>

\* Every row read was acted on; what is adopted and was not read is forgotten.
ReconcileEnds(p) ==
  /\ TakesRow(p)
  /\ \A w \in Watch :
       /\ view[p][w] # "asked"
       /\ ~(view[p][w] = "asked_firing" /\ w \in adopted[p])
       /\ ~MayAdopt(p, w)
  /\ LET shut == {w \in adopted[p] : view[p][w] = "shut"} IN
     /\ claimed' = [claimed EXCEPT ![p] = @ \cup shut]
     /\ Forget(p, shut)
  /\ ctl' = [ctl EXCEPT ![p] = "serving"]
  /\ view' = [view EXCEPT ![p] = NoView]
  /\ UNCHANGED <<db, asked, stop, status, abort, inbox, joins, fireMem, lane, exchange>>

\* The rows cannot be read, or a statement of a disarm raises: before its row is closed,
\* or after, which leaves the watch held, its claim taken.
ReconcileFails(p) ==
  /\ "db" \in May
  /\ ctl[p] = "reconciling"
  /\ ctl' = [ctl EXCEPT ![p] = "claiming"]
  /\ stop' = [stop EXCEPT ![p] = TRUE]
  /\ view' = [view EXCEPT ![p] = NoView]
  /\ UNCHANGED <<db, asked, status, adopted, routed, abort, claimed, inbox, joins, fireMem,
                 lane, exchange>>

Reconcile(p) ==
  \/ ReconcileReads(p)
  \/ \E w \in Watch : DisarmUnadopted(p, w) \/ DisarmWins(p, w) \/ DisarmLoses(p, w)
                      \/ DisarmLogged(p, w) \/ Adopt(p, w)
  \/ ReconcileEnds(p)

LeaveLoop(p) ==
  /\ ctl[p] = "serving"
  /\ stop[p]
  /\ ctl' = [ctl EXCEPT ![p] = "claiming"]
  /\ UNCHANGED <<db, asked, stop, status, ctlMem, claimed, inbox, joins, fireMem, lane,
                 exchange>>

\* close, in its order: claim what is adopted, join the lanes, cut the fires that
\* are due, drain once more.
CloseClaims(p) ==
  /\ ctl[p] = "claiming"
  /\ claimed' = [claimed EXCEPT ![p] = @ \cup adopted[p]]
  /\ ctl' = [ctl EXCEPT ![p] = "joining"]
  /\ UNCHANGED <<db, asked, stop, status, ctlMem, inbox, joins, fireMem, lane, exchange>>

\* Fault: the slow lane is waited for until its queue is empty.
CloseWaitsForQueue(p) ==
  /\ ctl[p] = "joining"
  /\ joins[p] = {}
  /\ \A l \in Lane : lane[p][l] = Idle
  /\ ctl' = [ctl EXCEPT ![p] = "cutting"]
  /\ UNCHANGED <<db, asked, stop, status, ctlMem, claimed, inbox, joins, fireMem, lane,
                 exchange>>

CloseJoins(p) ==
  /\ ctl[p] = "joining"
  /\ \A l \in Lane : lane[p][l] = Idle
  /\ ctl' = [ctl EXCEPT ![p] = "cutting"]
  /\ UNCHANGED <<db, asked, stop, status, ctlMem, claimed, inbox, joins, fireMem, lane,
                 exchange>>

CutBy(p, w) == IF w \in abort[p] THEN "cut_disarm" ELSE "cut_stop"

CloseCuts(p, w) ==
  /\ ctl[p] = "cutting"
  /\ fire[p][w] = "due"
  /\ Tell(p, w, CutBy(p, w))
  /\ Stage(p, w, "over")
  /\ UNCHANGED <<db, asked, life, ctlMem, claimed, joins, attempts, lane, exchange>>

CloseDrains(p) ==
  /\ ctl[p] = "cutting"
  /\ \A w \in Watch : fire[p][w] # "due"
  /\ ctl' = [ctl EXCEPT ![p] = "draining"]
  /\ UNCHANGED <<db, asked, stop, status, ctlMem, claimed, inbox, joins, fireMem, lane,
                 exchange>>

CloseEnds(p) ==
  /\ ctl[p] = "draining"
  /\ inbox[p] = <<>>
  /\ ctl' = [ctl EXCEPT ![p] = "closed"]
  /\ UNCHANGED <<db, asked, stop, status, ctlMem, claimed, inbox, joins, fireMem, lane,
                 exchange>>

-----------------------------------------------------------------------------
(* The feed and poll lanes: from the tick to the post                      *)

\* An observation at the target tick of a routed watch, past the look at stop.
Observe(p, l, w) ==
  /\ LanesUp(p)
  /\ ~stop[p]
  /\ OnLane(p, l, "idle")
  /\ w \in routed[p]
  /\ TokenOf[w] \in ticked
  /\ GoTo(p, l, "seen", w)
  /\ UNCHANGED <<db, asked, life, ctlMem, claimed, inbox, joins, fireMem, exchange>>

\* Fault: the lane does not look whether the claim was won.
ClaimUnchecked(p, l) ==
  /\ OnLane(p, l, "seen")
  /\ claimed' = [claimed EXCEPT ![p] = @ \cup {lane[p][l].watch}]
  /\ Stage(p, lane[p][l].watch, "won")
  /\ GoTo(p, l, "firing", lane[p][l].watch)
  /\ UNCHANGED <<db, asked, life, ctlMem, inbox, joins, attempts, exchange>>

\* Watch.claim, at a hot lane: the lock is taken once and never released.
Claim(p, l) ==
  /\ OnLane(p, l, "seen")
  /\ \/ /\ lane[p][l].watch \in claimed[p]
        /\ Free(p, l)
        /\ UNCHANGED <<claimed, fire>>
     \/ /\ lane[p][l].watch \notin claimed[p]
        /\ claimed' = [claimed EXCEPT ![p] = @ \cup {lane[p][l].watch}]
        /\ Stage(p, lane[p][l].watch, "won")
        /\ GoTo(p, l, "firing", lane[p][l].watch)
  /\ UNCHANGED <<db, asked, life, ctlMem, inbox, joins, attempts, exchange>>

\* A lane at work on a watch whose fire is at this stage.
Firing(p, l, stage) == OnLane(p, l, "firing") /\ fire[p][lane[p][l].watch] = stage

\* The fire ends: its outcome goes to the control lane and the lane is free.
Resolve(p, l, o) ==
  /\ Tell(p, lane[p][l].watch, o)
  /\ Stage(p, lane[p][l].watch, "over")
  /\ Free(p, l)

GuardRefuses(p, l) ==
  /\ Firing(p, l, "won")
  /\ lane[p][l].watch \in Guarded
  /\ Resolve(p, l, "guard_refused")
  /\ UNCHANGED <<db, asked, life, ctlMem, claimed, joins, attempts, exchange>>

\* Fault: the control lane is not told that the order leaves.
GuardPassesSilently(p, l) ==
  /\ Firing(p, l, "won")
  /\ Stage(p, lane[p][l].watch, "attempt")
  /\ UNCHANGED <<db, asked, life, ctlMem, claimed, inbox, joins, attempts, lane, exchange>>

GuardPasses(p, l) ==
  /\ Firing(p, l, "won")
  /\ Tell(p, lane[p][l].watch, "claimed")
  /\ Stage(p, lane[p][l].watch, "attempt")
  /\ UNCHANGED <<db, asked, life, ctlMem, claimed, joins, attempts, lane, exchange>>

-----------------------------------------------------------------------------
(* One attempt, on the lane that makes it                                  *)

PostLeaves(p, l) ==
  /\ Firing(p, l, "attempt")
  /\ LET w == lane[p][l].watch IN
     /\ w \notin Dry
     /\ sent' = [sent EXCEPT ![p][w] = "out"]
     /\ Stage(p, w, "posting")
  /\ UNCHANGED <<db, asked, life, ctlMem, claimed, inbox, joins, attempts, lane, ticked,
                 orders>>

\* A keyless run rehearses without a signature.
SignFails(p, l) ==
  /\ Firing(p, l, "attempt")
  /\ p \in Keyed
  /\ Resolve(p, l, "unsigned")
  /\ UNCHANGED <<db, asked, life, ctlMem, claimed, joins, attempts, exchange>>

Rehearse(p, l) ==
  /\ Firing(p, l, "attempt")
  /\ lane[p][l].watch \in Dry
  /\ Resolve(p, l, "rehearsed")
  /\ UNCHANGED <<db, asked, life, ctlMem, claimed, joins, attempts, exchange>>

AnswerPosted(p, l) ==
  /\ Firing(p, l, "posting")
  /\ sent[p][lane[p][l].watch] = "accepted"
  /\ Resolve(p, l, "posted")
  /\ UNCHANGED <<db, asked, life, ctlMem, claimed, joins, attempts, exchange>>

\* A refusal another post may change: the fire waits for RETRY_DELAY_S.
AnswerRefused(p, l) ==
  /\ Firing(p, l, "posting")
  /\ LET w == lane[p][l].watch IN
     /\ sent[p][w] = "refused"
     /\ sent' = [sent EXCEPT ![p][w] = "none"]
     /\ Stage(p, w, "waiting")
     /\ attempts' = [attempts EXCEPT ![p][w] = @ + 1]
  /\ Free(p, l)
  /\ UNCHANGED <<db, asked, life, ctlMem, claimed, inbox, joins, ticked, orders>>

\* A refusal in TERMINAL_REFUSALS.
AnswerTerminal(p, l) ==
  /\ Firing(p, l, "posting")
  /\ sent[p][lane[p][l].watch] = "refused"
  /\ sent' = [sent EXCEPT ![p][lane[p][l].watch] = "none"]
  /\ Resolve(p, l, "refused")
  /\ UNCHANGED <<db, asked, life, ctlMem, claimed, joins, attempts, ticked, orders>>

\* Fault: a timeout is retried like a refusal.
AnswerNoneRetries(p, l) ==
  /\ Firing(p, l, "posting")
  /\ Stage(p, lane[p][l].watch, "waiting")
  /\ Free(p, l)
  /\ UNCHANGED <<db, asked, life, ctlMem, claimed, inbox, joins, attempts, exchange>>

\* Fault: a 5xx is taken for a refusal no retry can change.
AnswerNoneRefuses(p, l) ==
  /\ Firing(p, l, "posting")
  /\ Resolve(p, l, "refused")
  /\ UNCHANGED <<db, asked, life, ctlMem, claimed, joins, attempts, exchange>>

\* A timeout, a lost connection, a 5xx or an answer that cannot be read. What the
\* exchange made of the post, or will make of it, is unknown.
AnswerNone(p, l) ==
  /\ Firing(p, l, "posting")
  /\ Resolve(p, l, "unanswered")
  /\ UNCHANGED <<db, asked, life, ctlMem, claimed, joins, attempts, exchange>>

-----------------------------------------------------------------------------
(* The slow lane                                                           *)

\* next_at passes. close reads the clock once, after the lanes are joined.
FireDue(p, w) ==
  /\ LanesUp(p)
  /\ fire[p][w] = "waiting"
  /\ Stage(p, w, "due")
  /\ UNCHANGED <<db, asked, life, ctlMem, claimed, inbox, joins, attempts, lane, exchange>>

RetryReady(p, w) == LanesUp(p) /\ OnLane(p, "slow", "idle") /\ fire[p][w] = "due"

RetryCut(p, w) ==
  /\ RetryReady(p, w)
  /\ w \in abort[p] \/ stop[p]
  /\ Tell(p, w, CutBy(p, w))
  /\ Stage(p, w, "over")
  /\ UNCHANGED <<db, asked, life, ctlMem, claimed, joins, attempts, lane, exchange>>

\* The deadline has passed: the last refusal is the outcome. Slow posts may bring it
\* before MaxAttempts posts.
RetryGivesUp(p, w) ==
  /\ RetryReady(p, w)
  /\ ~(w \in abort[p] \/ stop[p])
  /\ Tell(p, w, "refused")
  /\ Stage(p, w, "over")
  /\ UNCHANGED <<db, asked, life, ctlMem, claimed, joins, attempts, lane, exchange>>

RetryStarts(p, w) ==
  /\ RetryReady(p, w)
  /\ ~(w \in abort[p] \/ stop[p])
  /\ attempts[p][w] < MaxAttempts
  /\ Stage(p, w, "attempt")
  /\ GoTo(p, "slow", "firing", w)
  /\ UNCHANGED <<db, asked, life, ctlMem, claimed, inbox, joins, attempts, exchange>>

\* One adoption, only while no fire waits for a retry.
PrepareStarts(p, w) ==
  /\ LanesUp(p)
  /\ ~stop[p]
  /\ OnLane(p, "slow", "idle")
  /\ \A v \in Watch : fire[p][v] \notin Pending
  /\ w \in joins[p]
  /\ joins' = [joins EXCEPT ![p] = @ \ {w}]
  /\ \/ w \in claimed[p] /\ UNCHANGED lane
     \/ w \notin claimed[p] /\ GoTo(p, "slow", "reading", w)
  /\ UNCHANGED <<db, asked, life, ctlMem, claimed, inbox, fireMem, exchange>>

\* Fault: a watch whose book cannot be read is not queued again.
PrepareFailsOnce(p) ==
  /\ lane[p]["slow"].at \in {"reading", "ready"}
  /\ Free(p, "slow")
  /\ UNCHANGED <<db, asked, life, ctlMem, claimed, inbox, joins, fireMem, exchange>>

\* The book or the prewarm cannot be read: _later puts the watch back in the queue.
PrepareFails(p) ==
  /\ lane[p]["slow"].at \in {"reading", "ready"}
  /\ joins' = [joins EXCEPT ![p] = @ \cup {lane[p]["slow"].watch}]
  /\ Free(p, "slow")
  /\ UNCHANGED <<db, asked, life, ctlMem, claimed, inbox, fireMem, exchange>>

PrepareDrops(p) ==
  /\ OnLane(p, "slow", "reading")
  /\ lane[p]["slow"].watch \in claimed[p]
  /\ Free(p, "slow")
  /\ UNCHANGED <<db, asked, life, ctlMem, claimed, inbox, joins, fireMem, exchange>>

\* The book already shows the target tick, and the claim is won.
PrepareMissed(p) ==
  /\ OnLane(p, "slow", "reading")
  /\ LET w == lane[p]["slow"].watch IN
     /\ w \notin claimed[p]
     /\ TokenOf[w] \in ticked
     /\ claimed' = [claimed EXCEPT ![p] = @ \cup {w}]
  /\ Resolve(p, "slow", "missed")
  /\ UNCHANGED <<db, asked, life, ctlMem, joins, attempts, exchange>>

\* Fault: the baseline is taken from a book at any tick.
PrepareReadsAnyTick(p) ==
  /\ OnLane(p, "slow", "reading")
  /\ lane[p]["slow"].watch \notin claimed[p]
  /\ GoTo(p, "slow", "ready", lane[p]["slow"].watch)
  /\ UNCHANGED <<db, asked, life, ctlMem, claimed, inbox, joins, fireMem, exchange>>

\* The baseline: the book still shows the coarse tick.
PrepareReads(p) ==
  /\ OnLane(p, "slow", "reading")
  /\ lane[p]["slow"].watch \notin claimed[p]
  /\ TokenOf[lane[p]["slow"].watch] \notin ticked
  /\ GoTo(p, "slow", "ready", lane[p]["slow"].watch)
  /\ UNCHANGED <<db, asked, life, ctlMem, claimed, inbox, joins, fireMem, exchange>>

PrepareSends(p) ==
  /\ OnLane(p, "slow", "ready")
  /\ Tell(p, lane[p]["slow"].watch, "prepared")
  /\ Free(p, "slow")
  /\ UNCHANGED <<db, asked, life, ctlMem, claimed, joins, fireMem, exchange>>

-----------------------------------------------------------------------------
(* The exchange                                                            *)

TickReaches(t) ==
  /\ t \notin ticked
  /\ ticked' = ticked \cup {t}
  /\ UNCHANGED <<db, asked, life, ctlMem, claimed, inbox, joins, fireMem, lane, sent, orders>>

Accept(p, w) ==
  /\ sent[p][w] = "out"
  /\ sent' = [sent EXCEPT ![p][w] = "accepted"]
  /\ orders' = [orders EXCEPT ![p][w] = @ + 1]
  /\ UNCHANGED <<db, asked, life, ctlMem, claimed, inbox, joins, fireMem, lane, ticked>>

Refuse(p, w) ==
  /\ sent[p][w] = "out"
  /\ sent' = [sent EXCEPT ![p][w] = "refused"]
  /\ UNCHANGED <<db, asked, life, ctlMem, claimed, inbox, joins, fireMem, lane, ticked,
                 orders>>

-----------------------------------------------------------------------------
Operator == \E w \in Watch : Arm(w) \/ RequestDisarm(w)

Worker(p) ==
  \/ StartWorker(p) \/ BeatFails(p) \/ StopSignal(p) \/ StopWorker(p) \/ Crash(p)

Drain(p) == DrainUnknown(p) \/ DrainPrepared(p) \/ DrainClaimed(p) \/ DrainResolved(p)

Close(p) ==
  \/ LeaveLoop(p) \/ CloseClaims(p) \/ CloseJoins(p) \/ CloseDrains(p) \/ CloseEnds(p)
  \/ \E w \in Watch : CloseCuts(p, w)

DbFails(p) == OpenFails(p) \/ DrainFails(p) \/ ReconcileFails(p)

Control(p) == OpenSniper(p) \/ Drain(p) \/ Reconcile(p) \/ Close(p) \/ DbFails(p)

HotStep(p, l) ==
  Claim(p, l) \/ GuardRefuses(p, l) \/ GuardPasses(p, l) \/ \E w \in Watch : Observe(p, l, w)

Answer(p, l) ==
  AnswerPosted(p, l) \/ AnswerRefused(p, l) \/ AnswerTerminal(p, l) \/ AnswerNone(p, l)

Attempt(p, l) == PostLeaves(p, l) \/ SignFails(p, l) \/ Rehearse(p, l) \/ Answer(p, l)

Retry(p, w) == RetryCut(p, w) \/ RetryGivesUp(p, w) \/ RetryStarts(p, w)

Prepare(p) ==
  \/ PrepareFails(p) \/ PrepareDrops(p) \/ PrepareMissed(p) \/ PrepareReads(p)
  \/ PrepareSends(p) \/ \E w \in Watch : PrepareStarts(p, w)

Exchange(p, w) == Accept(p, w) \/ Refuse(p, w)

Next ==
  \/ Operator
  \/ \E t \in Token : TickReaches(t)
  \/ \E p \in Proc :
       \/ Worker(p)
       \/ Control(p)
       \/ Prepare(p)
       \/ \E l \in Hot : HotStep(p, l)
       \/ \E l \in Lane : Attempt(p, l)
       \/ \E w \in Watch : FireDue(p, w) \/ Retry(p, w) \/ Exchange(p, w)

Spec == Init /\ [][Next]_vars

-----------------------------------------------------------------------------
(* Safety                                                                  *)

\* The variables hold what their comments say they hold.
TypeOK ==
  /\ state \in [Watch -> {"none"} \cup OpenStates \cup ClosedStates]
  /\ reason \in [Watch -> Reasons]
  /\ asked \in SUBSET Watch
  /\ closer \in [Watch -> Proc \cup {None}]
  /\ status \in [who : Proc \cup {None}, stopped : BOOLEAN]
  /\ ctl \in [Proc -> CtlStage]
  /\ stop \in [Proc -> BOOLEAN]
  /\ adopted \in [Proc -> SUBSET Watch]
  /\ routed \in [Proc -> SUBSET Watch]
  /\ claimed \in [Proc -> SUBSET Watch]
  /\ abort \in [Proc -> SUBSET Watch]
  /\ inbox \in [Proc -> Seq(Event)]
  /\ joins \in [Proc -> SUBSET Watch]
  /\ fire \in [Proc -> [Watch -> FireStage]]
  /\ attempts \in [Proc -> [Watch -> 0..MaxAttempts]]
  /\ lane \in [Proc -> [Lane -> {Idle} \cup [at : LaneStage, watch : Watch]]]
  /\ view \in [Proc -> [Watch -> ViewStage]]
  /\ ticked \in SUBSET Token
  /\ sent \in [Proc -> [Watch -> {"none", "out", "accepted", "refused"}]]
  /\ orders \in [Proc -> [Watch -> Nat]]

\* A worker run places at most one order for a watch, whichever of its three lanes
\* posts, however often it retries and whatever the exchange answers ("fires each
\* armed watch once", tools/sniper.py).
OneOrderPerLife == \A p \in Proc, w \in Watch : orders[p][w] <= 1

\* A fire that may still post has seen definite refusals only: no post of its run is
\* undecided and none was accepted. This is what forbids a retry after a timeout.
RetryOnlyAfterRefusals ==
  \A p \in Proc, w \in Watch :
    fire[p][w] \in {"won", "attempt", "waiting", "due"} =>
      sent[p][w] = "none" /\ orders[p][w] = 0

MayRest(w) == state[w] = "failed" /\ reason[w] \in {"unanswered", "interrupted"}

\* How a run closes a row is true of what that run posted: fired means it placed the
\* order; every other end that does not say an order may rest means it placed none
\* and none of its posts is still undecided.
OutcomeIsTrue ==
  \A w \in Watch :
    closer[w] # None =>
      IF state[w] = "fired"
      THEN orders[closer[w]][w] = 1
      ELSE MayRest(w) \/ (orders[closer[w]][w] = 0 /\ sent[closer[w]][w] # "out")

\* No step changes the state or the reason of a closed row, whichever run reports late.
ClosedIsFinal ==
  [][\A w \in Watch :
       state[w] \in ClosedStates => state'[w] = state[w] /\ reason'[w] = reason[w]]_vars

\* A watch fires once over every run of the worker: a crash between the post and the
\* row's firing, or a lost event, does not make the next run post a second order.
FiresOnce ==
  \A w \in Watch, p \in Proc, q \in Proc :
    /\ orders[p][w] <= 1
    /\ p # q => orders[p][w] = 0 \/ orders[q][w] = 0

Posted(w) == \E p \in Proc : orders[p][w] > 0
Undecided(w) == \E p \in Proc : sent[p][w] = "out"

\* The ends docs/sniper.md calls certain are certain over crashes and restarts too:
\* fired has an order; rejected, rehearsed and the refused, unsigned and stopped
\* failures have none, from any run, and none can still appear.
CertainEnds ==
  \A w \in Watch :
    /\ state[w] = "fired" => Posted(w)
    /\ \/ state[w] \in {"rejected", "rehearsed"}
       \/ state[w] = "failed" /\ ~MayRest(w)
       => ~Posted(w) /\ ~Undecided(w)

\* The docstring of Sniper.close: it "cuts the open fires". A fire between two posts
\* is open, and the row of one that is not cut says firing until the next start.
CloseCutsOpenFires ==
  \A p \in Proc, w \in Watch : ctl[p] = "closed" => fire[p][w] \notin Pending

-----------------------------------------------------------------------------
(* The promise to the operator                                             *)

RowEnd(w) ==
  CASE state[w] = "failed"            -> reason[w]
    [] state[w] # "failed"            -> state[w]

Promise == INSTANCE WatchPromise WITH
  row    <- [w \in Watch |-> RowEnd(w)],
  placed <- [w \in Watch |-> Cardinality({p \in Proc : orders[p][w] > 0})],
  doubt  <- {w \in Watch : Undecided(w)}

\* While no worker crashes, stalls or loses a statement, the lanes together do what
\* WatchPromise says, over clean stops and restarts too: every end is true when it is
\* written and nothing the exchange decides later makes it false.
KeepsPromise == Promise!Spec

\* A post left and the row does not say firing yet: its run still holds the event that
\* will say so.
GapIsInTheInbox ==
  \A p \in Proc, w \in Watch :
    state[w] = "armed" /\ sent[p][w] # "none" =>
      \E i \in DOMAIN inbox[p] : inbox[p][i] = [watch |-> w, what |-> "claimed"]

\* What the hot lanes may fire is what the control lane still holds, and the feed is
\* asked for at most one watch per token. A fire under way is of an open row that its run
\* holds; a closed row is held only where a disarm won the claim and nothing ever fires.
RoutedIsHeld ==
  \A p \in Proc :
    /\ routed[p] \subseteq adopted[p]
    /\ \A v, w \in routed[p] : TokenOf[v] = TokenOf[w] => v = w
    /\ \A w \in Watch : fire[p][w] \in UnderWay => w \in adopted[p] /\ IsOpen(w)
    /\ \A w \in adopted[p] : IsOpen(w) \/ (w \in claimed[p] /\ fire[p][w] = "none")

\* A row that is closed is over, whatever fails between two statements: its end stays true of
\* every post, and no run fires what it stands for.
ClosedIsOver == CertainEnds /\ RoutedIsHeld

\* Both: what a run's memory, its inbox and the rows say of a watch fits together.
MemoryFitsTheRows == GapIsInTheInbox /\ RoutedIsHeld

-----------------------------------------------------------------------------
(* Liveness                                                                *)

\* The threads of a run keep running: control, each hot lane and the slow lane take
\* their next step, and close is entered once stop is seen. A request is answered or
\* times out, time passes, the slow queue turns, and a book that is read again and
\* again is read once. Nothing is assumed of the operator, of the tick, or of which
\* answer the exchange gives.
ControlStep(p) ==
  OpenSniper(p) \/ Drain(p) \/ Reconcile(p) \/ Close(p) \/ StopWorker(p)

SlowStep(p) == Prepare(p) \/ Attempt(p, "slow") \/ \E w \in Watch : Retry(p, w)

Fairness ==
  \A p \in Proc :
    /\ WF_vars(ControlStep(p)) /\ SF_vars(LeaveLoop(p))
    /\ \A l \in Hot : WF_vars(HotStep(p, l) \/ Attempt(p, l))
    /\ WF_vars(SlowStep(p))
    /\ \A w \in Watch : WF_vars(FireDue(p, w)) /\ SF_vars(PrepareStarts(p, w))
    /\ SF_vars(PrepareMissed(p) \/ PrepareReads(p)) /\ SF_vars(PrepareSends(p))

FairSpec == Spec /\ Fairness

Serving(p) == ctl[p] \in {"serving", "reconciling"} /\ ~stop[p]

\* A disarm request is answered: the row closes, as disarmed or with what had already
\* been sent, unless the worker is stopped first.
DisarmIsAnswered ==
  \A p \in Proc, w \in Watch :
    (IsOpen(w) /\ w \in asked /\ Serving(p)) ~> (~IsOpen(w) \/ ~Serving(p))

\* A watch the run may adopt, whose token reaches the tick, comes to an end: nothing
\* keeps it armed or firing for ever (a queue it waits in, a retry, a lost event).
TickIsAnswered ==
  \A p \in Proc, w \in Watch :
    (IsOpen(w) /\ TokenOf[w] \in ticked /\ Serving(p) /\ (w \in Dry \/ p \in Keyed))
      ~> (~IsOpen(w) \/ ~Serving(p))

\* A worker told to stop does stop: no lane waits for another for ever.
StopEnds == \A p \in Proc : (stop[p] /\ Alive(p)) ~> (ctl[p] = "dead")

=============================================================================
