------------------------------ MODULE Restore ------------------------------
(***************************************************************************)
(* The job queue of tools.db, the job thread of each worker run            *)
(* (tools/worker.py), the three jobs it runs (tools/snapshot.py,           *)
(* tools/restore.py), the console that queues them (console/pages/         *)
(* orders.py), and the account's resting orders on the exchange.           *)
(*                                                                         *)
(* An exchange order is named by where it came from: an original order of  *)
(* the account, or line pos of restore job.  A snapshot entry is such an   *)
(* order with what was left of it.                                         *)
(***************************************************************************)
EXTENDS Naturals, Sequences, FiniteSets

CONSTANTS
  Order,      \* the account's orders before any restore
  KeyOf,      \* what _key compares of each but the size: token, side, price
  MarketOf,   \* the market of each
  Gtd,        \* those with an expiration
  Farmed,     \* the markets the farmer may come to manage, or retire
  Listed,     \* Order as a sequence: the order the CLOB lists them in
  Proc,       \* worker runs, each starts at most once
  Keyed,      \* the worker runs that hold a key
  None,       \* no worker run
  MaxUnanswered, \* MAX_UNANSWERED_IN_A_ROW
  MaxJobs,    \* bound on the jobs ever queued
  May         \* what may happen: "stop", a worker is told to; "crash", it dies without a
              \* word; "stall", it misses its beats and lives on; "db", a statement raises;
              \* "fill", an order fills in part; "wait", a restore is queued for longer
              \* than RESTORE_MAX_WAIT

ASSUME ConstantsAssumption ==
  /\ Gtd \subseteq Order
  /\ Farmed \subseteq {MarketOf[o] : o \in Order}
  /\ Listed \in Seq(Order) /\ Len(Listed) = Cardinality(Order)
  /\ \A o \in Order : \E n \in DOMAIN Listed : Listed[n] = o
  /\ Keyed \subseteq Proc
  /\ None \notin Proc
  /\ MaxUnanswered \in Nat \ {0}
  /\ MaxJobs \in Nat
  /\ May \subseteq {"stop", "crash", "stall", "db", "fill", "wait"}

VARIABLES
  \* tools.db
  jobs,      \* jobs, by id
  snapshots, \* snapshots and snapshot_orders
  lines,     \* restore_lines of each job, the action of one snapshot order after another
  status,    \* worker_status: the run that owns it, and whether it stopped
  \* each worker run
  ctl,       \* where its main loop is
  stop,      \* its stop event
  thread,    \* its job thread
  \* the exchange
  left,      \* what is left of each resting order
  sent,      \* posts the exchange has not decided
  placed     \* history: every order the exchange accepted from a restore

db == <<jobs, snapshots, lines>>
life == <<status, ctl, stop>>
exchange == <<left, sent, placed>>
vars == <<db, life, thread, exchange>>

-----------------------------------------------------------------------------
(* Orders, jobs and threads                                                *)

Market == {MarketOf[o] : o \in Order}
Id == [root : Order, job : 0..MaxJobs, pos : 0..Len(Listed)]
Original(o) == [root |-> o, job |-> 0, pos |-> 0]

\* How much of an order is left: all it was first placed with, some, or less than the
\* hundredth of a share an order can be placed for.
Left == {"full", "part", "dust"}
Resting == DOMAIN left
Entry == [id : Id, left : Left]

\* Whose the markets were when the snapshot was taken: imported files do not say.
Unknown == [known |-> FALSE, markets |-> {}]
Known(markets) == [known |-> TRUE, markets |-> markets]

JobState == {"queued", "running", "done", "failed"}
Kinds == {"snapshot", "preview", "restore"}
RestoreKinds == {"preview", "restore"}
OpenJob(j) == jobs[j].state \in {"queued", "running"}

Action == {"filled", "farmer", "expired", "live", "would_place"}
Placing == {"placed", "rejected", "unsent", "may_rest"}

IdleThread == [at |-> "idle", job |-> 0, plan |-> <<>>, next |-> 0, unanswered |-> 0]
ThreadStage == {"idle", "begin", "line", "sending", "out", "placed", "rejected", "unsent",
                "may_rest", "done", "failed"}

\* JobThread.close has set the thread's stop event.
StopSet(p) == ctl[p] = "stopping"
Alive(p) == ctl[p] \in {"starting", "serving", "stopping"}

Goes(p, stage) == thread' = [thread EXCEPT ![p].at = stage]
JobOf(p) == jobs[thread[p].job]

-----------------------------------------------------------------------------
(* restore.plan                                                            *)

Key(e) == <<KeyOf[e.id.root], e.left>>
Ids(entries) == {entries[i].id : i \in DOMAIN entries}

\* The open orders outside the snapshot that match an entry.
Copies(entries, e) ==
  {i \in Resting \ Ids(entries) : Key([id |-> i, left |-> left[i]]) = Key(e)}

\* Why an entry is not the restore's to place, whatever is open. What expires within
\* EXPIRY_MARGIN of the listing is in soon.
Barred(job, soon, e) ==
  CASE e.left = "dust" -> "filled"
    [] e.left # "dust" /\ (MarketOf[e.id.root] \in job.managed
                           \/ MarketOf[e.id.root] \in snapshots[job.snap].farmer.markets
                           \/ /\ ~snapshots[job.snap].farmer.known
                              /\ MarketOf[e.id.root] \in job.retired)
       -> "farmer"
    [] OTHER -> IF e.id.root \in soon THEN "expired" ELSE "no"

\* Fault: one open order covers every entry it matches.
PlanOfUncounted(job, soon) ==
  LET entries == snapshots[job.snap].orders
  IN [i \in DOMAIN entries |->
        IF Barred(job, soon, entries[i]) # "no" THEN Barred(job, soon, entries[i])
        ELSE IF entries[i].id \in Resting THEN "live" ELSE "would_place"]

\* The n-th entry that is missing by its id is covered while there are n copies of its key.
PlanOf(job, soon) ==
  LET entries == snapshots[job.snap].orders
      Wanting(i) == Barred(job, soon, entries[i]) = "no" /\ entries[i].id \notin Resting
      Rank(i) == Cardinality({k \in 1..i : Wanting(k) /\ Key(entries[k]) = Key(entries[i])})
  IN [i \in DOMAIN entries |->
        IF Barred(job, soon, entries[i]) # "no" THEN Barred(job, soon, entries[i])
        ELSE IF ~Wanting(i) \/ Rank(i) <= Cardinality(Copies(entries, entries[i]))
             THEN "live" ELSE "would_place"]

-----------------------------------------------------------------------------
\* Before the first job: files the old snapshot script left were imported once, and
\* every order they hold still rests.
Init ==
  /\ jobs = <<>>
  /\ snapshots = <<[orders |-> [i \in DOMAIN Listed |->
                                  [id |-> Original(Listed[i]), left |-> "full"]],
                    farmer |-> Unknown]>>
  /\ lines = <<>>
  /\ status = [who |-> None, stopped |-> TRUE]
  /\ ctl = [p \in Proc |-> "new"]
  /\ stop = [p \in Proc |-> FALSE]
  /\ thread = [p \in Proc |-> IdleThread]
  /\ left = [i \in {Original(o) : o \in Order} |-> "full"]
  /\ sent = {}
  /\ placed = {}

-----------------------------------------------------------------------------
(* The console                                                             *)

\* enqueue_job, and the two unique indexes that let it.
Enqueue(kind, s, managed, retired) ==
  /\ Len(jobs) < MaxJobs
  /\ \A j \in DOMAIN jobs :
       OpenJob(j) => jobs[j].kind # kind /\ {jobs[j].kind, kind} # RestoreKinds
  /\ jobs' = Append(jobs, [kind |-> kind, snap |-> s, managed |-> managed,
                           retired |-> retired, state |-> "queued", late |-> FALSE])
  /\ lines' = Append(lines, <<>>)
  /\ UNCHANGED <<snapshots, life, thread, exchange>>

\* latest_restore_job: j is the newest preview or restore of the snapshot.
IsLatestOf(j, s) ==
  LET its == {k \in DOMAIN jobs : jobs[k].kind \in RestoreKinds /\ jobs[k].snap = s}
  IN j \in its /\ \A k \in its : k <= j

\* Fault: any finished preview of the snapshot will do.
MayPlaceAgain(s) ==
  \E j \in DOMAIN jobs : jobs[j].kind = "preview" /\ jobs[j].snap = s /\ jobs[j].state = "done"

\* placing_refusal finds nothing to refuse.
MayPlace(s) ==
  \E j \in DOMAIN jobs : IsLatestOf(j, s) /\ jobs[j].kind = "preview" /\ jobs[j].state = "done"

TakeSnapshot(managed) == Enqueue("snapshot", 0, managed, {})

\* What farm.db says of the markets is read at the click: managed now, or retired.
Preview(s, managed, retired) == Enqueue("preview", s, managed, retired)

\* The check and the insert are one step: nothing is awaited between them.
PlaceRestore(s, managed, retired) ==
  /\ MayPlace(s)
  /\ Enqueue("restore", s, managed, retired)

\* A queued restore waits longer than RESTORE_MAX_WAIT.
WaitsTooLong(j) ==
  /\ "wait" \in May
  /\ jobs[j].kind = "restore"
  /\ jobs[j].state = "queued"
  /\ ~jobs[j].late
  /\ jobs' = [jobs EXCEPT ![j].late = TRUE]
  /\ UNCHANGED <<snapshots, lines, life, thread, exchange>>

-----------------------------------------------------------------------------
(* The worker's main loop                                                  *)

StartWorker(p) ==
  /\ ctl[p] = "new"
  /\ status.stopped \/ "stall" \in May \/ status.who \in {q \in Proc : ctl[q] = "dead"}
  /\ status' = [who |-> p, stopped |-> FALSE]
  /\ ctl' = [ctl EXCEPT ![p] = "starting"]
  /\ UNCHANGED <<db, stop, thread, exchange>>

\* fail_running_jobs, before the first claim.
FailRunning(p) ==
  /\ ctl[p] = "starting"
  /\ jobs' = [j \in DOMAIN jobs |-> IF jobs[j].state = "running"
                                    THEN [jobs[j] EXCEPT !.state = "failed"] ELSE jobs[j]]
  /\ ctl' = [ctl EXCEPT ![p] = "serving"]
  /\ UNCHANGED <<snapshots, lines, status, stop, thread, exchange>>

\* Ctrl+C, a terminate signal, or the death of the sniper.
StopSignal(p) ==
  /\ "stop" \in May
  /\ Alive(p)
  /\ ~stop[p]
  /\ stop' = [stop EXCEPT ![p] = TRUE]
  /\ UNCHANGED <<db, status, ctl, thread, exchange>>

\* The loop ends: stop is set, another run took the row, or a statement raised.
\* Its finally tells the job thread to stop.
LeaveLoop(p) ==
  /\ \/ ctl[p] = "serving" /\ (stop[p] \/ status.who # p)
     \/ ctl[p] \in {"starting", "serving"} /\ "db" \in May
  /\ ctl' = [ctl EXCEPT ![p] = "stopping"]
  /\ stop' = [stop EXCEPT ![p] = TRUE]
  /\ UNCHANGED <<db, status, thread, exchange>>

\* The job thread was joined: the run ends, and says so unless that statement raises.
StopWorker(p) ==
  /\ ctl[p] = "stopping"
  /\ thread[p].at = "idle"
  /\ ctl' = [ctl EXCEPT ![p] = "dead"]
  /\ \/ status' = IF status.who = p THEN [status EXCEPT !.stopped = TRUE] ELSE status
     \/ "db" \in May /\ UNCHANGED status
  /\ UNCHANGED <<db, stop, thread, exchange>>

Crash(p) ==
  /\ "crash" \in May
  /\ Alive(p)
  /\ ctl' = [ctl EXCEPT ![p] = "dead"]
  /\ thread' = [thread EXCEPT ![p] = IdleThread]
  /\ UNCHANGED <<db, status, stop, exchange>>

-----------------------------------------------------------------------------
(* The job thread                                                          *)

\* JobThread.tick: no job thread lives, and claim_job takes the oldest queued job. It
\* follows a beat that found this run in its place, unless a stall falls in between.
Claim(p) ==
  /\ ctl[p] = "serving"
  /\ status.who = p \/ "stall" \in May
  /\ thread[p].at = "idle"
  /\ \E j \in DOMAIN jobs :
       /\ jobs[j].state = "queued"
       /\ \A k \in 1..j - 1 : jobs[k].state # "queued"
       /\ jobs' = [jobs EXCEPT ![j].state = "running"]
       /\ thread' = [thread EXCEPT ![p] = [IdleThread EXCEPT !.at = "begin", !.job = j]]
  /\ UNCHANGED <<snapshots, lines, life, exchange>>

\* A job this worker cannot run, a restore that waited too long, or a listing that fails.
Refuses(p) ==
  /\ thread[p].at = "begin"
  /\ Goes(p, "failed")
  /\ UNCHANGED <<db, life, exchange>>

CanRun(p) ==
  /\ thread[p].at = "begin"
  /\ p \in Keyed
  /\ sent = {}               \* every earlier post is decided by the time orders are listed

\* snapshot.take: what rests, in the CLOB's order, stored whole.
ListedBefore(i, k) ==
  \/ i.job < k.job
  \/ i.job = k.job /\ i.pos < k.pos
  \/ i.job = k.job /\ i.job = 0
     /\ \E m, n \in DOMAIN Listed : m < n /\ Listed[m] = i.root /\ Listed[n] = k.root

EntriesOf(listed) ==
  [n \in DOMAIN listed |-> [id |-> listed[n], left |-> left[listed[n]]]]

Take(p) ==
  /\ CanRun(p)
  /\ JobOf(p).kind = "snapshot"
  /\ \E listed \in [1..Cardinality(Resting) -> Resting] :
       /\ \A m, n \in DOMAIN listed : m < n => ListedBefore(listed[m], listed[n])
       /\ snapshots' = Append(snapshots,
            [orders |-> EntriesOf(listed), farmer |-> Known(JobOf(p).managed)])
  /\ Goes(p, "done")
  /\ UNCHANGED <<jobs, lines, life, exchange>>

\* restore.preview: the whole plan is stored, or nothing of it.
StorePlan(p) ==
  /\ CanRun(p)
  /\ JobOf(p).kind = "preview"
  /\ \E soon \in SUBSET Gtd :
       lines' = [lines EXCEPT ![thread[p].job] = PlanOf(JobOf(p), soon)]
  /\ Goes(p, "done")
  /\ UNCHANGED <<jobs, snapshots, life, exchange>>

\* restore.place: the plan is made against the orders open now.
Plan(p) ==
  /\ CanRun(p)
  /\ JobOf(p).kind = "restore"
  /\ ~JobOf(p).late
  /\ \E soon \in SUBSET Gtd :
       thread' = [thread EXCEPT ![p] =
         [@ EXCEPT !.at = "line", !.next = 1, !.plan = PlanOf(JobOf(p), soon)]]
  /\ UNCHANGED <<db, life, exchange>>

AtLine(p) == thread[p].at = "line" /\ thread[p].next \in DOMAIN thread[p].plan

MustStop(p) == StopSet(p) \/ thread[p].unanswered = MaxUnanswered

\* Stopped, before the next order.
StopsEarly(p) ==
  /\ AtLine(p)
  /\ MustStop(p)
  /\ Goes(p, "failed")
  /\ UNCHANGED <<db, life, exchange>>

Skips(p) ==
  /\ AtLine(p)
  /\ ~MustStop(p)
  /\ thread[p].plan[thread[p].next] # "would_place"
  /\ lines' = [lines EXCEPT ![thread[p].job] = Append(@, thread[p].plan[thread[p].next])]
  /\ thread' = [thread EXCEPT ![p].next = @ + 1]
  /\ UNCHANGED <<jobs, snapshots, life, exchange>>

Sends(p) ==
  /\ AtLine(p)
  /\ ~MustStop(p)
  /\ thread[p].plan[thread[p].next] = "would_place"
  /\ Goes(p, "sending")
  /\ UNCHANGED <<db, life, exchange>>

\* The tick cannot be read, or the order cannot be signed.
Unsent(p) ==
  /\ thread[p].at = "sending"
  /\ Goes(p, "unsent")
  /\ UNCHANGED <<db, life, exchange>>

EntryOf(p) == snapshots[JobOf(p).snap].orders[thread[p].next]
Posting(p) == [root |-> EntryOf(p).id.root, job |-> thread[p].job, pos |-> thread[p].next]

PostLeaves(p) ==
  /\ thread[p].at = "sending"
  /\ sent' = sent \cup {Posting(p)}
  /\ Goes(p, "out")
  /\ UNCHANGED <<db, life, left, placed>>

AnswerPosted(p) ==
  /\ thread[p].at = "out"
  /\ Posting(p) \in placed
  /\ Goes(p, "placed")
  /\ UNCHANGED <<db, life, exchange>>

AnswerRejected(p) ==
  /\ thread[p].at = "out"
  /\ Posting(p) \notin sent \cup placed
  /\ Goes(p, "rejected")
  /\ UNCHANGED <<db, life, exchange>>

\* Fault: a post with no answer counts as refused.
NoAnswerRejects(p) ==
  /\ thread[p].at = "out"
  /\ Goes(p, "rejected")
  /\ UNCHANGED <<db, life, exchange>>

\* A timeout, a dropped connection, a 5xx: whatever the exchange made of the post.
NoAnswer(p) ==
  /\ thread[p].at = "out"
  /\ Goes(p, "may_rest")
  /\ UNCHANGED <<db, life, exchange>>

\* The posts in a row that had no answer, this order counted.
UnansweredWith(p) ==
  CASE thread[p].at = "may_rest" -> thread[p].unanswered + 1
    [] thread[p].at \in {"placed", "rejected"} -> 0
    [] thread[p].at = "unsent" -> thread[p].unanswered

\* The line of this order is stored, and the next one is looked at.
StoreLine(p) ==
  /\ thread[p].at \in Placing
  /\ lines' = [lines EXCEPT ![thread[p].job] = Append(@, thread[p].at)]
  /\ thread' = [thread EXCEPT ![p] =
       [@ EXCEPT !.at = "line", !.next = thread[p].next + 1, !.unanswered = UnansweredWith(p)]]
  /\ UNCHANGED <<jobs, snapshots, life, exchange>>

\* A statement of the job raises: storing a line, a plan or a snapshot.
StoreFails(p) ==
  /\ "db" \in May
  /\ thread[p].at \in Placing \cup {"begin", "line"}
  /\ Goes(p, "failed")
  /\ UNCHANGED <<db, life, exchange>>

AllLines(p) ==
  /\ thread[p].at = "line"
  /\ thread[p].next > Len(thread[p].plan)
  /\ Goes(p, "done")
  /\ UNCHANGED <<db, life, exchange>>

\* Fault: the update does not ask whether the job still runs.
FinishAnyway(p) ==
  /\ thread[p].at \in {"done", "failed"}
  /\ jobs' = [jobs EXCEPT ![thread[p].job].state = thread[p].at]
  /\ thread' = [thread EXCEPT ![p] = IdleThread]
  /\ UNCHANGED <<snapshots, lines, life, exchange>>

\* finish_job closes a job that is still running.
Finish(p) ==
  /\ thread[p].at \in {"done", "failed"}
  /\ jobs' = IF JobOf(p).state = "running"
             THEN [jobs EXCEPT ![thread[p].job].state = thread[p].at] ELSE jobs
  /\ thread' = [thread EXCEPT ![p] = IdleThread]
  /\ UNCHANGED <<snapshots, lines, life, exchange>>

\* finish_job raises: the thread ends and the row says running until the next start.
FinishFails(p) ==
  /\ "db" \in May
  /\ thread[p].at \in {"done", "failed"}
  /\ thread' = [thread EXCEPT ![p] = IdleThread]
  /\ UNCHANGED <<db, life, exchange>>

-----------------------------------------------------------------------------
(* The exchange                                                            *)

LeftOf(i) == snapshots[jobs[i.job].snap].orders[i.pos].left

Accept(i) ==
  /\ i \in sent
  /\ sent' = sent \ {i}
  /\ placed' = placed \cup {i}
  /\ left' = [k \in Resting \cup {i} |-> IF k = i THEN LeftOf(i) ELSE left[k]]
  /\ UNCHANGED <<db, life, thread>>

Refuse(i) ==
  /\ i \in sent
  /\ sent' = sent \ {i}
  /\ UNCHANGED <<db, life, thread, left, placed>>

\* Cancelled, expired, or filled to its end.
Leaves(i) ==
  /\ i \in Resting
  /\ left' = [k \in Resting \ {i} |-> left[k]]
  /\ UNCHANGED <<db, life, thread, sent, placed>>

Fills(i) ==
  /\ "fill" \in May
  /\ i \in Resting
  /\ left[i] # "dust"
  /\ left' = [left EXCEPT ![i] = IF @ = "full" THEN "part" ELSE "dust"]
  /\ UNCHANGED <<db, life, thread, sent, placed>>

-----------------------------------------------------------------------------
Console ==
  \E managed \in SUBSET Farmed, retired \in SUBSET Farmed :
    /\ managed \cap retired = {}
    /\ \/ retired = {} /\ TakeSnapshot(managed)
       \/ \E s \in DOMAIN snapshots :
            Preview(s, managed, retired) \/ PlaceRestore(s, managed, retired)

MainLoop(p) ==
  StartWorker(p) \/ FailRunning(p) \/ LeaveLoop(p) \/ StopWorker(p) \/ Claim(p)

Ends(p) == Refuses(p) \/ StopsEarly(p) \/ AllLines(p) \/ Finish(p) \/ FinishFails(p)

Places(p) ==
  \/ Sends(p) \/ Unsent(p) \/ PostLeaves(p) \/ AnswerPosted(p) \/ AnswerRejected(p)
  \/ NoAnswer(p)

JobThread(p) ==
  \/ Take(p) \/ StorePlan(p) \/ Plan(p) \/ Skips(p) \/ StoreLine(p) \/ StoreFails(p)
  \/ Places(p) \/ Ends(p)

Exchange ==
  \/ \E i \in sent : Accept(i) \/ Refuse(i)
  \/ \E i \in Resting : Leaves(i) \/ Fills(i)

Next ==
  \/ Console
  \/ \E j \in DOMAIN jobs : WaitsTooLong(j)
  \/ \E p \in Proc : MainLoop(p) \/ StopSignal(p) \/ Crash(p) \/ JobThread(p)
  \/ Exchange

Spec == Init /\ [][Next]_vars

-----------------------------------------------------------------------------
(* Safety                                                                  *)

\* The variables hold what their comments say they hold, and no restore goes on past
\* MAX_UNANSWERED_IN_A_ROW posts without an answer.
TypeOK ==
  /\ jobs \in Seq([kind : Kinds, snap : 0..Len(snapshots), managed : SUBSET Market,
                   retired : SUBSET Market, state : JobState, late : BOOLEAN])
  /\ snapshots \in Seq([orders : Seq(Entry), farmer : [known : BOOLEAN, markets : SUBSET Market]])
  /\ lines \in Seq(Seq(Action \cup Placing)) /\ Len(lines) = Len(jobs)
  /\ status \in [who : Proc \cup {None}, stopped : BOOLEAN]
  /\ ctl \in [Proc -> {"new", "starting", "serving", "stopping", "dead"}]
  /\ stop \in [Proc -> BOOLEAN]
  /\ thread \in [Proc -> [at : ThreadStage, job : 0..Len(jobs), plan : Seq(Action),
                          next : Nat, unanswered : 0..MaxUnanswered]]
  /\ Resting \subseteq Id /\ \A i \in Resting : left[i] \in Left
  /\ sent \subseteq Id
  /\ placed \subseteq Id

IsRestore(j) == jobs[j].kind = "restore"
Posts(j) == {i \in sent \cup placed : i.job = j}

\* docs/orders.md: "A restore is safe to run again while the orders it placed still
\* rest unfilled." Over any sequence of snapshots, previews, restores, stops and
\* crashes, the untouched orders that rest or may come to rest at one token, side and
\* price never outnumber those the account had there.
NeverDoubled ==
  \A o \in Order :
    Cardinality({i \in Resting \cup sent :
                   /\ KeyOf[i.root] = KeyOf[o]
                   /\ (IF i \in sent THEN LeftOf(i) ELSE left[i]) = "full"})
      <= Cardinality({u \in Order : KeyOf[u] = KeyOf[o]})

\* However a restore ends, its lines tell what became of its orders: placed was accepted,
\* and a skip, a refusal or an order that was not sent leaves nothing that rests or may; at
\* most the one order it was working on has no line, and one that is done has a line for
\* every order of its snapshot.
LinesAreTrue ==
  \A j \in DOMAIN jobs :
    /\ \A n \in DOMAIN lines[j] :
         LET posts == {i \in Posts(j) : i.pos = n} IN
           /\ lines[j][n] = "placed" => posts # {} /\ posts \subseteq placed
           /\ lines[j][n] \notin {"placed", "may_rest"} => posts = {}
    /\ IsRestore(j) =>
         /\ Cardinality({i \in Posts(j) : i.pos \notin DOMAIN lines[j]}) <= 1
         /\ jobs[j].state = "done" => Len(lines[j]) = Len(snapshots[jobs[j].snap].orders)

\* docs/orders.md: "every restore follows a preview you could read, and after a restore
\* you preview again before you place again."
EachRestorePreviewed ==
  \A j \in DOMAIN jobs :
    IsRestore(j) =>
      \E k \in 1..j - 1 :
        /\ jobs[k].kind = "preview"
        /\ jobs[k].snap = jobs[j].snap
        /\ jobs[k].state = "done"
        /\ \A m \in k..j - 1 : ~(IsRestore(m) /\ jobs[m].snap = jobs[j].snap)

\* While a worker serves, a job that says running has a thread that runs it: nothing a
\* killed worker left open blocks the queue for the next one.
RunningHasThread ==
  \A j \in DOMAIN jobs :
    jobs[j].state = "running" /\ (\E p \in Proc : ctl[p] = "serving") =>
      \E p \in Proc : thread[p].at # "idle" /\ thread[p].job = j

\* Both: the queue of jobs goes on over crashes, and no restore gets into it unread.
QueueIsSound == EachRestorePreviewed /\ RunningHasThread

\* A closed job stays as it closed, also when the thread of a run that was replaced
\* ends after its job was closed as failed.
EndedIsFinal ==
  [][\A j \in DOMAIN jobs :
       jobs[j].state \in {"done", "failed"} => jobs'[j].state = jobs[j].state]_vars

=============================================================================
