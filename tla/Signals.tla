-------------------------------- MODULE Signals --------------------------------
(* How a console page stays current: the stream that polls both databases and signals what
   changed (console/pages/stream.py), the regions that reload on a signal, and the snapshot of
   farm.db the requests share (console/context.py). Every reader runs one statement after the
   other, and commits come between any two. Each field counts its changes; the rows of the
   farmer's and the worker's runs are odd while they say running, and the clock says of such a
   row that it lapsed. The browser is external. *)
EXTENDS Integers, FiniteSets

CONSTANTS Fields,     \* the ones followed
          Regions,    \* of the page
          Shows,      \* the fields of each region
          SnapshotOf, \* the regions rendered from the shared snapshot
          Up,         \* 1 when the farmer and the worker run at first, 0 when neither does
          MaxChanges, MaxDrops, \* bounds on the changes and on the lost connections
          None

Farm == {"cycle", "runs", "event"}
Tools == {"job", "works", "watch"}
Processes == {"runs", "works"}
SignalsAssumption ==
  /\ Processes \cup {"event"} \subseteq Fields /\ Fields \subseteq Farm \cup Tools
  /\ Shows \in [Regions -> SUBSET Fields] /\ Up \in {0, 1}

\* The statements a reader runs, in their order, and which of them reads a field.
Statement == [cycle |-> 1, runs |-> 1, event |-> 2, job |-> 3, works |-> 4, watch |-> 5]
Statements == {Statement[f] : f \in Fields}
\* After which of them the stream asks the clock whether a process' row lapsed.
ClockAfter == [runs |-> 2, works |-> 4]
FarmStatements == {Statement[f] : f \in Fields \cap Farm}
AsksOf(r) ==
  {Statement[f] : f \in Shows[r]} \cup IF r \in SnapshotOf THEN FarmStatements ELSE {}

VARIABLES db, commits, \* both databases' fields; the commits to farm.db
          aged,        \* of each process: its rows that the clock says lapsed
          shared,      \* Context._shared: [version, data], or None
          request,     \* of each region: [pc, clock, version, todo, data]
          dirty, shown,\* regions to reload; what each shows
          page,        \* "loading", "loaded", "connecting", "open"
          poll,        \* of the stream: [todo, data, clock], the statements left of its poll
          marks, told, \* what its last poll found; fields whose last change it signalled
          wire,        \* signals sent and not delivered
          changes, drops \* so far
databases == <<db, commits, aged, changes>>
browser == <<dirty, shown, page>>
stream == <<poll, marks, told, wire, drops>>
vars == <<databases, shared, request, browser, stream>>

\* What rows say at a time: liveness and is_running, in numbers that grow with each change.
Reading(data, clock) ==
  [f \in Fields |-> IF f \in Processes
                    THEN 2 * data[f] + (IF data[f] \in clock[f] THEN 1 ELSE 0)
                    ELSE data[f]]
Running(n) == n % 4 = 2
Odd(n) == n % 2 = 1
Lapsed(f) == db[f] \in aged[f]

Zero == [f \in Fields |-> 0]
NoClock == [f \in Processes |-> {}]
Idle == [pc |-> "idle", clock |-> NoClock, version |-> None, todo |-> {}, data |-> Zero]
NewPoll == [todo |-> Statements, data |-> Zero, clock |-> NoClock]
Init ==
  /\ db = [f \in Fields |-> IF f \in Processes THEN Up ELSE 0]
  /\ commits = 0 /\ aged = NoClock /\ changes = 0 /\ shared = None
  /\ request = [r \in Regions |-> Idle] /\ dirty = Regions /\ shown = [r \in Regions |-> Zero]
  /\ page = "loading" /\ poll = NewPoll /\ marks = Zero /\ told = {} /\ wire = {} /\ drops = 0

(***************************************************************************)
(* The farmer, the worker and the other pages                              *)
(***************************************************************************)

\* One transaction. In farm.db it moves the data_version every other connection reads. A row of a
\* process that is renewed is still odd.
Commit(fields, renewed) ==
  /\ changes < MaxChanges /\ changes' = changes + 1
  /\ db' = [f \in Fields |-> db[f] + (IF f \in fields THEN 1 ELSE 0) + (IF f \in renewed THEN 2 ELSE 0)]
  /\ commits' = IF fields \subseteq Tools /\ fields # {} THEN commits ELSE commits + 1
  /\ UNCHANGED <<aged, shared, request, browser, stream>>

\* A process that stopped without a word, or is slow: its row is too old from now on.
Lapse(f) ==
  /\ Odd(db[f]) /\ ~Lapsed(f) /\ aged' = [aged EXCEPT ![f] = @ \cup {db[f]}]
  /\ changes < MaxChanges /\ changes' = changes + 1
  /\ UNCHANGED <<db, commits, shared, request, browser, stream>>

Renewed(f) == IF Lapsed(f) THEN {f} ELSE {}
Publish(events) == Odd(db.runs) /\ Commit({"cycle"} \cup events, Renewed("runs"))
StartFarmer == ~Odd(db.runs) /\ Commit({"cycle", "runs", "event"}, {})
StopFarmer(cycled) == Odd(db.runs) /\ Commit({"runs", "event"} \cup cycled, {})
\* A decision or a scan, in farm.db.
Decide == Commit({}, {})
\* A job or a watch moves; the worker starts or stops.
Work(f) == Commit({f}, {})
\* The worker beats, or another takes its place, after its beats were missed.
Beat ==
  /\ Lapsed("works") /\ db' = [db EXCEPT !["works"] = @ + 2]
  /\ changes < MaxChanges /\ changes' = changes + 1
  /\ UNCHANGED <<commits, aged, shared, request, browser, stream>>

(***************************************************************************)
(* Requests                                                                *)
(***************************************************************************)

\* The next statement of a reader, and what it has read after it.
Comes(todo, i) == i \in todo /\ \A j \in todo : i <= j
Seen(data, i) == [f \in Fields |-> IF Statement[f] = i THEN db[f] ELSE data[f]]

\* A region begins to reload, and reads the clock: a signal while it reloads reloads it once more
\* after. A page's first load is taken as a reload of each of its regions.
Begin(r) ==
  /\ request[r].pc = "idle" /\ r \in dirty /\ dirty' = dirty \ {r}
  /\ request' = [request EXCEPT ![r] =
       [pc |-> IF r \in SnapshotOf THEN "version" ELSE "read", clock |-> aged, version |-> None,
        todo |-> AsksOf(r), data |-> Zero]]
  /\ UNCHANGED <<databases, shared, shown, page, stream>>

Version(r) ==
  /\ request[r].pc = "version"
  /\ request' = [request EXCEPT ![r].pc = "read", ![r].version = commits]
  /\ UNCHANGED <<databases, shared, browser, stream>>

\* Fault: the shared snapshot serves until it ages.
StillYoung(r) == shared # None
\* The shared snapshot serves while farm.db has not changed since its version was found, which was
\* before it was read, and until it ages.
Serves(r) == shared # None /\ shared.version = request[r].version

\* tools.db is read anew.
Reuse(r) ==
  /\ request[r].pc = "read" /\ r \in SnapshotOf /\ request[r].todo = AsksOf(r) /\ Serves(r)
  /\ request' = [request EXCEPT ![r].todo = @ \ FarmStatements, ![r].data = shared.data]
  /\ UNCHANGED <<databases, shared, browser, stream>>

\* One statement. After the last of farm.db the snapshot is kept.
Read(r) ==
  /\ request[r].pc = "read"
  /\ \E i \in Statements :
       /\ Comes(request[r].todo, i)
       /\ request' = [request EXCEPT ![r].todo = @ \ {i}, ![r].data = Seen(@, i)]
       /\ shared' = IF r \in SnapshotOf /\ FarmStatements \cap request[r].todo = {i}
                    THEN [version |-> request[r].version, data |-> Seen(request[r].data, i)] ELSE shared
  /\ UNCHANGED <<databases, browser, stream>>

Render(r) ==
  /\ request[r].pc = "read" /\ request[r].todo = {}
  /\ request' = [request EXCEPT ![r] = Idle]
  /\ shown' = [shown EXCEPT ![r] = Reading(request[r].data, request[r].clock)]
  /\ UNCHANGED <<databases, shared, dirty, page, stream>>

(***************************************************************************)
(* The stream                                                              *)
(***************************************************************************)

\* The page connects once it is loaded, and again after it lost the connection.
Connect ==
  /\ page = "loaded" \/ (page = "loading" /\ dirty = {} /\ \A r \in Regions : request[r] = Idle)
  /\ page' = "connecting" /\ poll' = NewPoll
  /\ UNCHANGED <<databases, shared, request, dirty, shown, marks, told, wire, drops>>

\* One statement of a poll.
Look ==
  /\ page \in {"connecting", "open"}
  /\ \E i \in Statements :
       /\ Comes(poll.todo, i)
       /\ poll' = [todo |-> poll.todo \ {i}, data |-> Seen(poll.data, i),
                   clock |-> [f \in Processes |-> IF ClockAfter[f] = i THEN aged[f] ELSE poll.clock[f]]]
  /\ UNCHANGED <<databases, shared, request, browser, marks, told, wire, drops>>

Found == Reading(poll.data, poll.clock)

\* The first poll is what the next is compared with.
Connected ==
  /\ page = "connecting" /\ poll.todo = {}
  /\ page' = "open" /\ marks' = Found /\ told' = {} /\ poll' = NewPoll
  /\ UNCHANGED <<databases, shared, request, dirty, shown, wire, drops>>

\* Of a process only whether it runs is seen.
Moved(f) ==
  IF f \in Processes THEN Running(Found[f]) # Running(marks[f]) ELSE Found[f] # marks[f]

\* The signals of a poll, each named by the field it tells of.
Tell ==
  /\ page = "open" /\ poll.todo = {}
  /\ \E moved \in {{f \in Fields : Moved(f)}} :
       wire' = wire \cup moved /\ told' = {f \in told : Found[f] = marks[f]} \cup moved
  /\ marks' = Found /\ poll' = NewPoll
  /\ UNCHANGED <<databases, shared, request, browser, drops>>

Drop ==
  /\ page = "open" /\ page' = "loaded" /\ drops < MaxDrops /\ drops' = drops + 1 /\ wire' = {}
  /\ UNCHANGED <<databases, shared, request, dirty, shown, poll, marks, told>>

\* The farmer's and the worker's starts and stops are one signal.
Listens(r, f) == f \in Shows[r] \/ (f \in Processes /\ Shows[r] \cap Processes # {})

Deliver(f) ==
  /\ f \in wire /\ wire' = wire \ {f} /\ dirty' = dirty \cup {r \in Regions : Listens(r, f)}
  /\ UNCHANGED <<databases, shared, request, shown, page, poll, marks, told, drops>>

Next ==
  \/ \E events \in {{}, {"event"}} : Publish(events)
  \/ \E cycled \in {{}, {"cycle"}} : StopFarmer(cycled)
  \/ StartFarmer \/ Decide \/ Beat \/ Connect \/ Look \/ Connected \/ Tell \/ Drop
  \/ \E f \in Fields \ Farm : Work(f)
  \/ \E f \in Processes : Lapse(f)
  \/ \E r \in Regions : Begin(r) \/ Version(r) \/ Reuse(r) \/ Read(r) \/ Render(r)
  \/ \E f \in Fields : Deliver(f)
Spec == Init /\ [][Next]_vars

(***************************************************************************)
(* What a page shows                                                       *)
(***************************************************************************)

\* However commits, polls and the requests' threads interleave: a region that has had its signals
\* and reloaded shows each of its fields as new as the last poll found it, once the stream has
\* signalled it. Not promised: a change between the page's own read and the stream's
\* first or while the connection was lost, and a stop and a start between two polls.
SignalledIsShown ==
  page = "open" => \A r \in Regions \ dirty : \A f \in Shows[r] \cap told :
    \/ request[r] # Idle \/ \E s \in wire : Listens(r, s)
    \/ shown[r][f] >= marks[f]
================================================================================
