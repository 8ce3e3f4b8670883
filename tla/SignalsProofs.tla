---------------------------- MODULE SignalsProofs ----------------------------
(***************************************************************************)
(* A proof about Signals for every page, every choice of what its regions  *)
(* show and which of them share the snapshot, and every number of changes  *)
(* and lost connections: what the stream has signalled is what the regions *)
(* show once they reloaded.                                                *)
(***************************************************************************)
EXTENDS Signals, TLAPS

Counts == [Fields -> Nat]
Clocks == [Processes -> SUBSET Nat]
Requests ==
  [pc : {"idle", "version", "read"}, clock : Clocks, version : Nat \cup {None},
   todo : SUBSET Statements, data : Counts]

Readings == [todo : SUBSET Statements, data : Counts, clock : Clocks]

\* What the proof needs of the types.
Shapes ==
  /\ db \in Counts /\ aged \in Clocks /\ commits \in Nat
  /\ marks \in Counts /\ told \subseteq Fields
  /\ poll \in Readings
  /\ request \in [Regions -> Requests]
  /\ shown \in [Regions -> Counts]
  /\ shared # None => shared \in [version : Nat, data : Counts]

\* A request has read the statement of f, or has it before it.
HasRead(r, f) == request[r].pc = "read" /\ Statement[f] \notin request[r].todo
Unread(r, f) ==
  request[r].pc = "version" \/ (request[r].pc = "read" /\ Statement[f] \in request[r].todo)

\* A request runs its own statements, and while it is before the first the snapshot may serve it.
MayReuse(r) == request[r].pc = "read" /\ r \in SnapshotOf /\ request[r].todo = AsksOf(r)

Asks ==
  \A r \in Regions :
    /\ request[r].pc = "version" => request[r].todo = AsksOf(r)
    /\ request[r].pc = "read" => request[r].todo \subseteq AsksOf(r)

\* No poll is ahead of the rows and the clock.
Polls ==
  /\ \A f \in Fields : marks[f] <= Reading(db, aged)[f] /\ poll.data[f] <= db[f]
  /\ \A f \in Processes : poll.clock[f] \subseteq aged[f]

\* What was read of farm.db under the version it has now is what it holds now: this is why the
\* version is found before the first statement.
Fresh(version, value, f) == version \in Nat /\ version <= commits /\ (version = commits => value = db[f])

Caches ==
  \A f \in Fields \cap Farm :
    /\ shared # None => Fresh(shared.version, shared.data[f], f)
    /\ \A r \in Regions \cap SnapshotOf :
         /\ request[r].pc = "read" => request[r].version \in Nat /\ request[r].version <= commits
         /\ HasRead(r, f) => Fresh(request[r].version, request[r].data[f], f)

\* A field that region r has heard of: it was signalled, and no signal is on its way to r.
Heard(r, f) ==
  page = "open" /\ r \notin dirty /\ f \in Shows[r] \cap told /\ ~\E s \in wire : Listens(r, s)

\* What r would make of this value of f, by its own clock, is as new as the stream saw it.
Serve(r, data, f) == Reading(data, request[r].clock)[f] >= marks[f]

\* Whatever could serve r, under the version it found, does.
Sources(r, f) ==
  /\ shared # None /\ shared.version = request[r].version => Serve(r, shared.data, f)
  /\ \A q \in Regions \cap SnapshotOf :
       HasRead(q, f) /\ request[q].version = request[r].version => Serve(r, request[q].data, f)

\* From its reload on, a region is on the way to showing what it heard of.
Brings(r, f) ==
  /\ request[r].pc = "idle" => shown[r][f] >= marks[f]
  /\ Unread(r, f) => Serve(r, db, f)
  /\ HasRead(r, f) => Serve(r, request[r].data, f)
  /\ MayReuse(r) /\ f \in Farm => Sources(r, f)

OnItsWay == \A r \in Regions, f \in Fields : Heard(r, f) => Brings(r, f)

SInv == Shapes /\ Asks /\ Polls /\ Caches /\ OnItsWay

-----------------------------------------------------------------------------
(* Readings                                                                *)

\* A reading is a count; it grows with the rows and with the clock, and depends on no other field.
LEMMA ReadingType ==
  ASSUME NEW data \in Counts, NEW clock \in Clocks
  PROVE  Reading(data, clock) \in Counts
BY DEF Reading, Counts, Clocks

LEMMA ReadingGrows ==
  ASSUME NEW f \in Fields, NEW data \in Counts, NEW later \in Counts,
         NEW clock \in Clocks, data[f] <= later[f]
  PROVE  Reading(data, clock)[f] <= Reading(later, clock)[f]
<1>1. data[f] \in Nat /\ later[f] \in Nat
  BY DEF Counts
<1>2. data[f] = later[f] \/ data[f] + 1 <= later[f]
  BY <1>1
<1> QED
  BY <1>1, <1>2 DEF Reading

LEMMA ReadingAges ==
  ASSUME NEW f \in Fields, NEW data \in Counts, NEW clock \in Clocks, NEW later \in Clocks,
         \A g \in Processes : clock[g] \subseteq later[g]
  PROVE  Reading(data, clock)[f] <= Reading(data, later)[f]
<1>1. data[f] \in Nat
  BY DEF Counts
<1> QED
  BY <1>1 DEF Reading

LEMMA ReadingOf ==
  ASSUME NEW f \in Fields, NEW data \in Counts, NEW other \in Counts, NEW clock \in Clocks,
         data[f] = other[f]
  PROVE  Reading(data, clock)[f] = Reading(other, clock)[f]
BY DEF Reading

\* What a poll found is no newer than the rows and the clock.
LEMMA FoundIsPast ==
  ASSUME Shapes, Polls
  PROVE  Found \in Counts /\ \A f \in Fields : Found[f] <= Reading(db, aged)[f]
<1>1. poll.data \in Counts /\ poll.clock \in Clocks /\ db \in Counts /\ aged \in Clocks
  BY DEF Shapes, Readings
<1>2. Found \in Counts
  BY <1>1, ReadingType DEF Found
<1>3. ASSUME NEW f \in Fields
      PROVE  Found[f] <= Reading(db, aged)[f]
  <2>1. Reading(poll.data, poll.clock)[f] <= Reading(db, poll.clock)[f]
    BY <1>1, ReadingGrows DEF Polls
  <2>2. Reading(db, poll.clock)[f] <= Reading(db, aged)[f]
    BY <1>1, ReadingAges DEF Polls
  <2>3. /\ Reading(poll.data, poll.clock)[f] \in Nat /\ Reading(db, poll.clock)[f] \in Nat
        /\ Reading(db, aged)[f] \in Nat
    BY <1>1, ReadingType DEF Counts
  <2> QED
    BY <2>1, <2>2, <2>3 DEF Found
<1> QED
  BY <1>2, <1>3

LEMMA NewPollHolds ==
  /\ NewPoll \in Readings
  /\ \A f \in Fields : NewPoll.data[f] = 0
  /\ \A f \in Processes : NewPoll.clock[f] = {}
BY DEF NewPoll, Readings, Zero, Counts, NoClock, Clocks

LEMMA StatementsAre ==
  ASSUME SignalsAssumption
  PROVE  /\ \A f \in Fields : Statement[f] \in Statements
         /\ \A f \in Fields \cap Farm : Statement[f] \in FarmStatements
         /\ \A f \in Fields \ Farm : Statement[f] \notin FarmStatements
         /\ FarmStatements # {}
         /\ \A r \in Regions : AsksOf(r) \subseteq Statements
         /\ \A r \in Regions : \A f \in Shows[r] : f \in Fields /\ Statement[f] \in AsksOf(r)
         /\ \A r \in Regions \cap SnapshotOf : FarmStatements \subseteq AsksOf(r)
<1>1. \A f \in Fields : f \in Farm => Statement[f] \in {1, 2}
  BY DEF Farm, Statement
<1>2. \A f \in Fields : f \notin Farm => Statement[f] \in {3, 4, 5}
  BY DEF SignalsAssumption, Farm, Tools, Statement
<1>3. FarmStatements \subseteq {1, 2}
  BY <1>1 DEF FarmStatements
<1>4. "runs" \in Fields \cap Farm
  BY DEF SignalsAssumption, Processes, Farm
<1>5. Statement["runs"] \in FarmStatements
  BY <1>4 DEF FarmStatements
<1>6. \A r \in Regions : Shows[r] \subseteq Fields
  BY DEF SignalsAssumption
<1>7. FarmStatements \subseteq Statements
  BY DEF FarmStatements, Statements
<1>8. \A r \in Regions : AsksOf(r) \subseteq Statements
  BY <1>6, <1>7 DEF AsksOf, Statements
<1>9. \A r \in Regions : \A f \in Shows[r] : Statement[f] \in AsksOf(r)
  BY DEF AsksOf
<1>10. \A r \in Regions \cap SnapshotOf : FarmStatements \subseteq AsksOf(r)
  BY DEF AsksOf
<1>11. \A f \in Fields \ Farm : Statement[f] \notin FarmStatements
  BY <1>2, <1>3
<1> QED
  BY <1>5, <1>6, <1>8, <1>9, <1>10, <1>11 DEF FarmStatements, Statements

-----------------------------------------------------------------------------
(* Steps                                                                   *)

\* Rows that move on, with a commit wherever farm.db moves: what was found before serves on.
LEMMA RowsMove ==
  ASSUME SInv, db' \in Counts, \A f \in Fields : db[f] <= db'[f],
         commits' \in {commits, commits + 1},
         \A f \in Fields \cap Farm : db'[f] = db[f] \/ commits' = commits + 1,
         UNCHANGED <<aged, shared, request, browser, stream>>
  PROVE  SInv'
<1> USE DEF browser, stream
<1>1. Shapes'
  BY DEF SInv, Shapes
<1>2. Asks'
  BY DEF SInv, Asks
<1>3. Polls'
  <2> SUFFICES ASSUME NEW f \in Fields
               PROVE  marks[f] <= Reading(db', aged)[f] /\ poll.data[f] <= db'[f]
    BY DEF SInv, Polls
  <2>1. Reading(db, aged)[f] <= Reading(db', aged)[f]
    BY ReadingGrows DEF SInv, Shapes
  <2>2. Reading(db, aged)[f] \in Nat /\ Reading(db', aged)[f] \in Nat
    BY ReadingType DEF SInv, Shapes, Counts
  <2>3. marks[f] \in Nat /\ poll.data[f] \in Nat /\ db[f] \in Nat /\ db'[f] \in Nat
    BY DEF SInv, Shapes, Counts, Readings
  <2> QED
    BY <2>1, <2>2, <2>3 DEF SInv, Polls
<1>4. Caches'
  <2>1. ASSUME NEW version, NEW value, NEW f \in Fields \cap Farm, Fresh(version, value, f)
        PROVE  Fresh(version, value, f)'
    BY <2>1 DEF SInv, Shapes, Fresh
  <2> QED
    BY <2>1 DEF SInv, Shapes, Caches, HasRead, Fresh
<1>5. OnItsWay'
  <2> SUFFICES ASSUME NEW r \in Regions, NEW f \in Fields, Heard(r, f)'
               PROVE  Brings(r, f)'
    BY DEF OnItsWay
  <2>1. Brings(r, f)
    BY DEF Heard, SInv, OnItsWay
  <2>2. Serve(r, db, f) => Serve(r, db, f)'
    <3>1. request[r].clock \in Clocks
      BY DEF SInv, Shapes, Requests
    <3>2. Reading(db, request[r].clock)[f] <= Reading(db', request[r].clock)[f]
      BY <3>1, ReadingGrows DEF SInv, Shapes
    <3>3. /\ Reading(db, request[r].clock)[f] \in Nat
          /\ Reading(db', request[r].clock)[f] \in Nat
          /\ marks[f] \in Nat
      BY <3>1, ReadingType DEF SInv, Shapes, Counts
    <3> QED
      BY <3>2, <3>3 DEF Serve
  <2> QED
    BY <2>1, <2>2 DEF Brings, Unread, HasRead, MayReuse, Sources, Serve
<1> QED
  BY <1>1, <1>2, <1>3, <1>4, <1>5 DEF SInv

LEMMA CommitStep ==
  ASSUME SInv, SignalsAssumption, NEW fields, NEW renewed,
         Commit(fields, renewed), fields \subseteq Tools /\ fields # {} => renewed = {}
  PROVE  SInv'
<1>1. db \in Counts /\ commits \in Nat
  BY DEF SInv, Shapes
<1>2. db' \in Counts /\ \A f \in Fields : db[f] <= db'[f]
  BY <1>1 DEF Commit, Counts
<1>3. commits' \in {commits, commits + 1}
  BY DEF Commit
<1>4. \A f \in Fields \cap Farm : db'[f] = db[f] \/ commits' = commits + 1
  <2> SUFFICES ASSUME NEW f \in Fields \cap Farm, commits' # commits + 1
               PROVE  db'[f] = db[f]
    OBVIOUS
  <2>1. fields \subseteq Tools /\ renewed = {}
    BY DEF Commit
  <2>2. f \notin fields
    BY <2>1 DEF Tools, Farm
  <2>3. db[f] \in Nat
    BY <1>1 DEF Counts
  <2> QED
    BY <2>1, <2>2, <2>3 DEF Commit
<1> QED
  BY <1>2, <1>3, <1>4, RowsMove DEF Commit, browser, stream

LEMMA BeatStep ==
  ASSUME SInv, SignalsAssumption, Beat
  PROVE  SInv'
<1>1. db \in Counts /\ commits \in Nat
  BY DEF SInv, Shapes
<1>2. db' = [f \in Fields |-> IF f = "works" THEN db[f] + 2 ELSE db[f]]
  BY <1>1 DEF Beat, Counts
<1>3. db' \in Counts /\ \A f \in Fields : db[f] <= db'[f]
  BY <1>1, <1>2 DEF Counts
<1>4. \A f \in Fields \cap Farm : db'[f] = db[f]
  BY <1>2 DEF Farm
<1> QED
  BY <1>1, <1>3, <1>4, RowsMove DEF Beat, browser, stream

LEMMA LapseStep ==
  ASSUME SInv, SignalsAssumption, NEW g \in Processes, Lapse(g)
  PROVE  SInv'
<1> USE DEF browser, stream
<1>1. aged' \in Clocks /\ \A f \in Processes : aged[f] \subseteq aged'[f]
  <2>1. aged \in Clocks /\ db[g] \in Nat
    BY DEF SInv, Shapes, Counts, SignalsAssumption
  <2> QED
    BY <2>1 DEF Lapse, Clocks
<1>2. Shapes'
  BY <1>1 DEF SInv, Shapes, Lapse
<1>3. Asks'
  BY DEF SInv, Asks, Lapse
<1>4. Polls'
  <2>0. \A f \in Processes : poll.clock[f] \subseteq aged'[f]
    BY <1>1 DEF SInv, Polls
  <2> SUFFICES ASSUME NEW f \in Fields
               PROVE  marks[f] <= Reading(db, aged')[f]
    BY <2>0 DEF SInv, Polls, Lapse
  <2>1. Reading(db, aged)[f] <= Reading(db, aged')[f]
    BY <1>1, ReadingAges DEF SInv, Shapes
  <2>2. Reading(db, aged)[f] \in Nat /\ Reading(db, aged')[f] \in Nat
    BY <1>1, ReadingType DEF SInv, Shapes, Counts
  <2>3. marks[f] \in Nat
    BY DEF SInv, Shapes, Counts
  <2> QED
    BY <2>1, <2>2, <2>3 DEF SInv, Polls
<1>5. Caches'
  BY DEF SInv, Caches, Fresh, HasRead, Lapse
<1>6. OnItsWay'
  BY DEF SInv, OnItsWay, Heard, Brings, Serve, Sources, MayReuse, HasRead, Unread, Lapse
<1> QED
  BY <1>2, <1>3, <1>4, <1>5, <1>6 DEF SInv

\* A reload starts with the clock of now, and has read nothing.
LEMMA BeginStep ==
  ASSUME SInv, SignalsAssumption, NEW r \in Regions, Begin(r)
  PROVE  SInv'
<1> USE DEF databases, stream
<1> DEFINE now == request'[r]
<1>1. /\ now.pc = (IF r \in SnapshotOf THEN "version" ELSE "read")
      /\ now.clock = aged /\ now.todo = AsksOf(r)
      /\ now \in Requests
      /\ \A q \in Regions \ {r} : request'[q] = request[q]
      /\ request' \in [Regions -> Requests]
  <2>1. AsksOf(r) \subseteq Statements /\ aged \in Clocks /\ request \in [Regions -> Requests]
    BY StatementsAre DEF SInv, Shapes
  <2>2. Zero \in Counts
    BY DEF Zero, Counts
  <2> QED
    BY <2>1, <2>2 DEF Begin, Requests
<1>2. Shapes'
  BY <1>1 DEF SInv, Shapes, Begin
<1>3. Asks'
  BY <1>1 DEF SInv, Asks, Begin
<1>4. Polls'
  BY DEF SInv, Polls, Begin
<1>5. \A f \in Fields \cap Farm : r \in SnapshotOf => ~HasRead(r, f)'
  BY <1>1 DEF HasRead
<1>6. \A q \in Regions \ {r}, f \in Fields : HasRead(q, f)' <=> HasRead(q, f)
  BY <1>1 DEF HasRead
<1>7. Caches'
  BY <1>1, <1>5, <1>6 DEF SInv, Caches, Fresh, Begin
<1>8. ASSUME NEW q \in Regions, NEW f \in Fields, Heard(q, f)'
      PROVE  Brings(q, f)'
  <2>1. CASE q = r
    <3>1. f \in Shows[r] /\ Statement[f] \in AsksOf(r)
      BY <1>8, <2>1, StatementsAre DEF Heard, Begin
    <3>2. Serve(r, db, f)'
      <4>1. Reading(db, aged)[f] \in Nat /\ marks[f] \in Nat
        BY ReadingType DEF SInv, Shapes, Counts
      <4> QED
        BY <1>1, <4>1 DEF SInv, Polls, Serve, Begin
    <3> QED
      BY <1>1, <2>1, <3>1, <3>2 DEF Brings, HasRead, Unread, MayReuse
  <2>2. CASE q # r
    <3>1. Heard(q, f)
      BY <1>8, <2>2 DEF Heard, Begin
    <3>2. Brings(q, f)
      BY <3>1 DEF SInv, OnItsWay
    <3>3. f \in Farm => (Sources(q, f) => Sources(q, f)')
      BY <1>1, <1>5, <1>6, <2>2 DEF Sources, Serve, Begin
    <3> QED
      BY <1>1, <2>2, <3>2, <3>3 DEF Brings, HasRead, Unread, MayReuse, Serve, Begin
  <2> QED
    BY <2>1, <2>2
<1> QED
  BY <1>2, <1>3, <1>4, <1>7, <1>8 DEF SInv, OnItsWay

\* What is kept of farm.db under the version it has now is what farm.db holds.
LEMMA VersionStep ==
  ASSUME SInv, SignalsAssumption, NEW r \in Regions, Version(r)
  PROVE  SInv'
<1> USE DEF databases, stream, browser
<1> DEFINE now == request'[r]
<1>1. /\ now.pc = "read" /\ now.version = commits /\ now.clock = request[r].clock
      /\ now.todo = request[r].todo /\ now.data = request[r].data
      /\ request[r].pc = "version"
      /\ \A q \in Regions \ {r} : request'[q] = request[q]
      /\ request' \in [Regions -> Requests]
  BY DEF SInv, Shapes, Version, Requests
<1>2. Shapes'
  BY <1>1 DEF SInv, Shapes, Version
<1>3. now.todo = AsksOf(r) /\ Asks'
  BY <1>1 DEF SInv, Asks, Version
<1>4. Polls'
  BY DEF SInv, Polls, Version
<1>5. \A f \in Fields \cap Farm : r \in SnapshotOf => ~HasRead(r, f)'
  BY <1>1, <1>3, StatementsAre DEF HasRead
<1>6. \A q \in Regions \ {r}, f \in Fields : HasRead(q, f)' <=> HasRead(q, f)
  BY <1>1 DEF HasRead
<1>7. Caches'
  <2>1. commits \in Nat
    BY DEF SInv, Shapes
  <2> QED
    BY <1>1, <1>5, <1>6, <2>1 DEF SInv, Caches, Fresh, Version
<1>8. ASSUME NEW q \in Regions, NEW f \in Fields, Heard(q, f)'
      PROVE  Brings(q, f)'
  <2>1. Heard(q, f) /\ Brings(q, f)
    BY <1>8 DEF Heard, Version, SInv, OnItsWay
  <2>2. CASE q = r
    <3>1. Statement[f] \in now.todo
      BY <1>3, <2>1, <2>2, StatementsAre DEF Heard
    <3>2. Serve(r, db, f)
      BY <1>1, <2>1, <2>2 DEF Brings, Unread
    <3>3. \A data \in Counts : data[f] = db[f] => Serve(r, data, f)
      <4>1. request[r].clock \in Clocks /\ db \in Counts
        BY DEF SInv, Shapes, Requests
      <4> QED
        BY <3>2, <4>1, ReadingOf DEF Serve
    <3>4. ASSUME f \in Farm
          PROVE  Sources(r, f)'
      <4>1. shared # None /\ shared.version = commits => Serve(r, shared.data, f)
        BY <3>3, <3>4 DEF SInv, Caches, Fresh, Shapes
      <4>2. ASSUME NEW p \in Regions \cap SnapshotOf, HasRead(p, f)', request'[p].version = commits
            PROVE  Serve(r, request'[p].data, f)
        <5>1. p # r /\ HasRead(p, f) /\ request'[p] = request[p]
          BY <1>1, <1>5, <1>6, <3>4, <4>2
        <5>2. request[p].data[f] = db[f] /\ request[p].data \in Counts
          BY <3>4, <4>2, <5>1 DEF SInv, Caches, Fresh, Shapes, Requests
        <5> QED
          BY <3>3, <5>1, <5>2
      <4> QED
        BY <1>1, <4>1, <4>2 DEF Sources, Serve, Version
    <3> QED
      BY <1>1, <2>2, <3>1, <3>2, <3>4 DEF Brings, HasRead, Unread, MayReuse, Serve, Version
  <2>3. CASE q # r
    <3>1. f \in Farm => (Sources(q, f) => Sources(q, f)')
      BY <1>1, <1>5, <1>6, <2>3 DEF Sources, Serve, Version
    <3> QED
      BY <1>1, <2>1, <2>3, <3>1 DEF Brings, HasRead, Unread, MayReuse, Serve, Version
  <2> QED
    BY <2>2, <2>3
<1> QED
  BY <1>2, <1>3, <1>4, <1>7, <1>8 DEF SInv, OnItsWay

\* The snapshot serves what the request itself would have read.
LEMMA ReuseStep ==
  ASSUME SInv, SignalsAssumption, NEW r \in Regions, Reuse(r)
  PROVE  SInv'
<1> USE DEF databases, stream, browser
<1> DEFINE now == request'[r]
<1>1. /\ now.pc = "read" /\ now.version = request[r].version /\ now.clock = request[r].clock
      /\ now.todo = AsksOf(r) \ FarmStatements /\ now.data = shared.data
      /\ shared # None /\ shared.version = request[r].version /\ MayReuse(r)
      /\ \A q \in Regions \ {r} : request'[q] = request[q]
      /\ request' \in [Regions -> Requests]
  <2>1. AsksOf(r) \subseteq Statements /\ shared.data \in Counts
    BY StatementsAre DEF SInv, Shapes, Reuse, Serves
  <2>2. request[r] \in Requests /\ request \in [Regions -> Requests]
    BY DEF SInv, Shapes
  <2>3. now = [request[r] EXCEPT !.todo = AsksOf(r) \ FarmStatements, !.data = shared.data]
    BY <2>2 DEF Reuse
  <2>4. /\ now.pc = request[r].pc /\ now.version = request[r].version
        /\ now.clock = request[r].clock
        /\ now.todo = AsksOf(r) \ FarmStatements /\ now.data = shared.data
        /\ now \in Requests
    BY <2>1, <2>2, <2>3 DEF Requests
  <2>5. /\ \A q \in Regions \ {r} : request'[q] = request[q]
        /\ request' \in [Regions -> Requests]
    BY <2>2, <2>4 DEF Reuse
  <2> QED
    BY <2>4, <2>5 DEF Reuse, Serves, MayReuse
<1>2. Shapes'
  BY <1>1 DEF SInv, Shapes, Reuse
<1>3. Asks'
  BY <1>1 DEF SInv, Asks, Reuse
<1>4. Polls'
  BY DEF SInv, Polls, Reuse
<1>5. \A f \in Fields \cap Farm : Statement[f] \notin now.todo
  BY <1>1, StatementsAre
<1>6. \A q \in Regions \ {r}, f \in Fields : HasRead(q, f)' <=> HasRead(q, f)
  BY <1>1 DEF HasRead
<1>7. Caches'
  <2>1. ASSUME NEW f \in Fields \cap Farm
        PROVE  Fresh(now.version, now.data[f], f)
    BY <1>1 DEF SInv, Caches
  <2> QED
    BY <1>1, <1>6, <2>1 DEF SInv, Caches, Fresh, Reuse, MayReuse
<1>8. ~MayReuse(r)'
  BY <1>1, StatementsAre DEF MayReuse
<1>9. ASSUME NEW q \in Regions, NEW f \in Fields, Heard(q, f)'
      PROVE  Brings(q, f)'
  <2>1. Heard(q, f) /\ Brings(q, f)
    BY <1>9 DEF Heard, Reuse, SInv, OnItsWay
  <2>2. CASE q = r
    <3>1. CASE f \in Farm
      <4>1. Serve(r, shared.data, f)
        BY <1>1, <2>1, <2>2, <3>1 DEF Brings, Sources
      <4> QED
        BY <1>1, <1>5, <1>8, <2>2, <3>1, <4>1 DEF Brings, HasRead, Unread, Serve, Reuse
    <3>2. CASE f \notin Farm
      <4>1. Statement[f] \in now.todo
        BY <1>1, <2>1, <2>2, <3>2, StatementsAre DEF Heard
      <4>2. Serve(r, db, f)
        BY <1>1, <2>1, <2>2, <4>1 DEF Brings, Unread, MayReuse
      <4> QED
        BY <1>1, <1>8, <2>2, <4>1, <4>2 DEF Brings, HasRead, Unread, Serve, Reuse
    <3> QED
      BY <3>1, <3>2
  <2>3. CASE q # r
    <3>1. f \in Farm => (Sources(q, f) => Sources(q, f)')
      BY <1>1, <1>6, <2>3 DEF Sources, Serve, Reuse
    <3> QED
      BY <1>1, <2>1, <2>3, <3>1 DEF Brings, HasRead, Unread, MayReuse, Serve, Reuse
  <2> QED
    BY <2>2, <2>3
<1> QED
  BY <1>2, <1>3, <1>4, <1>7, <1>9 DEF SInv, OnItsWay

\* A statement reads what the databases hold, and the last of farm.db is when the snapshot is kept.
LEMMA ReadStep ==
  ASSUME SInv, SignalsAssumption, NEW r \in Regions, Read(r)
  PROVE  SInv'
<1> USE DEF databases, stream, browser
<1>0. PICK i \in Statements :
        /\ i \in request[r].todo
        /\ request' = [request EXCEPT ![r].todo = @ \ {i}, ![r].data = Seen(@, i)]
        /\ shared' = IF r \in SnapshotOf /\ FarmStatements \cap request[r].todo = {i}
                     THEN [version |-> request[r].version, data |-> Seen(request[r].data, i)] ELSE shared
  BY DEF Read, Comes
<1> DEFINE now == request'[r]
<1>1. /\ now.pc = "read" /\ now.version = request[r].version /\ now.clock = request[r].clock
      /\ now.todo = request[r].todo \ {i} /\ now.data = Seen(request[r].data, i)
      /\ request[r].pc = "read" /\ request[r] \in Requests
      /\ \A q \in Regions \ {r} : request'[q] = request[q]
      /\ now.data \in Counts
      /\ request' \in [Regions -> Requests]
  <2>1. request[r].data \in Counts /\ db \in Counts /\ request[r] \in Requests
    BY DEF SInv, Shapes, Requests
  <2>2. Seen(request[r].data, i) \in Counts
    BY <2>1 DEF Counts, Seen
  <2> QED
    BY <1>0, <2>1, <2>2 DEF SInv, Shapes, Read, Requests
<1>2. now.todo \subseteq AsksOf(r) /\ Asks'
  BY <1>1 DEF SInv, Asks, Read
<1>3. ~MayReuse(r)'
  BY <1>0, <1>1 DEF MayReuse, SInv, Asks
<1>4. \A f \in Fields : now.data[f] = IF Statement[f] = i THEN db[f] ELSE request[r].data[f]
  BY <1>1 DEF Seen
<1>5. \A f \in Fields : Statement[f] # i => (HasRead(r, f)' <=> HasRead(r, f))
  BY <1>1 DEF HasRead
<1>6. \A q \in Regions \ {r}, f \in Fields : HasRead(q, f)' <=> HasRead(q, f)
  BY <1>1 DEF HasRead
<1>7. \/ shared' = shared
      \/ /\ r \in SnapshotOf /\ shared' = [version |-> now.version, data |-> now.data]
         /\ \A f \in Fields \cap Farm : HasRead(r, f)'
  <2>1. CASE r \in SnapshotOf /\ FarmStatements \cap request[r].todo = {i}
    <3>1. \A f \in Fields \cap Farm : Statement[f] \notin now.todo
      BY <1>1, <2>1, StatementsAre
    <3> QED
      BY <1>0, <1>1, <2>1, <3>1 DEF HasRead
  <2> QED
    BY <1>0, <2>1
<1>8. r \in SnapshotOf => now.version \in Nat /\ now.version <= commits
  <2>1. "runs" \in Fields \cap Farm
    BY DEF SignalsAssumption, Processes, Farm
  <2> QED
    BY <1>1, <2>1 DEF SInv, Caches
<1>9. Shapes'
  BY <1>1, <1>7, <1>8 DEF SInv, Shapes, Read
<1>10. Polls'
  BY DEF SInv, Polls, Read
<1>11. ASSUME NEW f \in Fields \cap Farm, r \in SnapshotOf, HasRead(r, f)'
       PROVE  Fresh(now.version, now.data[f], f)
  BY <1>1, <1>4, <1>5, <1>8, <1>11 DEF SInv, Caches, Fresh
<1>12. Caches'
  <2> SUFFICES ASSUME NEW f \in Fields \cap Farm
               PROVE  /\ shared' # None => Fresh(shared'.version, shared'.data[f], f)
                      /\ \A q \in Regions \cap SnapshotOf :
                           /\ request'[q].pc = "read" =>
                                request'[q].version \in Nat /\ request'[q].version <= commits
                           /\ HasRead(q, f)' => Fresh(request'[q].version, request'[q].data[f], f)
    BY DEF Caches, Fresh, Read
  <2>1. shared' # None => Fresh(shared'.version, shared'.data[f], f)
    BY <1>7, <1>11 DEF SInv, Caches
  <2> QED
    BY <1>1, <1>6, <1>8, <1>11, <2>1 DEF SInv, Caches
<1>13. ASSUME NEW q \in Regions, NEW f \in Fields, Heard(q, f)'
       PROVE  Brings(q, f)'
  <2>1. Heard(q, f) /\ Brings(q, f)
    BY <1>13 DEF Heard, Read, SInv, OnItsWay
  <2>2. \A data, other \in Counts : data[f] = other[f] /\ Serve(q, data, f) => Serve(q, other, f)
    <3>1. request[q].clock \in Clocks
      BY DEF SInv, Shapes, Requests
    <3> QED
      BY <3>1, ReadingOf DEF Serve
  <2>3. db \in Counts /\ request[r].data \in Counts
    BY <1>1 DEF SInv, Shapes, Requests
  <2>4. CASE q = r
    <3>1. Statement[f] = i => Serve(r, db, f)
      BY <1>0, <1>1, <2>1, <2>4 DEF Brings, Unread
    <3>2. HasRead(r, f)' => Serve(r, now.data, f)
      BY <1>1, <1>4, <1>5, <2>1, <2>2, <2>3, <2>4, <3>1 DEF Brings
    <3>3. Unread(r, f)' => Serve(r, db, f)
      BY <1>1, <2>1, <2>4 DEF Brings, Unread
    <3> QED
      BY <1>1, <1>3, <2>4, <3>2, <3>3 DEF Brings, Serve, Read
  <2>5. CASE q # r
    <3>1. ASSUME MayReuse(q), f \in Farm
          PROVE  Sources(q, f)'
      <4>1. Sources(q, f)
        BY <2>1, <3>1 DEF Brings
      <4>2. Serve(q, db, f)
        <5>1. Statement[f] \in request[q].todo
          BY <2>1, <3>1, StatementsAre DEF Heard, MayReuse
        <5> QED
          BY <2>1, <3>1, <5>1 DEF Brings, Unread, MayReuse
      <4>3. ASSUME r \in SnapshotOf, HasRead(r, f)', now.version = request[q].version
            PROVE  Serve(q, now.data, f)
        BY <1>1, <1>4, <1>5, <2>2, <2>3, <4>1, <4>2, <4>3 DEF Sources
      <4>4. shared' # None /\ shared'.version = request[q].version => Serve(q, shared'.data, f)
        BY <1>7, <3>1, <4>1, <4>3 DEF Sources
      <4>5. ASSUME NEW p \in Regions \cap SnapshotOf, HasRead(p, f)',
                   request'[p].version = request[q].version
            PROVE  Serve(q, request'[p].data, f)
        BY <1>1, <1>6, <4>1, <4>3, <4>5 DEF Sources
      <4> QED
        BY <1>1, <2>5, <4>4, <4>5 DEF Sources, Serve, Read
    <3> QED
      BY <1>1, <2>1, <2>5, <3>1 DEF Brings, HasRead, Unread, MayReuse, Serve, Read
  <2> QED
    BY <2>4, <2>5
<1> QED
  BY <1>2, <1>9, <1>10, <1>12, <1>13 DEF SInv, OnItsWay

LEMMA RenderStep ==
  ASSUME SInv, SignalsAssumption, NEW r \in Regions, Render(r)
  PROVE  SInv'
<1> USE DEF databases, stream
<1>1. /\ request'[r] = Idle /\ request[r].pc = "read" /\ request[r].todo = {}
      /\ shown'[r] = Reading(request[r].data, request[r].clock)
      /\ request[r].data \in Counts /\ request[r].clock \in Clocks
      /\ \A q \in Regions \ {r} : request'[q] = request[q] /\ shown'[q] = shown[q]
  BY DEF SInv, Shapes, Requests, Render
<1>2. Shapes'
  <2>1. Idle \in Requests
    BY DEF Idle, Requests, NoClock, Clocks, Zero, Counts
  <2>2. Reading(request[r].data, request[r].clock) \in Counts
    BY <1>1, ReadingType
  <2> QED
    BY <2>1, <2>2 DEF SInv, Shapes, Render
<1>3. Asks'
  BY <1>1 DEF SInv, Asks, Render, Idle
<1>4. Polls'
  BY DEF SInv, Polls, Render
<1>5. \A f \in Fields : ~HasRead(r, f)' /\ ~Unread(r, f)' /\ ~MayReuse(r)'
  BY <1>1 DEF HasRead, Unread, MayReuse, Idle
<1>6. \A q \in Regions \ {r}, f \in Fields : HasRead(q, f)' <=> HasRead(q, f)
  BY <1>1 DEF HasRead
<1>7. Caches'
  BY <1>1, <1>5, <1>6 DEF SInv, Caches, Fresh, Render, Idle
<1>8. ASSUME NEW q \in Regions, NEW f \in Fields, Heard(q, f)'
      PROVE  Brings(q, f)'
  <2>1. Heard(q, f) /\ Brings(q, f)
    BY <1>8 DEF Heard, Render, SInv, OnItsWay
  <2>2. CASE q = r
    <3>1. Serve(r, request[r].data, f)
      BY <1>1, <2>1, <2>2 DEF Brings, HasRead
    <3> QED
      BY <1>1, <1>5, <2>2, <3>1 DEF Brings, Serve, Render
  <2>3. CASE q # r
    <3>1. Sources(q, f) => Sources(q, f)'
      BY <1>1, <1>5, <1>6, <2>3 DEF Sources, Serve, Render
    <3> QED
      BY <1>1, <2>1, <2>3, <3>1 DEF Brings, HasRead, Unread, MayReuse, Serve, Render
  <2> QED
    BY <2>2, <2>3
<1> QED
  BY <1>2, <1>3, <1>4, <1>7, <1>8 DEF SInv, OnItsWay

\* A page that connects has heard of nothing yet, and one that lost its connection must again.
LEMMA ConnectionStep ==
  ASSUME SInv, SignalsAssumption, Connect \/ Connected \/ Drop
  PROVE  SInv'
<1> USE DEF databases, stream, browser
<1>1. NewPoll \in Readings /\ Found \in Counts
  BY NewPollHolds, FoundIsPast DEF SInv
<1>2. Shapes'
  BY <1>1 DEF SInv, Shapes, Connect, Connected, Drop
<1>3. Asks'
  BY DEF SInv, Asks, Connect, Connected, Drop
<1>4. Polls'
  <2>1. \A f \in Fields : marks'[f] <= Reading(db, aged)[f]
    BY FoundIsPast DEF SInv, Polls, Connect, Connected, Drop
  <2>2. \A f \in Fields : db[f] \in Nat
    BY DEF SInv, Shapes, Counts
  <2>3. poll' \in {poll, NewPoll}
    BY DEF Connect, Connected, Drop
  <2>4. /\ \A f \in Fields : poll'.data[f] <= db[f]
        /\ \A f \in Processes : poll'.clock[f] \subseteq aged[f]
    BY <2>2, <2>3, NewPollHolds DEF SInv, Polls
  <2>5. UNCHANGED <<db, aged>>
    BY DEF Connect, Connected, Drop
  <2> QED
    BY <2>1, <2>4, <2>5 DEF Polls
<1>5. Caches'
  BY DEF SInv, Caches, Fresh, HasRead, Connect, Connected, Drop
<1>6. \A r \in Regions, f \in Fields : ~Heard(r, f)'
  BY DEF Heard, Connect, Connected, Drop
<1> QED
  BY <1>2, <1>3, <1>4, <1>5, <1>6 DEF SInv, OnItsWay

LEMMA LookStep ==
  ASSUME SInv, SignalsAssumption, Look
  PROVE  SInv'
<1> USE DEF databases, stream, browser
<1>1. PICK i \in Statements :
        poll' = [todo |-> poll.todo \ {i}, data |-> Seen(poll.data, i),
                 clock |-> [f \in Processes |-> IF ClockAfter[f] = i THEN aged[f] ELSE poll.clock[f]]]
  BY DEF Look
<1>2. /\ poll.data \in Counts /\ poll.todo \subseteq Statements /\ poll.clock \in Clocks
      /\ db \in Counts /\ aged \in Clocks
  BY DEF SInv, Shapes, Readings
<1>3. poll' \in Readings
  <2>1. Seen(poll.data, i) \in Counts
    BY <1>2 DEF Counts, Seen
  <2>2. [f \in Processes |-> IF ClockAfter[f] = i THEN aged[f] ELSE poll.clock[f]] \in Clocks
    BY <1>2 DEF Clocks
  <2> QED
    BY <1>1, <1>2, <2>1, <2>2 DEF Readings
<1>4. Shapes'
  BY <1>3 DEF SInv, Shapes, Look
<1>5. Asks'
  BY DEF SInv, Asks, Look
<1>6. /\ \A f \in Fields : poll'.data[f] <= db[f]
      /\ \A f \in Processes : poll'.clock[f] \subseteq aged[f]
  <2>1. \A f \in Fields : db[f] \in Nat /\ poll.data[f] <= db[f]
    BY <1>2 DEF Counts, SInv, Polls
  <2>2. \A f \in Fields : poll'.data[f] <= db[f]
    BY <1>1, <2>1 DEF Seen
  <2>3. \A f \in Processes : poll'.clock[f] \subseteq aged[f]
    BY <1>1 DEF SInv, Polls
  <2> QED
    BY <2>2, <2>3
<1>7. Polls'
  BY <1>6 DEF SInv, Polls, Look
<1>8. Caches'
  BY DEF SInv, Caches, Fresh, HasRead, Look
<1>9. OnItsWay'
  BY DEF SInv, OnItsWay, Heard, Brings, Serve, Sources, MayReuse, HasRead, Unread, Look
<1> QED
  BY <1>4, <1>5, <1>7, <1>8, <1>9 DEF SInv

\* A field a region has heard of after the signals of a poll was not among them, and had not
\* moved since the last poll.
LEMMA TellStep ==
  ASSUME SInv, SignalsAssumption, Tell
  PROVE  SInv'
<1> USE DEF databases, stream, browser
<1> DEFINE moved == {f \in Fields : Moved(f)}
<1>1. /\ wire' = wire \cup moved /\ told' = {f \in told : Found[f] = marks[f]} \cup moved
      /\ marks' = Found /\ poll' = NewPoll
      /\ UNCHANGED <<db, commits, aged, shared, request, dirty, shown, page>>
  BY DEF Tell
<1>2. NewPoll \in Readings /\ Found \in Counts
  BY NewPollHolds, FoundIsPast DEF SInv
<1>3. Shapes'
  <2>1. told' \subseteq Fields
    BY <1>1 DEF SInv, Shapes
  <2> QED
    BY <1>1, <1>2, <2>1 DEF SInv, Shapes
<1>4. Asks'
  BY <1>1 DEF SInv, Asks
<1>5. Polls'
  <2>1. \A f \in Fields : Found[f] <= Reading(db, aged)[f] /\ db[f] \in Nat
    BY FoundIsPast DEF SInv, Shapes, Counts
  <2> QED
    BY <1>1, <2>1, NewPollHolds DEF Polls
<1>6. Caches'
  BY <1>1 DEF SInv, Caches, Fresh, HasRead
<1>7. ASSUME NEW r \in Regions, NEW f \in Fields, Heard(r, f)'
      PROVE  Brings(r, f)'
  <2>1. f \notin moved
    BY <1>1, <1>7 DEF Heard, Listens
  <2>2. f \in told /\ marks'[f] = marks[f]
    BY <1>1, <1>7, <2>1 DEF Heard
  <2>3. Heard(r, f)
    BY <1>1, <1>7, <2>2 DEF Heard
  <2>4. Brings(r, f)
    BY <2>3 DEF SInv, OnItsWay
  <2> QED
    BY <1>1, <2>2, <2>4 DEF Brings, Serve, Sources, MayReuse, HasRead, Unread
<1> QED
  BY <1>3, <1>4, <1>5, <1>6, <1>7 DEF SInv, OnItsWay

LEMMA DeliverStep ==
  ASSUME SInv, SignalsAssumption, NEW s \in Fields, Deliver(s)
  PROVE  SInv'
<1> USE DEF databases, stream, browser
<1>1. Shapes' /\ Asks' /\ Polls'
  BY DEF SInv, Shapes, Asks, Polls, Deliver
<1>2. Caches'
  BY DEF SInv, Caches, Fresh, HasRead, Deliver
<1>3. ASSUME NEW r \in Regions, NEW f \in Fields, Heard(r, f)'
      PROVE  Brings(r, f)'
  <2>1. r \notin dirty /\ ~Listens(r, s)
    BY <1>3 DEF Heard, Deliver
  <2>2. Heard(r, f)
    BY <1>3, <2>1 DEF Heard, Deliver
  <2>3. Brings(r, f)
    BY <2>2 DEF SInv, OnItsWay
  <2> QED
    BY <2>3 DEF Brings, Serve, Sources, MayReuse, HasRead, Unread, Deliver
<1> QED
  BY <1>1, <1>2, <1>3 DEF SInv, OnItsWay

LEMMA SInvStutter ==
  ASSUME SInv, UNCHANGED vars
  PROVE  SInv'
<1> USE DEF vars, databases, stream, browser
<1>1. Shapes' /\ Asks' /\ Polls'
  BY DEF SInv, Shapes, Asks, Polls
<1>2. Caches'
  BY DEF SInv, Caches, Fresh, HasRead
<1>3. OnItsWay'
  BY DEF SInv, OnItsWay, Heard, Brings, Serve, Sources, MayReuse, HasRead, Unread
<1> QED
  BY <1>1, <1>2, <1>3 DEF SInv

LEMMA SInvInit ==
  ASSUME Init, SignalsAssumption
  PROVE  SInv
<1>1. Zero \in Counts /\ db \in Counts /\ aged \in Clocks
  BY DEF Init, Zero, Counts, NoClock, Clocks, SignalsAssumption
<1>2. Idle \in Requests /\ NewPoll \in Readings
  BY <1>1, NewPollHolds DEF Init, Idle, Requests
<1>3. Shapes
  BY <1>1, <1>2 DEF Init, Shapes
<1>4. Asks /\ Caches
  BY DEF Init, Asks, Caches, HasRead, Idle
<1>5. Polls
  <2>1. \A f \in Fields : Reading(db, aged)[f] \in Nat /\ db[f] \in Nat
    BY <1>1, ReadingType DEF Counts
  <2> QED
    BY <2>1, NewPollHolds DEF Init, Polls, Zero
<1>6. OnItsWay
  BY DEF Init, OnItsWay, Heard
<1> QED
  BY <1>3, <1>4, <1>5, <1>6 DEF SInv

\* What the stream has signalled is what a region shows, once it has had its signals and reloaded:
\* however the commits, the statements of the polls and those of the requests' threads interleave,
\* and although the requests share a snapshot of farm.db (stream.py, context.py).
THEOREM SignalsAreShown ==
  ASSUME SignalsAssumption
  PROVE  Spec => []SignalledIsShown
<1>1. Init => SInv
  BY SInvInit
<1>2. SInv /\ [Next]_vars => SInv'
  <2> SUFFICES ASSUME SInv, [Next]_vars
               PROVE  SInv'
    OBVIOUS
  <2>1. ASSUME NEW events \in {{}, {"event"}}, Publish(events)
        PROVE  SInv'
    <3>1. ~({"cycle"} \cup events \subseteq Tools)
      BY DEF Tools
    <3> QED
      BY <2>1, <3>1, CommitStep DEF Publish
  <2>2. CASE StartFarmer \/ Decide
    BY <2>2, CommitStep DEF StartFarmer, Decide
  <2>3. ASSUME NEW f \in Fields \ Farm, Work(f)
        PROVE  SInv'
    BY <2>3, CommitStep DEF Work
  <2>4. CASE Beat
    BY <2>4, BeatStep
  <2>5. CASE Connect \/ Connected \/ Drop
    BY <2>5, ConnectionStep
  <2>6. CASE Look
    BY <2>6, LookStep
  <2>7. CASE Tell
    BY <2>7, TellStep
  <2>8. ASSUME NEW f \in Processes, Lapse(f)
        PROVE  SInv'
    BY <2>8, LapseStep
  <2>9. ASSUME NEW r \in Regions, Begin(r) \/ Version(r) \/ Reuse(r) \/ Read(r) \/ Render(r)
        PROVE  SInv'
    BY <2>9, BeginStep, VersionStep, ReuseStep, ReadStep, RenderStep
  <2>10. ASSUME NEW f \in Fields, Deliver(f)
         PROVE  SInv'
    BY <2>10, DeliverStep
  <2>11. CASE UNCHANGED vars
    BY <2>11, SInvStutter
  <2>12. ASSUME NEW cycled \in {{}, {"cycle"}}, StopFarmer(cycled)
         PROVE  SInv'
    <3>1. ~({"runs", "event"} \cup cycled \subseteq Tools)
      BY DEF Tools
    <3> QED
      BY <2>12, <3>1, CommitStep DEF StopFarmer
  <2> QED
    BY <2>1, <2>2, <2>3, <2>4, <2>5, <2>6, <2>7, <2>8, <2>9, <2>10, <2>11, <2>12 DEF Next
<1>3. SInv => SignalledIsShown
  <2> SUFFICES ASSUME SInv, page = "open", NEW r \in Regions \ dirty, NEW f \in Shows[r] \cap told,
                      request[r] = Idle, ~\E s \in wire : Listens(r, s)
               PROVE  shown[r][f] >= marks[f]
    BY DEF SignalledIsShown
  <2>1. f \in Fields
    BY DEF SInv, Shapes
  <2>2. Brings(r, f)
    BY <2>1 DEF SInv, OnItsWay, Heard
  <2> QED
    BY <2>2 DEF Brings, Idle
<1> QED
  BY <1>1, <1>2, <1>3, PTL DEF Spec

=============================================================================
