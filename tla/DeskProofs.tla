----------------------------- MODULE DeskProofs -----------------------------
(***************************************************************************)
(* A proof about Desk for every set of markets, every listing and every    *)
(* number of scans, checks and decisions: a market's status is what the    *)
(* log of decisions says of it.                                            *)
(***************************************************************************)
EXTENDS Desk, TLAPS

Decisions == {"approved", "rejected", "unrejected"}

\* None is neither a row nor a decision.
NoneIsNone == "status" \notin DOMAIN None /\ None \notin Decisions

\* What the proof needs of the types.
Shapes ==
  /\ DOMAIN rows = Markets
  /\ \A m \in Here : "status" \in DOMAIN rows[m] /\ rows[m].status \in Statuses
  /\ log \in [Markets -> Seq(Decisions)]

\* A market nobody scanned was never decided; what the windows and the checks have under way
\* is of markets that have a row.
NothingAhead ==
  /\ \A m \in Markets \ Here : log[m] = <<>>
  /\ half # None /\ "sole" \in DOMAIN half => half.market \in Here
  /\ check # None => check.market \in Here

DInv == Shapes /\ NothingAhead /\ DecisionsAreLogged

-----------------------------------------------------------------------------
LEMMA InitDInv == Init => DInv
<1> SUFFICES ASSUME Init
             PROVE  DInv
  OBVIOUS
<1>1. Here = {} /\ DOMAIN rows = Markets /\ log = [m \in Markets |-> <<>>]
  BY DEF Init, Here
<1>2. Shapes
  BY <1>1 DEF Shapes
<1>3. NothingAhead
  BY <1>1 DEF NothingAhead, Init
<1> QED
  BY <1>1, <1>2, <1>3 DEF DInv, DecisionsAreLogged

\* Of one market: what its row and its log say together.
Sound(row, decided) ==
  /\ decided \in Seq(Decisions)
  /\ row = None => decided = <<>>
  /\ row # None =>
       LET last == IF decided = <<>> THEN None ELSE Last(decided) IN
       /\ "status" \in DOMAIN row /\ row.status \in Statuses
       /\ row.status = "candidate" => last \in {None, "unrejected"}
       /\ row.status \in {"approved", "rejected"} => last = row.status

LEMMA SoundIs ==
  /\ DInv <=> /\ DOMAIN rows = Markets /\ log \in [Markets -> Seq(Decisions)]
              /\ \A m \in Markets : Sound(rows[m], log[m])
              /\ half # None /\ "sole" \in DOMAIN half => half.market \in Here
              /\ check # None => check.market \in Here
BY DEF DInv, Shapes, NothingAhead, DecisionsAreLogged, Sound, LastOf, Here

LEMMA SoundIsNext ==
  /\ DOMAIN rows' = Markets /\ log' \in [Markets -> Seq(Decisions)]
  /\ \A m \in Markets : Sound(rows'[m], log'[m])
  /\ half' # None /\ "sole" \in DOMAIN half' => half'.market \in Here'
  /\ check' # None => check'.market \in Here'
  => DInv'
BY DEF DInv, Shapes, NothingAhead, DecisionsAreLogged, Sound, LastOf, Here

\* A row whose status stays what it was, by its log.
LEMMA SameStatus ==
  ASSUME NoneIsNone, NEW row, NEW next, NEW decided, Sound(row, decided), row # None,
         "status" \in DOMAIN next, next.status = row.status
  PROVE  Sound(next, decided) /\ next # None
BY DEF Sound, NoneIsNone

\* Deciding: the log gets what the status becomes, or has it already.
LEMMA Decided ==
  ASSUME NoneIsNone, NEW row, NEW next, NEW decided, NEW what \in {"approved", "rejected"},
         Sound(row, decided), row # None, "status" \in DOMAIN next, next.status = what,
         NEW after, after = Append(decided, what) \/ (row.status = what /\ after = decided)
  PROVE  Sound(next, after) /\ next # None
<1>1. decided \in Seq(Decisions) /\ what \in Decisions
  BY DEF Sound, Decisions
<1>2. after \in Seq(Decisions) /\ after # <<>> /\ Last(after) = what
  <2>1. CASE after = Append(decided, what)
    BY <1>1, <2>1 DEF Last
  <2>2. CASE row.status = what /\ after = decided
    BY <1>1, <2>2 DEF Sound, NoneIsNone, Decisions
  <2> QED
    BY <2>1, <2>2
<1>3. next # None
  BY DEF NoneIsNone
<1> QED
  BY <1>2, <1>3 DEF Sound, Statuses

\* A candidate again, after a rejection was taken back.
LEMMA PutBack ==
  ASSUME NoneIsNone, NEW row, NEW next, NEW decided, Sound(row, decided), row # None,
         "status" \in DOMAIN next, next.status = "candidate"
  PROVE  Sound(next, Append(decided, "unrejected")) /\ next # None
<1>1. decided \in Seq(Decisions) /\ "unrejected" \in Decisions
  BY DEF Sound, Decisions
<1>2. /\ Append(decided, "unrejected") \in Seq(Decisions)
      /\ Append(decided, "unrejected") # <<>>
      /\ Last(Append(decided, "unrejected")) = "unrejected"
  BY <1>1 DEF Last
<1>3. next # None
  BY DEF NoneIsNone
<1> QED
  BY <1>2, <1>3 DEF Sound, Statuses

\* Retired is no decision of the log.
LEMMA Retired ==
  ASSUME NoneIsNone, NEW row, NEW next, NEW decided, Sound(row, decided), row # None,
         "status" \in DOMAIN next, next.status = "retired"
  PROVE  Sound(next, decided) /\ next # None
BY DEF Sound, NoneIsNone, Statuses

-----------------------------------------------------------------------------
(* The steps                                                               *)

\* What a step of one market's row has to show.
LEMMA OneMarket ==
  ASSUME NoneIsNone, DInv, NEW m \in Here, NEW next, NEW after,
         Sound(next, after), next # None,
         rows' = [rows EXCEPT ![m] = next],
         (log' = log /\ after = log[m]) \/ log' = [log EXCEPT ![m] = after],
         half' # None /\ "sole" \in DOMAIN half' => half' = half \/ half'.market \in Here,
         check' # None => check' = check
  PROVE  DInv'
<1>1. m \in Markets /\ DOMAIN rows = Markets /\ log \in [Markets -> Seq(Decisions)]
      /\ after \in Seq(Decisions)
  BY SoundIs DEF Here, Sound
<1>2. DOMAIN rows' = Markets /\ rows'[m] = next /\ \A n \in Markets : n # m => rows'[n] = rows[n]
  BY <1>1
<1>3. log' \in [Markets -> Seq(Decisions)] /\ log'[m] = after
      /\ \A n \in Markets : n # m => log'[n] = log[n]
  BY <1>1
<1>4. Here' = Here
  BY <1>1, <1>2 DEF Here
<1>5. \A n \in Markets : Sound(rows'[n], log'[n])
  BY <1>2, <1>3, SoundIs
<1> QED
  BY <1>2, <1>3, <1>4, <1>5, SoundIs, SoundIsNext

\* What a step that only reads has to show.
LEMMA NoMarket ==
  ASSUME DInv, UNCHANGED <<rows, log>>,
         half' # None /\ "sole" \in DOMAIN half' => half' = half \/ half'.market \in Here,
         check' # None => check' = check \/ check'.market \in Here
  PROVE  DInv'
<1>1. Here' = Here
  BY DEF Here
<1> QED
  BY <1>1, SoundIs, SoundIsNext

LEMMA StatusIsThere ==
  ASSUME DInv, NEW m \in Here
  PROVE  /\ m \in Markets /\ rows[m] # None /\ "status" \in DOMAIN rows[m]
         /\ rows[m].status \in Statuses /\ Sound(rows[m], log[m])
BY SoundIs DEF Here, Sound

LEMMA ApprovalStep ==
  ASSUME NoneIsNone, DInv, NEW m \in Markets, NEW paused \in BOOLEAN, NEW sole \in BOOLEAN,
         SetApproval(m, paused, sole) \/ ApproveMarket(m)
  PROVE  DInv'
<1>1. m \in Here
  BY DEF SetApproval, ApproveMarket
<1>2. PICK next : /\ rows' = [rows EXCEPT ![m] = next]
                  /\ "status" \in DOMAIN next /\ next.status = "approved"
  <2>1. CASE SetApproval(m, paused, sole)
    <3> DEFINE next == [rows[m] EXCEPT !.status = "approved", !.paused = @ \/ paused]
    <3>1. rows' = [rows EXCEPT ![m] = next]
      BY <2>1 DEF SetApproval
    <3>2. "status" \in DOMAIN next /\ next.status = "approved"
      BY <1>1, StatusIsThere
    <3> QED
      BY <3>1, <3>2
  <2>2. CASE ApproveMarket(m)
    <3> DEFINE next == [rows[m] EXCEPT !.status = "approved"]
    <3>1. rows' = [rows EXCEPT ![m] = next]
      BY <2>2 DEF ApproveMarket, Decide
    <3>2. "status" \in DOMAIN next /\ next.status = "approved"
      BY <1>1, StatusIsThere
    <3> QED
      BY <3>1, <3>2
  <2> QED
    BY <2>1, <2>2
<1> DEFINE after == log'[m]
<1>3. LogDecision(m, "approved", Unapproved)
  BY DEF SetApproval, ApproveMarket
<1>4. rows[m].status = "approved" \/ rows[m].status \in Unapproved
  BY <1>1, StatusIsThere DEF Unapproved
<1>5. /\ (log' = log /\ after = log[m]) \/ log' = [log EXCEPT ![m] = after]
      /\ after = Append(log[m], "approved") \/ (rows[m].status = "approved" /\ after = log[m])
  <2>1. CASE rows[m].status \in Unapproved
    BY <1>1, <1>3, <2>1, SoundIs, StatusIsThere DEF LogDecision
  <2>2. CASE rows[m].status = "approved"
    BY <1>3, <2>2 DEF LogDecision, Unapproved
  <2> QED
    BY <1>4, <2>1, <2>2
<1>6. Sound(next, after) /\ next # None
  BY <1>1, <1>2, <1>5, StatusIsThere, Decided
<1>7. half' # None /\ "sole" \in DOMAIN half' => half' = half \/ half'.market \in Here
  BY <1>1 DEF SetApproval, ApproveMarket
<1>8. check' = check
  BY DEF SetApproval, ApproveMarket
<1> HIDE DEF after
<1> QED
  BY <1>1, <1>2, <1>5, <1>6, <1>7, <1>8, OneMarket

LEMMA RejectStep ==
  ASSUME NoneIsNone, DInv, NEW m \in Markets, NEW muting \in BOOLEAN, RejectMarket(m, muting)
  PROVE  DInv'
<1> DEFINE next == [rows[m] EXCEPT !.status = "rejected"]
           after == Append(log[m], "rejected")
<1>1. m \in Here /\ rows' = [rows EXCEPT ![m] = next]
  BY DEF RejectMarket, Decide
<1>2. "status" \in DOMAIN next /\ next.status = "rejected"
  BY <1>1, StatusIsThere
<1>3. log' = [log EXCEPT ![m] = after]
  BY <1>1, StatusIsThere DEF RejectMarket, LogDecision
<1> HIDE DEF next
<1>4. Sound(next, after) /\ next # None
  BY <1>1, <1>2, StatusIsThere, Decided
<1>5. half' # None /\ "sole" \in DOMAIN half' => half' = half \/ half'.market \in Here
  BY DEF RejectMarket
<1>6. check' = check
  BY DEF RejectMarket
<1> HIDE DEF after
<1> QED
  BY <1>1, <1>3, <1>4, <1>5, <1>6, OneMarket

LEMMA UnrejectStep ==
  ASSUME NoneIsNone, DInv, NEW m \in Markets, UnrejectMarket(m)
  PROVE  DInv'
<1>1. m \in Here /\ UNCHANGED <<half, check>>
  BY DEF UnrejectMarket
<1>2. CASE rows[m].status = "rejected"
  <2> DEFINE next == [rows[m] EXCEPT !.status = "candidate"]
             after == Append(log[m], "unrejected")
  <2>1. rows' = [rows EXCEPT ![m] = next] /\ log' = [log EXCEPT ![m] = after]
    BY <1>2 DEF UnrejectMarket, FromRejected, LogDecision
  <2>2. "status" \in DOMAIN next /\ next.status = "candidate"
    BY <1>1, StatusIsThere
  <2> HIDE DEF next
  <2>3. Sound(next, after) /\ next # None
    BY <1>1, <2>2, StatusIsThere, PutBack
  <2> HIDE DEF after
  <2> QED
    BY <1>1, <2>1, <2>3, OneMarket
<1>3. CASE rows[m].status # "rejected"
  <2>1. UNCHANGED <<rows, log>>
    BY <1>3 DEF UnrejectMarket, FromRejected, LogDecision
  <2> QED
    BY <1>1, <2>1, NoMarket
<1> QED
  BY <1>2, <1>3

LEMMA RetireStep ==
  ASSUME NoneIsNone, DInv, NEW m \in Markets, RetireMarket(m) \/ MarkRetired(m)
  PROVE  DInv'
<1> DEFINE next == [rows[m] EXCEPT !.status = "retired"]
<1>1. m \in Here /\ rows' = [rows EXCEPT ![m] = next] /\ UNCHANGED <<log, half, check>>
  BY DEF RetireMarket, MarkRetired, Decide
<1>2. "status" \in DOMAIN next /\ next.status = "retired"
  BY <1>1, StatusIsThere
<1> HIDE DEF next
<1>3. Sound(next, log[m]) /\ next # None
  BY <1>1, <1>2, StatusIsThere, Retired
<1> QED
  BY <1>1, <1>3, OneMarket

\* A row that changes in anything but its status.
LEMMA TouchStep ==
  ASSUME NoneIsNone, DInv, NEW m \in Here, NEW next, "status" \in DOMAIN next,
         next.status = rows[m].status, rows' = [rows EXCEPT ![m] = next], log' = log,
         half' # None /\ "sole" \in DOMAIN half' => half' = half,
         check' # None => check' = check
  PROVE  DInv'
<1>1. Sound(next, log[m]) /\ next # None
  BY StatusIsThere, SameStatus
<1> QED
  BY <1>1, OneMarket

LEMMA SecondWriteStep ==
  ASSUME NoneIsNone, DInv, SecondWrite
  PROVE  DInv'
<1>1. half # None /\ half' = None /\ UNCHANGED <<log, check>>
  BY DEF SecondWrite
<1>2. CASE rows' = rows
  BY <1>1, <1>2, NoMarket
<1>3. CASE "sole" \in DOMAIN half /\ rows' = [rows EXCEPT ![half.market].sole = half.sole]
  <2> DEFINE m == half.market
             next == [rows[m] EXCEPT !.sole = half.sole]
  <2>1. m \in Here
    BY <1>1, <1>3 DEF DInv, NothingAhead
  <2>2. "status" \in DOMAIN next /\ next.status = rows[m].status
    BY <2>1, StatusIsThere
  <2>3. rows' = [rows EXCEPT ![m] = next]
    BY <1>3
  <2> HIDE DEF next, m
  <2> QED
    BY <1>1, <2>1, <2>2, <2>3, TouchStep
<1> QED
  BY <1>2, <1>3 DEF SecondWrite

LEMMA CheckStep ==
  ASSUME NoneIsNone, DInv,
         \/ \E m \in Markets : CheckBegins(m)
         \/ \E active \in {None, TRUE, FALSE} : RecordRewards(active)
  PROVE  DInv'
<1>1. ASSUME NEW m \in Markets, CheckBegins(m)
      PROVE  DInv'
  BY <1>1, NoMarket DEF CheckBegins, tables
<1>2. ASSUME NEW active \in {None, TRUE, FALSE}, RecordRewards(active)
      PROVE  DInv'
  <2>1. check # None /\ check' = None /\ UNCHANGED <<log, half>>
    BY <1>2 DEF RecordRewards
  <2>2. CASE rows' = rows
    BY <2>1, <2>2, NoMarket
  <2>3. CASE rows' = [rows EXCEPT ![check.market].active = active]
    <3> DEFINE m == check.market
               next == [rows[m] EXCEPT !.active = active]
    <3>1. m \in Here
      BY <2>1 DEF DInv, NothingAhead
    <3>2. "status" \in DOMAIN next /\ next.status = rows[m].status
      BY <3>1, StatusIsThere
    <3>3. rows' = [rows EXCEPT ![m] = next]
      BY <2>3
    <3> HIDE DEF next, m
    <3> QED
      BY <2>1, <3>1, <3>2, <3>3, TouchStep
  <2> QED
    BY <1>2, <2>2, <2>3 DEF RecordRewards
<1> QED
  BY <1>1, <1>2

\* Steps that rewrite every row keep each status, and begin a row as a candidate.
LEMMA ManyMarkets ==
  ASSUME NoneIsNone, DInv, DOMAIN rows' = Markets, UNCHANGED <<log, half, check>>,
         \A m \in Markets :
           \/ rows'[m] = rows[m]
           \/ "status" \in DOMAIN rows'[m] /\ rows'[m].status
                = IF rows[m] = None THEN "candidate" ELSE rows[m].status
  PROVE  DInv'
<1>1. ASSUME NEW m \in Markets
      PROVE  Sound(rows'[m], log[m]) /\ (rows[m] # None => rows'[m] # None)
  <2>1. CASE rows'[m] = rows[m]
    BY <2>1, SoundIs
  <2>2. CASE rows'[m] # rows[m] /\ rows[m] = None
    BY <2>2, SoundIs DEF Sound, NoneIsNone, Statuses
  <2>3. CASE rows'[m] # rows[m] /\ rows[m] # None
    BY <2>3, SoundIs, SameStatus
  <2> QED
    BY <2>1, <2>2, <2>3
<1>2. Here \subseteq Here'
  BY <1>1 DEF Here
<1> QED
  BY <1>1, <1>2, SoundIs, SoundIsNext

LEMMA PayingStep ==
  ASSUME NoneIsNone, DInv, NEW paying \in SUBSET Markets, RecordPaying(paying)
  PROVE  DInv'
<1>1. ASSUME NEW m \in Markets, rows'[m] # rows[m]
      PROVE  m \in Here /\ "status" \in DOMAIN rows'[m] /\ rows'[m].status = rows[m].status
  <2>1. m \in Here /\ rows'[m] = [rows[m] EXCEPT !.active = m \in paying]
    BY <1>1 DEF RecordPaying
  <2> QED
    BY <2>1, StatusIsThere
<1>2. DOMAIN rows' = Markets /\ UNCHANGED <<log, half, check>>
  BY DEF RecordPaying
<1> QED
  BY <1>1, <1>2, ManyMarkets DEF Here

\* A scan leaves every status as it is: what it adds are candidates.
LEMMA StoreStep ==
  ASSUME NoneIsNone, DInv, NEW r \in Runners, Store(r), UNCHANGED <<log, half, check>>
  PROVE  DInv'
<1>1. DOMAIN rows' = Markets
  BY DEF Store
<1>2. ASSUME NEW m \in Markets
      PROVE  \/ rows'[m] = rows[m]
             \/ "status" \in DOMAIN rows'[m] /\ rows'[m].status
                  = IF rows[m] = None THEN "candidate" ELSE rows[m].status
  <2>1. CASE m \in DOMAIN scans[r].found
    <3>1. PICK mode, at, active :
            rows'[m] = [RowOf(m, mode, at) EXCEPT !.active = active]
      BY <2>1 DEF Store
    <3>2. CASE rows[m] = None
      BY <3>1, <3>2 DEF RowOf
    <3>3. CASE rows[m] # None
      <4>1. m \in Here
        BY <3>3 DEF Here
      <4> QED
        BY <3>1, <3>3, <4>1, StatusIsThere DEF RowOf
    <3> QED
      BY <3>2, <3>3
  <2>2. CASE m \notin DOMAIN scans[r].found /\ rows[m] # None
    <3>1. m \in Here /\ rows'[m] = [rows[m] EXCEPT !.active = m \in scans[r].listed]
      BY <2>2 DEF Store, Here
    <3> QED
      BY <2>2, <3>1, StatusIsThere
  <2>3. CASE m \notin DOMAIN scans[r].found /\ rows[m] = None
    BY <2>3 DEF Store
  <2> QED
    BY <2>1, <2>2, <2>3
<1> QED
  BY <1>1, <1>2, ManyMarkets

LEMMA ScanStep ==
  ASSUME NoneIsNone, DInv, NEW r \in Runners,
         \/ ScanStart(r) \/ ScanReads(r)
         \/ \E stored \in BOOLEAN, ends \in {"done", "failed"} : ScanEnds(r, stored, ends)
  PROVE  DInv'
<1>1. CASE ScanStart(r)
  BY <1>1, NoMarket DEF ScanStart, tables
<1>2. CASE ScanReads(r)
  BY <1>2, NoMarket DEF ScanReads, tables
<1>3. ASSUME NEW stored \in BOOLEAN, NEW ends \in {"done", "failed"}, ScanEnds(r, stored, ends)
      PROVE  DInv'
  <2>1. UNCHANGED <<log, half, check>> /\ (Store(r) \/ rows' = rows)
    BY <1>3 DEF ScanEnds
  <2> QED
    BY <2>1, StoreStep, NoMarket
<1> QED
  BY <1>1, <1>2, <1>3

LEMMA DInvStep == NoneIsNone /\ DInv /\ [Next]_vars => DInv'
<1> SUFFICES ASSUME NoneIsNone, DInv, [Next]_vars
             PROVE  DInv'
  OBVIOUS
<1>1. ASSUME NEW r \in Runners,
             \/ ScanStart(r) \/ ScanReads(r)
             \/ \E stored \in BOOLEAN, ends \in {"done", "failed"} : ScanEnds(r, stored, ends)
      PROVE  DInv'
  BY <1>1, ScanStep
<1>2. ASSUME NEW m \in Markets, \/ \E paused, sole \in BOOLEAN : SetApproval(m, paused, sole)
                                \/ ApproveMarket(m)
      PROVE  DInv'
  BY <1>2, ApprovalStep
<1>3. ASSUME NEW m \in Markets, \/ \E muting \in BOOLEAN : RejectMarket(m, muting)
                                \/ UnrejectMarket(m)
      PROVE  DInv'
  BY <1>3, RejectStep, UnrejectStep
<1>4. ASSUME NEW m \in Markets, RetireMarket(m) \/ MarkRetired(m)
      PROVE  DInv'
  BY <1>4, RetireStep
<1>5. CASE \/ \E m \in Markets : CheckBegins(m)
           \/ \E active \in {None, TRUE, FALSE} : RecordRewards(active)
  BY <1>5, CheckStep
<1>6. CASE SecondWrite
  BY <1>6, SecondWriteStep
<1>7. CASE Mute \/ Unmute
  BY <1>7, NoMarket DEF Mute, Unmute
<1>8. CASE \E paying \in SUBSET Markets : RecordPaying(paying)
  BY <1>8, PayingStep
<1>9. CASE UNCHANGED vars
  BY <1>9, NoMarket DEF vars, tables
<1> QED
  BY <1>1, <1>2, <1>3, <1>4, <1>5, <1>6, <1>7, <1>8, <1>9 DEF Next

\* However scans, live checks, the farmer and the operator's windows interleave, and wherever a
\* request or a scan ends half done, the log of decisions says what each status is.
THEOREM StatusesAreLogged == ASSUME NoneIsNone PROVE Spec => []DecisionsAreLogged
<1>1. Init => DInv
  BY InitDInv
<1>2. DInv /\ [Next]_vars => DInv'
  BY DInvStep
<1>3. DInv => DecisionsAreLogged
  BY DEF DInv
<1> QED
  BY <1>1, <1>2, <1>3, PTL DEF Spec
=============================================================================
