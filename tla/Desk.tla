--------------------------------- MODULE Desk ---------------------------------
(* The markets of farm.db and who decides on them (farm/farm_db.py, farm/reward_screener.py,
   console/scan.py, console/pages/review.py): scans from the console and the command line, the
   operator's decisions, the live checks of what still pays, and the farmer's retirements, each
   a transaction of its own. The queue of candidates is a read of these rows, and shows nothing
   a decision here rests on: any market is reached by its address. *)
EXTENDS Integers, SequencesExt

CONSTANTS Markets,
          EventOf(_),   \* the event a market belongs to
          Best,         \* Markets by rank_score, best first
          Listings,     \* what Polymarket may list, see ScreenListing
          MinRate, MinWindow, MinPrice, \* min_rate, min_window_days, the loose price floor
          Assess(_, _, _), \* "floor", "sole", "costs" or "skip", of a market, the prior and whether
                        \* its own fills were read
          Tapes,        \* tape_markets
          Samples,      \* what may be drawn: PRIOR_SAMPLE of the valued
          MinFit,       \* PRIOR_MIN_MARKETS
          MaxScans, MaxActs, \* bounds on the scans, and on everything else
          None

VARIABLES rows,     \* markets: [status, paused, sole, active, mode, scanned], or None
          log,      \* decisions, by market
          mutes,    \* the muted events
          prior,    \* scan.fill_prior
          job,      \* ScanRunner.job: "idle", "running", "done", "failed"
          scans,    \* the scan under way, of "console" and "cli", or None
          started,  \* the scans started so far
          half,     \* what the console has yet to write of a decision: [market, sole] or [mute]
          check,    \* a live check under way: [market, row], the row as it was read
          acts
tables == <<rows, log, mutes, prior>>
scanning == <<job, scans, started>>
vars == <<tables, scanning, half, check, acts>>

Runners == {"console", "cli"}
Here == {m \in Markets : rows[m] # None}

Init ==
  /\ rows = [m \in Markets |-> None] /\ log = [m \in Markets |-> <<>>] /\ mutes = {}
  /\ prior = "default" /\ job = "idle" /\ scans = [r \in Runners |-> None] /\ started = 0
  /\ half = None /\ check = None /\ acts = 0

(***************************************************************************)
(* A scan: run_scan and store                                              *)
(***************************************************************************)

\* Why a listed market is skipped before its book is read, or "kept".
ScreenListing(item) ==
  IF ~item.active THEN "inactive"
  ELSE IF ~item.accepting THEN "not accepting orders"
  ELSE IF item.excluded THEN "excluded category"
  ELSE IF item.spread = 0 THEN "no max spread"
  ELSE IF item.rate < MinRate THEN "rate too low"
  ELSE IF item.window < MinWindow THEN "window too short"
  ELSE IF item.price < MinPrice THEN "favorite too cheap"
  ELSE "kept"

\* A market still open whose outcome is already known.
ResolutionSignal(item) == item.eventClosed \/ item.proposed

Candidates(listing) ==
  {m \in DOMAIN listing : ScreenListing(listing[m]) = "kept" /\ listing[m].book
                            /\ ~ResolutionSignal(listing[m])}

\* What each candidate is assessed as, and whose fills were valued.
AssessAll(candidates, p, read) == [m \in candidates |-> Assess(m, p, m \in read)]
Kept(assessed) == {m \in DOMAIN assessed : assessed[m] \in {"floor", "sole"}}
Valued(assessed) == {m \in DOMAIN assessed : assessed[m] \in {"floor", "costs"}}

\* The best that quote both sides, passing over those rejected when the scan began.
Top(assessed, rejected) ==
  LET quoting == SelectSeq(Best, LAMBDA m : /\ m \in Kept(assessed) \ rejected
                                            /\ assessed[m] # "sole")
  IN {quoting[i] : i \in 1..Min({Tapes, Len(quoting)})}

\* A prior is fit from the sample's own reads alone; too few leave the one the scan began with.
Fitted(sample, read, p) == IF Cardinality(sample \cap read) < MinFit THEN None ELSE "fitted"

ScanStart(r) ==
  /\ started < MaxScans /\ scans[r] = None
  /\ IF r = "console" THEN job # "running" /\ job' = "running" ELSE UNCHANGED job
  /\ started' = started + 1
  /\ scans' = [scans EXCEPT ![r] =
                 [at |-> started', prior |-> prior, found |-> None, listed |-> {}, fitted |-> None,
                  rejected |-> {m \in Here : rows[m].status = "rejected"}]]
  /\ UNCHANGED <<tables, half, check, acts>>

\* Both passes, with the reads between them: some of those asked for land.
ScanReads(r) ==
  /\ scans[r] # None /\ scans[r].found = None
  /\ \E listing \in Listings, drawn \in Samples :
       \E first \in {AssessAll(Candidates(listing), scans[r].prior, {})} :
         LET sample == drawn \cap Valued(first)
         IN \E read \in SUBSET (Top(first, scans[r].rejected) \cup sample) :
              LET fit == Fitted(sample, read, scans[r].prior)
                  second == AssessAll(Candidates(listing),
                                      IF fit = None THEN scans[r].prior ELSE fit, read)
              IN scans' = [scans EXCEPT ![r].found = [m \in Kept(second) |-> second[m]],
                                        ![r].listed = DOMAIN listing, ![r].fitted = fit]
  /\ UNCHANGED <<tables, job, started, half, check, acts>>

\* Fault: a market scanned again is a candidate again.
RowAnew(m, mode, at) ==
  [status |-> "candidate", paused |-> FALSE, sole |-> FALSE, active |-> TRUE, mode |-> mode,
   scanned |-> at]

\* A row as a scan leaves it: what the operator decided is never touched.
RowOf(m, mode, at) ==
  IF rows[m] = None
  THEN [status |-> "candidate", paused |-> FALSE, sole |-> FALSE, active |-> TRUE, mode |-> mode,
        scanned |-> at]
  ELSE [rows[m] EXCEPT !.active = TRUE, !.mode = mode, !.scanned = at]

\* store_scan, one transaction: last_scanned is the time the scan began. Every market is then
\* active as listed, assessed or not.
Store(r) ==
  /\ rows' = [m \in Markets |->
                IF m \in DOMAIN scans[r].found
                THEN [RowOf(m, scans[r].found[m], scans[r].at) EXCEPT !.active = m \in scans[r].listed]
                ELSE IF rows[m] = None THEN None
                ELSE [rows[m] EXCEPT !.active = m \in scans[r].listed]]
  /\ prior' = IF scans[r].fitted = None THEN prior ELSE scans[r].fitted

\* The console's scan ends done, or failed when it, the store, or what follows the store raised.
ScanEnds(r, stored, ends) ==
  /\ scans[r] # None
  /\ IF stored THEN scans[r].found # None /\ Store(r) ELSE UNCHANGED <<rows, prior>>
  /\ ends = "done" => stored
  /\ job' = IF r = "console" THEN ends ELSE job
  /\ scans' = [scans EXCEPT ![r] = None]
  /\ UNCHANGED <<log, mutes, started, half, check, acts>>

(***************************************************************************)
(* Decisions                                                               *)
(***************************************************************************)

Act == acts < MaxActs /\ acts' = acts + 1
Decide(m, status) == rows' = [rows EXCEPT ![m].status = status]
\* _log_decision: a row of the log if the market's status is one of these.
LogDecision(m, what, statuses) ==
  log' = IF rows[m].status \in statuses THEN [log EXCEPT ![m] = Append(@, what)] ELSE log

Statuses == {"candidate", "approved", "rejected", "retired"}
Unapproved == Statuses \ {"approved"}

\* set_approval from the review page, and the sole bid after it in a transaction of its own.
SetApproval(m, paused, sole) ==
  /\ m \in Here /\ half = None /\ Act
  /\ LogDecision(m, "approved", Unapproved)
  /\ rows' = [rows EXCEPT ![m].status = "approved", ![m].paused = @ \/ paused]
  /\ half' = [market |-> m, sole |-> sole]
  /\ UNCHANGED <<mutes, prior, scanning, check>>

\* approve_market, from the command line.
ApproveMarket(m) ==
  /\ m \in Here /\ Act /\ LogDecision(m, "approved", Unapproved) /\ Decide(m, "approved")
  /\ UNCHANGED <<mutes, prior, scanning, half, check>>

\* The review page may go on to mute the market's event.
RejectMarket(m, muting) ==
  /\ m \in Here /\ half = None /\ Act
  /\ LogDecision(m, "rejected", Statuses) /\ Decide(m, "rejected")
  /\ half' = IF muting THEN [mute |-> EventOf(m)] ELSE None
  /\ UNCHANGED <<mutes, prior, scanning, check>>

\* The second transaction of a request; or the console dies before it.
SecondWrite ==
  /\ half # None /\ half' = None
  /\ \/ /\ "sole" \in DOMAIN half
        /\ rows' = [rows EXCEPT ![half.market].sole = half.sole] /\ UNCHANGED mutes
     \/ "mute" \in DOMAIN half /\ mutes' = mutes \cup {half.mute} /\ UNCHANGED rows
     \/ UNCHANGED <<rows, mutes>>
  /\ UNCHANGED <<log, prior, scanning, check, acts>>

\* Fault: any market asked for goes back to the queue, whatever its status.
FromAny(m) == TRUE

\* Only a market that is rejected goes back to the queue.
FromRejected(m) == rows[m].status = "rejected"

UnrejectMarket(m) ==
  /\ m \in Here /\ Act
  /\ LogDecision(m, "unrejected", {"rejected"})
  /\ rows' = IF FromRejected(m) THEN [rows EXCEPT ![m].status = "candidate"] ELSE rows
  /\ UNCHANGED <<mutes, prior, scanning, half, check>>

\* Retired by the operator, or by the farmer while the row still says approved; neither is a
\* decision of the log.
RetireMarket(m) ==
  /\ m \in Here /\ Act /\ Decide(m, "retired")
  /\ UNCHANGED <<log, mutes, prior, scanning, half, check>>
MarkRetired(m) ==
  /\ m \in Here /\ rows[m].status = "approved" /\ Act /\ Decide(m, "retired")
  /\ UNCHANGED <<log, mutes, prior, scanning, half, check>>

Mute ==
  /\ Act /\ \E m \in Here : mutes' = mutes \cup {EventOf(m)}
  /\ UNCHANGED <<rows, log, prior, scanning, half, check>>
Unmute ==
  /\ mutes # {} /\ Act /\ \E event \in mutes : mutes' = mutes \ {event}
  /\ UNCHANGED <<rows, log, prior, scanning, half, check>>

(***************************************************************************)
(* The live checks                                                         *)
(***************************************************************************)

\* A review page, of any market by its address, or its search for the next market the farmer
\* would quote, reads the row, then asks Polymarket.
CheckBegins(m) ==
  /\ check = None /\ Act /\ m \in Here
  /\ check' = [market |-> m, row |-> rows[m]]
  /\ UNCHANGED <<tables, scanning, half>>

\* record_rewards: what it stores depends on the row as it was read. None is unknown.
RecordRewards(active) ==
  /\ check # None /\ check' = None
  /\ rows' = IF check.row.status = "candidate" /\ active \notin {None, check.row.active}
             THEN [rows EXCEPT ![check.market].active = active] ELSE rows
  /\ UNCHANGED <<log, mutes, prior, scanning, half, acts>>

\* The listing of total rates has landed: set_candidates_rewards_active.
RecordPaying(paying) ==
  /\ Act
  /\ rows' = [m \in Markets |-> IF m \in Here /\ rows[m].status = "candidate"
                                THEN [rows[m] EXCEPT !.active = m \in paying] ELSE rows[m]]
  /\ UNCHANGED <<log, mutes, prior, scanning, half, check>>

Next ==
  \/ \E r \in Runners : \/ ScanStart(r) \/ ScanReads(r)
                        \/ \E stored \in BOOLEAN, ends \in {"done", "failed"} : ScanEnds(r, stored, ends)
  \/ \E m \in Markets : \/ \E paused, sole \in BOOLEAN : SetApproval(m, paused, sole)
                        \/ \E muting \in BOOLEAN : RejectMarket(m, muting)
                        \/ ApproveMarket(m) \/ UnrejectMarket(m) \/ RetireMarket(m) \/ MarkRetired(m)
                        \/ CheckBegins(m)
  \/ SecondWrite \/ Mute \/ Unmute
  \/ \E active \in {None, TRUE, FALSE} : RecordRewards(active)
  \/ \E paying \in SUBSET Markets : RecordPaying(paying)
Spec == Init /\ [][Next]_vars

(***************************************************************************)
(* What the desk promises                                                  *)
(***************************************************************************)

LastOf(m) == IF log[m] = <<>> THEN None ELSE Last(log[m])

\* However scans, live checks, the farmer and the operator's windows interleave, and wherever a
\* request or a scan ends half done: a market's status is what the log of decisions says of it,
\* unless it was retired. A candidate was never decided or was put back, and an approved or a
\* rejected market is there by the decision logged last.
DecisionsAreLogged ==
  \A m \in Here :
    /\ rows[m].status = "candidate" => LastOf(m) \in {None, "unrejected"}
    /\ rows[m].status \in {"approved", "rejected"} => LastOf(m) = rows[m].status
===============================================================================
