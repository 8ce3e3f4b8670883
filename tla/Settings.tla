-------------------------------- MODULE Settings --------------------------------
(* The settings: rows the console writes into farm.db over the farmer's own options, and the
   configuration the farmer makes of them each cycle and publishes (farm/farm_db.py,
   farm/reward_farmer.py, console/pages/settings.py). A row's text is a number, or Junk. *)
EXTENDS Integers, SequencesExt

CONSTANTS Keys,      \* SETTINGS
          Unknown,   \* a key of no setting: of a retired one, say
          GroupOf,   \* the form a key is in
          Low, High, \* of each key's Bound
          Texts,     \* what a field or a row may hold
          Bases,     \* the options a run may be started with
          Defaults,  \* FARMER_DEFAULTS
          MaxRuns, MaxWrites, \* bounds on the runs and on the forms sent
          None, Junk

Configs == [Keys -> UNION {Low[k]..High[k] : k \in Keys}]
SettingsAssumption ==
  /\ IsFiniteSet(Keys) /\ Unknown \notin Keys /\ Junk \in Texts /\ None \notin Texts /\ Junk \notin Int /\ None \notin Int
  /\ Texts \ {Junk} \subseteq Int
  /\ Low \in [Keys -> Int] /\ High \in [Keys -> Int]
  /\ Bases \subseteq Configs /\ Defaults \in Configs

VARIABLES rows,   \* the settings table, None where there is no row
          pc,     \* the farmer: "down", "waiting", "applied"
          base, cfg, errors, \* base_cfg, cfg, setting_errors
          queued, \* events not yet published
          status, \* the configuration published last, None before any
          log,    \* the settings events published, of the last run
          meant,  \* what the operator last asked of each key: a value, or None for the farmer's own
          assumed,\* keys whose last save found its value in effect without a row
          due,    \* what the cycle's configuration should be of what was asked before it
          runs, writes \* so far
farmer == <<pc, base, cfg, errors, queued>>
published == <<status, log>>
asked == <<meant, assumed, due>>
vars == <<rows, farmer, published, asked, runs, writes>>

(***************************************************************************)
(* farm_db                                                                 *)
(***************************************************************************)

ParseSetting(k, text) ==
  IF k \in Keys /\ text # Junk /\ text \in Low[k]..High[k] THEN text ELSE Junk

\* The values of the rows that parse, and the rows that do not.
Values(table) == [k \in {x \in Keys : table[x] # None /\ ParseSetting(x, table[x]) # Junk} |-> table[k]]
Errors(table) == {k \in DOMAIN table : table[k] # None /\ ParseSetting(k, table[k]) = Junk}

\* Rows left by another version may not parse.
Init ==
  /\ rows \in [Keys \cup {Unknown} -> Texts \cup {None}] /\ pc = "down"
  /\ base = Defaults /\ cfg = Defaults /\ errors = {} /\ queued = <<>> /\ status = None /\ log = <<>>
  /\ meant = [k \in Keys |-> IF k \in DOMAIN Values(rows) THEN rows[k] ELSE None]
  /\ assumed = {} /\ due = Defaults /\ runs = 0 /\ writes = 0

(***************************************************************************)
(* The console                                                             *)
(***************************************************************************)

\* Fault: what the farmer last ran with goes before an override it has not applied yet.
StatusFirst(k, table, ran) ==
  IF ran # None THEN ran[k] ELSE IF k \in DOMAIN Values(table) THEN table[k] ELSE Defaults[k]

\* A setting's value in effect: the override, else what the farmer last ran with, else its default.
SettingValue(k, table, ran) ==
  IF k \in DOMAIN Values(table) THEN table[k] ELSE IF ran # None THEN ran[k] ELSE Defaults[k]

Writes == writes < MaxWrites /\ writes' = writes + 1

\* A group's form, whole or not at all: whatever the page it was sent from showed, what differs
\* from the value in effect is written.
Save(form) ==
  /\ Writes
  /\ \A k \in DOMAIN form : ParseSetting(k, form[k]) # Junk
  /\ \E changed \in {{k \in DOMAIN form : form[k] # SettingValue(k, rows, status)}} :
       /\ rows' = [k \in DOMAIN rows |-> IF k \in changed THEN form[k] ELSE rows[k]]
       /\ assumed' = (assumed \ changed) \cup {k \in DOMAIN form \ changed : k \notin DOMAIN Values(rows)}
  /\ meant' = [k \in Keys |-> IF k \in DOMAIN form THEN form[k] ELSE meant[k]]
  /\ UNCHANGED <<farmer, published, due, runs>>

\* A form with a field that does not parse is shown back.
Refuse(form) ==
  /\ Writes
  /\ \E k \in DOMAIN form : ParseSetting(k, form[k]) = Junk
  /\ UNCHANGED <<rows, farmer, published, asked, runs>>

Reset(k) ==
  /\ Writes /\ rows' = [rows EXCEPT ![k] = None]
  /\ meant' = [meant EXCEPT ![k] = None] /\ assumed' = assumed \ {k}
  /\ UNCHANGED <<farmer, published, due, runs>>

(***************************************************************************)
(* The farmer                                                              *)
(***************************************************************************)

\* Fault: overrides are laid over the configuration of the last cycle.
OverLast(values) == [k \in Keys |-> IF k \in DOMAIN values THEN values[k] ELSE cfg[k]]

\* base_cfg with the overrides.
Overlaid(values) == [k \in Keys |-> IF k \in DOMAIN values THEN values[k] ELSE base'[k]]

\* Each change is an event from the last configuration, each error that was not there an alert.
Apply(last, known) ==
  /\ cfg' = Overlaid(Values(rows)) /\ errors' = Errors(rows)
  /\ queued' = queued
       \o SetToSeq({[alert |-> k] : k \in Errors(rows) \ known})
       \o (IF cfg' = last THEN <<>> ELSE <<[old |-> last, new |-> cfg']>>)
  /\ due' = [k \in Keys |-> IF k \in assumed THEN cfg'[k] ELSE IF meant[k] = None THEN base'[k] ELSE meant[k]]

Start(b) ==
  /\ pc = "down" /\ runs < MaxRuns /\ runs' = runs + 1
  /\ pc' = "starting" /\ base' = b /\ Apply(b, {}) /\ log' = <<>>
  /\ UNCHANGED <<rows, status, meant, assumed, writes>>

Cycle ==
  /\ pc = "waiting" /\ pc' = "applied" /\ UNCHANGED base /\ Apply(cfg, errors)
  /\ UNCHANGED <<rows, published, meant, assumed, runs, writes>>

Publish == status' = cfg /\ log' = log \o queued /\ queued' = <<>>

\* The start's end, or a cycle's; a cycle that fails somewhere leaves its events to the next one.
Flush == /\ pc \in {"starting", "applied"} /\ pc' = "waiting"
         /\ Publish \/ (pc = "applied" /\ UNCHANGED <<published, queued>>)
         /\ UNCHANGED <<rows, base, cfg, errors, asked, runs, writes>>

\* shutdown publishes; a kill, or a publish that fails, does not.
Exit == /\ pc # "down" /\ pc' = "down"
        /\ Publish \/ (UNCHANGED published /\ queued' = <<>>)
        /\ UNCHANGED <<rows, base, cfg, errors, asked, runs, writes>>

Forms == UNION {[{k \in Keys : GroupOf[k] = GroupOf[x]} -> Texts] : x \in Keys}

Next ==
  \/ \E form \in Forms : Save(form) \/ Refuse(form)
  \/ \E k \in Keys : Reset(k)
  \/ \E b \in Bases : Start(b)
  \/ Cycle \/ Flush \/ Exit
Spec == Init /\ [][Next]_vars

(***************************************************************************)
(* What the settings promise                                               *)
(***************************************************************************)

\* The first n events tell of a configuration: that of their last change, or
\* else the one before them.
Change(e) == "new" \in DOMAIN e
Tell(from, events, n, c) ==
  \/ c = from /\ \A i \in 1..n : ~Change(events[i])
  \/ \E j \in 1..n : /\ Change(events[j]) /\ events[j].new = c
                     /\ \A i \in (j + 1)..n : ~Change(events[i])

\* However forms, resets, restarts and failing cycles interleave: each cycle runs with what was
\* last asked of each key before it, the farmer's own value where that was a reset or a row that
\* does not parse; and the events published since a start tell every change up to the published
\* configuration. Not promised: a save of the value the farmer last ran with, where it has no row
\* any more or never had one. It writes nothing, so a reset, or another option, it has not applied
\* yet still comes.
ChangesTold ==
  LET events == log \o queued
  IN /\ Tell(base, events, Len(events), cfg)
     /\ \A i \in DOMAIN events : Change(events[i]) => Tell(base, events, i - 1, events[i].old)
SettingsHold ==
  /\ cfg = due
  /\ pc # "down" => ChangesTold

(***************************************************************************)
(* Why it holds                                                            *)
(***************************************************************************)

Events == [alert : Keys \cup {Unknown}] \cup [old : Configs, new : Configs]
Shapes ==
  /\ rows \in [Keys \cup {Unknown} -> Texts \cup {None}]
  /\ base \in Configs /\ cfg \in Configs
  /\ meant \in [Keys -> Int \cup {None}]
  /\ log \in Seq(Events) /\ queued \in Seq(Events)

\* A key's row is what was last asked of it, but for a save that found its value in effect.
RowsAsAsked ==
  \A k \in Keys \ assumed : meant[k] = IF k \in DOMAIN Values(rows) THEN rows[k] ELSE None

\* What the events of a run tell starts with the run.
NothingQueued == pc = "down" => queued = <<>>

SetInv == Shapes /\ RowsAsAsked /\ NothingQueued /\ SettingsHold
================================================================================
