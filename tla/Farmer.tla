------------------------------- MODULE Farmer -------------------------------
(***************************************************************************)
(* The live reward farmer (farm/reward_farmer.py), the rows of farm.db it  *)
(* shares with the console (farm/farm_db.py), and the account on the       *)
(* exchange: its resting orders and its shares.                            *)
(*                                                                         *)
(* The farmer is one thread.  A cycle is the chain of pc values            *)
(*   read, commands, positions, plan, cancel, post, settle                 *)
(* with one value for each stretch that the console, the exchange or a     *)
(* signal can come between.  What decides a target (prices, sizes, nets,   *)
(* scores, the keep rules, a slot backing off) is a choice among the       *)
(* targets the phase, the position and the capital allow.                  *)
(***************************************************************************)
EXTENDS Integers, FiniteSetsExt, Functions

CONSTANTS
  Market,      \* condition ids
  Role,        \* the tokens of a market: "FAV" and "LONG"
  Own,         \* shares of each the wallet held before any run of the farmer
  Room,        \* shares of each its bids may buy: the capital, the naked budget
  KeepOrders,  \* --keep-orders
  None,        \* no baseline, no position, no market
  MaxRuns,     \* bound on the farmer's starts
  MaxCommands, \* bound on the commands ever sent
  MaxShares,   \* bound on the shares of a token the wallet comes to hold
  MaxOrders,   \* bound on the orders resting at once
  May          \* what may happen: "signal", Ctrl+C or SIGTERM; "kill", the process dies
               \* without a word; "db", a statement raises; "cancel", a cancel fails;
               \* "read", the CLOB, the data API or a book cannot be read

ASSUME ConstantsAssumption ==
  /\ Role \subseteq {"FAV", "LONG"}
  /\ Own \in [Role -> 0..MaxShares]
  /\ Room \in [Role -> Nat]
  /\ KeepOrders \in BOOLEAN
  /\ {MaxRuns, MaxCommands, MaxShares, MaxOrders} \subseteq Nat
  /\ None \notin Market \cup [Role -> Nat]
  /\ May \subseteq {"signal", "kill", "db", "cancel", "read"}

VARIABLES
  \* farm.db
  row,      \* markets: the decision, the pause and the saved baseline of each
  commands, \* the commands not consumed
  sent,     \* commands ever sent
  \* the exchange
  book,     \* resting orders
  wallet,   \* shares of each market's tokens
  \* the farmer
  pc,       \* where it is, or how the last run ended
  run,      \* runs started
  starting, \* it has not reached its first cycle
  stop,     \* whether it is to stop, and what becomes of the orders then
  mem,      \* self.markets
  batch,    \* the commands read and not yet obeyed, which it obeys oldest first
  plan,     \* what the cycle has planned and not yet done
  \* histories
  missed,   \* ids of the resting orders whose cancel was asked for and failed
  ended     \* commands that ended a cooldown

db == <<row, commands, sent>>
exchange == <<book, wallet, missed>>
process == <<run, starting, stop>>
memory == <<mem, batch, plan>>
vars == <<db, exchange, pc, process, memory, ended>>

-----------------------------------------------------------------------------
(* Rows, orders and memory                                                 *)

Shares == [Role -> 0..MaxShares]

\* A row's status is approved or one of three the farmer does not tell apart: candidate,
\* rejected, retired.
Row == [approved : BOOLEAN, paused : BOOLEAN, base : {None} \cup Shares]

Command == [id : 1..MaxCommands, kind : {"stop", "end_cooldown"},
            keep : BOOLEAN, market : Market \cup {None}, at : 0..MaxRuns]

Slot == Role \X {"BUY", "SELL"}
Bids == {s \in Slot : s[2] = "BUY"}
Order == [id : 1..MaxOrders, market : Market, slot : Slot, size : 1..MaxShares,
          by : 1..MaxRuns]
Place == [market : Market, slot : Slot, size : 1..MaxShares]

Phase == {"QUOTING", "COOLDOWN", "BELOW_RANGE", "SOLE_BID", "PAUSED", "UNREWARDED",
          "RETIRED"}
ExitsRest == {"COOLDOWN", "BELOW_RANGE", "UNREWARDED"}

\* A market's runtime: its phase, the row as last loaded, the baseline, the farm's own
\* shares as last read, and whether a longshot fill keeps the naked bid off the book.
Managed == [phase : Phase, approved : BOOLEAN, paused : BOOLEAN,
            base : {None} \cup Shares, position : {None} \cup Shares, naked : BOOLEAN]
\* Fault: the saved baseline of an earlier run is not read.
NewManagedAfresh(r) == [phase |-> "QUOTING", approved |-> TRUE, paused |-> r.paused,
                        base |-> None, position |-> None, naked |-> TRUE]
NewManaged(r) == [phase |-> "QUOTING", approved |-> TRUE, paused |-> r.paused,
                  base |-> r.base, position |-> None, naked |-> TRUE]

NoPlan == [cancels |-> {}, places |-> {}, retires |-> {}]

Ended == {"none", "cleared", "kept", "dead"}
Cycling == {"read", "commands", "positions", "plan", "cancel", "post", "settle"}
Up == pc \notin Ended

Farmed(m) == mem[m] # None
Active(m) == Farmed(m) /\ mem[m].phase # "RETIRED"
\* Fault: the orders an earlier run left are not recognised.
OrdersOfThisRun(m) == {o \in book : o.market = m /\ o.by = run}
OrdersOf(m) == {o \in book : o.market = m}

TypeOK ==
  /\ row \in [Market -> Row]
  /\ commands \subseteq Command
  /\ sent \in 0..MaxCommands
  /\ book \subseteq Order
  /\ \A o, p \in book : o.id = p.id => o = p
  /\ wallet \in [Market -> Shares]
  /\ pc \in Ended \cup Cycling \cup {"shutdown"}
  /\ run \in 0..MaxRuns
  /\ starting \in BOOLEAN
  /\ mem \in [Market -> {None} \cup Managed]
  /\ batch \subseteq Command
  /\ stop \in {"no", "cancel", "keep"}
  /\ plan.cancels \subseteq 1..MaxOrders
  /\ plan.places \subseteq Place
  /\ plan.retires \subseteq Market
  /\ missed \subseteq {o.id : o \in book}
  /\ ended \subseteq 1..MaxCommands

Init ==
  /\ row = [m \in Market |-> [approved |-> FALSE, paused |-> FALSE, base |-> None]]
  /\ commands = {} /\ sent = 0
  /\ book = {} /\ wallet = [m \in Market |-> Own]
  /\ pc = "none" /\ run = 0 /\ starting = FALSE
  /\ mem = [m \in Market |-> None]
  /\ batch = {} /\ stop = "no" /\ plan = NoPlan
  /\ missed = {} /\ ended = {}

-----------------------------------------------------------------------------
(* The console                                                             *)

Approve(m, paused) ==
  row' = [row EXCEPT ![m].approved = TRUE, ![m].paused = @ \/ paused]
\* Rejecting it, retiring it, or putting a rejected one back in the queue.
Unapprove(m) == row' = [row EXCEPT ![m].approved = FALSE]
SetPaused(m, paused) == row' = [row EXCEPT ![m].paused = paused]
CancelAll == row' = [m \in Market |-> [row[m] EXCEPT !.paused = @ \/ row[m].approved]]

SendCommand(kind, keep, m) ==
  /\ sent < MaxCommands
  /\ sent' = sent + 1
  /\ commands' = commands \cup {[id |-> sent', kind |-> kind, keep |-> keep,
                                   market |-> m, at |-> run]}
  /\ UNCHANGED row

Console ==
  /\ \/ /\ \/ \E m \in Market :
                \/ \E paused \in BOOLEAN : Approve(m, paused) \/ SetPaused(m, paused)
                \/ Unapprove(m)
           \/ CancelAll
        /\ UNCHANGED <<commands, sent>>
     \/ \E keep \in BOOLEAN : SendCommand("stop", keep, None)
     \/ \E m \in Market : SendCommand("end_cooldown", FALSE, m)
  /\ UNCHANGED <<exchange, pc, process, memory, ended>>

-----------------------------------------------------------------------------
(* The exchange                                                            *)

Without(orders) ==
  /\ book' = book \ orders
  /\ missed' = missed \ {o.id : o \in orders}

\* A share of an order trades, and its last one takes the order off the book.
Fill(o) ==
  LET role == o.slot[1]
      bought == IF o.slot[2] = "BUY" THEN 1 ELSE -1
  IN /\ wallet[o.market][role] + bought \in 0..MaxShares
     /\ wallet' = [wallet EXCEPT ![o.market][role] = @ + bought]
     /\ IF o.size = 1 THEN Without({o})
                      ELSE /\ book' = (book \ {o}) \cup {[o EXCEPT !.size = @ - 1]}
                           /\ UNCHANGED missed
     /\ UNCHANGED <<db, pc, process, memory, ended>>

-----------------------------------------------------------------------------
(* Starting, failing and ending                                            *)

MemoryLost == mem' = [m \in Market |-> None] /\ batch' = {} /\ plan' = NoPlan

\* Fault: what an earlier run left unread stays to be read.
ExpiredNone == commands
\* Commands sent while no farmer ran are consumed, so a stale one is not obeyed.
Expired == {}

Start ==
  /\ ~Up /\ run < MaxRuns
  /\ pc' = "read" /\ run' = run + 1 /\ starting' = TRUE /\ stop' = "no"
  /\ commands' = Expired
  /\ UNCHANGED <<row, sent, exchange, memory, ended>>

\* An exception with the stop reason as `reason` leaves it.  Out of start() it crashes the
\* run, which cancels the orders whatever was asked; out of a cycle the next one follows,
\* unless the run is to stop.
Raises(reason) ==
  /\ pc' = IF starting \/ reason # "no" THEN "shutdown" ELSE "read"
  /\ stop' = IF starting THEN "cancel" ELSE reason
  /\ batch' = {} /\ plan' = NoPlan
  /\ UNCHANGED <<run, starting>>

\* A statement of the step raises before it has changed anything.
StatementFails ==
  /\ "db" \in May
  /\ pc = "read" \/ (pc = "commands" /\ batch = {})
  /\ Raises(stop)
  /\ UNCHANGED <<db, exchange, mem, ended>>

\* Ctrl+C or SIGTERM, wherever the main thread is.
Interrupt ==
  /\ "signal" \in May
  /\ Up /\ pc # "shutdown"
  /\ pc' = "shutdown" /\ stop' = IF KeepOrders THEN "keep" ELSE "cancel"
  /\ batch' = {} /\ plan' = NoPlan
  /\ UNCHANGED <<db, exchange, run, starting, mem, ended>>

\* The process dies without a word, or a second signal cuts the shutdown short.
Dies ==
  /\ Up
  /\ "kill" \in May \/ ("signal" \in May /\ pc = "shutdown")
  /\ pc' = "dead" /\ MemoryLost
  /\ UNCHANGED <<db, exchange, process, ended>>

\* The orders of some markets, cancelled but for those whose cancel fails.
Cancelled(orders) ==
  \E failed \in SUBSET orders :
     /\ failed = {} \/ "cancel" \in May
     /\ book' = book \ (orders \ failed)
     /\ missed' = (missed \ {o.id : o \in orders}) \cup {o.id : o \in failed}

\* Fault: a market already retired is not among those cancelled.
ToCancelActive == {o \in book : Active(o.market)}
\* The orders of every market the run manages, a retired one too.
ToCancel == {o \in book : Farmed(o.market)}

ShutsDown ==
  /\ pc = "shutdown"
  /\ \/ stop = "keep" /\ pc' = "kept" /\ UNCHANGED <<book, missed>>
     \/ stop # "keep" /\ pc' = "cleared" /\ Cancelled(ToCancel)
  /\ MemoryLost
  /\ UNCHANGED <<db, wallet, process, ended>>

-----------------------------------------------------------------------------
(* Reading the controls                                                    *)

ReadCommands ==
  /\ pc = "read"
  /\ batch' = commands /\ pc' = "commands"
  /\ UNCHANGED <<db, exchange, process, mem, plan, ended>>

CoolingDown(m) == m # None /\ Farmed(m) /\ mem[m].phase = "COOLDOWN"

\* What a command does before it is stamped consumed: the first stop decides.
Obeyed(c) ==
  /\ mem' = IF c.kind = "end_cooldown" /\ CoolingDown(c.market)
            THEN [mem EXCEPT ![c.market].phase = "QUOTING"] ELSE mem
  /\ ended' = IF c.kind = "end_cooldown" /\ CoolingDown(c.market)
              THEN ended \cup {c.id} ELSE ended

StopReason(c) ==
  IF c.kind = "stop" /\ stop = "no" THEN IF c.keep THEN "keep" ELSE "cancel" ELSE stop

IsNext(c) == c \in batch /\ \A d \in batch : c.id <= d.id

Consume ==
  /\ pc = "commands"
  /\ \E c \in batch :
       /\ IsNext(c) /\ Obeyed(c)
       /\ stop' = StopReason(c)
       /\ commands' = {d \in commands : d.id # c.id}
       /\ batch' = batch \ {c}
  /\ UNCHANGED <<row, sent, exchange, pc, run, starting, plan>>

\* Stamping it raises after it was obeyed, which ends the cycle.
ConsumeFails ==
  /\ "db" \in May
  /\ pc = "commands"
  /\ \E c \in batch : IsNext(c) /\ Obeyed(c) /\ Raises(StopReason(c))
  /\ UNCHANGED <<db, exchange>>

\* Fault: a market the farmer has is not brought up to date.
ReloadedStale(m, known) ==
  IF Farmed(m) THEN [mem[m] EXCEPT !.approved = row[m].approved]
  ELSE IF row[m].approved /\ known THEN NewManaged(row[m]) ELSE None

\* A market after the approved rows are read again: dropped if approved anew since it was
\* retired, taken on if approved, and else brought up to date.  One whose record is not at
\* hand is passed over, so its pause stays as it was.
Reloaded(m, known) ==
  LET was == mem[m]
      approved == row[m].approved
      anew == Farmed(m) /\ ~Active(m) /\ approved /\ ~was.approved
  IN CASE ~Farmed(m) \/ anew -> IF approved /\ known THEN NewManaged(row[m]) ELSE None
       [] Farmed(m) /\ ~anew /\ Active(m) /\ approved
            -> [was EXCEPT !.approved = TRUE, !.paused = IF known THEN row[m].paused ELSE @]
       [] OTHER -> [was EXCEPT !.approved = approved]

\* Fault: only a stop that cancels ends the cycle.
LeavesToCancel == stop = "cancel" /\ ~starting
\* A stop is obeyed at the head of a cycle, so not in the controls' first reading.
Leaves == stop # "no" /\ ~starting

Reload ==
  /\ pc = "commands" /\ batch = {}
  /\ \E known \in SUBSET Market :
        /\ known = Market \/ "read" \in May
        /\ mem' = [m \in Market |-> Reloaded(m, m \in known)]
  /\ pc' = IF Leaves THEN "shutdown" ELSE "positions"
  /\ UNCHANGED <<db, exchange, process, batch, plan, ended>>

-----------------------------------------------------------------------------
(* Reading the positions                                                   *)

ActiveMarkets == {m \in Market : Active(m)}

RatchetBaseline(base, held) ==
  IF base = None THEN held
  ELSE [r \in Role |-> IF held[r] < base[r] THEN held[r] ELSE base[r]]
FarmPosition(held, base) == [r \in Role |-> Max({0, held[r] - base[r]})]

\* A market after its positions are read: a longshot fill starts the naked cooldown.
Positioned(m) ==
  LET base == RatchetBaseline(mem[m].base, wallet[m])
      position == FarmPosition(wallet[m], base)
      before == mem[m].position
      longFilled == before # None /\ "LONG" \in Role /\ position["LONG"] > before["LONG"]
  IN [mem[m] EXCEPT !.base = base, !.position = position, !.naked = @ /\ ~longFilled]

\* The row of a market: a baseline that came out as it was is not saved again.
Saved(m) ==
  IF Positioned(m).base = mem[m].base THEN row[m]
  ELSE [row[m] EXCEPT !.base = Positioned(m).base]

Reads(markets) ==
  /\ mem' = [m \in Market |-> IF m \in markets THEN Positioned(m) ELSE mem[m]]
  /\ row' = [m \in Market |-> IF m \in markets THEN Saved(m) ELSE row[m]]

ToPlan ==
  /\ pc' = IF starting THEN "read" ELSE "plan"
  /\ starting' = FALSE
  /\ UNCHANGED <<commands, sent, exchange, run, stop, batch, plan, ended>>

RefreshPositions == pc = "positions" /\ Reads(ActiveMarkets) /\ ToPlan

\* Not due yet, which needs every market positioned, or the data API cannot be read.
KeepPositions ==
  /\ pc = "positions"
  /\ \/ "read" \in May
     \/ ~starting /\ \A m \in ActiveMarkets : mem[m].position # None
  /\ ToPlan /\ UNCHANGED <<row, mem>>

\* Saving m's baseline raises: m keeps the new one in memory and its last position.
SaveFails(m) ==
  /\ "db" \in May
  /\ pc = "positions" /\ Active(m)
  /\ Positioned(m).base # mem[m].base
  /\ \E done \in SUBSET (ActiveMarkets \ {m}) :
       /\ mem' = [n \in Market |-> IF n \in done THEN Positioned(n)
                    ELSE IF n = m THEN [mem[n] EXCEPT !.base = Positioned(n).base]
                    ELSE mem[n]]
       /\ row' = [n \in Market |-> IF n \in done THEN Saved(n) ELSE row[n]]
  /\ Raises(stop)
  /\ UNCHANGED <<commands, sent, exchange, ended>>

\* Reading the midpoints before m's favorite fill, or before the one that left the shares
\* held, raises: m has its position already, so a longshot fill that came with it starts no
\* cooldown.
FillMidFails(m) ==
  /\ "db" \in May
  /\ pc = "positions" /\ Active(m)
  /\ "FAV" \in Role
  /\ LET before == mem[m].position
     IN Positioned(m).position["FAV"] > IF before = None THEN 0 ELSE before["FAV"]
  /\ \E done \in SUBSET (ActiveMarkets \ {m}) :
       /\ mem' = [n \in Market |-> IF n \in done THEN Positioned(n)
                    ELSE IF n = m THEN [Positioned(n) EXCEPT !.naked = mem[n].naked]
                    ELSE mem[n]]
       /\ row' = [n \in Market |-> IF n \in done \cup {m} THEN Saved(n) ELSE row[n]]
  /\ Raises(stop)
  /\ UNCHANGED <<commands, sent, exchange, ended>>

-----------------------------------------------------------------------------
(* Planning                                                                *)

\* What a cycle sees of a market besides its row.
Observation == [decided : BOOLEAN, rewarded : BOOLEAN, mid : {"none", "low", "near", "in"},
                drop : BOOLEAN, over : BOOLEAN, sole : BOOLEAN]

\* The first rule that applies decides.
StepState(k, obs) ==
  LET sole == obs.sole /\ k.naked
      was == IF k.phase \in {"PAUSED", "UNREWARDED"} THEN "QUOTING" ELSE k.phase
      rules == << <<obs.decided \/ ~k.approved, "RETIRED">>,
                  <<~obs.rewarded, "UNREWARDED">>,
                  <<k.paused, "PAUSED">>,
                  <<obs.mid = "none" /\ ~sole, IF was = "SOLE_BID" THEN "QUOTING" ELSE was>>,
                  <<obs.drop, "COOLDOWN">>,
                  <<was = "COOLDOWN" /\ ~obs.over, was>>,
                  <<sole, "SOLE_BID">>,
                  <<obs.mid = "low", "BELOW_RANGE">>,
                  <<was = "BELOW_RANGE" /\ obs.mid = "near", was>>,
                  <<TRUE, "QUOTING">> >>
  IN rules[Min({n \in DOMAIN rules : rules[n][1]})][2]

\* The phases a market may come to: a table, as only these four of its fields matter.
Steps ==
  [k \in [phase : Phase, approved : BOOLEAN, paused : BOOLEAN, naked : BOOLEAN] |->
     {StepState(k, obs) : obs \in Observation}]
NextPhases(m) ==
  Steps[[phase |-> mem[m].phase, approved |-> mem[m].approved,
         paused |-> mem[m].paused, naked |-> mem[m].naked]]

\* What a bid may buy of a token.  The capital counts the favorites held; the naked budget
\* does not count the longshots where the price is free of it.
RoomLeft(m, r) ==
  IF r = "FAV" THEN Max({0, Room[r] - mem[m].position[r]}) ELSE Room[r]

\* The slots a phase may rest an order in, and the sizes of one: a bid takes no more than
\* the room, an ask offers every share the farm holds.
Rests(m, phase) ==
  {s \in Slot : IF s \in Bids
                THEN /\ phase \in {"QUOTING", "SOLE_BID"}
                     /\ RoomLeft(m, s[1]) > 0
                     /\ s[1] = "LONG" => mem[m].naked
                ELSE /\ phase \in ExitsRest \cup {"QUOTING", "SOLE_BID"}
                     /\ mem[m].position[s[1]] > 0}
Sizes(m, s) == IF s \in Bids THEN 1..RoomLeft(m, s[1]) ELSE {mem[m].position[s[1]]}

Targets(m, phase) ==
  UNION {{t \in [slots -> 0..MaxShares] : \A s \in slots : t[s] \in Sizes(m, s)} :
           slots \in SUBSET Rests(m, phase)}

\* The resting orders a target may keep: one to a slot, an ask of the size wanted, a bid
\* the capital still allows.
Kept(m, target) ==
  {k \in SUBSET OrdersOf(m) :
     /\ \A o \in k : /\ o.slot \in DOMAIN target
                     /\ o.slot \in Bids \/ o.size = target[o.slot]
                     /\ o.slot = <<"FAV", "BUY">> => o.size <= RoomLeft(m, "FAV")
     /\ \A o, p \in k : o.slot = p.slot => o = p}

\* One market's cycle: its phase, then every order not kept cancelled, and the target
\* placed in the slots where none was.
Reconcile(m, target, kept) ==
  [cancels |-> {o.id : o \in OrdersOf(m) \ kept},
   places |-> {[market |-> m, slot |-> s, size |-> target[s]] :
                 s \in DOMAIN target \ {o.slot : o \in kept}}]

MarketPlans(m) ==
  UNION {UNION {{[phase |-> phase, does |-> Reconcile(m, target, kept)] :
                   kept \in Kept(m, target)} : target \in Targets(m, phase)} :
           phase \in NextPhases(m)}

\* The cycle goes on with what there is to do.
Stage(p) == CASE p.cancels # {} -> "cancel"
              [] p.cancels = {} /\ p.places # {} -> "post"
              [] p.cancels = {} /\ p.places = {} /\ p.retires # {} -> "settle"
              [] OTHER -> "read"

\* One plan for each market.
Plans(planned) ==
  LET of == [m \in planned |-> MarketPlans(m)]
  IN {p \in [planned -> UNION {of[m] : m \in planned}] : \A m \in planned : p[m] \in of[m]}

\* The open orders are listed, and every market with a book and a position is planned.
PlanMarkets(planned) ==
  /\ pc = "plan"
  /\ \E plans \in Plans(planned) :
       /\ mem' = [m \in Market |-> IF m \in planned
                                  THEN [mem[m] EXCEPT !.phase = plans[m].phase] ELSE mem[m]]
       /\ plan' = [cancels |-> UNION {plans[m].does.cancels : m \in planned},
                   places |-> UNION {plans[m].does.places : m \in planned},
                   retires |-> {m \in planned : plans[m].phase = "RETIRED"}]
  /\ pc' = Stage(plan')
  /\ UNCHANGED <<db, exchange, process, batch, ended>>

Positions == {m \in ActiveMarkets : mem[m].position # None}

PlanSome ==
  \E planned \in SUBSET Positions :
     /\ planned = Positions \/ "read" \in May
     /\ PlanMarkets(planned)

\* Planning on no orders would duplicate the ones actually resting.
ListingFails ==
  /\ "read" \in May
  /\ pc = "plan" /\ pc' = "read"
  /\ UNCHANGED <<db, exchange, process, memory, ended>>

NakedCooldownEnds(m) ==
  /\ Farmed(m) /\ ~mem[m].naked
  /\ mem' = [mem EXCEPT ![m].naked = TRUE]
  /\ UNCHANGED <<db, exchange, pc, process, batch, plan, ended>>

-----------------------------------------------------------------------------
(* Executing and settling                                                  *)

Does(rest) == plan' = rest /\ pc' = Stage(rest)

\* Every cancel in one call.
CancelPlanned ==
  /\ pc = "cancel"
  /\ Cancelled({o \in book : o.id \in plan.cancels})
  /\ Does([plan EXCEPT !.cancels = {}])
  /\ UNCHANGED <<db, wallet, process, mem, batch, ended>>

\* An ask is signed for no more than the shares the CLOB holds of its token.
Sellable(p) ==
  IF p.slot \in Bids THEN p.size ELSE Min({p.size, wallet[p.market][p.slot[1]]})

ToPost == {p \in plan.places : Sellable(p) > 0}
FreeIds == 1..MaxOrders \ {o.id : o \in book}

\* The orders posted rest.  One that is refused, or not signed, is as one the target left
\* out: what it changes is a backoff, which is a choice of the target too.
PostPlanned ==
  /\ pc = "post"
  /\ \E taken \in SUBSET ToPost :
       /\ Injection(taken, FreeIds) # {}
       /\ taken = ToPost \/ Cardinality(taken) = Cardinality(FreeIds)
       /\ LET ids == CHOOSE f \in Injection(taken, FreeIds) : TRUE
          IN book' = book \cup {[id |-> ids[p], market |-> p.market, slot |-> p.slot,
                                 size |-> Sellable(p), by |-> run] : p \in taken}
  /\ Does([plan EXCEPT !.places = {}])
  /\ UNCHANGED <<db, missed, wallet, process, mem, batch, ended>>

\* An approved row of a retired market becomes retired; any other decision stands.
Settle ==
  /\ pc = "settle"
  /\ \E failed \in SUBSET plan.retires :
       /\ failed = {} \/ "db" \in May
       /\ row' = [m \in Market |->
                    [row[m] EXCEPT !.approved = @ /\ m \notin plan.retires \ failed]]
  /\ Does(NoPlan)
  /\ UNCHANGED <<commands, sent, exchange, process, mem, batch, ended>>

-----------------------------------------------------------------------------

Cycle ==
  \/ ReadCommands \/ Consume \/ Reload
  \/ RefreshPositions \/ KeepPositions
  \/ PlanSome \/ ListingFails
  \/ CancelPlanned \/ PostPlanned \/ Settle

Farmer == Cycle \/ ShutsDown

Faults ==
  \/ StatementFails \/ ConsumeFails \/ (\E m \in Market : SaveFails(m) \/ FillMidFails(m))
  \/ Interrupt \/ Dies

Next ==
  \/ Console
  \/ \E o \in book : Fill(o)
  \/ \E m \in Market : NakedCooldownEnds(m)
  \/ Start \/ Farmer \/ Faults

Spec == Init /\ [][Next]_vars

\* The main thread goes on, and a statement or a cancel it retries each cycle works in
\* the end.  A cycle leaves the planning when pc moves on, whatever it planned.
Fairness ==
  /\ WF_pc(pc = "plan" /\ pc' \in Cycling) /\ WF_vars(PostPlanned) /\ WF_vars(Settle) /\ WF_vars(ShutsDown)
  /\ SF_vars(ReadCommands) /\ SF_vars(Consume) /\ SF_vars(Reload)
  /\ SF_vars(RefreshPositions)
  /\ SF_vars(CancelPlanned /\ missed' \cap plan.cancels = {})

FairSpec == Spec /\ Fairness

-----------------------------------------------------------------------------
(* Properties                                                              *)

\* Two orders of the farmer never rest in one slot of a market unless a cancel of one was
\* asked for and failed: what it places it places on a listing that shows everything it
\* placed before, in this run or an earlier one.
OneOrderToASlot ==
  \A o, p \in book : (o.market = p.market /\ o.slot = p.slot /\ {o.id, p.id} \cap missed = {})
                     => o = p

\* Both: the state is what the declarations say, and no slot holds two orders.
BookIsSound == TypeOK /\ OneOrderToASlot

\* A run that ended by cancelling leaves none of the orders it placed, however it got
\* there and whatever the console decided meanwhile, but for those whose cancel failed.
ClearedWhenStopped ==
  pc = "cleared" => \A o \in book : o.by = run => o.id \in missed

\* Only shares the wallet held before the farm bought any are ever set aside as the
\* baseline: what the farm bought can always be sold again, in a later run too.
BaselineIsOwn ==
  \A m \in Market, r \in Role :
     /\ row[m].base # None => row[m].base[r] <= Own[r]
     /\ Farmed(m) /\ mem[m].base # None => mem[m].base[r] <= Own[r]

\* A stop is obeyed by the run it was sent to or by none: one sent while no farmer ran,
\* or read by a run that ended before stamping it, stops no later run.
StopsItsOwnRun ==
  [][\A c \in batch :
       (pc = "commands" /\ stop = "no" /\ stop' # "no" /\ IsNext(c) /\ c.kind = "stop"
        /\ c \notin batch') => c.at = run]_vars

\* An end_cooldown command ends one cooldown at most, even when stamping it fails and it
\* is read again: a cooldown begun since is not cut short by it.
EndsOneCooldown ==
  [][\A m \in Market :
       (pc = "commands" /\ CoolingDown(m) /\ Farmed(m) /\ mem'[m] # None
        /\ mem'[m].phase = "QUOTING") => \E c \in batch : IsNext(c) /\ c.id \notin ended]_vars

\* Both: a command acts on the run it was sent to, and once.
CommandsAreTheirOwn == StopsItsOwnRun /\ EndsOneCooldown

\* A market the farmer farms and the operator has paused comes to rest no bid, unless the
\* pause is lifted, the market leaves the farm or the run ends.
PauseTakesDown ==
  \A m \in Market :
     (Up /\ Active(m) /\ row[m].paused)
       ~> ({o \in OrdersOf(m) : o.slot \in Bids} = {}
           \/ ~row[m].paused \/ ~Active(m) \/ ~Up)

\* A market the farmer retires comes to rest no order while the run lasts.
RetiredIsCleared ==
  \A m \in Market :
     (Up /\ Farmed(m) /\ ~Active(m)) ~> (OrdersOf(m) = {} \/ ~Farmed(m) \/ Active(m) \/ ~Up)

\* Both: what a phase takes down comes down, as long as cancels work.
TakenDown == PauseTakesDown /\ RetiredIsCleared

\* A stop command sent to a farmer past its start ends the run.
StopIsObeyed ==
  (Up /\ ~starting /\ \E c \in commands : c.kind = "stop") ~> ~Up

\* The shares the wallet held before the farm bought any are never sold.
NeverSellsOwn ==
  \A m \in Market, r \in Role : wallet[m][r] >= Own[r]
=============================================================================
