---------------------------- MODULE FarmerProofs ----------------------------
(***************************************************************************)
(* Proofs about Farmer for every set of markets, every account, and every  *)
(* number of runs, commands and orders: while no statement raises, what a  *)
(* run sets aside as the baseline is never what the farm bought; whatever  *)
(* fails, two orders never rest in one slot unless a cancel failed, a run  *)
(* that ended by cancelling leaves none of its orders but those, a command *)
(* acts on its own run, and ends one cooldown.                             *)
(***************************************************************************)
EXTENDS Farmer, TLAPS

RowFields == {"approved", "paused", "base"}
ManagedFields == {"phase", "approved", "paused", "base", "position", "naked"}
OrderFields == {"id", "market", "slot", "size", "by"}

\* None, where a market's runtime may be, is not one.
NoneIsNone == "phase" \notin DOMAIN None

RowsAre(rs) == DOMAIN rs = Market /\ \A m \in Market : RowFields \subseteq DOMAIN rs[m]
MemoryIs(ms) ==
  DOMAIN ms = Market /\ \A m \in Market : ms[m] # None => ManagedFields \subseteq DOMAIN ms[m]
BookIs(orders, n) ==
  \A o \in orders : /\ OrderFields \subseteq DOMAIN o
                    /\ o.market \in Market /\ o.by \in Nat /\ o.by <= n
PlanIs(p) ==
  /\ \E c, q, r : p = [cancels |-> c, places |-> q, retires |-> r]
  /\ \A q \in p.places : q.market \in Market

\* What the proofs need of the types.
Shapes ==
  RowsAre(row) /\ MemoryIs(mem) /\ BookIs(book, run) /\ PlanIs(plan) /\ run \in Nat

-----------------------------------------------------------------------------
(* What the steps do to the rows, the memory and the book                  *)

\* Rows change in what was decided, and only that.
Decides(rs) ==
  RowsAre(rs) /\ \A m \in Market : rs[m].base = row[m].base

\* The farmer farms the same markets, none of them newly retired.
SameFarm(ms) ==
  /\ MemoryIs(ms)
  /\ \A m \in Market :
       /\ ms[m] # None <=> Farmed(m)
       /\ Farmed(m) /\ ms[m].phase = "RETIRED" => mem[m].phase = "RETIRED"
\* And knows of them what it knew.
SameShares(ms) ==
  \A m \in Market : Farmed(m) => /\ ms[m].base = mem[m].base
                                 /\ ms[m].position = mem[m].position

\* Every order was there before, of the same slot and run, and is missed if it was.
Shrinks(orders, failures) ==
  /\ \A q \in orders : \E o \in book :
       /\ OrderFields \subseteq DOMAIN q
       /\ <<q.id, q.market, q.slot, q.by>> = <<o.id, o.market, o.slot, o.by>>
       /\ o.id \in missed => q.id \in failures
  /\ \A q, p \in orders : q.id = p.id => q = p
  /\ failures \subseteq {o.id : o \in orders}

UniqueIds == /\ \A o, p \in book : o.id = p.id => o = p
             /\ missed \subseteq {o.id : o \in book}

LEMMA ConsoleDecides ==
  ASSUME Shapes, Console
  PROVE  Decides(row') /\ UNCHANGED <<exchange, pc, process, memory>>
<1> USE DEF Shapes, RowsAre, RowFields, Decides
<1>1. UNCHANGED <<exchange, pc, process, memory>>
  BY DEF Console
<1>2. ASSUME NEW m \in Market, NEW paused \in BOOLEAN, Approve(m, paused)
      PROVE  Decides(row')
  BY <1>2 DEF Approve
<1>3. ASSUME NEW m \in Market, NEW paused \in BOOLEAN, SetPaused(m, paused)
      PROVE  Decides(row')
  BY <1>3 DEF SetPaused
<1>4. ASSUME NEW m \in Market, Unapprove(m)
      PROVE  Decides(row')
  BY <1>4 DEF Unapprove
<1>5. ASSUME CancelAll
      PROVE  Decides(row')
  <2>1. ASSUME NEW m \in Market
        PROVE  RowFields \subseteq DOMAIN row'[m] /\ row'[m].base = row[m].base
    <3> DEFINE paused == row[m].paused \/ row[m].approved
    <3>1. row'[m] = [row[m] EXCEPT !.paused = paused]
      BY <1>5 DEF CancelAll
    <3> HIDE DEF paused
    <3> QED
      BY <3>1
  <2>2. DOMAIN row' = Market
    BY <1>5 DEF CancelAll
  <2> QED
    BY <2>1, <2>2
<1>6. ASSUME UNCHANGED row
      PROVE  Decides(row')
  BY <1>6
<1>7. Decides(row')
  <2>1. CASE \E m \in Market : \/ \E paused \in BOOLEAN : Approve(m, paused) \/ SetPaused(m, paused)
                              \/ Unapprove(m)
    BY <2>1, <1>2, <1>3, <1>4
  <2>2. CASE \E kind, keep, m : SendCommand(kind, keep, m)
    BY <2>2, <1>6 DEF SendCommand
  <2> QED
    <3> HIDE DEF Decides, Shapes
    <3> QED
      BY <2>1, <2>2, <1>5 DEF Console
<1> QED
  BY <1>1, <1>7

\* A command obeyed changes phases only, and those to QUOTING.
LEMMA ObeyedChanges ==
  ASSUME NoneIsNone, Shapes, NEW c, Obeyed(c)
  PROVE  SameFarm(mem') /\ SameShares(mem')
<1> USE DEF Shapes, MemoryIs, ManagedFields, SameFarm, SameShares, Farmed
<1>1. CASE mem' = mem
  BY <1>1
<1>2. CASE /\ CoolingDown(c.market) /\ c.market \in Market
           /\ mem' = [mem EXCEPT ![c.market].phase = "QUOTING"]
  <2>1. mem[c.market] # None
    BY <1>2 DEF CoolingDown
  <2>2. \A m \in Market : m # c.market => mem'[m] = mem[m]
    BY <1>2
  <2>3. mem'[c.market] = [mem[c.market] EXCEPT !.phase = "QUOTING"]
    BY <1>2
  <2> QED
    <3> DEFINE next == [mem[c.market] EXCEPT !.phase = "QUOTING"]
    <3>1. /\ DOMAIN next = DOMAIN mem[c.market] /\ next.phase = "QUOTING"
          /\ next.base = mem[c.market].base /\ next.position = mem[c.market].position
      BY <1>2, <2>1
    <3> HIDE DEF next
    <3>2. next # None
      BY <3>1, <1>2, <2>1 DEF NoneIsNone
    <3>3. mem'[c.market] = next
      BY <2>3 DEF next
    <3> QED
      BY <1>2, <2>1, <2>2, <3>1, <3>2, <3>3
<1> QED
  BY <1>1, <1>2 DEF Obeyed, CoolingDown

LEMMA FillShrinks ==
  ASSUME Shapes, UniqueIds, NEW o \in book, Fill(o)
  PROVE  Shrinks(book', missed') /\ UNCHANGED <<db, pc, process, memory>>
<1> USE DEF Shapes, BookIs, UniqueIds, Shrinks, OrderFields
<1>1. CASE o.size = 1
  BY <1>1 DEF Fill, Without
<1>2. CASE o.size # 1
  <2> DEFINE less == [o EXCEPT !.size = @ - 1]
  <2>1. book' = (book \ {o}) \cup {less} /\ UNCHANGED missed
    BY <1>2 DEF Fill
  <2>2. /\ less.id = o.id /\ less.market = o.market /\ less.slot = o.slot /\ less.by = o.by
        /\ OrderFields \subseteq DOMAIN less
    OBVIOUS
  <2> HIDE DEF less
  <2>3. \A q \in book' : q = less \/ (q \in book /\ q # o)
    BY <2>1
  <2>4. missed' \subseteq {q.id : q \in book'}
    BY <2>1, <2>2
  <2> QED
    BY <1>2, <2>1, <2>2, <2>3, <2>4 DEF Fill
<1> QED
  BY <1>1, <1>2 DEF Fill

LEMMA CancelledShrinks ==
  ASSUME Shapes, UniqueIds, NEW orders \in SUBSET book, Cancelled(orders)
  PROVE  /\ Shrinks(book', missed') /\ book' \subseteq book
         /\ \A q \in book' : q \in orders => q.id \in missed'
         /\ \A q \in book' : q.id \in missed => q.id \in missed'
<1> USE DEF Shapes, BookIs, UniqueIds, OrderFields
<1>1. PICK failed \in SUBSET orders :
        /\ book' = book \ (orders \ failed)
        /\ missed' = (missed \ {o.id : o \in orders}) \cup {o.id : o \in failed}
  BY DEF Cancelled
<1>2. \A q \in book' : q \in orders => q.id \in missed'
  BY <1>1
<1>3. \A q \in book' : q.id \in missed => q.id \in missed'
  BY <1>1
<1>4. missed' \subseteq {o.id : o \in book'}
  BY <1>1
<1> QED
  BY <1>1, <1>2, <1>3, <1>4 DEF Shrinks

-----------------------------------------------------------------------------
(* What is set aside is the wallet's own                                   *)

Account == wallet \in [Market -> [Role -> Nat]]

\* While no statement raises, memory holds the baseline that is saved.
OnFile ==
  \A m \in Market : Farmed(m) => /\ mem[m].base = row[m].base
                                 /\ mem[m].position # None => row[m].base # None

\* Until the first is saved the wallet holds no more than its own.
OwnAside ==
  \A m \in Market :
     IF row[m].base = None THEN \A r \in Role : wallet[m][r] <= Own[r]
     ELSE row[m].base \in [Role -> Nat] /\ \A r \in Role : row[m].base[r] <= Own[r]

\* Nothing rests, or is about to, in a market with no baseline.
OrdersFollow ==
  /\ \A o \in book : row[o.market].base # None
  /\ \A p \in plan.places : row[p.market].base # None

AsideInv == Shapes /\ Account /\ OnFile /\ OwnAside /\ OrdersFollow

LEMMA Ratcheted ==
  ASSUME Account, OnFile, OwnAside, NEW m \in Market, Farmed(m)
  PROVE  LET base == RatchetBaseline(mem[m].base, wallet[m])
         IN base \in [Role -> Nat] /\ base # None /\ \A r \in Role : base[r] <= Own[r]
<1> USE DEF Account, OnFile, OwnAside
<1>1. wallet[m] \in [Role -> Nat] /\ Own \in [Role -> Nat] /\ None \notin [Role -> Nat]
  BY ConstantsAssumption
<1>2. CASE mem[m].base = None
  BY <1>1, <1>2 DEF RatchetBaseline
<1>3. CASE mem[m].base # None
  <2> DEFINE held == wallet[m]
             was == mem[m].base
             base == [r \in Role |-> IF held[r] < was[r] THEN held[r] ELSE was[r]]
  <2>1. was \in [Role -> Nat] /\ (\A r \in Role : was[r] <= Own[r]) /\ held \in [Role -> Nat]
    BY <1>1, <1>3
  <2>2. RatchetBaseline(mem[m].base, wallet[m]) = base
    BY <1>3 DEF RatchetBaseline
  <2> HIDE DEF held, was
  <2>3. base \in [Role -> Nat] /\ \A r \in Role : base[r] <= was[r]
    BY <2>1
  <2>4. \A r \in Role : base[r] <= Own[r]
    BY <1>1, <2>1, <2>3
  <2> QED
    BY <1>1, <2>2, <2>3, <2>4
<1> QED
  BY <1>2, <1>3

\* A market after its positions are read.
LEMMA PositionedIs ==
  ASSUME NoneIsNone, Shapes, NEW m \in Market, Farmed(m)
  PROVE  /\ Positioned(m) # None
         /\ ManagedFields \subseteq DOMAIN Positioned(m)
         /\ Positioned(m).phase = mem[m].phase
         /\ Positioned(m).base = RatchetBaseline(mem[m].base, wallet[m])
<1> DEFINE base == RatchetBaseline(mem[m].base, wallet[m])
           position == FarmPosition(wallet[m], base)
           before == mem[m].position
           longFilled == before # None /\ "LONG" \in Role /\ position["LONG"] > before["LONG"]
           naked == mem[m].naked /\ ~longFilled
<1>1. Positioned(m) = [mem[m] EXCEPT !.base = base, !.position = position, !.naked = naked]
  BY DEF Positioned
<1>2. ManagedFields \subseteq DOMAIN mem[m]
  BY DEF Shapes, MemoryIs, Farmed
<1> HIDE DEF base, position, naked
<1>3. /\ DOMAIN Positioned(m) = DOMAIN mem[m]
      /\ Positioned(m).phase = mem[m].phase
      /\ Positioned(m).base = base
  BY <1>1, <1>2 DEF ManagedFields
<1>4. Positioned(m) # None
  BY <1>2, <1>3 DEF NoneIsNone, ManagedFields
<1> QED
  BY <1>2, <1>3, <1>4 DEF base

\* A read of the positions that raises at a market.
HalfReads(m) == SaveFails(m) \/ FillMidFails(m)
Halves(m) == {[mem[m] EXCEPT !.base = Positioned(m).base],
              [Positioned(m) EXCEPT !.naked = mem[m].naked]}

\* The market it raises at has its new baseline, or its position too, in memory; of the
\* others each is read or not.
LEMMA HalfReadIs ==
  ASSUME NEW m \in Market, HalfReads(m)
  PROVE  /\ "db" \in May /\ pc = "positions" /\ Active(m) /\ Raises(stop)
         /\ UNCHANGED <<commands, sent, exchange, ended>>
         /\ \E done \in SUBSET (ActiveMarkets \ {m}), half \in Halves(m) :
              mem' = [n \in Market |-> IF n \in done THEN Positioned(n)
                                      ELSE IF n = m THEN half ELSE mem[n]]
         /\ DOMAIN row' = Market /\ row' = [n \in Market |-> row'[n]]
         /\ \A n \in Market : row'[n] = row[n] \/ (Active(n) /\ row'[n] = Saved(n))
<1>1. CASE SaveFails(m)
  <2>1. PICK done \in SUBSET (ActiveMarkets \ {m}) :
          /\ mem' = [n \in Market |-> IF n \in done THEN Positioned(n)
                       ELSE IF n = m THEN [mem[n] EXCEPT !.base = Positioned(n).base]
                       ELSE mem[n]]
          /\ row' = [n \in Market |-> IF n \in done THEN Saved(n) ELSE row[n]]
    BY <1>1 DEF SaveFails
  <2>2. mem' = [n \in Market |-> IF n \in done THEN Positioned(n)
                 ELSE IF n = m THEN [mem[m] EXCEPT !.base = Positioned(m).base] ELSE mem[n]]
    BY <2>1
  <2> QED
    BY <1>1, <2>1, <2>2 DEF SaveFails, ActiveMarkets, Halves
<1>2. CASE FillMidFails(m)
  <2>1. PICK done \in SUBSET (ActiveMarkets \ {m}) :
          /\ mem' = [n \in Market |-> IF n \in done THEN Positioned(n)
                       ELSE IF n = m THEN [Positioned(n) EXCEPT !.naked = mem[n].naked]
                       ELSE mem[n]]
          /\ row' = [n \in Market |-> IF n \in done \cup {m} THEN Saved(n) ELSE row[n]]
    BY <1>2 DEF FillMidFails
  <2>2. mem' = [n \in Market |-> IF n \in done THEN Positioned(n)
                 ELSE IF n = m THEN [Positioned(m) EXCEPT !.naked = mem[m].naked] ELSE mem[n]]
    BY <2>1
  <2> QED
    BY <1>2, <2>1, <2>2 DEF FillMidFails, ActiveMarkets, Halves
<1> QED
  BY <1>1, <1>2 DEF HalfReads

\* A market that is not retired is dropped, taken on afresh, or kept as it is.
LEMMA ReloadedIs ==
  ASSUME NoneIsNone, Shapes, NEW m \in Market, NEW known \in BOOLEAN
  PROVE  LET next == Reloaded(m, known)
         IN \/ /\ ~Active(m)
               /\ next = None \/ next = NewManaged(row[m])
            \/ /\ Farmed(m) /\ next # None /\ ManagedFields \subseteq DOMAIN next
               /\ next.phase = mem[m].phase /\ next.base = mem[m].base
               /\ next.position = mem[m].position
<1> DEFINE was == mem[m]
           approved == row[m].approved
           paused == IF known THEN row[m].paused ELSE was.paused
           anew == Farmed(m) /\ ~Active(m) /\ approved /\ ~was.approved
<1>1. CASE ~Farmed(m) \/ anew
  <2>1. ~Active(m)
    BY <1>1 DEF Active
  <2>2. Reloaded(m, known) = IF approved /\ known THEN NewManaged(row[m]) ELSE None
    BY <1>1 DEF Reloaded
  <2> QED
    BY <2>1, <2>2
<1>2. CASE ~(~Farmed(m) \/ anew)
  <2>1. ManagedFields \subseteq DOMAIN was
    BY <1>2 DEF Shapes, MemoryIs, Farmed
  <2> DEFINE both == [was EXCEPT !.approved = TRUE, !.paused = paused]
             one == [was EXCEPT !.approved = approved]
  <2>2. Reloaded(m, known) = both \/ Reloaded(m, known) = one
    BY <1>2 DEF Reloaded
  <2> HIDE DEF was, approved, paused
  <2>3. /\ DOMAIN both = DOMAIN was
        /\ both.phase = was.phase /\ both.base = was.base /\ both.position = was.position
    BY <2>1 DEF ManagedFields
  <2>4. /\ DOMAIN one = DOMAIN was
        /\ one.phase = was.phase /\ one.base = was.base /\ one.position = was.position
    BY <2>1 DEF ManagedFields
  <2> HIDE DEF both, one
  <2>5. both # None /\ one # None
    BY <2>1, <2>3, <2>4 DEF NoneIsNone, ManagedFields
  <2> QED
    BY <1>2, <2>1, <2>2, <2>3, <2>4, <2>5 DEF was
<1> QED
  BY <1>1, <1>2

LEMMA TakenOn ==
  ASSUME NEW r
  PROVE  /\ ManagedFields \subseteq DOMAIN NewManaged(r)
         /\ NewManaged(r).phase = "QUOTING" /\ NewManaged(r).base = r.base
         /\ NewManaged(r).position = None
BY DEF NewManaged, ManagedFields

-----------------------------------------------------------------------------
(* What a cycle plans                                                      *)

\* What is planned of a market cancels whatever rests in a slot it places an order in, one
\* to a slot, and everything when the market retires.
PlannedWell(m, p) ==
  /\ \E phase, c, q : p = [phase |-> phase, does |-> [cancels |-> c, places |-> q]]
  /\ \A q \in p.does.places :
       /\ q.market = m /\ p.phase # "RETIRED"
       /\ \A o \in book : o.market = m /\ o.slot = q.slot => o.id \in p.does.cancels
  /\ \A q, r \in p.does.places : q.slot = r.slot => q = r
  /\ p.phase = "RETIRED" => \A o \in book : o.market = m => o.id \in p.does.cancels

LEMMA PlansAreWell ==
  ASSUME NEW m \in Market, NEW p \in MarketPlans(m)
  PROVE  PlannedWell(m, p)
<1>1. PICK phase \in NextPhases(m) : \E target \in Targets(m, phase) :
        \E kept \in Kept(m, target) : p = [phase |-> phase, does |-> Reconcile(m, target, kept)]
  BY DEF MarketPlans
<1>2. PICK target \in Targets(m, phase) :
        \E kept \in Kept(m, target) : p = [phase |-> phase, does |-> Reconcile(m, target, kept)]
  BY <1>1
<1>3. PICK kept \in Kept(m, target) : p = [phase |-> phase, does |-> Reconcile(m, target, kept)]
  BY <1>2
<1> DEFINE cancels == {o.id : o \in OrdersOf(m) \ kept}
           places == {[market |-> m, slot |-> s, size |-> target[s]] :
                        s \in DOMAIN target \ {o.slot : o \in kept}}
<1>4. /\ p.phase = phase /\ p.does = [cancels |-> cancels, places |-> places]
      /\ p = [phase |-> phase, does |-> [cancels |-> cancels, places |-> places]]
  BY <1>3 DEF Reconcile
<1>5. kept \subseteq OrdersOf(m) /\ \A o \in kept : o.slot \in DOMAIN target
  BY DEF Kept
<1>6. phase = "RETIRED" => DOMAIN target = {}
  BY DEF Targets, Rests, ExitsRest
<1>7. \A q \in places : /\ q.market = m /\ q.slot \in DOMAIN target
                        /\ q.slot \notin {o.slot : o \in kept}
                        /\ q = [market |-> m, slot |-> q.slot, size |-> target[q.slot]]
  OBVIOUS
<1>8. \A o \in book : o.market = m /\ o \notin kept => o.id \in cancels
  BY DEF OrdersOf
<1> HIDE DEF cancels, places
<1>9. \A q, r \in places : q.slot = r.slot => q = r
  BY <1>7
<1>10. \A q \in places : /\ q.market = m /\ phase # "RETIRED"
                         /\ \A o \in book : o.market = m /\ o.slot = q.slot => o.id \in cancels
  BY <1>6, <1>7, <1>8
<1>11. phase = "RETIRED" => \A o \in book : o.market = m => o.id \in cancels
  BY <1>5, <1>6, <1>8
<1>12. p.does.places = places /\ p.does.cancels = cancels
  BY <1>4
<1> QED
  BY <1>4, <1>9, <1>10, <1>11, <1>12 DEF PlannedWell

\* A cycle's plan, of the markets planned, on the memory it leaves.
PlanOf(planned, ms, p) ==
  /\ \A m \in Market :
       /\ ms[m] # None <=> Farmed(m)
       /\ m \notin planned => ms[m] = mem[m]
  /\ \A q \in p.places :
       /\ q.market \in planned /\ ms[q.market].phase # "RETIRED"
       /\ \A o \in book : o.market = q.market /\ o.slot = q.slot => o.id \in p.cancels
  /\ \A q, r \in p.places : q.market = r.market /\ q.slot = r.slot => q = r
  /\ \A m \in planned : ms[m].phase = "RETIRED" =>
       \A o \in book : o.market = m => o.id \in p.cancels

LEMMA PlanSomeIs ==
  ASSUME NoneIsNone, Shapes, PlanSome
  PROVE  /\ \E planned \in SUBSET Positions : PlanOf(planned, mem', plan')
         /\ MemoryIs(mem') /\ SameShares(mem') /\ PlanIs(plan')
         /\ UNCHANGED <<db, exchange, process, batch, ended>>
         /\ pc = "plan" /\ pc' = Stage(plan')
<1>1. PICK planned \in SUBSET Positions : PlanMarkets(planned)
  BY DEF PlanSome
<1>2. PICK plans \in Plans(planned) :
        /\ mem' = [m \in Market |-> IF m \in planned
                                   THEN [mem[m] EXCEPT !.phase = plans[m].phase] ELSE mem[m]]
        /\ plan' = [cancels |-> UNION {plans[m].does.cancels : m \in planned},
                    places |-> UNION {plans[m].does.places : m \in planned},
                    retires |-> {m \in planned : plans[m].phase = "RETIRED"}]
  BY <1>1 DEF PlanMarkets
<1>3. ASSUME NEW m \in planned
      PROVE  m \in Market /\ Farmed(m) /\ ManagedFields \subseteq DOMAIN mem[m]
  BY DEF Positions, ActiveMarkets, Active, Shapes, MemoryIs, Farmed
<1>4. ASSUME NEW m \in planned
      PROVE  PlannedWell(m, plans[m])
  <2>1. plans[m] \in MarketPlans(m)
    BY <1>2 DEF Plans
  <2> QED
    BY <1>3, <2>1, PlansAreWell
<1>5. ASSUME NEW m \in planned
      PROVE  /\ mem'[m] # None /\ ManagedFields \subseteq DOMAIN mem'[m]
             /\ mem'[m].phase = plans[m].phase
             /\ mem'[m].base = mem[m].base /\ mem'[m].position = mem[m].position
  <2> DEFINE phase == plans[m].phase
             next == [mem[m] EXCEPT !.phase = phase]
  <2>1. mem'[m] = next
    BY <1>2, <1>3
  <2> HIDE DEF phase
  <2>2. /\ DOMAIN next = DOMAIN mem[m] /\ next.phase = phase
        /\ next.base = mem[m].base /\ next.position = mem[m].position
    BY <1>3 DEF ManagedFields
  <2> HIDE DEF next
  <2>3. next # None
    BY <1>3, <2>2 DEF NoneIsNone, ManagedFields
  <2> QED
    BY <1>3, <2>1, <2>2, <2>3 DEF phase
<1>6. ASSUME NEW m \in Market, m \notin planned
      PROVE  mem'[m] = mem[m]
  BY <1>2, <1>6
<1>7. MemoryIs(mem') /\ SameShares(mem') /\ \A m \in Market : mem'[m] # None <=> Farmed(m)
  <2>1. DOMAIN mem' = Market
    BY <1>2
  <2> QED
    BY <1>3, <1>5, <1>6, <2>1 DEF MemoryIs, SameShares, Shapes, Farmed
<1>8. ASSUME NEW q \in plan'.places
      PROVE  \E m \in planned : q \in plans[m].does.places /\ q.market = m
  BY <1>2, <1>4 DEF PlannedWell
<1>9. \A m \in planned : plans[m].does.cancels \subseteq plan'.cancels
  BY <1>2
<1>10. PlanIs(plan')
  <2>1. \A q \in plan'.places : q.market \in Market
    BY <1>3, <1>8
  <2> QED
    BY <1>2, <2>1 DEF PlanIs
<1>11. PlanOf(planned, mem', plan')
  <2>1. ASSUME NEW q \in plan'.places
        PROVE  /\ q.market \in planned /\ mem'[q.market].phase # "RETIRED"
               /\ \A o \in book : o.market = q.market /\ o.slot = q.slot => o.id \in plan'.cancels
    BY <1>4, <1>5, <1>8, <1>9 DEF PlannedWell
  <2>2. \A q, r \in plan'.places : q.market = r.market /\ q.slot = r.slot => q = r
    BY <1>4, <1>8 DEF PlannedWell
  <2>3. \A m \in planned : mem'[m].phase = "RETIRED" =>
          \A o \in book : o.market = m => o.id \in plan'.cancels
    BY <1>4, <1>5, <1>9 DEF PlannedWell
  <2> QED
    BY <1>6, <1>7, <2>1, <2>2, <2>3 DEF PlanOf
<1> QED
  BY <1>1, <1>7, <1>10, <1>11 DEF PlanMarkets

\* What is posted takes ids of its own, one order for each place.
LEMMA PostedIs ==
  ASSUME Shapes, PostPlanned
  PROVE  /\ book \subseteq book'
         /\ \A q \in book' \ book :
              /\ OrderFields \subseteq DOMAIN q /\ q.by = run
              /\ q.id \notin {o.id : o \in book}
              /\ \E p \in plan.places : q.market = p.market /\ q.slot = p.slot
         /\ \A q, r \in book' \ book : q.id = r.id => q = r
         /\ (\A p, q \in plan.places : p.market = q.market /\ p.slot = q.slot => p = q)
              => \A q, r \in book' \ book : q.market = r.market /\ q.slot = r.slot => q = r
<1>1. PICK taken \in SUBSET ToPost :
        /\ Injection(taken, FreeIds) # {}
        /\ LET ids == CHOOSE f \in Injection(taken, FreeIds) : TRUE
           IN book' = book \cup {[id |-> ids[p], market |-> p.market, slot |-> p.slot,
                                  size |-> Sellable(p), by |-> run] : p \in taken}
  BY DEF PostPlanned
<1> DEFINE ids == CHOOSE f \in Injection(taken, FreeIds) : TRUE
           Order1(p) == [id |-> ids[p], market |-> p.market, slot |-> p.slot,
                         size |-> Sellable(p), by |-> run]
<1>2. ids \in Injection(taken, FreeIds)
  BY <1>1
<1>3. book' = book \cup {Order1(p) : p \in taken}
  BY <1>1
<1> HIDE DEF ids
<1>4. /\ \A p \in taken : ids[p] \in FreeIds
      /\ \A p, q \in taken : ids[p] = ids[q] => p = q
  BY <1>2 DEF Injection, IsInjective
<1>5. taken \subseteq plan.places
  BY DEF ToPost
<1>6. \A p : /\ Order1(p).id = ids[p] /\ Order1(p).market = p.market
             /\ Order1(p).slot = p.slot /\ Order1(p).by = run
             /\ OrderFields \subseteq DOMAIN Order1(p)
  BY DEF OrderFields
<1> HIDE DEF Order1
<1>7. \A q \in book' \ book : \E p \in taken : q = Order1(p)
  BY <1>3
<1> QED
  BY <1>3, <1>4, <1>5, <1>6, <1>7 DEF FreeIds

\* A market not read is as it was; one read, wholly or half, is of the same phase.
LEMMA ReadsSameFarm ==
  ASSUME NoneIsNone, Shapes, DOMAIN mem' = Market,
         \A m \in Market : \/ mem'[m] = mem[m]
                           \/ Farmed(m) /\ mem'[m] = Positioned(m)
                           \/ Farmed(m) /\ \E base : mem'[m] = [mem[m] EXCEPT !.base = base]
                           \/ Farmed(m) /\ \E naked : mem'[m] = [Positioned(m) EXCEPT !.naked = naked]
  PROVE  SameFarm(mem')
<1> SUFFICES ASSUME NEW m \in Market, Farmed(m)
             PROVE  /\ mem'[m] # None /\ ManagedFields \subseteq DOMAIN mem'[m]
                    /\ mem'[m].phase = mem[m].phase
  BY DEF SameFarm, MemoryIs, Shapes, Farmed
<1>1. ManagedFields \subseteq DOMAIN mem[m] /\ mem[m] # None
  BY DEF Shapes, MemoryIs, Farmed
<1>2. CASE mem'[m] = Positioned(m)
  BY <1>2, PositionedIs
<1>3. ASSUME NEW base, mem'[m] = [mem[m] EXCEPT !.base = base]
      PROVE  /\ mem'[m] # None /\ ManagedFields \subseteq DOMAIN mem'[m]
             /\ mem'[m].phase = mem[m].phase
  <2> DEFINE next == [mem[m] EXCEPT !.base = base]
  <2>1. DOMAIN next = DOMAIN mem[m] /\ next.phase = mem[m].phase
    BY <1>1 DEF ManagedFields
  <2> HIDE DEF next
  <2>2. next # None
    BY <1>1, <2>1 DEF NoneIsNone, ManagedFields
  <2> QED
    BY <1>1, <1>3, <2>1, <2>2 DEF next
<1>4. ASSUME NEW naked, mem'[m] = [Positioned(m) EXCEPT !.naked = naked]
      PROVE  /\ mem'[m] # None /\ ManagedFields \subseteq DOMAIN mem'[m]
             /\ mem'[m].phase = mem[m].phase
  <2> DEFINE read == Positioned(m)
             next == [read EXCEPT !.naked = naked]
  <2>1. ManagedFields \subseteq DOMAIN read /\ read.phase = mem[m].phase
    BY PositionedIs
  <2>2. mem'[m] = next
    BY <1>4
  <2> HIDE DEF read
  <2>3. DOMAIN next = DOMAIN read /\ next.phase = read.phase
    BY <2>1 DEF ManagedFields
  <2> HIDE DEF next
  <2>4. next # None
    BY <2>1, <2>3 DEF NoneIsNone, ManagedFields
  <2> QED
    BY <2>1, <2>2, <2>3, <2>4
<1> QED
  BY <1>1, <1>2, <1>3, <1>4

LEMMA NakedSameFarm ==
  ASSUME NoneIsNone, Shapes, NEW m \in Market, NakedCooldownEnds(m)
  PROVE  SameFarm(mem') /\ SameShares(mem')
<1> DEFINE next == [mem[m] EXCEPT !.naked = TRUE]
<1>1. mem[m] # None /\ ManagedFields \subseteq DOMAIN mem[m]
  BY DEF Shapes, MemoryIs, Farmed, NakedCooldownEnds
<1>2. mem' = [mem EXCEPT ![m] = next]
  BY DEF NakedCooldownEnds
<1>3. /\ DOMAIN next = DOMAIN mem[m] /\ next.phase = mem[m].phase
      /\ next.base = mem[m].base /\ next.position = mem[m].position
  BY <1>1 DEF ManagedFields
<1> HIDE DEF next
<1>4. next # None
  BY <1>1, <1>3 DEF NoneIsNone, ManagedFields
<1> QED
  BY <1>1, <1>2, <1>3, <1>4 DEF SameFarm, SameShares, MemoryIs, Shapes, Farmed

-----------------------------------------------------------------------------
(* The steps that plan nothing, post nothing and take on no market         *)

\* There is only what the stage of the cycle still has to do.
Fits(p, at) == /\ at # "cancel" => p.cancels = {}
               /\ at \notin {"cancel", "post"} => p.places = {}

Quiet ==
  /\ SameFarm(mem') /\ Shrinks(book', missed') /\ run' = run
  /\ (pc' \in Ended) = (pc \in Ended)
  /\ pc' = "cleared" => pc = "cleared"
  /\ pc = "shutdown" => pc' = "shutdown"
  /\ \/ plan' = plan /\ Fits(plan, pc')
     \/ plan' = NoPlan /\ (plan.cancels = {} \/ pc' = "shutdown")

Sound == Shapes /\ UniqueIds /\ Fits(plan, pc)

\* The ones that read no position.
Still ==
  \/ Console \/ (\E o \in book : Fill(o)) \/ (\E m \in Market : NakedCooldownEnds(m))
  \/ ReadCommands \/ Consume \/ KeepPositions \/ ListingFails \/ Settle
  \/ StatementFails \/ ConsumeFails \/ Interrupt

LEMMA Unchanged ==
  ASSUME Sound
  PROVE  /\ mem' = mem => SameFarm(mem') /\ SameShares(mem')
         /\ row' = row => Decides(row')
         /\ book' = book /\ missed' = missed => Shrinks(book', missed')
BY DEF Sound, Shapes, UniqueIds, SameFarm, SameShares, Decides, Shrinks, Farmed, BookIs

LEMMA StillIsQuiet ==
  ASSUME NoneIsNone, Sound, Still
  PROVE  Quiet /\ Decides(row') /\ SameShares(mem')
<1> USE Unchanged DEF Quiet, Sound
<1>1. CASE Console
  BY <1>1, ConsoleDecides DEF exchange, process, memory
<1>2. ASSUME NEW o \in book, Fill(o)
      PROVE  Quiet /\ Decides(row') /\ SameShares(mem')
  BY <1>2, FillShrinks DEF db, process, memory
<1>3. ASSUME NEW m \in Market, NakedCooldownEnds(m)
      PROVE  Quiet /\ Decides(row') /\ SameShares(mem')
  BY <1>3, NakedSameFarm DEF NakedCooldownEnds, db, exchange, process
<1>4. CASE ReadCommands
  BY <1>4 DEF ReadCommands, db, exchange, process, Fits, Ended
<1>5. CASE Consume
  <2>1. SameFarm(mem') /\ SameShares(mem')
    BY <1>5, ObeyedChanges DEF Consume
  <2> QED
    BY <1>5, <2>1 DEF Consume, exchange, process
<1>6. CASE KeepPositions
  BY <1>6 DEF KeepPositions, ToPlan, db, exchange, process, Fits, Ended
<1>7. CASE ListingFails
  BY <1>7 DEF ListingFails, db, exchange, process, memory, Fits, Ended
<1>8. CASE Settle
  <2>1. PICK failed \in SUBSET plan.retires :
          row' = [m \in Market |-> [row[m] EXCEPT !.approved = @ /\ m \notin plan.retires \ failed]]
    BY <1>8 DEF Settle
  <2>2. ASSUME NEW m \in Market
        PROVE  RowFields \subseteq DOMAIN row'[m] /\ row'[m].base = row[m].base
    <3> DEFINE approved == row[m].approved /\ m \notin plan.retires \ failed
    <3>1. row'[m] = [row[m] EXCEPT !.approved = approved]
      BY <2>1
    <3>2. RowFields \subseteq DOMAIN row[m]
      BY DEF Shapes, RowsAre
    <3> HIDE DEF approved
    <3> QED
      BY <3>1, <3>2 DEF RowFields
  <2>3. Decides(row')
    BY <2>1, <2>2 DEF Decides, RowsAre
  <2>4. plan' = NoPlan /\ pc = "settle" /\ pc' = "read"
    BY <1>8 DEF Settle, Does, Stage, NoPlan
  <2> QED
    BY <1>8, <2>3, <2>4 DEF Settle, exchange, process, Fits, Ended
<1>9. CASE StatementFails
  BY <1>9 DEF StatementFails, Raises, db, exchange, Fits, Ended
<1>10. CASE ConsumeFails
  <2>1. SameFarm(mem') /\ SameShares(mem')
    BY <1>10, ObeyedChanges DEF ConsumeFails
  <2> QED
    BY <1>10, <2>1 DEF ConsumeFails, Raises, db, exchange, Fits, Ended
<1>11. CASE Interrupt
  BY <1>11 DEF Interrupt, Up, db, exchange, Ended
<1> QED
  BY <1>1, <1>2, <1>3, <1>4, <1>5, <1>6, <1>7, <1>8, <1>9, <1>10, <1>11 DEF Still

LEMMA ReadingIsQuiet ==
  ASSUME NoneIsNone, Sound, RefreshPositions \/ \E m \in Market : HalfReads(m)
  PROVE  Quiet
<1> USE DEF Quiet, Sound
<1>1. CASE RefreshPositions
  <2>1. SameFarm(mem')
    BY <1>1, ReadsSameFarm DEF RefreshPositions, Reads, ActiveMarkets, Active
  <2> QED
    BY <1>1, <2>1, Unchanged DEF RefreshPositions, ToPlan, exchange, Fits, Ended
<1>2. ASSUME NEW m \in Market, HalfReads(m)
      PROVE  Quiet
  <2>1. pc = "positions" /\ Active(m) /\ Raises(stop) /\ UNCHANGED exchange
    BY <1>2, HalfReadIs
  <2>2. PICK done \in SUBSET (ActiveMarkets \ {m}), half \in Halves(m) :
          mem' = [n \in Market |-> IF n \in done THEN Positioned(n)
                                  ELSE IF n = m THEN half ELSE mem[n]]
    BY <1>2, HalfReadIs
  <2>3. ASSUME NEW n \in Market
        PROVE  \/ mem'[n] = mem[n]
               \/ Farmed(n) /\ mem'[n] = Positioned(n)
               \/ Farmed(n) /\ \E base : mem'[n] = [mem[n] EXCEPT !.base = base]
               \/ Farmed(n) /\ \E naked : mem'[n] = [Positioned(n) EXCEPT !.naked = naked]
    <3>1. CASE n = m
      BY <2>1, <2>2, <3>1 DEF Active, Halves
    <3>2. CASE n # m
      BY <2>2, <3>2 DEF ActiveMarkets, Active
    <3> QED
      BY <3>1, <3>2
  <2>4. SameFarm(mem')
    BY <2>2, <2>3, ReadsSameFarm
  <2> QED
    BY <2>1, <2>4, Unchanged DEF Raises, exchange, Fits, Ended
<1> QED
  BY <1>1, <1>2

-----------------------------------------------------------------------------
(* Sound is kept                                                           *)

LEMMA QuietIsSound ==
  ASSUME Sound, Quiet, RowsAre(row')
  PROVE  Sound'
<1> USE DEF Quiet, Sound, Shapes
<1>1. MemoryIs(mem') /\ PlanIs(plan') /\ run' \in Nat
  BY DEF SameFarm, PlanIs, NoPlan
<1>2. BookIs(book', run')
  BY DEF Shrinks, BookIs
<1>3. UniqueIds'
  BY DEF Shrinks, UniqueIds
<1>4. Fits(plan', pc')
  BY DEF Fits, NoPlan
<1> QED
  BY <1>1, <1>2, <1>3, <1>4

LEMMA ReadsAreRows ==
  ASSUME NoneIsNone, Sound, RefreshPositions \/ \E m \in Market : HalfReads(m)
  PROVE  RowsAre(row')
<1> SUFFICES ASSUME DOMAIN row' = Market,
                    \A m \in Market : row'[m] = row[m] \/ row'[m] = Saved(m)
             PROVE  RowsAre(row')
  BY HalfReadIs DEF RefreshPositions, Reads
<1> SUFFICES ASSUME NEW m \in Market
             PROVE  RowFields \subseteq DOMAIN Saved(m)
  BY DEF RowsAre, Sound, Shapes
<1> DEFINE base == Positioned(m).base
<1>1. Saved(m) = row[m] \/ Saved(m) = [row[m] EXCEPT !.base = base]
  BY DEF Saved
<1> HIDE DEF base
<1> QED
  BY <1>1 DEF Sound, Shapes, RowsAre, RowFields

\* The steps that are not quiet.
Turns == Start \/ Reload \/ PlanSome \/ CancelPlanned \/ PostPlanned \/ ShutsDown \/ Dies

LEMMA NextIs ==
  ASSUME Next
  PROVE  Still \/ RefreshPositions \/ (\E m \in Market : HalfReads(m)) \/ Turns
BY DEF Next, Farmer, Cycle, Faults, HalfReads, Still, Turns

CancelledNow == {o \in book : o.id \in plan.cancels}

LEMMA CancelPlannedIs ==
  ASSUME Sound, CancelPlanned
  PROVE  /\ Shrinks(book', missed') /\ book' \subseteq book
         /\ \A q \in book' : q.id \in plan.cancels \/ q.id \in missed => q.id \in missed'
         /\ plan'.cancels = {} /\ plan'.places = plan.places /\ PlanIs(plan')
         /\ pc = "cancel" /\ pc' \in {"post", "settle", "read"} /\ Fits(plan', pc')
         /\ UNCHANGED <<row, wallet, run, mem>>
<1>1. Shapes /\ UniqueIds
  BY DEF Sound
<1>2. Cancelled(CancelledNow)
  BY DEF CancelPlanned, CancelledNow
<1>3. CancelledNow \in SUBSET book
  BY DEF CancelledNow
<1>4. /\ Shrinks(book', missed') /\ book' \subseteq book
      /\ \A q \in book' : q \in CancelledNow => q.id \in missed'
      /\ \A q \in book' : q.id \in missed => q.id \in missed'
  BY <1>1, <1>2, <1>3, CancelledShrinks
<1>5. PICK c, q, r : plan = [cancels |-> c, places |-> q, retires |-> r]
  BY <1>1 DEF Shapes, PlanIs
<1>6. plan' = [cancels |-> {}, places |-> q, retires |-> r]
  BY <1>5 DEF CancelPlanned, Does
<1>7. PlanIs(plan') /\ plan'.cancels = {} /\ plan'.places = plan.places
  BY <1>1, <1>5, <1>6 DEF Shapes, PlanIs
<1>8. pc' \in {"post", "settle", "read"} /\ Fits(plan', pc')
  BY <1>7 DEF CancelPlanned, Does, Stage, Fits
<1> QED
  BY <1>4, <1>7, <1>8 DEF CancelPlanned, CancelledNow, db, process

LEMMA ShutsDownIs ==
  ASSUME Sound, ShutsDown
  PROVE  /\ Shrinks(book', missed') /\ book' \subseteq book
         /\ \A q \in book' : q.id \in missed => q.id \in missed'
         /\ pc' = "cleared" => \A q \in book' : Farmed(q.market) => q.id \in missed'
<1> USE Unchanged DEF Sound
<1>1. CASE UNCHANGED <<book, missed>> /\ pc' = "kept"
  BY <1>1
<1>2. CASE Cancelled(ToCancel)
  BY <1>2, CancelledShrinks DEF ToCancel
<1> QED
  BY <1>1, <1>2 DEF ShutsDown

LEMMA PostIs ==
  ASSUME Sound, PostPlanned
  PROVE  /\ plan'.cancels = {} /\ plan'.places = {} /\ plan.cancels = {} /\ PlanIs(plan')
         /\ pc = "post" /\ pc' \in {"settle", "read"} /\ Fits(plan', pc')
         /\ UNCHANGED <<row, wallet, run, mem, missed>>
<1>1. PICK c, q, r : plan = [cancels |-> c, places |-> q, retires |-> r]
  BY DEF Sound, Shapes, PlanIs
<1>2. plan' = [cancels |-> c, places |-> {}, retires |-> r] /\ c = {}
  BY <1>1 DEF PostPlanned, Does, Sound, Fits
<1>3. PlanIs(plan') /\ plan'.cancels = {} /\ plan'.places = {} /\ plan.cancels = {}
  BY <1>1, <1>2 DEF PlanIs
<1>4. pc' \in {"settle", "read"} /\ Fits(plan', pc')
  BY <1>3 DEF PostPlanned, Does, Stage, Fits
<1> QED
  BY <1>3, <1>4 DEF PostPlanned, db, process

LEMMA ReloadIs ==
  ASSUME NoneIsNone, Sound, Reload
  PROVE  /\ MemoryIs(mem')
         /\ \A m \in Market :
              \/ /\ ~Active(m)
                 /\ \/ mem'[m] = None
                    \/ /\ mem'[m].phase = "QUOTING" /\ mem'[m].base = row[m].base
                       /\ mem'[m].position = None
              \/ /\ Farmed(m) /\ mem'[m] # None
                 /\ mem'[m].phase = mem[m].phase /\ mem'[m].base = mem[m].base
                 /\ mem'[m].position = mem[m].position
         /\ UNCHANGED <<row, wallet, book, missed, run, plan>>
         /\ pc = "commands" /\ pc' \in {"shutdown", "positions"}
<1>1. PICK known \in SUBSET Market : mem' = [m \in Market |-> Reloaded(m, m \in known)]
  BY DEF Reload
<1>2. ASSUME NEW m \in Market
      PROVE  /\ mem'[m] # None => ManagedFields \subseteq DOMAIN mem'[m]
             /\ \/ /\ ~Active(m)
                   /\ \/ mem'[m] = None
                      \/ /\ mem'[m].phase = "QUOTING" /\ mem'[m].base = row[m].base
                         /\ mem'[m].position = None
                \/ /\ Farmed(m) /\ mem'[m] # None
                   /\ mem'[m].phase = mem[m].phase /\ mem'[m].base = mem[m].base
                   /\ mem'[m].position = mem[m].position
  <2> DEFINE here == m \in known
  <2>1. mem'[m] = Reloaded(m, here) /\ here \in BOOLEAN
    BY <1>1
  <2> HIDE DEF here
  <2>2. Shapes
    BY DEF Sound
  <2> QED
    BY <2>1, <2>2, ReloadedIs, TakenOn
<1> QED
  BY <1>1, <1>2 DEF Reload, MemoryIs, db, exchange, process

LEMMA MemoryLostIs ==
  ASSUME MemoryLost
  PROVE  /\ MemoryIs(mem') /\ PlanIs(plan') /\ plan'.cancels = {} /\ plan'.places = {}
         /\ \A m \in Market : mem'[m] = None
BY DEF MemoryLost, MemoryIs, NoPlan, PlanIs

LEMMA TurnsAreSound ==
  ASSUME NoneIsNone, Sound, Turns
  PROVE  Sound'
<1> USE DEF Sound, Shapes
<1>1. CASE Start
  BY <1>1 DEF Start, exchange, memory, BookIs, UniqueIds, Fits, Up, Ended
<1>2. CASE Reload
  BY <1>2, ReloadIs DEF UniqueIds, Fits
<1>3. CASE PlanSome
  <2>1. MemoryIs(mem') /\ PlanIs(plan') /\ UNCHANGED <<row, book, missed, run>>
    BY <1>3, PlanSomeIs DEF db, exchange, process
  <2>2. Fits(plan', pc')
    BY <1>3, PlanSomeIs DEF Stage, Fits
  <2> QED
    BY <2>1, <2>2 DEF UniqueIds
<1>4. CASE CancelPlanned
  BY <1>4, CancelPlannedIs DEF UniqueIds, Shrinks, BookIs
<1>5. CASE PostPlanned
  <2> run' = run /\ run <= run /\ Shapes
    BY <1>5, PostIs
  <2>1. ASSUME NEW q \in book' \ book
        PROVE  /\ OrderFields \subseteq DOMAIN q
               /\ q.market \in Market /\ q.by \in Nat /\ q.by <= run
    <3>1. /\ OrderFields \subseteq DOMAIN q /\ q.by = run
          /\ \E p \in plan.places : q.market = p.market
      BY <1>5, PostedIs
    <3> QED
      BY <3>1 DEF PlanIs
  <2>2. BookIs(book', run')
    BY <2>1 DEF BookIs
  <2>3. UniqueIds'
    BY <1>5, PostedIs, PostIs DEF UniqueIds
  <2> QED
    BY <1>5, <2>2, <2>3, PostIs
<1>6. CASE ShutsDown
  <2>1. MemoryLost /\ UNCHANGED <<row, run>>
    BY <1>6 DEF ShutsDown, db, process
  <2> QED
    BY <1>6, <2>1, ShutsDownIs, MemoryLostIs DEF UniqueIds, Shrinks, BookIs, Fits
<1>7. CASE Dies
  BY <1>7, MemoryLostIs DEF Dies, db, exchange, process, UniqueIds, Fits
<1> QED
  BY <1>1, <1>2, <1>3, <1>4, <1>5, <1>6, <1>7 DEF Turns

LEMMA SoundStays ==
  ASSUME NoneIsNone, Sound, [Next]_vars
  PROVE  Sound'
<1>1. CASE UNCHANGED vars
  BY <1>1 DEF vars, db, exchange, process, memory, Sound, Shapes, UniqueIds
<1>2. CASE Still
  BY <1>2, StillIsQuiet, QuietIsSound DEF Decides
<1>3. CASE RefreshPositions \/ \E m \in Market : HalfReads(m)
  BY <1>3, ReadingIsQuiet, ReadsAreRows, QuietIsSound
<1>4. CASE Turns
  BY <1>4, TurnsAreSound
<1> QED
  BY <1>1, <1>2, <1>3, <1>4, NextIs

LEMMA SoundAtFirst ==
  ASSUME Init
  PROVE  Sound
BY DEF Init, Sound, Shapes, UniqueIds, Fits, RowsAre, RowFields, MemoryIs, BookIs, PlanIs,
       NoPlan

-----------------------------------------------------------------------------
(* One order to a slot, and none left behind                               *)

\* What is to be placed goes where nothing rests but what is cancelled first or was to be.
PlacesAreFree ==
  /\ \A p, q \in plan.places : p.market = q.market /\ p.slot = q.slot => p = q
  /\ \A p \in plan.places :
       /\ Active(p.market)
       /\ \A o \in book : o.market = p.market /\ o.slot = p.slot
                            => o.id \in plan.cancels \/ o.id \in missed

\* The run's own orders are of markets it farms, and a retired market's are cancelled.
OwnAreFarmed ==
  /\ ~Up => \A m \in Market : ~Farmed(m)
  /\ \A o \in book : Up /\ o.by = run => Farmed(o.market) \/ o.id \in missed
  /\ \A o \in book : Farmed(o.market) /\ mem[o.market].phase = "RETIRED" =>
       pc = "shutdown" \/ o.id \in plan.cancels \/ o.id \in missed

OrdersInv ==
  Sound /\ PlacesAreFree /\ OwnAreFarmed /\ OneOrderToASlot /\ ClearedWhenStopped

LEMMA QuietKeepsOrders ==
  ASSUME OrdersInv, Quiet
  PROVE  PlacesAreFree' /\ OwnAreFarmed' /\ OneOrderToASlot' /\ ClearedWhenStopped'
<1> USE DEF OrdersInv, Quiet
<1>1. PlacesAreFree'
  <2>1. CASE plan' = NoPlan
    BY <2>1 DEF PlacesAreFree, NoPlan
  <2>2. CASE plan' = plan
    BY <2>2 DEF PlacesAreFree, SameFarm, Shrinks, Active, Farmed, Sound, Shapes, PlanIs
  <2> QED
    BY <2>1, <2>2
<1>2. OwnAreFarmed'
  <2>1. ASSUME NEW q \in book'
        PROVE  \E o \in book : /\ o.market \in Market
                               /\ q.id = o.id /\ q.market = o.market /\ q.by = o.by
                               /\ o.id \in missed => q.id \in missed'
    BY DEF Shrinks, Sound, Shapes, BookIs
  <2>2. plan' = plan \/ plan.cancels = {} \/ pc' = "shutdown"
    OBVIOUS
  <2> QED
    BY <2>1, <2>2 DEF OwnAreFarmed, SameFarm, Farmed, Up
<1>3. OneOrderToASlot'
  BY DEF OneOrderToASlot, Shrinks, Sound, UniqueIds
<1>4. ClearedWhenStopped'
  BY DEF ClearedWhenStopped, Shrinks
<1> QED
  BY <1>1, <1>2, <1>3, <1>4

LEMMA TurnsKeepOrders ==
  ASSUME NoneIsNone, OrdersInv, Turns
  PROVE  PlacesAreFree' /\ OwnAreFarmed' /\ OneOrderToASlot' /\ ClearedWhenStopped'
<1> USE DEF OrdersInv
<1> Sound /\ Shapes /\ UniqueIds /\ Fits(plan, pc)
  BY DEF Sound
<1>1. CASE Start
  <2>1. /\ UNCHANGED <<book, missed, mem, plan>> /\ ~Up /\ pc' = "read"
        /\ run' = run + 1
    BY <1>1 DEF Start, exchange, memory
  <2>2. \A o \in book : o.by # run'
    BY <2>1 DEF Shapes, BookIs
  <2>3. \A m \in Market : ~Farmed(m)
    BY <2>1 DEF OwnAreFarmed
  <2>4. plan.places = {} /\ \A o \in book : o.market \in Market
    BY <2>1 DEF Fits, Up, Ended, Shapes, BookIs
  <2> QED
    BY <2>1, <2>2, <2>3, <2>4
       DEF PlacesAreFree, OwnAreFarmed, OneOrderToASlot, ClearedWhenStopped, Up, Ended, Farmed
<1>2. CASE Reload
  <2>1. plan.cancels = {} /\ plan.places = {} /\ UNCHANGED <<book, missed, run, plan>>
    BY <1>2, ReloadIs DEF Fits
  <2>2. PlacesAreFree' /\ OneOrderToASlot' /\ ClearedWhenStopped'
    BY <1>2, <2>1, ReloadIs DEF PlacesAreFree, OneOrderToASlot, ClearedWhenStopped
  <2>3. Up /\ Up' /\ pc # "shutdown"
    BY <1>2, ReloadIs DEF Up, Ended
  <2>4. ASSUME NEW o \in book, o.by = run, o.id \notin missed
        PROVE  mem'[o.market] # None
    <3>1. o.market \in Market
      BY DEF Shapes, BookIs
    <3>2. Active(o.market)
      BY <2>1, <2>3, <2>4 DEF OwnAreFarmed, Active
    <3> QED
      BY <1>2, <3>1, <3>2, ReloadIs
  <2>5. ASSUME NEW o \in book, mem'[o.market] # None, mem'[o.market].phase = "RETIRED"
        PROVE  o.id \in missed
    <3>1. o.market \in Market
      BY DEF Shapes, BookIs
    <3>2. Farmed(o.market) /\ mem[o.market].phase = "RETIRED"
      BY <1>2, <2>5, <3>1, ReloadIs
    <3> QED
      BY <2>1, <2>3, <3>2 DEF OwnAreFarmed
  <2> QED
    BY <2>1, <2>2, <2>3, <2>4, <2>5 DEF OwnAreFarmed, Farmed
<1>3. CASE PlanSome
  <2>1. PICK planned \in SUBSET Positions : PlanOf(planned, mem', plan')
    BY <1>3, PlanSomeIs
  <2>2. UNCHANGED <<book, missed, run>> /\ pc = "plan" /\ pc' = Stage(plan')
    BY <1>3, PlanSomeIs DEF exchange, process
  <2>3. Up /\ Up' /\ pc # "shutdown" /\ pc' # "cleared" /\ plan.cancels = {}
    BY <2>2 DEF Up, Ended, Stage, Fits
  <2>4. \A m \in planned : m \in Market /\ Farmed(m)
    BY DEF Positions, ActiveMarkets, Active
  <2>5. PlacesAreFree'
    BY <2>1, <2>2, <2>4 DEF PlanOf, PlacesAreFree, Active, Farmed
  <2>6. ASSUME NEW o \in book
        PROVE  /\ o.by = run => mem'[o.market] # None \/ o.id \in missed
               /\ mem'[o.market] # None /\ mem'[o.market].phase = "RETIRED" =>
                    o.id \in plan'.cancels \/ o.id \in missed
    <3>1. o.market \in Market
      BY DEF Shapes, BookIs
    <3>2. CASE o.market \in planned
      BY <2>1, <2>4, <3>1, <3>2 DEF PlanOf
    <3>3. CASE o.market \notin planned
      BY <2>1, <2>3, <3>1, <3>3 DEF PlanOf, OwnAreFarmed, Farmed
    <3> QED
      BY <3>2, <3>3
  <2> QED
    BY <2>2, <2>3, <2>5, <2>6
       DEF OwnAreFarmed, OneOrderToASlot, ClearedWhenStopped, Farmed
<1>4. CASE CancelPlanned
  <2>1. /\ book' \subseteq book /\ UNCHANGED <<run, mem>>
        /\ \A q \in book' : q.id \in plan.cancels \/ q.id \in missed => q.id \in missed'
        /\ plan'.places = plan.places /\ pc = "cancel" /\ pc' \in {"post", "settle", "read"}
    BY <1>4, CancelPlannedIs
  <2> QED
    BY <2>1 DEF PlacesAreFree, OwnAreFarmed, OneOrderToASlot, ClearedWhenStopped, Farmed,
                Active, Up, Ended
<1>5. CASE PostPlanned
  <2>1. /\ plan.cancels = {} /\ plan'.places = {} /\ UNCHANGED <<run, mem, missed>>
        /\ pc = "post" /\ pc' \in {"settle", "read"}
    BY <1>5, PostIs
  <2>2. /\ book \subseteq book'
        /\ \A q \in book' \ book :
             /\ q.by = run
             /\ \E p \in plan.places : q.market = p.market /\ q.slot = p.slot
        /\ \A q, r \in book' \ book : q.market = r.market /\ q.slot = r.slot => q = r
    BY <1>5, PostedIs DEF PlacesAreFree
  <2>3. \A q \in book' \ book : Active(q.market)
    BY <2>2 DEF PlacesAreFree
  <2>4. OneOrderToASlot'
    BY <2>1, <2>2 DEF PlacesAreFree, OneOrderToASlot
  <2>5. OwnAreFarmed'
    BY <2>1, <2>2, <2>3 DEF OwnAreFarmed, Active, Farmed, Up, Ended
  <2> QED
    BY <2>1, <2>4, <2>5 DEF PlacesAreFree, ClearedWhenStopped
<1>6. CASE ShutsDown
  <2>1. /\ book' \subseteq book /\ \A q \in book' : q.id \in missed => q.id \in missed'
        /\ pc' = "cleared" => \A q \in book' : Farmed(q.market) => q.id \in missed'
    BY <1>6, ShutsDownIs
  <2>2. /\ pc = "shutdown" /\ pc' \in {"kept", "cleared"} /\ run' = run
        /\ plan'.places = {} /\ \A m \in Market : mem'[m] = None
    BY <1>6, MemoryLostIs DEF ShutsDown, process
  <2>3. \A q \in book' : q.market \in Market
    BY <2>1 DEF Shapes, BookIs
  <2> QED
    BY <2>1, <2>2, <2>3 DEF PlacesAreFree, OwnAreFarmed, OneOrderToASlot, ClearedWhenStopped,
                            Farmed, Up, Ended
<1>7. CASE Dies
  <2>1. /\ UNCHANGED <<book, missed, run>> /\ pc' = "dead"
        /\ plan'.places = {} /\ \A m \in Market : mem'[m] = None
    BY <1>7, MemoryLostIs DEF Dies, exchange, process
  <2>2. \A q \in book' : q.market \in Market
    BY <2>1 DEF Shapes, BookIs
  <2> QED
    BY <2>1, <2>2 DEF PlacesAreFree, OwnAreFarmed, OneOrderToASlot, ClearedWhenStopped,
                      Farmed, Up, Ended
<1> QED
  BY <1>1, <1>2, <1>3, <1>4, <1>5, <1>6, <1>7 DEF Turns

LEMMA OrdersInvStays ==
  ASSUME NoneIsNone, OrdersInv, [Next]_vars
  PROVE  OrdersInv'
<1>1. Sound'
  BY SoundStays DEF OrdersInv
<1>2. PlacesAreFree' /\ OwnAreFarmed' /\ OneOrderToASlot' /\ ClearedWhenStopped'
  <2>1. CASE UNCHANGED vars
    BY <2>1 DEF vars, exchange, process, memory, OrdersInv, PlacesAreFree, OwnAreFarmed,
                OneOrderToASlot, ClearedWhenStopped, Active, Farmed, Up
  <2>2. CASE Still
    BY <2>2, StillIsQuiet, QuietKeepsOrders DEF OrdersInv
  <2>3. CASE RefreshPositions \/ \E m \in Market : HalfReads(m)
    BY <2>3, ReadingIsQuiet, QuietKeepsOrders DEF OrdersInv
  <2>4. CASE Turns
    BY <2>4, TurnsKeepOrders
  <2> QED
    BY <2>1, <2>2, <2>3, <2>4, NextIs
<1> QED
  BY <1>1, <1>2 DEF OrdersInv

\* Whatever raises, fails, stops or dies, and whatever the console decides meanwhile: no
\* slot of a market holds two orders unless a cancel failed, and a run that ended by
\* cancelling leaves none of its own orders unless its cancel failed.
THEOREM OrdersAreTended ==
  ASSUME NoneIsNone
  PROVE  Spec => []OneOrderToASlot /\ []ClearedWhenStopped
<1>1. ASSUME Init
      PROVE  OrdersInv
  <2>1. /\ book = {} /\ plan.places = {} /\ mem = [m \in Market |-> None] /\ pc = "none"
    BY <1>1 DEF Init, NoPlan
  <2>2. PlacesAreFree /\ OneOrderToASlot /\ ClearedWhenStopped
    BY <2>1 DEF PlacesAreFree, OneOrderToASlot, ClearedWhenStopped
  <2>3. OwnAreFarmed
    BY <2>1 DEF OwnAreFarmed, Farmed
  <2> QED
    BY <1>1, <2>2, <2>3, SoundAtFirst DEF OrdersInv
<1>2. OrdersInv /\ [Next]_vars => OrdersInv'
  BY OrdersInvStays
<1>3. OrdersInv => OneOrderToASlot /\ ClearedWhenStopped
  BY DEF OrdersInv
<1> QED
  BY <1>1, <1>2, <1>3, PTL DEF Spec

-----------------------------------------------------------------------------
(* The steps keep what is set aside                                        *)

\* What each market's runtime knows it knew, or has from the row.
Remembers(ms) ==
  \A m \in Market : ms[m] # None =>
     \/ Farmed(m) /\ ms[m].base = mem[m].base /\ ms[m].position = mem[m].position
     \/ ms[m].base = row[m].base /\ ms[m].position = None
\* An order was there before or was to be placed, and a place is of a market positioned.
Follows(orders, p) ==
  /\ \A q \in orders : \E o \in book \cup plan.places : q.market = o.market
  /\ \A q \in p.places : q \notin plan.places =>
       mem[q.market] # None /\ mem[q.market].position # None
LEMMA FollowsWhere ==
  ASSUME NEW orders, NEW p, \A q \in orders : \E o \in book : q.market = o.market,
         p.places \subseteq plan.places
  PROVE  Follows(orders, p)
BY DEF Follows

\* A trade is of a market with a baseline.
Trades(shares) == \A m \in Market : row[m].base = None => shares[m] = wallet[m]

AsideKept == Account /\ OnFile /\ OwnAside /\ OrdersFollow

LEMMA AsideFrame ==
  ASSUME Sound, Sound', AsideKept, Decides(row'), Remembers(mem'), Follows(book', plan'),
         Account', Trades(wallet')
  PROVE  AsideKept'
<1> USE DEF AsideKept, Sound, Shapes
<1>1. \A m \in Market : row'[m].base = row[m].base
  BY DEF Decides
<1>2. OnFile'
  BY <1>1 DEF Remembers, OnFile, Farmed
<1>3. OwnAside'
  BY <1>1 DEF OwnAside, Trades
<1>4. (\A o \in book : o.market \in Market) /\ (\A o \in book' : o.market \in Market)
  BY DEF BookIs
<1>5. (\A p \in plan.places : p.market \in Market) /\ (\A p \in plan'.places : p.market \in Market)
  BY DEF PlanIs
<1>6. OrdersFollow'
  BY <1>1, <1>4, <1>5 DEF OrdersFollow, Follows, OnFile, Farmed
<1> QED
  BY <1>2, <1>3, <1>6

LEMMA FillAccounts ==
  ASSUME Sound, AsideKept, NEW o \in book, Fill(o)
  PROVE  Account' /\ Trades(wallet')
<1> DEFINE role == o.slot[1]
           bought == IF o.slot[2] = "BUY" THEN 1 ELSE -1
           held == wallet[o.market][role] + bought
<1>1. held \in 0..MaxShares /\ wallet' = [wallet EXCEPT ![o.market][role] = held]
  BY DEF Fill
<1>2. o.market \in Market /\ row[o.market].base # None /\ wallet \in [Market -> [Role -> Nat]]
  BY DEF AsideKept, OrdersFollow, Account, Sound, Shapes, BookIs
<1> HIDE DEF held, role
<1>3. held \in Nat
  BY <1>1, ConstantsAssumption
<1>4. wallet' = [wallet EXCEPT ![o.market] = [wallet[o.market] EXCEPT ![role] = held]]
  BY <1>1
<1>5. [wallet[o.market] EXCEPT ![role] = held] \in [Role -> Nat]
  BY <1>2, <1>3
<1> QED
  BY <1>2, <1>4, <1>5 DEF Account, Trades

LEMMA ReadsKeepAside ==
  ASSUME NoneIsNone, Sound, Sound', AsideKept, RefreshPositions
  PROVE  AsideKept'
<1> USE DEF AsideKept
<1>1. /\ mem' = [m \in Market |-> IF m \in ActiveMarkets THEN Positioned(m) ELSE mem[m]]
      /\ row' = [m \in Market |-> IF m \in ActiveMarkets THEN Saved(m) ELSE row[m]]
      /\ UNCHANGED <<book, wallet, plan>>
  BY DEF RefreshPositions, Reads, ToPlan, exchange
<1>2. ASSUME NEW m \in ActiveMarkets
      PROVE  /\ m \in Market /\ Farmed(m) /\ Positioned(m) # None
             /\ Saved(m).base = Positioned(m).base /\ Saved(m).base # None
             /\ Saved(m).base \in [Role -> Nat]
             /\ \A r \in Role : Saved(m).base[r] <= Own[r]
  <2>1. m \in Market /\ Farmed(m) /\ Shapes
    BY DEF ActiveMarkets, Active, Sound
  <2>2. /\ Positioned(m) # None /\ Positioned(m).base # None
        /\ Positioned(m).base \in [Role -> Nat]
        /\ \A r \in Role : Positioned(m).base[r] <= Own[r]
    BY <2>1, PositionedIs, Ratcheted
  <2> DEFINE base == Positioned(m).base
  <2>3. Saved(m).base = base
    <3>1. CASE base = mem[m].base
      BY <2>1, <3>1 DEF Saved, OnFile
    <3>2. CASE base # mem[m].base
      <4>1. Saved(m) = [row[m] EXCEPT !.base = base]
        BY <3>2 DEF Saved
      <4> HIDE DEF base
      <4> QED
        BY <2>1, <4>1 DEF Shapes, RowsAre, RowFields
    <3> QED
      BY <3>1, <3>2
  <2> QED
    BY <2>1, <2>2, <2>3
<1>3. ASSUME NEW m \in Market, m \notin ActiveMarkets
      PROVE  mem'[m] = mem[m] /\ row'[m] = row[m]
  BY <1>1, <1>3
<1>4. OnFile'
  BY <1>1, <1>2, <1>3 DEF OnFile, Farmed
<1>5. OwnAside'
  BY <1>1, <1>2, <1>3 DEF OwnAside
<1>6. \A m \in Market : row[m].base # None => row'[m].base # None
  BY <1>1, <1>2, <1>3
<1>7. OrdersFollow'
  BY <1>1, <1>6 DEF OrdersFollow, Sound, Shapes, BookIs, PlanIs
<1> QED
  BY <1>1, <1>4, <1>5, <1>7 DEF Account

LEMMA StillKeepsAside ==
  ASSUME NoneIsNone, Sound, Sound', AsideKept, Still
  PROVE  AsideKept'
<1>1. Quiet /\ Decides(row') /\ SameShares(mem')
  BY StillIsQuiet
<1>2. Remembers(mem')
  BY <1>1 DEF Quiet, SameFarm, SameShares, Remembers
<1>3. Follows(book', plan')
  <2>1. \A q \in book' : \E o \in book : q.market = o.market
    BY <1>1 DEF Quiet, Shrinks
  <2>2. plan'.places \subseteq plan.places
    BY <1>1 DEF Quiet, NoPlan
  <2> QED
    BY <2>1, <2>2, FollowsWhere
<1>4. Account' /\ Trades(wallet')
  <2>1. CASE UNCHANGED wallet
    BY <2>1 DEF AsideKept, Account, Trades
  <2>2. CASE \E o \in book : Fill(o)
    BY <2>2, FillAccounts
  <2>3. ASSUME NEW m \in Market, NakedCooldownEnds(m)
        PROVE  UNCHANGED wallet
    BY <2>3 DEF NakedCooldownEnds, exchange
  <2> QED
    BY <2>1, <2>2, <2>3 DEF Still, Console, ReadCommands, Consume, KeepPositions, ToPlan,
          ListingFails, Settle, StatementFails, ConsumeFails, Interrupt, exchange
<1> QED
  BY <1>1, <1>2, <1>3, <1>4, AsideFrame

LEMMA TurnsKeepAside ==
  ASSUME NoneIsNone, Sound, Sound', AsideKept, Turns
  PROVE  AsideKept'
<1>1. UNCHANGED <<row, wallet>>
  BY CancelPlannedIs, PostIs, ReloadIs, PlanSomeIs
     DEF Turns, Start, ShutsDown, Dies, db, exchange, Sound
<1>2. Decides(row') /\ Account' /\ Trades(wallet')
  BY <1>1, Unchanged DEF AsideKept, Account, Trades
<1>3. Remembers(mem')
  <2>1. CASE Start
    BY <2>1 DEF Start, memory, Remembers, Farmed
  <2>2. CASE Reload
    BY <2>2, ReloadIs DEF Remembers
  <2>3. CASE PlanSome
    <3>1. SameShares(mem') /\ \A m \in Market : mem'[m] # None <=> Farmed(m)
      BY <2>3, PlanSomeIs DEF PlanOf, Sound
    <3> QED
      BY <3>1 DEF Remembers, SameShares
  <2>4. CASE CancelPlanned \/ PostPlanned
    BY <2>4, CancelPlannedIs, PostIs DEF Remembers, Farmed
  <2>5. CASE ShutsDown \/ Dies
    BY <2>5, MemoryLostIs DEF ShutsDown, Dies, Remembers
  <2> QED
    BY <2>1, <2>2, <2>3, <2>4, <2>5 DEF Turns
<1>4. Follows(book', plan')
  <2>1. CASE Start
    BY <2>1, FollowsWhere DEF Start, exchange, memory
  <2>2. CASE Reload
    BY <2>2, ReloadIs, FollowsWhere
  <2>3. CASE PlanSome
    <3>1. PICK planned \in SUBSET Positions : PlanOf(planned, mem', plan')
      BY <2>3, PlanSomeIs DEF Sound
    <3>2. UNCHANGED book
      BY <2>3, PlanSomeIs DEF Sound, exchange
    <3>3. \A m \in planned : Farmed(m) /\ mem[m].position # None
      BY DEF Positions, ActiveMarkets, Active
    <3> QED
      BY <3>1, <3>2, <3>3 DEF PlanOf, Follows, Farmed
  <2>4. CASE CancelPlanned
    <3>1. book' \subseteq book /\ plan'.places = plan.places
      BY <2>4, CancelPlannedIs
    <3> QED
      BY <3>1, FollowsWhere
  <2>5. CASE PostPlanned
    <3>1. plan'.places = {}
      BY <2>5, PostIs
    <3>2. \A q \in book' \ book : \E o \in plan.places : q.market = o.market
      BY <2>5, PostedIs DEF Sound
    <3> QED
      BY <3>1, <3>2 DEF Follows
  <2>6. CASE ShutsDown
    BY <2>6, ShutsDownIs, MemoryLostIs DEF ShutsDown, Follows
  <2>7. CASE Dies
    BY <2>7, MemoryLostIs DEF Dies, exchange, Follows
  <2> QED
    BY <2>1, <2>2, <2>3, <2>4, <2>5, <2>6, <2>7 DEF Turns
<1> QED
  BY <1>2, <1>3, <1>4, AsideFrame

\* While no statement raises, only shares the wallet held before the farm bought any are
\* set aside, in memory and in the row, by any run: a save that fails is where this ends,
\* as the next run then sets aside what the market holds by then.
THEOREM AsideIsOwn ==
  ASSUME NoneIsNone, "db" \notin May
  PROVE  Spec => []BaselineIsOwn
<1> DEFINE Inv == Sound /\ AsideKept
<1>1. ASSUME Init
      PROVE  Inv
  <2>1. /\ row = [m \in Market |-> [approved |-> FALSE, paused |-> FALSE, base |-> None]]
        /\ book = {} /\ plan.places = {} /\ mem = [m \in Market |-> None]
        /\ wallet = [m \in Market |-> Own]
    BY <1>1 DEF Init, NoPlan
  <2>2. Own \in [Role -> Nat]
    BY ConstantsAssumption
  <2>3. AsideKept
    BY <2>1, <2>2 DEF AsideKept, Account, OnFile, OwnAside, OrdersFollow, Farmed
  <2> QED
    BY <1>1, <2>3, SoundAtFirst
<1>2. ASSUME Inv, [Next]_vars
      PROVE  Inv'
  <2>1. Sound'
    BY <1>2, SoundStays
  <2>2. CASE UNCHANGED vars
    BY <1>2, <2>1, <2>2 DEF vars, db, exchange, memory, AsideKept, Account, OnFile, OwnAside,
                       OrdersFollow, Farmed
  <2>3. CASE Still
    BY <1>2, <2>1, <2>3, StillKeepsAside
  <2>4. CASE RefreshPositions
    BY <1>2, <2>1, <2>4, ReadsKeepAside
  <2>5. CASE Turns
    BY <1>2, <2>1, <2>5, TurnsKeepAside
  <2>6. \A m \in Market : ~HalfReads(m)
    BY HalfReadIs
  <2> QED
    BY <1>2, <2>2, <2>3, <2>4, <2>5, <2>6, NextIs
<1>3. Inv => BaselineIsOwn
  BY DEF AsideKept, OnFile, OwnAside, BaselineIsOwn
<1> HIDE DEF Inv
<1> QED
  BY <1>1, <1>2, <1>3, PTL DEF Spec

-----------------------------------------------------------------------------
(* The state is what the declarations say                                  *)

\* No run places an order before it has started.
TypeInv == TypeOK /\ (Up => run \in 1..MaxRuns)

LEMMA MinOfTwo ==
  ASSUME NEW a \in Int, NEW b \in Int
  PROVE  Min({a, b}) \in {a, b} /\ Min({a, b}) <= a /\ Min({a, b}) <= b
<1>1. \E x \in {a, b} : \A y \in {a, b} : x <= y
  <2>1. CASE a <= b
    BY <2>1
  <2>2. CASE ~(a <= b)
    BY <2>2
  <2> QED
    BY <2>1, <2>2
<1> QED
  BY <1>1 DEF Min

LEMMA MaxOfTwo ==
  ASSUME NEW a \in Int, NEW b \in Int
  PROVE  Max({a, b}) \in {a, b} /\ Max({a, b}) >= a /\ Max({a, b}) >= b
<1>1. \E x \in {a, b} : \A y \in {a, b} : x >= y
  <2>1. CASE a >= b
    BY <2>1
  <2>2. CASE ~(a >= b)
    BY <2>2
  <2> QED
    BY <2>1, <2>2
<1> QED
  BY <1>1 DEF Max

\* What was decided of a row keeps it a row.
LEMMA RowsTyped ==
  ASSUME TypeOK, Next, \A m \in Market : Farmed(m) => Positioned(m).base \in {None} \cup Shares
  PROVE  row' \in [Market -> Row]
<1>1. row \in [Market -> Row]
  BY DEF TypeOK
<1>2. ASSUME NEW m \in Market, NEW r \in Row, NEW approved \in BOOLEAN, NEW paused \in BOOLEAN
      PROVE  [r EXCEPT !.approved = approved] \in Row /\ [r EXCEPT !.paused = paused] \in Row
  BY DEF Row
<1>3. CASE Console
  <2>1. ASSUME NEW m \in Market, NEW paused \in BOOLEAN, Approve(m, paused)
        PROVE  row' \in [Market -> Row]
    <3> DEFINE both == row[m].paused \/ paused
    <3>1. row' = [row EXCEPT ![m] = [row[m] EXCEPT !.approved = TRUE, !.paused = both]]
      BY <1>1, <2>1 DEF Approve
    <3>2. both \in BOOLEAN
      OBVIOUS
    <3> HIDE DEF both
    <3>3. [row[m] EXCEPT !.approved = TRUE, !.paused = both] \in Row
      BY <1>1, <3>2 DEF Row
    <3> QED
      BY <1>1, <3>1, <3>3
  <2>2. ASSUME NEW m \in Market, NEW paused \in BOOLEAN, SetPaused(m, paused)
        PROVE  row' \in [Market -> Row]
    BY <1>1, <2>2 DEF SetPaused, Row
  <2>3. ASSUME NEW m \in Market, Unapprove(m)
        PROVE  row' \in [Market -> Row]
    BY <1>1, <2>3 DEF Unapprove, Row
  <2>4. ASSUME CancelAll
        PROVE  row' \in [Market -> Row]
    <3>1. ASSUME NEW m \in Market
          PROVE  row'[m] \in Row
      <4> DEFINE paused == row[m].paused \/ row[m].approved
      <4>1. row'[m] = [row[m] EXCEPT !.paused = paused] /\ paused \in BOOLEAN
        BY <2>4 DEF CancelAll
      <4> HIDE DEF paused
      <4> QED
        BY <1>1, <4>1 DEF Row
    <3> QED
      BY <2>4, <3>1 DEF CancelAll
  <2>5. CASE \E kind, keep, m : SendCommand(kind, keep, m)
    BY <1>1, <2>5 DEF SendCommand
  <2> QED
    BY <1>3, <2>1, <2>2, <2>3, <2>4, <2>5 DEF Console
<1>4. CASE RefreshPositions \/ \E m \in Market : HalfReads(m)
  <2>1. row' = [m \in Market |-> row'[m]]
    BY <1>4, HalfReadIs DEF RefreshPositions, Reads
  <2>2. ASSUME NEW m \in Market
        PROVE  row'[m] = row[m] \/ (Farmed(m) /\ row'[m] = Saved(m))
    BY <1>4, HalfReadIs DEF RefreshPositions, Reads, ActiveMarkets, Active
  <2>3. ASSUME NEW m \in Market, Farmed(m)
        PROVE  Saved(m) \in Row
    <3> DEFINE base == Positioned(m).base
    <3>1. base \in {None} \cup Shares
      BY <2>3
    <3>2. Saved(m) = row[m] \/ Saved(m) = [row[m] EXCEPT !.base = base]
      BY DEF Saved
    <3> HIDE DEF base
    <3> QED
      BY <1>1, <3>1, <3>2 DEF Row
  <2> QED
    BY <1>1, <2>1, <2>2, <2>3
<1>5. CASE Settle
  <2>1. PICK failed \in SUBSET plan.retires :
          row' = [m \in Market |-> [row[m] EXCEPT !.approved = @ /\ m \notin plan.retires \ failed]]
    BY <1>5 DEF Settle
  <2>2. ASSUME NEW m \in Market
        PROVE  row'[m] \in Row
    <3> DEFINE approved == row[m].approved /\ m \notin plan.retires \ failed
    <3>1. row'[m] = [row[m] EXCEPT !.approved = approved] /\ approved \in BOOLEAN
      BY <2>1
    <3> HIDE DEF approved
    <3> QED
      BY <1>1, <3>1 DEF Row
  <2> QED
    BY <2>1, <2>2
<1>6. CASE UNCHANGED row
  BY <1>1, <1>6
<1>7. UNCHANGED row \/ Console \/ RefreshPositions \/ (\E m \in Market : HalfReads(m)) \/ Settle
  BY DEF Next, Farmer, Cycle, Faults, Fill, NakedCooldownEnds, Start, ShutsDown, ReadCommands,
         Consume, Reload, KeepPositions, PlanSome, PlanMarkets, ListingFails, CancelPlanned,
         PostPlanned, StatementFails, ConsumeFails, Interrupt, Dies, db, ToPlan, HalfReads
<1> QED
  BY <1>3, <1>4, <1>5, <1>6, <1>7

LEMMA CommandsTyped ==
  ASSUME TypeOK, Next
  PROVE  /\ commands' \subseteq Command /\ batch' \subseteq Command
         /\ sent' \in 0..MaxCommands /\ ended' \subseteq 1..MaxCommands
<1> USE DEF TypeOK
<1>1. CASE Console
  <2>1. ASSUME NEW kind \in {"stop", "end_cooldown"}, NEW keep \in BOOLEAN,
               NEW m \in Market \cup {None}, SendCommand(kind, keep, m)
        PROVE  sent' \in 0..MaxCommands /\ commands' \subseteq Command
    <3>1. sent' \in 1..MaxCommands /\ run \in 0..MaxRuns
      BY <2>1, ConstantsAssumption DEF SendCommand
    <3>2. [id |-> sent', kind |-> kind, keep |-> keep, market |-> m, at |-> run] \in Command
      BY <3>1 DEF Command
    <3> QED
      BY <2>1, <3>1, <3>2 DEF SendCommand
  <2> QED
    BY <1>1, <2>1 DEF Console, memory
<1>2. ASSUME NEW c \in batch, Obeyed(c)
      PROVE  ended' \subseteq 1..MaxCommands
  BY <1>2 DEF Obeyed, Command
<1>3. CASE Consume
  BY <1>2, <1>3 DEF Consume
<1>4. CASE ConsumeFails
  BY <1>2, <1>4 DEF ConsumeFails, db, Raises
<1>5. CASE Start
  BY <1>5 DEF Start, Expired, memory
<1>6. CASE ReadCommands
  BY <1>6 DEF ReadCommands, db
<1>7. \/ Console \/ Consume \/ ConsumeFails \/ Start \/ ReadCommands
      \/ UNCHANGED <<commands, sent, ended>> /\ (batch' = batch \/ batch' = {})
  BY DEF Next, Farmer, Cycle, Faults, Fill, NakedCooldownEnds, ShutsDown, Reload, ToPlan,
         RefreshPositions, KeepPositions, PlanSome, PlanMarkets, ListingFails, CancelPlanned,
         PostPlanned, Settle, StatementFails, SaveFails, FillMidFails, Interrupt, Dies, Raises,
         MemoryLost, db, memory
<1> QED
  BY <1>1, <1>3, <1>4, <1>5, <1>6, <1>7

LEMMA ControlTyped ==
  ASSUME TypeInv, Next
  PROVE  /\ pc' \in Ended \cup Cycling \cup {"shutdown"}
         /\ run' \in 0..MaxRuns /\ starting' \in BOOLEAN /\ stop' \in {"no", "cancel", "keep"}
         /\ Up' => run' \in 1..MaxRuns
<1> USE ConstantsAssumption DEF TypeInv, TypeOK, Up, Ended, Cycling
<1>1. CASE Start
  BY <1>1 DEF Start
<1>2. CASE Console \/ (\E o \in book : Fill(o)) \/ (\E m \in Market : NakedCooldownEnds(m))
  BY <1>2 DEF Console, Fill, NakedCooldownEnds, process
<1>3. CASE ReadCommands \/ Reload \/ RefreshPositions \/ KeepPositions
  BY <1>3 DEF ReadCommands, Reload, RefreshPositions, KeepPositions, ToPlan, process
<1>4. CASE Consume
  BY <1>4 DEF Consume, StopReason
<1>5. CASE PlanSome \/ ListingFails \/ CancelPlanned \/ PostPlanned \/ Settle
  BY <1>5 DEF PlanSome, PlanMarkets, ListingFails, CancelPlanned, PostPlanned, Settle, Does,
              Stage, process
<1>6. CASE StatementFails \/ ConsumeFails \/ \E m \in Market : HalfReads(m)
  <2>1. \A m \in Market : HalfReads(m) => pc = "positions" /\ Raises(stop)
    BY HalfReadIs
  <2>2. ASSUME NEW c, Raises(StopReason(c)), pc = "commands"
        PROVE  /\ pc' \in {"shutdown", "read"} /\ run' = run /\ starting' = starting
               /\ stop' \in {"no", "cancel", "keep"}
    BY <2>2 DEF Raises, StopReason
  <2>3. CASE ConsumeFails
    BY <2>2, <2>3 DEF ConsumeFails
  <2>4. CASE StatementFails \/ \E m \in Market : HalfReads(m)
    BY <2>1, <2>4 DEF StatementFails, Raises
  <2> QED
    BY <1>6, <2>3, <2>4
<1>7. CASE ShutsDown \/ Interrupt \/ Dies
  BY <1>7 DEF ShutsDown, Interrupt, Dies, process
<1> QED
  BY <1>1, <1>2, <1>3, <1>4, <1>5, <1>6, <1>7 DEF Next, Farmer, Cycle, Faults, HalfReads

\* A market read is a market still, what it sets aside and what the farm holds being shares.
LEMMA PositionedTyped ==
  ASSUME TypeOK, NEW m \in Market, Farmed(m)
  PROVE  Positioned(m) \in Managed /\ Positioned(m).base \in Shares
<1> DEFINE base == RatchetBaseline(mem[m].base, wallet[m])
           position == FarmPosition(wallet[m], base)
           before == mem[m].position
           longFilled == before # None /\ "LONG" \in Role /\ position["LONG"] > before["LONG"]
           naked == mem[m].naked /\ ~longFilled
<1>1. /\ mem[m] \in Managed /\ wallet[m] \in Shares
      /\ MaxShares \in Nat
  BY ConstantsAssumption DEF TypeOK, Farmed
<1>2. base \in Shares
  <2>1. CASE mem[m].base = None
    BY <1>1, <2>1 DEF RatchetBaseline
  <2>2. CASE mem[m].base # None
    <3> DEFINE held == wallet[m]
               was == mem[m].base
    <3>1. was \in [Role -> 0..MaxShares] /\ held \in [Role -> 0..MaxShares]
      BY <1>1, <2>2 DEF Managed, Shares
    <3>2. base = [r \in Role |-> IF held[r] < was[r] THEN held[r] ELSE was[r]]
      BY <2>2 DEF RatchetBaseline
    <3> HIDE DEF held, was, base
    <3> QED
      BY <3>1, <3>2 DEF Shares
  <2> QED
    BY <2>1, <2>2
<1>3. position \in Shares
  <2>1. ASSUME NEW r \in Role
        PROVE  Max({0, wallet[m][r] - base[r]}) \in 0..MaxShares
    <3>1. wallet[m][r] \in 0..MaxShares /\ base[r] \in 0..MaxShares
      BY <1>1, <1>2 DEF Shares
    <3> DEFINE left == wallet[m][r] - base[r]
    <3>2. left \in Int /\ left <= MaxShares
      BY <1>1, <3>1
    <3> HIDE DEF left
    <3>3. Max({0, left}) \in {0, left} /\ Max({0, left}) >= 0
      BY <3>2, MaxOfTwo
    <3>4. Max({0, left}) \in 0..MaxShares
      BY <1>1, <3>2, <3>3
    <3> QED
      BY <3>4 DEF left
  <2> QED
    BY <2>1 DEF FarmPosition, Shares
<1>4. naked \in BOOLEAN
  BY <1>1 DEF Managed
<1>5. Positioned(m) = [mem[m] EXCEPT !.base = base, !.position = position, !.naked = naked]
  BY DEF Positioned
<1> HIDE DEF base, position, naked
<1> QED
  BY <1>1, <1>2, <1>3, <1>4, <1>5 DEF Managed

LEMMA ReloadedTyped ==
  ASSUME TypeOK, NEW m \in Market, NEW known \in BOOLEAN
  PROVE  Reloaded(m, known) \in {None} \cup Managed
<1> DEFINE was == mem[m]
           approved == row[m].approved
           paused == IF known THEN row[m].paused ELSE was.paused
<1>1. row[m] \in Row /\ (Farmed(m) => was \in Managed)
  BY DEF TypeOK, Farmed
<1>2. NewManaged(row[m]) \in Managed
  BY <1>1 DEF NewManaged, Managed, Row, Phase
<1>3. Farmed(m) => /\ [was EXCEPT !.approved = TRUE, !.paused = paused] \in Managed
                   /\ [was EXCEPT !.approved = approved] \in Managed
  <2>1. approved \in BOOLEAN /\ (Farmed(m) => paused \in BOOLEAN)
    BY <1>1 DEF Row, Managed
  <2> HIDE DEF was, approved, paused
  <2> QED
    BY <1>1, <2>1 DEF Managed
<1>4. \/ Reloaded(m, known) \in {None, NewManaged(row[m])}
      \/ /\ Farmed(m)
         /\ Reloaded(m, known) \in {[was EXCEPT !.approved = TRUE, !.paused = paused],
                                    [was EXCEPT !.approved = approved]}
  BY DEF Reloaded
<1> QED
  BY <1>2, <1>3, <1>4

\* Whatever a cycle observes, some rule applies.
LEMMA StepStateIsAPhase ==
  ASSUME NEW k, k.phase \in Phase, NEW obs
  PROVE  StepState(k, obs) \in Phase
<1> DEFINE sole == obs.sole /\ k.naked
           was == IF k.phase \in {"PAUSED", "UNREWARDED"} THEN "QUOTING" ELSE k.phase
           rules == << <<obs.decided \/ ~k.approved, "RETIRED">>,
                       <<~obs.rewarded, "UNREWARDED">>,
                       <<k.paused, "PAUSED">>,
                       <<obs.mid = "none" /\ ~sole, IF was = "SOLE_BID" THEN "QUOTING" ELSE was>>,
                       <<obs.drop, "COOLDOWN">>,
                       <<was = "COOLDOWN" /\ ~obs.over, was>>,
                       <<sole, "SOLE_BID">>,
                       <<obs.mid = "low", "BELOW_RANGE">>,
                       <<was = "BELOW_RANGE" /\ obs.mid = "near", was>>,
                       <<TRUE, "QUOTING">> >>
           apply == {n \in DOMAIN rules : rules[n][1]}
<1>1. was \in Phase
  BY DEF Phase
<1>2. DOMAIN rules = 1..10 /\ rules[10][1]
  OBVIOUS
<1>3. \A n \in 1..10 : rules[n][2] \in Phase
  <2> HIDE DEF sole, was
  <2> QED
    BY <1>1 DEF Phase
<1>4. StepState(k, obs) = rules[Min(apply)][2]
  BY DEF StepState
<1> HIDE DEF rules
<1>5. apply \subseteq 1..10 /\ 10 \in apply
  BY <1>2
<1> HIDE DEF apply
<1>6. \E x \in apply : \A y \in apply : x <= y
  <2> DEFINE First(n) == n \in apply /\ \A y \in apply : n <= y
  <2>1. \A y \in apply : y \in {1, 2, 3, 4, 5, 6, 7, 8, 9, 10}
    BY <1>5
  <2>2. CASE 1 \in apply \/ 2 \in apply \/ 3 \in apply
    <3>1. First(1) \/ First(2) \/ First(3)
      BY <2>1, <2>2
    <3> QED
      BY <3>1
  <2>3. CASE 1 \notin apply /\ 2 \notin apply /\ 3 \notin apply
             /\ (4 \in apply \/ 5 \in apply \/ 6 \in apply)
    <3>1. First(4) \/ First(5) \/ First(6)
      BY <2>1, <2>3
    <3> QED
      BY <3>1
  <2>4. CASE \A n \in 1..6 : n \notin apply
    <3>1. First(7) \/ First(8) \/ First(9) \/ First(10)
      BY <1>5, <2>1, <2>4
    <3> QED
      BY <3>1
  <2> QED
    <3>1. 1 \in apply \/ 2 \in apply \/ 3 \in apply \/ 4 \in apply \/ 5 \in apply \/ 6 \in apply
          \/ \A n \in 1..6 : n \notin apply
      BY <2>1
    <3> QED
      BY <2>2, <2>3, <2>4, <3>1
<1>7. Min(apply) \in 1..10
  BY <1>5, <1>6 DEF Min
<1> QED
  BY <1>3, <1>4, <1>7

LEMMA NextPhasesArePhases ==
  ASSUME TypeOK, NEW m \in Market, Farmed(m)
  PROVE  NextPhases(m) \subseteq Phase
<1> DEFINE k == [phase |-> mem[m].phase, approved |-> mem[m].approved,
                 paused |-> mem[m].paused, naked |-> mem[m].naked]
           States == [phase : Phase, approved : BOOLEAN, paused : BOOLEAN, naked : BOOLEAN]
<1>1. mem[m] \in Managed
  BY DEF TypeOK, Farmed
<1>2. k \in States /\ k.phase \in Phase
  BY <1>1 DEF Managed
<1>3. NextPhases(m) = {StepState(k, obs) : obs \in Observation}
  BY <1>2 DEF NextPhases, Steps
<1> HIDE DEF k
<1> QED
  BY <1>2, <1>3, StepStateIsAPhase

LEMMA RoomIsANumber ==
  ASSUME NEW m, NEW r \in Role, mem[m].position \in Shares
  PROVE  RoomLeft(m, r) \in Int
<1>1. Room[r] \in Int
  BY ConstantsAssumption
<1>2. mem[m].position[r] \in Int
  BY DEF Shares
<1> DEFINE left == Room[r] - mem[m].position[r]
<1>3. 0 \in Int /\ left \in Int
  BY <1>1, <1>2
<1> HIDE DEF left
<1>4. Max({0, left}) \in {0, left} /\ Max({0, left}) >= 0 /\ Max({0, left}) >= left
  BY <1>3, MaxOfTwo
<1>5. Max({0, left}) \in Int
  BY <1>3, <1>4
<1> QED
  BY <1>1, <1>5 DEF RoomLeft, left

LEMMA PlansTyped ==
  ASSUME TypeOK, NEW m \in Positions, NEW p \in MarketPlans(m)
  PROVE  /\ p.phase \in Phase
         /\ p.does.cancels \subseteq 1..MaxOrders /\ p.does.places \subseteq Place
<1>1. PICK phase \in NextPhases(m) : \E target \in Targets(m, phase) :
        \E kept \in Kept(m, target) : p = [phase |-> phase, does |-> Reconcile(m, target, kept)]
  BY DEF MarketPlans
<1>2. PICK target \in Targets(m, phase) :
        \E kept \in Kept(m, target) : p = [phase |-> phase, does |-> Reconcile(m, target, kept)]
  BY <1>1
<1>3. PICK kept \in Kept(m, target) : p = [phase |-> phase, does |-> Reconcile(m, target, kept)]
  BY <1>2
<1>4. m \in Market /\ Farmed(m) /\ mem[m] \in Managed /\ mem[m].position \in Shares
  BY DEF Positions, ActiveMarkets, Active, TypeOK, Farmed, Managed
<1>5. phase \in Phase
  BY <1>4, NextPhasesArePhases
<1>6. PICK slots \in SUBSET Rests(m, phase) :
        target \in {t \in [slots -> 0..MaxShares] : \A s \in slots : t[s] \in Sizes(m, s)}
  BY DEF Targets
<1>7. ASSUME NEW s \in DOMAIN target
      PROVE  s \in Slot /\ target[s] \in 1..MaxShares
  <2>1. s \in Rests(m, phase) /\ target[s] \in 0..MaxShares /\ target[s] \in Sizes(m, s)
    BY <1>6
  <2>2. s \in Slot /\ s[1] \in Role
    BY <2>1 DEF Rests, Slot
  <2>3. CASE s \in Bids
    <3>4. RoomLeft(m, s[1]) \in Int
      BY <1>4, <2>2, RoomIsANumber
    <3>5. target[s] \in 1..RoomLeft(m, s[1])
      BY <2>1, <2>3 DEF Sizes
    <3> DEFINE size == target[s]
               top == RoomLeft(m, s[1])
    <3>6. size \in 1..top /\ top \in Int /\ size \in 0..MaxShares
      BY <2>1, <3>4, <3>5
    <3>7. MaxShares \in Int
      BY ConstantsAssumption
    <3> HIDE DEF size, top
    <3>8. size \in 1..MaxShares
      BY <3>6, <3>7
    <3> QED
      BY <2>2, <3>8 DEF size
  <2>4. CASE s \notin Bids
    <3>1. target[s] = mem[m].position[s[1]] /\ mem[m].position[s[1]] > 0
      BY <2>1, <2>4 DEF Sizes, Rests
    <3> QED
      BY <2>1, <2>2, <3>1, ConstantsAssumption
  <2> QED
    BY <2>3, <2>4
<1> DEFINE cancels == {o.id : o \in OrdersOf(m) \ kept}
           places == {[market |-> m, slot |-> s, size |-> target[s]] :
                        s \in DOMAIN target \ {o.slot : o \in kept}}
<1>8. p.phase = phase /\ p.does.cancels = cancels /\ p.does.places = places
  BY <1>3 DEF Reconcile
<1>9. cancels \subseteq 1..MaxOrders
  BY DEF OrdersOf, TypeOK, Order
<1>10. places \subseteq Place
  BY <1>4, <1>7 DEF Place
<1> HIDE DEF cancels, places
<1> QED
  BY <1>5, <1>8, <1>9, <1>10

\* What PlanSome plans, and the phases it leaves.
LEMMA PlanSomeTyped ==
  ASSUME TypeOK, PlanSome
  PROVE  /\ mem' \in [Market -> {None} \cup Managed]
         /\ plan'.cancels \subseteq 1..MaxOrders /\ plan'.places \subseteq Place
         /\ plan'.retires \subseteq Market
<1>1. PICK planned \in SUBSET Positions : PlanMarkets(planned)
  BY DEF PlanSome
<1>2. PICK plans \in Plans(planned) :
        /\ mem' = [m \in Market |-> IF m \in planned
                                   THEN [mem[m] EXCEPT !.phase = plans[m].phase] ELSE mem[m]]
        /\ plan' = [cancels |-> UNION {plans[m].does.cancels : m \in planned},
                    places |-> UNION {plans[m].does.places : m \in planned},
                    retires |-> {m \in planned : plans[m].phase = "RETIRED"}]
  BY <1>1 DEF PlanMarkets
<1>3. ASSUME NEW m \in planned
      PROVE  /\ m \in Market /\ mem[m] \in Managed /\ plans[m].phase \in Phase
             /\ plans[m].does.cancels \subseteq 1..MaxOrders
             /\ plans[m].does.places \subseteq Place
  <2>1. plans[m] \in MarketPlans(m)
    BY <1>2 DEF Plans
  <2> QED
    BY <2>1, PlansTyped DEF Positions, ActiveMarkets, Active, TypeOK, Farmed
<1>4. ASSUME NEW m \in planned
      PROVE  [mem[m] EXCEPT !.phase = plans[m].phase] \in Managed
  <2> DEFINE phase == plans[m].phase
  <2>1. phase \in Phase /\ mem[m] \in Managed
    BY <1>3
  <2> HIDE DEF phase
  <2>2. [mem[m] EXCEPT !.phase = phase] \in Managed
    BY <2>1 DEF Managed
  <2> QED
    BY <2>2 DEF phase
<1>5. mem' \in [Market -> {None} \cup Managed]
  <2>1. \A m \in Market : mem'[m] \in {None} \cup Managed
    BY <1>2, <1>4 DEF TypeOK
  <2> QED
    BY <1>2, <2>1
<1>6. planned \subseteq Market
  BY <1>3
<1> QED
  BY <1>2, <1>3, <1>5, <1>6

LEMMA MemoryTyped ==
  ASSUME TypeOK, Next
  PROVE  mem' \in [Market -> {None} \cup Managed]
<1>1. mem \in [Market -> {None} \cup Managed]
  BY DEF TypeOK
<1>2. ASSUME NEW c, Obeyed(c), c \in Command
      PROVE  mem' \in [Market -> {None} \cup Managed]
  <2>1. CASE mem' = mem
    BY <1>1, <2>1
  <2>2. CASE CoolingDown(c.market) /\ mem' = [mem EXCEPT ![c.market].phase = "QUOTING"]
    <3> DEFINE next == [mem[c.market] EXCEPT !.phase = "QUOTING"]
    <3>1. c.market \in Market /\ mem[c.market] \in Managed
      BY <1>1, <1>2, <2>2 DEF CoolingDown, Command, Farmed
    <3>2. next \in Managed
      BY <3>1 DEF Managed, Phase
    <3>3. mem' = [mem EXCEPT ![c.market] = next]
      BY <2>2
    <3> HIDE DEF next
    <3> QED
      BY <1>1, <3>1, <3>2, <3>3
  <2> QED
    BY <1>2, <2>1, <2>2 DEF Obeyed
<1>3. CASE Consume \/ ConsumeFails
  BY <1>2, <1>3 DEF Consume, ConsumeFails, TypeOK
<1>4. ASSUME NEW m \in Market, NakedCooldownEnds(m)
      PROVE  mem' \in [Market -> {None} \cup Managed]
  <2> DEFINE next == [mem[m] EXCEPT !.naked = TRUE]
  <2>1. mem[m] \in Managed
    BY <1>1, <1>4 DEF NakedCooldownEnds, Farmed
  <2>2. next \in Managed
    BY <2>1 DEF Managed
  <2>3. mem' = [mem EXCEPT ![m] = next]
    BY <1>4 DEF NakedCooldownEnds
  <2> HIDE DEF next
  <2> QED
    BY <1>1, <2>2, <2>3
<1>5. CASE Reload
  <2>1. PICK known \in SUBSET Market : mem' = [m \in Market |-> Reloaded(m, m \in known)]
    BY <1>5 DEF Reload
  <2>2. ASSUME NEW m \in Market
        PROVE  mem'[m] \in {None} \cup Managed
    <3> DEFINE here == m \in known
    <3>1. here \in BOOLEAN /\ mem'[m] = Reloaded(m, here)
      BY <2>1
    <3> HIDE DEF here
    <3> QED
      BY <3>1, ReloadedTyped
  <2> QED
    BY <2>1, <2>2
<1>6. CASE RefreshPositions
  <2>1. mem' = [m \in Market |-> IF m \in ActiveMarkets THEN Positioned(m) ELSE mem[m]]
    BY <1>6 DEF RefreshPositions, Reads
  <2>2. \A m \in ActiveMarkets : Positioned(m) \in Managed
    BY PositionedTyped DEF ActiveMarkets, Active
  <2> QED
    BY <1>1, <2>1, <2>2
<1>7. ASSUME NEW m \in Market, HalfReads(m)
      PROVE  mem' \in [Market -> {None} \cup Managed]
  <2>1. PICK done \in SUBSET (ActiveMarkets \ {m}), half \in Halves(m) :
          mem' = [n \in Market |-> IF n \in done THEN Positioned(n)
                                  ELSE IF n = m THEN half ELSE mem[n]]
    BY <1>7, HalfReadIs
  <2>2. \A n \in done : Positioned(n) \in Managed
    BY PositionedTyped DEF ActiveMarkets, Active
  <2>3. half \in Managed
    <3> DEFINE read == Positioned(m)
               base == read.base
    <3>1. base \in Shares /\ read \in Managed /\ mem[m] \in Managed
      BY <1>1, <1>7, HalfReadIs, PositionedTyped DEF Active, Farmed
    <3>2. half = [mem[m] EXCEPT !.base = base] \/ half = [read EXCEPT !.naked = mem[m].naked]
      BY DEF Halves
    <3> HIDE DEF base, read
    <3> QED
      BY <3>1, <3>2 DEF Managed
  <2> QED
    BY <1>1, <2>1, <2>2, <2>3
<1>8. CASE PlanSome
  BY <1>8, PlanSomeTyped
<1>9. CASE ShutsDown \/ Dies
  BY <1>9 DEF ShutsDown, Dies, MemoryLost
<1>10. CASE UNCHANGED mem
  BY <1>1, <1>10
<1>11. \/ Consume \/ ConsumeFails \/ Reload \/ RefreshPositions \/ PlanSome \/ ShutsDown \/ Dies
       \/ (\E m \in Market : NakedCooldownEnds(m) \/ HalfReads(m)) \/ UNCHANGED mem
  BY DEF Next, Farmer, Cycle, Faults, Console, Fill, Start, ReadCommands, KeepPositions,
         ListingFails, CancelPlanned, PostPlanned, Settle, StatementFails, Interrupt, memory,
         HalfReads
<1> QED
  BY <1>3, <1>4, <1>5, <1>6, <1>7, <1>8, <1>9, <1>10, <1>11

LEMMA WalletTyped ==
  ASSUME TypeOK, Next
  PROVE  wallet' \in [Market -> Shares]
<1>1. wallet \in [Market -> Shares] /\ book \subseteq Order
  BY DEF TypeOK
<1>2. ASSUME NEW o \in book, Fill(o)
      PROVE  wallet' \in [Market -> Shares]
  <2> DEFINE role == o.slot[1]
             held == wallet[o.market][role] + (IF o.slot[2] = "BUY" THEN 1 ELSE -1)
  <2>1. held \in 0..MaxShares /\ wallet' = [wallet EXCEPT ![o.market][role] = held]
    BY <1>2 DEF Fill
  <2> HIDE DEF held
  <2>2. o.market \in Market
    BY <1>1 DEF Order
  <2>3. wallet' = [wallet EXCEPT ![o.market] = [wallet[o.market] EXCEPT ![role] = held]]
    BY <2>1
  <2> HIDE DEF role
  <2>4. [wallet[o.market] EXCEPT ![role] = held] \in Shares
    BY <1>1, <2>1, <2>2 DEF Shares
  <2> QED
    BY <1>1, <2>3, <2>4
<1>3. (\E o \in book : Fill(o)) \/ UNCHANGED wallet
  BY DEF Next, Farmer, Cycle, Faults, Console, NakedCooldownEnds, Start, ReadCommands, Consume,
         Reload, RefreshPositions, KeepPositions, ToPlan, PlanSome, PlanMarkets, ListingFails,
         CancelPlanned, PostPlanned, Settle, ShutsDown, StatementFails, ConsumeFails, SaveFails,
         FillMidFails, Interrupt, Dies, exchange
<1> QED
  BY <1>1, <1>2, <1>3

LEMMA BookTyped ==
  ASSUME TypeInv, Next
  PROVE  book' \subseteq Order
<1>1. book \subseteq Order /\ plan.places \subseteq Place /\ wallet \in [Market -> Shares]
  BY DEF TypeInv, TypeOK
<1>2. ASSUME NEW o \in book, Fill(o)
      PROVE  book' \subseteq Order
  <2>1. CASE o.size = 1
    BY <1>1, <1>2, <2>1 DEF Fill, Without
  <2>2. CASE o.size # 1
    <3> DEFINE less == [o EXCEPT !.size = @ - 1]
               size == o.size - 1
    <3>1. book' = (book \ {o}) \cup {less}
      BY <1>2, <2>2 DEF Fill
    <3>2. o \in Order /\ size \in 1..MaxShares
      BY <1>1, <2>2, ConstantsAssumption DEF Order
    <3>3. less = [o EXCEPT !.size = size]
      OBVIOUS
    <3> HIDE DEF size, less
    <3>4. less \in Order
      BY <3>2, <3>3 DEF Order
    <3> QED
      BY <1>1, <3>1, <3>4
  <2> QED
    BY <2>1, <2>2
<1>3. CASE PostPlanned
  <2>1. PICK taken \in SUBSET ToPost :
          /\ Injection(taken, FreeIds) # {}
          /\ LET ids == CHOOSE f \in Injection(taken, FreeIds) : TRUE
             IN book' = book \cup {[id |-> ids[p], market |-> p.market, slot |-> p.slot,
                                    size |-> Sellable(p), by |-> run] : p \in taken}
    BY <1>3 DEF PostPlanned
  <2> DEFINE ids == CHOOSE f \in Injection(taken, FreeIds) : TRUE
  <2>2. ids \in [taken -> FreeIds]
    BY <2>1 DEF Injection
  <2>3. book' = book \cup {[id |-> ids[p], market |-> p.market, slot |-> p.slot,
                            size |-> Sellable(p), by |-> run] : p \in taken}
    BY <2>1
  <2> HIDE DEF ids
  <2>4. run \in 1..MaxRuns
    BY <1>3 DEF TypeInv, PostPlanned, Up, Ended
  <2>5. ASSUME NEW p \in taken
        PROVE  [id |-> ids[p], market |-> p.market, slot |-> p.slot, size |-> Sellable(p),
                by |-> run] \in Order
    <3>1. p \in Place /\ Sellable(p) > 0
      BY <1>1 DEF ToPost
    <3>2. p.market \in Market /\ p.slot \in Slot /\ p.size \in 1..MaxShares /\ p.slot[1] \in Role
      BY <3>1 DEF Place, Slot
    <3> DEFINE held == wallet[p.market][p.slot[1]]
               size == p.size
    <3>3. size \in Int /\ size <= MaxShares /\ held \in Int
      BY <1>1, <3>2 DEF Shares
    <3> HIDE DEF size, held
    <3>4. Min({size, held}) \in {size, held} /\ Min({size, held}) <= size /\ Min({size, held}) <= held
      BY <3>3, MinOfTwo
    <3>5. MaxShares \in Int /\ Sellable(p) \in {size, Min({size, held})}
      BY ConstantsAssumption DEF Sellable, size, held
    <3>6. Sellable(p) \in 1..MaxShares
      BY <3>1, <3>3, <3>4, <3>5
    <3>7. ids[p] \in 1..MaxOrders
      BY <2>2 DEF FreeIds
    <3> QED
      BY <2>4, <3>2, <3>6, <3>7 DEF Order
  <2> QED
    BY <1>1, <2>3, <2>5
<1>4. ASSUME NEW orders, Cancelled(orders)
      PROVE  book' \subseteq book
  BY <1>4 DEF Cancelled
<1>5. CASE CancelPlanned \/ ShutsDown
  BY <1>1, <1>4, <1>5 DEF CancelPlanned, ShutsDown
<1>6. (\E o \in book : Fill(o)) \/ PostPlanned \/ CancelPlanned \/ ShutsDown \/ UNCHANGED book
  BY DEF Next, Farmer, Cycle, Faults, Console, NakedCooldownEnds, Start, ReadCommands, Consume,
         Reload, RefreshPositions, KeepPositions, ToPlan, PlanSome, PlanMarkets, ListingFails,
         Settle, StatementFails, ConsumeFails, SaveFails, FillMidFails, Interrupt, Dies, exchange
<1> QED
  BY <1>1, <1>2, <1>3, <1>5, <1>6

LEMMA PlanTyped ==
  ASSUME TypeOK, Sound, Next
  PROVE  /\ plan'.cancels \subseteq 1..MaxOrders /\ plan'.places \subseteq Place
         /\ plan'.retires \subseteq Market
<1> USE DEF TypeOK
<1>1. PICK c, q, r : plan = [cancels |-> c, places |-> q, retires |-> r]
  BY DEF Sound, Shapes, PlanIs
<1>2. CASE PlanSome
  BY <1>2, PlanSomeTyped
<1>3. CASE CancelPlanned
  <2>1. plan' = [cancels |-> {}, places |-> q, retires |-> r]
    BY <1>1, <1>3 DEF CancelPlanned, Does
  <2> QED
    BY <1>1, <2>1
<1>4. CASE PostPlanned
  <2>1. plan' = [cancels |-> c, places |-> {}, retires |-> r]
    BY <1>1, <1>4 DEF PostPlanned, Does
  <2> QED
    BY <1>1, <2>1
<1>5. CASE plan' \in {plan, NoPlan}
  BY <1>5 DEF NoPlan
<1>6. ASSUME Console \/ (\E o \in book : Fill(o)) \/ \E m \in Market : NakedCooldownEnds(m)
      PROVE  plan' = plan
  BY <1>6 DEF Console, Fill, NakedCooldownEnds, memory
<1>7. ASSUME Cycle
      PROVE  PlanSome \/ CancelPlanned \/ PostPlanned \/ plan' \in {plan, NoPlan}
  <2>1. CASE ReadCommands \/ Consume \/ Reload \/ RefreshPositions \/ KeepPositions \/ ListingFails
    BY <2>1 DEF ReadCommands, Consume, Reload, RefreshPositions, KeepPositions, ToPlan,
                ListingFails, memory
  <2>2. CASE Settle
    BY <2>2 DEF Settle, Does
  <2> QED
    BY <1>7, <2>1, <2>2 DEF Cycle
<1>8. ASSUME Start \/ ShutsDown \/ Faults
      PROVE  plan' \in {plan, NoPlan}
  BY <1>8 DEF Start, ShutsDown, Faults, StatementFails, ConsumeFails, SaveFails,
              FillMidFails, Interrupt, Dies, Raises, MemoryLost, memory
<1>9. PlanSome \/ CancelPlanned \/ PostPlanned \/ plan' \in {plan, NoPlan}
  BY <1>6, <1>7, <1>8 DEF Next, Farmer
<1> QED
  BY <1>2, <1>3, <1>4, <1>5, <1>9

LEMMA TypeInvStays ==
  ASSUME TypeInv, Sound, Sound', [Next]_vars
  PROVE  TypeInv'
<1>1. CASE UNCHANGED vars
  BY <1>1 DEF vars, db, exchange, process, memory, TypeInv, TypeOK, Up
<1>2. CASE Next
  <2>1. TypeOK
    BY DEF TypeInv
  <2>2. UniqueIds'
    BY DEF Sound
  <2>3. \A m \in Market : Farmed(m) => Positioned(m).base \in {None} \cup Shares
    BY <2>1, PositionedTyped
  <2>4. row' \in [Market -> Row]
    BY <1>2, <2>1, <2>3, RowsTyped
  <2>5. wallet' \in [Market -> Shares] /\ mem' \in [Market -> {None} \cup Managed]
    BY <1>2, <2>1, WalletTyped, MemoryTyped
  <2>6. book' \subseteq Order
    BY <1>2, BookTyped
  <2>7. /\ commands' \subseteq Command /\ batch' \subseteq Command
        /\ sent' \in 0..MaxCommands /\ ended' \subseteq 1..MaxCommands
    BY <1>2, <2>1, CommandsTyped
  <2>8. /\ plan'.cancels \subseteq 1..MaxOrders /\ plan'.places \subseteq Place
        /\ plan'.retires \subseteq Market
    BY <1>2, <2>1, PlanTyped
  <2>9. /\ pc' \in Ended \cup Cycling \cup {"shutdown"}
        /\ run' \in 0..MaxRuns /\ starting' \in BOOLEAN /\ stop' \in {"no", "cancel", "keep"}
        /\ Up' => run' \in 1..MaxRuns
    BY <1>2, ControlTyped
  <2> QED
    BY <2>2, <2>4, <2>5, <2>6, <2>7, <2>8, <2>9 DEF TypeInv, TypeOK, UniqueIds
<1> QED
  BY <1>1, <1>2

LEMMA TypeInvAtFirst ==
  ASSUME Init
  PROVE  TypeInv
<1> USE ConstantsAssumption
<1>1. /\ row \in [Market -> Row] /\ wallet \in [Market -> Shares]
      /\ mem \in [Market -> {None} \cup Managed]
  BY DEF Init, Row, Shares
<1>2. MaxRuns \in Nat /\ MaxCommands \in Nat
  OBVIOUS
<1>3. sent \in 0..MaxCommands /\ run \in 0..MaxRuns
  BY <1>2 DEF Init
<1>6. starting \in BOOLEAN /\ stop \in {"no", "cancel", "keep"}
  BY Zenon DEF Init
<1>7. pc \in Ended /\ ~Up
  BY DEF Init, Up, Ended
<1>4. /\ commands \subseteq Command /\ batch \subseteq Command /\ ended \subseteq 1..MaxCommands
      /\ book \subseteq Order /\ missed \subseteq {o.id : o \in book}
      /\ \A o, p \in book : o.id = p.id => o = p
  BY DEF Init
<1>5. /\ plan.cancels \subseteq 1..MaxOrders /\ plan.places \subseteq Place
      /\ plan.retires \subseteq Market
  BY DEF Init, NoPlan
<1> QED
  BY <1>1, <1>3, <1>4, <1>5, <1>6, <1>7 DEF TypeInv, TypeOK

\* Whatever raises, fails, stops or dies, the state is what the declarations say, and two
\* orders never rest in one slot of a market unless a cancel of one failed.
THEOREM TheBookIsSound ==
  ASSUME NoneIsNone
  PROVE  Spec => []BookIsSound
<1> DEFINE Inv == Sound /\ TypeInv
<1>1. Init => Inv
  BY SoundAtFirst, TypeInvAtFirst
<1>2. Inv /\ [Next]_vars => Inv'
  BY SoundStays, TypeInvStays
<1>3. Inv => TypeOK
  BY DEF TypeInv
<1>4. Spec => []OneOrderToASlot
  BY OrdersAreTended
<1> HIDE DEF Inv
<1>5. Spec => []TypeOK
  BY <1>1, <1>2, <1>3, PTL DEF Spec
<1> QED
  BY <1>4, <1>5, PTL DEF BookIsSound

-----------------------------------------------------------------------------
(* A command acts on its own run, and once                                 *)

\* What the farmer reads is unconsumed, a run is sent what it reads, an id is of one
\* command, and one that ended a cooldown and was not stamped is read again, and stamped,
\* before a cycle can begin another.
OfThisRun == Up => \A c \in commands : c.at = run
OneById ==
  /\ \A c, d \in commands : c.id = d.id => c = d
  /\ \A c \in commands : c.id <= sent
  /\ \A i \in ended : i <= sent
ReadAreLeft == batch \subseteq commands /\ (batch # {} => pc = "commands")
EndedAreOver ==
  \A c \in commands : c.id \in ended =>
     /\ ~CoolingDown(c.market)
     /\ pc = "commands" => c \in batch
     /\ pc \notin {"positions", "plan", "cancel", "post", "settle"}

CommandsInv == TypeInv /\ Sound /\ OfThisRun /\ OneById /\ ReadAreLeft /\ EndedAreOver

\* A market not planned keeps the phase it had, or is taken on afresh: it is not one that
\* begins a cooldown.
LEMMA ObeyedPhases ==
  ASSUME TypeOK, NoneIsNone, NEW c \in Command, Obeyed(c)
  PROVE  /\ \A m \in Market : CoolingDown(m)' => CoolingDown(m)
         /\ c.kind = "end_cooldown" => ~CoolingDown(c.market)'
         /\ \A m \in Market : mem'[m] # mem[m] =>
              m = c.market /\ c.kind = "end_cooldown" /\ CoolingDown(m)
         /\ \A i \in ended' : i \in ended \/ (i = c.id /\ c.kind = "end_cooldown")
<1>1. CASE c.kind = "end_cooldown" /\ CoolingDown(c.market)
  <2>1. c.market \in Market
    BY <1>1 DEF CoolingDown, Command
  <2> DEFINE next == [mem[c.market] EXCEPT !.phase = "QUOTING"]
  <2>2. mem' = [mem EXCEPT ![c.market] = next] /\ ended' = ended \cup {c.id}
    BY <1>1 DEF Obeyed
  <2>3. mem[c.market] \in Managed
    BY <2>1, <1>1 DEF CoolingDown, TypeOK, Farmed
  <2>4. next.phase = "QUOTING"
    BY <2>3 DEF Managed
  <2> HIDE DEF next
  <2>5. mem'[c.market] = next /\ \A m \in Market : m # c.market => mem'[m] = mem[m]
    BY <2>1, <2>2 DEF TypeOK
  <2>6. ~CoolingDown(c.market)'
    BY <2>4, <2>5 DEF CoolingDown
  <2> QED
    BY <1>1, <2>2, <2>5, <2>6 DEF CoolingDown, Farmed
<1>2. CASE ~(c.kind = "end_cooldown" /\ CoolingDown(c.market))
  <2>1. mem' = mem /\ ended' = ended
    BY <1>2 DEF Obeyed
  <2> QED
    BY <1>2, <2>1 DEF CoolingDown, Farmed
<1> QED
  BY <1>1, <1>2

\* The phase of a market stays, but where a command is obeyed or a cycle plans.
LEMMA PhasesStay ==
  ASSUME NoneIsNone, TypeOK, Sound, Next, ~PlanSome, ~Consume, ~ConsumeFails,
         NEW m \in Market
  PROVE  \/ mem'[m] = None
         \/ Farmed(m) /\ mem'[m].phase = mem[m].phase
         \/ ~Active(m) /\ mem'[m].phase = "QUOTING"
<1>1. Shapes
  BY DEF Sound
<1>2. CASE mem' = mem
  BY <1>2 DEF Farmed
<1>3. ASSUME NEW n \in Market, NakedCooldownEnds(n)
      PROVE  mem'[m] = None \/ (Farmed(m) /\ mem'[m].phase = mem[m].phase)
  <2> DEFINE next == [mem[n] EXCEPT !.naked = TRUE]
  <2>1. mem[n] \in Managed /\ mem[n] # None
    BY <1>3 DEF NakedCooldownEnds, TypeOK, Farmed
  <2>2. mem' = [mem EXCEPT ![n] = next]
    BY <1>3 DEF NakedCooldownEnds
  <2>3. next.phase = mem[n].phase
    BY <2>1 DEF Managed
  <2> HIDE DEF next
  <2> QED
    BY <2>1, <2>2, <2>3 DEF TypeOK, Farmed
<1>4. CASE Reload
  BY <1>4, ReloadIs
<1>5. CASE RefreshPositions
  <2>1. mem'[m] = IF m \in ActiveMarkets THEN Positioned(m) ELSE mem[m]
    BY <1>5 DEF RefreshPositions, Reads
  <2> QED
    BY <1>1, <2>1, PositionedIs DEF ActiveMarkets, Active, Farmed
<1>6. ASSUME NEW n \in Market, HalfReads(n)
      PROVE  mem'[m] = None \/ (Farmed(m) /\ mem'[m].phase = mem[m].phase)
  <2>1. PICK done \in SUBSET (ActiveMarkets \ {n}), half \in Halves(n) :
          mem' = [k \in Market |-> IF k \in done THEN Positioned(k)
                                  ELSE IF k = n THEN half ELSE mem[k]]
    BY <1>6, HalfReadIs
  <2>2. CASE m \in done
    BY <1>1, <2>1, <2>2, PositionedIs DEF ActiveMarkets, Active
  <2>3. CASE m \notin done /\ m = n
    <3> DEFINE read == Positioned(m)
               base == read.base
    <3>1. Farmed(m) /\ mem[m] \in Managed
      BY <1>6, <2>3, HalfReadIs DEF Active, TypeOK, Farmed
    <3>2. read \in Managed /\ read.phase = mem[m].phase
      BY <1>1, <3>1, PositionedIs, PositionedTyped
    <3>3. \/ mem'[m] = [mem[m] EXCEPT !.base = base]
          \/ mem'[m] = [read EXCEPT !.naked = mem[m].naked]
      BY <2>1, <2>3 DEF Halves
    <3> HIDE DEF base, read
    <3> QED
      BY <3>1, <3>2, <3>3 DEF Managed
  <2>4. CASE m \notin done /\ m # n
    BY <2>1, <2>4 DEF Farmed
  <2> QED
    BY <2>2, <2>3, <2>4
<1>7. CASE ShutsDown \/ Dies
  BY <1>7, MemoryLostIs DEF ShutsDown, Dies
<1>8. \/ Reload \/ RefreshPositions \/ ShutsDown \/ Dies
      \/ (\E n \in Market : NakedCooldownEnds(n)) \/ (\E n \in Market : HalfReads(n)) \/ mem' = mem
  BY DEF Next, Farmer, Cycle, Faults, Console, Fill, Start, ReadCommands, KeepPositions,
         ListingFails, CancelPlanned, PostPlanned, Settle, StatementFails, Interrupt, memory,
         HalfReads
<1> QED
  BY <1>2, <1>3, <1>4, <1>5, <1>6, <1>7, <1>8

\* The steps that neither send, read, obey nor expire a command, nor plan.
Elsewhere ==
  \/ (\E o \in book : Fill(o)) \/ (\E m \in Market : NakedCooldownEnds(m))
  \/ Reload \/ RefreshPositions \/ KeepPositions \/ ListingFails \/ CancelPlanned
  \/ PostPlanned \/ Settle \/ ShutsDown
  \/ StatementFails \/ (\E m \in Market : HalfReads(m)) \/ Interrupt \/ Dies

LEMMA ElsewhereIs ==
  ASSUME ReadAreLeft, Elsewhere
  PROVE  /\ UNCHANGED <<commands, sent, ended, run>> /\ (Up' => Up)
         /\ \/ pc' = pc /\ batch' = batch
            \/ /\ pc \in {"positions", "plan", "cancel", "post", "settle"} /\ batch' = {}
               /\ pc' # "commands"
            \/ pc = "commands" /\ batch = {} /\ batch' = {} /\ pc' \in {"shutdown", "positions"}
            \/ pc' \in {"read", "shutdown", "kept", "cleared", "dead"} /\ batch' = {}
<1> USE DEF ReadAreLeft, Up, Ended
<1>1. CASE (\E o \in book : Fill(o)) \/ (\E m \in Market : NakedCooldownEnds(m))
  BY <1>1 DEF Fill, NakedCooldownEnds, db, process, memory, exchange
<1>2. CASE Reload \/ RefreshPositions \/ KeepPositions
  BY <1>2 DEF Reload, RefreshPositions, KeepPositions, ToPlan, db, exchange, process
<1>3. CASE ListingFails \/ CancelPlanned \/ PostPlanned \/ Settle
  BY <1>3 DEF ListingFails, CancelPlanned, PostPlanned, Settle, Does, Stage, db, exchange,
              process, memory
<1>4. CASE ShutsDown \/ Dies \/ Interrupt
  BY <1>4 DEF ShutsDown, Dies, Interrupt, MemoryLost, db, exchange, process
<1>5. CASE StatementFails \/ \E m \in Market : HalfReads(m)
  BY <1>5, HalfReadIs DEF StatementFails, SaveFails, FillMidFails, HalfReads, Raises, db, exchange
<1> QED
  BY <1>1, <1>2, <1>3, <1>4, <1>5 DEF Elsewhere

LEMMA CommandsInvStays ==
  ASSUME NoneIsNone, CommandsInv, [Next]_vars
  PROVE  CommandsInv'
<1> USE DEF CommandsInv
<1>1. Sound' /\ TypeInv' /\ TypeOK
  BY SoundStays, TypeInvStays DEF TypeInv
<1>2. \A c \in commands : c.market \in Market \/ ~CoolingDown(c.market)
  BY <1>1 DEF TypeOK, Command, CoolingDown
<1> DEFINE Goal == OfThisRun' /\ OneById' /\ ReadAreLeft' /\ EndedAreOver'
<1> SUFFICES Goal
  BY <1>1
<1>3. CASE UNCHANGED vars
  BY <1>3 DEF vars, db, exchange, process, memory, OfThisRun, OneById, ReadAreLeft,
              EndedAreOver, CoolingDown, Farmed, Up
<1>4. CASE Console
  <2>1. /\ UNCHANGED <<pc, run, mem, batch, ended>>
        /\ UNCHANGED <<commands, sent>> \/ \E kind, keep, m : SendCommand(kind, keep, m)
    BY <1>4 DEF Console, process, memory
  <2>2. CASE UNCHANGED <<commands, sent>>
    BY <2>1, <2>2 DEF OfThisRun, OneById, ReadAreLeft, EndedAreOver, CoolingDown, Farmed, Up
  <2>3. ASSUME NEW kind, NEW keep, NEW m, SendCommand(kind, keep, m)
        PROVE  Goal
    <3>1. PICK c : /\ c = [id |-> sent', kind |-> kind, keep |-> keep, market |-> m, at |-> run]
                   /\ commands' = commands \cup {c}
      BY <2>3 DEF SendCommand
    <3>2. c.id = sent' /\ c.at = run /\ sent' = sent + 1 /\ sent \in Nat
      BY <1>1, <2>3, <3>1, ConstantsAssumption DEF SendCommand, TypeOK
    <3>3. (\A d \in commands : d.id \in Nat) /\ (\A i \in ended : i \in Nat)
      BY <1>1 DEF TypeOK, Command
    <3>4. c.id \notin ended /\ \A d \in commands : d.id # c.id
      BY <3>2, <3>3 DEF OneById
    <3>5. OneById'
      BY <2>1, <3>1, <3>2, <3>3, <3>4 DEF OneById
    <3>6. OfThisRun'
      BY <2>1, <3>1, <3>2 DEF OfThisRun, Up
    <3>7. EndedAreOver'
      BY <2>1, <3>1, <3>4 DEF EndedAreOver, CoolingDown, Farmed
    <3>8. ReadAreLeft'
      BY <2>1, <3>1 DEF ReadAreLeft
    <3> QED
      BY <3>5, <3>6, <3>7, <3>8
  <2> QED
    BY <2>1, <2>2, <2>3
<1>5. CASE Start
  <2>1. commands' = {} /\ UNCHANGED <<sent, batch, ended>> /\ pc # "commands"
    BY <1>5 DEF Start, Expired, memory, Up, Ended
  <2> QED
    BY <2>1 DEF OfThisRun, OneById, ReadAreLeft, EndedAreOver
<1>6. CASE ReadCommands
  <2>1. /\ UNCHANGED <<commands, sent, run, mem, ended>> /\ batch' = commands
        /\ pc = "read" /\ pc' = "commands"
    BY <1>6 DEF ReadCommands, db, process
  <2> QED
    BY <2>1 DEF OfThisRun, OneById, ReadAreLeft, EndedAreOver, CoolingDown, Farmed, Up, Ended
<1>7. CASE Consume \/ ConsumeFails
  <2>1. PICK c \in batch :
          /\ Obeyed(c) /\ UNCHANGED <<sent, run>> /\ pc = "commands"
          /\ \/ /\ commands' = {d \in commands : d.id # c.id} /\ batch' = batch \ {c}
                /\ pc' = pc
             \/ commands' = commands /\ batch' = {} /\ pc' \in {"read", "shutdown"}
    BY <1>7 DEF Consume, ConsumeFails, Raises, db
  <2>2. c \in commands /\ c \in Command /\ Up
    BY <1>1, <2>1 DEF ReadAreLeft, TypeOK, Up, Ended
  <2>3. \A d \in commands' : CoolingDown(d.market)' => CoolingDown(d.market)
    <3>1. commands' \subseteq commands
      BY <2>1
    <3>2. \A d \in commands : d.market \in Market \/ ~CoolingDown(d.market)'
      BY <1>1 DEF TypeOK, Command, CoolingDown
    <3> QED
      BY <1>1, <2>1, <2>2, <3>1, <3>2, ObeyedPhases
  <2>4. \A d \in commands' : d.id \in ended' => d.id \in ended \/ (d = c /\ c.kind = "end_cooldown")
    BY <1>1, <2>1, <2>2, ObeyedPhases DEF OneById
  <2>5. c.kind = "end_cooldown" => ~CoolingDown(c.market)'
    BY <1>1, <2>1, <2>2, ObeyedPhases
  <2>6. OneById'
    <3>1. commands' \subseteq commands /\ sent' = sent /\ c.id <= sent
      BY <2>1, <2>2 DEF OneById
    <3>2. \A i \in ended' : i \in ended \/ i = c.id
      BY <1>1, <2>1, <2>2, ObeyedPhases
    <3> QED
      BY <3>1, <3>2 DEF OneById
  <2>7. OfThisRun'
    BY <2>1, <2>2 DEF OfThisRun
  <2>8. ReadAreLeft'
    BY <2>1, <2>2 DEF ReadAreLeft, OneById
  <2>9. EndedAreOver'
    <3>1. ASSUME NEW d \in commands', d.id \in ended'
          PROVE  /\ ~CoolingDown(d.market)'
                 /\ pc' = "commands" => d \in batch'
                 /\ pc' \notin {"positions", "plan", "cancel", "post", "settle"}
      <4>1. d \in commands /\ (pc' = "commands" => d.id # c.id)
        BY <2>1
      <4>2. d.id \in ended => ~CoolingDown(d.market) /\ d \in batch
        BY <2>1, <4>1 DEF EndedAreOver
      <4>3. ~CoolingDown(d.market)'
        BY <2>3, <2>4, <2>5, <3>1, <4>2
      <4>4. pc' = "commands" => d \in batch'
        BY <2>1, <2>4, <3>1, <4>1, <4>2
      <4> QED
        BY <2>1, <4>3, <4>4
    <3> QED
      BY <3>1 DEF EndedAreOver
  <2> QED
    BY <2>6, <2>7, <2>8, <2>9
<1>8. CASE PlanSome
  <2>1. /\ UNCHANGED <<commands, sent, run, batch, ended>>
        /\ pc = "plan" /\ pc' \in {"cancel", "post", "settle", "read"}
    BY <1>8, PlanSomeIs DEF Sound, db, process, Stage
  <2>2. (\A c \in commands : c.id \notin ended) /\ batch = {} /\ Up
    BY <2>1 DEF EndedAreOver, ReadAreLeft, Up, Ended
  <2> QED
    BY <2>1, <2>2 DEF OfThisRun, OneById, ReadAreLeft, EndedAreOver
<1>9. CASE Elsewhere
  <2>1. /\ UNCHANGED <<commands, sent, ended, run>> /\ (Up' => Up)
        /\ \/ pc' = pc /\ batch' = batch
           \/ /\ pc \in {"positions", "plan", "cancel", "post", "settle"} /\ batch' = {}
              /\ pc' # "commands"
           \/ pc = "commands" /\ batch = {} /\ batch' = {} /\ pc' \in {"shutdown", "positions"}
           \/ pc' \in {"read", "shutdown", "kept", "cleared", "dead"} /\ batch' = {}
    BY <1>9, ElsewhereIs
  <2>2. ~PlanSome \/ pc = "plan"
    BY DEF PlanSome, PlanMarkets
  <2>3. Next
    BY <1>9 DEF Elsewhere, Next, Farmer, Cycle, Faults, HalfReads
  <2>4. CASE PlanSome
    BY <1>8, <2>4
  <2>5. CASE Consume \/ ConsumeFails
    BY <1>7, <2>5
  <2>6. CASE ~PlanSome /\ ~Consume /\ ~ConsumeFails
    <3>1. \A m \in Market : CoolingDown(m)' => CoolingDown(m)
      BY <1>1, <2>3, <2>6, PhasesStay DEF CoolingDown, Farmed
    <3>2. \A c \in commands : CoolingDown(c.market)' => CoolingDown(c.market)
      <4>1. \A c \in commands : c.market \in Market \/ ~CoolingDown(c.market)'
        BY <1>1 DEF TypeOK, Command, CoolingDown
      <4> QED
        BY <3>1, <4>1
    <3>3. EndedAreOver'
      BY <2>1, <3>2 DEF EndedAreOver
    <3> QED
      BY <2>1, <3>3 DEF OfThisRun, OneById, ReadAreLeft
  <2> QED
    BY <2>4, <2>5, <2>6
<1>10. \/ Console \/ Start \/ ReadCommands \/ Consume \/ ConsumeFails \/ PlanSome \/ Elsewhere
       \/ UNCHANGED vars
  BY DEF Next, Farmer, Cycle, Faults, Elsewhere, HalfReads
<1> QED
  BY <1>3, <1>4, <1>5, <1>6, <1>7, <1>8, <1>9, <1>10

\* A command acts on the run it was sent to, and an end_cooldown ends one
\* cooldown at most, even when stamping it fails and it is read again, whatever else fails.
THEOREM CommandsActOnce ==
  ASSUME NoneIsNone
  PROVE  Spec => CommandsAreTheirOwn
<1>1. ASSUME Init
      PROVE  CommandsInv
  <2>1. commands = {} /\ batch = {} /\ ended = {}
    BY <1>1 DEF Init
  <2> QED
    BY <1>1, <2>1, SoundAtFirst, TypeInvAtFirst
       DEF CommandsInv, OfThisRun, OneById, ReadAreLeft, EndedAreOver
<1>2. CommandsInv /\ [Next]_vars => CommandsInv'
  BY CommandsInvStays
<1> DEFINE StopStep ==
             \A c \in batch :
               (pc = "commands" /\ stop = "no" /\ stop' # "no" /\ IsNext(c) /\ c.kind = "stop"
                /\ c \notin batch') => c.at = run
           CooldownStep ==
             \A m \in Market :
               (pc = "commands" /\ CoolingDown(m) /\ Farmed(m) /\ mem'[m] # None
                /\ mem'[m].phase = "QUOTING") => \E c \in batch : IsNext(c) /\ c.id \notin ended
<1>3. CommandsInv => StopStep
  BY DEF CommandsInv, OfThisRun, ReadAreLeft, Up, Ended
<1>4. ASSUME CommandsInv, Next
      PROVE  CooldownStep
  <2> SUFFICES ASSUME NEW m \in Market, pc = "commands", CoolingDown(m), mem'[m] # None,
                      mem'[m].phase = "QUOTING"
               PROVE  \E c \in batch : IsNext(c) /\ c.id \notin ended
    OBVIOUS
  <2>1. TypeOK /\ Sound
    BY <1>4 DEF CommandsInv, TypeInv
  <2>2. mem[m].phase = "COOLDOWN" /\ Active(m)
    BY DEF CoolingDown, Active
  <2>3. ~PlanSome
    BY DEF PlanSome, PlanMarkets
  <2>4. Consume \/ ConsumeFails
    BY <1>4, <2>1, <2>2, <2>3, PhasesStay
  <2>5. PICK c \in batch : IsNext(c) /\ Obeyed(c)
    BY <2>4 DEF Consume, ConsumeFails
  <2>6. c \in Command /\ c \in commands
    BY <1>4, <2>1 DEF TypeOK, CommandsInv, ReadAreLeft
  <2>7. mem'[m] # mem[m]
    BY <2>2
  <2>8. m = c.market
    BY <2>1, <2>5, <2>6, <2>7, ObeyedPhases
  <2>9. c.id \notin ended
    BY <1>4, <2>6, <2>8 DEF CommandsInv, EndedAreOver
  <2> QED
    BY <2>5, <2>9
<1>5. CommandsInv /\ [Next]_vars => [StopStep]_vars /\ [CooldownStep]_vars
  BY <1>3, <1>4
<1>6. Spec => [][StopStep]_vars /\ [][CooldownStep]_vars
  <2> HIDE DEF StopStep, CooldownStep
  <2> QED
    BY <1>1, <1>2, <1>5, PTL DEF Spec
<1> QED
  BY <1>6 DEF CommandsAreTheirOwn, StopsItsOwnRun, EndsOneCooldown
=============================================================================
