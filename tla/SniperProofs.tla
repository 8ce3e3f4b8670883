---------------------------- MODULE SniperProofs ----------------------------
(***************************************************************************)
(* Proofs about Sniper for every set of watches, tokens, lanes and worker  *)
(* runs, every retry window, and every fault May allows, in three parts.   *)
(* The rows and the memories stay well typed, no run places two orders for *)
(* a watch, and a fire that may post again has seen definite refusals      *)
(* only. What a run writes of a watch is true of what it posted. And while *)
(* one worker runs at a time, over crashes and restarts: a watch fires     *)
(* once, the ends docs/sniper.md calls certain are certain, a run's memory *)
(* fits the rows, and without crashes the lanes do what WatchPromise says. *)
(***************************************************************************)
EXTENDS Sniper, FiniteSetTheorems, TLAPS

\* A stage at which a lane is busy with the fire.
Working == {"won", "attempt", "posting"}

\* What a run knows of a watch agrees with what it has sent for it: the exchange counts
\* one order for an accepted post, only a claimed watch has a fire, and a fire that may
\* still post has nothing on its way. The last two bound the posts by the window.
CustodyAt(p, w) ==
  /\ orders[p][w] = IF sent[p][w] = "accepted" THEN 1 ELSE 0
  /\ ctl[p] = "dead" => fire[p][w] = "none"
  /\ ctl[p] # "dead" /\ w \notin claimed[p] => fire[p][w] = "none"
  /\ ctl[p] # "dead" /\ fire[p][w] = "none" => sent[p][w] = "none"
  /\ fire[p][w] \in {"won", "attempt", "waiting", "due"} => sent[p][w] = "none"
  /\ fire[p][w] \in {"none", "won"} => attempts[p][w] = 0
  /\ fire[p][w] \in {"attempt", "posting"} => attempts[p][w] < MaxAttempts

Custody == \A p \in Proc, w \in Watch : CustodyAt(p, w)

\* A process that is gone has no lane at work, and a lane that works on a fire is the
\* only one: this is what the claim lock and the two retry queues are for.
OneLaneFires ==
  \A p \in Proc, l \in Lane :
    /\ ctl[p] \in {"new", "dead"} => lane[p][l] = Idle
    /\ OnLane(p, l, "firing") =>
         /\ fire[p][lane[p][l].watch] \in Working
         /\ \A m \in Lane : OnLane(p, m, "firing") /\ lane[p][m].watch = lane[p][l].watch
                              => m = l

IInv == TypeOK /\ Custody /\ OneLaneFires

-----------------------------------------------------------------------------
(* What the helpers of Sniper return                                       *)

LEMMA SlowIsALane == "slow" \in Lane /\ Hot \subseteq Lane
  BY DEF Lane

LEMMA LaneWatch ==
  ASSUME TypeOK, NEW p \in Proc, NEW l \in Lane, lane[p][l].at # "idle"
  PROVE  lane[p][l].watch \in Watch
  BY DEF TypeOK, Idle

LEMMA HeadIsEvent ==
  ASSUME TypeOK, NEW p \in Proc, inbox[p] # <<>>
  PROVE  Head(inbox[p]) \in Event
  BY DEF TypeOK

LEMMA SettleType ==
  ASSUME NEW o \in Outcome
  PROVE  Settle(o).state \in ClosedStates /\ Settle(o).reason \in Reasons
  BY DEF Settle, Outcome, ClosedStates, Reasons

LEMMA CloseRowType ==
  ASSUME TypeOK, NEW p \in Proc, NEW w \in Watch, NEW o \in Outcome, CloseRow(p, w, o)
  PROVE  /\ state' \in [Watch -> {"none"} \cup OpenStates \cup ClosedStates]
         /\ reason' \in [Watch -> Reasons]
         /\ closer' \in [Watch -> Proc \cup {None}]
  BY SettleType DEF CloseRow, TypeOK, db

LEMMA TellType ==
  ASSUME TypeOK, NEW p \in Proc, NEW w \in Watch,
         NEW what \in {"prepared", "claimed"} \cup Outcome, Tell(p, w, what)
  PROVE  inbox' \in [Proc -> Seq(Event)]
  <1>1. [watch |-> w, what |-> what] \in Event
    BY DEF Event
  <1>2. inbox[p] \in Seq(Event)
    BY DEF TypeOK
  <1>3. Append(inbox[p], [watch |-> w, what |-> what]) \in Seq(Event)
    BY <1>1, <1>2
  <1> QED BY <1>3 DEF Tell, TypeOK

LEMMA ViewOfType ==
  ASSUME NEW w \in Watch
  PROVE  ViewOf(w) \in ViewStage
  BY DEF ViewOf, ViewStage, IsOpen, OpenStates

LEMMA PopType ==
  ASSUME TypeOK, NEW p \in Proc, inbox[p] # <<>>, PopEvent(p)
  PROVE  inbox' \in [Proc -> Seq(Event)]
  <1>1. Tail(inbox[p]) \in Seq(Event)
    BY DEF TypeOK
  <1> QED BY <1>1 DEF PopEvent, TypeOK

\* A process that ends leaves empty memory of the right type.
LEMMA LostType ==
  ASSUME TypeOK, NEW p \in Proc, MemoryLost(p)
  PROVE  /\ ctl' \in [Proc -> CtlStage]
         /\ adopted' \in [Proc -> SUBSET Watch]
         /\ routed' \in [Proc -> SUBSET Watch]
         /\ claimed' \in [Proc -> SUBSET Watch]
         /\ abort' \in [Proc -> SUBSET Watch]
         /\ inbox' \in [Proc -> Seq(Event)]
         /\ joins' \in [Proc -> SUBSET Watch]
         /\ fire' \in [Proc -> [Watch -> FireStage]]
         /\ attempts' \in [Proc -> [Watch -> 0..MaxAttempts]]
         /\ lane' \in [Proc -> [Lane -> {Idle} \cup [at : LaneStage, watch : Watch]]]
         /\ view' \in [Proc -> [Watch -> ViewStage]]
  <1>1. /\ [w \in Watch |-> "none"] \in [Watch -> FireStage]
        /\ NoView \in [Watch -> ViewStage]
        /\ [l \in Lane |-> Idle] \in [Lane -> {Idle} \cup [at : LaneStage, watch : Watch]]
    BY DEF FireStage, NoView, ViewStage
  <1>2. [w \in Watch |-> 0] \in [Watch -> 0..MaxAttempts]
    BY ConstantsAssumption
  <1>3. <<>> \in Seq(Event) /\ "dead" \in CtlStage /\ {} \in SUBSET Watch
    BY DEF CtlStage
  <1>4. /\ ctl' \in [Proc -> CtlStage]
        /\ inbox' \in [Proc -> Seq(Event)]
    BY <1>3 DEF MemoryLost, TypeOK
  <1>5. /\ adopted' \in [Proc -> SUBSET Watch]
        /\ routed' \in [Proc -> SUBSET Watch]
        /\ claimed' \in [Proc -> SUBSET Watch]
    BY <1>3 DEF MemoryLost, TypeOK
  <1>6. /\ abort' \in [Proc -> SUBSET Watch]
        /\ joins' \in [Proc -> SUBSET Watch]
    BY <1>3 DEF MemoryLost, TypeOK
  <1>7. /\ fire' \in [Proc -> [Watch -> FireStage]]
        /\ view' \in [Proc -> [Watch -> ViewStage]]
    BY <1>1 DEF MemoryLost, TypeOK
  <1>8. attempts' \in [Proc -> [Watch -> 0..MaxAttempts]]
    BY <1>2 DEF MemoryLost, TypeOK
  <1>9. lane' \in [Proc -> [Lane -> {Idle} \cup [at : LaneStage, watch : Watch]]]
    BY <1>1 DEF MemoryLost, TypeOK
  <1> QED BY <1>4, <1>5, <1>6, <1>7, <1>8, <1>9

-----------------------------------------------------------------------------
(* Types                                                                   *)

\* A drain goes on, or what it logs raises and the run is on its way down.
LEMMA LogsMoves ==
  ASSUME TypeOK, NEW p \in Proc, ctl[p] \in {"serving", "draining"}, Logs(p)
  PROVE  /\ ctl' \in [Proc -> CtlStage] /\ stop' \in [Proc -> BOOLEAN] /\ status' = status
         /\ \A q \in Proc : /\ q # p => ctl'[q] = ctl[q] /\ stop'[q] = stop[q]
                            /\ stop[q] => stop'[q]
         /\ \/ UNCHANGED life
            \/ ctl[p] = "serving" /\ ctl'[p] = "claiming" /\ stop'[p] /\ "db" \in May
            \/ ctl[p] = "draining" /\ ctl'[p] = "closed" /\ stop'[p] /\ "db" \in May
  BY DEF Logs, DrainRaises, life, TypeOK, CtlStage

LEMMA DrainMoves ==
  ASSUME TypeOK, NEW p \in Proc, Drain(p)
  PROVE  ctl[p] \in {"serving", "draining"} /\ Logs(p)
  <1> USE DEF Draining, Logs
  <1>1. CASE DrainUnknown(p)
    BY <1>1 DEF DrainUnknown
  <1>2. CASE DrainPrepared(p)
    BY <1>2 DEF DrainPrepared
  <1>3. CASE DrainClaimed(p)
    BY <1>3 DEF DrainClaimed
  <1>4. CASE DrainResolved(p)
    BY <1>4 DEF DrainResolved
  <1> QED BY <1>1, <1>2, <1>3, <1>4 DEF Drain

\* Every action keeps the types; Custody bounds the posts of a fire.
LEMMA TypeStep ==
  ASSUME TypeOK, Custody, [Next]_vars
  PROVE  TypeOK'
  <1>1. ASSUME NEW w \in Watch, Arm(w) PROVE TypeOK'
    BY <1>1 DEF TypeOK, Arm, OpenStates, life, ctlMem, fireMem, exchange
  <1>2. ASSUME NEW w \in Watch, RequestDisarm(w) PROVE TypeOK'
    BY <1>2 DEF TypeOK, RequestDisarm, db, life, ctlMem, fireMem, exchange
  <1>3. ASSUME NEW t \in Token, TickReaches(t) PROVE TypeOK'
    BY <1>3 DEF TypeOK, TickReaches, db, life, ctlMem, fireMem
  <1>4. ASSUME NEW p \in Proc, StartWorker(p) PROVE TypeOK'
    BY <1>4 DEF TypeOK, StartWorker, CtlStage, db, ctlMem, fireMem, exchange
  <1>5. ASSUME NEW p \in Proc, BeatFails(p) PROVE TypeOK'
    BY <1>5 DEF TypeOK, BeatFails, db, ctlMem, fireMem, exchange
  <1>6. ASSUME NEW p \in Proc, StopSignal(p) PROVE TypeOK'
    BY <1>6 DEF TypeOK, StopSignal, db, ctlMem, fireMem, exchange
  <1>7. ASSUME NEW p \in Proc, StopWorker(p) PROVE TypeOK'
    BY <1>7, LostType DEF TypeOK, StopWorker, db, exchange
  <1>8. ASSUME NEW p \in Proc, Crash(p) PROVE TypeOK'
    BY <1>8, LostType DEF TypeOK, Crash, db, exchange
  <1>9. ASSUME NEW p \in Proc, OpenSniper(p) PROVE TypeOK'
    BY <1>9, SettleType DEF TypeOK, OpenSniper, CtlStage, Outcome, ctlMem, fireMem, exchange
  <1>10. ASSUME NEW p \in Proc, OpenFails(p) PROVE TypeOK'
    BY <1>10 DEF TypeOK, OpenFails, CtlStage, db, ctlMem, fireMem, exchange
  <1>11. ASSUME NEW p \in Proc, DrainUnknown(p) PROVE TypeOK'
    BY <1>11, PopType DEF TypeOK, DrainUnknown, Draining, db, life, ctlMem, fireMem, exchange
  <1>12. ASSUME NEW p \in Proc, DrainPrepared(p) PROVE TypeOK'
    <2>1. inbox' \in [Proc -> Seq(Event)]
      BY <1>12, PopType DEF DrainPrepared, Draining
    <2>2. routed' \in [Proc -> SUBSET Watch]
      <3> DEFINE w == Head(inbox[p]).watch
      <3>1. {v \in routed[p] : TokenOf[v] # TokenOf[w]} \cup {w} \in SUBSET Watch
        BY <1>12 DEF TypeOK, DrainPrepared, Draining
      <3> QED BY <3>1, <1>12 DEF DrainPrepared, TypeOK
    <2> QED BY <1>12, <2>1, <2>2, LogsMoves, DrainMoves
         DEF TypeOK, DrainPrepared, Drain, db, fireMem, exchange
  <1>13. ASSUME NEW p \in Proc, DrainClaimed(p) PROVE TypeOK'
    BY <1>13, PopType, HeadIsEvent, LogsMoves, DrainMoves
       DEF TypeOK, DrainClaimed, Drain, Draining, OpenStates, Event, ctlMem, fireMem, exchange
  <1>14. ASSUME NEW p \in Proc, DrainResolved(p) PROVE TypeOK'
    BY <1>14, PopType, HeadIsEvent, CloseRowType, LogsMoves, DrainMoves
       DEF TypeOK, DrainResolved, Drain, Draining, Forget, Event, fireMem, exchange
  <1>15. ASSUME NEW p \in Proc, DrainFails(p) PROVE TypeOK'
    <2>1. Logs(p) /\ ctl[p] \in {"serving", "draining"}
      BY <1>15 DEF DrainFails, Draining, Logs
    <2> QED BY <1>15, <2>1, PopType, LogsMoves
         DEF TypeOK, DrainFails, Draining, db, ctlMem, fireMem, exchange
  <1>16. ASSUME NEW p \in Proc, ReconcileReads(p) PROVE TypeOK'
    BY <1>16, ViewOfType DEF TypeOK, ReconcileReads, CtlStage, db, fireMem, exchange
  <1>17. ASSUME NEW p \in Proc, NEW w \in Watch, DisarmUnadopted(p, w) PROVE TypeOK'
    BY <1>17, CloseRowType
       DEF TypeOK, DisarmUnadopted, DisarmWrites, ViewStage, Outcome, life, fireMem, exchange
  <1>18. ASSUME NEW p \in Proc, NEW w \in Watch, DisarmWins(p, w) PROVE TypeOK'
    <2>1. claimed[p] \cup {w} \in SUBSET Watch
      BY DEF TypeOK
    <2>2. claimed' \in [Proc -> SUBSET Watch]
      BY <1>18, <2>1 DEF DisarmWins, TypeOK
    <2> QED BY <1>18, <2>2, CloseRowType
         DEF TypeOK, DisarmWins, DisarmWrites, ViewStage, Outcome, life, fireMem, exchange
  <1>19. ASSUME NEW p \in Proc, NEW w \in Watch, DisarmLoses(p, w) PROVE TypeOK'
    <2>1. abort[p] \cup {w} \in SUBSET Watch
      BY DEF TypeOK
    <2>2. abort' \in [Proc -> SUBSET Watch]
      BY <1>19, <2>1 DEF DisarmLoses, TypeOK
    <2> QED BY <1>19, <2>2 DEF TypeOK, DisarmLoses, RowDone, ViewStage, db, life, fireMem, exchange
  <1>20. ASSUME NEW p \in Proc, NEW w \in Watch, Adopt(p, w) PROVE TypeOK'
    BY <1>20 DEF TypeOK, Adopt, RowDone, ViewStage, db, life, fireMem, exchange
  <1>21. ASSUME NEW p \in Proc, ReconcileEnds(p) PROVE TypeOK'
    BY <1>21
       DEF TypeOK, ReconcileEnds, CtlStage, NoView, ViewStage, Forget, db, fireMem, exchange
  <1>22. ASSUME NEW p \in Proc, ReconcileFails(p) PROVE TypeOK'
    BY <1>22 DEF TypeOK, ReconcileFails, CtlStage, NoView, ViewStage, db, fireMem, exchange
  <1>23. ASSUME NEW p \in Proc, LeaveLoop(p) PROVE TypeOK'
    BY <1>23 DEF TypeOK, LeaveLoop, CtlStage, db, ctlMem, fireMem, exchange
  <1>24. ASSUME NEW p \in Proc, CloseClaims(p) PROVE TypeOK'
    BY <1>24 DEF TypeOK, CloseClaims, CtlStage, db, ctlMem, fireMem, exchange
  <1>25. ASSUME NEW p \in Proc, CloseJoins(p) PROVE TypeOK'
    BY <1>25 DEF TypeOK, CloseJoins, CtlStage, db, ctlMem, fireMem, exchange
  <1>26. ASSUME NEW p \in Proc, NEW w \in Watch, CloseCuts(p, w) PROVE TypeOK'
    BY <1>26, TellType
       DEF TypeOK, CloseCuts, Stage, FireStage, CutBy, Outcome, db, life, ctlMem, exchange
  <1>27. ASSUME NEW p \in Proc, CloseDrains(p) PROVE TypeOK'
    BY <1>27 DEF TypeOK, CloseDrains, CtlStage, db, ctlMem, fireMem, exchange
  <1>28. ASSUME NEW p \in Proc, CloseEnds(p) PROVE TypeOK'
    BY <1>28 DEF TypeOK, CloseEnds, CtlStage, db, ctlMem, fireMem, exchange
  <1>29. ASSUME NEW p \in Proc, NEW l \in Hot, NEW w \in Watch, Observe(p, l, w) PROVE TypeOK'
    BY <1>29, SlowIsALane
       DEF TypeOK, Observe, GoTo, LaneStage, db, life, ctlMem, fireMem, exchange
  <1>30. ASSUME NEW p \in Proc, NEW l \in Hot, Claim(p, l) PROVE TypeOK'
    <2> DEFINE w == lane[p][l].watch
    <2>1. w \in Watch
      BY <1>30, SlowIsALane, LaneWatch DEF Claim, OnLane
    <2>2. CASE w \in claimed[p]
      <3>1. Free(p, l) /\ UNCHANGED <<claimed, fire>>
        BY <1>30, <2>2 DEF Claim
      <3>3. lane' \in [Proc -> [Lane -> {Idle} \cup [at : LaneStage, watch : Watch]]]
        BY <3>1, SlowIsALane DEF Free, TypeOK
      <3> QED BY <1>30, <3>1, <3>3 DEF TypeOK, Claim, db, life, ctlMem, exchange
    <2>3. CASE w \notin claimed[p]
      <3>1. claimed[p] \cup {w} \in SUBSET Watch
        BY <2>1 DEF TypeOK
      <3>2. claimed' \in [Proc -> SUBSET Watch]
        BY <1>30, <2>3, <3>1 DEF Claim, TypeOK
      <3>5. Stage(p, w, "won") /\ GoTo(p, l, "firing", w)
        BY <1>30, <2>3 DEF Claim
      <3>3. fire' \in [Proc -> [Watch -> FireStage]]
        BY <2>1, <3>5 DEF Stage, FireStage, TypeOK
      <3>4. lane' \in [Proc -> [Lane -> {Idle} \cup [at : LaneStage, watch : Watch]]]
        BY <2>1, <3>5, SlowIsALane DEF GoTo, LaneStage, TypeOK
      <3> QED BY <1>30, <3>2, <3>3, <3>4 DEF TypeOK, Claim, db, life, ctlMem, exchange
    <2> QED BY <2>2, <2>3
  <1>31. ASSUME NEW p \in Proc, NEW l \in Hot, GuardRefuses(p, l) PROVE TypeOK'
    BY <1>31, SlowIsALane, LaneWatch, TellType
       DEF TypeOK, GuardRefuses, Firing, OnLane, Resolve, Stage, Free, FireStage, Outcome, db,
           life, ctlMem, exchange
  <1>32. ASSUME NEW p \in Proc, NEW l \in Hot, GuardPasses(p, l) PROVE TypeOK'
    BY <1>32, SlowIsALane, LaneWatch, TellType
       DEF TypeOK, GuardPasses, Firing, OnLane, Stage, FireStage, db, life, ctlMem, exchange
  <1>33. ASSUME NEW p \in Proc, NEW l \in Lane, PostLeaves(p, l) PROVE TypeOK'
    BY <1>33, LaneWatch
       DEF TypeOK, PostLeaves, Firing, OnLane, Stage, FireStage, db, life, ctlMem
  <1>34. ASSUME NEW p \in Proc, NEW l \in Lane, SignFails(p, l) PROVE TypeOK'
    BY <1>34, LaneWatch, TellType
       DEF TypeOK, SignFails, Firing, OnLane, Resolve, Stage, Free, FireStage, Outcome, db,
           life, ctlMem, exchange
  <1>35. ASSUME NEW p \in Proc, NEW l \in Lane, Rehearse(p, l) PROVE TypeOK'
    BY <1>35, LaneWatch, TellType
       DEF TypeOK, Rehearse, Firing, OnLane, Resolve, Stage, Free, FireStage, Outcome, db,
           life, ctlMem, exchange
  <1>36. ASSUME NEW p \in Proc, NEW l \in Lane, AnswerPosted(p, l) PROVE TypeOK'
    BY <1>36, LaneWatch, TellType
       DEF TypeOK, AnswerPosted, Firing, OnLane, Resolve, Stage, Free, FireStage, Outcome, db,
           life, ctlMem, exchange
  <1>37. ASSUME NEW p \in Proc, NEW l \in Lane, AnswerRefused(p, l) PROVE TypeOK'
    <2> DEFINE w == lane[p][l].watch
    <2>1. w \in Watch
      BY <1>37, LaneWatch DEF AnswerRefused, Firing, OnLane
    <2>2. attempts[p][w] + 1 \in 0..MaxAttempts
      BY <1>37, <2>1, ConstantsAssumption DEF AnswerRefused, Firing, Custody, CustodyAt, TypeOK
    <2>3. attempts' \in [Proc -> [Watch -> 0..MaxAttempts]]
      BY <1>37, <2>1, <2>2 DEF AnswerRefused, TypeOK
    <2>4. /\ sent' \in [Proc -> [Watch -> {"none", "out", "accepted", "refused"}]]
          /\ fire' \in [Proc -> [Watch -> FireStage]]
      BY <1>37, <2>1 DEF AnswerRefused, Stage, FireStage, TypeOK
    <2>5. lane' \in [Proc -> [Lane -> {Idle} \cup [at : LaneStage, watch : Watch]]]
      BY <1>37 DEF AnswerRefused, Free, TypeOK
    <2> QED BY <1>37, <2>3, <2>4, <2>5 DEF TypeOK, AnswerRefused, db, life, ctlMem
  <1>38. ASSUME NEW p \in Proc, NEW l \in Lane, AnswerTerminal(p, l) PROVE TypeOK'
    BY <1>38, LaneWatch, TellType
       DEF TypeOK, AnswerTerminal, Firing, OnLane, Resolve, Stage, Free, FireStage, Outcome,
           db, life, ctlMem
  <1>39. ASSUME NEW p \in Proc, NEW l \in Lane, AnswerNone(p, l) PROVE TypeOK'
    BY <1>39, LaneWatch, TellType
       DEF TypeOK, AnswerNone, Firing, OnLane, Resolve, Stage, Free, FireStage, Outcome, db,
           life, ctlMem, exchange
  <1>40. ASSUME NEW p \in Proc, NEW w \in Watch, FireDue(p, w) PROVE TypeOK'
    BY <1>40 DEF TypeOK, FireDue, Stage, FireStage, db, life, ctlMem, exchange
  <1>41. ASSUME NEW p \in Proc, NEW w \in Watch, RetryCut(p, w) PROVE TypeOK'
    BY <1>41, TellType
       DEF TypeOK, RetryCut, Stage, FireStage, CutBy, Outcome, db, life, ctlMem, exchange
  <1>42. ASSUME NEW p \in Proc, NEW w \in Watch, RetryGivesUp(p, w) PROVE TypeOK'
    BY <1>42, TellType
       DEF TypeOK, RetryGivesUp, Stage, FireStage, Outcome, db, life, ctlMem, exchange
  <1>43. ASSUME NEW p \in Proc, NEW w \in Watch, RetryStarts(p, w) PROVE TypeOK'
    BY <1>43, SlowIsALane
       DEF TypeOK, RetryStarts, Stage, FireStage, GoTo, LaneStage, db, life, ctlMem, exchange
  <1>44. ASSUME NEW p \in Proc, NEW w \in Watch, PrepareStarts(p, w) PROVE TypeOK'
    <2>1. joins[p] \ {w} \in SUBSET Watch
      BY DEF TypeOK
    <2>2. joins' \in [Proc -> SUBSET Watch]
      BY <1>44, <2>1 DEF PrepareStarts, TypeOK
    <2>4. UNCHANGED lane \/ GoTo(p, "slow", "reading", w)
      BY <1>44 DEF PrepareStarts
    <2>3. lane' \in [Proc -> [Lane -> {Idle} \cup [at : LaneStage, watch : Watch]]]
      <3>1. CASE UNCHANGED lane 
        BY <3>1 DEF TypeOK
      <3>2. CASE GoTo(p, "slow", "reading", w)
        BY <3>2 DEF GoTo, Lane, LaneStage, TypeOK
      <3> QED BY <2>4, <3>1, <3>2
    <2> QED BY <1>44, <2>2, <2>3 DEF TypeOK, PrepareStarts, db, life, ctlMem, fireMem, exchange
  <1>45. ASSUME NEW p \in Proc, PrepareFails(p) PROVE TypeOK'
    <2>1. "slow" \in Lane
      BY DEF Lane
    <2>2. lane[p]["slow"].watch \in Watch
      BY <1>45, <2>1, LaneWatch DEF PrepareFails
    <2>3. joins[p] \cup {lane[p]["slow"].watch} \in SUBSET Watch
      BY <2>2 DEF TypeOK
    <2>4. joins' \in [Proc -> SUBSET Watch]
      BY <1>45, <2>3 DEF PrepareFails, TypeOK
    <2> QED BY <1>45, <2>1, <2>4 DEF TypeOK, PrepareFails, Free, db, life, ctlMem, fireMem, exchange
  <1>46. ASSUME NEW p \in Proc, PrepareDrops(p) PROVE TypeOK'
    BY <1>46, SlowIsALane DEF TypeOK, PrepareDrops, Free, db, life, ctlMem, fireMem, exchange
  <1>47. ASSUME NEW p \in Proc, PrepareMissed(p) PROVE TypeOK'
    <2> DEFINE w == lane[p]["slow"].watch
    <2>1. "slow" \in Lane
      BY DEF Lane
    <2>2. w \in Watch
      BY <1>47, <2>1, LaneWatch DEF PrepareMissed, OnLane
    <2>3. claimed[p] \cup {w} \in SUBSET Watch
      BY <2>2 DEF TypeOK
    <2>4. claimed' \in [Proc -> SUBSET Watch]
      BY <1>47, <2>3 DEF PrepareMissed, TypeOK
    <2>5. inbox' \in [Proc -> Seq(Event)]
      BY <1>47, <2>2, TellType DEF PrepareMissed, Resolve, Outcome
    <2>6. fire' \in [Proc -> [Watch -> FireStage]]
      BY <1>47, <2>2 DEF PrepareMissed, Resolve, Stage, FireStage, TypeOK
    <2> QED BY <1>47, <2>1, <2>4, <2>5, <2>6
         DEF TypeOK, PrepareMissed, Resolve, Free, db, life, ctlMem, exchange
  <1>48. ASSUME NEW p \in Proc, PrepareReads(p) PROVE TypeOK'
    BY <1>48, SlowIsALane, LaneWatch
       DEF TypeOK, PrepareReads, OnLane, GoTo, LaneStage, db, life, ctlMem, fireMem, exchange
  <1>49. ASSUME NEW p \in Proc, PrepareSends(p) PROVE TypeOK'
    BY <1>49, SlowIsALane, LaneWatch, TellType
       DEF TypeOK, PrepareSends, OnLane, Free, db, life, ctlMem, fireMem, exchange
  <1>50. ASSUME NEW p \in Proc, NEW w \in Watch, Accept(p, w) PROVE TypeOK'
    <2>1. orders[p][w] + 1 \in Nat
      BY DEF TypeOK
    <2>2. orders' \in [Proc -> [Watch -> Nat]]
      BY <1>50, <2>1 DEF Accept, TypeOK
    <2> QED BY <1>50, <2>2 DEF TypeOK, Accept, db, life, ctlMem, fireMem
  <1>51. ASSUME NEW p \in Proc, NEW w \in Watch, Refuse(p, w) PROVE TypeOK'
    BY <1>51 DEF TypeOK, Refuse, db, life, ctlMem, fireMem
  <1>52. CASE UNCHANGED vars
    BY <1>52 DEF TypeOK, vars, db, life, ctlMem, fireMem, exchange
  <1>53. ASSUME NEW p \in Proc, NEW w \in Watch, DisarmLogged(p, w) PROVE TypeOK'
    <2>1. adopted[p] \ {w} \in SUBSET Watch /\ routed[p] \ {w} \in SUBSET Watch
      BY DEF TypeOK
    <2>2. adopted' \in [Proc -> SUBSET Watch] /\ routed' \in [Proc -> SUBSET Watch]
      BY <1>53, <2>1 DEF DisarmLogged, Forget, TypeOK
    <2> QED BY <1>53, <2>2
         DEF TypeOK, DisarmLogged, RowDone, ViewStage, db, life, fireMem, exchange
  <1> QED BY <1>1, <1>2, <1>3, <1>4, <1>5, <1>6, <1>7, <1>8, <1>9, <1>10, <1>11, <1>12,
       <1>13, <1>14, <1>15, <1>16, <1>17, <1>18, <1>19, <1>20, <1>21, <1>22, <1>23, <1>24,
       <1>25, <1>26, <1>27, <1>28, <1>29, <1>30, <1>31, <1>32, <1>33, <1>34, <1>35, <1>36,
       <1>37, <1>38, <1>39, <1>40, <1>41, <1>42, <1>43, <1>44, <1>45, <1>46, <1>47, <1>48,
       <1>49, <1>50, <1>51, <1>52, <1>53
       DEF Next, Operator, Worker, Control, Drain, Reconcile, Close, DbFails, HotStep,
           Attempt, Answer, Prepare, Retry, Exchange

-----------------------------------------------------------------------------
(* Custody                                                                 *)

\* No run comes back from the dead or starts again, and the claims it holds stay.
GoesOn ==
  /\ \A p \in Proc : (ctl'[p] = "dead" <=> ctl[p] = "dead") /\ (ctl'[p] = "new" => ctl[p] = "new")
  /\ \A p \in Proc : claimed[p] \subseteq claimed'[p]

\* A step that touches no fire and no post keeps custody.
LEMMA CustodyKept ==
  ASSUME Custody, GoesOn, UNCHANGED <<fireMem, sent, orders>>
  PROVE  Custody'
  BY DEF Custody, CustodyAt, GoesOn, fireMem

\* A step that touches the fire or the post of one watch of one run.
LEMMA CustodyOfOne ==
  ASSUME Custody, NEW p \in Proc, NEW w \in Watch,
         GoesOn, CustodyAt(p, w)',
         \A q \in Proc, v \in Watch :
           q # p \/ v # w => /\ fire'[q][v] = fire[q][v] /\ attempts'[q][v] = attempts[q][v]
                             /\ sent'[q][v] = sent[q][v] /\ orders'[q][v] = orders[q][v]
  PROVE  Custody'
  BY DEF Custody, CustodyAt, GoesOn

\* A fire that goes to another stage while its posts stay as they are.
LEMMA CustodyOfStage ==
  ASSUME TypeOK, Custody, NEW p \in Proc, NEW w \in Watch, NEW stage \in FireStage,
         Stage(p, w, stage), UNCHANGED <<ctl, attempts, sent, orders>>, GoesOn,
         ctl[p] # "dead", w \in claimed'[p], stage # "none",
         stage \in {"won", "attempt", "waiting", "due"} => sent[p][w] = "none",
         stage = "won" => attempts[p][w] = 0,
         stage \in {"attempt", "posting"} => attempts[p][w] < MaxAttempts
  PROVE  Custody'
  <1>1. fire'[p][w] = stage
    BY DEF Stage, TypeOK
  <1>2. CustodyAt(p, w)'
    BY <1>1 DEF Custody, CustodyAt
  <1>3. \A q \in Proc, v \in Watch : q # p \/ v # w => fire'[q][v] = fire[q][v]
    BY DEF Stage, TypeOK
  <1> QED BY <1>2, <1>3, CustodyOfOne

\* A lane that works on a watch belongs to a live run, and the watch is claimed.
LEMMA WorkIsClaimed ==
  ASSUME TypeOK, Custody, NEW p \in Proc, NEW w \in Watch, fire[p][w] # "none"
  PROVE  ctl[p] # "dead" /\ w \in claimed[p]
  BY DEF Custody, CustodyAt

\* The steps of the operator, of the tick and of the control lane move no fire.
ControlMoves(p) ==
  \/ StartWorker(p) \/ BeatFails(p) \/ StopSignal(p)
  \/ OpenSniper(p) \/ Drain(p) \/ Reconcile(p) \/ DbFails(p)
  \/ LeaveLoop(p) \/ CloseClaims(p) \/ CloseJoins(p) \/ CloseDrains(p) \/ CloseEnds(p)

LEMMA ControlGoesOn ==
  ASSUME TypeOK, NEW p \in Proc, ControlMoves(p)
  PROVE  GoesOn /\ UNCHANGED <<fireMem, sent, orders, lane>>
  <1>1. CASE StartWorker(p) \/ BeatFails(p) \/ StopSignal(p)
    BY <1>1 DEF StartWorker, BeatFails, StopSignal, GoesOn, TypeOK, exchange
  <1>2. CASE OpenSniper(p) \/ OpenFails(p)
    BY <1>2 DEF OpenSniper, OpenFails, GoesOn, TypeOK, exchange
  <1>3. CASE Drain(p)
    <2>1. GoesOn
      <3>1. UNCHANGED claimed
        BY <1>3 DEF Drain, DrainUnknown, DrainPrepared, DrainClaimed, DrainResolved
      <3> QED BY <1>3, <3>1, DrainMoves, LogsMoves DEF GoesOn, life
    <2> QED BY <1>3, <2>1
         DEF Drain, DrainUnknown, DrainPrepared, DrainClaimed, DrainResolved, exchange
  <1>4. CASE DrainFails(p)
    BY <1>4 DEF DrainFails, DrainRaises, Draining, GoesOn, TypeOK, exchange
  <1>5. CASE ReconcileReads(p) \/ ReconcileFails(p)
    BY <1>5 DEF ReconcileReads, ReconcileFails, GoesOn, TypeOK, exchange
  <1>6. ASSUME NEW w \in Watch,
               DisarmUnadopted(p, w) \/ DisarmLoses(p, w) \/ DisarmLogged(p, w) \/ Adopt(p, w)
        PROVE  GoesOn /\ UNCHANGED <<fireMem, sent, orders, lane>>
    BY <1>6 DEF DisarmUnadopted, DisarmLoses, DisarmLogged, Adopt, GoesOn, life, exchange
  <1>7. ASSUME NEW w \in Watch, DisarmWins(p, w)
        PROVE  GoesOn /\ UNCHANGED <<fireMem, sent, orders, lane>>
    <2>1. \A q \in Proc : claimed[q] \subseteq claimed'[q]
      BY <1>7 DEF DisarmWins, TypeOK
    <2> QED BY <1>7, <2>1 DEF DisarmWins, GoesOn, life, exchange
  <1>8. CASE ReconcileEnds(p)
    BY <1>8 DEF ReconcileEnds, TakesRow, GoesOn, TypeOK, exchange
  <1>9. CASE CloseClaims(p)
    <2>1. \A q \in Proc : claimed[q] \subseteq claimed'[q]
      BY <1>9 DEF CloseClaims, TypeOK
    <2> QED BY <1>9, <2>1 DEF CloseClaims, GoesOn, TypeOK, exchange
  <1>10. CASE LeaveLoop(p) \/ CloseJoins(p) \/ CloseDrains(p) \/ CloseEnds(p)
    BY <1>10 DEF LeaveLoop, CloseJoins, CloseDrains, CloseEnds, GoesOn, TypeOK, exchange
  <1> QED BY <1>1, <1>2, <1>3, <1>4, <1>5, <1>6, <1>7, <1>8, <1>9, <1>10
          DEF ControlMoves, DbFails, Reconcile

\* Nor do the lanes that look for work.
LaneLooks(p) ==
  \/ \E l \in Hot, w \in Watch : Observe(p, l, w)
  \/ \E w \in Watch : PrepareStarts(p, w)
  \/ PrepareFails(p) \/ PrepareDrops(p) \/ PrepareReads(p) \/ PrepareSends(p)

LEMMA LookGoesOn ==
  ASSUME NEW p \in Proc, LaneLooks(p)
  PROVE  GoesOn /\ UNCHANGED <<fireMem, sent, orders>>
  BY DEF LaneLooks, Observe, PrepareStarts, PrepareFails, PrepareDrops, PrepareReads,
         PrepareSends, GoesOn, life, fireMem, exchange

LEMMA ClaimGoesOn ==
  ASSUME TypeOK, NEW p \in Proc, NEW l \in Hot, Claim(p, l)
  PROVE  GoesOn
  <1> DEFINE more == claimed[p] \cup {lane[p][l].watch}
  <1>1. claimed' = claimed \/ claimed' = [claimed EXCEPT ![p] = more]
    BY DEF Claim
  <1>2. \A q \in Proc : claimed[q] \subseteq claimed'[q]
    <2>1. CASE claimed' = claimed
      BY <2>1
    <2>2. CASE claimed' = [claimed EXCEPT ![p] = more]
      <3>1. claimed[p] \subseteq more
        OBVIOUS
      <3> HIDE DEF more
      <3> QED BY <2>2, <3>1 DEF TypeOK
    <2> QED BY <1>1, <2>1, <2>2
  <1> QED BY <1>2 DEF Claim, GoesOn, life

LEMMA CustodyStep ==
  ASSUME TypeOK, Custody, OneLaneFires, [Next]_vars
  PROVE  Custody'
  <1>1. CASE Operator \/ UNCHANGED vars \/ \E t \in Token : TickReaches(t)
    <2>1. GoesOn /\ UNCHANGED <<fireMem, sent, orders>>
      BY <1>1 DEF Operator, Arm, RequestDisarm, TickReaches, GoesOn, vars, life, fireMem, exchange
    <2> QED BY <2>1, CustodyKept
  <1>2. ASSUME NEW p \in Proc, ControlMoves(p) \/ LaneLooks(p) PROVE Custody'
    BY <1>2, ControlGoesOn, LookGoesOn, CustodyKept
  <1>3. ASSUME NEW p \in Proc, StopWorker(p) \/ Crash(p) PROVE Custody'
    <2>1. /\ MemoryLost(p)
          /\ UNCHANGED <<sent, orders>>
      BY <1>3 DEF StopWorker, Crash, exchange
    <2>2. /\ ctl'[p] = "dead"
          /\ \A w \in Watch : fire'[p][w] = "none" /\ attempts'[p][w] = 0
          /\ \A q \in Proc : q # p => /\ ctl'[q] = ctl[q]
                                      /\ fire'[q] = fire[q]
                                      /\ attempts'[q] = attempts[q]
                                      /\ claimed'[q] = claimed[q]
      BY <2>1 DEF MemoryLost, TypeOK
    <2> QED BY <2>1, <2>2 DEF Custody, CustodyAt
  <1>4. ASSUME NEW p \in Proc, NEW l \in Hot, Claim(p, l) PROVE Custody'
    <2> DEFINE w == lane[p][l].watch
    <2>1. w \in Watch /\ ctl[p] # "dead"
      BY <1>4, LaneWatch, SlowIsALane DEF Claim, OnLane, OneLaneFires, Idle
    <2>2. GoesOn
      BY <1>4, ClaimGoesOn
    <2>3. CASE w \in claimed[p]
      BY <1>4, <2>2, <2>3, CustodyKept DEF Claim, fireMem, exchange
    <2>4. CASE w \notin claimed[p]
      <3>1. Stage(p, w, "won") /\ w \in claimed'[p] /\ UNCHANGED <<ctl, attempts, sent, orders>>
        BY <1>4, <2>1, <2>4 DEF Claim, TypeOK, life, exchange
      <3>2. fire[p][w] = "none" /\ sent[p][w] = "none" /\ attempts[p][w] = 0
        BY <2>1, <2>4 DEF Custody, CustodyAt
      <3> QED BY <2>1, <2>2, <3>1, <3>2, CustodyOfStage DEF FireStage
    <2> QED BY <2>3, <2>4
  <1>5. ASSUME NEW p \in Proc, NEW l \in Lane, NEW o, Resolve(p, l, o),
               OnLane(p, l, "firing"),
               UNCHANGED <<ctl, claimed, attempts, sent, orders>>
        PROVE  Custody'
    <2> DEFINE w == lane[p][l].watch
    <2>1. w \in Watch /\ fire[p][w] # "none"
      BY <1>5, LaneWatch DEF OnLane, OneLaneFires, Working
    <2>2. Stage(p, w, "over") /\ GoesOn
      BY <1>5 DEF Resolve, GoesOn
    <2> QED BY <1>5, <2>1, <2>2, WorkIsClaimed, CustodyOfStage DEF FireStage
  <1>6. ASSUME NEW p \in Proc, NEW l \in Hot, GuardPasses(p, l) PROVE Custody'
    <2> DEFINE w == lane[p][l].watch
    <2>1. w \in Watch /\ fire[p][w] = "won"
      BY <1>6, LaneWatch, SlowIsALane DEF GuardPasses, Firing, OnLane
    <2>2. sent[p][w] = "none" /\ attempts[p][w] < MaxAttempts
      BY <2>1, ConstantsAssumption DEF Custody, CustodyAt
    <2>3. Stage(p, w, "attempt") /\ GoesOn /\ UNCHANGED <<ctl, claimed, attempts, sent, orders>>
      BY <1>6 DEF GuardPasses, GoesOn, life, exchange
    <2> QED BY <2>1, <2>2, <2>3, WorkIsClaimed, CustodyOfStage DEF FireStage
  <1>7. ASSUME NEW p \in Proc, NEW l \in Lane, PostLeaves(p, l) PROVE Custody'
    <2>1. PICK w \in Watch : w = lane[p][l].watch /\ fire[p][w] = "attempt"
      BY <1>7, LaneWatch DEF PostLeaves, Firing, OnLane
    <2>2. GoesOn /\ UNCHANGED <<ctl, claimed, attempts, orders>>
      BY <1>7 DEF PostLeaves, GoesOn, life, exchange
    <2>3. sent' = [sent EXCEPT ![p][w] = "out"] /\ fire' = [fire EXCEPT ![p][w] = "posting"]
      BY <1>7, <2>1 DEF PostLeaves, Stage
    <2>4. fire'[p][w] = "posting" /\ sent'[p][w] = "out"
      BY <2>1, <2>3 DEF TypeOK
    <2>5. CustodyAt(p, w)'
      BY <2>1, <2>2, <2>4 DEF Custody, CustodyAt
    <2>6. \A q \in Proc, v \in Watch :
            q # p \/ v # w => fire'[q][v] = fire[q][v] /\ sent'[q][v] = sent[q][v]
      BY <2>3 DEF TypeOK
    <2> QED BY <2>1, <2>2, <2>5, <2>6, CustodyOfOne
  <1>8. ASSUME NEW p \in Proc, NEW l \in Lane, AnswerRefused(p, l) PROVE Custody'
    <2>1. PICK w \in Watch :
            w = lane[p][l].watch /\ fire[p][w] = "posting" /\ sent[p][w] = "refused"
      BY <1>8, LaneWatch DEF AnswerRefused, Firing, OnLane
    <2>2. GoesOn /\ UNCHANGED <<ctl, claimed, orders>>
      BY <1>8 DEF AnswerRefused, GoesOn, life
    <2>3. /\ sent' = [sent EXCEPT ![p][w] = "none"]
          /\ fire' = [fire EXCEPT ![p][w] = "waiting"]
          /\ attempts' = [attempts EXCEPT ![p][w] = @ + 1]
      BY <1>8, <2>1 DEF AnswerRefused, Stage
    <2>4. fire'[p][w] = "waiting" /\ sent'[p][w] = "none" /\ attempts'[p][w] = attempts[p][w] + 1
      BY <2>1, <2>3 DEF TypeOK
    <2>5. CustodyAt(p, w)'
      BY <2>1, <2>2, <2>4 DEF Custody, CustodyAt
    <2>6. \A q \in Proc, v \in Watch :
            q # p \/ v # w => /\ fire'[q][v] = fire[q][v] /\ sent'[q][v] = sent[q][v]
                              /\ attempts'[q][v] = attempts[q][v]
      BY <2>3 DEF TypeOK
    <2> QED BY <2>1, <2>2, <2>5, <2>6, CustodyOfOne
  <1>9. ASSUME NEW p \in Proc, NEW l \in Lane, AnswerTerminal(p, l) PROVE Custody'
    <2>1. PICK w \in Watch :
            w = lane[p][l].watch /\ fire[p][w] = "posting" /\ sent[p][w] = "refused"
      BY <1>9, LaneWatch DEF AnswerTerminal, Firing, OnLane
    <2>2. GoesOn /\ UNCHANGED <<ctl, claimed, attempts, orders>>
      BY <1>9 DEF AnswerTerminal, GoesOn, life
    <2>3. sent' = [sent EXCEPT ![p][w] = "none"] /\ fire' = [fire EXCEPT ![p][w] = "over"]
      BY <1>9, <2>1 DEF AnswerTerminal, Resolve, Stage
    <2>4. fire'[p][w] = "over" /\ sent'[p][w] = "none"
      BY <2>1, <2>3 DEF TypeOK
    <2>5. CustodyAt(p, w)'
      BY <2>1, <2>2, <2>4 DEF Custody, CustodyAt
    <2>6. \A q \in Proc, v \in Watch :
            q # p \/ v # w => fire'[q][v] = fire[q][v] /\ sent'[q][v] = sent[q][v]
      BY <2>3 DEF TypeOK
    <2> QED BY <2>1, <2>2, <2>5, <2>6, CustodyOfOne
  <1>10. ASSUME NEW p \in Proc, NEW w \in Watch, NEW stage \in {"over", "due"},
                Stage(p, w, stage), fire[p][w] \in Pending,
                UNCHANGED <<ctl, claimed, attempts, sent, orders>>
         PROVE  Custody'
    <2>1. GoesOn
      BY <1>10 DEF GoesOn
    <2>2. sent[p][w] = "none" /\ fire[p][w] # "none"
      BY <1>10 DEF Custody, CustodyAt, Pending
    <2> QED BY <1>10, <2>1, <2>2, WorkIsClaimed, CustodyOfStage DEF FireStage
  <1>11. ASSUME NEW p \in Proc, NEW w \in Watch,
                CloseCuts(p, w) \/ FireDue(p, w) \/ RetryCut(p, w) \/ RetryGivesUp(p, w)
         PROVE  Custody'
    <2>1. /\ \E stage \in {"over", "due"} : Stage(p, w, stage)
          /\ fire[p][w] \in Pending
          /\ UNCHANGED <<ctl, claimed, attempts, sent, orders>>
      BY <1>11 DEF CloseCuts, FireDue, RetryCut, RetryGivesUp, RetryReady, Pending, life, exchange
    <2> QED BY <1>10, <2>1
  <1>12. ASSUME NEW p \in Proc, NEW w \in Watch, RetryStarts(p, w) PROVE Custody'
    <2>1. Stage(p, w, "attempt") /\ GoesOn /\ UNCHANGED <<ctl, claimed, attempts, sent, orders>>
      BY <1>12 DEF RetryStarts, GoesOn, life, exchange
    <2>2. fire[p][w] = "due" /\ attempts[p][w] < MaxAttempts
      BY <1>12 DEF RetryStarts, RetryReady
    <2>3. sent[p][w] = "none"
      BY <2>2 DEF Custody, CustodyAt
    <2> QED BY <2>1, <2>2, <2>3, WorkIsClaimed, CustodyOfStage DEF FireStage
  <1>13. ASSUME NEW p \in Proc, PrepareMissed(p) PROVE Custody'
    <2> DEFINE w == lane[p]["slow"].watch
    <2>1. w \in Watch /\ ctl[p] # "dead"
      BY <1>13, LaneWatch, SlowIsALane DEF PrepareMissed, OnLane, OneLaneFires, Idle
    <2>2. Stage(p, w, "over") /\ UNCHANGED <<ctl, attempts, sent, orders>>
      BY <1>13 DEF PrepareMissed, Resolve, life, exchange
    <2>3. GoesOn /\ w \in claimed'[p]
      BY <1>13, <2>1 DEF PrepareMissed, GoesOn, TypeOK, life
    <2> QED BY <2>1, <2>2, <2>3, CustodyOfStage DEF FireStage
  <1>14. ASSUME NEW p \in Proc, NEW w \in Watch, Accept(p, w) \/ Refuse(p, w) PROVE Custody'
    <2>1. sent[p][w] = "out" /\ GoesOn /\ UNCHANGED <<ctl, claimed, fire, attempts>>
      BY <1>14 DEF Accept, Refuse, GoesOn, life, fireMem
    <2>2. CustodyAt(p, w)'
      BY <1>14, <2>1 DEF Accept, Refuse, Custody, CustodyAt, TypeOK
    <2>3. \A q \in Proc, v \in Watch :
            q # p \/ v # w => sent'[q][v] = sent[q][v] /\ orders'[q][v] = orders[q][v]
      BY <1>14 DEF Accept, Refuse, TypeOK
    <2> QED BY <2>1, <2>2, <2>3, CustodyOfOne
  <1>15. ASSUME NEW p \in Proc, NEW l \in Lane,
                SignFails(p, l) \/ Rehearse(p, l) \/ AnswerPosted(p, l) \/ AnswerNone(p, l)
         PROVE  Custody'
    <2>1. /\ \E o \in Outcome : Resolve(p, l, o)
          /\ OnLane(p, l, "firing")
          /\ UNCHANGED <<ctl, claimed, attempts, sent, orders>>
      BY <1>15 DEF SignFails, Rehearse, AnswerPosted, AnswerNone, Firing, Outcome, life, exchange
    <2> QED BY <1>5, <2>1
  <1>16. ASSUME NEW p \in Proc, NEW l \in Hot, GuardRefuses(p, l) PROVE Custody'
    <2>1. /\ Resolve(p, l, "guard_refused")
          /\ OnLane(p, l, "firing")
          /\ UNCHANGED <<ctl, claimed, attempts, sent, orders>>
      BY <1>16 DEF GuardRefuses, Firing, life, exchange
    <2> QED BY <1>5, <2>1, SlowIsALane
  <1> QED BY <1>1, <1>2, <1>3, <1>4, <1>6, <1>7, <1>8, <1>9, <1>11, <1>12, <1>13, <1>14,
             <1>15, <1>16
          DEF Next, Worker, Control, Close, HotStep, Attempt, Answer, Prepare, Retry, Exchange,
              ControlMoves, LaneLooks

-----------------------------------------------------------------------------
(* One lane for one fire                                                   *)

\* A step that moves no lane, ends no run, and takes no fire from a lane at work.
LEMMA LanesKept ==
  ASSUME OneLaneFires, GoesOn, UNCHANGED lane,
         \A p \in Proc, w \in Watch : fire[p][w] \in Working => fire'[p][w] \in Working,
         TypeOK
  PROVE  OneLaneFires'
  BY LaneWatch DEF OneLaneFires, GoesOn, OnLane

\* A lane that gives up its watch, and the fire with it when it worked on one.
LEMMA LaneFreed ==
  ASSUME TypeOK, OneLaneFires, NEW p \in Proc, NEW l \in Lane, Free(p, l), GoesOn,
         \A q \in Proc, v \in Watch :
           /\ fire[q][v] \in Working
           /\ ~(q = p /\ OnLane(p, l, "firing") /\ v = lane[p][l].watch)
           => fire'[q][v] \in Working
  PROVE  OneLaneFires'
  <1>1. /\ lane'[p][l] = Idle
        /\ \A q \in Proc, m \in Lane : q # p \/ m # l => lane'[q][m] = lane[q][m]
    BY DEF Free, TypeOK
  <1>2. Idle.at # "firing"
    BY DEF Idle
  <1> QED BY <1>1, <1>2, LaneWatch DEF OneLaneFires, OnLane, GoesOn

\* A lane of a live run that turns to a watch without firing it.
LEMMA LaneTurns ==
  ASSUME TypeOK, OneLaneFires, NEW p \in Proc, NEW l \in Lane, NEW w \in Watch,
         NEW stage \in {"seen", "reading", "ready"}, GoTo(p, l, stage, w), GoesOn,
         lane[p][l].at # "firing", ctl[p] \notin {"new", "dead"}, UNCHANGED fire
  PROVE  OneLaneFires'
  <1>1. /\ lane'[p][l].at = stage
        /\ \A q \in Proc, m \in Lane : q # p \/ m # l => lane'[q][m] = lane[q][m]
    BY DEF GoTo, TypeOK
  <1>2. ctl'[p] \notin {"new", "dead"}
    BY DEF GoesOn
  <1> QED BY <1>1, <1>2, LaneWatch DEF OneLaneFires, OnLane, GoesOn

\* A lane of a live run that takes up a fire no lane works on.
LEMMA LaneTakesUp ==
  ASSUME TypeOK, OneLaneFires, NEW p \in Proc, NEW l \in Lane, NEW w \in Watch,
         NEW stage \in Working, GoTo(p, l, "firing", w), Stage(p, w, stage), GoesOn,
         fire[p][w] \notin Working, ctl[p] \notin {"new", "dead"}
  PROVE  OneLaneFires'
  <1>1. /\ lane'[p][l] = [at |-> "firing", watch |-> w]
        /\ \A q \in Proc, m \in Lane : q # p \/ m # l => lane'[q][m] = lane[q][m]
    BY DEF GoTo, TypeOK
  <1>2. /\ fire'[p][w] \in Working
        /\ \A q \in Proc, v \in Watch : q # p \/ v # w => fire'[q][v] = fire[q][v]
    BY DEF Stage, TypeOK
  <1>3. \A m \in Lane : OnLane(p, m, "firing") => lane[p][m].watch # w
    BY DEF OneLaneFires
  <1>4. ctl'[p] \notin {"new", "dead"}
    BY DEF GoesOn
  <1> QED BY <1>1, <1>2, <1>3, <1>4, LaneWatch DEF OneLaneFires, OnLane, GoesOn

LEMMA OneLaneStep ==
  ASSUME TypeOK, Custody, OneLaneFires, [Next]_vars
  PROVE  OneLaneFires'
  <1>1. CASE Operator \/ UNCHANGED vars \/ \E t \in Token : TickReaches(t)
    <2>1. GoesOn /\ UNCHANGED <<fire, lane>>
      BY <1>1 DEF Operator, Arm, RequestDisarm, TickReaches, GoesOn, vars, life, fireMem
    <2> QED BY <2>1, LanesKept
  <1>2. ASSUME NEW p \in Proc, ControlMoves(p) PROVE OneLaneFires'
    BY <1>2, ControlGoesOn, LanesKept DEF fireMem
  <1>3. ASSUME NEW p \in Proc, StopWorker(p) \/ Crash(p) PROVE OneLaneFires'
    <2>1. MemoryLost(p)
      BY <1>3 DEF StopWorker, Crash
    <2>2. /\ ctl'[p] = "dead"
          /\ \A l \in Lane : lane'[p][l] = Idle
          /\ \A q \in Proc : q # p => /\ ctl'[q] = ctl[q]
                                      /\ fire'[q] = fire[q]
                                      /\ lane'[q] = lane[q]
      BY <2>1 DEF MemoryLost, TypeOK
    <2> QED BY <2>2 DEF OneLaneFires, OnLane, Idle
  <1>4. ASSUME NEW p \in Proc, NEW l \in Hot, NEW w \in Watch, Observe(p, l, w)
        PROVE  OneLaneFires'
    <2>1. GoTo(p, l, "seen", w) /\ lane[p][l].at # "firing" /\ ctl[p] \notin {"new", "dead"}
      BY <1>4 DEF Observe, LanesUp, OnLane
    <2> QED BY <1>4, <2>1, LookGoesOn, LaneTurns, SlowIsALane DEF LaneLooks, fireMem
  <1>5. ASSUME NEW p \in Proc, NEW w \in Watch, PrepareStarts(p, w) PROVE OneLaneFires'
    <2>1. /\ UNCHANGED lane \/ GoTo(p, "slow", "reading", w)
          /\ lane[p]["slow"].at # "firing"
          /\ ctl[p] \notin {"new", "dead"}
      BY <1>5 DEF PrepareStarts, LanesUp, OnLane
    <2>2. GoesOn /\ UNCHANGED fire
      BY <1>5, LookGoesOn DEF LaneLooks, fireMem
    <2> QED BY <2>1, <2>2, LanesKept, LaneTurns, SlowIsALane
  <1>6. ASSUME NEW p \in Proc, PrepareReads(p) PROVE OneLaneFires'
    <2>1. /\ GoTo(p, "slow", "ready", lane[p]["slow"].watch)
          /\ lane[p]["slow"].at = "reading"
      BY <1>6 DEF PrepareReads, OnLane
    <2>2. GoesOn /\ UNCHANGED fire
      BY <1>6, LookGoesOn DEF LaneLooks, fireMem
    <2>3. lane[p]["slow"].watch \in Watch /\ ctl[p] \notin {"new", "dead"}
      BY <2>1, LaneWatch, SlowIsALane DEF OneLaneFires, Idle
    <2> QED BY <2>1, <2>2, <2>3, LaneTurns, SlowIsALane
  <1>7. ASSUME NEW p \in Proc, PrepareFails(p) \/ PrepareDrops(p) \/ PrepareSends(p)
        PROVE  OneLaneFires'
    <2>1. GoesOn /\ UNCHANGED fire
      BY <1>7, LookGoesOn DEF LaneLooks, fireMem
    <2>2. Free(p, "slow")
      BY <1>7 DEF PrepareFails, PrepareDrops, PrepareSends
    <2> QED BY <2>1, <2>2, LaneFreed, SlowIsALane
  <1>8. ASSUME NEW p \in Proc, NEW l \in Hot, Claim(p, l) PROVE OneLaneFires'
    <2> DEFINE w == lane[p][l].watch
    <2>1. w \in Watch /\ ctl[p] \notin {"new", "dead"}
      BY <1>8, LaneWatch, SlowIsALane DEF Claim, OnLane, OneLaneFires, Idle
    <2>2. GoesOn
      BY <1>8, ClaimGoesOn
    <2>3. CASE w \in claimed[p]
      <3>1. Free(p, l) /\ UNCHANGED fire
        BY <1>8, <2>3 DEF Claim
      <3> QED BY <2>2, <3>1, LaneFreed, SlowIsALane
    <2>4. CASE w \notin claimed[p]
      <3>1. Stage(p, w, "won") /\ GoTo(p, l, "firing", w)
        BY <1>8, <2>4 DEF Claim
      <3>2. fire[p][w] \notin Working
        BY <2>1, <2>4 DEF Custody, CustodyAt, Working
      <3> QED BY <2>1, <2>2, <3>1, <3>2, LaneTakesUp, SlowIsALane DEF Working
    <2> QED BY <2>3, <2>4
  <1>9. ASSUME NEW p \in Proc, NEW w \in Watch, RetryStarts(p, w) PROVE OneLaneFires'
    <2>1. /\ Stage(p, w, "attempt") /\ GoTo(p, "slow", "firing", w)
          /\ fire[p][w] \notin Working
          /\ ctl[p] \notin {"new", "dead"}
      BY <1>9 DEF RetryStarts, RetryReady, LanesUp, Working
    <2>2. GoesOn
      BY <1>9 DEF RetryStarts, GoesOn, life
    <2> QED BY <2>1, <2>2, LaneTakesUp, SlowIsALane DEF Working
  <1>10. ASSUME NEW p \in Proc, NEW l \in Lane, Free(p, l), OnLane(p, l, "firing"), GoesOn,
                NEW stage, Stage(p, lane[p][l].watch, stage)
         PROVE  OneLaneFires'
    <2>1. \A q \in Proc, v \in Watch :
            ~(q = p /\ v = lane[p][l].watch) => fire'[q][v] = fire[q][v]
      BY <1>10 DEF Stage, TypeOK
    <2> QED BY <1>10, <2>1, LaneFreed
  <1>11. ASSUME NEW p \in Proc, NEW l \in Lane,
                SignFails(p, l) \/ Rehearse(p, l) \/ Answer(p, l)
                  \/ (l \in Hot /\ GuardRefuses(p, l))
         PROVE  OneLaneFires'
    <2>1. OnLane(p, l, "firing") /\ GoesOn
      BY <1>11 DEF SignFails, Rehearse, Answer, AnswerPosted, AnswerRefused, AnswerTerminal,
                   AnswerNone, GuardRefuses, Firing, GoesOn, life
    <2>2. Free(p, l) /\ \E stage \in FireStage : Stage(p, lane[p][l].watch, stage)
      BY <1>11 DEF SignFails, Rehearse, Answer, AnswerPosted, AnswerRefused, AnswerTerminal,
                   AnswerNone, GuardRefuses, Resolve, FireStage
    <2> QED BY <1>10, <2>1, <2>2
  <1>12. ASSUME NEW p \in Proc, PrepareMissed(p) PROVE OneLaneFires'
    <2> DEFINE w == lane[p]["slow"].watch
    <2>1. Free(p, "slow") /\ Stage(p, w, "over") /\ OnLane(p, "slow", "reading")
      BY <1>12 DEF PrepareMissed, Resolve
    <2>2. w \in Watch /\ ctl[p] # "dead"
      BY <2>1, LaneWatch, SlowIsALane DEF OnLane, OneLaneFires, Idle
    <2>3. fire[p][w] \notin Working
      BY <1>12, <2>2 DEF PrepareMissed, Custody, CustodyAt, Working
    <2>4. GoesOn
      <3>1. \A q \in Proc : claimed[q] \subseteq claimed'[q]
        BY <1>12 DEF PrepareMissed, TypeOK
      <3> QED BY <1>12, <3>1 DEF PrepareMissed, GoesOn, life
    <2>5. \A q \in Proc, v \in Watch : q # p \/ v # w => fire'[q][v] = fire[q][v]
      BY <2>1 DEF Stage, TypeOK
    <2> QED BY <2>1, <2>3, <2>4, <2>5, LaneFreed, SlowIsALane
  <1>13. ASSUME NEW p \in Proc, NEW w \in Watch, NEW stage \in FireStage, Stage(p, w, stage),
                fire[p][w] \in Working => stage \in Working, GoesOn, UNCHANGED lane
         PROVE  OneLaneFires'
    <2>1. \A q \in Proc, v \in Watch : fire[q][v] \in Working => fire'[q][v] \in Working
      BY <1>13 DEF Stage, TypeOK
    <2> QED BY <1>13, <2>1, LanesKept
  <1>14. ASSUME NEW p \in Proc, NEW l \in Lane, PostLeaves(p, l) \/ (l \in Hot /\ GuardPasses(p, l))
         PROVE  OneLaneFires'
    <2>1. lane[p][l].watch \in Watch
      BY <1>14, LaneWatch DEF PostLeaves, GuardPasses, Firing, OnLane
    <2>2. \E stage \in Working : Stage(p, lane[p][l].watch, stage)
      BY <1>14 DEF PostLeaves, GuardPasses, Working
    <2>3. GoesOn /\ UNCHANGED lane
      BY <1>14 DEF PostLeaves, GuardPasses, GoesOn, life
    <2> QED BY <1>13, <2>1, <2>2, <2>3 DEF Working, FireStage
  <1>15. ASSUME NEW p \in Proc, NEW w \in Watch,
                CloseCuts(p, w) \/ FireDue(p, w) \/ RetryCut(p, w) \/ RetryGivesUp(p, w)
         PROVE  OneLaneFires'
    <2>1. /\ \E stage \in FireStage : Stage(p, w, stage)
          /\ fire[p][w] \notin Working
          /\ GoesOn /\ UNCHANGED lane
      BY <1>15 DEF CloseCuts, FireDue, RetryCut, RetryGivesUp, RetryReady, Working, FireStage,
                   GoesOn, life
    <2> QED BY <1>13, <2>1
  <1>16. ASSUME NEW p \in Proc, NEW w \in Watch, Accept(p, w) \/ Refuse(p, w)
         PROVE  OneLaneFires'
    <2>1. GoesOn /\ UNCHANGED <<fire, lane>>
      BY <1>16 DEF Accept, Refuse, GoesOn, life, fireMem
    <2> QED BY <2>1, LanesKept
  <1> QED BY <1>1, <1>2, <1>3, <1>4, <1>5, <1>6, <1>7, <1>8, <1>9, <1>11, <1>12, <1>14,
             <1>15, <1>16, SlowIsALane
          DEF Next, Worker, Control, Close, HotStep, Attempt, Prepare, Retry, Exchange,
              ControlMoves

-----------------------------------------------------------------------------
(* The rows                                                                *)

\* Why a run closes a row: it finds it left firing by another, it wins the claim of a watch
\* that is to be disarmed or does not hold it, or it is told what became of its fire.
ClosedBy(p, w, o) ==
  \/ o = "interrupted" /\ OpenSniper(p)
  \/ o = "disarmed" /\ (DisarmUnadopted(p, w) \/ DisarmWins(p, w))
  \/ DrainResolved(p) /\ Head(inbox[p]) = [watch |-> w, what |-> o]

RowCloses(p, w, o) ==
  /\ IsOpen(w) /\ ClosedBy(p, w, o)
  /\ state'[w] = Settle(o).state /\ reason'[w] = Settle(o).reason /\ closer'[w] = p

RowStays(w) == state'[w] = state[w] /\ reason'[w] = reason[w] /\ closer'[w] = closer[w]

\* What a step does to one row.
RowMoves(w) ==
  \/ RowStays(w)
  \/ state[w] = "none" /\ state'[w] = "armed" /\ closer'[w] = closer[w]
  \/ state[w] = "armed" /\ state'[w] = "firing" /\ closer'[w] = closer[w]
  \/ \E p \in Proc, o \in Outcome : RowCloses(p, w, o)

LEMMA CloseRowMoves ==
  ASSUME TypeOK, NEW p \in Proc, NEW w \in Watch, NEW o \in Outcome,
         CloseRow(p, w, o), ClosedBy(p, w, o), NEW v \in Watch
  PROVE  RowMoves(v)
  <1>1. CASE IsOpen(w) /\ v = w
    BY <1>1 DEF CloseRow, TypeOK, RowMoves, RowCloses
  <1>2. CASE ~IsOpen(w) \/ v # w
    BY <1>2 DEF CloseRow, TypeOK, RowMoves, RowStays, db
  <1> QED BY <1>1, <1>2

\* The steps that write no row.
LEMMA ControlWritesNoRow ==
  ASSUME NEW p \in Proc,
         Worker(p) \/ DbFails(p) \/ DrainUnknown(p) \/ DrainPrepared(p) \/ ReconcileReads(p)
           \/ ReconcileEnds(p) \/ Close(p) \/ \E w \in Watch : DisarmLoses(p, w) \/ DisarmLogged(p, w) \/ Adopt(p, w)
  PROVE  UNCHANGED db
  BY DEF Worker, StartWorker, BeatFails, StopSignal, StopWorker, Crash, DbFails, OpenFails,
         DrainFails, ReconcileFails, DrainUnknown, DrainPrepared, ReconcileReads, ReconcileEnds,
         Close, LeaveLoop, CloseClaims, CloseJoins, CloseDrains, CloseEnds, CloseCuts,
         DisarmLoses, DisarmLogged, Adopt

LEMMA LanesWriteNoRow ==
  ASSUME NEW p \in Proc,
         \/ Prepare(p)
         \/ \E l \in Hot : HotStep(p, l)
         \/ \E l \in Lane : Attempt(p, l)
         \/ \E w \in Watch : FireDue(p, w) \/ Retry(p, w) \/ Exchange(p, w)
  PROVE  UNCHANGED db
  <1>1. CASE Prepare(p)
    BY <1>1 DEF Prepare, PrepareFails, PrepareDrops, PrepareMissed, PrepareReads, PrepareSends,
                PrepareStarts
  <1>2. CASE \E l \in Hot : HotStep(p, l)
    BY <1>2 DEF HotStep, Claim, GuardRefuses, GuardPasses, Observe
  <1>3. ASSUME NEW l \in Lane, Attempt(p, l) PROVE UNCHANGED db
    <2>1. CASE PostLeaves(p, l) \/ SignFails(p, l) \/ Rehearse(p, l)
      BY <2>1 DEF PostLeaves, SignFails, Rehearse
    <2>2. CASE Answer(p, l)
      BY <2>2 DEF Answer, AnswerPosted, AnswerRefused, AnswerTerminal, AnswerNone
    <2> QED BY <1>3, <2>1, <2>2 DEF Attempt
  <1>4. CASE \E w \in Watch : FireDue(p, w) \/ Retry(p, w) \/ Exchange(p, w)
    BY <1>4 DEF FireDue, Retry, RetryCut, RetryGivesUp, RetryStarts, Exchange, Accept, Refuse
  <1> QED BY <1>1, <1>2, <1>3, <1>4

LEMMA RowStep ==
  ASSUME TypeOK, [Next]_vars, NEW v \in Watch
  PROVE  RowMoves(v)
  <1>1. ASSUME UNCHANGED db PROVE RowMoves(v)
    BY <1>1 DEF db, RowMoves, RowStays
  <1>2. ASSUME NEW w \in Watch, Arm(w) PROVE RowMoves(v)
    BY <1>2 DEF Arm, TypeOK, RowMoves, RowStays
  <1>3. ASSUME NEW p \in Proc, OpenSniper(p) PROVE RowMoves(v)
    <2>1. CASE state[v] = "firing"
      <3>1. RowCloses(p, v, "interrupted")
        BY <1>3, <2>1 DEF OpenSniper, RowCloses, ClosedBy, IsOpen, OpenStates
      <3> QED BY <3>1 DEF RowMoves, Outcome
    <2>2. CASE state[v] # "firing"
      BY <1>3, <2>2 DEF OpenSniper, RowMoves, RowStays
    <2> QED BY <2>1, <2>2
  <1>4. ASSUME NEW p \in Proc, DrainClaimed(p) PROVE RowMoves(v)
    BY <1>4 DEF DrainClaimed, TypeOK, RowMoves, RowStays
  <1>5. ASSUME NEW p \in Proc, DrainResolved(p) PROVE RowMoves(v)
    <2>1. PICK w, o : w = Head(inbox[p]).watch /\ o = Head(inbox[p]).what
      OBVIOUS
    <2>2. Head(inbox[p]) \in Event /\ o \in Outcome /\ CloseRow(p, w, o)
      BY <1>5, <2>1, HeadIsEvent DEF DrainResolved, Draining
    <2>3. w \in Watch /\ Head(inbox[p]) = [watch |-> w, what |-> o]
      BY <2>1, <2>2 DEF Event
    <2> QED BY <1>5, <2>2, <2>3, CloseRowMoves DEF ClosedBy
  <1>6. ASSUME NEW p \in Proc, NEW w \in Watch, DisarmUnadopted(p, w) \/ DisarmWins(p, w)
        PROVE  RowMoves(v)
    <2>1. CloseRow(p, w, "disarmed") /\ ClosedBy(p, w, "disarmed")
      BY <1>6 DEF DisarmUnadopted, DisarmWins, DisarmWrites, ClosedBy
    <2> QED BY <2>1, CloseRowMoves DEF Outcome
  <1>7. CASE UNCHANGED vars \/ (\E w \in Watch : RequestDisarm(w)) \/ \E t \in Token : TickReaches(t)
    BY <1>1, <1>7 DEF vars, RequestDisarm, TickReaches
  <1> QED BY <1>1, <1>2, <1>3, <1>4, <1>5, <1>6, <1>7, ControlWritesNoRow, LanesWriteNoRow
          DEF Next, Operator, Control, Drain, Reconcile

-----------------------------------------------------------------------------
(* The theorems                                                            *)

LEMMA InitIInv ==
  ASSUME Init
  PROVE  IInv
  <1>1. TypeOK
    <2>1. /\ [w \in Watch |-> 0] \in [Watch -> 0..MaxAttempts]
          /\ [l \in Lane |-> Idle] \in [Lane -> {Idle} \cup [at : LaneStage, watch : Watch]]
      BY ConstantsAssumption
    <2>2. <<>> \in Seq(Event)
      OBVIOUS
    <2> QED BY <2>1, <2>2 DEF Init, TypeOK, Reasons, CtlStage, FireStage, ViewStage, NoView
  <1>2. Custody
    BY ConstantsAssumption DEF Init, Custody, CustodyAt
  <1>3. OneLaneFires
    BY DEF Init, OneLaneFires, OnLane, Idle
  <1> QED BY <1>1, <1>2, <1>3 DEF IInv

LEMMA IInvStep ==
  ASSUME IInv, [Next]_vars
  PROVE  IInv'
  BY TypeStep, CustodyStep, OneLaneStep DEF IInv

\* The inductive invariant holds in every behavior of the sniper.
THEOREM Invariance == Spec => []IInv
  BY InitIInv, IInvStep, PTL DEF Spec

\* The rows and the memory of every run stay well typed, and no fire posts more often
\* than its window holds, for every May.
THEOREM TypeCorrect == Spec => []TypeOK
  <1>1. IInv => TypeOK
    BY DEF IInv
  <1> QED BY <1>1, Invariance, PTL

\* No worker run places two orders for a watch.
THEOREM OneOrder == Spec => []OneOrderPerLife
  <1>1. IInv => OneOrderPerLife
    BY DEF IInv, Custody, CustodyAt, OneOrderPerLife
  <1> QED BY <1>1, Invariance, PTL

\* A fire that may post again has nothing undecided and nothing accepted.
THEOREM RetrySafe == Spec => []RetryOnlyAfterRefusals
  <1>1. IInv => RetryOnlyAfterRefusals
    BY DEF IInv, Custody, CustodyAt, RetryOnlyAfterRefusals
  <1> QED BY <1>1, Invariance, PTL

\* No step changes a row that is closed, however late its news comes or from which run.
THEOREM ClosedFinal == Spec => ClosedIsFinal
  <1>1. ASSUME TypeOK, [Next]_vars, NEW w \in Watch, state[w] \in ClosedStates
        PROVE  state'[w] = state[w] /\ reason'[w] = reason[w]
    <2>1. ~IsOpen(w) /\ state[w] \notin {"none", "armed"}
      BY <1>1 DEF IsOpen, OpenStates, ClosedStates
    <2> QED BY <1>1, <2>1, RowStep DEF RowMoves, RowStays, RowCloses
  <1>2. TypeOK /\ [Next]_vars =>
          [\A w \in Watch :
             state[w] \in ClosedStates => state'[w] = state[w] /\ reason'[w] = reason[w]]_vars
    BY <1>1
  <1> QED BY <1>2, TypeCorrect, PTL DEF Spec, ClosedIsFinal


-----------------------------------------------------------------------------
(* Outcomes: what a run writes of a watch is true of what it posted        *)

\* A run has something of a watch: it waits to be prepared or may be fired, a lane is at it,
\* or it has a fire.
Busy(p, w) == \E l \in Lane : lane[p][l].at # "idle" /\ lane[p][l].watch = w
Works(p, w) == w \in joins[p] \/ w \in routed[p] \/ Busy(p, w) \/ fire[p][w] # "none"

\* A run works for the rows it holds or that are closed already, and it holds no row that was
\* never inserted. A row read as shut, if held, is closed, and so is one a disarm has written.
HeldAt(p, w) ==
  /\ w \in adopted[p] \/ view[p][w] \notin {"shut", "done"} => state[w] # "none"
  /\ ctl[p] = "reconciling" /\ w \in adopted[p] /\ view[p][w] = "shut" => state[w] \in ClosedStates
  /\ view[p][w] = "written" => state[w] \in ClosedStates
  /\ Works(p, w) => w \in adopted[p] \/ state[w] \in ClosedStates

Held == \A p \in Proc, w \in Watch : HeldAt(p, w)

\* What an outcome says of the posts of its run.
Truth(p, w, o) ==
  IF o = "posted" THEN sent[p][w] = "accepted"
  ELSE o \in {"unanswered", "interrupted"} \/ sent[p][w] = "none"

\* An event that tells an outcome tells the truth, of a fire that is over.
EventTrue(p, e) == e.what \in Outcome => fire[p][e.watch] = "over" /\ Truth(p, e.watch, e.what)
EventsTrue == \A p \in Proc : \A i \in DOMAIN inbox[p] : EventTrue(p, inbox[p][i])

\* The run will not post for the watch again: it is gone, its fire is over, the claim was taken
\* for no fire, or it holds nothing of the watch and will not adopt it.
Away(p, w) == w \notin adopted[p] /\ ~Works(p, w) /\ view[p][w] # "armed"
Done(p, w) ==
  \/ ctl[p] = "dead"
  \/ fire[p][w] = "over"
  \/ fire[p][w] = "none" /\ w \in claimed[p]
  \/ Away(p, w)

EndTrue(p, w) ==
  /\ state[w] \in ClosedStates
  /\ state[w] = "fired" => sent[p][w] = "accepted"
  /\ state[w] # "fired" /\ ~MayRest(w) => sent[p][w] = "none" /\ Done(p, w)

EndsTrue == \A w \in Watch : closer[w] # None => EndTrue(closer[w], w)

OutInv == IInv /\ Held /\ EventsTrue /\ EndsTrue

-----------------------------------------------------------------------------
(* What a step does to the fire and the post of a watch                    *)

\* A run that is gone stays so, a fire that is over or was never won stays so while its run
\* lives, and a post changes while it is out or while its fire makes an attempt.
FireMoves(q, w) ==
  /\ ctl[q] = "dead" => ctl'[q] = "dead"
  /\ fire[q][w] = "over" => fire'[q][w] = "over" \/ ctl'[q] = "dead"
  /\ fire[q][w] = "none" /\ w \in claimed[q] =>
       (fire'[q][w] = "none" /\ w \in claimed'[q]) \/ ctl'[q] = "dead"
  /\ sent'[q][w] = sent[q][w] \/ sent[q][w] = "out" \/ fire[q][w] \in {"attempt", "posting"}
  /\ sent[q][w] = "accepted" => sent'[q][w] = "accepted"

\* A fire that may still go to another stage, or a watch whose claim is free.
Movable(p, w) == fire[p][w] # "over" /\ (w \in claimed[p] => fire[p][w] # "none")

LEMMA StageMoves ==
  ASSUME TypeOK, NEW p \in Proc, NEW v \in Watch, NEW stage, Stage(p, v, stage), Movable(p, v),
         GoesOn, NEW q \in Proc, NEW w \in Watch,
         /\ sent'[q][w] = sent[q][w] \/ sent[q][w] = "out" \/ fire[q][w] \in {"attempt", "posting"}
         /\ sent[q][w] = "accepted" => sent'[q][w] = "accepted"
  PROVE  FireMoves(q, w)
  <1>1. q # p \/ w # v => fire'[q][w] = fire[q][w]
    BY DEF Stage, TypeOK
  <1> QED BY <1>1 DEF FireMoves, Movable, GoesOn

LEMMA FireStep ==
  ASSUME IInv, [Next]_vars, NEW q \in Proc, NEW w \in Watch
  PROVE  FireMoves(q, w)
  <1> USE DEF IInv
  <1>1. ASSUME GoesOn, UNCHANGED <<fireMem, sent>> PROVE FireMoves(q, w)
    BY <1>1 DEF FireMoves, GoesOn, fireMem
  <1>2. CASE Operator \/ UNCHANGED vars \/ \E t \in Token : TickReaches(t)
    <2>1. GoesOn /\ UNCHANGED <<fireMem, sent>>
      BY <1>2 DEF Operator, Arm, RequestDisarm, TickReaches, GoesOn, vars, life, fireMem, exchange
    <2> QED BY <1>1, <2>1
  <1>3. ASSUME NEW p \in Proc, ControlMoves(p) \/ LaneLooks(p) PROVE FireMoves(q, w)
    BY <1>1, <1>3, ControlGoesOn, LookGoesOn
  <1>4. ASSUME NEW p \in Proc, StopWorker(p) \/ Crash(p) PROVE FireMoves(q, w)
    <2>1. MemoryLost(p) /\ UNCHANGED sent
      BY <1>4 DEF StopWorker, Crash, exchange
    <2>2. CASE q = p
      BY <2>1, <2>2 DEF MemoryLost, TypeOK, FireMoves
    <2>3. CASE q # p
      BY <2>1, <2>3 DEF MemoryLost, TypeOK, FireMoves
    <2> QED BY <2>2, <2>3
  <1>5. ASSUME NEW p \in Proc, NEW l \in Hot, Claim(p, l) PROVE FireMoves(q, w)
    <2> DEFINE v == lane[p][l].watch
    <2>1. v \in Watch /\ ctl[p] # "dead"
      BY <1>5, LaneWatch, SlowIsALane DEF Claim, OnLane, OneLaneFires, Idle
    <2>2. GoesOn /\ UNCHANGED sent
      BY <1>5, ClaimGoesOn DEF Claim, exchange
    <2>3. CASE v \in claimed[p]
      <3>1. UNCHANGED fireMem
        BY <1>5, <2>3 DEF Claim, fireMem
      <3> QED BY <1>1, <2>2, <3>1
    <2>4. CASE v \notin claimed[p]
      <3>1. Stage(p, v, "won")
        BY <1>5, <2>4 DEF Claim
      <3>2. Movable(p, v)
        BY <2>1, <2>4 DEF Custody, CustodyAt, Movable
      <3> QED BY <2>1, <2>2, <3>1, <3>2, StageMoves
    <2> QED BY <2>3, <2>4
  <1>6. ASSUME NEW p \in Proc, PrepareMissed(p) PROVE FireMoves(q, w)
    <2> DEFINE v == lane[p]["slow"].watch
    <2>1. v \in Watch /\ ctl[p] # "dead"
      BY <1>6, LaneWatch, SlowIsALane DEF PrepareMissed, OnLane, OneLaneFires, Idle
    <2>2. GoesOn
      <3>1. \A r \in Proc : claimed[r] \subseteq claimed'[r]
        BY <1>6 DEF PrepareMissed, TypeOK
      <3> QED BY <1>6, <3>1 DEF PrepareMissed, GoesOn, life
    <2>3. Stage(p, v, "over") /\ UNCHANGED sent
      BY <1>6 DEF PrepareMissed, Resolve, exchange
    <2>4. Movable(p, v)
      BY <1>6, <2>1 DEF PrepareMissed, Custody, CustodyAt, Movable
    <2> QED BY <2>1, <2>2, <2>3, <2>4, StageMoves
  <1>7. ASSUME NEW p \in Proc, NEW l \in Lane,
               \/ SignFails(p, l) \/ Rehearse(p, l) \/ AnswerPosted(p, l) \/ AnswerNone(p, l)
               \/ l \in Hot /\ (GuardRefuses(p, l) \/ GuardPasses(p, l))
        PROVE  FireMoves(q, w)
    <2>1. PICK v \in Watch : v = lane[p][l].watch /\ fire[p][v] \in Working
      BY <1>7, LaneWatch DEF SignFails, Rehearse, AnswerPosted, AnswerNone, GuardRefuses,
                             GuardPasses, Firing, OnLane, Working
    <2>2. GoesOn /\ UNCHANGED sent /\ \E stage \in FireStage : Stage(p, v, stage)
      BY <1>7, <2>1 DEF SignFails, Rehearse, AnswerPosted, AnswerNone, GuardRefuses,
                        GuardPasses, Resolve, FireStage, GoesOn, life, exchange
    <2> QED BY <2>1, <2>2, StageMoves DEF Movable, Working
  <1>8. ASSUME NEW p \in Proc, NEW l \in Lane,
               PostLeaves(p, l) \/ AnswerRefused(p, l) \/ AnswerTerminal(p, l)
        PROVE  FireMoves(q, w)
    <2>1. PICK v \in Watch : /\ v = lane[p][l].watch /\ fire[p][v] \in {"attempt", "posting"}
                             /\ sent[p][v] # "accepted"
      BY <1>8, LaneWatch DEF PostLeaves, AnswerRefused, AnswerTerminal, Firing, OnLane, Custody,
                             CustodyAt
    <2>2. GoesOn /\ \E stage \in FireStage : Stage(p, v, stage)
      BY <1>8, <2>1 DEF PostLeaves, AnswerRefused, AnswerTerminal, Resolve, FireStage, GoesOn, life
    <2>3. q # p \/ w # v => sent'[q][w] = sent[q][w]
      BY <1>8, <2>1 DEF PostLeaves, AnswerRefused, AnswerTerminal, TypeOK
    <2> QED BY <2>1, <2>2, <2>3, StageMoves DEF Movable
  <1>9. ASSUME NEW p \in Proc, NEW v \in Watch,
               CloseCuts(p, v) \/ FireDue(p, v) \/ Retry(p, v)
        PROVE  FireMoves(q, w)
    <2>1. /\ \E stage \in FireStage : Stage(p, v, stage)
          /\ fire[p][v] \in Pending
          /\ GoesOn /\ UNCHANGED sent
      BY <1>9 DEF CloseCuts, FireDue, Retry, RetryCut, RetryGivesUp, RetryStarts, RetryReady,
                  Pending, FireStage, GoesOn, life, exchange
    <2> QED BY <2>1, StageMoves DEF Movable, Pending
  <1>10. ASSUME NEW p \in Proc, NEW v \in Watch, Exchange(p, v) PROVE FireMoves(q, w)
    <2>1. GoesOn /\ UNCHANGED fireMem /\ sent[p][v] = "out"
      BY <1>10 DEF Exchange, Accept, Refuse, GoesOn, life
    <2>2. q # p \/ w # v => sent'[q][w] = sent[q][w]
      BY <1>10 DEF Exchange, Accept, Refuse, TypeOK
    <2> QED BY <2>1, <2>2 DEF FireMoves, GoesOn, fireMem
  <1> QED BY <1>2, <1>3, <1>4, <1>5, <1>6, <1>7, <1>8, <1>9, <1>10, SlowIsALane
          DEF Next, Worker, Control, Close, HotStep, Attempt, Answer, Prepare, ControlMoves,
              LaneLooks

-----------------------------------------------------------------------------
(* What a step does to what a run holds of a watch                         *)

\* A row is adopted when it was read as armed, and given up when it is closed or nothing is
\* left of its fire; what a run comes to work on it holds; what it reads is what the row says.
MemoryMoves(q, w) ==
  /\ w \in adopted'[q] => w \in adopted[q] \/ (view[q][w] = "armed" /\ view'[q][w] = "done")
  /\ w \in adopted[q] =>
       w \in adopted'[q] \/ state'[w] \in ClosedStates \/ ~Works(q, w)'
  /\ Works(q, w)' => Works(q, w) \/ w \in adopted'[q]
  /\ \/ view'[q][w] = view[q][w] \/ view'[q][w] = "done" \/ view'[q][w] = ViewOf(w)
     \/ view'[q][w] = "shut" /\ ctl'[q] # "reconciling"
     \/ view'[q][w] = "written" /\ state'[w] \in ClosedStates
  /\ ctl'[q] = "reconciling" => ctl[q] = "reconciling" \/ view'[q][w] = ViewOf(w)

\* A step of the lanes: one watch is moved from one place where the run works on it to
\* another, and everything else stays where it is.
Shifts(p, v) ==
  /\ Works(p, v)
  /\ \A q \in Proc, u \in Watch :
       q # p \/ u # v => /\ u \in joins'[q] => u \in joins[q]
                         /\ fire'[q][u] = fire[q][u]
                         /\ Busy(q, u)' => Busy(q, u)
  /\ UNCHANGED <<ctl, adopted, routed, view>>

LEMMA ShiftMoves ==
  ASSUME NEW p \in Proc, NEW v \in Watch, Shifts(p, v), NEW q \in Proc, NEW w \in Watch
  PROVE  MemoryMoves(q, w)
  <1>1. Works(q, w)' => Works(q, w)
    BY DEF Shifts, Works
  <1> QED BY <1>1 DEF Shifts, MemoryMoves

\* A step that leaves what the lanes hold as it is.
LEMMA StillMoves ==
  ASSUME NEW q \in Proc, NEW w \in Watch,
         UNCHANGED <<adopted, routed, view, joins, fire, lane>>,
         ctl'[q] = "reconciling" => ctl[q] = "reconciling"
  PROVE  MemoryMoves(q, w)
  BY DEF MemoryMoves, Works, Busy

\* A lane that turns to a watch, or is freed, is busy with nothing new but that watch.
LEMMA TurnIsBusy ==
  ASSUME TypeOK, NEW p \in Proc, NEW l \in Lane, NEW v \in Watch, NEW stage,
         UNCHANGED lane \/ Free(p, l) \/ GoTo(p, l, stage, v),
         NEW q \in Proc, NEW u \in Watch, q # p \/ u # v, Busy(q, u)'
  PROVE  Busy(q, u)
  <1>1. PICK m \in Lane : lane'[q][m].at # "idle" /\ lane'[q][m].watch = u
    BY DEF Busy
  <1>2. CASE UNCHANGED lane
    BY <1>1, <1>2 DEF Busy
  <1>3. CASE Free(p, l)
    BY <1>1, <1>3 DEF Free, Idle, TypeOK, Busy
  <1>4. CASE GoTo(p, l, stage, v)
    <2>1. q # p \/ m # l
      BY <1>1, <1>4 DEF GoTo, TypeOK
    <2>2. lane'[q][m] = lane[q][m]
      BY <1>4, <2>1 DEF GoTo, TypeOK
    <2> QED BY <1>1, <2>2 DEF Busy
  <1> QED BY <1>2, <1>3, <1>4

\* A lane that is not idle makes its run work on its watch.
LEMMA LaneIsBusy ==
  ASSUME NEW p \in Proc, NEW l \in Lane, lane[p][l].at # "idle"
  PROVE  Works(p, lane[p][l].watch)
  BY DEF Works, Busy

LEMMA LaneShifts ==
  ASSUME TypeOK, NEW p \in Proc,
         \/ LaneLooks(p) \/ PrepareDrops(p) \/ PrepareMissed(p)
         \/ \E l \in Hot : Claim(p, l) \/ GuardRefuses(p, l) \/ GuardPasses(p, l)
         \/ \E l \in Lane : Attempt(p, l)
         \/ \E v \in Watch : CloseCuts(p, v) \/ FireDue(p, v) \/ Retry(p, v)
  PROVE  \E v \in Watch : Shifts(p, v)
  <1>1. ASSUME NEW l \in Lane, NEW v \in Watch, NEW stage, Works(p, v),
               UNCHANGED lane \/ Free(p, l) \/ GoTo(p, l, stage, v),
               \A q \in Proc, u \in Watch :
                 q # p \/ u # v => (u \in joins'[q] => u \in joins[q]) /\ fire'[q][u] = fire[q][u],
               UNCHANGED <<ctl, adopted, routed, view>>
        PROVE  Shifts(p, v)
    BY <1>1, TurnIsBusy DEF Shifts
  <1>2. ASSUME NEW l \in Hot, NEW v \in Watch, Observe(p, l, v) PROVE Shifts(p, v)
    <2>1. Works(p, v) /\ GoTo(p, l, "seen", v)
      BY <1>2 DEF Observe, Works
    <2> QED BY <1>1, <1>2, <2>1, SlowIsALane DEF Observe, life, ctlMem, fireMem
  <1>3. ASSUME NEW v \in Watch, PrepareStarts(p, v) PROVE Shifts(p, v)
    <2>1. Works(p, v) /\ (UNCHANGED lane \/ GoTo(p, "slow", "reading", v))
      BY <1>3 DEF PrepareStarts, Works
    <2>2. \A q \in Proc, u \in Watch : u \in joins'[q] => u \in joins[q]
      BY <1>3 DEF PrepareStarts, TypeOK
    <2> QED BY <1>1, <1>3, <2>1, <2>2, SlowIsALane DEF PrepareStarts, life, ctlMem, fireMem
  <1>4. ASSUME PrepareFails(p) \/ PrepareReads(p) \/ PrepareDrops(p) \/ PrepareSends(p)
        PROVE  \E v \in Watch : Shifts(p, v)
    <2>1. PICK v \in Watch : v = lane[p]["slow"].watch /\ Works(p, v)
      BY <1>4, LaneWatch, LaneIsBusy, SlowIsALane
         DEF PrepareFails, PrepareReads, PrepareDrops, PrepareSends, OnLane
    <2>2. Free(p, "slow") \/ GoTo(p, "slow", "ready", v)
      BY <1>4, <2>1 DEF PrepareFails, PrepareReads, PrepareDrops, PrepareSends
    <2>3. \A q \in Proc, u \in Watch : q # p \/ u # v => (u \in joins'[q] => u \in joins[q])
      BY <1>4, <2>1 DEF PrepareFails, PrepareReads, PrepareDrops, PrepareSends, TypeOK
    <2>4. UNCHANGED <<fire, ctl, adopted, routed, view>>
      BY <1>4 DEF PrepareFails, PrepareReads, PrepareDrops, PrepareSends, life, ctlMem, fireMem
    <2> QED BY <1>1, <2>1, <2>2, <2>3, <2>4, SlowIsALane
  <1>5. ASSUME NEW l \in Lane, lane[p][l].at # "idle", NEW stage, NEW goal,
               UNCHANGED lane \/ Free(p, l) \/ GoTo(p, l, goal, lane[p][l].watch),
               UNCHANGED fire \/ Stage(p, lane[p][l].watch, stage),
               UNCHANGED <<ctl, adopted, routed, view, joins>>
        PROVE  \E v \in Watch : Shifts(p, v)
    <2>1. PICK v \in Watch : v = lane[p][l].watch /\ Works(p, v)
      BY <1>5, LaneWatch, LaneIsBusy
    <2>2. \A q \in Proc, u \in Watch : q # p \/ u # v => fire'[q][u] = fire[q][u]
      BY <1>5, <2>1 DEF Stage, TypeOK
    <2>3. UNCHANGED lane \/ Free(p, l) \/ GoTo(p, l, goal, v)
      BY <1>5, <2>1
    <2> QED BY <1>1, <1>5, <2>1, <2>2, <2>3
  <1>6. ASSUME NEW l \in Hot, Claim(p, l) PROVE \E v \in Watch : Shifts(p, v)
    <2>1. /\ UNCHANGED lane \/ Free(p, l) \/ GoTo(p, l, "firing", lane[p][l].watch)
          /\ UNCHANGED fire \/ Stage(p, lane[p][l].watch, "won")
          /\ UNCHANGED <<ctl, adopted, routed, view, joins>>
          /\ lane[p][l].at # "idle"
      BY <1>6 DEF Claim, OnLane, life, ctlMem
    <2> QED BY <1>5, <2>1, SlowIsALane
  <1>7. ASSUME PrepareMissed(p) PROVE \E v \in Watch : Shifts(p, v)
    <2>1. /\ Free(p, "slow")
          /\ Stage(p, lane[p]["slow"].watch, "over")
          /\ UNCHANGED <<ctl, adopted, routed, view, joins>>
          /\ lane[p]["slow"].at # "idle"
      BY <1>7 DEF PrepareMissed, Resolve, OnLane, life, ctlMem
    <2> QED BY <1>5, <2>1, SlowIsALane
  <1>8. ASSUME NEW l \in Lane,
               Attempt(p, l) \/ (l \in Hot /\ (GuardRefuses(p, l) \/ GuardPasses(p, l)))
        PROVE  \E v \in Watch : Shifts(p, v)
    <2>1. /\ UNCHANGED lane \/ Free(p, l)
          /\ \E stage \in FireStage : Stage(p, lane[p][l].watch, stage)
          /\ UNCHANGED <<ctl, adopted, routed, view, joins>>
          /\ lane[p][l].at # "idle"
      <3>1. CASE PostLeaves(p, l) \/ SignFails(p, l) \/ Rehearse(p, l)
        BY <3>1 DEF PostLeaves, SignFails, Rehearse, Resolve, Firing, OnLane, FireStage, life,
                    ctlMem
      <3>2. CASE Answer(p, l)
        BY <3>2 DEF Answer, AnswerPosted, AnswerRefused, AnswerTerminal, AnswerNone, Resolve,
                    Firing, OnLane, FireStage, life, ctlMem
      <3>3. CASE GuardRefuses(p, l) \/ GuardPasses(p, l)
        BY <3>3 DEF GuardRefuses, GuardPasses, Resolve, Firing, OnLane, FireStage, life, ctlMem
      <3> QED BY <1>8, <3>1, <3>2, <3>3 DEF Attempt
    <2> QED BY <1>5, <2>1
  <1>9. ASSUME NEW v \in Watch, CloseCuts(p, v) \/ FireDue(p, v) \/ Retry(p, v)
        PROVE  Shifts(p, v)
    <2>1. /\ \E stage \in FireStage : Stage(p, v, stage)
          /\ UNCHANGED lane \/ GoTo(p, "slow", "firing", v)
          /\ Works(p, v)
          /\ UNCHANGED <<ctl, adopted, routed, view, joins>>
      BY <1>9 DEF CloseCuts, FireDue, Retry, RetryCut, RetryGivesUp, RetryStarts, RetryReady,
                  Works, FireStage, life, ctlMem
    <2>2. \A q \in Proc, u \in Watch : q # p \/ u # v => fire'[q][u] = fire[q][u]
      BY <2>1 DEF Stage, TypeOK
    <2> QED BY <1>1, <2>1, <2>2, SlowIsALane
  <1> QED BY <1>2, <1>3, <1>4, <1>6, <1>7, <1>8, <1>9, SlowIsALane DEF LaneLooks

\* A run that closes a row leaves it closed, whether it was open or closed before.
LEMMA CloseRowCloses ==
  ASSUME TypeOK, NEW p \in Proc, NEW w \in Watch, NEW o \in Outcome, CloseRow(p, w, o),
         state[w] # "none"
  PROVE  state'[w] \in ClosedStates
  <1>1. Settle(o).state \in ClosedStates
    BY SettleType
  <1>2. state[w] \in OpenStates \cup ClosedStates
    BY DEF TypeOK
  <1> QED BY <1>1, <1>2 DEF CloseRow, IsOpen, TypeOK, db

LEMMA MemoryStep ==
  ASSUME IInv, Held, [Next]_vars, NEW q \in Proc, NEW w \in Watch
  PROVE  MemoryMoves(q, w)
  <1> USE DEF IInv
  <1>1. CASE Operator \/ UNCHANGED vars \/ \E t \in Token : TickReaches(t)
    <2>1. UNCHANGED <<adopted, routed, view, joins, fire, lane, ctl>>
      BY <1>1 DEF Operator, Arm, RequestDisarm, TickReaches, vars, life, ctlMem, fireMem
    <2> QED BY <2>1, StillMoves
  <1>2. ASSUME NEW p \in Proc,
               \/ LaneLooks(p) \/ PrepareDrops(p) \/ PrepareMissed(p)
               \/ \E l \in Hot : Claim(p, l) \/ GuardRefuses(p, l) \/ GuardPasses(p, l)
               \/ \E l \in Lane : Attempt(p, l)
               \/ \E v \in Watch : CloseCuts(p, v) \/ FireDue(p, v) \/ Retry(p, v)
        PROVE  MemoryMoves(q, w)
    <2>1. PICK v \in Watch : Shifts(p, v)
      BY <1>2, LaneShifts
    <2> QED BY <2>1, ShiftMoves
  <1>3. ASSUME NEW p \in Proc,
               \/ StartWorker(p) \/ BeatFails(p) \/ StopSignal(p) \/ OpenSniper(p)
               \/ OpenFails(p) \/ DrainUnknown(p) \/ DrainClaimed(p) \/ DrainFails(p)
               \/ LeaveLoop(p) \/ CloseClaims(p) \/ CloseJoins(p) \/ CloseDrains(p)
               \/ CloseEnds(p) \/ \E v \in Watch : DisarmLoses(p, v) \/ Exchange(p, v)
        PROVE  MemoryMoves(q, w)
    <2>1. UNCHANGED <<adopted, routed, joins, fire, lane>>
      BY <1>3 DEF StartWorker, BeatFails, StopSignal, OpenSniper, OpenFails, DrainUnknown,
                  DrainClaimed, DrainFails, LeaveLoop, CloseClaims, CloseJoins, CloseDrains,
                  CloseEnds, DisarmLoses, Exchange, Accept, Refuse, ctlMem, fireMem
    <2>2. CASE \E v \in Watch : DisarmLoses(p, v)
      <3>1. view'[q][w] = view[q][w] \/ view'[q][w] = "done"
        BY <2>2 DEF DisarmLoses, RowDone, TypeOK
      <3>2. UNCHANGED ctl
        BY <2>2 DEF DisarmLoses, life
      <3> QED BY <2>1, <3>1, <3>2 DEF MemoryMoves, Works, Busy
    <2>3. CASE ~\E v \in Watch : DisarmLoses(p, v)
      <3>1. UNCHANGED view
        BY <1>3, <2>3 DEF StartWorker, BeatFails, StopSignal, OpenSniper, OpenFails,
                  DrainUnknown, DrainClaimed, DrainFails, LeaveLoop, CloseClaims, CloseJoins,
                  CloseDrains, CloseEnds, Exchange, Accept, Refuse, ctlMem
      <3>2. ctl'[q] = "reconciling" => ctl[q] = "reconciling"
        <4>1. CASE DrainClaimed(p)
          BY <4>1, DrainMoves, LogsMoves DEF Drain, life
        <4>2. CASE ~DrainClaimed(p)
          BY <1>3, <2>3, <4>2 DEF StartWorker, BeatFails, StopSignal, OpenSniper, OpenFails,
                  DrainUnknown, DrainFails, DrainRaises, LeaveLoop, CloseClaims, CloseJoins,
                  CloseDrains, CloseEnds, Exchange, Accept, Refuse, TypeOK, life
        <4> QED BY <4>1, <4>2
      <3> QED BY <2>1, <3>1, <3>2, StillMoves
    <2> QED BY <2>2, <2>3
  <1>4. ASSUME NEW p \in Proc, StopWorker(p) \/ Crash(p) PROVE MemoryMoves(q, w)
    <2>1. MemoryLost(p)
      BY <1>4 DEF StopWorker, Crash
    <2>2. CASE q = p
      <3>1. /\ adopted'[q] = {} /\ joins'[q] = {} /\ routed'[q] = {}
            /\ fire'[q][w] = "none" /\ view'[q][w] = "shut" /\ ctl'[q] = "dead"
            /\ \A l \in Lane : lane'[q][l] = Idle
        BY <2>1, <2>2 DEF MemoryLost, NoView, TypeOK
      <3> QED BY <3>1 DEF MemoryMoves, Works, Busy, Idle
    <2>3. CASE q # p
      <3>1. /\ adopted'[q] = adopted[q] /\ joins'[q] = joins[q] /\ routed'[q] = routed[q]
            /\ fire'[q] = fire[q] /\ view'[q] = view[q] /\ ctl'[q] = ctl[q]
            /\ lane'[q] = lane[q]
        BY <2>1, <2>3 DEF MemoryLost, TypeOK
      <3> QED BY <3>1 DEF MemoryMoves, Works, Busy
    <2> QED BY <2>2, <2>3
  <1>5. ASSUME NEW p \in Proc, DrainPrepared(p) PROVE MemoryMoves(q, w)
    <2>1. PICK v \in Watch : v = Head(inbox[p]).watch /\ v \in adopted[p]
      BY <1>5, HeadIsEvent DEF DrainPrepared, Draining, Event
    <2>2. UNCHANGED <<adopted, view, joins, fire, lane>>
      BY <1>5 DEF DrainPrepared, fireMem
    <2>4. ctl'[q] = "reconciling" => ctl[q] = "reconciling"
      BY <1>5, DrainMoves, LogsMoves DEF Drain, life
    <2>3. w \in routed'[q] => w \in routed[q] \/ (q = p /\ w = v)
      BY <1>5, <2>1 DEF DrainPrepared, TypeOK
    <2> QED BY <2>1, <2>2, <2>3, <2>4 DEF MemoryMoves, Works, Busy
  <1>6. ASSUME NEW p \in Proc, NEW v \in Watch, Forget(p, {v}), state'[v] \in ClosedStates,
               UNCHANGED <<joins, fire, lane>>, UNCHANGED view \/ RowDone(p, v),
               ctl'[q] = "reconciling" => ctl[q] = "reconciling"
        PROVE  MemoryMoves(q, w)
    <2>1. /\ w \in routed'[q] => w \in routed[q]
          /\ w \in adopted'[q] => w \in adopted[q]
          /\ w \in adopted[q] => w \in adopted'[q] \/ w = v
          /\ view'[q][w] = view[q][w] \/ view'[q][w] = "done"
      BY <1>6 DEF Forget, RowDone, TypeOK
    <2> QED BY <1>6, <2>1 DEF MemoryMoves, Works, Busy
  <1>7. ASSUME NEW p \in Proc, DrainResolved(p) PROVE MemoryMoves(q, w)
    <2>1. PICK v, o : v = Head(inbox[p]).watch /\ o = Head(inbox[p]).what
      OBVIOUS
    <2>2. v \in Watch /\ o \in Outcome
      BY <1>7, <2>1, HeadIsEvent DEF DrainResolved, Draining, Event
    <2>3. CloseRow(p, v, o) /\ Forget(p, {v}) /\ v \in adopted[p]
      BY <1>7, <2>1 DEF DrainResolved
    <2>4. UNCHANGED <<joins, fire, lane, view>>
      BY <1>7 DEF DrainResolved, fireMem
    <2>5. ctl'[q] = "reconciling" => ctl[q] = "reconciling"
      BY <1>7, DrainMoves, LogsMoves DEF Drain, life
    <2>6. state'[v] \in ClosedStates
      <3>1. state[v] # "none"
        BY <2>2, <2>3 DEF Held, HeldAt
      <3> QED BY <2>2, <2>3, <3>1, CloseRowCloses
    <2> QED BY <1>6, <2>2, <2>3, <2>4, <2>5, <2>6
  <1>8. ASSUME NEW p \in Proc, NEW v \in Watch, DisarmWins(p, v) \/ DisarmUnadopted(p, v)
        PROVE  MemoryMoves(q, w)
    <2>3. /\ UNCHANGED <<adopted, routed, joins, fire, lane, ctl>>
          /\ view[p][v] \in {"asked", "asked_firing"} /\ DisarmWrites(p, v)
      BY <1>8 DEF DisarmWins, DisarmUnadopted, life, fireMem
    <2>1. /\ UNCHANGED <<adopted, routed, joins, fire, lane, ctl>>
          /\ view[p][v] \in {"asked", "asked_firing"} /\ CloseRow(p, v, "disarmed")
          /\ view'[q][w] = view[q][w] \/ (w = v /\ view'[q][w] = "written")
      BY <2>3 DEF DisarmWrites, TypeOK
    <2>2. state'[v] \in ClosedStates
      <3>1. state[v] # "none" /\ "disarmed" \in Outcome
        BY <2>1 DEF Held, HeldAt, Outcome
      <3> QED BY <2>1, <3>1, CloseRowCloses
    <2> QED BY <2>1, <2>2 DEF MemoryMoves, Works, Busy
  <1>9. ASSUME NEW p \in Proc, NEW v \in Watch, DisarmLogged(p, v) PROVE MemoryMoves(q, w)
    <2>1. /\ Forget(p, {v}) /\ RowDone(p, v) /\ view[p][v] = "written"
          /\ UNCHANGED <<state, joins, fire, lane, ctl>>
      BY <1>9 DEF DisarmLogged, db, life, fireMem
    <2>2. state'[v] \in ClosedStates
      BY <2>1 DEF Held, HeldAt
    <2> QED BY <1>6, <2>1, <2>2
  <1>10. ASSUME NEW p \in Proc, NEW v \in Watch, Adopt(p, v) PROVE MemoryMoves(q, w)
    <2>1. /\ UNCHANGED <<routed, fire, lane, ctl>>
          /\ w \in adopted[q] => w \in adopted'[q]
          /\ w \in adopted'[q] =>
               w \in adopted[q] \/ (view[q][w] = "armed" /\ view'[q][w] = "done")
          /\ w \in joins'[q] => w \in joins[q] \/ w \in adopted'[q]
          /\ view'[q][w] = view[q][w] \/ view'[q][w] = "done"
      BY <1>10 DEF Adopt, MayAdopt, RowDone, TypeOK, life, fireMem
    <2> QED BY <2>1 DEF MemoryMoves, Works, Busy
  <1>11. ASSUME NEW p \in Proc, ReconcileReads(p) PROVE MemoryMoves(q, w)
    <2>1. /\ UNCHANGED <<adopted, routed, joins, fire, lane>>
          /\ q = p => view'[q][w] = ViewOf(w)
          /\ q # p => view'[q][w] = view[q][w] /\ ctl'[q] = ctl[q]
      BY <1>11 DEF ReconcileReads, TypeOK, fireMem
    <2> QED BY <2>1 DEF MemoryMoves, Works, Busy
  <1>12. ASSUME NEW p \in Proc, ReconcileFails(p) PROVE MemoryMoves(q, w)
    <2>1. /\ UNCHANGED <<adopted, routed, joins, fire, lane>>
          /\ q = p => view'[q][w] = "shut" /\ ctl'[q] = "claiming"
          /\ q # p => view'[q][w] = view[q][w] /\ ctl'[q] = ctl[q]
      BY <1>12 DEF ReconcileFails, NoView, TypeOK, fireMem
    <2> QED BY <2>1 DEF MemoryMoves, Works, Busy
  <1>13. ASSUME NEW p \in Proc, ReconcileEnds(p) PROVE MemoryMoves(q, w)
    <2>1. /\ UNCHANGED <<joins, fire, lane>>
          /\ w \in routed'[q] => w \in routed[q]
          /\ w \in adopted'[q] => w \in adopted[q]
          /\ q = p => view'[q][w] = "shut" /\ ctl'[q] = "serving"
          /\ q # p => view'[q][w] = view[q][w] /\ ctl'[q] = ctl[q]
      BY <1>13 DEF ReconcileEnds, TakesRow, Forget, NoView, TypeOK, fireMem
    <2>2. w \in adopted[q] => w \in adopted'[q] \/ state'[w] \in ClosedStates
      <3>1. ctl[p] = "reconciling" /\ UNCHANGED state
        BY <1>13 DEF ReconcileEnds, TakesRow, db
      <3>2. w \in adopted[q] => w \in adopted'[q] \/ (q = p /\ view[q][w] = "shut")
        BY <1>13 DEF ReconcileEnds, Forget, TypeOK
      <3> QED BY <3>1, <3>2 DEF Held, HeldAt
    <2> QED BY <2>1, <2>2 DEF MemoryMoves, Works, Busy
  <1> QED BY <1>1, <1>2, <1>3, <1>4, <1>5, <1>7, <1>8, <1>9, <1>10, <1>11, <1>12, <1>13,
             SlowIsALane
          DEF Next, Worker, Control, Drain, Reconcile, Close, DbFails, HotStep, Prepare, LaneLooks

-----------------------------------------------------------------------------
(* What the lanes tell                                                     *)

\* A step leaves the inbox as it is, takes its first event, empties it, or adds one event.
InboxMoves(q) ==
  \/ inbox'[q] = inbox[q] \/ inbox'[q] = <<>>
  \/ inbox[q] # <<>> /\ inbox'[q] = Tail(inbox[q])
  \/ \E e \in Event : inbox'[q] = Append(inbox[q], e) /\ EventTrue(q, e)'

LEMMA TellMoves ==
  ASSUME TypeOK, NEW p \in Proc, NEW v \in Watch, NEW what \in {"prepared", "claimed"} \cup Outcome,
         Tell(p, v, what),
         what \in Outcome => fire'[p][v] = "over" /\ Truth(p, v, what)',
         NEW q \in Proc
  PROVE  InboxMoves(q)
  <1> DEFINE e == [watch |-> v, what |-> what]
  <1>1. e \in Event
    BY DEF Event
  <1>2. CASE q = p
    <2>1. inbox'[q] = Append(inbox[q], e)
      BY <1>2 DEF Tell, TypeOK
    <2>2. EventTrue(q, e)'
      BY <1>2 DEF EventTrue
    <2> QED BY <1>1, <2>1, <2>2 DEF InboxMoves
  <1>3. CASE q # p
    BY <1>3 DEF Tell, TypeOK, InboxMoves
  <1> QED BY <1>2, <1>3

LEMMA InboxStep ==
  ASSUME IInv, [Next]_vars, NEW q \in Proc
  PROVE  InboxMoves(q)
  <1> USE DEF IInv
  <1>1. ASSUME UNCHANGED inbox PROVE InboxMoves(q)
    BY <1>1 DEF InboxMoves
  <1>2. CASE Operator \/ UNCHANGED vars \/ \E t \in Token : TickReaches(t)
    <2>1. UNCHANGED inbox
      BY <1>2 DEF Operator, Arm, RequestDisarm, TickReaches, vars
    <2> QED BY <1>1, <2>1
  <1>3. ASSUME NEW p \in Proc,
               \/ StartWorker(p) \/ BeatFails(p) \/ StopSignal(p) \/ OpenSniper(p)
               \/ OpenFails(p) \/ Reconcile(p) \/ ReconcileFails(p) \/ LeaveLoop(p)
               \/ CloseClaims(p) \/ CloseJoins(p) \/ CloseDrains(p) \/ CloseEnds(p)
        PROVE  InboxMoves(q)
    <2>1. UNCHANGED inbox
      BY <1>3 DEF StartWorker, BeatFails, StopSignal, OpenSniper, OpenFails, Reconcile,
                  ReconcileReads, DisarmUnadopted, DisarmWins, DisarmLogged, DisarmLoses,
                  Adopt, ReconcileEnds, ReconcileFails, LeaveLoop, CloseClaims, CloseJoins,
                  CloseDrains, CloseEnds
    <2> QED BY <1>1, <2>1
  <1>4. ASSUME NEW p \in Proc,
               \/ \E l \in Hot : Claim(p, l) \/ \E w \in Watch : Observe(p, l, w)
               \/ \E l \in Lane : PostLeaves(p, l) \/ AnswerRefused(p, l)
               \/ \E w \in Watch : \/ PrepareStarts(p, w) \/ FireDue(p, w)
                                   \/ RetryStarts(p, w) \/ Exchange(p, w)
               \/ PrepareFails(p) \/ PrepareDrops(p) \/ PrepareReads(p)
        PROVE  InboxMoves(q)
    <2>1. UNCHANGED inbox
      BY <1>4 DEF Claim, Observe, PostLeaves, AnswerRefused, PrepareStarts, FireDue, RetryStarts,
                  Exchange, Accept, Refuse, PrepareFails, PrepareDrops, PrepareReads
    <2> QED BY <1>1, <2>1
  <1>5. ASSUME NEW p \in Proc, StopWorker(p) \/ Crash(p) PROVE InboxMoves(q)
    BY <1>5 DEF StopWorker, Crash, MemoryLost, TypeOK, InboxMoves
  <1>6. ASSUME NEW p \in Proc, Drain(p) \/ DrainFails(p) PROVE InboxMoves(q)
    <2>1. PopEvent(p) /\ inbox[p] # <<>>
      BY <1>6 DEF Drain, DrainUnknown, DrainPrepared, DrainClaimed, DrainResolved, DrainFails,
                  Draining
    <2> QED BY <2>1 DEF PopEvent, TypeOK, InboxMoves
  <1>7. ASSUME NEW p \in Proc, NEW l \in Lane, NEW o \in Outcome, Resolve(p, l, o),
               NEW v \in Watch, v = lane[p][l].watch, Truth(p, v, o)'
        PROVE  InboxMoves(q)
    <2>1. Tell(p, v, o) /\ fire'[p][v] = "over"
      BY <1>7 DEF Resolve, Stage, TypeOK
    <2> QED BY <1>7, <2>1, TellMoves
  <1>8. ASSUME NEW p \in Proc, NEW l \in Lane, SignFails(p, l) \/ Rehearse(p, l) \/ Answer(p, l)
        PROVE  InboxMoves(q)
    <2>1. PICK v \in Watch : v = lane[p][l].watch
      BY <1>8, LaneWatch DEF SignFails, Rehearse, Answer, AnswerPosted, AnswerRefused,
                             AnswerTerminal, AnswerNone, Firing, OnLane
    <2>2. CASE SignFails(p, l) \/ Rehearse(p, l)
      <3>1. \E o \in {"unsigned", "rehearsed"} : Resolve(p, l, o)
        BY <2>2 DEF SignFails, Rehearse
      <3>2. fire[p][v] = "attempt" /\ UNCHANGED sent
        BY <2>1, <2>2 DEF SignFails, Rehearse, Firing, exchange
      <3>3. sent'[p][v] = "none"
        BY <3>2 DEF Custody, CustodyAt
      <3> QED BY <1>7, <2>1, <3>1, <3>3 DEF Truth, Outcome
    <2>3. CASE AnswerPosted(p, l)
      <3>1. Resolve(p, l, "posted") /\ sent'[p][v] = "accepted"
        BY <2>1, <2>3 DEF AnswerPosted, exchange
      <3> QED BY <1>7, <2>1, <3>1 DEF Truth, Outcome
    <2>4. CASE AnswerTerminal(p, l)
      <3>1. Resolve(p, l, "refused") /\ sent' = [sent EXCEPT ![p][v] = "none"]
        BY <2>1, <2>4 DEF AnswerTerminal
      <3>2. sent'[p][v] = "none"
        BY <3>1 DEF TypeOK
      <3> QED BY <1>7, <2>1, <3>1, <3>2 DEF Truth, Outcome
    <2>5. CASE AnswerNone(p, l)
      <3>1. Resolve(p, l, "unanswered")
        BY <2>5 DEF AnswerNone
      <3> QED BY <1>7, <2>1, <3>1 DEF Truth, Outcome
    <2> QED BY <1>4, <1>8, <2>2, <2>3, <2>4, <2>5 DEF Answer
  <1>9. ASSUME NEW p \in Proc, NEW l \in Hot, GuardRefuses(p, l) PROVE InboxMoves(q)
    <2>1. PICK v \in Watch : v = lane[p][l].watch
      BY <1>9, LaneWatch, SlowIsALane DEF GuardRefuses, Firing, OnLane
    <2>2. Resolve(p, l, "guard_refused") /\ fire[p][v] = "won" /\ UNCHANGED sent
      BY <1>9, <2>1 DEF GuardRefuses, Firing, exchange
    <2>3. sent'[p][v] = "none"
      BY <2>2 DEF Custody, CustodyAt
    <2> QED BY <1>7, <2>1, <2>2, <2>3, SlowIsALane DEF Truth, Outcome
  <1>10. ASSUME NEW p \in Proc, NEW l \in Hot, GuardPasses(p, l) PROVE InboxMoves(q)
    <2>1. lane[p][l].watch \in Watch /\ Tell(p, lane[p][l].watch, "claimed")
      BY <1>10, LaneWatch, SlowIsALane DEF GuardPasses, Firing, OnLane
    <2> QED BY <2>1, TellMoves DEF Outcome
  <1>11. ASSUME NEW p \in Proc, PrepareSends(p) PROVE InboxMoves(q)
    <2>1. lane[p]["slow"].watch \in Watch /\ Tell(p, lane[p]["slow"].watch, "prepared")
      BY <1>11, LaneWatch, SlowIsALane DEF PrepareSends, OnLane
    <2> QED BY <2>1, TellMoves DEF Outcome
  <1>12. ASSUME NEW p \in Proc, PrepareMissed(p) PROVE InboxMoves(q)
    <2>1. PICK v \in Watch : v = lane[p]["slow"].watch /\ v \notin claimed[p] /\ ctl[p] # "dead"
      BY <1>12, LaneWatch, SlowIsALane DEF PrepareMissed, OnLane, OneLaneFires, Idle
    <2>2. Resolve(p, "slow", "missed") /\ UNCHANGED sent
      BY <1>12 DEF PrepareMissed, exchange
    <2>3. sent'[p][v] = "none"
      BY <2>1, <2>2 DEF Custody, CustodyAt
    <2> QED BY <1>7, <2>1, <2>2, <2>3, SlowIsALane DEF Truth, Outcome
  <1>13. ASSUME NEW p \in Proc, NEW v \in Watch,
                CloseCuts(p, v) \/ RetryCut(p, v) \/ RetryGivesUp(p, v)
         PROVE  InboxMoves(q)
    <2>1. /\ \E o \in {"cut_disarm", "cut_stop", "refused"} : Tell(p, v, o)
          /\ Stage(p, v, "over")
          /\ fire[p][v] = "due" /\ UNCHANGED sent
      BY <1>13 DEF CloseCuts, RetryCut, RetryGivesUp, RetryReady, CutBy, exchange
    <2>2. fire'[p][v] = "over" /\ sent'[p][v] = "none"
      BY <2>1 DEF Stage, TypeOK, Custody, CustodyAt
    <2> QED BY <2>1, <2>2, TellMoves DEF Truth, Outcome
  <1> QED BY <1>2, <1>3, <1>4, <1>5, <1>6, <1>8, <1>9, <1>10, <1>11, <1>12, <1>13, SlowIsALane
          DEF Next, Worker, Control, Close, DbFails, HotStep, Attempt, Prepare, Retry

-----------------------------------------------------------------------------
(* The invariant                                                           *)

\* A closed row stays as it is, and a row that was inserted stays inserted.
LEMMA RowKept ==
  ASSUME TypeOK, [Next]_vars, NEW w \in Watch
  PROVE  /\ state[w] \in ClosedStates => RowStays(w)
         /\ state[w] # "none" => state'[w] # "none"
  <1>1. RowMoves(w)
    BY RowStep
  <1>2. \A o \in Outcome : Settle(o).state \in ClosedStates
    BY SettleType
  <1> QED BY <1>1, <1>2 DEF RowMoves, RowStays, RowCloses, IsOpen, OpenStates, ClosedStates

LEMMA HeldStep ==
  ASSUME IInv, Held, [Next]_vars
  PROVE  Held'
  <1> SUFFICES ASSUME NEW p \in Proc, NEW w \in Watch
               PROVE  HeldAt(p, w)'
    BY DEF Held
  <1>1. TypeOK /\ HeldAt(p, w) /\ MemoryMoves(p, w)
    BY MemoryStep DEF IInv, Held
  <1>2. /\ state[w] \in ClosedStates => state'[w] \in ClosedStates
        /\ state[w] # "none" => state'[w] # "none"
    BY <1>1, RowKept DEF RowStays
  <1>3. ViewOf(w) \notin {"done", "written"} /\ (ViewOf(w) # "shut" => IsOpen(w)) /\ (ViewOf(w) = "shut" => ~IsOpen(w))
    BY DEF ViewOf, IsOpen, OpenStates
  <1>4. state[w] \in {"none"} \cup OpenStates \cup ClosedStates
    BY <1>1 DEF TypeOK
  <1>5. w \in adopted'[p] \/ view'[p][w] \notin {"shut", "done"} => state'[w] # "none"
    BY <1>1, <1>2, <1>3 DEF HeldAt, MemoryMoves, IsOpen, OpenStates, ClosedStates
  <1>6. ASSUME ctl'[p] = "reconciling", w \in adopted'[p], view'[p][w] = "shut"
        PROVE  state'[w] \in ClosedStates
    <2>1. w \in adopted[p] /\ state[w] # "none"
      BY <1>1, <1>6 DEF MemoryMoves, HeldAt
    <2>2. CASE view'[p][w] = ViewOf(w)
      BY <1>2, <1>3, <1>4, <1>6, <2>1, <2>2 DEF IsOpen
    <2>3. CASE view'[p][w] # ViewOf(w)
      BY <1>1, <1>2, <1>6, <2>1, <2>3 DEF MemoryMoves, HeldAt
    <2> QED BY <2>2, <2>3
  <1>7. Works(p, w)' => w \in adopted'[p] \/ state'[w] \in ClosedStates
    BY <1>1, <1>2 DEF MemoryMoves, HeldAt
  <1>8. view'[p][w] = "written" => state'[w] \in ClosedStates
    BY <1>1, <1>2, <1>3 DEF MemoryMoves, HeldAt
  <1> QED BY <1>5, <1>6, <1>7, <1>8 DEF HeldAt

\* Only a run that ends goes dead, and its inbox goes with it.
LEMMA DeathEmpties ==
  ASSUME TypeOK, [Next]_vars, NEW q \in Proc, ctl[q] # "dead", ctl'[q] = "dead"
  PROVE  inbox'[q] = <<>>
  <1>1. CASE Operator \/ UNCHANGED vars \/ \E t \in Token : TickReaches(t)
    BY <1>1 DEF Operator, Arm, RequestDisarm, TickReaches, vars, life
  <1>2. ASSUME NEW p \in Proc, ControlMoves(p) \/ LaneLooks(p) PROVE FALSE
    BY <1>2, ControlGoesOn, LookGoesOn DEF GoesOn
  <1>3. ASSUME NEW p \in Proc, StopWorker(p) \/ Crash(p) PROVE inbox'[q] = <<>>
    BY <1>3 DEF StopWorker, Crash, MemoryLost, TypeOK
  <1>4. ASSUME NEW p \in Proc,
               \/ PrepareDrops(p) \/ PrepareMissed(p)
               \/ \E l \in Hot : Claim(p, l) \/ GuardRefuses(p, l) \/ GuardPasses(p, l)
               \/ \E l \in Lane : PostLeaves(p, l) \/ SignFails(p, l) \/ Rehearse(p, l)
               \/ \E v \in Watch : CloseCuts(p, v) \/ FireDue(p, v) \/ Retry(p, v)
               \/ \E v \in Watch : Exchange(p, v)
        PROVE  FALSE
    BY <1>4 DEF PrepareDrops, PrepareMissed, Claim, GuardRefuses, GuardPasses, PostLeaves,
                SignFails, Rehearse, CloseCuts, FireDue, Retry, RetryCut, RetryGivesUp,
                RetryStarts, Exchange, Accept, Refuse, life
  <1>5. ASSUME NEW p \in Proc, NEW l \in Lane, Answer(p, l) PROVE FALSE
    BY <1>5 DEF Answer, AnswerPosted, AnswerRefused, AnswerTerminal, AnswerNone, life
  <1> QED BY <1>1, <1>2, <1>3, <1>4, <1>5, SlowIsALane
          DEF Next, Worker, Control, Close, HotStep, Attempt, Prepare, ControlMoves, LaneLooks

LEMMA EventsStep ==
  ASSUME IInv, EventsTrue, [Next]_vars
  PROVE  EventsTrue'
  <1> SUFFICES ASSUME NEW q \in Proc, NEW i \in DOMAIN inbox'[q]
               PROVE  EventTrue(q, inbox[q][i])'
    BY DEF EventsTrue
  <1>1. TypeOK /\ Custody /\ inbox[q] \in Seq(Event) /\ InboxMoves(q)
    BY InboxStep DEF IInv, TypeOK
  <1>2. ASSUME NEW e \in Event, EventTrue(q, e), ctl[q] = "dead" \/ ctl'[q] # "dead"
        PROVE  EventTrue(q, e)'
    <2>1. e.watch \in Watch /\ FireMoves(q, e.watch)
      BY FireStep DEF Event
    <2>2. CASE ctl[q] = "dead"
      BY <1>1, <1>2, <2>1, <2>2 DEF EventTrue, Custody, CustodyAt
    <2>3. CASE ctl'[q] # "dead"
      BY <1>2, <2>1, <2>3 DEF EventTrue, Truth, FireMoves
    <2> QED BY <1>2, <2>2, <2>3
  <1>3. CASE inbox'[q] = <<>>
    BY <1>3
  <1>4. CASE inbox'[q] # <<>>
    <2>1. ctl[q] = "dead" \/ ctl'[q] # "dead"
      BY <1>1, <1>4, DeathEmpties
    <2>2. \A j \in DOMAIN inbox[q] : inbox[q][j] \in Event /\ EventTrue(q, inbox[q][j])
      BY <1>1 DEF EventsTrue
    <2>3. \A j \in DOMAIN inbox[q] : \E e \in Event : e = inbox[q][j] /\ EventTrue(q, e)'
      <3> SUFFICES ASSUME NEW j \in DOMAIN inbox[q]
                   PROVE  \E e \in Event : e = inbox[q][j] /\ EventTrue(q, e)'
        OBVIOUS
      <3>1. PICK e \in Event : e = inbox[q][j] /\ EventTrue(q, e)
        BY <2>2
      <3> QED BY <1>2, <2>1, <3>1
    <2>4. CASE inbox'[q] = inbox[q]
      BY <2>3, <2>4
    <2>5. CASE inbox[q] # <<>> /\ inbox'[q] = Tail(inbox[q])
      <3>1. i + 1 \in DOMAIN inbox[q] /\ inbox'[q][i] = inbox[q][i + 1]
        BY <1>1, <2>5
      <3> QED BY <2>3, <3>1
    <2>6. ASSUME NEW e \in Event, inbox'[q] = Append(inbox[q], e), EventTrue(q, e)'
          PROVE  EventTrue(q, inbox[q][i])'
      <3>1. inbox'[q][i] = e \/ (i \in DOMAIN inbox[q] /\ inbox'[q][i] = inbox[q][i])
        BY <1>1, <2>6
      <3> QED BY <2>3, <2>6, <3>1
    <2> QED BY <1>1, <1>4, <2>4, <2>5, <2>6 DEF InboxMoves
  <1> QED BY <1>3, <1>4

\* A run that is done with a watch posts nothing more for it.
LEMMA DoneKept ==
  ASSUME IInv, Held, [Next]_vars, NEW p \in Proc, NEW w \in Watch,
         state[w] \in ClosedStates, Done(p, w), sent[p][w] = "none"
  PROVE  Done(p, w)' /\ sent'[p][w] = "none"
  <1>1. FireMoves(p, w) /\ MemoryMoves(p, w) /\ CustodyAt(p, w) /\ HeldAt(p, w)
    BY FireStep, MemoryStep DEF IInv, Custody, Held
  <1>2. fire[p][w] \notin {"attempt", "posting"}
    BY <1>1 DEF Done, Away, Works, CustodyAt
  <1>3. sent'[p][w] = "none"
    BY <1>1, <1>2 DEF FireMoves
  <1>4. CASE ~Away(p, w)
    BY <1>1, <1>3, <1>4 DEF Done, FireMoves
  <1>5. CASE Away(p, w)
    <2>1. ViewOf(w) = "shut"
      BY DEF ViewOf, IsOpen, OpenStates, ClosedStates
    <2>2. Away(p, w)'
      BY <1>1, <1>5, <2>1 DEF Away, MemoryMoves
    <2> QED BY <1>3, <2>2 DEF Done
  <1> QED BY <1>3, <1>4, <1>5

LEMMA EndsStep ==
  ASSUME OutInv, [Next]_vars
  PROVE  EndsTrue'
  <1> SUFFICES ASSUME NEW w \in Watch, closer'[w] # None
               PROVE  EndTrue(closer[w], w)'
    BY DEF EndsTrue
  <1>1. TypeOK /\ RowMoves(w)
    BY RowStep DEF OutInv, IInv
  <1>2. ASSUME closer'[w] = closer[w] PROVE EndTrue(closer[w], w)'
    <2>1. PICK p \in Proc : p = closer[w]
      BY <1>1, <1>2 DEF TypeOK
    <2>2. EndTrue(p, w) /\ RowStays(w)
      BY <1>1, <1>2, <2>1, RowKept DEF OutInv, EndsTrue, EndTrue
    <2>3. FireMoves(p, w)
      BY FireStep DEF OutInv
    <2>4. state[w] # "fired" /\ ~MayRest(w) => Done(p, w)' /\ sent'[p][w] = "none"
      BY <2>2, DoneKept DEF OutInv, EndTrue
    <2>5. EndTrue(p, w)'
      BY <2>2, <2>3, <2>4 DEF EndTrue, RowStays, MayRest, FireMoves
    <2> QED BY <1>2, <2>1, <2>5
  <1>3. ASSUME NEW p \in Proc, NEW o \in Outcome, RowCloses(p, w, o)
        PROVE  EndTrue(closer[w], w)'
    <2>1. /\ state'[w] = Settle(o).state /\ reason'[w] = Settle(o).reason
          /\ closer'[w] = p /\ IsOpen(w) /\ ClosedBy(p, w, o)
      BY <1>3 DEF RowCloses
    <2>2. state'[w] \in ClosedStates /\ (state'[w] = "fired" <=> o = "posted")
      BY <2>1, SettleType DEF Settle, Outcome
    <2>3. HeldAt(p, w) /\ CustodyAt(p, w)
      BY DEF OutInv, Held, IInv, Custody
    <2>4. SUFFICES EndTrue(p, w)'
      BY <2>1
    <2>5. CASE o = "interrupted"
      BY <2>1, <2>2, <2>5 DEF Settle, EndTrue, MayRest
    <2>6. CASE o = "disarmed" /\ DisarmUnadopted(p, w)
      <3>1. ctl[p] = "reconciling" /\ w \notin adopted[p] /\ view'[p][w] = "written"
        BY <1>1, <2>6 DEF DisarmUnadopted, TakesRow, DisarmWrites, TypeOK
      <3>2. ~Works(p, w)
        BY <2>1, <2>3, <3>1 DEF HeldAt, IsOpen, OpenStates, ClosedStates
      <3>3. sent[p][w] = "none"
        BY <2>3, <3>1, <3>2 DEF CustodyAt, Works
      <3>4. UNCHANGED <<adopted, routed, joins, lane, fire, sent>>
        BY <2>6 DEF DisarmUnadopted, fireMem, exchange
      <3>5. Away(p, w)'
        BY <3>1, <3>2, <3>4 DEF Away, Works, Busy
      <3> QED BY <2>2, <2>6, <3>3, <3>4, <3>5 DEF EndTrue, Done
    <2>7. CASE o = "disarmed" /\ DisarmWins(p, w)
      <3>1. ctl[p] = "reconciling" /\ w \notin claimed[p] /\ w \in claimed'[p]
        BY <1>1, <2>7 DEF DisarmWins, TakesRow, TypeOK
      <3>2. fire[p][w] = "none" /\ sent[p][w] = "none"
        BY <2>3, <3>1 DEF CustodyAt
      <3>3. UNCHANGED <<fire, sent>>
        BY <2>7 DEF DisarmWins, fireMem, exchange
      <3> QED BY <2>2, <2>7, <3>1, <3>2, <3>3 DEF EndTrue, Done
    <2>8. CASE DrainResolved(p) /\ Head(inbox[p]) = [watch |-> w, what |-> o]
      <3>1. inbox[p] # <<>> /\ UNCHANGED <<fire, sent>>
        BY <2>8 DEF DrainResolved, Draining, fireMem, exchange
      <3>2. 1 \in DOMAIN inbox[p] /\ inbox[p][1] = Head(inbox[p])
        BY <1>1, <3>1 DEF TypeOK
      <3>3. EventTrue(p, [watch |-> w, what |-> o])
        BY <2>8, <3>2 DEF OutInv, EventsTrue
      <3>4. fire[p][w] = "over" /\ Truth(p, w, o)
        BY <3>3 DEF EventTrue
      <3>5. CASE o \in {"unanswered", "interrupted"}
        BY <2>1, <2>2, <3>5 DEF Settle, EndTrue, MayRest
      <3>6. CASE o \notin {"unanswered", "interrupted"}
        BY <2>2, <3>1, <3>4, <3>6 DEF EndTrue, Done, Truth
      <3> QED BY <3>5, <3>6
    <2> QED BY <2>1, <2>5, <2>6, <2>7, <2>8 DEF ClosedBy
  <1> QED BY <1>1, <1>2, <1>3 DEF RowMoves, RowStays

-----------------------------------------------------------------------------
(* The theorem                                                             *)

LEMMA InitOutInv ==
  ASSUME Init
  PROVE  OutInv
  <1>1. IInv
    BY InitIInv
  <1>2. Held
    BY DEF Init, Held, HeldAt, Works, Busy, NoView, Idle
  <1>3. EventsTrue /\ EndsTrue
    BY DEF Init, EventsTrue, EndsTrue
  <1> QED BY <1>1, <1>2, <1>3 DEF OutInv

LEMMA OutInvStep ==
  ASSUME OutInv, [Next]_vars
  PROVE  OutInv'
  BY IInvStep, HeldStep, EventsStep, EndsStep DEF OutInv

\* How a run closes a row is true of what that run posted: fired means it placed the order,
\* and an end that does not say an order may rest means it placed none and none can appear.
THEOREM OutcomesTrue == Spec => []OutcomeIsTrue
  <1>1. OutInv => OutcomeIsTrue
    <2> SUFFICES ASSUME OutInv, NEW w \in Watch, closer[w] # None
                 PROVE  IF state[w] = "fired"
                        THEN orders[closer[w]][w] = 1
                        ELSE MayRest(w) \/ (orders[closer[w]][w] = 0 /\ sent[closer[w]][w] # "out")
      BY DEF OutcomeIsTrue
    <2>1. PICK p \in Proc : p = closer[w]
      BY DEF OutInv, IInv, TypeOK
    <2>2. EndTrue(p, w) /\ CustodyAt(p, w)
      BY <2>1 DEF OutInv, EndsTrue, IInv, Custody
    <2> QED BY <2>1, <2>2 DEF EndTrue, CustodyAt
  <1> QED BY <1>1, InitOutInv, OutInvStep, PTL DEF Spec


-----------------------------------------------------------------------------
(* Promises: over crashes and restarts, while one worker runs at a time    *)

-----------------------------------------------------------------------------
(* The steps, by what they leave alone                                     *)

\* A lane at work on its fire, and a fire between two attempts.
LaneFires(p, l) ==
  Attempt(p, l) \/ (l \in Hot /\ (GuardRefuses(p, l) \/ GuardPasses(p, l)))
WaitEnds(p, w) == CloseCuts(p, w) \/ FireDue(p, w) \/ Retry(p, w)

\* The operator, the tick and the exchange reach into no worker's memory.
Outside ==
  \/ Operator \/ UNCHANGED vars \/ \E t \in Token : TickReaches(t)
  \/ \E p \in Proc, w \in Watch : Exchange(p, w)

LEMMA StepCases ==
  ASSUME [Next]_vars
  PROVE  \/ Outside
         \/ \E p \in Proc : \/ StopWorker(p) \/ Crash(p) \/ ControlMoves(p) \/ LaneLooks(p)
                            \/ PrepareMissed(p)
                            \/ \E l \in Hot : Claim(p, l)
                            \/ \E l \in Lane : LaneFires(p, l)
                            \/ \E w \in Watch : WaitEnds(p, w)
  BY SlowIsALane
     DEF Next, Worker, Control, Close, HotStep, Prepare, ControlMoves, LaneLooks, LaneFires,
         WaitEnds, Outside

Memory == <<ctl, adopted, routed, claimed, abort, inbox, joins, fire, lane, view>>

LEMMA OutsideLeavesMemory ==
  ASSUME Outside
  PROVE  UNCHANGED <<Memory, status>>
  BY DEF Outside, Operator, Arm, RequestDisarm, TickReaches, Exchange, Accept, Refuse, vars, life,
         ctlMem, fireMem, Memory

\* What a process that is gone leaves behind, and what it leaves alone.
Gone(p) ==
  /\ ctl[p] = "dead" /\ inbox[p] = <<>> /\ view[p] = NoView
  /\ adopted[p] = {} /\ routed[p] = {} /\ abort[p] = {}
  /\ \A l \in Lane : lane[p][l] = Idle
  /\ \A w \in Watch : fire[p][w] = "none" /\ ~Works(p, w)

Same(q) ==
  /\ ctl'[q] = ctl[q] /\ inbox'[q] = inbox[q] /\ view'[q] = view[q]
  /\ adopted'[q] = adopted[q] /\ routed'[q] = routed[q] /\ abort'[q] = abort[q]
  /\ claimed'[q] = claimed[q] /\ joins'[q] = joins[q] /\ fire'[q] = fire[q] /\ lane'[q] = lane[q]

LEMMA EndOfRun ==
  ASSUME TypeOK, NEW p \in Proc, StopWorker(p) \/ Crash(p)
  PROVE  Gone(p)' /\ (\A q \in Proc : q # p => Same(q)) /\ UNCHANGED <<db, asked, exchange>>
  <1>1. MemoryLost(p) /\ UNCHANGED <<db, asked, exchange>>
    BY DEF StopWorker, Crash
  <1>2. /\ ctl'[p] = "dead" /\ inbox'[p] = <<>> /\ view'[p] = NoView
        /\ adopted'[p] = {} /\ routed'[p] = {} /\ abort'[p] = {} /\ joins'[p] = {}
        /\ \A l \in Lane : lane'[p][l] = Idle
        /\ \A w \in Watch : fire'[p][w] = "none"
    BY <1>1 DEF MemoryLost, TypeOK
  <1>3. \A q \in Proc : q # p => Same(q)
    BY <1>1 DEF MemoryLost, TypeOK, Same
  <1>4. \A w \in Watch : ~Works(p, w)'
    BY <1>2 DEF Works, Busy, Idle
  <1> QED BY <1>1, <1>2, <1>3, <1>4 DEF Gone

-----------------------------------------------------------------------------
(* One run at a time                                                       *)

\* A worker that is alive owns the worker's row.
OneAlive == \A p \in Proc : Alive(p) => status = [who |-> p, stopped |-> FALSE]

\* What a step does to where a control lane is.
CtlMoves(q) ==
  \/ ctl'[q] = ctl[q]
  \/ StartWorker(q)
  \/ ctl[q] = "starting" /\ (ctl'[q] = "serving" \/ ("db" \in May /\ ctl'[q] = "closed"))
  \/ LanesUp(q) /\ LanesUp(q)'
  \/ ctl[q] = "joining" /\ ctl'[q] = "cutting" /\ \A l \in Lane : lane'[q][l] = Idle
  \/ ctl[q] = "cutting" /\ ctl'[q] = "draining"
  \/ ctl[q] = "draining" /\ ctl'[q] = "closed" /\ (inbox'[q] = <<>> \/ "db" \in May)
  \/ Gone(q)' /\ ((StopWorker(q) /\ ctl[q] = "closed") \/ (Crash(q) /\ "crash" \in May))

LEMMA CtlStep ==
  ASSUME TypeOK, [Next]_vars, NEW q \in Proc
  PROVE  CtlMoves(q)
  <1>1. CASE UNCHANGED ctl
    BY <1>1 DEF CtlMoves
  <1>2. ASSUME NEW p \in Proc, StopWorker(p) \/ Crash(p) PROVE CtlMoves(q)
    <2>1. CASE q = p
      BY <1>2, <2>1, EndOfRun DEF CtlMoves, StopWorker, Crash
    <2>2. CASE q # p
      BY <1>2, <2>2, EndOfRun DEF CtlMoves, Same
    <2> QED BY <2>1, <2>2
  <1>3. ASSUME NEW p \in Proc, StartWorker(p) PROVE CtlMoves(q)
    BY <1>3 DEF StartWorker, CtlMoves, TypeOK
  <1>4. ASSUME NEW p \in Proc,
               \/ OpenSniper(p) \/ OpenFails(p) \/ ReconcileReads(p) \/ ReconcileEnds(p)
               \/ ReconcileFails(p) \/ LeaveLoop(p) \/ CloseClaims(p)
        PROVE  CtlMoves(q)
    BY <1>4 DEF OpenSniper, OpenFails, ReconcileReads, ReconcileEnds, TakesRow, ReconcileFails,
                LeaveLoop, CloseClaims, CtlMoves, LanesUp, TypeOK
  <1>5. ASSUME NEW p \in Proc, CloseJoins(p) \/ CloseDrains(p) \/ CloseEnds(p) PROVE CtlMoves(q)
    BY <1>5 DEF CloseJoins, CloseDrains, CloseEnds, CtlMoves, TypeOK
  <1>6. ASSUME NEW p \in Proc, DrainFails(p) PROVE CtlMoves(q)
    BY <1>6 DEF DrainFails, DrainRaises, Draining, CtlMoves, LanesUp, TypeOK
  <1>12. ASSUME NEW p \in Proc, Drain(p) PROVE CtlMoves(q)
    BY <1>12, DrainMoves, LogsMoves DEF CtlMoves, LanesUp, life
  <1>7. ASSUME NEW p \in Proc,
               \/ BeatFails(p) \/ StopSignal(p)
               \/ \E w \in Watch : DisarmUnadopted(p, w) \/ DisarmWins(p, w) \/ DisarmLoses(p, w)
                                   \/ DisarmLogged(p, w) \/ Adopt(p, w)
        PROVE  UNCHANGED ctl
    BY <1>7 DEF BeatFails, StopSignal, DisarmUnadopted, DisarmWins, DisarmLoses, DisarmLogged,
                Adopt, life
  <1>8. ASSUME NEW p \in Proc, LaneLooks(p) \/ PrepareMissed(p) \/ \E l \in Hot : Claim(p, l)
        PROVE  UNCHANGED ctl
    BY <1>8 DEF LaneLooks, Observe, PrepareStarts, PrepareFails, PrepareDrops, PrepareReads,
                PrepareSends, PrepareMissed, Claim, life
  <1>9. ASSUME NEW p \in Proc, NEW l \in Lane, LaneFires(p, l) PROVE UNCHANGED ctl
    BY <1>9 DEF LaneFires, Attempt, Answer, PostLeaves, SignFails, Rehearse, AnswerPosted,
                AnswerRefused, AnswerTerminal, AnswerNone, GuardRefuses, GuardPasses, life
  <1>10. ASSUME NEW p \in Proc, NEW w \in Watch, WaitEnds(p, w) PROVE UNCHANGED ctl
    BY <1>10 DEF WaitEnds, CloseCuts, FireDue, Retry, RetryCut, RetryGivesUp, RetryStarts, life
  <1>11. CASE Outside
    BY <1>1, <1>11, OutsideLeavesMemory DEF Memory
  <1> QED BY <1>1, <1>2, <1>3, <1>4, <1>5, <1>6, <1>7, <1>8, <1>9, <1>10, <1>11, <1>12, StepCases
          DEF ControlMoves, Reconcile, DbFails

LEMMA StatusStep ==
  ASSUME [Next]_vars
  PROVE  UNCHANGED status \/ \E p \in Proc : StartWorker(p) \/ StopWorker(p)
  <1>1. CASE Outside
    BY <1>1, OutsideLeavesMemory
  <1>2. ASSUME NEW p \in Proc, ControlMoves(p), ~StartWorker(p) PROVE UNCHANGED status
    <2>1. CASE BeatFails(p) \/ StopSignal(p) \/ OpenSniper(p) \/ Drain(p)
      BY <2>1 DEF BeatFails, StopSignal, OpenSniper, Drain, DrainUnknown, DrainPrepared,
                  DrainClaimed, DrainResolved, Logs, DrainRaises, life
    <2>2. CASE Reconcile(p) \/ DbFails(p)
      BY <2>2 DEF Reconcile, ReconcileReads, DisarmUnadopted, DisarmWins, DisarmLogged,
                  DisarmLoses, Adopt, ReconcileEnds, DbFails, OpenFails, DrainFails, DrainRaises,
                  ReconcileFails, life
    <2>3. CASE LeaveLoop(p) \/ CloseClaims(p) \/ CloseJoins(p) \/ CloseDrains(p) \/ CloseEnds(p)
      BY <2>3 DEF LeaveLoop, CloseClaims, CloseJoins, CloseDrains, CloseEnds
    <2> QED BY <1>2, <2>1, <2>2, <2>3 DEF ControlMoves
  <1>3. ASSUME NEW p \in Proc,
               Crash(p) \/ LaneLooks(p) \/ PrepareMissed(p) \/ \E l \in Hot : Claim(p, l)
        PROVE  UNCHANGED status
    BY <1>3 DEF Crash, LaneLooks, Observe, PrepareStarts, PrepareFails, PrepareDrops,
                PrepareReads, PrepareSends, PrepareMissed, Claim, life
  <1>4. ASSUME NEW p \in Proc, NEW l \in Lane, LaneFires(p, l) PROVE UNCHANGED status
    BY <1>4 DEF LaneFires, Attempt, Answer, PostLeaves, SignFails, Rehearse, AnswerPosted,
                AnswerRefused, AnswerTerminal, AnswerNone, GuardRefuses, GuardPasses, life
  <1>5. ASSUME NEW p \in Proc, NEW w \in Watch, WaitEnds(p, w) PROVE UNCHANGED status
    BY <1>5 DEF WaitEnds, CloseCuts, FireDue, Retry, RetryCut, RetryGivesUp, RetryStarts, life
  <1> QED BY <1>1, <1>2, <1>3, <1>4, <1>5, StepCases

\* Nobody takes the worker's row from a run that is alive: it only could by a stall.
LEMMA OneAliveStep ==
  ASSUME TypeOK, OneAlive, "stall" \notin May, [Next]_vars
  PROVE  OneAlive'
  <1>1. \A p, q \in Proc : Alive(p) /\ Alive(q) => p = q
    <2> SUFFICES ASSUME NEW p \in Proc, NEW q \in Proc, Alive(p), Alive(q)
                 PROVE  p = q
      OBVIOUS
    <2>1. status.who = p /\ status.who = q
      BY DEF OneAlive
    <2> QED BY <2>1
  <1>2. ASSUME NEW p \in Proc, StartWorker(p) PROVE OneAlive'
    <2>1. \A q \in Proc : ~Alive(q)
      BY <1>2 DEF StartWorker, OneAlive, Alive
    <2>2. \A q \in Proc : Alive(q)' => q = p
      BY <1>2, <2>1 DEF StartWorker, Alive, TypeOK
    <2> QED BY <1>2, <2>2 DEF StartWorker, OneAlive
  <1>3. ASSUME NEW p \in Proc, StopWorker(p) PROVE OneAlive'
    <2>1. Alive(p) /\ Gone(p)' /\ \A q \in Proc : q # p => ctl'[q] = ctl[q]
      BY <1>3, EndOfRun DEF StopWorker, Alive, Same
    <2>2. \A q \in Proc : ~Alive(q)'
      BY <1>1, <2>1 DEF Alive, Gone
    <2> QED BY <2>2 DEF OneAlive
  <1>4. ASSUME UNCHANGED status, \A p \in Proc : ~StartWorker(p) PROVE OneAlive'
    <2>1. \A q \in Proc : Alive(q)' => Alive(q)
      BY <1>4, CtlStep DEF CtlMoves, Alive, LanesUp, Gone
    <2> QED BY <1>4, <2>1 DEF OneAlive
  <1> QED BY <1>2, <1>3, <1>4, StatusStep

-----------------------------------------------------------------------------
(* What a step does to a lane, a fire and a post                           *)

Sees(p, w) == \E l \in Hot : OnLane(p, l, "seen") /\ lane[p][l].watch = w

\* An idle lane is given work only while the lanes run; a hot lane sees what is routed and
\* ticked; the slow lane reads a baseline only before the tick.
LaneMoves(q, l) ==
  \/ lane'[q][l] = lane[q][l] \/ lane'[q][l] = Idle
  \/ lane'[q][l].at = "firing" /\ (LanesUp(q) \/ lane[q][l] # Idle)
  \/ l \in Hot /\ LanesUp(q) /\ lane'[q][l].at = "seen" /\ lane'[q][l].watch \in routed[q]
     /\ TokenOf[lane'[q][l].watch] \in ticked
  \/ l = "slow" /\ LanesUp(q) /\ lane'[q][l].at = "reading"
  \/ l = "slow" /\ lane[q][l] # Idle /\ lane'[q][l].at = "ready"
     /\ TokenOf[lane'[q][l].watch] \notin ticked

LEMMA LaneSet ==
  ASSUME TypeOK, NEW p \in Proc, NEW m \in Lane, NEW to, lane' = [lane EXCEPT ![p][m] = to],
         NEW q \in Proc, NEW l \in Lane
  PROVE  lane'[q][l] = lane[q][l] \/ (p = q /\ l = m /\ lane'[q][l] = to)
  <1>1. PICK S : lane \in [Proc -> [Lane -> S]]
    BY DEF TypeOK
  <1> QED BY <1>1

LEMMA LaneStep ==
  ASSUME TypeOK, [Next]_vars, NEW q \in Proc, NEW l \in Lane
  PROVE  LaneMoves(q, l)
  <1>1. ASSUME NEW p \in Proc, NEW m \in Lane, UNCHANGED lane \/ Free(p, m) PROVE LaneMoves(q, l)
    <2>1. lane'[q][l] = lane[q][l] \/ lane'[q][l] = Idle
      BY <1>1, LaneSet DEF Free
    <2> QED BY <2>1 DEF LaneMoves
  <1>2. ASSUME NEW p \in Proc, NEW m \in Lane, NEW stage, NEW w, GoTo(p, m, stage, w)
        PROVE  \/ lane'[q][l] = lane[q][l]
               \/ p = q /\ l = m /\ lane'[q][l].at = stage /\ lane'[q][l].watch = w
    <2>1. lane'[q][l] = lane[q][l] \/ (p = q /\ l = m /\ lane'[q][l] = [at |-> stage, watch |-> w])
      BY <1>2, LaneSet DEF GoTo
    <2> QED BY <2>1
  <1>3. CASE Outside
    BY <1>3, OutsideLeavesMemory DEF Memory, LaneMoves
  <1>4. ASSUME NEW p \in Proc, StopWorker(p) \/ Crash(p) PROVE LaneMoves(q, l)
    BY <1>4, EndOfRun DEF Gone, Same, LaneMoves
  <1>5. ASSUME NEW p \in Proc, ControlMoves(p) PROVE LaneMoves(q, l)
    BY <1>5, ControlGoesOn DEF LaneMoves
  <1>6. ASSUME NEW p \in Proc, NEW m \in Hot, NEW w \in Watch, Observe(p, m, w)
        PROVE  LaneMoves(q, l)
    <2>1. GoTo(p, m, "seen", w) /\ LanesUp(p) /\ w \in routed[p] /\ TokenOf[w] \in ticked
      BY <1>6 DEF Observe
    <2>2. \/ lane'[q][l] = lane[q][l]
          \/ p = q /\ l = m /\ lane'[q][l].at = "seen" /\ lane'[q][l].watch = w
      BY <1>2, <2>1, SlowIsALane
    <2> QED BY <2>1, <2>2 DEF LaneMoves
  <1>7. ASSUME NEW p \in Proc, NEW w \in Watch, PrepareStarts(p, w) PROVE LaneMoves(q, l)
    <2>1. CASE UNCHANGED lane
      BY <2>1 DEF LaneMoves
    <2>2. CASE GoTo(p, "slow", "reading", w)
      <3>1. \/ lane'[q][l] = lane[q][l]
            \/ p = q /\ l = "slow" /\ lane'[q][l].at = "reading"
        BY <1>2, <2>2, SlowIsALane
      <3> QED BY <1>7, <3>1 DEF PrepareStarts, LaneMoves
    <2> QED BY <1>7, <2>1, <2>2 DEF PrepareStarts
  <1>8. ASSUME NEW p \in Proc, PrepareReads(p) PROVE LaneMoves(q, l)
    <2> DEFINE w == lane[p]["slow"].watch
    <2>1. GoTo(p, "slow", "ready", w) /\ TokenOf[w] \notin ticked /\ lane[p]["slow"].at = "reading"
      BY <1>8 DEF PrepareReads, OnLane
    <2>2. \/ lane'[q][l] = lane[q][l]
          \/ p = q /\ l = "slow" /\ lane'[q][l].at = "ready" /\ lane'[q][l].watch = w
      BY <1>2, <2>1, SlowIsALane
    <2>3. lane[p]["slow"] # Idle
      BY <2>1 DEF Idle
    <2> QED BY <2>1, <2>2, <2>3 DEF LaneMoves
  <1>9. ASSUME NEW p \in Proc, PrepareFails(p) \/ PrepareDrops(p) \/ PrepareSends(p) \/ PrepareMissed(p)
        PROVE  LaneMoves(q, l)
    BY <1>1, <1>9, SlowIsALane DEF PrepareFails, PrepareDrops, PrepareSends, PrepareMissed, Resolve
  <1>10. ASSUME NEW p \in Proc, NEW m \in Hot, Claim(p, m) PROVE LaneMoves(q, l)
    <2>1. CASE Free(p, m)
      BY <1>1, <2>1, SlowIsALane
    <2>2. CASE GoTo(p, m, "firing", lane[p][m].watch)
      <3>1. lane'[q][l] = lane[q][l] \/ (p = q /\ l = m /\ lane'[q][l].at = "firing")
        BY <1>2, <2>2, SlowIsALane
      <3>2. lane[p][m] # Idle
        BY <1>10 DEF Claim, OnLane, Idle
      <3> QED BY <3>1, <3>2 DEF LaneMoves
    <2> QED BY <1>10, <2>1, <2>2 DEF Claim
  <1>11. ASSUME NEW p \in Proc, NEW m \in Lane, LaneFires(p, m) PROVE LaneMoves(q, l)
    <2>1. UNCHANGED lane \/ Free(p, m)
      BY <1>11 DEF LaneFires, Attempt, Answer, PostLeaves, SignFails, Rehearse, AnswerPosted,
                   AnswerRefused, AnswerTerminal, AnswerNone, GuardRefuses, GuardPasses, Resolve
    <2> QED BY <1>1, <2>1
  <1>12. ASSUME NEW p \in Proc, NEW w \in Watch, WaitEnds(p, w) PROVE LaneMoves(q, l)
    <2>1. UNCHANGED lane \/ (LanesUp(p) /\ GoTo(p, "slow", "firing", w))
      BY <1>12 DEF WaitEnds, CloseCuts, FireDue, Retry, RetryCut, RetryGivesUp, RetryStarts,
                   RetryReady
    <2>2. CASE UNCHANGED lane
      BY <2>2 DEF LaneMoves
    <2>3. CASE LanesUp(p) /\ GoTo(p, "slow", "firing", w)
      <3>1. lane'[q][l] = lane[q][l] \/ (p = q /\ lane'[q][l].at = "firing")
        BY <1>2, <2>3, SlowIsALane
      <3> QED BY <2>3, <3>1 DEF LaneMoves
    <2> QED BY <2>1, <2>2, <2>3
  <1> QED BY <1>3, <1>4, <1>5, <1>6, <1>7, <1>8, <1>9, <1>10, <1>11, <1>12, StepCases
          DEF LaneLooks

\* A fire between its claim and its end.
Shooting == {"won", "attempt", "posting", "waiting", "due"}

Tells(p, w, what) == \E i \in DOMAIN inbox[p] : inbox[p][i] = [watch |-> w, what |-> what]

\* A fire is won from a seen tick and goes on until it is over; it begins with a "claimed" and
\* ends with its outcome told. The slow lane ends a watch it finds ticked. A post leaves in an
\* attempt.
FireGoes(q, w) ==
  /\ \/ fire'[q][w] = fire[q][w]
     \/ Gone(q)'
     \/ fire[q][w] = "none" /\ w \notin claimed[q] /\ Sees(q, w) /\ fire'[q][w] = "won"
     \/ fire[q][w] = "won" /\ fire'[q][w] = "attempt" /\ Tells(q, w, "claimed")'
     \/ fire[q][w] \in Shooting \ {"won"} /\ fire'[q][w] \in Shooting \ {"won"}
     \/ fire[q][w] \in Shooting /\ fire'[q][w] = "over" /\ (\E o \in Outcome : Tells(q, w, o)')
     \/ TokenOf[w] \in ticked /\ fire'[q][w] = "over" /\ (\E o \in Outcome : Tells(q, w, o)')
  /\ \/ sent'[q][w] = sent[q][w]
     \/ sent[q][w] \in {"out", "refused"}
     \/ fire[q][w] = "attempt" /\ w \notin Dry /\ sent'[q][w] = "out"

LEMMA TellTells ==
  ASSUME TypeOK, NEW p \in Proc, NEW w, NEW what, Tell(p, w, what)
  PROVE  Tells(p, w, what)'
  <1> DEFINE e == [watch |-> w, what |-> what]
  <1>1. inbox[p] \in Seq(Event) /\ inbox'[p] = Append(inbox[p], e)
    BY DEF Tell, TypeOK
  <1>2. Len(inbox[p]) + 1 \in DOMAIN inbox'[p] /\ inbox'[p][Len(inbox[p]) + 1] = e
    <2> HIDE DEF e
    <2> QED BY <1>1
  <1> QED BY <1>2 DEF Tells

LEMMA FireGoesStep ==
  ASSUME IInv, [Next]_vars, NEW q \in Proc, NEW w \in Watch
  PROVE  FireGoes(q, w)
  <1> USE DEF IInv
  <1>1. ASSUME UNCHANGED <<fire, sent>> PROVE FireGoes(q, w)
    BY <1>1 DEF FireGoes
  <1>2. CASE Operator \/ UNCHANGED vars \/ \E t \in Token : TickReaches(t)
    <2>1. UNCHANGED <<fire, sent>>
      BY <1>2 DEF Operator, Arm, RequestDisarm, TickReaches, vars, fireMem, exchange
    <2> QED BY <1>1, <2>1
  <1>3. ASSUME NEW p \in Proc, NEW v \in Watch, Exchange(p, v) PROVE FireGoes(q, w)
    <2>1. UNCHANGED fire /\ sent[p][v] = "out"
      BY <1>3 DEF Exchange, Accept, Refuse, fireMem
    <2>2. q # p \/ w # v => sent'[q][w] = sent[q][w]
      BY <1>3 DEF Exchange, Accept, Refuse, TypeOK
    <2> QED BY <2>1, <2>2 DEF FireGoes
  <1>4. ASSUME NEW p \in Proc, StopWorker(p) \/ Crash(p) PROVE FireGoes(q, w)
    BY <1>4, EndOfRun DEF Same, FireGoes, exchange
  <1>5. ASSUME NEW p \in Proc, ControlMoves(p) \/ LaneLooks(p) PROVE FireGoes(q, w)
    BY <1>1, <1>5, ControlGoesOn, LookGoesOn DEF fireMem
  <1>6. ASSUME NEW p \in Proc, NEW v \in Watch, NEW stage, Stage(p, v, stage), UNCHANGED sent
        PROVE  /\ q # p \/ w # v => FireGoes(q, w)
               /\ fire'[p][v] = stage
    BY <1>6 DEF Stage, TypeOK, FireGoes
  <1>7. ASSUME NEW p \in Proc, NEW l \in Hot, Claim(p, l) PROVE FireGoes(q, w)
    <2> DEFINE v == lane[p][l].watch
    <2>1. v \in Watch /\ ctl[p] # "dead" /\ UNCHANGED sent /\ Sees(p, v)
      BY <1>7, LaneWatch, SlowIsALane DEF Claim, OnLane, OneLaneFires, Idle, exchange, Sees
    <2>2. CASE v \in claimed[p]
      BY <1>1, <1>7, <2>1, <2>2 DEF Claim
    <2>3. CASE v \notin claimed[p]
      <3>1. Stage(p, v, "won")
        BY <1>7, <2>3 DEF Claim
      <3>2. fire[p][v] = "none"
        BY <2>1, <2>3 DEF Custody, CustodyAt
      <3>3. FireGoes(p, v)
        BY <1>6, <2>1, <2>3, <3>1, <3>2 DEF FireGoes
      <3> QED BY <1>6, <2>1, <3>1, <3>3
    <2> QED BY <2>2, <2>3
  <1>8. ASSUME NEW p \in Proc, PrepareMissed(p) PROVE FireGoes(q, w)
    <2>1. PICK v \in Watch : UNCHANGED sent /\ Stage(p, v, "over") /\ Tell(p, v, "missed")
                             /\ TokenOf[v] \in ticked
      BY <1>8, LaneWatch, SlowIsALane DEF PrepareMissed, OnLane, Resolve, exchange
    <2>2. fire'[p][v] = "over" /\ Tells(p, v, "missed")'
      BY <1>6, <2>1, TellTells
    <2>3. FireGoes(p, v)
      BY <2>1, <2>2 DEF FireGoes, Outcome
    <2> QED BY <1>6, <2>1, <2>3
  <1>9. ASSUME NEW p \in Proc, NEW v \in Watch, fire[p][v] \in Shooting, NEW o \in Outcome,
               Tell(p, v, o), Stage(p, v, "over"), UNCHANGED sent
        PROVE  FireGoes(q, w)
    <2>1. FireGoes(p, v)
      BY <1>6, <1>9, TellTells DEF FireGoes
    <2> QED BY <1>6, <1>9, <2>1
  <1>10. ASSUME NEW p \in Proc, NEW l \in Lane,
                \/ SignFails(p, l) \/ Rehearse(p, l) \/ AnswerPosted(p, l) \/ AnswerNone(p, l)
                \/ l \in Hot /\ GuardRefuses(p, l)
         PROVE  FireGoes(q, w)
    <2>1. lane[p][l].watch \in Watch /\ fire[p][lane[p][l].watch] \in Shooting
      BY <1>10, LaneWatch DEF SignFails, Rehearse, AnswerPosted, AnswerNone, GuardRefuses, Firing,
                              OnLane, Shooting
    <2>2. UNCHANGED sent /\ \E o \in Outcome : Resolve(p, l, o)
      BY <1>10 DEF SignFails, Rehearse, AnswerPosted, AnswerNone, GuardRefuses, Outcome, exchange
    <2> QED BY <1>9, <2>1, <2>2 DEF Resolve
  <1>11. ASSUME NEW p \in Proc, NEW l \in Hot, GuardPasses(p, l) PROVE FireGoes(q, w)
    <2>1. PICK v \in Watch : fire[p][v] = "won" /\ UNCHANGED sent /\ Tell(p, v, "claimed")
                             /\ Stage(p, v, "attempt")
      BY <1>11, LaneWatch, SlowIsALane DEF GuardPasses, Firing, OnLane, exchange
    <2>2. fire'[p][v] = "attempt" /\ Tells(p, v, "claimed")'
      BY <1>6, <2>1, TellTells
    <2>3. FireGoes(p, v)
      BY <2>1, <2>2 DEF FireGoes
    <2> QED BY <1>6, <2>1, <2>3
  <1>12. ASSUME NEW p \in Proc, NEW l \in Lane,
                PostLeaves(p, l) \/ AnswerRefused(p, l) \/ AnswerTerminal(p, l)
         PROVE  FireGoes(q, w)
    <2> DEFINE v == lane[p][l].watch
    <2>1. v \in Watch
      BY <1>12, LaneWatch DEF PostLeaves, AnswerRefused, AnswerTerminal, Firing, OnLane
    <2>2. q # p \/ w # v => fire'[q][w] = fire[q][w] /\ sent'[q][w] = sent[q][w]
      BY <1>12, <2>1 DEF PostLeaves, AnswerRefused, AnswerTerminal, Resolve, Stage, TypeOK
    <2>3. CASE PostLeaves(p, l)
      <3>1. fire[p][v] = "attempt" /\ fire'[p][v] = "posting" /\ v \notin Dry /\ sent'[p][v] = "out"
        BY <2>1, <2>3 DEF PostLeaves, Firing, Stage, TypeOK
      <3> QED BY <2>2, <3>1 DEF FireGoes, Shooting
    <2>4. CASE AnswerRefused(p, l)
      <3>1. fire[p][v] = "posting" /\ fire'[p][v] = "waiting" /\ sent[p][v] = "refused"
        BY <2>1, <2>4 DEF AnswerRefused, Firing, Stage, TypeOK
      <3> QED BY <2>2, <3>1 DEF FireGoes, Shooting
    <2>5. CASE AnswerTerminal(p, l)
      <3>1. /\ fire[p][v] = "posting" /\ fire'[p][v] = "over" /\ sent[p][v] = "refused"
            /\ Tell(p, v, "refused")
        BY <2>1, <2>5 DEF AnswerTerminal, Firing, Resolve, Stage, TypeOK
      <3> QED BY <2>2, <3>1, TellTells DEF FireGoes, Shooting, Outcome
    <2> QED BY <1>12, <2>3, <2>4, <2>5
  <1>13. ASSUME NEW p \in Proc, NEW v \in Watch,
                CloseCuts(p, v) \/ RetryCut(p, v) \/ RetryGivesUp(p, v)
         PROVE  FireGoes(q, w)
    <2>1. /\ \E o \in Outcome : Tell(p, v, o)
          /\ Stage(p, v, "over") /\ fire[p][v] = "due" /\ UNCHANGED sent
      BY <1>13 DEF CloseCuts, RetryCut, RetryGivesUp, RetryReady, CutBy, Outcome, exchange
    <2> QED BY <1>9, <2>1 DEF Shooting
  <1>14. ASSUME NEW p \in Proc, NEW v \in Watch, FireDue(p, v) \/ RetryStarts(p, v)
         PROVE  FireGoes(q, w)
    <2>1. /\ fire[p][v] \in Shooting \ {"won"} /\ UNCHANGED sent
          /\ \E stage \in Shooting \ {"won"} : Stage(p, v, stage)
      BY <1>14 DEF FireDue, RetryStarts, RetryReady, Shooting, exchange
    <2>2. FireGoes(p, v)
      BY <1>6, <2>1 DEF FireGoes
    <2> QED BY <1>6, <2>1, <2>2
  <1> QED BY <1>2, <1>3, <1>4, <1>5, <1>7, <1>8, <1>10, <1>11, <1>12, <1>13, <1>14, StepCases
          DEF Outside, LaneFires, WaitEnds, Attempt, Answer, Retry

-----------------------------------------------------------------------------
(* What a step does to an inbox and to the rows a run read                 *)

\* The end of a fire.
FireEnds == Outcome \ {"missed"}

\* Who tells an event works on its watch, and tells what it just came to.
Speaks(q, e) ==
  /\ Works(q, e.watch)
  /\ LanesUp(q) \/ ctl[q] = "cutting" \/ \E l \in Lane : lane[q][l] # Idle
  /\ e.what = "prepared" => OnLane(q, "slow", "ready") /\ lane[q]["slow"].watch = e.watch
  /\ e.what \in FireEnds => fire[q][e.watch] \in Shooting
  /\ e.what \notin {"disarmed", "interrupted"}
  /\ e.what = "rehearsed" => e.watch \in Dry
  /\ e.what = "cut_disarm" => e.watch \in abort[q]

InboxGoes(q) ==
  \/ inbox'[q] = inbox[q]
  \/ Gone(q)' /\ inbox'[q] = <<>>
  \/ inbox[q] # <<>> /\ inbox'[q] = Tail(inbox[q]) /\ (Drain(q) \/ DrainFails(q))
  \/ \E e \in Event : inbox'[q] = Append(inbox[q], e) /\ Speaks(q, e)

LEMMA TellSpeaks ==
  ASSUME TypeOK, NEW p \in Proc, NEW w \in Watch,
         NEW what \in {"prepared", "claimed"} \cup Outcome, Tell(p, w, what),
         Speaks(p, [watch |-> w, what |-> what]), NEW q \in Proc
  PROVE  InboxGoes(q)
  <1>1. [watch |-> w, what |-> what] \in Event
    BY DEF Event
  <1>2. q = p => inbox'[q] = Append(inbox[q], [watch |-> w, what |-> what])
    BY DEF Tell, TypeOK
  <1>3. q # p => inbox'[q] = inbox[q]
    BY DEF Tell, TypeOK
  <1> QED BY <1>1, <1>2, <1>3 DEF InboxGoes

LEMMA SpeaksOf ==
  ASSUME NEW p, NEW w, NEW what, Works(p, w),
         LanesUp(p) \/ ctl[p] = "cutting" \/ \E l \in Lane : lane[p][l] # Idle,
         what = "prepared" => OnLane(p, "slow", "ready") /\ lane[p]["slow"].watch = w,
         what \in FireEnds => fire[p][w] \in Shooting,
         what \notin {"disarmed", "interrupted"},
         what = "rehearsed" => w \in Dry, what = "cut_disarm" => w \in abort[p]
  PROVE  Speaks(p, [watch |-> w, what |-> what])
  BY DEF Speaks

LEMMA InboxGoesStep ==
  ASSUME TypeOK, [Next]_vars, NEW q \in Proc
  PROVE  InboxGoes(q)
  <1>1. ASSUME UNCHANGED inbox PROVE InboxGoes(q)
    BY <1>1 DEF InboxGoes
  <1>2. CASE Outside
    BY <1>1, <1>2, OutsideLeavesMemory DEF Memory
  <1>3. ASSUME NEW p \in Proc, StopWorker(p) \/ Crash(p) PROVE InboxGoes(q)
    BY <1>3, EndOfRun DEF Gone, Same, InboxGoes
  <1>4. ASSUME NEW p \in Proc, Drain(p) \/ DrainFails(p) PROVE InboxGoes(q)
    <2>1. PopEvent(p) /\ inbox[p] # <<>>
      BY <1>4 DEF Drain, DrainUnknown, DrainPrepared, DrainClaimed, DrainResolved, DrainFails,
                  Draining
    <2> QED BY <1>4, <2>1 DEF PopEvent, TypeOK, InboxGoes
  <1>5. ASSUME NEW p \in Proc, ControlMoves(p), ~(Drain(p) \/ DrainFails(p)) PROVE InboxGoes(q)
    <2>1. UNCHANGED inbox
      BY <1>5 DEF ControlMoves, StartWorker, BeatFails, StopSignal, OpenSniper, OpenFails, DbFails,
                  Reconcile, ReconcileReads, DisarmUnadopted, DisarmWins, DisarmLogged,
                  DisarmLoses, Adopt, ReconcileEnds, ReconcileFails, LeaveLoop, CloseClaims,
                  CloseJoins, CloseDrains, CloseEnds
    <2> QED BY <1>1, <2>1
  <1>6. ASSUME NEW p \in Proc,
               \/ LaneLooks(p) /\ ~PrepareSends(p)
               \/ \E l \in Hot : Claim(p, l)
               \/ \E l \in Lane : PostLeaves(p, l) \/ AnswerRefused(p, l)
               \/ \E w \in Watch : FireDue(p, w) \/ RetryStarts(p, w)
        PROVE  InboxGoes(q)
    <2>1. UNCHANGED inbox
      BY <1>6 DEF LaneLooks, Claim, Observe, PostLeaves, AnswerRefused, PrepareStarts, FireDue,
                  RetryStarts, PrepareFails, PrepareDrops, PrepareReads
    <2> QED BY <1>1, <2>1
  <1>7. ASSUME NEW p \in Proc, NEW l \in Lane, NEW w \in Watch, w = lane[p][l].watch,
               lane[p][l].at # "idle"
        PROVE  Works(p, w) /\ \E m \in Lane : lane[p][m] # Idle
    BY <1>7, LaneIsBusy DEF Idle
  <1>8. ASSUME NEW p \in Proc, PrepareSends(p) PROVE InboxGoes(q)
    <2>1. PICK w \in Watch : w = lane[p]["slow"].watch
      BY <1>8, LaneWatch, SlowIsALane DEF PrepareSends, OnLane
    <2>2. Tell(p, w, "prepared") /\ OnLane(p, "slow", "ready") /\ lane[p]["slow"].at # "idle"
      BY <1>8, <2>1 DEF PrepareSends, OnLane
    <2>3. Speaks(p, [watch |-> w, what |-> "prepared"])
      BY <1>7, <2>1, <2>2, SlowIsALane, SpeaksOf DEF FireEnds, Outcome
    <2> QED BY <2>2, <2>3, TellSpeaks
  <1>9. ASSUME NEW p \in Proc, PrepareMissed(p) PROVE InboxGoes(q)
    <2>1. PICK w \in Watch : w = lane[p]["slow"].watch
      BY <1>9, LaneWatch, SlowIsALane DEF PrepareMissed, OnLane
    <2>2. Tell(p, w, "missed") /\ lane[p]["slow"].at # "idle"
      BY <1>9, <2>1 DEF PrepareMissed, Resolve, OnLane
    <2>3. Speaks(p, [watch |-> w, what |-> "missed"])
      BY <1>7, <2>1, <2>2, SlowIsALane, SpeaksOf DEF FireEnds
    <2> QED BY <2>2, <2>3, TellSpeaks DEF Outcome
  <1>10. ASSUME NEW p \in Proc, NEW l \in Hot, GuardPasses(p, l) PROVE InboxGoes(q)
    <2>1. PICK w \in Watch : w = lane[p][l].watch
      BY <1>10, LaneWatch, SlowIsALane DEF GuardPasses, Firing, OnLane
    <2>2. Tell(p, w, "claimed") /\ lane[p][l].at # "idle"
      BY <1>10, <2>1 DEF GuardPasses, Firing, OnLane
    <2>3. Speaks(p, [watch |-> w, what |-> "claimed"])
      BY <1>7, <2>1, <2>2, SlowIsALane, SpeaksOf DEF FireEnds, Outcome
    <2> QED BY <2>2, <2>3, TellSpeaks
  <1>11. ASSUME NEW p \in Proc, NEW l \in Lane,
                \/ SignFails(p, l) \/ Rehearse(p, l) \/ AnswerPosted(p, l) \/ AnswerNone(p, l)
                \/ AnswerTerminal(p, l) \/ (l \in Hot /\ GuardRefuses(p, l))
         PROVE  InboxGoes(q)
    <2>1. PICK w \in Watch : w = lane[p][l].watch
      BY <1>11, LaneWatch DEF SignFails, Rehearse, AnswerPosted, AnswerNone, AnswerTerminal,
                              GuardRefuses, Firing, OnLane
    <2>2. lane[p][l].at # "idle" /\ fire[p][w] \in Shooting
      BY <1>11, <2>1 DEF SignFails, Rehearse, AnswerPosted, AnswerNone, AnswerTerminal,
                         GuardRefuses, Firing, OnLane, Shooting
    <2>3. PICK o \in {"unsigned", "rehearsed", "posted", "unanswered", "refused", "guard_refused"} :
            Tell(p, w, o) /\ (o = "rehearsed" => w \in Dry)
      BY <1>11, <2>1 DEF SignFails, Rehearse, AnswerPosted, AnswerNone, AnswerTerminal,
                         GuardRefuses, Resolve
    <2>4. Speaks(p, [watch |-> w, what |-> o])
      BY <1>7, <2>1, <2>2, <2>3, SpeaksOf
    <2> QED BY <2>3, <2>4, TellSpeaks DEF Outcome
  <1>12. ASSUME NEW p \in Proc, NEW w \in Watch,
                CloseCuts(p, w) \/ RetryCut(p, w) \/ RetryGivesUp(p, w)
         PROVE  InboxGoes(q)
    <2>1. /\ fire[p][w] \in Shooting /\ Works(p, w)
          /\ LanesUp(p) \/ ctl[p] = "cutting"
      BY <1>12 DEF CloseCuts, RetryCut, RetryGivesUp, RetryReady, Shooting, Works
    <2>2. PICK o \in {"cut_disarm", "cut_stop", "refused"} :
            Tell(p, w, o) /\ (o = "cut_disarm" => w \in abort[p])
      BY <1>12 DEF CloseCuts, RetryCut, RetryGivesUp, CutBy
    <2>3. Speaks(p, [watch |-> w, what |-> o])
      BY <2>1, <2>2, SpeaksOf
    <2> QED BY <2>2, <2>3, TellSpeaks DEF Outcome
  <1> QED BY <1>2, <1>3, <1>4, <1>5, <1>6, <1>8, <1>9, <1>10, <1>11, <1>12, StepCases
          DEF LaneLooks, LaneFires, WaitEnds, Attempt, Answer, Retry

\* The rows read are those of one reconcile, and each of them is marked when it was acted on.
ViewGoes(q) ==
  /\ \/ view'[q] = view[q] /\ (ctl'[q] = "reconciling" <=> ctl[q] = "reconciling")
     \/ view'[q] = NoView
     \/ ctl'[q] = "reconciling"
  /\ \A w \in Watch : \/ view'[q][w] \in {view[q][w], "done", "shut", "written"}
                      \/ view'[q][w] = ViewOf(w) /\ UNCHANGED <<db, asked>>

LEMMA ViewStep ==
  ASSUME TypeOK, [Next]_vars, NEW q \in Proc
  PROVE  ViewGoes(q)
  <1>1. ASSUME view'[q] = view[q], ctl'[q] = "reconciling" <=> ctl[q] = "reconciling"
        PROVE  ViewGoes(q)
    BY <1>1 DEF ViewGoes
  <1>2. ASSUME NEW p \in Proc, StopWorker(p) \/ Crash(p) PROVE ViewGoes(q)
    BY <1>2, EndOfRun DEF Gone, Same, ViewGoes, NoView
  <1>3. ASSUME NEW p \in Proc, NEW w \in Watch, UNCHANGED ctl, ctl[p] = "reconciling",
               RowDone(p, w) \/ DisarmWrites(p, w)
        PROVE  ViewGoes(q)
    BY <1>3 DEF RowDone, DisarmWrites, TypeOK, ViewGoes
  <1>4. ASSUME NEW p \in Proc, ReconcileReads(p) PROVE ViewGoes(q)
    <2>1. /\ q = p => ctl'[q] = "reconciling" /\ \A w \in Watch : view'[q][w] = ViewOf(w)
          /\ q # p => view'[q] = view[q] /\ ctl'[q] = ctl[q]
          /\ UNCHANGED <<db, asked>>
      BY <1>4 DEF ReconcileReads, TypeOK
    <2> QED BY <2>1 DEF ViewGoes
  <1>5. ASSUME NEW p \in Proc, ReconcileEnds(p) \/ ReconcileFails(p) PROVE ViewGoes(q)
    <2>1. /\ q = p => view'[q] = NoView
          /\ q # p => view'[q] = view[q] /\ ctl'[q] = ctl[q]
      BY <1>5 DEF ReconcileEnds, TakesRow, ReconcileFails, TypeOK
    <2> QED BY <2>1 DEF ViewGoes, NoView
  <1>6. ASSUME NEW p \in Proc, NEW w \in Watch,
               \/ DisarmUnadopted(p, w) \/ DisarmWins(p, w) \/ DisarmLoses(p, w)
               \/ DisarmLogged(p, w) \/ Adopt(p, w)
        PROVE  ViewGoes(q)
    <2>1. UNCHANGED ctl /\ ctl[p] = "reconciling" /\ (RowDone(p, w) \/ DisarmWrites(p, w))
      BY <1>6 DEF DisarmUnadopted, DisarmWins, DisarmLoses, DisarmLogged, Adopt, TakesRow, life
    <2> QED BY <1>3, <2>1
  <1>7. ASSUME NEW p \in Proc,
               \/ StartWorker(p) \/ BeatFails(p) \/ StopSignal(p) \/ OpenSniper(p) \/ OpenFails(p)
               \/ Drain(p) \/ DrainFails(p) \/ LeaveLoop(p) \/ CloseClaims(p) \/ CloseJoins(p)
               \/ CloseDrains(p) \/ CloseEnds(p)
        PROVE  ViewGoes(q)
    <2>1. UNCHANGED view
      BY <1>7 DEF StartWorker, BeatFails, StopSignal, OpenSniper, OpenFails, Drain, DrainUnknown,
                  DrainPrepared, DrainClaimed, DrainResolved, DrainFails, LeaveLoop, CloseClaims,
                  CloseJoins, CloseDrains, CloseEnds, ctlMem
    <2>2. ctl'[q] = "reconciling" <=> ctl[q] = "reconciling"
      <3>1. CASE Drain(p)
        BY <3>1, DrainMoves, LogsMoves DEF life
      <3>2. CASE ~Drain(p)
        BY <1>7, <3>2 DEF StartWorker, BeatFails, StopSignal, OpenSniper, OpenFails, DrainFails,
                  DrainRaises, Draining, LeaveLoop, CloseClaims, CloseJoins, CloseDrains, CloseEnds,
                  TypeOK, life
      <3> QED BY <3>1, <3>2
    <2> QED BY <1>1, <2>1, <2>2
  <1>8. ASSUME NEW p \in Proc, LaneLooks(p) \/ PrepareMissed(p) \/ \E l \in Hot : Claim(p, l)
        PROVE  ViewGoes(q)
    <2>1. UNCHANGED <<ctl, view>>
      BY <1>8 DEF LaneLooks, Observe, PrepareStarts, PrepareFails, PrepareDrops, PrepareReads,
                  PrepareSends, PrepareMissed, Claim, life, ctlMem
    <2> QED BY <1>1, <2>1
  <1>9. ASSUME NEW p \in Proc, NEW l \in Lane, LaneFires(p, l) PROVE ViewGoes(q)
    <2>1. UNCHANGED <<ctl, view>>
      BY <1>9 DEF LaneFires, Attempt, Answer, PostLeaves, SignFails, Rehearse, AnswerPosted,
                  AnswerRefused, AnswerTerminal, AnswerNone, GuardRefuses, GuardPasses, life, ctlMem
    <2> QED BY <1>1, <2>1
  <1>10. ASSUME NEW p \in Proc, NEW w \in Watch, WaitEnds(p, w) PROVE ViewGoes(q)
    <2>1. UNCHANGED <<ctl, view>>
      BY <1>10 DEF WaitEnds, CloseCuts, FireDue, Retry, RetryCut, RetryGivesUp, RetryStarts, life,
                   ctlMem
    <2> QED BY <1>1, <2>1
  <1>11. CASE Outside
    BY <1>1, <1>11, OutsideLeavesMemory DEF Memory
  <1> QED BY <1>2, <1>4, <1>5, <1>6, <1>7, <1>8, <1>9, <1>10, <1>11, StepCases
          DEF ControlMoves, Reconcile, DbFails

-----------------------------------------------------------------------------
(* What a run that rests holds                                             *)

\* A run holds nothing before it serves and nothing once it is gone; the rows it read are those
\* of the reconcile that runs; and the lanes have ended before the fires are cut.
Resting(p) == ctl[p] \in {"new", "starting", "dead"}
LanesOver(p) == ctl[p] \in {"cutting", "draining", "closed"}
EmptyAt(p) ==
  /\ Resting(p) => inbox[p] = <<>> /\ \A w \in Watch : w \notin adopted[p] /\ ~Works(p, w)
  /\ ctl[p] # "reconciling" => view[p] = NoView
  /\ LanesOver(p) => \A l \in Lane : lane[p][l] = Idle
Empty == \A p \in Proc : EmptyAt(p)

LEMMA RestIsIdle ==
  ASSUME TypeOK, NEW p \in Proc, \A w \in Watch : ~Works(p, w)
  PROVE  \A l \in Lane : lane[p][l] = Idle
  <1> SUFFICES ASSUME NEW l \in Lane, lane[p][l] # Idle
               PROVE  FALSE
    OBVIOUS
  <1>1. lane[p][l] \in [at : LaneStage, watch : Watch]
    BY DEF TypeOK
  <1>2. lane[p][l].at # "idle"
    BY <1>1 DEF LaneStage
  <1> QED BY <1>2, LaneWatch, LaneIsBusy

LEMMA EmptyStep ==
  ASSUME IInv, Held, Empty, [Next]_vars
  PROVE  Empty'
  <1> SUFFICES ASSUME NEW p \in Proc
               PROVE  EmptyAt(p)'
    BY DEF Empty
  <1>1. TypeOK /\ EmptyAt(p) /\ CtlMoves(p) /\ ViewGoes(p) /\ InboxGoes(p)
    BY CtlStep, ViewStep, InboxGoesStep DEF IInv, Empty
  <1>2. CASE Gone(p)'
    BY <1>2 DEF Gone, EmptyAt, Resting, LanesOver, Idle
  <1>3. CASE ~Gone(p)'
    <2>1. Resting(p)' => Resting(p)
      BY <1>1, <1>3 DEF CtlMoves, Resting, LanesUp, StartWorker
    <2>2. ASSUME Resting(p)
          PROVE  inbox'[p] = <<>> /\ \A w \in Watch : w \notin adopted'[p] /\ ~Works(p, w)'
      <3>1. view[p] = NoView /\ inbox[p] = <<>>
        BY <1>1, <2>2 DEF EmptyAt, Resting
      <3>2. \A w \in Watch : w \notin adopted[p] /\ ~Works(p, w)
        BY <1>1, <2>2 DEF EmptyAt
      <3>3. \A w \in Watch : view[p][w] # "armed"
        BY <3>1 DEF NoView
      <3>4. \A w \in Watch : w \notin adopted'[p] /\ ~Works(p, w)'
        BY <3>2, <3>3, MemoryStep DEF MemoryMoves
      <3>5. inbox'[p] = <<>>
        BY <1>1, <3>1, <3>2 DEF InboxGoes, Speaks, Event
      <3> QED BY <3>4, <3>5
    <2>3. ctl'[p] # "reconciling" => view'[p] = NoView
      BY <1>1 DEF EmptyAt, ViewGoes
    <2>4. ASSUME LanesOver(p)', NEW l \in Lane
          PROVE  lane'[p][l] = Idle
      <3>1. LaneMoves(p, l)
        BY <1>1, LaneStep
      <3>2. ASSUME lane[p][l] = Idle, ~LanesUp(p)
            PROVE  lane'[p][l] = Idle
        BY <3>1, <3>2 DEF LaneMoves
      <3>3. CASE ctl[p] = "starting"
        <4>1. lane[p][l] = Idle
          BY <1>1, <3>3, RestIsIdle DEF EmptyAt, Resting
        <4> QED BY <3>2, <3>3, <4>1 DEF LanesUp
      <3>4. CASE LanesOver(p)
        BY <1>1, <3>2, <3>4 DEF EmptyAt, LanesOver, LanesUp
      <3>5. CASE ctl[p] # "starting" /\ ~LanesOver(p)
        <4>1. ~StartWorker(p)
          BY <1>1, <2>4 DEF StartWorker, TypeOK, LanesOver
        <4> QED BY <1>1, <1>3, <2>4, <3>5, <4>1 DEF CtlMoves, LanesOver, LanesUp
      <3> QED BY <3>3, <3>4, <3>5
    <2> QED BY <2>1, <2>2, <2>3, <2>4 DEF EmptyAt
  <1> QED BY <1>2, <1>3

-----------------------------------------------------------------------------
(* The tick and the posts                                                  *)

\* A run that may post for the watch: its book was read before the tick, and the way from there
\* to the post.
Loaded(p, w) ==
  \/ OnLane(p, "slow", "ready") /\ lane[p]["slow"].watch = w
  \/ Tells(p, w, "prepared") \/ w \in routed[p] \/ Sees(p, w) \/ fire[p][w] \in Shooting

\* A watch is fired after its tick.
AfterTheTick ==
  \A p \in Proc, w \in Watch :
    Sees(p, w) \/ fire[p][w] # "none" \/ sent[p][w] # "none" => TokenOf[w] \in ticked

\* What one run has sent for a watch no other may send again.
Spent ==
  \A p, q \in Proc, w \in Watch :
    p # q /\ sent[p][w] # "none" => sent[q][w] = "none" /\ ~Loaded(q, w)

FireInv == OutInv /\ OneAlive /\ Empty /\ AfterTheTick /\ Spent

\* A hot lane sees a tick it saw already, or one of a watch that is routed.
LEMMA SeesStep ==
  ASSUME TypeOK, [Next]_vars, NEW p \in Proc, NEW w \in Watch, Sees(p, w)'
  PROVE  Sees(p, w) \/ (w \in routed[p] /\ TokenOf[w] \in ticked)
  <1>1. PICK l \in Hot : lane'[p][l].at = "seen" /\ lane'[p][l].watch = w
    BY DEF Sees, OnLane
  <1>2. l \in Lane /\ LaneMoves(p, l)
    BY LaneStep, SlowIsALane
  <1> QED BY <1>1, <1>2 DEF LaneMoves, Sees, OnLane, Idle

\* What an inbox holds after a step it held before, or it was told in it.
LEMMA TellsStep ==
  ASSUME TypeOK, [Next]_vars, NEW p \in Proc, NEW w, NEW what, Tells(p, w, what)'
  PROVE  Tells(p, w, what) \/ Speaks(p, [watch |-> w, what |-> what])
  <1> DEFINE told == [watch |-> w, what |-> what]
  <1>1. inbox[p] \in Seq(Event) /\ InboxGoes(p)
    BY InboxGoesStep DEF TypeOK
  <1>2. PICK i \in DOMAIN inbox'[p] : inbox'[p][i] = told
    BY DEF Tells
  <1>3. SUFFICES (\E j \in DOMAIN inbox[p] : inbox[p][j] = told) \/ Speaks(p, told)
    BY DEF Tells
  <1> HIDE DEF told
  <1>4. CASE inbox'[p] = inbox[p]
    BY <1>2, <1>4
  <1>5. CASE inbox'[p] = <<>>
    BY <1>2, <1>5
  <1>6. CASE inbox[p] # <<>> /\ inbox'[p] = Tail(inbox[p])
    <2>1. i + 1 \in DOMAIN inbox[p] /\ inbox'[p][i] = inbox[p][i + 1]
      BY <1>1, <1>2, <1>6
    <2> QED BY <1>2, <2>1
  <1>7. ASSUME NEW e \in Event, inbox'[p] = Append(inbox[p], e), Speaks(p, e)
        PROVE  (\E j \in DOMAIN inbox[p] : inbox[p][j] = told) \/ Speaks(p, told)
    <2>1. inbox'[p][i] = e \/ (i \in DOMAIN inbox[p] /\ inbox'[p][i] = inbox[p][i])
      BY <1>1, <1>2, <1>7
    <2> QED BY <1>2, <1>7, <2>1
  <1> QED BY <1>1, <1>4, <1>5, <1>6, <1>7 DEF InboxGoes

\* The feed is asked for what was asked for already, or for what an event brings.
LEMMA RoutedStep ==
  ASSUME TypeOK, [Next]_vars, NEW p \in Proc, NEW w \in Watch, w \in routed'[p]
  PROVE  w \in routed[p] \/ (DrainPrepared(p) /\ w = Head(inbox[p]).watch)
  <1>1. CASE UNCHANGED routed
    BY <1>1
  <1>2. CASE Outside
    BY <1>2, OutsideLeavesMemory DEF Memory
  <1>3. ASSUME NEW q \in Proc, StopWorker(q) \/ Crash(q) PROVE w \in routed[p]
    BY <1>3, EndOfRun DEF Gone, Same
  <1>4. ASSUME NEW q \in Proc, NEW W, Forget(q, W) PROVE w \in routed[p]
    BY <1>4 DEF Forget, TypeOK
  <1>5. ASSUME NEW q \in Proc,
               DrainResolved(q) \/ ReconcileEnds(q) \/ \E v \in Watch : DisarmLogged(q, v)
        PROVE  w \in routed[p]
    BY <1>4, <1>5 DEF DrainResolved, ReconcileEnds, DisarmLogged
  <1>6. ASSUME NEW q \in Proc, DrainPrepared(q)
        PROVE  w \in routed[p] \/ (DrainPrepared(p) /\ w = Head(inbox[p]).watch)
    BY <1>6 DEF DrainPrepared, TypeOK
  <1>7. ASSUME NEW q \in Proc,
               \/ StartWorker(q) \/ BeatFails(q) \/ StopSignal(q) \/ OpenSniper(q) \/ DbFails(q)
               \/ DrainUnknown(q) \/ DrainClaimed(q) \/ ReconcileReads(q) \/ LeaveLoop(q)
               \/ CloseClaims(q) \/ CloseJoins(q) \/ CloseDrains(q) \/ CloseEnds(q)
               \/ \E v \in Watch : \/ DisarmUnadopted(q, v) \/ DisarmWins(q, v)
                                   \/ DisarmLoses(q, v) \/ Adopt(q, v)
        PROVE  UNCHANGED routed
    BY <1>7 DEF StartWorker, BeatFails, StopSignal, OpenSniper, OpenFails, DbFails, DrainUnknown,
                DrainClaimed, DrainFails, ReconcileReads, ReconcileFails, LeaveLoop, CloseClaims,
                CloseJoins, CloseDrains, CloseEnds, DisarmUnadopted, DisarmWins, DisarmLoses, Adopt,
                ctlMem
  <1>8. ASSUME NEW q \in Proc, LaneLooks(q) \/ PrepareMissed(q) \/ \E l \in Hot : Claim(q, l)
        PROVE  UNCHANGED routed
    BY <1>8 DEF LaneLooks, Observe, PrepareStarts, PrepareFails, PrepareDrops, PrepareReads,
                PrepareSends, PrepareMissed, Claim, ctlMem
  <1>9. ASSUME NEW q \in Proc, NEW l \in Lane, LaneFires(q, l) PROVE UNCHANGED routed
    BY <1>9 DEF LaneFires, Attempt, Answer, PostLeaves, SignFails, Rehearse, AnswerPosted,
                AnswerRefused, AnswerTerminal, AnswerNone, GuardRefuses, GuardPasses, ctlMem
  <1>10. ASSUME NEW q \in Proc, NEW v \in Watch, WaitEnds(q, v) PROVE UNCHANGED routed
    BY <1>10 DEF WaitEnds, CloseCuts, FireDue, Retry, RetryCut, RetryGivesUp, RetryStarts, ctlMem
  <1> QED BY <1>1, <1>2, <1>3, <1>5, <1>6, <1>7, <1>8, <1>9, <1>10, StepCases
          DEF ControlMoves, Reconcile, Drain

LEMMA HeadIsTold ==
  ASSUME TypeOK, NEW p \in Proc, inbox[p] # <<>>
  PROVE  Tells(p, Head(inbox[p]).watch, Head(inbox[p]).what)
  <1>1. 1 \in DOMAIN inbox[p] /\ inbox[p][1] = Head(inbox[p])
    BY DEF TypeOK
  <1>2. Head(inbox[p]) = [watch |-> Head(inbox[p]).watch, what |-> Head(inbox[p]).what]
    BY HeadIsEvent DEF Event
  <1> QED BY <1>1, <1>2 DEF Tells

\* A run comes to hold a watch for a post by reading its book before the tick.
LEMMA LoadStep ==
  ASSUME IInv, [Next]_vars, NEW p \in Proc, NEW w \in Watch, Loaded(p, w)'
  PROVE  Loaded(p, w) \/ TokenOf[w] \notin ticked
  <1> USE DEF IInv
  <1>1. CASE (OnLane(p, "slow", "ready") /\ lane[p]["slow"].watch = w)'
    <2>1. LaneMoves(p, "slow")
      BY LaneStep, SlowIsALane
    <2> QED BY <1>1, <2>1, ConstantsAssumption DEF LaneMoves, Loaded, OnLane, Idle
  <1>2. CASE Tells(p, w, "prepared")'
    BY <1>2, TellsStep DEF Speaks, Loaded
  <1>3. CASE w \in routed'[p]
    <2>1. w \in routed[p] \/ (DrainPrepared(p) /\ w = Head(inbox[p]).watch)
      BY <1>3, RoutedStep
    <2> QED BY <2>1, HeadIsTold DEF DrainPrepared, Draining, Loaded
  <1>4. CASE Sees(p, w)'
    BY <1>4, SeesStep DEF Loaded
  <1>5. CASE fire'[p][w] \in Shooting
    <2>1. FireGoes(p, w)
      BY FireGoesStep
    <2> QED BY <1>5, <2>1 DEF FireGoes, Loaded, Shooting, Gone
  <1> QED BY <1>1, <1>2, <1>3, <1>4, <1>5 DEF Loaded

\* A tick stays reached and a disarm asked for.
LEMMA TickKept ==
  ASSUME [Next]_vars
  PROVE  ticked \subseteq ticked' /\ asked \subseteq asked'
  <1>1. CASE Outside
    BY <1>1 DEF Outside, Operator, Arm, RequestDisarm, TickReaches, Exchange, Accept, Refuse, vars,
                exchange
  <1>2. ASSUME NEW p \in Proc, ControlMoves(p) \/ StopWorker(p) \/ Crash(p) PROVE UNCHANGED <<ticked, asked>>
    <2>1. CASE StopWorker(p) \/ Crash(p) \/ StartWorker(p) \/ BeatFails(p) \/ StopSignal(p)
      BY <2>1 DEF StopWorker, Crash, StartWorker, BeatFails, StopSignal, exchange
    <2>2. CASE OpenSniper(p) \/ Drain(p) \/ DbFails(p)
      BY <2>2 DEF OpenSniper, Drain, DrainUnknown, DrainPrepared, DrainClaimed, DrainResolved,
                  DbFails, OpenFails, DrainFails, ReconcileFails, exchange
    <2>3. CASE Reconcile(p)
      BY <2>3 DEF Reconcile, ReconcileReads, DisarmUnadopted, DisarmWins, DisarmLogged,
                  DisarmLoses, Adopt, ReconcileEnds, exchange
    <2>4. CASE LeaveLoop(p) \/ CloseClaims(p) \/ CloseJoins(p) \/ CloseDrains(p) \/ CloseEnds(p)
      BY <2>4 DEF LeaveLoop, CloseClaims, CloseJoins, CloseDrains, CloseEnds, exchange
    <2> QED BY <1>2, <2>1, <2>2, <2>3, <2>4 DEF ControlMoves
  <1>3. ASSUME NEW p \in Proc, LaneLooks(p) \/ PrepareMissed(p) \/ \E l \in Hot : Claim(p, l)
        PROVE  UNCHANGED <<ticked, asked>>
    BY <1>3 DEF LaneLooks, Observe, PrepareStarts, PrepareFails, PrepareDrops, PrepareReads,
                PrepareSends, PrepareMissed, Claim, exchange
  <1>4. ASSUME NEW p \in Proc, NEW l \in Lane, LaneFires(p, l) PROVE UNCHANGED <<ticked, asked>>
    BY <1>4 DEF LaneFires, Attempt, Answer, PostLeaves, SignFails, Rehearse, AnswerPosted,
                AnswerRefused, AnswerTerminal, AnswerNone, GuardRefuses, GuardPasses, exchange
  <1>5. ASSUME NEW p \in Proc, NEW w \in Watch, WaitEnds(p, w) PROVE UNCHANGED <<ticked, asked>>
    BY <1>5 DEF WaitEnds, CloseCuts, FireDue, Retry, RetryCut, RetryGivesUp, RetryStarts, exchange
  <1> QED BY <1>1, <1>2, <1>3, <1>4, <1>5, StepCases

LEMMA TickStep ==
  ASSUME IInv, AfterTheTick, [Next]_vars
  PROVE  AfterTheTick'
  <1> SUFFICES ASSUME NEW p \in Proc, NEW w \in Watch,
                      Sees(p, w)' \/ fire'[p][w] # "none" \/ sent'[p][w] # "none",
                      TokenOf[w] \notin ticked
               PROVE  FALSE
    BY TickKept DEF AfterTheTick
  <1>1. ~Sees(p, w) /\ fire[p][w] = "none" /\ sent[p][w] = "none"
    BY DEF AfterTheTick
  <1>2. TypeOK /\ FireGoes(p, w)
    BY FireGoesStep DEF IInv
  <1> QED BY <1>1, <1>2, SeesStep DEF FireGoes, Shooting, Gone

\* While a run is alive the others hold nothing.
LEMMA OthersRest ==
  ASSUME OneAlive, Empty, NEW p \in Proc, NEW q \in Proc, p # q, Alive(p)
  PROVE  Resting(q) /\ \A w \in Watch : ~Loaded(q, w) /\ ~Works(q, w) /\ w \notin adopted[q]
  <1>1. ~Alive(q)
    <2>1. ASSUME Alive(q) PROVE FALSE
      <3>1. status.who = p /\ status.who = q
        BY <2>1 DEF OneAlive
      <3> QED BY <3>1
    <2> QED BY <2>1
  <1>2. Resting(q)
    BY <1>1 DEF Alive, Resting
  <1>3. inbox[q] = <<>> /\ \A w \in Watch : w \notin adopted[q] /\ ~Works(q, w)
    BY <1>2 DEF Empty, EmptyAt
  <1>4. \A w \in Watch : ~Loaded(q, w)
    BY <1>3, SlowIsALane DEF Loaded, Works, Busy, Tells, Sees, OnLane, Shooting
  <1> QED BY <1>2, <1>3, <1>4

\* A fire that goes on belongs to a run that is alive, and no other has sent for its watch.
LEMMA ShooterIsAlone ==
  ASSUME FireInv, NEW p \in Proc, NEW w \in Watch, fire[p][w] \in Shooting
  PROVE  /\ Alive(p) /\ TokenOf[w] \in ticked
         /\ \A q \in Proc : q # p => sent[q][w] = "none" /\ ~Loaded(q, w)
  <1>1. fire[p][w] # "none" /\ Loaded(p, w)
    BY DEF Shooting, Loaded
  <1>2. ~Resting(p)
    BY <1>1 DEF FireInv, Empty, EmptyAt, Works
  <1>3. Alive(p)
    BY <1>2 DEF Resting, Alive
  <1>4. TokenOf[w] \in ticked
    BY <1>1 DEF FireInv, AfterTheTick
  <1> QED BY <1>1, <1>3, <1>4, OthersRest DEF FireInv, Spent

LEMMA SpentStep ==
  ASSUME FireInv, [Next]_vars
  PROVE  Spent'
  <1> SUFFICES ASSUME NEW p \in Proc, NEW q \in Proc, NEW w \in Watch, p # q, sent'[p][w] # "none"
               PROVE  sent'[q][w] = "none" /\ ~Loaded(q, w)'
    BY DEF Spent
  <1>1. IInv /\ FireGoes(p, w) /\ FireGoes(q, w)
    BY FireGoesStep DEF FireInv, OutInv
  <1>2. TokenOf[w] \in ticked /\ sent[q][w] = "none" /\ ~Loaded(q, w)
    <2>1. CASE sent[p][w] # "none"
      BY <2>1 DEF FireInv, Spent, AfterTheTick
    <2>2. CASE sent[p][w] = "none"
      <3>1. fire[p][w] \in Shooting
        BY <1>1, <2>2 DEF FireGoes, Shooting
      <3> QED BY <3>1, ShooterIsAlone
    <2> QED BY <2>1, <2>2
  <1>3. ~Loaded(q, w)'
    BY <1>1, <1>2, LoadStep
  <1>4. sent'[q][w] = "none"
    BY <1>1, <1>2 DEF FireGoes, Loaded, Shooting
  <1> QED BY <1>3, <1>4

LEMMA InitFireInv ==
  ASSUME Init
  PROVE  FireInv
  <1>1. OutInv
    BY InitOutInv
  <1>2. OneAlive /\ Empty
    BY DEF Init, OneAlive, Alive, Empty, EmptyAt, Resting, LanesOver, Works, Busy, Idle
  <1>3. AfterTheTick /\ Spent
    BY SlowIsALane DEF Init, AfterTheTick, Spent, Sees, OnLane, Idle
  <1> QED BY <1>1, <1>2, <1>3 DEF FireInv

LEMMA FireInvStep ==
  ASSUME FireInv, "stall" \notin May, [Next]_vars
  PROVE  FireInv'
  <1>1. OutInv' /\ Empty' /\ AfterTheTick' /\ Spent'
    BY OutInvStep, EmptyStep, TickStep, SpentStep DEF FireInv, OutInv
  <1>2. OneAlive'
    BY OneAliveStep DEF FireInv, OutInv, IInv
  <1> QED BY <1>1, <1>2 DEF FireInv

\* A watch has one order at most over every run of the worker, whatever crashes between the
\* post and its row and whatever statement fails, while no worker stalls.
THEOREM OneOrderOverRuns ==
  ASSUME "stall" \notin May
  PROVE  Spec => []FiresOnce
  <1>1. FireInv => FiresOnce
    BY DEF FireInv, Spent, OutInv, IInv, Custody, CustodyAt, FiresOnce
  <1>2. FireInv /\ [Next]_vars => FireInv'
    BY FireInvStep
  <1> QED BY <1>1, <1>2, InitFireInv, PTL DEF Spec

\* A claim is never given back while its run lives.
LEMMA ClaimsKept ==
  ASSUME TypeOK, [Next]_vars, NEW p \in Proc, ctl'[p] # "dead"
  PROVE  claimed[p] \subseteq claimed'[p]
  <1>1. ASSUME GoesOn PROVE claimed[p] \subseteq claimed'[p]
    BY <1>1 DEF GoesOn
  <1>2. CASE Outside
    BY <1>2, OutsideLeavesMemory DEF Memory
  <1>3. ASSUME NEW q \in Proc, StopWorker(q) \/ Crash(q) PROVE claimed[p] \subseteq claimed'[p]
    BY <1>3, EndOfRun DEF Gone, Same
  <1>4. ASSUME NEW q \in Proc, ControlMoves(q) \/ LaneLooks(q) \/ \E l \in Hot : Claim(q, l)
        PROVE  GoesOn
    BY <1>4, ControlGoesOn, LookGoesOn, ClaimGoesOn
  <1>5. ASSUME NEW q \in Proc, PrepareMissed(q) PROVE claimed[p] \subseteq claimed'[p]
    BY <1>5 DEF PrepareMissed, TypeOK
  <1>6. ASSUME NEW q \in Proc, NEW l \in Lane, LaneFires(q, l) PROVE UNCHANGED claimed
    BY <1>6 DEF LaneFires, Attempt, Answer, PostLeaves, SignFails, Rehearse, AnswerPosted,
                AnswerRefused, AnswerTerminal, AnswerNone, GuardRefuses, GuardPasses
  <1>7. ASSUME NEW q \in Proc, NEW w \in Watch, WaitEnds(q, w) PROVE UNCHANGED claimed
    BY <1>7 DEF WaitEnds, CloseCuts, FireDue, Retry, RetryCut, RetryGivesUp, RetryStarts
  <1> QED BY <1>1, <1>2, <1>3, <1>4, <1>5, <1>6, <1>7, StepCases

-----------------------------------------------------------------------------
(* The ends that are certain                                               *)

\* No other run has sent for the watch, and none will.
Sole(p, w) ==
  TokenOf[w] \in ticked /\ \A q \in Proc : q # p => sent[q][w] = "none" /\ ~Loaded(q, w)

\* The run that tells the end of a fire is the only one that sent for its watch, and so is the
\* run that wrote a certain end.
EventsSole ==
  \A p \in Proc, w \in Watch, o \in FireEnds : Tells(p, w, o) => Sole(p, w)

Certain(w) ==
  state[w] \in {"rejected", "rehearsed"} \/ (state[w] = "failed" /\ ~MayRest(w))

EndSole(w) ==
  /\ state[w] \in ClosedStates => closer[w] # None
  /\ Certain(w) => Sole(closer[w], w)
EndsSole == \A w \in Watch : EndSole(w)

EndsInv == FireInv /\ EventsSole /\ EndsSole

LEMMA SoleKept ==
  ASSUME IInv, [Next]_vars, NEW p, NEW w \in Watch, Sole(p, w)
  PROVE  Sole(p, w)'
  <1> SUFFICES ASSUME NEW q \in Proc, q # p
               PROVE  sent'[q][w] = "none" /\ ~Loaded(q, w)'
    BY TickKept DEF Sole
  <1>1. TokenOf[w] \in ticked /\ sent[q][w] = "none" /\ ~Loaded(q, w) /\ FireGoes(q, w)
    BY FireGoesStep DEF Sole
  <1>2. sent'[q][w] = "none"
    BY <1>1 DEF FireGoes, Loaded, Shooting
  <1> QED BY <1>1, <1>2, LoadStep

LEMMA EventsSoleStep ==
  ASSUME EndsInv, [Next]_vars
  PROVE  EventsSole'
  <1> SUFFICES ASSUME NEW p \in Proc, NEW w \in Watch, NEW o \in FireEnds, Tells(p, w, o)'
               PROVE  Sole(p, w)'
    BY DEF EventsSole
  <1>1. IInv /\ TypeOK
    BY DEF EndsInv, FireInv, OutInv, IInv
  <1>2. Sole(p, w)
    <2>1. CASE Tells(p, w, o)
      BY <2>1 DEF EndsInv, EventsSole
    <2>2. CASE Speaks(p, [watch |-> w, what |-> o])
      <3>1. fire[p][w] \in Shooting
        BY <2>2 DEF Speaks
      <3> QED BY <3>1, ShooterIsAlone DEF EndsInv, Sole
    <2> QED BY <1>1, <2>1, <2>2, TellsStep
  <1> QED BY <1>1, <1>2, SoleKept

LEMMA EndsSoleStep ==
  ASSUME EndsInv, [Next]_vars
  PROVE  EndsSole'
  <1> SUFFICES ASSUME NEW w \in Watch
               PROVE  EndSole(w)'
    BY DEF EndsSole
  <1>1. IInv /\ TypeOK /\ EndSole(w)
    BY DEF EndsInv, FireInv, OutInv, IInv, EndsSole
  <1>2. RowMoves(w)
    BY <1>1, RowStep
  <1>3. CASE RowStays(w)
    <2>1. PICK p : p = closer[w]
      OBVIOUS
    <2>2. Certain(w) => Sole(p, w)'
      BY <1>1, <2>1, SoleKept DEF EndSole
    <2> QED BY <1>1, <1>3, <2>1, <2>2 DEF RowStays, EndSole, Certain, MayRest
  <1>4. CASE state'[w] \in {"armed", "firing"}
    BY <1>4 DEF EndSole, Certain, ClosedStates
  <1>5. ASSUME NEW p \in Proc, NEW o \in Outcome, RowCloses(p, w, o)
        PROVE  EndSole(w)'
    <2>1. closer'[w] = p /\ state'[w] = Settle(o).state /\ reason'[w] = Settle(o).reason
      BY <1>5 DEF RowCloses
    <2>2. p # None
      BY ConstantsAssumption
    <2>3. ASSUME Certain(w)'
          PROVE  Sole(p, w)'
      <3>1. o \in FireEnds /\ o \notin {"interrupted", "disarmed"}
        BY <2>1, <2>3 DEF Certain, MayRest, Settle, Outcome, FireEnds
      <3>2. DrainResolved(p) /\ Head(inbox[p]) = [watch |-> w, what |-> o]
        BY <1>5, <3>1 DEF RowCloses, ClosedBy
      <3>3. Tells(p, w, o)
        BY <1>1, <3>2, HeadIsTold DEF DrainResolved, Draining
      <3>4. Sole(p, w)
        BY <3>1, <3>3 DEF EndsInv, EventsSole
      <3> QED BY <1>1, <3>4, SoleKept
    <2> QED BY <2>1, <2>2, <2>3 DEF EndSole
  <1> QED BY <1>2, <1>3, <1>4, <1>5 DEF RowMoves

LEMMA InitEndsInv ==
  ASSUME Init
  PROVE  EndsInv
  <1>1. FireInv
    BY InitFireInv
  <1>2. EventsSole
    BY DEF Init, EventsSole, Tells
  <1>3. EndsSole
    BY DEF Init, EndsSole, EndSole, Certain, ClosedStates
  <1> QED BY <1>1, <1>2, <1>3 DEF EndsInv

\* What docs/sniper.md calls certain is certain over every run, and stays so: no order exists
\* and none can appear, or an order does, while no worker stalls.
THEOREM EndsAreCertain ==
  ASSUME "stall" \notin May
  PROVE  Spec => []CertainEnds
  <1>1. EndsInv => CertainEnds
    <2> SUFFICES ASSUME EndsInv, NEW w \in Watch
                 PROVE  /\ state[w] = "fired" => Posted(w)
                        /\ Certain(w) => ~Posted(w) /\ ~Undecided(w)
      BY DEF CertainEnds, Certain
    <2>1. TypeOK /\ Custody /\ EndsTrue /\ EndSole(w)
      BY DEF EndsInv, FireInv, OutInv, IInv, EndsSole
    <2>2. state[w] = "fired" \/ Certain(w) => closer[w] \in Proc /\ EndTrue(closer[w], w)
      BY <2>1 DEF TypeOK, EndSole, EndsTrue, Certain, ClosedStates
    <2>3. state[w] = "fired" => Posted(w)
      <3>1. state[w] = "fired" => orders[closer[w]][w] = 1
        BY <2>1, <2>2 DEF EndTrue, Custody, CustodyAt
      <3> QED BY <2>2, <3>1 DEF Posted
    <2>4. ASSUME Certain(w)
          PROVE  ~Posted(w) /\ ~Undecided(w)
      <3>1. sent[closer[w]][w] = "none"
        BY <2>2, <2>4 DEF EndTrue, Certain, MayRest
      <3>2. \A q \in Proc : sent[q][w] = "none"
        BY <2>1, <2>4, <3>1 DEF EndSole, Sole
      <3>3. \A q \in Proc : orders[q][w] = 0
        BY <2>1, <3>2 DEF Custody, CustodyAt
      <3> QED BY <3>2, <3>3 DEF Posted, Undecided
    <2> QED BY <2>3, <2>4
  <1>2. EndsInv /\ [Next]_vars => EndsInv'
    BY FireInvStep, EventsSoleStep, EndsSoleStep DEF EndsInv
  <1> QED BY <1>1, <1>2, InitEndsInv, PTL DEF Spec

-----------------------------------------------------------------------------
(* The memory and the rows                                                 *)

\* A run that reconciles acts on rows that are still what it read, and what it fires it holds.
ViewHoldsAt(p, w) ==
  /\ view[p][w] \in {"armed", "asked", "firing", "asked_firing"} => IsOpen(w)
  /\ view[p][w] \in {"asked", "asked_firing"} => w \in asked
ViewHolds == \A p \in Proc, w \in Watch : ViewHoldsAt(p, w)
FiresItsOwn ==
  \A p \in Proc, w \in Watch :
    fire[p][w] \in Shooting \/ (Sees(p, w) /\ w \notin claimed[p]) => w \in adopted[p]

HoldInv == FireInv /\ RoutedIsHeld /\ ViewHolds /\ FiresItsOwn

\* How a run gives a watch up.
LEMMA AdoptedLeaves ==
  ASSUME TypeOK, [Next]_vars, NEW p \in Proc, NEW w \in Watch, w \in adopted[p], w \notin adopted'[p]
  PROVE  /\ w \notin routed'[p]
         /\ \/ Gone(p)'
            \/ DrainResolved(p) /\ Head(inbox[p]).watch = w
            \/ DisarmLogged(p, w)
            \/ ReconcileEnds(p) /\ view[p][w] = "shut"
  <1>1. CASE UNCHANGED adopted
    BY <1>1
  <1>2. CASE Outside
    BY <1>2, OutsideLeavesMemory DEF Memory
  <1>3. ASSUME NEW q \in Proc, StopWorker(q) \/ Crash(q) PROVE w \notin routed'[p] /\ Gone(p)'
    BY <1>3, EndOfRun DEF Gone, Same
  <1>4. ASSUME NEW q \in Proc, NEW W, Forget(q, W) PROVE q = p /\ w \in W /\ w \notin routed'[p]
    BY <1>4 DEF Forget, TypeOK
  <1>5. ASSUME NEW q \in Proc, DrainResolved(q)
        PROVE  w \notin routed'[p] /\ DrainResolved(p) /\ Head(inbox[p]).watch = w
    <2>1. Forget(q, {Head(inbox[q]).watch})
      BY <1>5 DEF DrainResolved
    <2> QED BY <1>4, <1>5, <2>1
  <1>6. ASSUME NEW q \in Proc, NEW v \in Watch, DisarmLogged(q, v)
        PROVE  w \notin routed'[p] /\ DisarmLogged(p, w)
    <2>1. Forget(q, {v})
      BY <1>6 DEF DisarmLogged
    <2> QED BY <1>4, <1>6, <2>1
  <1>7. ASSUME NEW q \in Proc, ReconcileEnds(q)
        PROVE  w \notin routed'[p] /\ ReconcileEnds(p) /\ view[p][w] = "shut"
    <2> DEFINE shut == {v \in adopted[q] : view[q][v] = "shut"}
    <2>1. Forget(q, shut)
      BY <1>7 DEF ReconcileEnds
    <2>2. q = p /\ w \in shut /\ w \notin routed'[p]
      <3> HIDE DEF shut
      <3> QED BY <1>4, <2>1
    <2> QED BY <1>7, <2>2
  <1>8. ASSUME NEW q \in Proc, NEW v \in Watch, Adopt(q, v) PROVE FALSE
    BY <1>8 DEF Adopt, TypeOK
  <1>9. ASSUME NEW q \in Proc,
               \/ StartWorker(q) \/ BeatFails(q) \/ StopSignal(q) \/ OpenSniper(q) \/ DbFails(q)
               \/ DrainUnknown(q) \/ DrainPrepared(q) \/ DrainClaimed(q) \/ ReconcileReads(q)
               \/ LeaveLoop(q) \/ CloseClaims(q) \/ CloseJoins(q) \/ CloseDrains(q) \/ CloseEnds(q)
               \/ \E v \in Watch : DisarmUnadopted(q, v) \/ DisarmWins(q, v) \/ DisarmLoses(q, v)
        PROVE  UNCHANGED adopted
    BY <1>9 DEF StartWorker, BeatFails, StopSignal, OpenSniper, OpenFails, DbFails, DrainUnknown,
                DrainPrepared, DrainClaimed, DrainFails, ReconcileReads, ReconcileFails, LeaveLoop,
                CloseClaims, CloseJoins, CloseDrains, CloseEnds, DisarmUnadopted, DisarmWins,
                DisarmLoses, ctlMem
  <1>10. ASSUME NEW q \in Proc, LaneLooks(q) \/ PrepareMissed(q) \/ \E l \in Hot : Claim(q, l)
         PROVE  UNCHANGED adopted
    BY <1>10 DEF LaneLooks, Observe, PrepareStarts, PrepareFails, PrepareDrops, PrepareReads,
                 PrepareSends, PrepareMissed, Claim, ctlMem
  <1>11. ASSUME NEW q \in Proc, NEW l \in Lane, LaneFires(q, l) PROVE UNCHANGED adopted
    BY <1>11 DEF LaneFires, Attempt, Answer, PostLeaves, SignFails, Rehearse, AnswerPosted,
                 AnswerRefused, AnswerTerminal, AnswerNone, GuardRefuses, GuardPasses, ctlMem
  <1>12. ASSUME NEW q \in Proc, NEW v \in Watch, WaitEnds(q, v) PROVE UNCHANGED adopted
    BY <1>12 DEF WaitEnds, CloseCuts, FireDue, Retry, RetryCut, RetryGivesUp, RetryStarts, ctlMem
  <1> QED BY <1>1, <1>2, <1>3, <1>5, <1>6, <1>7, <1>8, <1>9, <1>10, <1>11, <1>12, StepCases
          DEF ControlMoves, Reconcile, Drain

\* What a run still holds of a watch whose row is closed: nothing, or a claim that no fire uses.
LetGo(p, w) == w \notin adopted[p] \/ (w \in claimed[p] /\ fire[p][w] = "none")

\* A row is closed by the run that is alive, which has let it go and has acted on it.
LEMMA CloserIsAlive ==
  ASSUME FireInv, [Next]_vars, NEW p \in Proc, NEW w \in Watch, NEW o \in Outcome,
         RowCloses(p, w, o)
  PROVE  Alive(p) /\ LetGo(p, w)' /\ view'[p][w] \in {"done", "shut", "written"}
  <1>1. TypeOK /\ EmptyAt(p) /\ CustodyAt(p, w) /\ ClosedBy(p, w, o)
    BY DEF FireInv, OutInv, IInv, Empty, Custody, RowCloses
  <1>2. CASE OpenSniper(p)
    <2>1. ctl[p] = "starting" /\ UNCHANGED <<adopted, view>>
      BY <1>2 DEF OpenSniper, ctlMem
    <2> QED BY <1>1, <2>1 DEF EmptyAt, Resting, Alive, LetGo, NoView
  <1>3. CASE DisarmUnadopted(p, w)
    BY <1>1, <1>3 DEF DisarmUnadopted, TakesRow, Alive, LetGo, DisarmWrites, TypeOK
  <1>4. CASE DisarmWins(p, w)
    <2>1. w \in claimed'[p] /\ fire'[p][w] = "none"
      BY <1>1, <1>4 DEF DisarmWins, TakesRow, CustodyAt, TypeOK, fireMem
    <2> QED BY <1>1, <1>4, <2>1 DEF DisarmWins, TakesRow, Alive, LetGo, DisarmWrites, TypeOK
  <1>5. CASE DrainResolved(p) /\ Head(inbox[p]) = [watch |-> w, what |-> o]
    <2>1. ctl[p] \in {"serving", "draining"} /\ UNCHANGED view /\ Forget(p, {w})
      <3>1. Head(inbox[p]).watch = w
        BY <1>5
      <3> QED BY <1>5, <3>1 DEF DrainResolved, Draining, ctlMem
    <2>2. view'[p][w] = "shut"
      BY <1>1, <2>1 DEF EmptyAt, NoView
    <2> QED BY <1>1, <2>1, <2>2 DEF Alive, LetGo, Forget, TypeOK
  <1> QED BY <1>1, <1>2, <1>3, <1>4, <1>5 DEF ClosedBy

LEMMA ClosedForAll ==
  ASSUME FireInv, [Next]_vars, NEW p \in Proc, NEW w \in Watch, NEW o \in Outcome,
         RowCloses(p, w, o), NEW q \in Proc
  PROVE  LetGo(q, w)' /\ view'[q][w] \in {"done", "shut", "written"}
  <1>1. Alive(p) /\ LetGo(p, w)' /\ view'[p][w] \in {"done", "shut", "written"}
    BY CloserIsAlive
  <1>2. CASE q # p
    <2>1. Resting(q) /\ w \notin adopted[q]
      BY <1>1, <1>2, OthersRest DEF FireInv
    <2>2. view[q][w] = "shut"
      BY <2>1 DEF FireInv, Empty, EmptyAt, Resting, NoView
    <2>3. MemoryMoves(q, w) /\ ViewGoes(q)
      BY MemoryStep, ViewStep DEF FireInv, OutInv, IInv
    <2>4. state'[w] # state[w]
      BY SettleType DEF RowCloses, IsOpen, OpenStates, ClosedStates
    <2> QED BY <2>1, <2>2, <2>3, <2>4 DEF LetGo, MemoryMoves, ViewGoes, db
  <1> QED BY <1>1, <1>2

\* A row that a run has not let go, or read as open, is open after the step too.
LEMMA OpenStays ==
  ASSUME HoldInv, [Next]_vars, NEW p \in Proc, NEW w \in Watch,
         ~LetGo(p, w)' \/ view'[p][w] \notin {"done", "shut", "written"},
         IsOpen(w)
  PROVE  IsOpen(w)'
  <1>1. RowMoves(w)
    BY RowStep DEF HoldInv, FireInv, OutInv, IInv
  <1> QED BY <1>1, ClosedForAll DEF RowMoves, RowStays, IsOpen, OpenStates, HoldInv

LEMMA HeldIsOpenStep ==
  ASSUME HoldInv, FiresItsOwn', [Next]_vars
  PROVE  RoutedIsHeld' /\ ViewHolds'
  <1>0. TypeOK /\ IInv /\ Held /\ Empty
    BY DEF HoldInv, FireInv, OutInv, IInv
  <1>1. ASSUME NEW p \in Proc, NEW w \in Watch, w \in adopted'[p]
        PROVE  IsOpen(w)' \/ (w \in claimed'[p] /\ fire'[p][w] = "none")
    <2>1. w \in adopted[p] \/ view[p][w] = "armed"
      BY <1>0, <1>1, MemoryStep DEF MemoryMoves
    <2>2. CASE IsOpen(w)
      BY <1>1, <2>2, OpenStays DEF LetGo
    <2>3. CASE ~IsOpen(w)
      <3>1. w \in claimed[p] /\ fire[p][w] = "none"
        BY <2>1, <2>3 DEF HoldInv, RoutedIsHeld, ViewHolds, ViewHoldsAt
      <3>2. ctl'[p] # "dead"
        BY <1>0, <1>1, EmptyStep DEF Empty, EmptyAt, Resting
      <3> QED BY <1>0, <3>1, <3>2, FireStep DEF FireMoves
    <2> QED BY <2>2, <2>3
  <1>2. ASSUME NEW p \in Proc, NEW w \in Watch, w \in routed'[p]
        PROVE  w \in adopted'[p]
    <2>1. CASE w \in routed[p]
      BY <1>0, <1>2, <2>1, AdoptedLeaves DEF HoldInv, RoutedIsHeld
    <2>2. CASE DrainPrepared(p) /\ w = Head(inbox[p]).watch
      BY <2>2 DEF DrainPrepared
    <2> QED BY <1>0, <1>2, <2>1, <2>2, RoutedStep
  <1>3. ASSUME NEW p \in Proc, NEW v \in Watch, NEW w \in Watch, v \in routed'[p], w \in routed'[p],
               TokenOf[v] = TokenOf[w]
        PROVE  v = w
    <2>1. CASE DrainPrepared(p)
      <3> DEFINE u == Head(inbox[p]).watch
      <3>1. \/ routed'[p] = routed[p]
            \/ routed'[p] = {x \in routed[p] : TokenOf[x] # TokenOf[u]} \cup {u}
        BY <1>0, <2>1 DEF DrainPrepared, TypeOK
      <3> HIDE DEF u
      <3> QED BY <1>3, <3>1 DEF HoldInv, RoutedIsHeld
    <2>2. CASE ~DrainPrepared(p)
      BY <1>0, <1>3, <2>2, RoutedStep DEF HoldInv, RoutedIsHeld
    <2> QED BY <2>1, <2>2
  <1>4. ASSUME NEW p \in Proc, NEW w \in Watch
        PROVE  ViewHoldsAt(p, w)'
    <2>1. ViewHoldsAt(p, w) /\ ViewGoes(p) /\ asked \subseteq asked'
      BY <1>0, ViewStep, TickKept DEF HoldInv, ViewHolds
    <2>2. CASE view'[p][w] = view[p][w]
      BY <2>1, <2>2, OpenStays DEF ViewHoldsAt
    <2>3. CASE view'[p][w] \in {"done", "shut", "written"}
      BY <2>3 DEF ViewHoldsAt
    <2>4. CASE view'[p][w] = ViewOf(w)
      <3>1. /\ view'[p][w] # "shut" => IsOpen(w) /\ view'[p][w] \notin {"done", "written"}
            /\ view'[p][w] \in {"asked", "asked_firing"} => w \in asked
        BY <2>4 DEF ViewOf, IsOpen, OpenStates
      <3>2. view'[p][w] # "shut" => IsOpen(w)'
        BY <3>1, OpenStays
      <3> QED BY <2>1, <3>1, <3>2 DEF ViewHoldsAt
    <2> QED BY <2>1, <2>2, <2>3, <2>4 DEF ViewGoes
  <1>5. \A p \in Proc : routed'[p] \subseteq Watch /\ adopted'[p] \subseteq Watch
    BY <1>0, IInvStep DEF IInv, TypeOK
  <1>6. ASSUME NEW p \in Proc, NEW w \in Watch, fire'[p][w] \in UnderWay
        PROVE  w \in adopted'[p] /\ IsOpen(w)'
    <2>1. w \in adopted'[p] /\ fire'[p][w] # "none"
      BY <1>6 DEF FiresItsOwn, UnderWay, FireStage, Shooting
    <2> QED BY <1>1, <2>1
  <1> QED BY <1>1, <1>2, <1>3, <1>4, <1>5, <1>6 DEF RoutedIsHeld, ViewHolds

\* A fire that goes on, and a tick that may be claimed, are of a watch their run holds: what it
\* gives up has its fire over, its claim taken or its row closed.
LEMMA FiresItsOwnStep ==
  ASSUME HoldInv, [Next]_vars
  PROVE  FiresItsOwn'
  <1> SUFFICES ASSUME NEW p \in Proc, NEW w \in Watch,
                      fire'[p][w] \in Shooting \/ (Sees(p, w)' /\ w \notin claimed'[p])
               PROVE  w \in adopted'[p]
    BY DEF FiresItsOwn
  <1>1. /\ TypeOK /\ IInv /\ CustodyAt(p, w) /\ HeldAt(p, w) /\ EventsTrue
        /\ FireGoes(p, w) /\ FireMoves(p, w)
    BY FireGoesStep, FireStep DEF HoldInv, FireInv, OutInv, IInv, Custody, Held
  <1>2. ~Gone(p)'
    BY SlowIsALane DEF Gone, Shooting, Sees, OnLane, Idle
  <1>3. w \notin claimed'[p] => w \notin claimed[p]
    <2>1. ctl'[p] # "dead" => claimed[p] \subseteq claimed'[p]
      BY <1>1, ClaimsKept
    <2>2. ctl'[p] = "dead" => \A l \in Lane : lane'[p][l] = Idle
      BY <1>1, IInvStep DEF IInv, OneLaneFires
    <2>3. ctl'[p] = "dead" => fire'[p][w] = "none"
      BY <1>1, IInvStep DEF IInv, Custody, CustodyAt
    <2> QED BY <2>1, <2>2, <2>3, SlowIsALane DEF Sees, OnLane, Idle, Shooting
  <1>4. w \in adopted[p]
    <2>1. CASE fire'[p][w] \in Shooting
      BY <1>1, <1>2, <2>1 DEF FireGoes, HoldInv, FiresItsOwn, Shooting
    <2>2. CASE Sees(p, w)' /\ w \notin claimed'[p]
      <3>1. Sees(p, w) \/ w \in routed[p]
        BY <1>1, <2>2, SeesStep
      <3> QED BY <1>3, <2>2, <3>1 DEF HoldInv, FiresItsOwn, RoutedIsHeld
    <2> QED BY <2>1, <2>2
  <1>5. CASE DrainResolved(p) /\ Head(inbox[p]).watch = w
    <2>1. fire[p][w] = "over" /\ ctl[p] # "dead" /\ UNCHANGED <<fire, claimed>>
      <3>1. 1 \in DOMAIN inbox[p] /\ inbox[p][1] = Head(inbox[p])
        BY <1>1, <1>5 DEF DrainResolved, Draining, TypeOK
      <3> QED BY <1>1, <1>5, <3>1 DEF EventsTrue, EventTrue, DrainResolved, Draining, fireMem
    <2> QED BY <1>1, <2>1 DEF Shooting, CustodyAt
  <1>8. ASSUME state[w] \in ClosedStates, UNCHANGED fire, claimed[p] \subseteq claimed'[p]
        PROVE  FALSE
    <2>1. w \in claimed[p] /\ fire[p][w] = "none"
      BY <1>4, <1>8 DEF HoldInv, RoutedIsHeld, IsOpen, OpenStates, ClosedStates
    <2> QED BY <1>8, <2>1 DEF Shooting
  <1>6. CASE DisarmLogged(p, w)
    BY <1>1, <1>6, <1>8 DEF DisarmLogged, HeldAt, fireMem
  <1>7. CASE ReconcileEnds(p) /\ view[p][w] = "shut"
    <2>1. claimed[p] \subseteq claimed'[p] /\ UNCHANGED fire /\ ctl[p] = "reconciling"
      BY <1>1, <1>7 DEF ReconcileEnds, TakesRow, TypeOK, fireMem
    <2> QED BY <1>1, <1>4, <1>7, <1>8, <2>1 DEF HeldAt
  <1> QED BY <1>1, <1>2, <1>4, <1>5, <1>6, <1>7, AdoptedLeaves

LEMMA InitHoldInv ==
  ASSUME Init
  PROVE  HoldInv
  <1>1. FireInv
    BY InitFireInv
  <1>2. RoutedIsHeld /\ ViewHolds /\ FiresItsOwn
    BY SlowIsALane
       DEF Init, RoutedIsHeld, ViewHolds, ViewHoldsAt, FiresItsOwn, NoView, Shooting, UnderWay,
           Sees, OnLane, Idle
  <1> QED BY <1>1, <1>2 DEF HoldInv

LEMMA HoldInvStep ==
  ASSUME HoldInv, "stall" \notin May, [Next]_vars
  PROVE  HoldInv'
  BY FireInvStep, HeldIsOpenStep, FiresItsOwnStep DEF HoldInv

\* While no worker stalls, over crashes, stops and lost statements: a run holds what it may fire,
\* one watch of a token at most, the row of a fire under way is open, and a closed row is held
\* only where a disarm won the claim, its line could not be logged, and no fire ever starts.
THEOREM HoldsWhatItFires ==
  ASSUME "stall" \notin May
  PROVE  Spec => []RoutedIsHeld
  <1>1. HoldInv => RoutedIsHeld
    BY DEF HoldInv
  <1>2. HoldInv /\ [Next]_vars => HoldInv'
    BY HoldInvStep
  <1> QED BY <1>1, <1>2, InitHoldInv, PTL DEF Spec

\* While no worker stalls, a row that is closed is over: the ends docs/sniper.md calls certain
\* stay so, and no run fires a closed row, also one it still holds because its line failed.
THEOREM ClosedStaysOver ==
  ASSUME "stall" \notin May
  PROVE  Spec => []ClosedIsOver
  <1>1. CertainEnds /\ RoutedIsHeld => ClosedIsOver
    BY DEF ClosedIsOver
  <1> QED BY <1>1, EndsAreCertain, HoldsWhatItFires, PTL

-----------------------------------------------------------------------------
(* The inbox and the rows, when workers only stop                          *)

\* A fire whose "claimed" has left.
Begun == {"attempt", "posting", "waiting", "due"}

\* What the row does not say yet is on its way in the inbox.
NewsAt(p, w) ==
  /\ state[w] = "armed" /\ (fire[p][w] \in Begun \/ sent[p][w] # "none") => Tells(p, w, "claimed")
  /\ IsOpen(w) /\ fire[p][w] = "over" => \E o \in Outcome : Tells(p, w, o)

AtWork(p, w) == \E l \in Lane : OnLane(p, l, "firing") /\ lane[p][l].watch = w

\* A run that closes has read its inbox, a lane is at every attempt, and a run that is gone wrote
\* how each watch it posted for ended.
SettledAt(p, w) ==
  /\ ctl[p] = "closed" => inbox[p] = <<>>
  /\ fire[p][w] \in Working => AtWork(p, w)
  /\ ctl[p] = "dead" /\ sent[p][w] # "none" => state[w] \in ClosedStates

\* An outcome has its cause.
CauseAt(p, w) ==
  /\ w \in abort[p] => w \in asked
  /\ ~Tells(p, w, "disarmed") /\ ~Tells(p, w, "interrupted")
  /\ Tells(p, w, "rehearsed") => w \in Dry
  /\ Tells(p, w, "cut_disarm") => w \in asked

News == \A p \in Proc, w \in Watch : NewsAt(p, w)
Settled == \A p \in Proc, w \in Watch : SettledAt(p, w)
Causes == \A p \in Proc, w \in Watch : CauseAt(p, w)

KeepInv == HoldInv /\ News /\ Settled /\ Causes

\* What an inbox holds it holds until the control lane takes it or the run is gone.
LEMMA TellsKept ==
  ASSUME TypeOK, [Next]_vars, NEW p \in Proc, NEW w, NEW what, Tells(p, w, what)
  PROVE  \/ Tells(p, w, what)' \/ Gone(p)'
         \/ /\ inbox[p] # <<>> /\ Head(inbox[p]).watch = w /\ Head(inbox[p]).what = what
            /\ Drain(p) \/ DrainFails(p)
  <1> DEFINE told == [watch |-> w, what |-> what]
  <1>1. inbox[p] \in Seq(Event) /\ InboxGoes(p)
    BY InboxGoesStep DEF TypeOK
  <1>2. PICK i \in DOMAIN inbox[p] : inbox[p][i] = told
    BY DEF Tells
  <1>3. told.watch = w /\ told.what = what
    OBVIOUS
  <1>4. (\E j \in DOMAIN inbox'[p] : inbox'[p][j] = told) => Tells(p, w, what)'
    BY DEF Tells
  <1> HIDE DEF told
  <1>5. CASE inbox'[p] = inbox[p]
    BY <1>2, <1>4, <1>5
  <1>6. CASE inbox[p] # <<>> /\ inbox'[p] = Tail(inbox[p]) /\ (Drain(p) \/ DrainFails(p))
    <2>1. CASE i = 1
      BY <1>1, <1>2, <1>3, <1>6, <2>1
    <2>2. CASE i # 1
      <3>1. i - 1 \in DOMAIN inbox'[p] /\ inbox'[p][i - 1] = told
        BY <1>1, <1>2, <1>6, <2>2
      <3> QED BY <1>4, <3>1
    <2> QED BY <2>1, <2>2
  <1>7. ASSUME NEW e \in Event, inbox'[p] = Append(inbox[p], e) PROVE Tells(p, w, what)'
    <2>1. i \in DOMAIN inbox'[p] /\ inbox'[p][i] = told
      BY <1>1, <1>2, <1>7
    <2> QED BY <1>4, <2>1
  <1> QED BY <1>1, <1>5, <1>6, <1>7 DEF InboxGoes

\* An abort is set for what the reconcile read as asked for.
LEMMA AbortStep ==
  ASSUME TypeOK, [Next]_vars, NEW p \in Proc, NEW w \in Watch, w \in abort'[p]
  PROVE  w \in abort[p] \/ view[p][w] \in {"asked", "asked_firing"}
  <1>1. CASE UNCHANGED abort
    BY <1>1
  <1>2. CASE Outside
    BY <1>2, OutsideLeavesMemory DEF Memory
  <1>3. ASSUME NEW q \in Proc, StopWorker(q) \/ Crash(q) PROVE w \in abort[p]
    BY <1>3, EndOfRun DEF Gone, Same
  <1>4. ASSUME NEW q \in Proc, NEW v \in Watch, DisarmLoses(q, v)
        PROVE  w \in abort[p] \/ view[p][w] \in {"asked", "asked_firing"}
    BY <1>4 DEF DisarmLoses, TypeOK
  <1>5. ASSUME NEW q \in Proc,
               \/ StartWorker(q) \/ BeatFails(q) \/ StopSignal(q) \/ OpenSniper(q) \/ DbFails(q)
               \/ Drain(q) \/ ReconcileReads(q) \/ ReconcileEnds(q)
               \/ LeaveLoop(q) \/ CloseClaims(q) \/ CloseJoins(q) \/ CloseDrains(q) \/ CloseEnds(q)
               \/ \E v \in Watch : \/ DisarmUnadopted(q, v) \/ DisarmWins(q, v)
                                   \/ DisarmLogged(q, v) \/ Adopt(q, v)
        PROVE  UNCHANGED abort
    BY <1>5 DEF StartWorker, BeatFails, StopSignal, OpenSniper, OpenFails, DbFails, Drain,
                DrainUnknown, DrainPrepared, DrainClaimed, DrainResolved, DrainFails,
                ReconcileReads, ReconcileEnds, ReconcileFails, LeaveLoop, CloseClaims, CloseJoins,
                CloseDrains, CloseEnds, DisarmUnadopted, DisarmWins, DisarmLogged, Adopt, ctlMem
  <1>6. ASSUME NEW q \in Proc, LaneLooks(q) \/ PrepareMissed(q) \/ \E l \in Hot : Claim(q, l)
        PROVE  UNCHANGED abort
    BY <1>6 DEF LaneLooks, Observe, PrepareStarts, PrepareFails, PrepareDrops, PrepareReads,
                PrepareSends, PrepareMissed, Claim, ctlMem
  <1>7. ASSUME NEW q \in Proc, NEW l \in Lane, LaneFires(q, l) PROVE UNCHANGED abort
    BY <1>7 DEF LaneFires, Attempt, Answer, PostLeaves, SignFails, Rehearse, AnswerPosted,
                AnswerRefused, AnswerTerminal, AnswerNone, GuardRefuses, GuardPasses, ctlMem
  <1>8. ASSUME NEW q \in Proc, NEW v \in Watch, WaitEnds(q, v) PROVE UNCHANGED abort
    BY <1>8 DEF WaitEnds, CloseCuts, FireDue, Retry, RetryCut, RetryGivesUp, RetryStarts, ctlMem
  <1> QED BY <1>1, <1>2, <1>3, <1>4, <1>5, <1>6, <1>7, <1>8, StepCases DEF ControlMoves, Reconcile

\* A lane stays at an attempt until the attempt ends.
LEMMA AtWorkStep ==
  ASSUME IInv, [Next]_vars, NEW q \in Proc, NEW w \in Watch, fire[q][w] \in Working => AtWork(q, w),
         fire'[q][w] \in Working
  PROVE  AtWork(q, w)'
  <1>0. TypeOK /\ OneLaneFires
    BY DEF IInv
  <1>1. ASSUME NEW l \in Lane, OnLane(q, l, "firing"), lane[q][l].watch = w, lane'[q][l] = lane[q][l]
        PROVE  AtWork(q, w)'
    BY <1>1 DEF AtWork, OnLane
  <1>2. ASSUME fire'[q][w] = fire[q][w],
               \A l \in Lane : lane'[q][l] = lane[q][l] \/ ~OnLane(q, l, "firing")
        PROVE  AtWork(q, w)'
    BY <1>1, <1>2 DEF AtWork
  <1>3. CASE Outside
    BY <1>2, <1>3, OutsideLeavesMemory DEF Memory
  <1>4. ASSUME NEW p \in Proc, StopWorker(p) \/ Crash(p) PROVE AtWork(q, w)'
    BY <1>0, <1>2, <1>4, EndOfRun DEF Gone, Same, Working
  <1>5. ASSUME NEW p \in Proc, ControlMoves(p) PROVE AtWork(q, w)'
    BY <1>0, <1>2, <1>5, ControlGoesOn DEF fireMem
  <1>6. ASSUME NEW p \in Proc, NEW m \in Lane, NEW to, lane[p][m].at # "firing",
               lane' = [lane EXCEPT ![p][m] = to], NEW l \in Lane
        PROVE  lane'[q][l] = lane[q][l] \/ ~OnLane(q, l, "firing")
    BY <1>0, <1>6, LaneSet DEF OnLane
  <1>7. ASSUME NEW p \in Proc, LaneLooks(p) PROVE AtWork(q, w)'
    <2>1. UNCHANGED fire
      BY <1>7, LookGoesOn DEF fireMem
    <2>2. \/ UNCHANGED lane
          \/ \E m \in Lane : /\ lane[p][m].at # "firing"
                             /\ \E to : lane' = [lane EXCEPT ![p][m] = to]
      BY <1>7, SlowIsALane DEF LaneLooks, Observe, PrepareStarts, PrepareFails, PrepareDrops,
         PrepareReads, PrepareSends, OnLane, GoTo, Free
    <2>3. \A l \in Lane : lane'[q][l] = lane[q][l] \/ ~OnLane(q, l, "firing")
      BY <1>6, <2>2
    <2> QED BY <1>2, <2>1, <2>3
  <1>8. ASSUME NEW p \in Proc, NEW m \in Lane, NEW v \in Watch, NEW stage \in {"won", "attempt"},
               lane[p][m].at # "firing", Stage(p, v, stage), GoTo(p, m, "firing", v)
        PROVE  AtWork(q, w)'
    <2>1. CASE q = p /\ w = v
      <3>1. lane'[p][m] = [at |-> "firing", watch |-> v]
        <4>1. PICK S : lane \in [Proc -> [Lane -> S]]
          BY <1>0 DEF TypeOK
        <4> QED BY <1>8, <4>1 DEF GoTo
      <3> QED BY <2>1, <3>1 DEF AtWork, OnLane
    <2>2. CASE q # p \/ w # v
      <3>1. fire'[q][w] = fire[q][w]
        BY <1>0, <1>8, <2>2 DEF Stage, TypeOK
      <3>2. \A l \in Lane : lane'[q][l] = lane[q][l] \/ ~OnLane(q, l, "firing")
        BY <1>6, <1>8 DEF GoTo
      <3> QED BY <1>2, <3>1, <3>2
    <2> QED BY <2>1, <2>2
  <1>9. ASSUME NEW p \in Proc, NEW m \in Hot, Claim(p, m) PROVE AtWork(q, w)'
    <2>1. m \in Lane /\ lane[p][m].at = "seen" /\ lane[p][m].watch \in Watch
      BY <1>0, <1>9, SlowIsALane, LaneWatch DEF Claim, OnLane
    <2>2. CASE Free(p, m) /\ UNCHANGED fire
      <3>1. \A l \in Lane : lane'[q][l] = lane[q][l] \/ ~OnLane(q, l, "firing")
        BY <1>6, <2>1, <2>2 DEF Free
      <3> QED BY <1>2, <2>2, <3>1
    <2>3. CASE Stage(p, lane[p][m].watch, "won") /\ GoTo(p, m, "firing", lane[p][m].watch)
      <3>1. PICK v \in Watch : v = lane[p][m].watch
        BY <2>1
      <3> QED BY <1>8, <2>1, <2>3, <3>1
    <2> QED BY <1>9, <2>2, <2>3 DEF Claim
  <1>10. ASSUME NEW p \in Proc, NEW m \in Lane, NEW v \in Watch, v = lane[p][m].watch,
                NEW stage \in {"waiting", "over"}, Stage(p, v, stage), Free(p, m)
         PROVE  AtWork(q, w)'
    <2>1. q # p \/ w # v
      BY <1>0, <1>10 DEF Stage, TypeOK, Working
    <2>2. fire'[q][w] = fire[q][w]
      BY <1>0, <1>10, <2>1 DEF Stage, TypeOK
    <2>3. \A l \in Lane : lane'[q][l] = lane[q][l] \/ (p = q /\ l = m)
      BY <1>0, <1>10, LaneSet DEF Free
    <2>4. PICK l \in Lane : OnLane(q, l, "firing") /\ lane[q][l].watch = w
      BY <2>2 DEF AtWork
    <2>5. lane'[q][l] = lane[q][l]
      BY <1>10, <2>1, <2>3, <2>4
    <2> QED BY <1>1, <2>4, <2>5
  <1>11. ASSUME NEW p \in Proc, NEW m \in Lane, NEW o, lane[p][m].at # "idle", Resolve(p, m, o)
         PROVE  AtWork(q, w)'
    <2>1. PICK v \in Watch : v = lane[p][m].watch
      BY <1>0, <1>11, LaneWatch
    <2> QED BY <1>10, <1>11, <2>1 DEF Resolve
  <1>12. ASSUME NEW p \in Proc, PrepareMissed(p) PROVE AtWork(q, w)'
    BY <1>11, <1>12, SlowIsALane DEF PrepareMissed, OnLane
  <1>13. ASSUME NEW p \in Proc, NEW m \in Lane, LaneFires(p, m) PROVE AtWork(q, w)'
    <2>1. OnLane(p, m, "firing")
      BY <1>13 DEF LaneFires, Attempt, Answer, PostLeaves, SignFails, Rehearse, AnswerPosted,
                   AnswerRefused, AnswerTerminal, AnswerNone, GuardRefuses, GuardPasses, Firing
    <2>2. PICK v \in Watch : v = lane[p][m].watch
      BY <1>0, <2>1, LaneWatch DEF OnLane
    <2>3. CASE \E o \in Outcome : Resolve(p, m, o)
      BY <1>11, <2>1, <2>3 DEF OnLane
    <2>4. CASE AnswerRefused(p, m)
      BY <1>10, <2>2, <2>4 DEF AnswerRefused
    <2>5. CASE PostLeaves(p, m) \/ GuardPasses(p, m)
      <3>1. UNCHANGED lane /\ \E stage : Stage(p, v, stage)
        BY <2>2, <2>5 DEF PostLeaves, GuardPasses
      <3>2. CASE q = p /\ w = v
        BY <1>1, <2>1, <2>2, <3>1, <3>2
      <3>3. CASE q # p \/ w # v
        <4>1. fire'[q][w] = fire[q][w]
          BY <1>0, <3>1, <3>3 DEF Stage, TypeOK
        <4> QED BY <1>2, <3>1, <4>1
      <3> QED BY <3>2, <3>3
    <2> QED BY <1>13, <2>3, <2>4, <2>5 DEF LaneFires, Attempt, Answer, SignFails, Rehearse,
         AnswerPosted, AnswerTerminal, AnswerNone, GuardRefuses, Outcome
  <1>14. ASSUME NEW p \in Proc, NEW v \in Watch, WaitEnds(p, v) PROVE AtWork(q, w)'
    <2>1. CASE RetryStarts(p, v)
      BY <1>8, <2>1, SlowIsALane DEF RetryStarts, RetryReady, OnLane
    <2>2. CASE ~RetryStarts(p, v)
      <3>1. UNCHANGED lane /\ \E stage \in {"over", "due"} : Stage(p, v, stage)
        BY <1>14, <2>2 DEF WaitEnds, CloseCuts, FireDue, Retry, RetryCut, RetryGivesUp
      <3>2. fire'[q][w] = fire[q][w]
        BY <1>0, <3>1 DEF Stage, TypeOK, Working
      <3> QED BY <1>2, <3>1, <3>2
    <2> QED BY <2>1, <2>2
  <1> QED BY <1>3, <1>4, <1>5, <1>7, <1>9, <1>12, <1>13, <1>14, StepCases

\* While a worker can only be told to stop, no statement of its control lane is lost.
LEMMA NothingFails ==
  ASSUME May \subseteq {"stop"}, NEW p \in Proc
  PROVE  ~Crash(p) /\ ~DrainFails(p) /\ "db" \notin May /\ "crash" \notin May /\ "stall" \notin May
  BY DEF Crash, DrainFails, DrainRaises

\* What the control lane takes from the inbox of a watch it holds it writes to the row.
LEMMA TakenIsWritten ==
  ASSUME TypeOK, May \subseteq {"stop"}, NEW p \in Proc, NEW w \in Watch, w \in adopted[p],
         inbox[p] # <<>>, Head(inbox[p]).watch = w, Drain(p) \/ DrainFails(p)
  PROVE  /\ Head(inbox[p]).what = "claimed" => state'[w] # "armed"
         /\ Head(inbox[p]).what \in Outcome => ~IsOpen(w)'
  <1>1. DrainPrepared(p) \/ DrainClaimed(p) \/ DrainResolved(p)
    BY NothingFails DEF Drain, DrainUnknown
  <1>2. ASSUME Head(inbox[p]).what = "claimed" PROVE state'[w] # "armed"
    <2>1. DrainClaimed(p)
      BY <1>1, <1>2 DEF DrainPrepared, DrainResolved, Outcome
    <2> QED BY <2>1 DEF DrainClaimed, TypeOK
  <1>3. ASSUME Head(inbox[p]).what \in Outcome PROVE ~IsOpen(w)'
    <2>1. PICK o \in Outcome : o = Head(inbox[p]).what
      BY <1>3
    <2>2. DrainResolved(p)
      BY <1>1, <1>3 DEF DrainPrepared, DrainClaimed, Outcome
    <2>3. CloseRow(p, w, o)
      BY <2>1, <2>2 DEF DrainResolved
    <2>4. Settle(o).state \in ClosedStates
      BY SettleType
    <2> QED BY <2>3, <2>4 DEF CloseRow, IsOpen, OpenStates, ClosedStates, TypeOK, db
  <1> QED BY <1>2, <1>3

LEMMA SettledStep ==
  ASSUME KeepInv, May \subseteq {"stop"}, [Next]_vars
  PROVE  Settled'
  <1> SUFFICES ASSUME NEW p \in Proc, NEW w \in Watch
               PROVE  SettledAt(p, w)'
    BY DEF Settled
  <1>1. /\ TypeOK /\ IInv /\ CustodyAt(p, w) /\ HeldAt(p, w) /\ EmptyAt(p)
        /\ SettledAt(p, w) /\ NewsAt(p, w)
    BY DEF KeepInv, HoldInv, FireInv, OutInv, IInv, Custody, Held, Empty, Settled, News
  <1>2. CtlMoves(p) /\ InboxGoes(p) /\ FireGoes(p, w)
    BY <1>1, CtlStep, InboxGoesStep, FireGoesStep
  <1>3. ctl'[p] = "closed" => inbox'[p] = <<>>
    <2> SUFFICES ASSUME ctl'[p] = "closed"
                 PROVE  inbox'[p] = <<>>
      OBVIOUS
    <2>1. CASE ctl[p] = "closed"
      <3>1. inbox[p] = <<>> /\ \A l \in Lane : lane[p][l] = Idle
        BY <1>1, <2>1 DEF SettledAt, EmptyAt, LanesOver
      <3>2. \A e \in Event : ~Speaks(p, e)
        BY <2>1, <3>1 DEF Speaks, LanesUp
      <3> QED BY <1>2, <3>1, <3>2 DEF InboxGoes
    <2>2. CASE ctl[p] # "closed"
      <3>1. ~StartWorker(p)
        BY <1>1 DEF StartWorker, TypeOK
      <3> QED BY <1>2, <2>2, <3>1, NothingFails DEF CtlMoves, LanesUp, Gone
    <2> QED BY <2>1, <2>2
  <1>4. fire'[p][w] \in Working => AtWork(p, w)'
    BY <1>1, AtWorkStep DEF SettledAt
  <1>5. ASSUME ctl'[p] = "dead", sent'[p][w] # "none"
        PROVE  state'[w] \in ClosedStates
    <2>1. state[w] \in ClosedStates => state'[w] \in ClosedStates
      BY <1>1, RowKept DEF RowStays
    <2>2. CASE ctl[p] = "dead"
      <3>1. fire[p][w] = "none"
        BY <1>1, <2>2 DEF CustodyAt
      <3>2. sent[p][w] # "none"
        BY <1>2, <1>5, <3>1 DEF FireGoes
      <3> QED BY <1>1, <2>1, <2>2, <3>2 DEF SettledAt
    <2>3. CASE ctl[p] # "dead"
      <3>1. StopWorker(p) /\ ctl[p] = "closed"
        <4>1. ~StartWorker(p)
          BY <1>1, <1>5 DEF StartWorker, TypeOK
        <4> QED BY <1>2, <1>5, <2>3, <4>1, NothingFails DEF CtlMoves, LanesUp
      <3>2. inbox[p] = <<>> /\ \A l \in Lane : lane[p][l] = Idle
        BY <1>1, <3>1 DEF SettledAt, EmptyAt, LanesOver
      <3>3. sent[p][w] # "none"
        BY <1>5, <3>1, EndOfRun, <1>1 DEF exchange
      <3>4. fire[p][w] \notin Working
        BY <1>1, <3>2 DEF SettledAt, AtWork, OnLane, Idle
      <3>5. fire[p][w] = "over"
        BY <1>1, <3>1, <3>3, <3>4 DEF CustodyAt, Working, TypeOK, FireStage
      <3>6. ~IsOpen(w)
        BY <1>1, <3>2, <3>5 DEF NewsAt, Tells
      <3>7. state[w] # "none"
        BY <1>1, <3>5 DEF HeldAt, Works, ClosedStates
      <3>8. state[w] \in ClosedStates
        BY <1>1, <3>6, <3>7 DEF TypeOK, IsOpen
      <3> QED BY <2>1, <3>8
    <2> QED BY <2>2, <2>3
  <1> QED BY <1>3, <1>4, <1>5 DEF SettledAt

LEMMA NewsStep ==
  ASSUME KeepInv, May \subseteq {"stop"}, [Next]_vars
  PROVE  News'
  <1> SUFFICES ASSUME NEW p \in Proc, NEW w \in Watch
               PROVE  NewsAt(p, w)'
    BY DEF News
  <1>1. /\ TypeOK /\ IInv /\ CustodyAt(p, w) /\ HeldAt(p, w) /\ SettledAt(p, w) /\ NewsAt(p, w)
        /\ FireGoes(p, w) /\ RowMoves(w)
    BY FireGoesStep, RowStep
       DEF KeepInv, HoldInv, FireInv, OutInv, IInv, Custody, Held, Settled, News
  <1>2. SettledAt(p, w)' /\ CustodyAt(p, w)'
    BY <1>1, SettledStep, IInvStep DEF Settled, IInv, Custody
  <1>3. /\ state'[w] = "armed" => state[w] \in {"none", "armed"}
        /\ IsOpen(w)' => state[w] \in {"none", "armed", "firing"}
    BY <1>1, SettleType DEF RowMoves, RowStays, RowCloses, IsOpen, OpenStates, ClosedStates, TypeOK
  <1>4. state[w] = "none" => fire[p][w] = "none" /\ sent[p][w] = "none"
    <2>1. state[w] = "none" => fire[p][w] = "none"
      BY <1>1 DEF HeldAt, Works, ClosedStates
    <2> QED BY <1>1, <2>1 DEF CustodyAt, SettledAt, ClosedStates
  <1>5. IsOpen(w) /\ fire[p][w] # "none" => w \in adopted[p]
    BY <1>1 DEF HeldAt, Works, IsOpen, OpenStates, ClosedStates
  <1>6. ASSUME NEW what, Tells(p, w, what), w \in adopted[p], what \in {"claimed"} \cup Outcome,
               what = "claimed" => state'[w] = "armed",
               what \in Outcome => IsOpen(w)'
        PROVE  Tells(p, w, what)' \/ Gone(p)'
    BY <1>1, <1>6, TellsKept, TakenIsWritten
  <1>7. ASSUME state'[w] = "armed", fire'[p][w] \in Begun \/ sent'[p][w] # "none"
        PROVE  Tells(p, w, "claimed")'
    <2>1. ~Gone(p)'
      BY <1>2, <1>7 DEF Gone, SettledAt, Begun, ClosedStates
    <2>2. CASE fire[p][w] \in Begun \/ sent[p][w] # "none"
      <3>1. state[w] = "armed"
        BY <1>3, <1>4, <1>7, <2>2 DEF Begun
      <3>2. fire[p][w] # "none"
        BY <1>1, <2>2, <3>1 DEF Begun, CustodyAt, SettledAt, ClosedStates
      <3>3. Tells(p, w, "claimed") /\ w \in adopted[p]
        BY <1>1, <1>5, <2>2, <3>1, <3>2 DEF NewsAt, IsOpen, OpenStates
      <3> QED BY <1>6, <1>7, <2>1, <3>3 DEF Outcome
    <2>3. CASE fire[p][w] \notin Begun /\ sent[p][w] = "none"
      BY <1>1, <1>7, <2>1, <2>3 DEF FireGoes, Begun, Shooting
    <2> QED BY <2>2, <2>3
  <1>8. ASSUME IsOpen(w)', fire'[p][w] = "over"
        PROVE  \E o \in Outcome : Tells(p, w, o)'
    <2>1. ~Gone(p)'
      BY <1>8 DEF Gone
    <2>2. CASE fire[p][w] = "over"
      <3>1. IsOpen(w)
        BY <1>3, <1>4, <1>8, <2>2 DEF IsOpen, OpenStates
      <3>2. PICK o \in Outcome : Tells(p, w, o)
        BY <1>1, <2>2, <3>1 DEF NewsAt
      <3> QED BY <1>5, <1>6, <1>8, <2>1, <2>2, <3>1, <3>2 DEF Outcome
    <2>3. CASE fire[p][w] # "over"
      BY <1>1, <1>8, <2>1, <2>3 DEF FireGoes, Shooting
    <2> QED BY <2>2, <2>3
  <1> QED BY <1>7, <1>8 DEF NewsAt

LEMMA CausesStep ==
  ASSUME KeepInv, [Next]_vars
  PROVE  Causes'
  <1> SUFFICES ASSUME NEW p \in Proc, NEW w \in Watch
               PROVE  CauseAt(p, w)'
    BY DEF Causes
  <1>1. TypeOK /\ CauseAt(p, w) /\ ViewHoldsAt(p, w) /\ asked \subseteq asked'
    BY TickKept DEF KeepInv, HoldInv, FireInv, OutInv, IInv, Causes, ViewHolds
  <1>2. w \in abort'[p] => w \in asked'
    BY <1>1, AbortStep DEF CauseAt, ViewHoldsAt
  <1>3. \A what : Tells(p, w, what)' =>
          Tells(p, w, what) \/ Speaks(p, [watch |-> w, what |-> what])
    BY <1>1, TellsStep
  <1> QED BY <1>1, <1>2, <1>3 DEF CauseAt, Speaks

LEMMA InitKeepInv ==
  ASSUME Init
  PROVE  KeepInv
  <1>1. HoldInv
    BY InitHoldInv
  <1>2. News /\ Settled /\ Causes
    BY DEF Init, News, NewsAt, Settled, SettledAt, Causes, CauseAt, IsOpen, OpenStates, Working, Tells
  <1> QED BY <1>1, <1>2 DEF KeepInv

LEMMA KeepInvStep ==
  ASSUME KeepInv, May \subseteq {"stop"}, [Next]_vars
  PROVE  KeepInv'
  <1>1. HoldInv'
    BY HoldInvStep, NothingFails DEF KeepInv
  <1> QED BY <1>1, SettledStep, NewsStep, CausesStep DEF KeepInv

\* While workers are only told to stop, a post whose row still says armed has its "claimed" in
\* the inbox, and a run holds what it fires.
THEOREM MemoryFits ==
  ASSUME May \subseteq {"stop"}
  PROVE  Spec => []MemoryFitsTheRows
  <1>1. KeepInv => MemoryFitsTheRows
    BY DEF KeepInv, HoldInv, News, NewsAt, MemoryFitsTheRows, GapIsInTheInbox, Tells
  <1>2. KeepInv /\ [Next]_vars => KeepInv'
    BY KeepInvStep
  <1> QED BY <1>1, <1>2, InitKeepInv, PTL DEF Spec

-----------------------------------------------------------------------------
(* The refinement                                                          *)

\* The rows, the orders and the undecided posts as the operator sees them.
Row == [w \in Watch |-> RowEnd(w)]
Orderers(w) == {p \in Proc : orders[p][w] > 0}
Placed == [w \in Watch |-> Cardinality(Orderers(w))]
Doubt == {w \in Watch : Undecided(w)}

LEMMA RowOfState ==
  ASSUME TypeOK, NEW w \in Watch
  PROVE  /\ Row[w] = "armed" <=> state[w] = "armed"
         /\ Row[w] = "firing" <=> state[w] = "firing"
         /\ state[w] = "none" => Row[w] = "none"
  BY DEF Row, RowEnd, TypeOK, Reasons, OpenStates, ClosedStates

\* A step that leaves the rows, the requests, the orders and the undecided posts.
LEMMA QuietStutters ==
  ASSUME UNCHANGED <<state, reason, asked, orders>>,
         \A p \in Proc, w \in Watch : sent'[p][w] = "out" <=> sent[p][w] = "out"
  PROVE  UNCHANGED Promise!vars
  <1>1. Row' = Row /\ Placed' = Placed
    BY DEF Row, RowEnd, Placed, Orderers
  <1>2. Doubt' = Doubt
    BY DEF Doubt, Undecided
  <1> QED BY <1>1, <1>2 DEF Promise!vars, Row, Placed, Orderers, Doubt

LEMMA PostsKept ==
  ASSUME UNCHANGED <<orders, sent>>
  PROVE  Placed' = Placed /\ Doubt' = Doubt
  BY DEF Placed, Orderers, Doubt, Undecided

\* No run but one that is alive has sent for a watch that is open.
LEMMA OthersSentNothing ==
  ASSUME KeepInv, NEW p \in Proc, Alive(p), NEW w \in Watch, IsOpen(w), NEW q \in Proc, q # p
  PROVE  sent[q][w] = "none" /\ orders[q][w] = 0
  <1>1. CustodyAt(q, w) /\ SettledAt(q, w)
    BY DEF KeepInv, HoldInv, FireInv, OutInv, IInv, Custody, Settled
  <1>2. Resting(q) /\ ~Works(q, w)
    BY OthersRest DEF KeepInv, HoldInv, FireInv
  <1>3. ctl[q] # "dead" => sent[q][w] = "none"
    BY <1>1, <1>2 DEF Works, CustodyAt
  <1>4. ctl[q] = "dead" => sent[q][w] = "none"
    BY <1>1 DEF SettledAt, IsOpen, OpenStates, ClosedStates
  <1> QED BY <1>1, <1>3, <1>4 DEF CustodyAt

LEMMA PlacedNone ==
  ASSUME NEW w \in Watch, \A p \in Proc : orders[p][w] = 0
  PROVE  Placed[w] = 0
  <1>1. Orderers(w) = {}
    BY DEF Orderers
  <1> QED BY <1>1, FS_EmptySet DEF Placed

LEMMA PlacedOne ==
  ASSUME NEW w \in Watch, NEW p \in Proc, orders[p][w] = 1,
         \A q \in Proc : q # p => orders[q][w] = 0
  PROVE  Placed[w] = 1
  <1>1. Orderers(w) = {p}
    BY DEF Orderers
  <1> QED BY <1>1, FS_Singleton DEF Placed

\* The ends a fire or a disarm writes, as the operator reads them.
EndOf(o) == IF Settle(o).state = "failed" THEN Settle(o).reason ELSE Settle(o).state

LEMMA EndOfOutcome ==
  ASSUME NEW o \in Outcome \ {"interrupted"}
  PROVE  /\ EndOf(o) \in {"fired", "unanswered", "rehearsed", "rejected", "missed", "disarmed",
                           "venue", "sign", "stopped"}
         /\ EndOf(o) = "fired" => o = "posted"
         /\ EndOf(o) = "unanswered" => o = "unanswered"
         /\ o = "unanswered" => EndOf(o) = "unanswered"
         /\ o = "posted" => EndOf(o) = "fired"
         /\ EndOf(o) = "disarmed" => o \in {"disarmed", "cut_disarm"}
         /\ EndOf(o) = "rehearsed" => o = "rehearsed"
  BY DEF EndOf, Settle, Outcome

\* A row that is closed with an outcome that is true ends as it may.
LEMMA ClosingEnds ==
  ASSUME KeepInv, NEW p \in Proc, Alive(p), NEW w \in Watch, IsOpen(w),
         NEW o \in Outcome \ {"interrupted"}, CloseRow(p, w, o), UNCHANGED <<asked, orders, sent>>,
         Truth(p, w, o), o \in {"disarmed", "cut_disarm"} => w \in asked,
         o = "rehearsed" => w \in Dry
  PROVE  \E e \in Promise!Ends : Promise!End(w, e)
  <1> DEFINE e == EndOf(o)
  <1>1. TypeOK /\ CustodyAt(p, w)
    BY DEF KeepInv, HoldInv, FireInv, OutInv, IInv, Custody
  <1>2. \A q \in Proc : q # p => sent[q][w] = "none" /\ orders[q][w] = 0
    BY OthersSentNothing
  <1>3. e = "fired" => Placed[w] = 1
    <2> SUFFICES ASSUME e = "fired" PROVE Placed[w] = 1
      OBVIOUS
    <2>1. orders[p][w] = 1
      BY <1>1, EndOfOutcome DEF Truth, CustodyAt
    <2> QED BY <1>2, <2>1, PlacedOne
  <1>4. e \in Promise!NoOrderEnds => Placed[w] = 0 /\ w \notin Doubt
    <2> SUFFICES ASSUME e \in Promise!NoOrderEnds PROVE Placed[w] = 0 /\ w \notin Doubt
      OBVIOUS
    <2>1. o # "posted" /\ o # "unanswered"
      BY EndOfOutcome DEF Promise!NoOrderEnds
    <2>2. sent[p][w] = "none" /\ orders[p][w] = 0
      BY <1>1, <2>1 DEF Truth, CustodyAt
    <2>3. Placed[w] = 0
      BY <1>2, <2>2, PlacedNone
    <2>4. w \notin Doubt
      BY <1>2, <2>2 DEF Doubt, Undecided
    <2> QED BY <2>3, <2>4
  <1>5. Row' = [Row EXCEPT ![w] = e]
    <2>1. state' = [state EXCEPT ![w] = Settle(o).state] /\ reason' = [reason EXCEPT ![w] = Settle(o).reason]
      BY DEF CloseRow
    <2>2. \A v \in Watch : v # w => RowEnd(v)' = RowEnd(v)
      BY <1>1, <2>1 DEF RowEnd, TypeOK
    <2>3. RowEnd(w)' = e
      BY <1>1, <2>1 DEF RowEnd, TypeOK, EndOf
    <2> QED BY <2>2, <2>3 DEF Row
  <1>6. Placed' = Placed /\ Doubt' = Doubt
    BY PostsKept
  <1>7. Row[w] \in Promise!Open
    BY <1>1, RowOfState DEF IsOpen, OpenStates, Promise!Open
  <1>8. e = "disarmed" => w \in asked
    BY EndOfOutcome
  <1>9. e = "rehearsed" => w \in Dry
    BY EndOfOutcome
  <1>10. e \in Promise!Ends
    BY EndOfOutcome DEF Promise!Ends, Promise!NoOrderEnds
  <1> HIDE DEF e
  <1>11. Promise!End(w, e)
    BY <1>3, <1>4, <1>5, <1>6, <1>7, <1>8, <1>9
       DEF Promise!End, Row, Placed, Orderers, Doubt
  <1> QED BY <1>10, <1>11

LEMMA ArmIsPromised ==
  ASSUME TypeOK, NEW w \in Watch, Arm(w)
  PROVE  Promise!Arm(w)
  <1>1. Row[w] = "none" /\ \A v \in Watch : TokenOf[v] = TokenOf[w] => Row[v] \notin Promise!Open
    BY RowOfState DEF Arm, IsOpen, OpenStates, Promise!Open
  <1>2. Row' = [Row EXCEPT ![w] = "armed"]
    BY DEF Arm, Row, RowEnd, TypeOK
  <1>3. UNCHANGED asked /\ Placed' = Placed /\ Doubt' = Doubt
    BY PostsKept DEF Arm, exchange
  <1> QED BY <1>1, <1>2, <1>3 DEF Promise!Arm, Row, Placed, Orderers, Doubt

LEMMA AskIsPromised ==
  ASSUME TypeOK, NEW w \in Watch, RequestDisarm(w)
  PROVE  Promise!Ask(w)
  <1>1. Row[w] \in Promise!Open
    BY RowOfState DEF RequestDisarm, IsOpen, OpenStates, Promise!Open
  <1>2. asked' = asked \cup {w} /\ Row' = Row /\ Placed' = Placed /\ Doubt' = Doubt
    BY PostsKept DEF RequestDisarm, Row, RowEnd, exchange, db
  <1> QED BY <1>1, <1>2 DEF Promise!Ask, Row, Placed, Orderers, Doubt

LEMMA MarkIsPromised ==
  ASSUME TypeOK, NEW p \in Proc, DrainClaimed(p)
  PROVE  (\E w \in Watch : Promise!MarkFiring(w)) \/ UNCHANGED Promise!vars
  <1>1. PICK w \in Watch : w = Head(inbox[p]).watch
    BY HeadIsEvent DEF DrainClaimed, Draining, Event
  <1>2. UNCHANGED <<reason, asked, orders, sent>>
    BY DEF DrainClaimed, exchange
  <1>3. CASE state[w] = "armed"
    <2>1. state' = [state EXCEPT ![w] = "firing"]
      BY <1>1, <1>3 DEF DrainClaimed
    <2>2. Row' = [Row EXCEPT ![w] = "firing"]
      BY <1>2, <2>1 DEF Row, RowEnd, TypeOK
    <2>3. Row[w] = "armed" /\ Placed' = Placed /\ Doubt' = Doubt
      BY <1>2, <1>3, RowOfState, PostsKept
    <2> QED BY <1>2, <2>2, <2>3 DEF Promise!MarkFiring, Row, Placed, Orderers, Doubt
  <1>4. CASE state[w] # "armed"
    BY <1>1, <1>2, <1>4, QuietStutters DEF DrainClaimed
  <1> QED BY <1>3, <1>4

LEMMA OpenIsPromised ==
  ASSUME TypeOK, NEW p \in Proc, OpenSniper(p)
  PROVE  Promise!Interrupt
  <1>1. \A w \in Watch : RowEnd(w)' = IF Row[w] = "firing" THEN "interrupted" ELSE Row[w]
    <2> SUFFICES ASSUME NEW w \in Watch
                 PROVE  RowEnd(w)' = IF Row[w] = "firing" THEN "interrupted" ELSE Row[w]
      OBVIOUS
    <2>1. CASE state[w] = "firing"
      <3>1. state'[w] = "failed" /\ reason'[w] = "interrupted"
        BY <2>1 DEF OpenSniper, Settle
      <3> QED BY <2>1, <3>1, RowOfState DEF RowEnd
    <2>2. CASE state[w] # "firing"
      <3>1. state'[w] = state[w] /\ reason'[w] = reason[w]
        BY <2>2 DEF OpenSniper
      <3> QED BY <2>2, <3>1, RowOfState DEF RowEnd, Row
    <2> QED BY <2>1, <2>2
  <1>2. Row' = [w \in Watch |-> IF Row[w] = "firing" THEN "interrupted" ELSE Row[w]]
    BY <1>1 DEF Row
  <1>3. UNCHANGED asked /\ Placed' = Placed /\ Doubt' = Doubt
    BY PostsKept DEF OpenSniper, exchange
  <1> QED BY <1>2, <1>3 DEF Promise!Interrupt, Row, Placed, Orderers, Doubt

LEMMA SendIsPromised ==
  ASSUME KeepInv, NEW p \in Proc, NEW l \in Lane, PostLeaves(p, l)
  PROVE  \E w \in Watch : Promise!Send(w)
  <1>1. TypeOK
    BY DEF KeepInv, HoldInv, FireInv, OutInv, IInv
  <1>2. PICK w \in Watch : w = lane[p][l].watch
    BY <1>1, LaneWatch DEF PostLeaves, Firing, OnLane
  <1>3. /\ fire[p][w] = "attempt" /\ w \notin Dry /\ sent' = [sent EXCEPT ![p][w] = "out"]
        /\ UNCHANGED <<state, reason, asked, orders>>
    BY <1>2 DEF PostLeaves, Firing, db
  <1>4. IsOpen(w) /\ Alive(p)
    BY <1>3, ShooterIsAlone DEF KeepInv, HoldInv, FiresItsOwn, RoutedIsHeld, Shooting
  <1>5. \A q \in Proc : sent[q][w] = "none" /\ orders[q][w] = 0
    <2>1. sent[p][w] = "none" /\ orders[p][w] = 0
      BY <1>3 DEF KeepInv, HoldInv, FireInv, OutInv, IInv, Custody, CustodyAt
    <2> QED BY <1>4, <2>1, OthersSentNothing
  <1>6. Placed[w] = 0 /\ w \notin Doubt
    BY <1>5, PlacedNone DEF Doubt, Undecided
  <1>7. Row' = Row /\ Placed' = Placed
    BY <1>3 DEF Row, RowEnd, Placed, Orderers
  <1>8. Doubt' = Doubt \cup {w}
    <2>1. sent'[p][w] = "out"
      BY <1>1, <1>3 DEF TypeOK
    <2>2. \A q \in Proc, v \in Watch : q # p \/ v # w => sent'[q][v] = sent[q][v]
      BY <1>1, <1>3 DEF TypeOK
    <2>3. \A v \in Watch : Undecided(v)' <=> Undecided(v) \/ v = w
      BY <1>5, <2>1, <2>2 DEF Undecided
    <2> QED BY <2>3 DEF Doubt
  <1>9. Row[w] \in Promise!Open
    BY <1>1, <1>4, RowOfState DEF IsOpen, OpenStates, Promise!Open
  <1> QED BY <1>3, <1>6, <1>7, <1>8, <1>9 DEF Promise!Send, Row, Placed, Orderers, Doubt

LEMMA DecideIsPromised ==
  ASSUME KeepInv, NEW p \in Proc, NEW w \in Watch, Exchange(p, w)
  PROVE  Promise!Decide(w)
  <1>1. TypeOK
    BY DEF KeepInv, HoldInv, FireInv, OutInv, IInv
  <1>2. /\ sent[p][w] = "out" /\ UNCHANGED <<state, reason, asked>>
        /\ \/ orders' = [orders EXCEPT ![p][w] = @ + 1] /\ sent' = [sent EXCEPT ![p][w] = "accepted"]
           \/ UNCHANGED orders /\ sent' = [sent EXCEPT ![p][w] = "refused"]
    BY DEF Exchange, Accept, Refuse, db
  <1>3. \A q \in Proc : orders[q][w] = 0 /\ (q # p => sent[q][w] = "none")
    BY <1>2 DEF KeepInv, HoldInv, FireInv, Spent, OutInv, IInv, Custody, CustodyAt
  <1>4. sent'[p][w] # "out"
    BY <1>1, <1>2 DEF TypeOK
  <1>5. \A q \in Proc, v \in Watch :
          q # p \/ v # w => sent'[q][v] = sent[q][v] /\ orders'[q][v] = orders[q][v]
    BY <1>1, <1>2 DEF TypeOK
  <1>6. w \in Doubt /\ Doubt' = Doubt \ {w}
    <2>1. \A v \in Watch : Undecided(v)' <=> Undecided(v) /\ v # w
      BY <1>3, <1>4, <1>5 DEF Undecided
    <2>2. Undecided(w)
      BY <1>2 DEF Undecided
    <2> QED BY <2>1, <2>2 DEF Doubt
  <1>7. Row' = Row
    BY <1>2 DEF Row, RowEnd
  <1>8. Placed' = [Placed EXCEPT ![w] = @ + 1] \/ Placed' = Placed
    <2>1. CASE UNCHANGED orders
      BY <2>1 DEF Placed, Orderers
    <2>2. CASE orders' = [orders EXCEPT ![p][w] = @ + 1]
      <3>1. orders'[p][w] = 1
        BY <1>1, <1>3, <2>2 DEF TypeOK
      <3>2. Placed[w] = 0
        BY <1>3, PlacedNone
      <3>3. Orderers(w)' = {p}
        BY <1>3, <1>5, <3>1 DEF Orderers
      <3>4. Placed'[w] = 1
        BY <3>3, FS_Singleton DEF Placed
      <3>5. \A v \in Watch : v # w => Placed'[v] = Placed[v]
        BY <1>5 DEF Placed, Orderers
      <3>6. Placed'[w] = Placed[w] + 1
        BY <3>2, <3>4
      <3>7. Placed' = [v \in Watch |-> Placed'[v]] /\ Placed = [v \in Watch |-> Placed[v]]
        BY DEF Placed
      <3> QED BY <3>5, <3>6, <3>7
    <2> QED BY <1>2, <2>1, <2>2
  <1> QED BY <1>2, <1>6, <1>7, <1>8 DEF Promise!Decide, Row, Placed, Orderers, Doubt

\* The lanes that post nothing, and the steps of the control lane that write no row.
LEMMA LanesAreQuiet ==
  ASSUME TypeOK, NEW p \in Proc,
         \/ StopWorker(p) \/ LaneLooks(p) \/ PrepareMissed(p) \/ \E l \in Hot : Claim(p, l)
         \/ \E w \in Watch : WaitEnds(p, w)
         \/ \E l \in Lane : LaneFires(p, l) /\ ~PostLeaves(p, l)
  PROVE  UNCHANGED Promise!vars
  <1>1. ASSUME UNCHANGED <<state, reason, asked, sent, orders>> PROVE UNCHANGED Promise!vars
    BY <1>1, QuietStutters
  <1>2. CASE StopWorker(p)
    BY <1>1, <1>2 DEF StopWorker, exchange, db
  <1>3. CASE LaneLooks(p) \/ PrepareMissed(p) \/ \E l \in Hot : Claim(p, l)
    <2>1. UNCHANGED <<state, reason, asked, sent, orders>>
      BY <1>3 DEF LaneLooks, Observe, PrepareStarts, PrepareFails, PrepareDrops, PrepareReads,
                  PrepareSends, PrepareMissed, Claim, exchange, db
    <2> QED BY <1>1, <2>1
  <1>4. ASSUME NEW w \in Watch, WaitEnds(p, w) PROVE UNCHANGED Promise!vars
    <2>1. UNCHANGED <<state, reason, asked, sent, orders>>
      BY <1>4 DEF WaitEnds, CloseCuts, FireDue, Retry, RetryCut, RetryGivesUp, RetryStarts,
                  exchange, db
    <2> QED BY <1>1, <2>1
  <1>5. ASSUME NEW l \in Lane, LaneFires(p, l), ~PostLeaves(p, l) PROVE UNCHANGED Promise!vars
    <2>1. CASE AnswerRefused(p, l) \/ AnswerTerminal(p, l)
      <3>1. PICK w \in Watch : sent[p][w] = "refused" /\ sent' = [sent EXCEPT ![p][w] = "none"]
        BY <2>1, LaneWatch DEF AnswerRefused, AnswerTerminal, Firing, OnLane
      <3>2. \A q \in Proc, v \in Watch : sent'[q][v] = "out" <=> sent[q][v] = "out"
        <4>1. sent'[p][w] = "none"
          BY <3>1 DEF TypeOK
        <4>2. \A q \in Proc, v \in Watch : q # p \/ v # w => sent'[q][v] = sent[q][v]
          BY <3>1 DEF TypeOK
        <4> QED BY <3>1, <4>1, <4>2
      <3>3. UNCHANGED <<state, reason, asked, orders>>
        BY <2>1 DEF AnswerRefused, AnswerTerminal, db
      <3> QED BY <3>2, <3>3, QuietStutters
    <2>2. CASE ~(AnswerRefused(p, l) \/ AnswerTerminal(p, l))
      <3>1. UNCHANGED <<state, reason, asked, sent, orders>>
        BY <1>5, <2>2 DEF LaneFires, Attempt, Answer, SignFails, Rehearse, AnswerPosted, AnswerNone,
                          GuardRefuses, GuardPasses, exchange, db
      <3> QED BY <1>1, <3>1
    <2> QED BY <2>1, <2>2
  <1> QED BY <1>2, <1>3, <1>4, <1>5

LEMMA ControlIsPromised ==
  ASSUME KeepInv, May \subseteq {"stop"}, NEW p \in Proc, ControlMoves(p)
  PROVE  [Promise!Next]_(Promise!vars)
  <1>1. TypeOK /\ EventsTrue /\ RoutedIsHeld /\ ViewHolds /\ Held /\ Causes /\ Custody
    BY DEF KeepInv, HoldInv, FireInv, OutInv, IInv
  <1>2. UNCHANGED <<sent, orders>>
    BY <1>1, ControlGoesOn
  <1>3. ASSUME UNCHANGED <<state, reason, asked>> PROVE UNCHANGED Promise!vars
    BY <1>2, <1>3, QuietStutters
  <1>4. CASE DrainClaimed(p)
    BY <1>1, <1>4, MarkIsPromised DEF Promise!Next
  <1>5. CASE OpenSniper(p)
    BY <1>1, <1>5, OpenIsPromised DEF Promise!Next
  <1>6. ASSUME NEW w \in Watch, NEW o \in Outcome \ {"interrupted"}, Alive(p), CloseRow(p, w, o),
               UNCHANGED asked, IsOpen(w) => Truth(p, w, o),
               o \in {"disarmed", "cut_disarm"} => w \in asked,
               o = "rehearsed" => w \in Dry
        PROVE  [Promise!Next]_(Promise!vars)
    <2>1. CASE IsOpen(w)
      <3>1. \E e \in Promise!Ends : Promise!End(w, e)
        BY <1>2, <1>6, <2>1, ClosingEnds
      <3> QED BY <3>1 DEF Promise!Next
    <2>2. CASE ~IsOpen(w)
      BY <1>3, <1>6, <2>2 DEF CloseRow, db
    <2> QED BY <2>1, <2>2
  <1>7. CASE DrainResolved(p)
    <2>1. inbox[p] # <<>> /\ Head(inbox[p]) \in Event /\ Alive(p) /\ UNCHANGED asked
      BY <1>1, <1>7, HeadIsEvent DEF DrainResolved, Draining, Alive
    <2>2. PICK w \in Watch, o \in Outcome :
            w = Head(inbox[p]).watch /\ o = Head(inbox[p]).what /\ CloseRow(p, w, o)
      BY <1>7, <2>1 DEF DrainResolved, Event
    <2>3. Tells(p, w, o)
      BY <1>1, <2>1, <2>2, HeadIsTold
    <2>4. CauseAt(p, w)
      BY <1>1 DEF Causes
    <2>5. Truth(p, w, o)
      <3>1. 1 \in DOMAIN inbox[p] /\ inbox[p][1] = Head(inbox[p])
        BY <1>1, <2>1 DEF TypeOK
      <3> QED BY <1>1, <2>2, <3>1 DEF EventsTrue, EventTrue
    <2>6. o \notin {"disarmed", "interrupted"} /\ (o = "rehearsed" => w \in Dry)
          /\ (o = "cut_disarm" => w \in asked)
      BY <2>3, <2>4 DEF CauseAt
    <2> QED BY <1>6, <2>1, <2>2, <2>5, <2>6
  <1>8. ASSUME NEW w \in Watch, DisarmUnadopted(p, w) \/ DisarmWins(p, w)
        PROVE  [Promise!Next]_(Promise!vars)
    <2>1. CloseRow(p, w, "disarmed") /\ UNCHANGED asked /\ Alive(p)
      BY <1>8 DEF DisarmUnadopted, DisarmWins, DisarmWrites, TakesRow, Alive
    <2>2. w \in asked
      BY <1>1, <1>8 DEF DisarmUnadopted, DisarmWins, ViewHolds, ViewHoldsAt
    <2>3. HeldAt(p, w) /\ CustodyAt(p, w)
      BY <1>1 DEF Held, Custody
    <2>4. IsOpen(w) => fire[p][w] = "none"
      <3>1. CASE DisarmUnadopted(p, w)
        BY <2>3, <3>1 DEF DisarmUnadopted, HeldAt, Works, IsOpen, OpenStates, ClosedStates
      <3>2. CASE DisarmWins(p, w)
        BY <2>1, <2>3, <3>2 DEF DisarmWins, CustodyAt, Alive
      <3> QED BY <1>8, <3>1, <3>2
    <2>5. IsOpen(w) => Truth(p, w, "disarmed")
      BY <2>1, <2>3, <2>4 DEF CustodyAt, Truth, Alive
    <2>6. "disarmed" \in Outcome \ {"interrupted"}
      BY DEF Outcome
    <2> QED BY <1>6, <2>1, <2>2, <2>5, <2>6
  <1>9. CASE \/ StartWorker(p) \/ BeatFails(p) \/ StopSignal(p) \/ DbFails(p) \/ DrainUnknown(p)
             \/ DrainPrepared(p) \/ ReconcileReads(p) \/ ReconcileEnds(p)
             \/ LeaveLoop(p) \/ CloseClaims(p) \/ CloseJoins(p) \/ CloseDrains(p) \/ CloseEnds(p)
             \/ \E w \in Watch : DisarmLoses(p, w) \/ DisarmLogged(p, w) \/ Adopt(p, w)
    <2>1. UNCHANGED <<state, reason, asked>>
      BY <1>9 DEF StartWorker, BeatFails, StopSignal, OpenFails, DbFails, DrainUnknown,
                  DrainPrepared, DrainFails, ReconcileReads, ReconcileEnds, ReconcileFails,
                  LeaveLoop, CloseClaims, CloseJoins, CloseDrains, CloseEnds, DisarmLoses,
                  DisarmLogged, Adopt, db
    <2> QED BY <1>3, <2>1
  <1> QED BY <1>4, <1>5, <1>7, <1>8, <1>9 DEF ControlMoves, Drain, Reconcile

LEMMA StepIsPromised ==
  ASSUME KeepInv, May \subseteq {"stop"}, [Next]_vars
  PROVE  [Promise!Next]_(Promise!vars)
  <1>1. TypeOK
    BY DEF KeepInv, HoldInv, FireInv, OutInv, IInv
  <1>2. CASE Outside
    <2>1. CASE Operator
      BY <1>1, <2>1, ArmIsPromised, AskIsPromised DEF Operator, Promise!Next
    <2>2. CASE UNCHANGED vars \/ \E t \in Token : TickReaches(t)
      <3>1. UNCHANGED <<state, reason, asked, sent, orders>>
        BY <2>2 DEF vars, TickReaches, exchange, db
      <3> QED BY <3>1, QuietStutters
    <2>3. CASE \E p \in Proc, w \in Watch : Exchange(p, w)
      BY <2>3, DecideIsPromised DEF Promise!Next
    <2> QED BY <1>2, <2>1, <2>2, <2>3 DEF Outside
  <1>3. ASSUME NEW p \in Proc, ControlMoves(p) PROVE [Promise!Next]_(Promise!vars)
    BY <1>3, ControlIsPromised
  <1>4. ASSUME NEW p \in Proc, NEW l \in Lane, PostLeaves(p, l) PROVE [Promise!Next]_(Promise!vars)
    BY <1>4, SendIsPromised DEF Promise!Next
  <1>5. \A p \in Proc : ~Crash(p)
    BY NothingFails
  <1> QED BY <1>1, <1>2, <1>3, <1>4, <1>5, StepCases, LanesAreQuiet

LEMMA InitIsPromised ==
  ASSUME Init
  PROVE  Promise!Init
  <1>1. Row = [w \in Watch |-> "none"] /\ asked = {} /\ Doubt = {}
    BY DEF Init, Row, RowEnd, Doubt, Undecided
  <1>2. Placed = [w \in Watch |-> 0]
    <2>1. \A w \in Watch : Placed[w] = 0
      BY PlacedNone DEF Init
    <2> QED BY <2>1 DEF Placed
  <1> QED BY <1>1, <1>2 DEF Promise!Init, Row, Placed, Orderers, Doubt

\* While workers are only told to stop, every step of the lanes, the control lane and the
\* exchange is a step of WatchPromise or changes nothing it speaks of.
THEOREM PromiseKept ==
  ASSUME May \subseteq {"stop"}
  PROVE  Spec => KeepsPromise
  <1>1. KeepInv /\ [Next]_vars => KeepInv'
    BY KeepInvStep
  <1>2. KeepInv /\ [Next]_vars => [Promise!Next]_(Promise!vars)
    BY StepIsPromised
  <1> QED BY <1>1, <1>2, InitKeepInv, InitIsPromised, PTL DEF Spec, KeepsPromise, Promise!Spec

=============================================================================
