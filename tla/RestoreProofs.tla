--------------------------- MODULE RestoreProofs ---------------------------
(***************************************************************************)
(* Proofs about the job queue of Restore, for every account, every number  *)
(* of jobs and worker runs.  In this order: a job that ended stays as it   *)
(* ended and no restore gets into the queue unread (QInv); as long as no   *)
(* worker lives on past the run that replaced it and no statement raises,  *)
(* no job is left running without a thread (RInv); however a restore ends, *)
(* its lines tell what became of its orders (LInv); and, no worker living  *)
(* on, a restore is safe to run again (DInv).                              *)
(***************************************************************************)
EXTENDS Restore, FiniteSetTheorems, TLAPS

JobRow == [kind : Kinds, snap : Nat, managed : SUBSET Market, retired : SUBSET Market,
           state : JobState, late : BOOLEAN]
Stages == {"new", "starting", "serving", "stopping", "dead"}

\* What the proofs need of the variables' types.
Shapes ==
  /\ jobs \in Seq(JobRow)
  /\ DOMAIN snapshots \subseteq Nat
  /\ DOMAIN thread = Proc
  /\ \A p \in Proc : {"at", "job"} \subseteq DOMAIN thread[p]
  /\ ctl \in [Proc -> Stages]
  /\ status \in [who : Proc \cup {None}, stopped : BOOLEAN]

\* The snapshots are a sequence, whatever is in them.
SnapshotsAreASequence == \E S : snapshots \in Seq(S)

Ended == {"done", "failed"}
Busy(p) == thread[p].at # "idle"

\* A thread at work has a job of the queue.
ThreadsHaveJobs == \A p \in Proc : Busy(p) => thread[p].job \in DOMAIN jobs

QInv == Shapes /\ SnapshotsAreASequence /\ ThreadsHaveJobs /\ EachRestorePreviewed

\* At most one run is alive, and it is the one of the status row: what the beats are for.
OneWorker == \A p \in Proc : Alive(p) => status.who = p /\ ~status.stopped
ThreadsAreAlive == \A p \in Proc : Busy(p) => ctl[p] \in {"serving", "stopping"}

RInv == QInv /\ OneWorker /\ ThreadsAreAlive /\ RunningHasThread

-----------------------------------------------------------------------------
(* What a step does to the queue                                           *)

\* The jobs there were keep what they ask for, and a closed one its end; none waits again.
KeepsJobs ==
  /\ DOMAIN jobs \subseteq DOMAIN jobs'
  /\ \A j \in DOMAIN jobs :
       /\ jobs'[j].kind = jobs[j].kind
       /\ jobs'[j].snap = jobs[j].snap
       /\ jobs[j].state \in Ended => jobs'[j].state = jobs[j].state
       /\ jobs'[j].state = "queued" => jobs[j].state = "queued"

\* Fits and keeps, in one.
MovesJobs == jobs' \in Seq(JobRow) /\ KeepsJobs

\* A job that is queued is the one after the last.
LEMMA EnqueueMoves ==
  ASSUME jobs \in Seq(JobRow), NEW kind \in Kinds, NEW s \in Nat,
         NEW managed \in SUBSET Market, NEW retired \in SUBSET Market,
         Enqueue(kind, s, managed, retired)
  PROVE  /\ MovesJobs
         /\ Len(jobs') = Len(jobs) + 1
         /\ \A j \in 1..Len(jobs) : jobs'[j] = jobs[j]
         /\ jobs'[Len(jobs) + 1].kind = kind
         /\ jobs'[Len(jobs) + 1].snap = s
         /\ jobs'[Len(jobs) + 1].state = "queued"
<1> DEFINE row == [kind |-> kind, snap |-> s, managed |-> managed, retired |-> retired,
                   state |-> "queued", late |-> FALSE]
<1>1. row \in JobRow
  BY DEF JobRow, JobState
<1>2. jobs' = Append(jobs, row)
  BY DEF Enqueue
<1> HIDE DEF row
<1>3. jobs' \in Seq(JobRow) /\ Len(jobs') = Len(jobs) + 1 /\ jobs'[Len(jobs) + 1] = row
      /\ \A j \in 1..Len(jobs) : jobs'[j] = jobs[j]
  BY <1>1, <1>2
<1>4. row.kind = kind /\ row.snap = s /\ row.state = "queued"
  BY DEF row
<1>5. KeepsJobs
  BY <1>3 DEF KeepsJobs
<1> QED
  BY <1>3, <1>4, <1>5 DEF MovesJobs

\* One job that is open changes, and asks for what it asked for.
LEMMA RowMoves ==
  ASSUME jobs \in Seq(JobRow), NEW k \in DOMAIN jobs, NEW row \in JobRow,
         jobs[k].state \notin Ended,
         row.kind = jobs[k].kind,
         row.snap = jobs[k].snap,
         row.state = "queued" => jobs[k].state = "queued",
         jobs' = [jobs EXCEPT ![k] = row]
  PROVE  /\ MovesJobs
         /\ DOMAIN jobs' = DOMAIN jobs
         /\ jobs'[k] = row
         /\ \A j \in DOMAIN jobs : j # k => jobs'[j] = jobs[j]
<1>1. DOMAIN jobs' = DOMAIN jobs /\ jobs'[k] = row /\ jobs' \in Seq(JobRow)
  OBVIOUS
<1>2. \A j \in DOMAIN jobs : j # k => jobs'[j] = jobs[j]
  OBVIOUS
<1>3. KeepsJobs
  BY <1>1, <1>2 DEF KeepsJobs
<1> QED
  BY <1>1, <1>2, <1>3 DEF MovesJobs

\* The state of one open job changes.
LEMMA StateMoves ==
  ASSUME jobs \in Seq(JobRow), NEW k \in DOMAIN jobs, NEW s \in JobState \ {"queued"},
         jobs[k].state \notin Ended,
         jobs' = [jobs EXCEPT ![k].state = s]
  PROVE  /\ MovesJobs
         /\ DOMAIN jobs' = DOMAIN jobs
         /\ jobs'[k].state = s
         /\ \A j \in DOMAIN jobs : j # k => jobs'[j] = jobs[j]
<1> DEFINE row == [jobs[k] EXCEPT !.state = s]
<1>1. jobs[k] \in JobRow
  OBVIOUS
<1>2. row \in JobRow /\ row.kind = jobs[k].kind /\ row.snap = jobs[k].snap /\ row.state = s
  BY <1>1 DEF JobRow
<1>3. jobs' = [jobs EXCEPT ![k] = row]
  OBVIOUS
<1> HIDE DEF row
<1> QED
  BY <1>2, <1>3, RowMoves

\* The jobs a dead worker left running fail, whichever they are.
LEMMA FailRunningMoves ==
  ASSUME jobs \in Seq(JobRow), NEW p \in Proc, FailRunning(p)
  PROVE  MovesJobs /\ \A j \in DOMAIN jobs' : jobs'[j].state # "running"
<1>1. DOMAIN jobs' = DOMAIN jobs /\ DOMAIN jobs = 1..Len(jobs) /\ Len(jobs) \in Nat
  BY DEF FailRunning
<1>2. ASSUME NEW j \in DOMAIN jobs
      PROVE  /\ jobs'[j] \in JobRow
             /\ jobs'[j].kind = jobs[j].kind
             /\ jobs'[j].snap = jobs[j].snap
             /\ jobs'[j].state # "running"
             /\ jobs'[j].state = "queued" => jobs[j].state = "queued"
             /\ jobs[j].state # "running" => jobs'[j] = jobs[j]
  <2>1. jobs[j] \in JobRow
    OBVIOUS
  <2>2. jobs'[j] = IF jobs[j].state = "running"
                   THEN [jobs[j] EXCEPT !.state = "failed"] ELSE jobs[j]
    BY DEF FailRunning
  <2> QED
    BY <2>1, <2>2 DEF JobRow, JobState
<1>3. jobs' \in Seq(JobRow)
  BY <1>1, <1>2 DEF FailRunning
<1> QED
  BY <1>1, <1>2, <1>3 DEF MovesJobs, KeepsJobs, Ended

\* The kinds of step: one that queues a job, three that change one, and the rest.
LEMMA ConsoleMoves ==
  ASSUME ConstantsAssumption, Shapes, Console
  PROVE  MovesJobs
<1>1. PICK managed \in SUBSET Farmed, retired \in SUBSET Farmed :
        \/ retired = {} /\ TakeSnapshot(managed)
        \/ \E s \in DOMAIN snapshots :
             Preview(s, managed, retired) \/ PlaceRestore(s, managed, retired)
  BY DEF Console
<1>2. managed \in SUBSET Market /\ retired \in SUBSET Market /\ {} \in SUBSET Market
  BY DEF ConstantsAssumption, Market
<1>3. {"snapshot", "preview", "restore"} \subseteq Kinds /\ 0 \in Nat
      /\ DOMAIN snapshots \subseteq Nat /\ jobs \in Seq(JobRow)
  BY DEF Shapes, Kinds
<1>4. CASE TakeSnapshot(managed)
  BY <1>2, <1>3, <1>4, EnqueueMoves DEF TakeSnapshot
<1>5. CASE \E s \in DOMAIN snapshots : Preview(s, managed, retired)
  BY <1>2, <1>3, <1>5, EnqueueMoves DEF Preview
<1>6. CASE \E s \in DOMAIN snapshots : PlaceRestore(s, managed, retired)
  BY <1>2, <1>3, <1>6, EnqueueMoves DEF PlaceRestore
<1> QED
  BY <1>1, <1>4, <1>5, <1>6

LEMMA WaitMoves ==
  ASSUME Shapes, NEW j \in DOMAIN jobs, WaitsTooLong(j)
  PROVE  /\ MovesJobs
         /\ DOMAIN jobs' = DOMAIN jobs
         /\ \A k \in DOMAIN jobs : jobs'[k].state = jobs[k].state
<1> DEFINE row == [jobs[j] EXCEPT !.late = TRUE]
<1>1. jobs[j] \in JobRow /\ jobs \in Seq(JobRow)
  BY DEF Shapes
<1>2. /\ row \in JobRow
      /\ row.kind = jobs[j].kind
      /\ row.snap = jobs[j].snap
      /\ row.state = jobs[j].state
  BY <1>1 DEF JobRow
<1>3. jobs' = [jobs EXCEPT ![j] = row] /\ jobs[j].state \notin Ended
  BY DEF WaitsTooLong, Ended
<1> HIDE DEF row
<1> QED
  BY <1>1, <1>2, <1>3, RowMoves

LEMMA ClaimMoves ==
  ASSUME Shapes, NEW p \in Proc, Claim(p)
  PROVE  /\ MovesJobs
         /\ DOMAIN jobs' = DOMAIN jobs
         /\ \E j \in DOMAIN jobs :
              /\ \A k \in DOMAIN jobs : k # j => jobs'[k] = jobs[k]
              /\ thread' = [thread EXCEPT ![p] = [IdleThread EXCEPT !.at = "begin", !.job = j]]
<1>1. PICK j \in DOMAIN jobs :
        /\ jobs[j].state = "queued"
        /\ jobs' = [jobs EXCEPT ![j].state = "running"]
        /\ thread' = [thread EXCEPT ![p] = [IdleThread EXCEPT !.at = "begin", !.job = j]]
  BY DEF Claim
<1>2. /\ MovesJobs
      /\ DOMAIN jobs' = DOMAIN jobs
      /\ \A k \in DOMAIN jobs : k # j => jobs'[k] = jobs[k]
  BY <1>1, StateMoves DEF Shapes, JobState, Ended
<1> QED
  BY <1>1, <1>2

\* finish_job: the job of the thread, if its row still says running.
LEMMA FinishMoves ==
  ASSUME Shapes, NEW p \in Proc, Finish(p), thread[p].job \in DOMAIN jobs
  PROVE  /\ MovesJobs
         /\ DOMAIN jobs' = DOMAIN jobs
         /\ \A k \in DOMAIN jobs : k # thread[p].job => jobs'[k] = jobs[k]
         /\ jobs'[thread[p].job].state # "running"
         /\ jobs'[thread[p].job] # jobs[thread[p].job] =>
              jobs'[thread[p].job].state = thread[p].at
<1> DEFINE j == thread[p].job
           end == thread[p].at
<1>1. end \in JobState \ {"queued"} /\ end # "running" /\ jobs \in Seq(JobRow)
  BY DEF Finish, JobState, Shapes
<1>2. CASE jobs[j].state = "running"
  <2>1. jobs' = [jobs EXCEPT ![j].state = end] /\ jobs[j].state \notin Ended
    BY <1>2 DEF Finish, JobOf, Ended
  <2> HIDE DEF j, end
  <2>2. j \in DOMAIN jobs
    BY DEF j
  <2>3. /\ MovesJobs
        /\ DOMAIN jobs' = DOMAIN jobs
        /\ jobs'[j].state = end
        /\ \A k \in DOMAIN jobs : k # j => jobs'[k] = jobs[k]
    BY <1>1, <2>1, <2>2, StateMoves
  <2> QED
    BY <1>1, <2>3 DEF j, end
<1>3. CASE jobs[j].state # "running"
  <2>1. jobs' = jobs
    BY <1>3 DEF Finish, JobOf
  <2> QED
    BY <1>1, <1>3, <2>1 DEF MovesJobs, KeepsJobs
<1> QED
  BY <1>2, <1>3

\* Whatever else moves leaves the queue alone.
LEMMA OthersLeaveJobs ==
  ASSUME Next, ~Console, ~\E j \in DOMAIN jobs : WaitsTooLong(j),
         ~\E p \in Proc : FailRunning(p) \/ Claim(p) \/ Finish(p)
  PROVE  jobs' = jobs
<1>1. CASE Exchange
  BY <1>1 DEF Exchange, Accept, Refuse, Leaves, Fills, db
<1>2. ASSUME NEW p \in Proc, MainLoop(p) \/ StopSignal(p) \/ Crash(p)
      PROVE  jobs' = jobs
  BY <1>2 DEF MainLoop, StartWorker, LeaveLoop, StopWorker, StopSignal, Crash, db
<1>3. ASSUME NEW p \in Proc, Take(p) \/ StorePlan(p) \/ Plan(p)
      PROVE  jobs' = jobs
  BY <1>3 DEF Take, StorePlan, Plan, db
<1>4. ASSUME NEW p \in Proc, Skips(p) \/ StoreLine(p) \/ StoreFails(p) \/ Places(p)
      PROVE  jobs' = jobs
  BY <1>4 DEF Skips, StoreLine, StoreFails, Places, Sends, Unsent, PostLeaves, AnswerPosted,
              AnswerRejected, NoAnswer, db
<1>5. ASSUME NEW p \in Proc, Ends(p)
      PROVE  jobs' = jobs
  BY <1>5 DEF Ends, Refuses, StopsEarly, AllLines, FinishFails, db
<1> QED
  BY <1>1, <1>2, <1>3, <1>4, <1>5 DEF Next, JobThread

LEMMA JobsStep ==
  ASSUME ConstantsAssumption, Shapes, ThreadsHaveJobs, Next
  PROVE  MovesJobs
<1>1. CASE Console
  BY <1>1, ConsoleMoves
<1>2. CASE \E j \in DOMAIN jobs : WaitsTooLong(j)
  BY <1>2, WaitMoves
<1>3. ASSUME NEW p \in Proc, FailRunning(p) \/ Claim(p) \/ Finish(p)
      PROVE  MovesJobs
  <2>1. Finish(p) => thread[p].job \in DOMAIN jobs
    BY DEF Finish, ThreadsHaveJobs, Busy
  <2> QED
    BY <1>3, <2>1, FailRunningMoves, ClaimMoves, FinishMoves DEF Shapes
<1>4. CASE jobs' = jobs
  BY <1>4 DEF MovesJobs, KeepsJobs, Shapes
<1> QED
  BY <1>1, <1>2, <1>3, <1>4, OthersLeaveJobs

-----------------------------------------------------------------------------
(* What a step does to the runs and their threads                          *)

\* A step of p's job thread, but its last: it goes on with the same job.
LEMMA ThreadGoesOn ==
  ASSUME Shapes, NEW p \in Proc, JobThread(p), ~Finish(p), ~FinishFails(p)
  PROVE  /\ UNCHANGED <<ctl, status>>
         /\ DOMAIN thread' = Proc
         /\ \A q \in Proc : q # p => thread'[q] = thread[q]
         /\ thread[p].at # "idle" /\ thread'[p].at # "idle"
         /\ thread'[p].job = thread[p].job
         /\ {"at", "job"} \subseteq DOMAIN thread'[p]
<1> USE DEF Shapes
<1>1. ASSUME NEW stage \in ThreadStage \ {"idle"}, Goes(p, stage)
      PROVE  /\ DOMAIN thread' = Proc
             /\ \A q \in Proc : q # p => thread'[q] = thread[q]
             /\ thread'[p].at # "idle"
             /\ thread'[p].job = thread[p].job
             /\ {"at", "job"} \subseteq DOMAIN thread'[p]
  BY <1>1 DEF Goes
<1>2. CASE Take(p) \/ StorePlan(p)
  <2>1. Goes(p, "done") /\ thread[p].at # "idle" /\ UNCHANGED <<ctl, status>>
    BY <1>2 DEF Take, StorePlan, CanRun, life
  <2> QED
    BY <2>1, <1>1 DEF ThreadStage
<1>3. CASE Plan(p)
  BY <1>3 DEF Plan, CanRun, life
<1>4. CASE Skips(p)
  BY <1>4 DEF Skips, AtLine, life
<1>5. CASE StoreLine(p)
  BY <1>5 DEF StoreLine, Placing, life
<1>6. CASE StoreFails(p) \/ Refuses(p) \/ StopsEarly(p)
  <2>1. Goes(p, "failed") /\ thread[p].at # "idle" /\ UNCHANGED <<ctl, status>>
    BY <1>6 DEF StoreFails, Refuses, StopsEarly, AtLine, Placing, life
  <2> QED
    BY <2>1, <1>1 DEF ThreadStage
<1>7. CASE Sends(p)
  <2>1. Goes(p, "sending") /\ thread[p].at # "idle" /\ UNCHANGED <<ctl, status>>
    BY <1>7 DEF Sends, AtLine, life
  <2> QED
    BY <2>1, <1>1 DEF ThreadStage
<1>8. CASE Unsent(p)
  <2>1. Goes(p, "unsent") /\ thread[p].at # "idle" /\ UNCHANGED <<ctl, status>>
    BY <1>8 DEF Unsent, life
  <2> QED
    BY <2>1, <1>1 DEF ThreadStage
<1>9. CASE PostLeaves(p)
  <2>1. Goes(p, "out") /\ thread[p].at # "idle" /\ UNCHANGED <<ctl, status>>
    BY <1>9 DEF PostLeaves, life
  <2> QED
    BY <2>1, <1>1 DEF ThreadStage
<1>10. CASE AnswerPosted(p)
  <2>1. Goes(p, "placed") /\ thread[p].at # "idle" /\ UNCHANGED <<ctl, status>>
    BY <1>10 DEF AnswerPosted, life
  <2> QED
    BY <2>1, <1>1 DEF ThreadStage
<1>11. CASE AnswerRejected(p)
  <2>1. Goes(p, "rejected") /\ thread[p].at # "idle" /\ UNCHANGED <<ctl, status>>
    BY <1>11 DEF AnswerRejected, life
  <2> QED
    BY <2>1, <1>1 DEF ThreadStage
<1>12. CASE NoAnswer(p)
  <2>1. Goes(p, "may_rest") /\ thread[p].at # "idle" /\ UNCHANGED <<ctl, status>>
    BY <1>12 DEF NoAnswer, life
  <2> QED
    BY <2>1, <1>1 DEF ThreadStage
<1>13. CASE AllLines(p)
  <2>1. Goes(p, "done") /\ thread[p].at # "idle" /\ UNCHANGED <<ctl, status>>
    BY <1>13 DEF AllLines, life
  <2> QED
    BY <2>1, <1>1 DEF ThreadStage
<1> QED
  BY <1>2, <1>3, <1>4, <1>5, <1>6, <1>7, <1>8, <1>9, <1>10, <1>11, <1>12, <1>13
     DEF JobThread, Places, Ends

\* A thread that ends, or dies with its run.
LEMMA ThreadEnds ==
  ASSUME Shapes, NEW p \in Proc, Finish(p) \/ FinishFails(p) \/ Crash(p)
  PROVE  /\ DOMAIN thread' = Proc
         /\ \A q \in Proc : q # p => thread'[q] = thread[q]
         /\ thread'[p].at = "idle"
         /\ {"at", "job"} \subseteq DOMAIN thread'[p]
BY DEF Finish, FinishFails, Crash, IdleThread, Shapes

\* The steps that leave the threads alone.
LEMMA ThreadsStay ==
  ASSUME Next, ~\E p \in Proc : Claim(p) \/ Crash(p) \/ JobThread(p)
  PROVE  thread' = thread
<1>1. CASE Console
  BY <1>1 DEF Console, TakeSnapshot, Preview, PlaceRestore, Enqueue
<1>2. CASE \E j \in DOMAIN jobs : WaitsTooLong(j)
  BY <1>2 DEF WaitsTooLong
<1>3. ASSUME NEW p \in Proc, MainLoop(p) \/ StopSignal(p)
      PROVE  thread' = thread
  BY <1>3 DEF MainLoop, StartWorker, FailRunning, LeaveLoop, StopWorker, StopSignal
<1>4. CASE Exchange
  BY <1>4 DEF Exchange, Accept, Refuse, Leaves, Fills
<1> QED
  BY <1>1, <1>2, <1>3, <1>4 DEF Next

\* The steps that leave the runs and their status row alone.
LEMMA RunsStay ==
  ASSUME Next, Shapes,
         ~\E p \in Proc : \/ StartWorker(p) \/ FailRunning(p) \/ LeaveLoop(p)
                           \/ StopWorker(p) \/ Crash(p)
  PROVE  UNCHANGED <<ctl, status>>
<1>1. CASE Console
  BY <1>1 DEF Console, TakeSnapshot, Preview, PlaceRestore, Enqueue, life
<1>2. CASE \E j \in DOMAIN jobs : WaitsTooLong(j)
  BY <1>2 DEF WaitsTooLong, life
<1>3. ASSUME NEW p \in Proc, MainLoop(p) \/ StopSignal(p)
      PROVE  UNCHANGED <<ctl, status>>
  BY <1>3 DEF MainLoop, Claim, StopSignal, life
<1>4. ASSUME NEW p \in Proc, JobThread(p)
      PROVE  UNCHANGED <<ctl, status>>
  <2>1. CASE Finish(p) \/ FinishFails(p)
    BY <2>1 DEF Finish, FinishFails, life
  <2> QED
    BY <1>4, <2>1, ThreadGoesOn
<1>5. CASE Exchange
  BY <1>5 DEF Exchange, Accept, Refuse, Leaves, Fills, life
<1> QED
  BY <1>1, <1>2, <1>3, <1>4, <1>5 DEF Next

LEMMA OnlyTakeAdds ==
  ASSUME Next, ~\E p \in Proc : Take(p)
  PROVE  snapshots' = snapshots
<1>1. CASE Console
  BY <1>1 DEF Console, TakeSnapshot, Preview, PlaceRestore, Enqueue
<1>2. CASE \E j \in DOMAIN jobs : WaitsTooLong(j)
  BY <1>2 DEF WaitsTooLong
<1>3. ASSUME NEW p \in Proc, MainLoop(p) \/ StopSignal(p) \/ Crash(p)
      PROVE  snapshots' = snapshots
  BY <1>3 DEF MainLoop, StartWorker, FailRunning, LeaveLoop, StopWorker, Claim, StopSignal,
              Crash, db
<1>4. ASSUME NEW p \in Proc, StorePlan(p) \/ Plan(p) \/ Skips(p) \/ StoreLine(p)
                             \/ StoreFails(p) \/ Places(p)
      PROVE  snapshots' = snapshots
  BY <1>4 DEF StorePlan, Plan, Skips, StoreLine, StoreFails, Places, Sends, Unsent, PostLeaves,
              AnswerPosted, AnswerRejected, NoAnswer, db
<1>5. ASSUME NEW p \in Proc, Ends(p)
      PROVE  snapshots' = snapshots
  BY <1>5 DEF Ends, Refuses, StopsEarly, AllLines, Finish, FinishFails, db
<1>6. CASE Exchange
  BY <1>6 DEF Exchange, Accept, Refuse, Leaves, Fills, db
<1> QED
  BY <1>1, <1>2, <1>3, <1>4, <1>5, <1>6 DEF Next, JobThread

LEMMA SnapshotsStep ==
  ASSUME Shapes, SnapshotsAreASequence, Next
  PROVE  SnapshotsAreASequence' /\ DOMAIN snapshots' \subseteq Nat
<1>1. CASE \E p \in Proc : Take(p)
  <2>1. PICK e : snapshots' = Append(snapshots, e)
    BY <1>1 DEF Take
  <2>2. PICK S : snapshots \in Seq(S)
    BY DEF SnapshotsAreASequence
  <2>3. snapshots \in Seq(S \cup {e})
    BY <2>2
  <2>4. snapshots' \in Seq(S \cup {e})
    BY <2>1, <2>3
  <2> QED
    BY <2>4 DEF SnapshotsAreASequence
<1> QED
  BY <1>1, OnlyTakeAdds DEF SnapshotsAreASequence, Shapes

LEMMA ShapesStep ==
  ASSUME ConstantsAssumption, Shapes, SnapshotsAreASequence, ThreadsHaveJobs, Next
  PROVE  Shapes' /\ ThreadsHaveJobs'
<1>1. MovesJobs /\ DOMAIN jobs \subseteq DOMAIN jobs'
  BY JobsStep DEF MovesJobs, KeepsJobs
<1>2. ctl' \in [Proc -> Stages] /\ status' \in [who : Proc \cup {None}, stopped : BOOLEAN]
  <2> USE DEF Shapes, Stages
  <2>1. ASSUME NEW p \in Proc, FailRunning(p) \/ LeaveLoop(p) \/ Crash(p)
        PROVE  <1>2
    BY <2>1 DEF FailRunning, LeaveLoop, Crash
  <2>2. ASSUME NEW p \in Proc, StartWorker(p)
        PROVE  <1>2
    BY <2>2 DEF StartWorker
  <2>3. ASSUME NEW p \in Proc, StopWorker(p)
        PROVE  <1>2
    <3>1. [status EXCEPT !.stopped = TRUE] \in [who : Proc \cup {None}, stopped : BOOLEAN]
      OBVIOUS
    <3> QED
      BY <2>3, <3>1 DEF StopWorker
  <2> QED
    BY <2>1, <2>2, <2>3, RunsStay
<1>3. /\ DOMAIN thread' = Proc
      /\ \A p \in Proc : {"at", "job"} \subseteq DOMAIN thread'[p]
      /\ ThreadsHaveJobs'
  <2>1. ASSUME NEW p \in Proc, JobThread(p), ~Finish(p), ~FinishFails(p)
        PROVE  <1>3
    <3>1. /\ DOMAIN thread' = Proc
          /\ \A q \in Proc : q # p => thread'[q] = thread[q]
          /\ thread[p].at # "idle"
          /\ thread'[p].job = thread[p].job
          /\ {"at", "job"} \subseteq DOMAIN thread'[p]
      BY <2>1, ThreadGoesOn
    <3>2. Busy(p) /\ \A q \in Proc : q # p /\ thread'[q].at # "idle" => Busy(q)
      BY <3>1 DEF Busy
    <3>3. ThreadsHaveJobs'
      BY <3>1, <3>2, <1>1 DEF ThreadsHaveJobs, Busy
    <3> QED
      BY <3>1, <3>3 DEF Shapes
  <2>2. ASSUME NEW p \in Proc, Finish(p) \/ FinishFails(p) \/ Crash(p)
        PROVE  <1>3
    <3>1. /\ DOMAIN thread' = Proc
          /\ \A q \in Proc : q # p => thread'[q] = thread[q]
          /\ thread'[p].at = "idle"
          /\ {"at", "job"} \subseteq DOMAIN thread'[p]
      BY <2>2, ThreadEnds
    <3> QED
      BY <3>1, <1>1 DEF Shapes, ThreadsHaveJobs, Busy
  <2>3. ASSUME NEW p \in Proc, Claim(p)
        PROVE  <1>3
    <3>1. PICK j \in DOMAIN jobs :
            thread' = [thread EXCEPT ![p] = [IdleThread EXCEPT !.at = "begin", !.job = j]]
      BY <2>3, ClaimMoves
    <3> QED
      BY <3>1, <1>1 DEF Shapes, ThreadsHaveJobs, Busy, IdleThread
  <2>4. CASE thread' = thread
    BY <2>4, <1>1 DEF Shapes, ThreadsHaveJobs, Busy
  <2> QED
    BY <2>1, <2>2, <2>3, <2>4, ThreadsStay
<1> QED
  BY <1>1, <1>2, <1>3, SnapshotsStep DEF Shapes, MovesJobs

-----------------------------------------------------------------------------
(* No restore unread                                                       *)

\* In queue q, job k is the preview that restore j follows.
Reads(q, k, j) ==
  /\ q[k].kind = "preview"
  /\ q[k].snap = q[j].snap
  /\ q[k].state = "done"
  /\ \A m \in k..j - 1 : ~(q[m].kind = "restore" /\ q[m].snap = q[j].snap)

Previewed(q) ==
  \A j \in DOMAIN q : q[j].kind = "restore" => \E k \in 1..j - 1 : Reads(q, k, j)

LEMMA PreviewedIs ==
  /\ EachRestorePreviewed <=> Previewed(jobs)
  /\ EachRestorePreviewed' <=> Previewed(jobs')
BY DEF EachRestorePreviewed, Previewed, Reads, IsRestore

\* The jobs that were there keep the previews they followed.
LEMMA ReadsKept ==
  ASSUME jobs \in Seq(JobRow), KeepsJobs, Previewed(jobs),
         NEW j \in DOMAIN jobs, jobs'[j].kind = "restore"
  PROVE  \E k \in 1..j - 1 : Reads(jobs', k, j)
<1>1. PICK k \in 1..j - 1 : Reads(jobs, k, j)
  BY DEF KeepsJobs, Previewed
<1>2. DOMAIN jobs = 1..Len(jobs) /\ Len(jobs) \in Nat
  OBVIOUS
<1>3. k \in DOMAIN jobs /\ \A m \in k..j - 1 : m \in DOMAIN jobs
  BY <1>2
<1>4. jobs'[k].state = "done"
  BY <1>1, <1>3 DEF KeepsJobs, Reads, Ended
<1>5. \A m \in k..j - 1 : ~(jobs'[m].kind = "restore" /\ jobs'[m].snap = jobs'[j].snap)
  BY <1>1, <1>3 DEF KeepsJobs, Reads
<1> QED
  BY <1>1, <1>3, <1>4, <1>5 DEF KeepsJobs, Reads

\* Placing asks for a finished preview that is the newest preview or restore of the snapshot.
LEMMA PlaceReads ==
  ASSUME jobs \in Seq(JobRow), KeepsJobs, NEW s \in Nat, MayPlace(s),
         NEW n, n = Len(jobs) + 1, jobs'[n].snap = s
  PROVE  \E k \in 1..n - 1 : Reads(jobs', k, n)
<1>1. PICK k \in DOMAIN jobs : IsLatestOf(k, s) /\ jobs[k].kind = "preview" /\ jobs[k].state = "done"
  BY DEF MayPlace
<1>2. DOMAIN jobs = 1..Len(jobs) /\ Len(jobs) \in Nat
  OBVIOUS
<1>3. jobs[k].snap = s
  BY <1>1 DEF IsLatestOf
<1>4. \A m \in DOMAIN jobs : jobs[m].kind = "restore" /\ jobs[m].snap = s => m <= k
  BY <1>1 DEF IsLatestOf, RestoreKinds
<1>5. \A m \in k..n - 1 : ~(jobs'[m].kind = "restore" /\ jobs'[m].snap = s)
  <2> SUFFICES ASSUME NEW m \in k..n - 1, jobs'[m].kind = "restore", jobs'[m].snap = s
               PROVE  FALSE
    OBVIOUS
  <2>1. m \in DOMAIN jobs
    BY <1>2
  <2>2. jobs[m].kind = "restore" /\ jobs[m].snap = s
    BY <2>1 DEF KeepsJobs
  <2>3. m = k
    BY <1>4, <2>1, <2>2, <1>2
  <2> QED
    BY <1>1, <2>2, <2>3
<1>6. jobs'[k].kind = "preview" /\ jobs'[k].snap = s /\ jobs'[k].state = "done"
  BY <1>1, <1>3 DEF KeepsJobs, Ended
<1>7. k \in 1..n - 1
  BY <1>2
<1> QED
  BY <1>5, <1>6, <1>7 DEF Reads

LEMMA PreviewedStep ==
  ASSUME ConstantsAssumption, QInv, Next
  PROVE  EachRestorePreviewed'
<1> USE DEF QInv
<1>1. /\ jobs \in Seq(JobRow) /\ jobs' \in Seq(JobRow)
      /\ KeepsJobs
      /\ Previewed(jobs)
  BY JobsStep, PreviewedIs DEF MovesJobs, Shapes
<1> SUFFICES Previewed(jobs')
  BY PreviewedIs
<1>2. CASE DOMAIN jobs' = DOMAIN jobs
  BY <1>1, <1>2, ReadsKept DEF Previewed
<1>3. ASSUME NEW kind \in Kinds, NEW s \in Nat, NEW managed \in SUBSET Market,
             NEW retired \in SUBSET Market, Enqueue(kind, s, managed, retired),
             kind = "restore" => MayPlace(s)
      PROVE  Previewed(jobs')
  <2> DEFINE n == Len(jobs) + 1
  <2>1. Len(jobs') = n /\ jobs'[n].kind = kind /\ jobs'[n].snap = s
    BY <1>1, <1>3, EnqueueMoves
  <2>2. DOMAIN jobs' = DOMAIN jobs \cup {n} /\ Len(jobs) \in Nat
    BY <1>1, <2>1
  <2>3. kind = "restore" => \E k \in 1..n - 1 : Reads(jobs', k, n)
    BY <1>1, <1>3, <2>1, PlaceReads
  <2> HIDE DEF n
  <2>4. ASSUME NEW j \in DOMAIN jobs', jobs'[j].kind = "restore"
        PROVE  \E k \in 1..j - 1 : Reads(jobs', k, j)
    <3>1. CASE j = n
      BY <2>1, <2>3, <2>4, <3>1
    <3>2. CASE j \in DOMAIN jobs
      BY <1>1, <2>4, <3>2, ReadsKept
    <3> QED
      BY <2>2, <3>1, <3>2
  <2> QED
    BY <2>4 DEF Previewed
<1>4. CASE Console
  <2>1. PICK managed \in SUBSET Farmed, retired \in SUBSET Farmed :
          \/ retired = {} /\ TakeSnapshot(managed)
          \/ \E s \in DOMAIN snapshots :
               Preview(s, managed, retired) \/ PlaceRestore(s, managed, retired)
    BY <1>4 DEF Console
  <2>2. managed \in SUBSET Market /\ retired \in SUBSET Market /\ {} \in SUBSET Market
    BY DEF ConstantsAssumption, Market
  <2>3. {"snapshot", "preview", "restore"} \subseteq Kinds /\ 0 \in Nat
        /\ DOMAIN snapshots \subseteq Nat
    BY DEF Shapes, Kinds
  <2>4. CASE TakeSnapshot(managed)
    BY <1>3, <2>2, <2>3, <2>4 DEF TakeSnapshot
  <2>5. CASE \E s \in DOMAIN snapshots : Preview(s, managed, retired)
    BY <1>3, <2>2, <2>3, <2>5 DEF Preview
  <2>6. CASE \E s \in DOMAIN snapshots : PlaceRestore(s, managed, retired)
    BY <1>3, <2>2, <2>3, <2>6 DEF PlaceRestore
  <2> QED
    BY <2>1, <2>4, <2>5, <2>6
<1>5. CASE \E j \in DOMAIN jobs : WaitsTooLong(j)
  BY <1>2, <1>5, WaitMoves
<1>6. ASSUME NEW p \in Proc, FailRunning(p) \/ Claim(p) \/ Finish(p)
      PROVE  Previewed(jobs')
  <2>1. Finish(p) => thread[p].job \in DOMAIN jobs
    BY DEF Finish, ThreadsHaveJobs, Busy
  <2>2. FailRunning(p) => DOMAIN jobs' = DOMAIN jobs
    BY DEF FailRunning
  <2> QED
    BY <1>2, <1>6, <2>1, <2>2, ClaimMoves, FinishMoves
<1>7. CASE jobs' = jobs
  BY <1>2, <1>7
<1> QED
  BY <1>4, <1>5, <1>6, <1>7, OthersLeaveJobs

LEMMA InitQInv == ConstantsAssumption /\ Init => QInv
<1> SUFFICES ASSUME ConstantsAssumption, Init
             PROVE  QInv
  OBVIOUS
<1>1. jobs \in Seq(JobRow) /\ jobs = <<>>
  BY DEF Init
<1>2. PICK e : snapshots = <<e>>
  BY DEF Init
<1>3. snapshots \in Seq({e})
  BY <1>2
<1>4. SnapshotsAreASequence /\ DOMAIN snapshots \subseteq Nat
  BY <1>3 DEF SnapshotsAreASequence
<1>5. Shapes
  BY <1>1, <1>4 DEF Init, Shapes, Stages, IdleThread
<1>6. ThreadsHaveJobs
  BY DEF Init, ThreadsHaveJobs, Busy, IdleThread
<1>7. EachRestorePreviewed
  BY <1>1 DEF EachRestorePreviewed
<1> QED
  BY <1>4, <1>5, <1>6, <1>7 DEF QInv

LEMMA QInvStep == ConstantsAssumption /\ QInv /\ [Next]_vars => QInv'
<1> SUFFICES ASSUME ConstantsAssumption, QInv, [Next]_vars
             PROVE  QInv'
  OBVIOUS
<1>1. CASE Next
  <2>1. Shapes' /\ ThreadsHaveJobs'
    BY <1>1, ShapesStep DEF QInv
  <2>2. SnapshotsAreASequence'
    BY <1>1, SnapshotsStep DEF QInv
  <2>3. EachRestorePreviewed'
    BY <1>1, PreviewedStep
  <2> QED
    BY <2>1, <2>2, <2>3 DEF QInv
<1>2. CASE UNCHANGED vars
  <2>1. UNCHANGED <<jobs, snapshots, thread, ctl, status>>
    BY <1>2 DEF vars, db, life
  <2>2. Shapes' /\ ThreadsHaveJobs' /\ SnapshotsAreASequence'
    BY <2>1 DEF QInv, Shapes, ThreadsHaveJobs, SnapshotsAreASequence, Busy
  <2>3. EachRestorePreviewed'
    BY <2>1, PreviewedIs DEF QInv
  <2> QED
    BY <2>2, <2>3 DEF QInv
<1> QED
  BY <1>1, <1>2

\* The queue keeps its shape and no restore gets into it unread, for every history of
\* snapshots, previews, restores, crashes, stalls and statements that raise.
THEOREM NoRestoreUnread == Spec => []EachRestorePreviewed
<1>1. Init => QInv
  BY InitQInv, ConstantsAssumption
<1>2. QInv /\ [Next]_vars => QInv'
  BY QInvStep, ConstantsAssumption
<1>3. QInv => EachRestorePreviewed
  BY DEF QInv
<1> QED
  BY <1>1, <1>2, <1>3, PTL DEF Spec

\* A closed job stays as it closed, whichever thread, worker or restart comes after.
THEOREM EndedFinal == Spec => EndedIsFinal
<1>1. Init => QInv
  BY InitQInv, ConstantsAssumption
<1>2. QInv /\ [Next]_vars => QInv'
  BY QInvStep, ConstantsAssumption
<1>3. QInv /\ [Next]_vars =>
        [\A j \in DOMAIN jobs :
           jobs[j].state \in {"done", "failed"} => jobs'[j].state = jobs[j].state]_vars
  BY JobsStep, ConstantsAssumption DEF QInv, MovesJobs, KeepsJobs, Ended
<1> QED
  BY <1>1, <1>2, <1>3, PTL DEF Spec, EndedIsFinal

-----------------------------------------------------------------------------
(* No job left running                                                     *)

\* Nobody lives on past its replacement; and, also, nothing raises.
NoStall == "stall" \notin May
Orderly == NoStall /\ "db" \notin May

LEMMA OneWorkerStep ==
  ASSUME ConstantsAssumption, NoStall, QInv, OneWorker, Next
  PROVE  OneWorker'
<1> USE DEF QInv, Shapes, OneWorker, Alive, Stages
<1>1. ASSUME NEW p \in Proc, StartWorker(p)
      PROVE  OneWorker'
  <2>1. status.stopped \/ \E q \in Proc : ctl[q] = "dead" /\ status.who = q
    BY <1>1 DEF StartWorker, NoStall
  <2>2. \A q \in Proc : ~Alive(q)
    BY <2>1
  <2> QED
    BY <1>1, <2>2 DEF StartWorker
<1>2. ASSUME NEW p \in Proc, FailRunning(p) \/ LeaveLoop(p) \/ Crash(p)
      PROVE  OneWorker'
  BY <1>2 DEF FailRunning, LeaveLoop, Crash
<1>3. ASSUME NEW p \in Proc, StopWorker(p)
      PROVE  OneWorker'
  <2>1. status.who = p /\ ctl' = [ctl EXCEPT ![p] = "dead"]
    BY <1>3 DEF StopWorker
  <2>2. \A q \in Proc : ctl'[q] \notin {"starting", "serving", "stopping"}
    BY <2>1
  <2> QED
    BY <2>2
<1>4. CASE UNCHANGED <<ctl, status>>
  BY <1>4
<1> QED
  BY <1>1, <1>2, <1>3, <1>4, RunsStay

LEMMA ThreadsAreAliveStep ==
  ASSUME ConstantsAssumption, QInv, ThreadsAreAlive, Next
  PROVE  ThreadsAreAlive'
<1> USE DEF QInv, Shapes, ThreadsAreAlive, Busy, Stages
<1>1. ASSUME NEW p \in Proc, JobThread(p), ~Finish(p), ~FinishFails(p)
      PROVE  ThreadsAreAlive'
  BY <1>1, ThreadGoesOn
<1>2. ASSUME NEW p \in Proc, Finish(p) \/ FinishFails(p) \/ Crash(p)
      PROVE  ThreadsAreAlive'
  <2>1. (\A q \in Proc : q # p => thread'[q] = thread[q]) /\ thread'[p].at = "idle"
    BY <1>2, ThreadEnds
  <2>2. \A q \in Proc : q # p => ctl'[q] = ctl[q]
    BY <1>2 DEF Finish, FinishFails, Crash, life
  <2> QED
    BY <2>1, <2>2
<1>3. ASSUME NEW p \in Proc, Claim(p)
      PROVE  ThreadsAreAlive'
  BY <1>3 DEF Claim, life
<1>4. CASE thread' = thread
  <2>1. ASSUME NEW p \in Proc, StartWorker(p) \/ FailRunning(p) \/ LeaveLoop(p) \/ StopWorker(p)
        PROVE  ThreadsAreAlive'
    BY <1>4, <2>1 DEF StartWorker, FailRunning, LeaveLoop, StopWorker
  <2>2. ASSUME NEW p \in Proc, Crash(p)
        PROVE  ThreadsAreAlive'
    BY <2>2, <1>2
  <2>3. CASE UNCHANGED <<ctl, status>>
    BY <1>4, <2>3
  <2> QED
    BY <2>1, <2>2, <2>3, RunsStay
<1> QED
  BY <1>1, <1>2, <1>3, <1>4, ThreadsStay

\* A job that says running was running before, or was claimed by this step.
LEMMA RunningHasThreadStep ==
  ASSUME ConstantsAssumption, Orderly, RInv, Next
  PROVE  RunningHasThread'
<1> USE DEF RInv, QInv
<1> DEFINE Has(t, j) == \E q \in Proc : t[q].at # "idle" /\ t[q].job = j
           Serves(c) == \E q \in Proc : c[q] = "serving"
           Good(js, t, c) == \A j \in DOMAIN js : js[j].state = "running" /\ Serves(c) => Has(t, j)
<1>1. Good(jobs, thread, ctl) /\ (RunningHasThread' <=> Good(jobs', thread', ctl'))
  BY DEF RunningHasThread
<1> SUFFICES Good(jobs', thread', ctl')
  BY <1>1
<1>2. \A p, q \in Proc : Alive(p) /\ Alive(q) => p = q
  BY DEF OneWorker
<1>3. ASSUME NEW p \in Proc, FailRunning(p)
      PROVE  Good(jobs', thread', ctl')
  BY <1>3, FailRunningMoves DEF Shapes
<1>4. ASSUME NEW p \in Proc, StartWorker(p)
      PROVE  Good(jobs', thread', ctl')
  BY <1>1, <1>4 DEF StartWorker, db, Shapes, Stages
<1>5. ASSUME NEW p \in Proc, LeaveLoop(p) \/ StopWorker(p)
      PROVE  Good(jobs', thread', ctl')
  BY <1>1, <1>5 DEF LeaveLoop, StopWorker, db, Shapes, Stages
<1>6. ASSUME NEW p \in Proc, Crash(p)
      PROVE  Good(jobs', thread', ctl')
  <2>1. \A q \in Proc : ctl'[q] # "serving"
    BY <1>2, <1>6 DEF Crash, Alive, Shapes, Stages
  <2> QED
    BY <2>1
<1>7. ASSUME NEW p \in Proc, Claim(p)
      PROVE  Good(jobs', thread', ctl')
  <2>1. thread[p].at = "idle" /\ ctl' = ctl
    BY <1>7 DEF Claim, life
  <2>2. PICK j \in DOMAIN jobs :
          /\ \A k \in DOMAIN jobs : k # j => jobs'[k] = jobs[k]
          /\ thread' = [thread EXCEPT ![p] = [IdleThread EXCEPT !.at = "begin", !.job = j]]
    BY <1>7, ClaimMoves
  <2>3. DOMAIN jobs' = DOMAIN jobs
    BY <1>7, ClaimMoves
  <2>4. /\ thread'[p].at = "begin" /\ thread'[p].job = j
        /\ \A q \in Proc : q # p => thread'[q] = thread[q]
    BY <2>2 DEF Shapes, IdleThread
  <2> QED
    BY <1>1, <2>1, <2>2, <2>3, <2>4
<1>8. ASSUME NEW p \in Proc, Finish(p)
      PROVE  Good(jobs', thread', ctl')
  <2>1. thread[p].job \in DOMAIN jobs /\ ctl' = ctl
    BY <1>8 DEF Finish, ThreadsHaveJobs, Busy, life
  <2>2. /\ DOMAIN jobs' = DOMAIN jobs
        /\ \A k \in DOMAIN jobs : k # thread[p].job => jobs'[k] = jobs[k]
        /\ jobs'[thread[p].job].state # "running"
    BY <1>8, <2>1, FinishMoves
  <2>3. \A q \in Proc : q # p => thread'[q] = thread[q]
    BY <1>8, ThreadEnds
  <2> QED
    BY <1>1, <2>1, <2>2, <2>3
<1>9. ASSUME NEW p \in Proc, FinishFails(p)
      PROVE  Good(jobs', thread', ctl')
  BY <1>9 DEF FinishFails, Orderly
<1>10. ASSUME NEW p \in Proc, JobThread(p), ~Finish(p), ~FinishFails(p), jobs' = jobs
       PROVE  Good(jobs', thread', ctl')
  BY <1>1, <1>10, ThreadGoesOn
<1>11. CASE UNCHANGED <<jobs, thread, ctl>>
  BY <1>1, <1>11
<1>12. CASE Console
  <2>1. UNCHANGED <<thread, ctl>>
    BY <1>12 DEF Console, TakeSnapshot, Preview, PlaceRestore, Enqueue, life
  <2>2. ASSUME NEW kind \in Kinds, NEW s \in Nat, NEW managed \in SUBSET Market,
               NEW retired \in SUBSET Market, Enqueue(kind, s, managed, retired)
        PROVE  Good(jobs', thread', ctl')
    <3> DEFINE n == Len(jobs) + 1
    <3>1. /\ jobs \in Seq(JobRow) /\ jobs' \in Seq(JobRow) /\ Len(jobs') = n
          /\ \A j \in 1..Len(jobs) : jobs'[j] = jobs[j]
          /\ jobs'[n].state = "queued"
      BY <2>2, EnqueueMoves DEF MovesJobs, Shapes
    <3>2. DOMAIN jobs = 1..Len(jobs) /\ DOMAIN jobs' = 1..Len(jobs) \cup {n}
      BY <3>1
    <3> HIDE DEF n
    <3> QED
      BY <1>1, <2>1, <3>1, <3>2
  <2>3. PICK managed \in SUBSET Farmed, retired \in SUBSET Farmed :
          \/ retired = {} /\ TakeSnapshot(managed)
          \/ \E s \in DOMAIN snapshots :
               Preview(s, managed, retired) \/ PlaceRestore(s, managed, retired)
    BY <1>12 DEF Console
  <2>4. managed \in SUBSET Market /\ retired \in SUBSET Market /\ {} \in SUBSET Market
    BY DEF ConstantsAssumption, Market
  <2>5. {"snapshot", "preview", "restore"} \subseteq Kinds /\ 0 \in Nat
        /\ DOMAIN snapshots \subseteq Nat
    BY DEF Shapes, Kinds
  <2>6. CASE TakeSnapshot(managed)
    BY <2>2, <2>4, <2>5, <2>6 DEF TakeSnapshot
  <2>7. CASE \E s \in DOMAIN snapshots : Preview(s, managed, retired)
    BY <2>2, <2>4, <2>5, <2>7 DEF Preview
  <2>8. CASE \E s \in DOMAIN snapshots : PlaceRestore(s, managed, retired)
    BY <2>2, <2>4, <2>5, <2>8 DEF PlaceRestore
  <2> QED
    BY <2>3, <2>6, <2>7, <2>8
<1>13. ASSUME NEW j \in DOMAIN jobs, WaitsTooLong(j)
       PROVE  Good(jobs', thread', ctl')
  <2>1. UNCHANGED <<thread, ctl>>
    BY <1>13 DEF WaitsTooLong, life
  <2> QED
    BY <1>1, <1>13, <2>1, WaitMoves
<1>14. ASSUME NEW p \in Proc, StopSignal(p)
       PROVE  UNCHANGED <<jobs, thread, ctl>>
  BY <1>14 DEF StopSignal, db
<1>15. CASE Exchange
  BY <1>11, <1>15 DEF Exchange, Accept, Refuse, Leaves, Fills, db, life
<1> HIDE DEF Good
<1>16. ASSUME NEW p \in Proc, MainLoop(p) \/ StopSignal(p) \/ Crash(p)
       PROVE  Good(jobs', thread', ctl')
  BY <1>16, <1>3, <1>4, <1>5, <1>6, <1>7, <1>11, <1>14 DEF MainLoop
<1>17. ASSUME NEW p \in Proc, JobThread(p), ~Finish(p), ~FinishFails(p)
       PROVE  jobs' = jobs
  BY <1>17 DEF JobThread, Take, StorePlan, Plan, Skips, StoreLine, StoreFails, Places, Sends,
        Unsent, PostLeaves, AnswerPosted, AnswerRejected, NoAnswer, Ends, Refuses, StopsEarly,
        AllLines, db
<1>18. ASSUME NEW p \in Proc, JobThread(p)
       PROVE  Good(jobs', thread', ctl')
  BY <1>8, <1>9, <1>10, <1>17, <1>18
<1> QED
  BY <1>12, <1>13, <1>15, <1>16, <1>18 DEF Next

\* As long as nothing raises and no worker outlives its replacement, the queue is sound over
\* every number of stops, crashes and restarts: whatever says running while a worker serves
\* has a thread that runs it, and no restore gets into the queue unread.
THEOREM QueueSound == ASSUME Orderly PROVE Spec => []QueueIsSound
<1>1. Init => RInv
  <2> SUFFICES ASSUME Init
               PROVE  RInv
    OBVIOUS
  <2>1. QInv
    BY InitQInv, ConstantsAssumption
  <2>2. OneWorker /\ ThreadsAreAlive /\ RunningHasThread
    BY DEF Init, OneWorker, Alive, ThreadsAreAlive, Busy, RunningHasThread, IdleThread
  <2> QED
    BY <2>1, <2>2 DEF RInv
<1>2. RInv /\ [Next]_vars => RInv'
  <2> SUFFICES ASSUME RInv, [Next]_vars
               PROVE  RInv'
    OBVIOUS
  <2>1. QInv'
    BY QInvStep, ConstantsAssumption DEF RInv
  <2>2. CASE Next
    BY <2>1, <2>2, OneWorkerStep, ThreadsAreAliveStep, RunningHasThreadStep, ConstantsAssumption
       DEF RInv, Orderly
  <2>3. CASE UNCHANGED vars
    <3>1. UNCHANGED <<jobs, thread, ctl, status>>
      BY <2>3 DEF vars, db, life
    <3>2. OneWorker' /\ ThreadsAreAlive' /\ RunningHasThread'
      BY <3>1 DEF RInv, OneWorker, Alive, ThreadsAreAlive, Busy, RunningHasThread
    <3> QED
      BY <2>1, <3>2 DEF RInv
  <2> QED
    BY <2>2, <2>3
<1>3. RInv => QueueIsSound
  BY DEF RInv, QInv, QueueIsSound
<1> QED
  BY <1>1, <1>2, <1>3, PTL DEF Spec

-----------------------------------------------------------------------------
(* What the lines tell                                                     *)

Line == Action \cup Placing
ThreadRow == [at : ThreadStage, job : Nat, plan : Seq(Action), next : Nat, unanswered : Nat]
OrdersOf(j) == snapshots[jobs[j].snap].orders

\* A thread that goes through its plan, and one that has an order in hand.
Posts1 == {"sending", "out"} \cup Placing
Places1 == {"line"} \cup Posts1

\* The lines and the plans are sequences.
LinesFit ==
  /\ lines \in Seq(Seq(Line)) /\ Len(lines) = Len(jobs)
  /\ thread \in [Proc -> ThreadRow]

\* So is every snapshot, and what rests can be listed into the next one.
SnapshotsFit ==
  /\ \A s \in DOMAIN snapshots : \E S : snapshots[s].orders \in Seq(S)
  /\ \A j \in DOMAIN jobs : jobs[j].kind \in RestoreKinds => jobs[j].snap \in DOMAIN snapshots
  /\ IsFiniteSet(Resting)

\* Every post is of a restore, for an order of its snapshot that has a line or is the next one
\* to have it; the exchange decides it once.
PostsAreOfLines ==
  /\ sent \cap placed = {}
  /\ \A i \in sent \cup placed :
       /\ i.job \in DOMAIN jobs
       /\ IsRestore(i.job)
       /\ i.pos \in 1..Len(lines[i.job]) + 1
       /\ i = [root |-> OrdersOf(i.job)[i.pos].id.root, job |-> i.job, pos |-> i.pos]

NoPost(j, n) == \A i \in sent \cup placed : ~(i.job = j /\ i.pos = n)

\* What a line says is what became of its post.
TellsPosts(j) ==
  \A n \in DOMAIN lines[j] :
    /\ lines[j][n] = "placed" => /\ \E i \in placed : i.job = j /\ i.pos = n
                                 /\ \A i \in sent : ~(i.job = j /\ i.pos = n)
    /\ lines[j][n] \notin {"placed", "may_rest"} => NoPost(j, n)
LinesTell == \A j \in DOMAIN jobs : TellsPosts(j)

\* A job that waits has done nothing, and a restore that is done has a line for every order.
TellsEnd(j) ==
  /\ jobs[j].state = "queued" => lines[j] = <<>> /\ \A i \in sent \cup placed : i.job # j
  /\ IsRestore(j) /\ jobs[j].state = "done" => Len(lines[j]) = Len(OrdersOf(j))
JobsTell == \A j \in DOMAIN jobs : TellsEnd(j)

\* Where thread p is in its job: nothing before it begins, then one line after another, the
\* order in hand without one.
AtWork(p) ==
  LET j == thread[p].job
      n == thread[p].next
  IN /\ jobs[j].state \notin {"queued", "done"}
     /\ thread[p].at = "begin" => lines[j] = <<>> /\ \A i \in sent \cup placed : i.job # j
     /\ thread[p].at \in Places1 =>
          /\ IsRestore(j)
          /\ Len(thread[p].plan) = Len(OrdersOf(j))
          /\ n = Len(lines[j]) + 1
          /\ n <= Len(thread[p].plan) + 1
     /\ thread[p].at \in Posts1 => n <= Len(thread[p].plan)
     /\ thread[p].at \in {"line", "sending", "rejected", "unsent"} => NoPost(j, n)
     /\ thread[p].at = "placed" => Posting(p) \in placed
     /\ thread[p].at = "done" /\ IsRestore(j) => Len(lines[j]) = Len(OrdersOf(j))

ThreadsAtWork ==
  \A p \in Proc : Busy(p) =>
    AtWork(p) /\ \A q \in Proc : Busy(q) /\ thread[q].job = thread[p].job => q = p

Tells == LinesFit /\ PostsAreOfLines /\ LinesTell /\ JobsTell /\ ThreadsAtWork
LInv == QInv /\ SnapshotsFit /\ Tells

\* Only the exchange decides posts and moves what rests.
LEMMA ExchangeAlone ==
  ASSUME Next, ~Exchange
  PROVE  UNCHANGED <<left, placed>>
<1>1. CASE Console
  BY <1>1 DEF Console, TakeSnapshot, Preview, PlaceRestore, Enqueue, exchange
<1>2. CASE \E j \in DOMAIN jobs : WaitsTooLong(j)
  BY <1>2 DEF WaitsTooLong, exchange
<1>3. ASSUME NEW p \in Proc, MainLoop(p) \/ StopSignal(p) \/ Crash(p)
      PROVE  UNCHANGED <<left, placed>>
  BY <1>3 DEF MainLoop, StartWorker, FailRunning, LeaveLoop, StopWorker, Claim, StopSignal, Crash,
              exchange
<1>4. ASSUME NEW p \in Proc, Take(p) \/ StorePlan(p) \/ Plan(p) \/ Skips(p) \/ StoreLine(p)
                             \/ StoreFails(p) \/ Places(p)
      PROVE  UNCHANGED <<left, placed>>
  BY <1>4 DEF Take, StorePlan, Plan, Skips, StoreLine, StoreFails, Places, Sends, Unsent,
              PostLeaves, AnswerPosted, AnswerRejected, NoAnswer, exchange
<1>5. ASSUME NEW p \in Proc, Ends(p)
      PROVE  UNCHANGED <<left, placed>>
  BY <1>5 DEF Ends, Refuses, StopsEarly, AllLines, Finish, FinishFails, exchange
<1> QED
  BY <1>1, <1>2, <1>3, <1>4, <1>5 DEF Next, JobThread

\* Whatever a plan makes of an order, it is one of the actions of a preview.
LEMMA PlanFits ==
  ASSUME SnapshotsFit, NEW j \in DOMAIN jobs, jobs[j].kind \in RestoreKinds, NEW soon
  PROVE  /\ PlanOf(jobs[j], soon) \in Seq(Action)
         /\ Len(PlanOf(jobs[j], soon)) = Len(OrdersOf(j))
<1> DEFINE plan == PlanOf(jobs[j], soon)
           entries == OrdersOf(j)
<1>1. PICK S : entries \in Seq(S)
  BY DEF SnapshotsFit, OrdersOf
<1>2. DOMAIN entries = 1..Len(entries) /\ Len(entries) \in Nat
  BY <1>1
<1>3. \A e : Barred(jobs[j], soon, e) \in Action \cup {"no"}
  <2> SUFFICES ASSUME NEW e
               PROVE  Barred(jobs[j], soon, e) \in Action \cup {"no"}
    OBVIOUS
  <2> QED
    BY DEF Barred, Action
<1>4. {"live", "would_place"} \subseteq Action
  BY DEF Action
<1>5. DOMAIN plan = DOMAIN entries
  BY DEF PlanOf, OrdersOf
<1>6. \A i \in DOMAIN entries : plan[i] \in Action
  BY <1>3, <1>4 DEF PlanOf, OrdersOf
<1>7. plan = [i \in DOMAIN entries |-> plan[i]]
  BY DEF PlanOf, OrdersOf
<1> HIDE DEF plan, entries
<1>8. plan \in [1..Len(entries) -> Action]
  BY <1>2, <1>5, <1>6, <1>7
<1>9. plan \in Seq(Action) /\ Len(plan) = Len(entries)
  BY <1>2, <1>8
<1> QED
  BY <1>9 DEF plan, entries

\* What rests, in any order, is a sequence.
LEMMA EntriesFit ==
  ASSUME IsFiniteSet(Resting), NEW listed \in [1..Cardinality(Resting) -> Resting]
  PROVE  \E S : EntriesOf(listed) \in Seq(S)
<1>1. PICK n \in Nat : n = Cardinality(Resting)
  BY FS_CardinalityType
<1>2. DOMAIN EntriesOf(listed) = 1..n
      /\ EntriesOf(listed) = [i \in 1..n |-> EntriesOf(listed)[i]]
  BY <1>1 DEF EntriesOf
<1>3. PICK S : S = {EntriesOf(listed)[i] : i \in 1..n}
  OBVIOUS
<1>4. EntriesOf(listed) \in [1..n -> S]
  BY <1>2, <1>3
<1>5. EntriesOf(listed) \in Seq(S)
  BY <1>1, <1>4
<1> QED
  BY <1>5

KeepsSnapshots ==
  /\ DOMAIN snapshots \subseteq DOMAIN snapshots'
  /\ \A s \in DOMAIN snapshots : snapshots'[s] = snapshots[s]

\* A snapshot stays as it was taken.
LEMMA SnapshotsKept ==
  ASSUME SnapshotsAreASequence, SnapshotsFit, Next
  PROVE  /\ KeepsSnapshots
         /\ \A s \in DOMAIN snapshots' : \E S : snapshots'[s].orders \in Seq(S)
<1>1. ASSUME NEW p \in Proc, Take(p)
      PROVE  /\ KeepsSnapshots
             /\ \A s \in DOMAIN snapshots' : \E S : snapshots'[s].orders \in Seq(S)
  <2>1. PICK listed \in [1..Cardinality(Resting) -> Resting] :
          \E e : snapshots' = Append(snapshots, e) /\ e.orders = EntriesOf(listed)
    BY <1>1 DEF Take
  <2>5. PICK e : snapshots' = Append(snapshots, e) /\ e.orders = EntriesOf(listed)
    BY <2>1
  <2>2. PICK T : snapshots \in Seq(T)
    BY DEF SnapshotsAreASequence
  <2>3. /\ DOMAIN snapshots' = DOMAIN snapshots \cup {Len(snapshots) + 1}
        /\ \A s \in DOMAIN snapshots : snapshots'[s] = snapshots[s]
        /\ snapshots'[Len(snapshots) + 1] = e
    <3>1. snapshots \in Seq(T \cup {e}) /\ e \in T \cup {e}
      BY <2>2
    <3> QED
      BY <2>5, <3>1
  <2>4. \E S : e.orders \in Seq(S)
    BY <2>5, EntriesFit DEF SnapshotsFit
  <2> QED
    BY <2>3, <2>4 DEF KeepsSnapshots, SnapshotsFit
<1>2. CASE snapshots' = snapshots
  BY <1>2 DEF KeepsSnapshots, SnapshotsFit
<1> QED
  BY <1>1, <1>2, OnlyTakeAdds

LEMMA RestingStep ==
  ASSUME IsFiniteSet(Resting), Next
  PROVE  IsFiniteSet(Resting)'
<1> SUFFICES IsFiniteSet(DOMAIN left')
  BY DEF Resting
<1>1. IsFiniteSet(DOMAIN left)
  BY DEF Resting
<1>2. ASSUME NEW i \in sent, Accept(i) \/ Refuse(i)
      PROVE  IsFiniteSet(DOMAIN left')
  <2>1. CASE Accept(i)
    <3>1. DOMAIN left' = DOMAIN left \cup {i}
      BY <2>1 DEF Accept, Resting
    <3> QED
      BY <1>1, <3>1, FS_AddElement
  <2>2. CASE Refuse(i)
    BY <1>1, <2>2 DEF Refuse
  <2> QED
    BY <1>2, <2>1, <2>2
<1>3. ASSUME NEW i \in Resting, Leaves(i) \/ Fills(i)
      PROVE  IsFiniteSet(DOMAIN left')
  <2>1. CASE Leaves(i)
    <3>1. DOMAIN left' = DOMAIN left \ {i}
      BY <2>1 DEF Leaves, Resting
    <3> QED
      BY <1>1, <3>1, FS_RemoveElement
  <2>2. CASE Fills(i)
    <3>1. DOMAIN left' = DOMAIN left
      BY <2>2 DEF Fills, Resting
    <3> QED
      BY <1>1, <3>1
  <2> QED
    BY <1>3, <2>1, <2>2
<1>4. CASE ~Exchange
  <2>1. left' = left
    BY <1>4, ExchangeAlone
  <2> QED
    BY <1>1, <2>1
<1> QED
  BY <1>2, <1>3, <1>4 DEF Exchange

-----------------------------------------------------------------------------
(* What keeps the lines true                                               *)

\* The jobs there were keep their kind, and those of a snapshot its orders.
KeepsOrders ==
  \A j \in DOMAIN jobs :
    /\ j \in DOMAIN jobs'
    /\ jobs'[j].kind = jobs[j].kind
    /\ jobs[j].kind \in RestoreKinds => OrdersOf(j)' = OrdersOf(j)

LEMMA OrdersKept ==
  ASSUME ConstantsAssumption, QInv, SnapshotsFit, Next
  PROVE  KeepsOrders
<1>1. KeepsJobs /\ KeepsSnapshots
  BY JobsStep, SnapshotsKept DEF QInv, MovesJobs
<1>2. ASSUME NEW j \in DOMAIN jobs, jobs[j].kind \in RestoreKinds
      PROVE  OrdersOf(j)' = OrdersOf(j)
  <2>1. jobs'[j].snap = jobs[j].snap /\ jobs[j].snap \in DOMAIN snapshots
    BY <1>1, <1>2 DEF KeepsJobs, SnapshotsFit
  <2>2. snapshots'[jobs[j].snap] = snapshots[jobs[j].snap]
    BY <1>1, <2>1 DEF KeepsSnapshots
  <2> QED
    BY <2>1, <2>2 DEF OrdersOf
<1> QED
  BY <1>1, <1>2 DEF KeepsOrders, KeepsJobs

\* The posts stay where they were, and so do the lines they count from or more.
LEMMA PostsKept ==
  ASSUME LInv, KeepsOrders, UNCHANGED <<sent, placed>>,
         \A j \in DOMAIN jobs : IsRestore(j) => /\ Len(lines'[j]) \in Nat
                                                /\ Len(lines'[j]) >= Len(lines[j])
  PROVE  PostsAreOfLines'
<1> SUFFICES ASSUME NEW i \in sent \cup placed
             PROVE  /\ i.job \in DOMAIN jobs'
                    /\ IsRestore(i.job)'
                    /\ i.pos \in 1..Len(lines'[i.job]) + 1
                    /\ i = [root |-> OrdersOf(i.job)'[i.pos].id.root, job |-> i.job, pos |-> i.pos]
  BY DEF PostsAreOfLines, LInv, Tells
<1>1. /\ i.job \in DOMAIN jobs
      /\ IsRestore(i.job)
      /\ i.pos \in 1..Len(lines[i.job]) + 1
      /\ i = [root |-> OrdersOf(i.job)[i.pos].id.root, job |-> i.job, pos |-> i.pos]
  BY DEF LInv, Tells, PostsAreOfLines
<1>2. jobs[i.job].kind \in RestoreKinds
  BY <1>1 DEF IsRestore, RestoreKinds
<1>3. OrdersOf(i.job)' = OrdersOf(i.job) /\ IsRestore(i.job)' /\ i.job \in DOMAIN jobs'
  BY <1>1, <1>2 DEF KeepsOrders, IsRestore
<1>4. Len(lines[i.job]) \in Nat
  BY <1>1 DEF LInv, Tells, LinesFit, QInv, Shapes
<1>5. i.pos \in 1..Len(lines'[i.job]) + 1
  BY <1>1, <1>4
<1> QED
  BY <1>1, <1>3, <1>5

\* Nothing of job j moved.
SamePosts(j) ==
  \A i : i.job = j => /\ i \in sent' <=> i \in sent
                      /\ i \in placed' <=> i \in placed

LEMMA TellsKept ==
  ASSUME LInv, NEW j \in DOMAIN jobs, lines'[j] = lines[j], SamePosts(j)
  PROVE  TellsPosts(j)'
<1>1. TellsPosts(j)
  BY DEF LInv, Tells, LinesTell
<1>2. \A n : NoPost(j, n) => NoPost(j, n)'
  BY DEF NoPost, SamePosts
<1> QED
  BY <1>1, <1>2 DEF TellsPosts, SamePosts

LEMMA EndKept ==
  ASSUME LInv, KeepsOrders, NEW j \in DOMAIN jobs, lines'[j] = lines[j], SamePosts(j),
         jobs'[j].state = "queued" => jobs[j].state = "queued",
         jobs'[j].state = "done" /\ IsRestore(j) =>
           jobs[j].state = "done" \/ Len(lines[j]) = Len(OrdersOf(j))
  PROVE  TellsEnd(j)'
<1>1. TellsEnd(j)
  BY DEF LInv, Tells, JobsTell
<1>2. IsRestore(j)' => IsRestore(j) /\ OrdersOf(j)' = OrdersOf(j)
  BY DEF KeepsOrders, IsRestore, RestoreKinds
<1>3. (\A i \in sent \cup placed : i.job # j) => \A i \in sent' \cup placed' : i.job # j
  BY DEF SamePosts
<1> QED
  BY <1>1, <1>2, <1>3 DEF TellsEnd

\* A thread that stays where it is, in a job of which nothing moved.
LEMMA AtWorkKept ==
  ASSUME LInv, KeepsOrders, NEW p \in Proc, Busy(p), thread'[p] = thread[p],
         lines'[thread[p].job] = lines[thread[p].job],
         jobs'[thread[p].job].state \notin {"queued", "done"},
         SamePosts(thread[p].job)
  PROVE  AtWork(p)'
<1>0. PICK j, n : j = thread[p].job /\ n = thread[p].next
  OBVIOUS
<1>1. j \in DOMAIN jobs /\ AtWork(p)
  BY <1>0 DEF LInv, Tells, QInv, ThreadsHaveJobs, ThreadsAtWork
<1>2. IsRestore(j)' <=> IsRestore(j)
  BY <1>1 DEF KeepsOrders, IsRestore
<1>3. IsRestore(j) => OrdersOf(j)' = OrdersOf(j)
  BY <1>1 DEF KeepsOrders, IsRestore, RestoreKinds
<1>4. NoPost(j, n) => NoPost(j, n)'
  BY <1>0 DEF NoPost, SamePosts
<1>5. (\A i \in sent \cup placed : i.job # j) => \A i \in sent' \cup placed' : i.job # j
  BY <1>0 DEF SamePosts
<1>6. thread[p].at = "placed" => Posting(p)' \in placed'
  <2> SUFFICES ASSUME thread[p].at = "placed"
               PROVE  Posting(p)' \in placed'
    OBVIOUS
  <2>1. IsRestore(j) /\ Posting(p) \in placed
    BY <1>0, <1>1 DEF AtWork, Places1, Posts1, Placing
  <2>2. Posting(p)' = Posting(p)
    BY <1>0, <1>3, <2>1 DEF Posting, EntryOf, JobOf, OrdersOf
  <2>3. Posting(p).job = j
    BY <1>0 DEF Posting
  <2> QED
    BY <1>0, <2>1, <2>2, <2>3 DEF SamePosts
<1>7. /\ jobs'[j].state \notin {"queued", "done"} /\ lines'[j] = lines[j]
      /\ thread'[p] = thread[p] /\ thread'[p].job = j /\ thread'[p].next = n
  BY <1>0
<1> QED
  BY <1>0, <1>1, <1>2, <1>3, <1>4, <1>5, <1>6, <1>7 DEF AtWork

\* Thread p moves, or starts on a job that no other has; the others stay.
LEMMA ThreadsKept ==
  ASSUME LInv, KeepsOrders, NEW p \in Proc,
         \A q \in Proc : q # p => thread'[q] = thread[q],
         \A q \in Proc : q # p /\ Busy(q) =>
           /\ lines'[thread[q].job] = lines[thread[q].job]
           /\ jobs'[thread[q].job].state \notin {"queued", "done"}
           /\ SamePosts(thread[q].job)
           /\ Busy(p)' => thread[q].job # thread'[p].job,
         Busy(p)' => AtWork(p)'
  PROVE  ThreadsAtWork'
<1>1. ASSUME NEW q \in Proc, q # p, Busy(q)'
      PROVE  Busy(q) /\ AtWork(q)' /\ thread'[q] = thread[q]
  <2>1. thread'[q] = thread[q] /\ Busy(q)
    BY <1>1 DEF Busy
  <2> QED
    BY <1>1, <2>1, AtWorkKept
<1>2. ASSUME NEW q \in Proc, NEW r \in Proc, Busy(q)', Busy(r)',
             thread'[q].job = thread'[r].job
      PROVE  q = r
  <2>1. CASE q # p /\ r # p
    <3>1. Busy(q) /\ Busy(r) /\ thread[q].job = thread[r].job
      BY <1>1, <1>2, <2>1
    <3> QED
      BY <3>1 DEF LInv, Tells, ThreadsAtWork
  <2>2. CASE q = p \/ r = p
    BY <1>1, <1>2, <2>2
  <2> QED
    BY <2>1, <2>2
<1> QED
  BY <1>1, <1>2 DEF ThreadsAtWork

\* No thread has the job of another.
LEMMA JobsApart ==
  ASSUME LInv, NEW p \in Proc, NEW q \in Proc, Busy(p), Busy(q), q # p
  PROVE  /\ thread[q].job # thread[p].job
         /\ thread[q].job \in DOMAIN jobs
         /\ jobs[thread[q].job].state \notin {"queued", "done"}
BY DEF LInv, Tells, QInv, ThreadsHaveJobs, ThreadsAtWork, AtWork

-----------------------------------------------------------------------------
(* The steps, by what they do to the lines                                 *)

\* The steps of the runs, of the clock, and of what rests: no line and no post moves.
LEMMA QuietTells ==
  ASSUME LInv, KeepsOrders, UNCHANGED <<lines, thread, sent, placed>>,
         Len(jobs') = Len(jobs), DOMAIN jobs' = DOMAIN jobs,
         \A j \in DOMAIN jobs :
           jobs'[j].state \in {"queued", "done"} => jobs'[j].state = jobs[j].state
  PROVE  Tells'
<1>1. \A j \in DOMAIN jobs : lines'[j] = lines[j] /\ SamePosts(j)
  BY DEF SamePosts
<1>2. LinesFit'
  BY DEF LInv, Tells, LinesFit
<1>3. PostsAreOfLines'
  <2>1. \A j \in DOMAIN jobs : Len(lines'[j]) \in Nat /\ Len(lines'[j]) >= Len(lines[j])
    BY DEF LInv, Tells, LinesFit, QInv, Shapes
  <2> QED
    BY <2>1, PostsKept
<1>4. LinesTell'
  BY <1>1, TellsKept DEF LinesTell
<1>5. JobsTell'
  BY <1>1, EndKept DEF JobsTell
<1>6. ASSUME NEW p \in Proc, Busy(p)
      PROVE  AtWork(p)'
  <2>1. thread[p].job \in DOMAIN jobs /\ jobs[thread[p].job].state \notin {"queued", "done"}
    BY <1>6 DEF LInv, Tells, QInv, ThreadsHaveJobs, ThreadsAtWork, AtWork
  <2> QED
    BY <1>1, <1>6, <2>1, AtWorkKept
<1>7. ThreadsAtWork'
  <2>1. \A p \in Proc : Busy(p)' <=> Busy(p)
    BY DEF Busy
  <2> QED
    BY <1>6, <2>1 DEF LInv, Tells, ThreadsAtWork
<1> QED
  BY <1>2, <1>3, <1>4, <1>5, <1>7 DEF Tells

\* A job that is queued has no line, no post and no thread.
LEMMA EnqueueTells ==
  ASSUME LInv, KeepsOrders, NEW kind \in Kinds, NEW s \in Nat,
         NEW managed \in SUBSET Market, NEW retired \in SUBSET Market,
         Enqueue(kind, s, managed, retired)
  PROVE  Tells'
<1>0. PICK n : n = Len(jobs) + 1
  OBVIOUS
<1>1. jobs \in Seq(JobRow) /\ lines \in Seq(Seq(Line)) /\ Len(lines) = Len(jobs)
  BY DEF LInv, Tells, LinesFit, QInv, Shapes
<1>2. /\ MovesJobs
      /\ Len(jobs') = n
      /\ \A j \in 1..Len(jobs) : jobs'[j] = jobs[j]
      /\ jobs'[n].state = "queued"
  BY <1>0, <1>1, EnqueueMoves
<1>3. lines' = Append(lines, <<>>) /\ UNCHANGED <<thread, sent, placed>>
  BY DEF Enqueue, exchange
<1>4. <<>> \in Seq(Line)
  OBVIOUS
<1>5. /\ lines' \in Seq(Seq(Line)) /\ Len(lines') = n
      /\ lines'[n] = <<>>
      /\ \A j \in 1..Len(jobs) : lines'[j] = lines[j]
  BY <1>0, <1>1, <1>3, <1>4
<1>6. /\ DOMAIN jobs = 1..Len(jobs) /\ Len(jobs) \in Nat
      /\ DOMAIN jobs' = DOMAIN jobs \cup {n}
  BY <1>0, <1>1, <1>2 DEF MovesJobs
<1>7. LinesFit'
  BY <1>2, <1>3, <1>5 DEF LInv, Tells, LinesFit
<1>8. PostsAreOfLines'
  <2>1. \A j \in DOMAIN jobs : Len(lines'[j]) \in Nat /\ Len(lines'[j]) >= Len(lines[j])
    BY <1>1, <1>5, <1>6
  <2> QED
    BY <1>3, <2>1, PostsKept
<1>9. \A i \in sent \cup placed : i.job # n
  BY <1>0, <1>6 DEF LInv, Tells, PostsAreOfLines
<1>10. \A j \in DOMAIN jobs : SamePosts(j) /\ lines'[j] = lines[j] /\ jobs'[j] = jobs[j]
  BY <1>2, <1>3, <1>5, <1>6 DEF SamePosts
<1>11. LinesTell'
  <2>1. DOMAIN lines'[n] = {}
    BY <1>5
  <2>2. TellsPosts(n)'
    BY <2>1 DEF TellsPosts
  <2> QED
    BY <1>6, <1>10, <2>2, TellsKept DEF LinesTell
<1>12. JobsTell'
  <2>1. TellsEnd(n)'
    BY <1>2, <1>3, <1>5, <1>9 DEF TellsEnd
  <2> QED
    BY <1>6, <1>10, <2>1, EndKept DEF JobsTell
<1>13. ThreadsAtWork'
  <2>1. ASSUME NEW p \in Proc, Busy(p)
        PROVE  AtWork(p)'
    <3>1. thread[p].job \in DOMAIN jobs /\ jobs[thread[p].job].state \notin {"queued", "done"}
      BY <2>1 DEF LInv, Tells, QInv, ThreadsHaveJobs, ThreadsAtWork, AtWork
    <3> QED
      BY <1>3, <1>10, <2>1, <3>1, AtWorkKept
  <2>2. \A p \in Proc : Busy(p)' <=> Busy(p)
    BY <1>3 DEF Busy
  <2> QED
    BY <1>3, <2>1, <2>2 DEF LInv, Tells, ThreadsAtWork
<1> QED
  BY <1>7, <1>8, <1>11, <1>12, <1>13 DEF Tells

\* A thread ends or dies; its job, if it still ran, ends the way the thread did.
LEMMA IdleTells ==
  ASSUME LInv, KeepsOrders, NEW p \in Proc,
         thread' = [thread EXCEPT ![p] = IdleThread],
         UNCHANGED <<lines, sent, placed>>,
         Len(jobs') = Len(jobs), DOMAIN jobs' = DOMAIN jobs,
         \A k \in DOMAIN jobs : k # thread[p].job => jobs'[k] = jobs[k],
         jobs' # jobs => /\ thread[p].at \in {"done", "failed"}
                         /\ jobs'[thread[p].job] # jobs[thread[p].job] =>
                              jobs'[thread[p].job].state = thread[p].at
  PROVE  Tells'
<1>1. \A j \in DOMAIN jobs : lines'[j] = lines[j] /\ SamePosts(j)
  BY DEF SamePosts
<1>2. thread \in [Proc -> ThreadRow] /\ IdleThread \in ThreadRow /\ IdleThread.at = "idle"
  BY DEF LInv, Tells, LinesFit, IdleThread, ThreadRow, ThreadStage
<1>3. LinesFit'
  BY <1>2 DEF LInv, Tells, LinesFit
<1>4. PostsAreOfLines'
  <2>1. \A j \in DOMAIN jobs : Len(lines'[j]) \in Nat /\ Len(lines'[j]) >= Len(lines[j])
    BY DEF LInv, Tells, LinesFit, QInv, Shapes
  <2> QED
    BY <2>1, PostsKept
<1>5. LinesTell'
  BY <1>1, TellsKept DEF LinesTell
<1>6. ASSUME NEW j \in DOMAIN jobs
      PROVE  TellsEnd(j)'
  <2>1. CASE jobs'[j] = jobs[j]
    BY <1>1, <2>1, EndKept
  <2>2. CASE jobs'[j] # jobs[j]
    <3>1. j = thread[p].job /\ jobs' # jobs
      BY <2>2
    <3>2. jobs'[j].state = thread[p].at /\ thread[p].at \in {"done", "failed"}
      BY <2>2, <3>1
    <3>3. AtWork(p)
      BY <3>2 DEF LInv, Tells, ThreadsAtWork, Busy
    <3>4. jobs'[j].state = "done" /\ IsRestore(j) => Len(lines[j]) = Len(OrdersOf(j))
      BY <3>1, <3>2, <3>3 DEF AtWork
    <3> QED
      BY <1>1, <3>2, <3>4, EndKept
  <2> QED
    BY <2>1, <2>2
<1>7. JobsTell'
  BY <1>6 DEF JobsTell
<1>8. /\ ~Busy(p)'
      /\ \A q \in Proc : q # p => thread'[q] = thread[q]
  BY <1>2 DEF Busy
<1>9. ASSUME NEW q \in Proc, q # p, Busy(q)
      PROVE  /\ lines'[thread[q].job] = lines[thread[q].job]
             /\ jobs'[thread[q].job].state \notin {"queued", "done"}
             /\ SamePosts(thread[q].job)
  <2>1. thread[q].job \in DOMAIN jobs /\ jobs[thread[q].job].state \notin {"queued", "done"}
    BY <1>9 DEF LInv, Tells, QInv, ThreadsHaveJobs, ThreadsAtWork, AtWork
  <2>2. jobs'[thread[q].job] = jobs[thread[q].job]
    <3>1. CASE jobs' = jobs
      BY <3>1
    <3>2. CASE jobs' # jobs
      <4>1. Busy(p)
        BY <3>2 DEF Busy
      <4> QED
        BY <1>9, <2>1, <4>1, JobsApart
    <3> QED
      BY <3>1, <3>2
  <2> QED
    BY <1>1, <2>1, <2>2
<1>10. ThreadsAtWork'
  BY <1>8, <1>9, ThreadsKept
<1> QED
  BY <1>3, <1>4, <1>5, <1>7, <1>10 DEF Tells

\* The job a thread starts on waited, so nothing of it happened and no other thread has it.
LEMMA ClaimTells ==
  ASSUME LInv, KeepsOrders, NEW p \in Proc, Claim(p)
  PROVE  Tells'
<1>1. PICK j \in DOMAIN jobs :
        /\ jobs[j].state = "queued"
        /\ jobs' = [jobs EXCEPT ![j].state = "running"]
        /\ thread' = [thread EXCEPT ![p] = [IdleThread EXCEPT !.at = "begin", !.job = j]]
  BY DEF Claim
<1>2. /\ jobs \in Seq(JobRow)
      /\ thread \in [Proc -> ThreadRow]
      /\ lines \in Seq(Seq(Line)) /\ Len(lines) = Len(jobs)
  BY DEF LInv, Tells, LinesFit, QInv, Shapes
<1>3. /\ DOMAIN jobs' = DOMAIN jobs /\ Len(jobs') = Len(jobs)
      /\ jobs'[j].state = "running"
      /\ \A k \in DOMAIN jobs : k # j => jobs'[k] = jobs[k]
  <2>1. MovesJobs /\ DOMAIN jobs' = DOMAIN jobs /\ jobs'[j].state = "running"
        /\ \A k \in DOMAIN jobs : k # j => jobs'[k] = jobs[k]
    BY <1>1, <1>2, StateMoves DEF JobState, Ended
  <2> QED
    BY <1>2, <2>1 DEF MovesJobs
<1>4. UNCHANGED <<lines, sent, placed>>
  BY DEF Claim, exchange
<1>5. \A k \in DOMAIN jobs : lines'[k] = lines[k] /\ SamePosts(k)
  BY <1>4 DEF SamePosts
<1>6. j \in Nat
  BY <1>1, <1>2
<1>7. /\ thread'[p].at = "begin" /\ thread'[p].job = j
      /\ thread' \in [Proc -> ThreadRow]
      /\ \A q \in Proc : q # p => thread'[q] = thread[q]
  <2>1. PICK row : row = [IdleThread EXCEPT !.at = "begin", !.job = j]
    OBVIOUS
  <2>2. row = [at |-> "begin", job |-> j, plan |-> <<>>, next |-> 0, unanswered |-> 0]
    BY <2>1 DEF IdleThread
  <2>3. <<>> \in Seq(Action)
    OBVIOUS
  <2>4. row \in ThreadRow /\ row.at = "begin" /\ row.job = j
    BY <1>6, <2>2, <2>3 DEF ThreadRow, ThreadStage
  <2>5. thread' = [thread EXCEPT ![p] = row]
    BY <1>1, <2>1
  <2> QED
    BY <1>2, <2>4, <2>5
<1>8. LinesFit'
  BY <1>2, <1>3, <1>4, <1>7 DEF LinesFit
<1>9. PostsAreOfLines'
  <2>1. \A k \in DOMAIN jobs : Len(lines'[k]) \in Nat /\ Len(lines'[k]) >= Len(lines[k])
    BY <1>2, <1>4
  <2> QED
    BY <1>4, <2>1, PostsKept
<1>10. LinesTell'
  BY <1>3, <1>5, TellsKept DEF LinesTell
<1>11. \A k \in DOMAIN jobs :
         jobs'[k].state \in {"queued", "done"} => jobs'[k].state = jobs[k].state
  BY <1>3
<1>12. JobsTell'
  BY <1>3, <1>5, <1>11, EndKept DEF JobsTell
<1>13. AtWork(p)'
  <2>1. lines[j] = <<>> /\ \A i \in sent \cup placed : i.job # j
    BY <1>1 DEF LInv, Tells, JobsTell, TellsEnd
  <2> QED
    BY <1>3, <1>4, <1>7, <2>1 DEF AtWork, Places1, Posts1, Placing
<1>14. ASSUME NEW q \in Proc, q # p, Busy(q)
       PROVE  /\ lines'[thread[q].job] = lines[thread[q].job]
              /\ jobs'[thread[q].job].state \notin {"queued", "done"}
              /\ SamePosts(thread[q].job)
              /\ thread[q].job # thread'[p].job
  <2>1. thread[q].job \in DOMAIN jobs /\ jobs[thread[q].job].state \notin {"queued", "done"}
    BY <1>14 DEF LInv, Tells, QInv, ThreadsHaveJobs, ThreadsAtWork, AtWork
  <2> QED
    BY <1>1, <1>3, <1>5, <1>7, <2>1
<1>15. ThreadsAtWork'
  BY <1>7, <1>13, <1>14, ThreadsKept
<1> QED
  BY <1>8, <1>9, <1>10, <1>12, <1>15 DEF Tells

\* A thread goes from one stage of its job to the next.
MovesOn(p) ==
  /\ Busy(p) /\ Busy(p)'
  /\ thread' \in [Proc -> ThreadRow]
  /\ \A q \in Proc : q # p => thread'[q] = thread[q]
  /\ thread'[p].job = thread[p].job

\* It stores no line and posts nothing.
LEMMA MovesOnTells ==
  ASSUME LInv, KeepsOrders, NEW p \in Proc, MovesOn(p),
         UNCHANGED <<jobs, lines, sent, placed>>, AtWork(p)'
  PROVE  Tells'
<1>1. \A k \in DOMAIN jobs : lines'[k] = lines[k] /\ SamePosts(k)
  BY DEF SamePosts
<1>2. LinesFit'
  BY DEF LInv, Tells, LinesFit, MovesOn
<1>3. PostsAreOfLines'
  <2>1. \A k \in DOMAIN jobs : Len(lines'[k]) \in Nat /\ Len(lines'[k]) >= Len(lines[k])
    BY DEF LInv, Tells, LinesFit, QInv, Shapes
  <2> QED
    BY <2>1, PostsKept
<1>4. LinesTell'
  BY <1>1, TellsKept DEF LinesTell
<1>5. JobsTell'
  BY <1>1, EndKept DEF JobsTell
<1>6. ThreadsAtWork'
  <2>1. \A q \in Proc : q # p /\ Busy(q) =>
          /\ thread[q].job # thread'[p].job
          /\ thread[q].job \in DOMAIN jobs
          /\ jobs[thread[q].job].state \notin {"queued", "done"}
    BY JobsApart DEF MovesOn
  <2> QED
    BY <1>1, <2>1, ThreadsKept DEF MovesOn
<1> QED
  BY <1>2, <1>3, <1>4, <1>5, <1>6 DEF Tells

\* It stores lines of its job, those of a restore after the ones there were.
LEMMA StoresTells ==
  ASSUME LInv, KeepsOrders, NEW p \in Proc, MovesOn(p),
         NEW ls \in Seq(Line), lines' = [lines EXCEPT ![thread[p].job] = ls],
         UNCHANGED <<jobs, sent, placed>>, AtWork(p)',
         IsRestore(thread[p].job) => Len(ls) >= Len(lines[thread[p].job]),
         \A n \in DOMAIN ls :
           /\ ls[n] = "placed" => /\ \E i \in placed : i.job = thread[p].job /\ i.pos = n
                                  /\ \A i \in sent : ~(i.job = thread[p].job /\ i.pos = n)
           /\ ls[n] \notin {"placed", "may_rest"} => NoPost(thread[p].job, n)
  PROVE  Tells'
<1>1. PICK j : j = thread[p].job
  OBVIOUS
<1>2. /\ jobs \in Seq(JobRow)
      /\ lines \in Seq(Seq(Line)) /\ Len(lines) = Len(jobs)
      /\ j \in DOMAIN jobs /\ jobs[j].state \notin {"queued", "done"}
  BY <1>1 DEF LInv, Tells, LinesFit, QInv, Shapes, MovesOn, ThreadsHaveJobs, ThreadsAtWork, AtWork
<1>3. /\ lines' \in Seq(Seq(Line)) /\ Len(lines') = Len(jobs)
      /\ lines'[j] = ls
      /\ \A k \in DOMAIN jobs : k # j => lines'[k] = lines[k]
  BY <1>1, <1>2
<1>4. \A k : SamePosts(k)
  BY DEF SamePosts
<1>5. LinesFit'
  BY <1>3 DEF LinesFit, MovesOn
<1>6. PostsAreOfLines'
  <2>1. \A k \in DOMAIN jobs : Len(lines[k]) \in Nat /\ Len(lines'[k]) \in Nat
    BY <1>2, <1>3
  <2>2. \A k \in DOMAIN jobs : IsRestore(k) => Len(lines'[k]) >= Len(lines[k])
    BY <1>1, <1>2, <1>3, <2>1
  <2> QED
    BY <2>1, <2>2, PostsKept
<1>7. TellsPosts(j)'
  BY <1>1, <1>3 DEF TellsPosts, NoPost
<1>8. LinesTell'
  BY <1>3, <1>4, <1>7, TellsKept DEF LinesTell
<1>9. JobsTell'
  <2>1. TellsEnd(j)'
    BY <1>2 DEF TellsEnd
  <2>2. \A k \in DOMAIN jobs : k # j => TellsEnd(k)'
    BY <1>3, <1>4, EndKept
  <2> QED
    BY <2>1, <2>2 DEF JobsTell
<1>10. ThreadsAtWork'
  <2>1. \A q \in Proc : q # p /\ Busy(q) =>
          /\ thread[q].job # thread'[p].job
          /\ thread[q].job \in DOMAIN jobs
          /\ jobs[thread[q].job].state \notin {"queued", "done"}
    BY JobsApart DEF MovesOn
  <2>2. thread'[p].job = j
    BY <1>1 DEF MovesOn
  <2> QED
    BY <1>3, <1>4, <2>1, <2>2, ThreadsKept DEF MovesOn
<1> QED
  BY <1>5, <1>6, <1>8, <1>9, <1>10 DEF Tells

\* It posts the order in hand, the first to be posted at its place.
LEMMA PostTells ==
  ASSUME LInv, KeepsOrders, NEW p \in Proc, MovesOn(p),
         thread[p].at = "sending", thread'[p].at = "out",
         thread'[p].plan = thread[p].plan, thread'[p].next = thread[p].next,
         sent' = sent \cup {Posting(p)}, UNCHANGED <<jobs, lines, placed>>
  PROVE  Tells'
<1>1. PICK j, n, new : j = thread[p].job /\ n = thread[p].next /\ new = Posting(p)
  OBVIOUS
<1>2. /\ j \in DOMAIN jobs /\ jobs[j].state \notin {"queued", "done"}
      /\ AtWork(p)
  BY <1>1 DEF LInv, Tells, QInv, MovesOn, ThreadsHaveJobs, ThreadsAtWork, AtWork
<1>3. /\ IsRestore(j)
      /\ n = Len(lines[j]) + 1
      /\ n <= Len(thread[p].plan)
      /\ Len(thread[p].plan) = Len(OrdersOf(j))
      /\ NoPost(j, n)
  BY <1>1, <1>2 DEF AtWork, Places1, Posts1
<1>4. new = [root |-> OrdersOf(j)[n].id.root, job |-> j, pos |-> n]
  BY <1>1 DEF Posting, EntryOf, JobOf, OrdersOf
<1>5. new.job = j /\ new.pos = n
  BY <1>4
<1>6. /\ lines \in Seq(Seq(Line)) /\ Len(lines) = Len(jobs) /\ jobs \in Seq(JobRow)
      /\ Len(lines[j]) \in Nat /\ DOMAIN lines[j] = 1..Len(lines[j])
  BY <1>2 DEF LInv, Tells, LinesFit, QInv, Shapes
<1>7. LinesFit'
  BY DEF LInv, Tells, LinesFit, MovesOn
<1>8. OrdersOf(j)' = OrdersOf(j) /\ \A k : IsRestore(k)' <=> IsRestore(k)
  BY <1>2, <1>3 DEF KeepsOrders, IsRestore, RestoreKinds
<1>9. PostsAreOfLines'
  <2>1. new \notin sent \cup placed
    BY <1>3, <1>5 DEF NoPost
  <2>2. sent' \cap placed' = {}
    BY <1>1, <2>1 DEF LInv, Tells, PostsAreOfLines
  <2>3. ASSUME NEW i \in sent \cup placed
        PROVE  /\ i.job \in DOMAIN jobs'
               /\ IsRestore(i.job)'
               /\ i.pos \in 1..Len(lines'[i.job]) + 1
               /\ i = [root |-> OrdersOf(i.job)'[i.pos].id.root, job |-> i.job, pos |-> i.pos]
    <3>1. /\ i.job \in DOMAIN jobs
          /\ IsRestore(i.job)
          /\ i.pos \in 1..Len(lines[i.job]) + 1
          /\ i = [root |-> OrdersOf(i.job)[i.pos].id.root, job |-> i.job, pos |-> i.pos]
      BY DEF LInv, Tells, PostsAreOfLines
    <3>2. OrdersOf(i.job)' = OrdersOf(i.job)
      BY <3>1 DEF KeepsOrders, IsRestore, RestoreKinds
    <3> QED
      BY <1>8, <3>1, <3>2
  <2>4. /\ new.job \in DOMAIN jobs'
        /\ IsRestore(new.job)'
        /\ new.pos \in 1..Len(lines'[new.job]) + 1
        /\ new = [root |-> OrdersOf(new.job)'[new.pos].id.root, job |-> new.job, pos |-> new.pos]
    BY <1>2, <1>3, <1>4, <1>5, <1>6, <1>8
  <2>5. \A i \in sent' \cup placed' : i \in sent \cup placed \/ i = new
    BY <1>1
  <2> QED
    BY <2>2, <2>3, <2>4, <2>5 DEF PostsAreOfLines
<1>10. \A k : k # j => SamePosts(k)
  BY <1>1, <1>5 DEF SamePosts
<1>11. TellsPosts(j)'
  <2>1. n \notin DOMAIN lines[j]
    BY <1>3, <1>6
  <2>2. TellsPosts(j)
    BY <1>2 DEF LInv, Tells, LinesTell
  <2> QED
    BY <1>1, <1>5, <2>1, <2>2 DEF TellsPosts, NoPost
<1>12. LinesTell'
  BY <1>10, <1>11, TellsKept DEF LinesTell
<1>13. JobsTell'
  <2>1. TellsEnd(j)'
    BY <1>2 DEF TellsEnd
  <2> QED
    BY <1>10, <2>1, EndKept DEF JobsTell
<1>14. AtWork(p)'
  <2>1. /\ thread'[p].job = j /\ thread'[p].next = n /\ thread'[p].plan = thread[p].plan
        /\ thread'[p].at = "out" /\ jobs' = jobs /\ lines' = lines
    BY <1>1 DEF MovesOn
  <2>2. n <= Len(thread[p].plan) + 1
    BY <1>3, <1>6
  <2> QED
    BY <1>2, <1>3, <1>8, <2>1, <2>2 DEF AtWork, Places1, Posts1, Placing
<1>15. ThreadsAtWork'
  <2>1. \A q \in Proc : q # p /\ Busy(q) =>
          /\ thread[q].job # thread'[p].job
          /\ thread[q].job # j
          /\ thread[q].job \in DOMAIN jobs
          /\ jobs[thread[q].job].state \notin {"queued", "done"}
    BY <1>1, JobsApart DEF MovesOn
  <2> QED
    BY <1>10, <1>14, <2>1, ThreadsKept DEF MovesOn
<1> QED
  BY <1>7, <1>9, <1>12, <1>13, <1>15 DEF Tells

\* The exchange decides a post: the order in hand of its restore, or one whose line says that
\* nobody knows.
LEMMA DecideTells ==
  ASSUME LInv, KeepsOrders, NEW i \in sent, Accept(i) \/ Refuse(i)
  PROVE  Tells'
<1>1. /\ UNCHANGED <<jobs, snapshots, lines, thread>>
      /\ sent' = sent \ {i}
      /\ placed' = placed \/ placed' = placed \cup {i}
  BY DEF Accept, Refuse, db
<1>2. LinesFit'
  BY <1>1 DEF LInv, Tells, LinesFit
<1>3. sent' \cup placed' \subseteq sent \cup placed /\ sent' \cap placed' = {}
      /\ sent' \subseteq sent /\ placed \subseteq placed'
  BY <1>1 DEF LInv, Tells, PostsAreOfLines
<1>4. PostsAreOfLines'
  <2>1. \A k : (IsRestore(k)' <=> IsRestore(k)) /\ OrdersOf(k)' = OrdersOf(k)
    BY <1>1 DEF IsRestore, OrdersOf
  <2> QED
    BY <1>1, <1>3, <2>1 DEF LInv, Tells, PostsAreOfLines
<1>5. \A j, n : NoPost(j, n) => NoPost(j, n)'
  BY <1>3 DEF NoPost
<1>6. ASSUME NEW j \in DOMAIN jobs
      PROVE  TellsPosts(j)' /\ TellsEnd(j)'
  <2>1. TellsPosts(j) /\ TellsEnd(j)
    BY DEF LInv, Tells, LinesTell, JobsTell
  <2>2. TellsPosts(j)'
    BY <1>1, <1>3, <1>5, <2>1 DEF TellsPosts
  <2>3. TellsEnd(j)'
    BY <1>1, <1>3, <2>1 DEF TellsEnd, IsRestore, OrdersOf
  <2> QED
    BY <2>2, <2>3
<1>7. LinesTell' /\ JobsTell'
  BY <1>1, <1>6 DEF LinesTell, JobsTell
<1>8. ASSUME NEW p \in Proc, AtWork(p)
      PROVE  AtWork(p)'
  <2>1. Posting(p)' = Posting(p) /\ (IsRestore(thread[p].job)' <=> IsRestore(thread[p].job))
        /\ OrdersOf(thread[p].job)' = OrdersOf(thread[p].job)
    BY <1>1 DEF Posting, EntryOf, JobOf, IsRestore, OrdersOf
  <2>2. NoPost(thread[p].job, thread[p].next) => NoPost(thread[p].job, thread[p].next)'
    BY <1>1, <1>3 DEF NoPost
  <2> QED
    BY <1>1, <1>3, <1>8, <2>1, <2>2 DEF AtWork
<1>9. ThreadsAtWork'
  BY <1>1, <1>8 DEF LInv, Tells, ThreadsAtWork, Busy
<1> QED
  BY <1>2, <1>4, <1>7, <1>9 DEF Tells

LEMMA GoesMoves ==
  ASSUME LInv, NEW p \in Proc, Busy(p), NEW stage \in ThreadStage \ {"idle"}, Goes(p, stage)
  PROVE  /\ MovesOn(p)
         /\ thread'[p].at = stage
         /\ thread'[p].plan = thread[p].plan
         /\ thread'[p].next = thread[p].next
<1>1. thread \in [Proc -> ThreadRow] /\ thread' = [thread EXCEPT ![p].at = stage]
  BY DEF LInv, Tells, LinesFit, Goes
<1>2. PICK row : row = [thread[p] EXCEPT !.at = stage]
  OBVIOUS
<1>3. thread' = [thread EXCEPT ![p] = row] /\ thread[p] \in ThreadRow
  BY <1>1, <1>2
<1>4. /\ row \in ThreadRow /\ row.at = stage /\ row.job = thread[p].job
      /\ row.plan = thread[p].plan /\ row.next = thread[p].next
  BY <1>2, <1>3 DEF ThreadRow
<1>5. thread'[p] = row /\ thread' \in [Proc -> ThreadRow]
      /\ \A q \in Proc : q # p => thread'[q] = thread[q]
  BY <1>1, <1>3, <1>4
<1> QED
  BY <1>4, <1>5 DEF MovesOn, Busy

\* A step to another stage, where what is done so far allows it.
LEMMA GoesTells ==
  ASSUME LInv, KeepsOrders, NEW p \in Proc, Busy(p),
         NEW stage \in ThreadStage \ {"idle", "begin"}, Goes(p, stage),
         UNCHANGED <<jobs, lines, sent, placed>>,
         stage \in Places1 => thread[p].at \in Places1,
         stage \in Posts1 => thread[p].next <= Len(thread[p].plan),
         stage \in {"line", "sending", "rejected", "unsent"} =>
           NoPost(thread[p].job, thread[p].next),
         stage = "placed" => Posting(p) \in placed,
         stage = "done" /\ IsRestore(thread[p].job) =>
           Len(lines[thread[p].job]) = Len(OrdersOf(thread[p].job))
  PROVE  Tells'
<1>1. PICK j, n : j = thread[p].job /\ n = thread[p].next
  OBVIOUS
<1>2. /\ MovesOn(p) /\ thread'[p].at = stage /\ thread'[p].job = j /\ thread'[p].next = n
      /\ thread'[p].plan = thread[p].plan
  BY <1>1, GoesMoves DEF MovesOn
<1>3. j \in DOMAIN jobs /\ AtWork(p)
  BY <1>1 DEF LInv, Tells, QInv, ThreadsHaveJobs, ThreadsAtWork
<1>4. (IsRestore(j)' <=> IsRestore(j)) /\ (IsRestore(j) => OrdersOf(j)' = OrdersOf(j))
  BY <1>3 DEF KeepsOrders, IsRestore, RestoreKinds
<1>5. NoPost(j, n) => NoPost(j, n)'
  BY DEF NoPost
<1>6. stage = "placed" => Posting(p)' \in placed'
  <2> SUFFICES ASSUME stage = "placed"
               PROVE  Posting(p)' \in placed'
    OBVIOUS
  <2>1. IsRestore(j)
    BY <1>1, <1>3 DEF AtWork, Places1, Posts1, Placing
  <2>2. Posting(p)' = Posting(p)
    BY <1>1, <1>2, <1>4, <2>1 DEF Posting, EntryOf, JobOf, OrdersOf
  <2> QED
    BY <2>2
<1>7. AtWork(p)'
  BY <1>1, <1>2, <1>3, <1>4, <1>5, <1>6 DEF AtWork
<1> QED
  BY <1>2, <1>7, MovesOnTells

\* The post at a place of a restore is the one for the order there.
LEMMA PostIs ==
  ASSUME LInv, NEW p \in Proc, Busy(p), NEW i \in sent \cup placed,
         i.job = thread[p].job, i.pos = thread[p].next
  PROVE  i = Posting(p)
BY DEF LInv, Tells, PostsAreOfLines, Posting, EntryOf, JobOf, OrdersOf

\* Beyond the order in hand nothing is posted.
LEMMA NothingBeyond ==
  ASSUME LInv, NEW p \in Proc, Busy(p), thread[p].at \in Places1
  PROVE  NoPost(thread[p].job, thread[p].next + 1)
<1>1. /\ AtWork(p) /\ thread[p].job \in DOMAIN jobs
      /\ lines \in Seq(Seq(Line)) /\ Len(lines) = Len(jobs) /\ jobs \in Seq(JobRow)
  BY DEF LInv, Tells, LinesFit, QInv, Shapes, ThreadsHaveJobs, ThreadsAtWork
<1>2. thread[p].next = Len(lines[thread[p].job]) + 1 /\ Len(lines[thread[p].job]) \in Nat
  BY <1>1 DEF AtWork
<1> QED
  BY <1>2 DEF NoPost, LInv, Tells, PostsAreOfLines

\* A stage that ends the job, or the attempt to run it.
LEMMA FailsTells ==
  ASSUME LInv, KeepsOrders, NEW p \in Proc, Refuses(p) \/ StopsEarly(p) \/ StoreFails(p)
  PROVE  Tells'
<1>1. Busy(p) /\ Goes(p, "failed") /\ UNCHANGED <<jobs, lines, sent, placed>>
  BY DEF Refuses, StopsEarly, StoreFails, Busy, AtLine, Placing, db, exchange
<1>2. "failed" \in ThreadStage \ {"idle", "begin"} /\ "failed" \notin Places1 \cup Posts1
  BY DEF ThreadStage, Places1, Posts1, Placing
<1> QED
  BY <1>1, <1>2, GoesTells

LEMMA DoneTells ==
  ASSUME LInv, KeepsOrders, NEW p \in Proc, AllLines(p) \/ Take(p)
  PROVE  Tells'
<1>1. Busy(p) /\ Goes(p, "done") /\ UNCHANGED <<jobs, lines, sent, placed>>
  BY DEF AllLines, Take, CanRun, Busy, db, exchange
<1>2. "done" \in ThreadStage \ {"idle", "begin"} /\ "done" \notin Places1 \cup Posts1
  BY DEF ThreadStage, Places1, Posts1, Placing
<1>3. /\ AtWork(p) /\ thread[p].job \in DOMAIN jobs
      /\ lines \in Seq(Seq(Line)) /\ Len(lines) = Len(jobs) /\ jobs \in Seq(JobRow)
      /\ thread[p] \in ThreadRow
  BY <1>1 DEF LInv, Tells, LinesFit, QInv, Shapes, ThreadsHaveJobs, ThreadsAtWork
<1>4. IsRestore(thread[p].job) => Len(lines[thread[p].job]) = Len(OrdersOf(thread[p].job))
  <2>1. CASE AllLines(p)
    <3>1. /\ Len(thread[p].plan) = Len(OrdersOf(thread[p].job))
          /\ thread[p].next = Len(lines[thread[p].job]) + 1
          /\ thread[p].next <= Len(thread[p].plan) + 1
          /\ thread[p].next > Len(thread[p].plan)
      BY <1>3, <2>1 DEF AllLines, AtWork, Places1
    <3>2. Len(thread[p].plan) \in Nat /\ Len(lines[thread[p].job]) \in Nat
      BY <1>3 DEF ThreadRow
    <3> QED
      BY <3>1, <3>2
  <2>2. CASE Take(p)
    BY <2>2 DEF Take, JobOf, IsRestore
  <2> QED
    BY <2>1, <2>2
<1> QED
  BY <1>1, <1>2, <1>4, GoesTells

\* The steps of one order, but the post itself.
LEMMA PlacesTells ==
  ASSUME LInv, KeepsOrders, NEW p \in Proc, Places(p), ~PostLeaves(p)
  PROVE  Tells'
<1>1. /\ {"line", "sending", "out"} \subseteq Places1 /\ {"sending", "out"} \subseteq Posts1
      /\ {"sending", "out", "unsent", "placed", "rejected", "may_rest"} \subseteq
           ThreadStage \ {"idle", "begin"}
  BY DEF Places1, Posts1, Placing, ThreadStage
<1>2. Busy(p) /\ thread[p].at \in Places1 /\ UNCHANGED <<jobs, lines, sent, placed>>
  BY <1>1 DEF Places, Busy, Sends, AtLine, Unsent, AnswerPosted, AnswerRejected, NoAnswer, db,
              exchange
<1>3. AtWork(p) /\ thread[p] \in ThreadRow
  BY <1>2 DEF LInv, Tells, LinesFit, ThreadsAtWork
<1>4. thread[p].next \in DOMAIN thread[p].plan => thread[p].next <= Len(thread[p].plan)
  BY <1>3 DEF ThreadRow
<1>5. CASE Sends(p)
  <2>1. Goes(p, "sending") /\ thread[p].next \in DOMAIN thread[p].plan /\ thread[p].at = "line"
    BY <1>5 DEF Sends, AtLine
  <2>2. NoPost(thread[p].job, thread[p].next)
    BY <1>3, <2>1 DEF AtWork
  <2> QED
    BY <1>1, <1>2, <1>4, <2>1, <2>2, GoesTells
<1>6. CASE Unsent(p)
  <2>1. Goes(p, "unsent") /\ thread[p].at = "sending"
    BY <1>6 DEF Unsent
  <2>2. NoPost(thread[p].job, thread[p].next) /\ thread[p].next <= Len(thread[p].plan)
    BY <1>1, <1>3, <2>1 DEF AtWork
  <2> QED
    BY <1>1, <1>2, <2>1, <2>2, GoesTells
<1>7. CASE AnswerPosted(p)
  <2>1. Goes(p, "placed") /\ thread[p].at = "out" /\ Posting(p) \in placed
    BY <1>7 DEF AnswerPosted
  <2>2. thread[p].next <= Len(thread[p].plan)
    BY <1>1, <1>3, <2>1 DEF AtWork
  <2> QED
    BY <1>1, <1>2, <2>1, <2>2, GoesTells
<1>8. CASE AnswerRejected(p)
  <2>1. Goes(p, "rejected") /\ thread[p].at = "out" /\ Posting(p) \notin sent \cup placed
    BY <1>8 DEF AnswerRejected
  <2>2. thread[p].next <= Len(thread[p].plan)
    BY <1>1, <1>3, <2>1 DEF AtWork
  <2>3. NoPost(thread[p].job, thread[p].next)
    BY <1>2, <2>1, PostIs DEF NoPost
  <2> QED
    BY <1>1, <1>2, <2>1, <2>2, <2>3, GoesTells
<1>9. CASE NoAnswer(p)
  <2>1. Goes(p, "may_rest") /\ thread[p].at = "out"
    BY <1>9 DEF NoAnswer
  <2>2. thread[p].next <= Len(thread[p].plan)
    BY <1>1, <1>3, <2>1 DEF AtWork
  <2> QED
    BY <1>1, <1>2, <2>1, <2>2, GoesTells
<1> QED
  BY <1>5, <1>6, <1>7, <1>8, <1>9 DEF Places

\* The lines of a preview are its plan: no post is of a preview.
LEMMA PreviewTells ==
  ASSUME LInv, KeepsOrders, NEW p \in Proc, StorePlan(p)
  PROVE  Tells'
<1>1. PICK soon \in SUBSET Gtd : lines' = [lines EXCEPT ![thread[p].job] = PlanOf(JobOf(p), soon)]
  BY DEF StorePlan
<1>2. PICK j, ls : j = thread[p].job /\ ls = PlanOf(JobOf(p), soon)
  OBVIOUS
<1>3. /\ Busy(p) /\ Goes(p, "done") /\ UNCHANGED <<jobs, sent, placed>>
      /\ jobs[j].kind = "preview"
  BY <1>2 DEF StorePlan, CanRun, JobOf, Busy, exchange
<1>4. j \in DOMAIN jobs /\ AtWork(p)
  BY <1>2, <1>3 DEF LInv, Tells, QInv, ThreadsHaveJobs, ThreadsAtWork
<1>5. ls \in Seq(Action)
  BY <1>2, <1>3, <1>4, PlanFits DEF JobOf, RestoreKinds, LInv
<1>6. ls \in Seq(Line) /\ \A n \in DOMAIN ls : ls[n] # "placed"
  BY <1>5 DEF Line, Action
<1>7. \A n : NoPost(j, n)
  BY <1>3 DEF NoPost, LInv, Tells, PostsAreOfLines, IsRestore
<1>8. MovesOn(p) /\ thread'[p].at = "done" /\ thread'[p].job = j
  BY <1>2, <1>3, GoesMoves DEF ThreadStage, MovesOn
<1>9. AtWork(p)'
  <2>1. jobs'[j].state \notin {"queued", "done"} /\ ~IsRestore(j)'
    BY <1>2, <1>3, <1>4 DEF AtWork, IsRestore
  <2> QED
    BY <1>8, <2>1 DEF AtWork, Places1, Posts1, Placing
<1>10. ~IsRestore(j)
  BY <1>3 DEF IsRestore
<1> QED
  BY <1>1, <1>2, <1>3, <1>6, <1>7, <1>8, <1>9, <1>10, StoresTells

\* A restore that has its plan has done nothing yet.
LEMMA PlanTells ==
  ASSUME LInv, KeepsOrders, NEW p \in Proc, Plan(p)
  PROVE  Tells'
<1>1. PICK soon \in SUBSET Gtd :
        thread' = [thread EXCEPT ![p] =
          [@ EXCEPT !.at = "line", !.next = 1, !.plan = PlanOf(JobOf(p), soon)]]
  BY DEF Plan
<1>2. PICK j, ls : j = thread[p].job /\ ls = PlanOf(JobOf(p), soon)
  OBVIOUS
<1>3. PICK row : row = [thread[p] EXCEPT !.at = "line", !.next = 1, !.plan = ls]
  OBVIOUS
<1>4. /\ Busy(p) /\ thread[p].at = "begin" /\ UNCHANGED <<jobs, lines, sent, placed>>
      /\ jobs[j].kind = "restore"
  BY <1>2 DEF Plan, CanRun, JobOf, Busy, db, exchange
<1>5. /\ j \in DOMAIN jobs /\ AtWork(p)
      /\ thread \in [Proc -> ThreadRow]
      /\ lines \in Seq(Seq(Line)) /\ Len(lines) = Len(jobs) /\ jobs \in Seq(JobRow)
  BY <1>2, <1>4 DEF LInv, Tells, LinesFit, QInv, Shapes, ThreadsHaveJobs, ThreadsAtWork
<1>6. ls \in Seq(Action) /\ Len(ls) = Len(OrdersOf(j))
  BY <1>2, <1>4, <1>5, PlanFits DEF JobOf, RestoreKinds, LInv
<1>7. thread[p] \in ThreadRow /\ thread' = [thread EXCEPT ![p] = row]
  BY <1>1, <1>2, <1>3, <1>5
<1>8. /\ row \in ThreadRow /\ row.at = "line" /\ row.next = 1 /\ row.plan = ls
      /\ row.job = j
  BY <1>2, <1>3, <1>6, <1>7 DEF ThreadRow, ThreadStage
<1>9. /\ thread'[p] = row /\ thread' \in [Proc -> ThreadRow]
      /\ \A q \in Proc : q # p => thread'[q] = thread[q]
  BY <1>5, <1>7, <1>8
<1>10. MovesOn(p)
  BY <1>2, <1>4, <1>8, <1>9 DEF MovesOn, Busy
<1>11. AtWork(p)'
  <2>1. /\ lines[j] = <<>> /\ \A i \in sent \cup placed : i.job # j
        /\ jobs[j].state \notin {"queued", "done"}
    BY <1>2, <1>4, <1>5 DEF AtWork
  <2>2. IsRestore(j)' /\ OrdersOf(j)' = OrdersOf(j)
    BY <1>4, <1>5 DEF KeepsOrders, IsRestore, RestoreKinds
  <2>3. Len(lines'[j]) = 0 /\ Len(ls) \in Nat
    BY <1>4, <1>6, <2>1
  <2>4. NoPost(j, 1)'
    BY <1>4, <2>1 DEF NoPost
  <2>5. /\ thread'[p].at = "line" /\ thread'[p].next = 1 /\ thread'[p].plan = ls
        /\ thread'[p].job = j
    BY <1>8, <1>9
  <2> QED
    BY <1>4, <1>6, <2>1, <2>2, <2>3, <2>4, <2>5 DEF AtWork, Posts1, Placing
<1> QED
  BY <1>4, <1>10, <1>11, MovesOnTells

\* The order in hand gets its line, and the next one comes into hand.
LEMMA LineTells ==
  ASSUME LInv, KeepsOrders, NEW p \in Proc, Busy(p), thread[p].at \in Places1,
         NEW w \in Line, thread[p].next <= Len(thread[p].plan),
         lines' = [lines EXCEPT ![thread[p].job] = Append(@, w)],
         UNCHANGED <<jobs, sent, placed>>,
         MovesOn(p), thread'[p].at = "line",
         thread'[p].next = thread[p].next + 1, thread'[p].plan = thread[p].plan,
         w = "placed" => thread[p].at = "placed",
         w \notin {"placed", "may_rest"} => NoPost(thread[p].job, thread[p].next)
  PROVE  Tells'
<1>1. PICK j, n : j = thread[p].job /\ n = thread[p].next
  OBVIOUS
<1>2. PICK ls : ls = Append(lines[j], w)
  OBVIOUS
<1>3. /\ j \in DOMAIN jobs /\ AtWork(p)
      /\ lines \in Seq(Seq(Line)) /\ Len(lines) = Len(jobs) /\ jobs \in Seq(JobRow)
      /\ thread[p] \in ThreadRow
  BY <1>1 DEF LInv, Tells, LinesFit, QInv, Shapes, ThreadsHaveJobs, ThreadsAtWork
<1>4. lines[j] \in Seq(Line)
  BY <1>3
<1>5. /\ ls \in Seq(Line) /\ Len(ls) = Len(lines[j]) + 1 /\ Len(lines[j]) \in Nat
      /\ DOMAIN ls = DOMAIN lines[j] \cup {Len(lines[j]) + 1}
      /\ ls[Len(lines[j]) + 1] = w
      /\ \A m \in DOMAIN lines[j] : ls[m] = lines[j][m]
  BY <1>2, <1>4
<1>6. /\ IsRestore(j) /\ n = Len(lines[j]) + 1 /\ Len(thread[p].plan) = Len(OrdersOf(j))
      /\ thread[p].at = "placed" => Posting(p) \in placed
  BY <1>1, <1>3 DEF AtWork
<1>7. ASSUME NEW m \in DOMAIN ls
      PROVE  /\ ls[m] = "placed" => /\ \E i \in placed : i.job = j /\ i.pos = m
                                    /\ \A i \in sent : ~(i.job = j /\ i.pos = m)
             /\ ls[m] \notin {"placed", "may_rest"} => NoPost(j, m)
  <2>1. CASE m \in DOMAIN lines[j]
    BY <1>3, <1>5, <2>1 DEF LInv, Tells, LinesTell, TellsPosts
  <2>2. CASE m = n
    <3>1. ls[m] = w
      BY <1>5, <1>6, <2>2
    <3>2. ASSUME w = "placed"
          PROVE  /\ \E i \in placed : i.job = j /\ i.pos = m
                 /\ \A i \in sent : ~(i.job = j /\ i.pos = m)
      <4>1. Posting(p) \in placed /\ Posting(p).job = j /\ Posting(p).pos = n
        BY <1>1, <1>6, <3>2 DEF Posting
      <4>2. \A i \in sent : i.job = j /\ i.pos = n => i = Posting(p)
        BY <1>1, PostIs
      <4>3. sent \cap placed = {}
        BY DEF LInv, Tells, PostsAreOfLines
      <4> QED
        BY <2>2, <4>1, <4>2, <4>3
    <3> QED
      BY <1>1, <2>2, <3>1, <3>2
  <2> QED
    BY <1>5, <1>6, <2>1, <2>2
<1>8. lines' = [lines EXCEPT ![thread[p].job] = ls]
  BY <1>1, <1>2
<1>9. AtWork(p)'
  <2>1. /\ thread'[p].job = j /\ thread'[p].next = n + 1 /\ thread'[p].plan = thread[p].plan
        /\ thread'[p].at = "line"
    BY <1>1 DEF MovesOn
  <2>2. lines'[j] = ls
    BY <1>1, <1>3, <1>8
  <2>3. IsRestore(j)' /\ OrdersOf(j)' = OrdersOf(j) /\ jobs'[j].state \notin {"queued", "done"}
    BY <1>1, <1>3, <1>6 DEF KeepsOrders, IsRestore, RestoreKinds, AtWork
  <2>4. NoPost(j, n + 1)'
    BY <1>1, NothingBeyond DEF NoPost
  <2>5. n + 1 <= Len(thread[p].plan) + 1 /\ n + 1 = Len(ls) + 1
    BY <1>1, <1>3, <1>5, <1>6 DEF ThreadRow
  <2> QED
    BY <1>6, <2>1, <2>2, <2>3, <2>4, <2>5 DEF AtWork, Posts1, Placing
<1>10. Len(ls) >= Len(lines[thread[p].job])
  BY <1>1, <1>5
<1>11. \A m \in DOMAIN ls :
         /\ ls[m] = "placed" => /\ \E i \in placed : i.job = thread[p].job /\ i.pos = m
                                /\ \A i \in sent : ~(i.job = thread[p].job /\ i.pos = m)
         /\ ls[m] \notin {"placed", "may_rest"} => NoPost(thread[p].job, m)
  BY <1>1, <1>7
<1>12. ls \in Seq(Line)
  BY <1>5
<1> QED
  BY <1>8, <1>9, <1>10, <1>11, <1>12, StoresTells

LEMMA SkipsTells ==
  ASSUME LInv, KeepsOrders, NEW p \in Proc, Skips(p)
  PROVE  Tells'
<1>1. PICK w : w = thread[p].plan[thread[p].next]
  OBVIOUS
<1>2. PICK row : row = [thread[p] EXCEPT !.next = thread[p].next + 1]
  OBVIOUS
<1>3. /\ Busy(p) /\ thread[p].at = "line" /\ thread[p].next \in DOMAIN thread[p].plan
      /\ lines' = [lines EXCEPT ![thread[p].job] = Append(@, w)]
      /\ thread' = [thread EXCEPT ![p].next = @ + 1]
      /\ UNCHANGED <<jobs, sent, placed>>
  BY <1>1 DEF Skips, AtLine, Busy, exchange
<1>4. thread \in [Proc -> ThreadRow] /\ thread[p] \in ThreadRow /\ AtWork(p)
  BY <1>3 DEF LInv, Tells, LinesFit, ThreadsAtWork
<1>5. thread' = [thread EXCEPT ![p] = row]
  BY <1>2, <1>3, <1>4
<1>6. /\ row \in ThreadRow /\ row.at = "line" /\ row.next = thread[p].next + 1
      /\ row.plan = thread[p].plan /\ row.job = thread[p].job
  <2>1. thread[p].next + 1 \in Nat
    BY <1>4 DEF ThreadRow
  <2>2. row = [at |-> "line", job |-> thread[p].job, plan |-> thread[p].plan,
               next |-> thread[p].next + 1, unanswered |-> thread[p].unanswered]
    BY <1>2, <1>3, <1>4 DEF ThreadRow
  <2> QED
    BY <1>4, <2>1, <2>2 DEF ThreadRow, ThreadStage
<1>7. /\ thread'[p] = row /\ thread' \in [Proc -> ThreadRow]
      /\ \A q \in Proc : q # p => thread'[q] = thread[q]
  BY <1>4, <1>5, <1>6
<1>8. MovesOn(p)
  BY <1>3, <1>6, <1>7 DEF MovesOn, Busy
<1>9. w \in Action /\ thread[p].next <= Len(thread[p].plan)
  BY <1>1, <1>3, <1>4 DEF ThreadRow
<1>10. w \in Line /\ w \notin {"placed", "may_rest"}
  BY <1>9 DEF Line, Action
<1>11. NoPost(thread[p].job, thread[p].next) /\ thread[p].at \in Places1
  BY <1>3, <1>4 DEF AtWork, Places1
<1> QED
  BY <1>3, <1>6, <1>7, <1>8, <1>9, <1>10, <1>11, LineTells

LEMMA StoreLineTells ==
  ASSUME LInv, KeepsOrders, NEW p \in Proc, StoreLine(p)
  PROVE  Tells'
<1>1. /\ Busy(p) /\ thread[p].at \in Placing
      /\ lines' = [lines EXCEPT ![thread[p].job] = Append(@, thread[p].at)]
      /\ UNCHANGED <<jobs, sent, placed>>
  BY DEF StoreLine, Busy, Placing, exchange
<1>2. thread \in [Proc -> ThreadRow] /\ thread[p] \in ThreadRow /\ AtWork(p)
  BY <1>1 DEF LInv, Tells, LinesFit, ThreadsAtWork
<1>3. PICK u : u = UnansweredWith(p)
  OBVIOUS
<1>4. u \in Nat
  BY <1>1, <1>2, <1>3 DEF UnansweredWith, ThreadRow, Placing
<1>5. PICK row : row = [thread[p] EXCEPT !.at = "line", !.next = thread[p].next + 1,
                                         !.unanswered = u]
  OBVIOUS
<1>6. /\ row \in ThreadRow /\ row.at = "line" /\ row.next = thread[p].next + 1
      /\ row.plan = thread[p].plan /\ row.job = thread[p].job
  <2>1. thread[p].next + 1 \in Nat
    BY <1>2 DEF ThreadRow
  <2>2. row = [at |-> "line", job |-> thread[p].job, plan |-> thread[p].plan,
               next |-> thread[p].next + 1, unanswered |-> u]
    BY <1>2, <1>5 DEF ThreadRow
  <2> QED
    BY <1>2, <1>4, <2>1, <2>2 DEF ThreadRow, ThreadStage
<1>7. thread' = [thread EXCEPT ![p] = row]
  BY <1>2, <1>3, <1>5 DEF StoreLine, ThreadRow
<1>8. /\ thread'[p] = row /\ thread' \in [Proc -> ThreadRow]
      /\ \A q \in Proc : q # p => thread'[q] = thread[q]
  BY <1>2, <1>6, <1>7
<1>9. MovesOn(p)
  BY <1>1, <1>6, <1>8 DEF MovesOn, Busy
<1>10. thread[p].at \in Line /\ thread[p].at \in Posts1 /\ thread[p].at \in Places1
  BY <1>1 DEF Line, Posts1, Places1
<1>11. /\ thread[p].next <= Len(thread[p].plan)
       /\ thread[p].at \notin {"placed", "may_rest"} => NoPost(thread[p].job, thread[p].next)
  BY <1>1, <1>2, <1>10 DEF AtWork, Placing
<1> QED
  BY <1>1, <1>6, <1>8, <1>9, <1>10, <1>11, LineTells

-----------------------------------------------------------------------------
(* However a restore ends, its lines are true                              *)

\* The steps that leave the lines, the posts and the threads alone.
LEMMA QuietStep ==
  ASSUME ConstantsAssumption, LInv, Next,
         \/ \E j \in DOMAIN jobs : WaitsTooLong(j)
         \/ \E p \in Proc : \/ StartWorker(p) \/ FailRunning(p) \/ LeaveLoop(p) \/ StopWorker(p)
                            \/ StopSignal(p)
         \/ \E i \in Resting : Leaves(i) \/ Fills(i)
  PROVE  Tells'
<1>1. KeepsOrders
  BY OrdersKept DEF LInv
<1>2. jobs \in Seq(JobRow) /\ Shapes
  BY DEF LInv, QInv, Shapes
<1>3. CASE \E j \in DOMAIN jobs : WaitsTooLong(j)
  <2>1. /\ MovesJobs
        /\ DOMAIN jobs' = DOMAIN jobs
        /\ \A k \in DOMAIN jobs : jobs'[k].state = jobs[k].state
    BY <1>2, <1>3, WaitMoves
  <2>2. Len(jobs') = Len(jobs)
    BY <1>2, <2>1 DEF MovesJobs
  <2>3. UNCHANGED <<lines, thread, sent, placed>>
    BY <1>3 DEF WaitsTooLong, exchange
  <2> QED
    BY <1>1, <2>1, <2>2, <2>3, QuietTells
<1>4. ASSUME NEW p \in Proc, FailRunning(p)
      PROVE  Tells'
  <2>1. /\ DOMAIN jobs' = DOMAIN jobs
        /\ MovesJobs
        /\ UNCHANGED <<lines, thread, sent, placed>>
    BY <1>2, <1>4, FailRunningMoves DEF FailRunning, exchange
  <2>2. Len(jobs') = Len(jobs)
    BY <1>2, <2>1 DEF MovesJobs
  <2>3. ASSUME NEW j \in DOMAIN jobs, jobs'[j].state \in {"queued", "done"}
        PROVE  jobs'[j].state = jobs[j].state
    <3>1. jobs[j] \in JobRow
      BY <1>2
    <3>2. jobs'[j] = IF jobs[j].state = "running"
                     THEN [jobs[j] EXCEPT !.state = "failed"] ELSE jobs[j]
      BY <1>4 DEF FailRunning
    <3> QED
      BY <2>3, <3>1, <3>2 DEF JobRow
  <2> QED
    BY <1>1, <2>1, <2>2, <2>3, QuietTells
<1>5. ASSUME UNCHANGED <<jobs, lines, thread, sent, placed>>
      PROVE  Tells'
  BY <1>1, <1>5, QuietTells
<1>6. ASSUME NEW p \in Proc, StartWorker(p) \/ LeaveLoop(p) \/ StopWorker(p) \/ StopSignal(p)
      PROVE  UNCHANGED <<jobs, lines, thread, sent, placed>>
  BY <1>6 DEF StartWorker, LeaveLoop, StopWorker, StopSignal, db, exchange
<1>7. ASSUME NEW i \in Resting, Leaves(i) \/ Fills(i)
      PROVE  UNCHANGED <<jobs, lines, thread, sent, placed>>
  BY <1>7 DEF Leaves, Fills, db
<1> QED
  BY <1>3, <1>4, <1>5, <1>6, <1>7

LEMMA TellsStep ==
  ASSUME ConstantsAssumption, LInv, Next
  PROVE  Tells'
<1>1. KeepsOrders /\ jobs \in Seq(JobRow) /\ Shapes
  BY OrdersKept DEF LInv, QInv, Shapes
<1>2. CASE Console
  <2>1. PICK managed \in SUBSET Farmed, retired \in SUBSET Farmed :
          \/ retired = {} /\ TakeSnapshot(managed)
          \/ \E s \in DOMAIN snapshots :
               Preview(s, managed, retired) \/ PlaceRestore(s, managed, retired)
    BY <1>2 DEF Console
  <2>2. managed \in SUBSET Market /\ retired \in SUBSET Market /\ {} \in SUBSET Market
    BY DEF ConstantsAssumption, Market
  <2>3. {"snapshot", "preview", "restore"} \subseteq Kinds /\ 0 \in Nat
        /\ DOMAIN snapshots \subseteq Nat
    BY <1>1 DEF Shapes, Kinds
  <2>4. CASE TakeSnapshot(managed)
    BY <1>1, <2>2, <2>3, <2>4, EnqueueTells DEF TakeSnapshot
  <2>5. CASE \E s \in DOMAIN snapshots : Preview(s, managed, retired)
    BY <1>1, <2>2, <2>3, <2>5, EnqueueTells DEF Preview
  <2>6. CASE \E s \in DOMAIN snapshots : PlaceRestore(s, managed, retired)
    BY <1>1, <2>2, <2>3, <2>6, EnqueueTells DEF PlaceRestore
  <2> QED
    BY <2>1, <2>4, <2>5, <2>6
<1>3. ASSUME NEW p \in Proc, Finish(p)
      PROVE  Tells'
  <2>1. Busy(p) /\ thread[p].job \in DOMAIN jobs /\ thread[p].at \in {"done", "failed"}
    BY <1>3 DEF Finish, Busy, LInv, QInv, ThreadsHaveJobs
  <2>2. /\ MovesJobs
        /\ DOMAIN jobs' = DOMAIN jobs
        /\ \A k \in DOMAIN jobs : k # thread[p].job => jobs'[k] = jobs[k]
        /\ jobs'[thread[p].job] # jobs[thread[p].job] =>
             jobs'[thread[p].job].state = thread[p].at
    BY <1>1, <1>3, <2>1, FinishMoves
  <2>3. Len(jobs') = Len(jobs)
    BY <1>1, <2>2 DEF MovesJobs
  <2>4. thread' = [thread EXCEPT ![p] = IdleThread] /\ UNCHANGED <<lines, sent, placed>>
    BY <1>3 DEF Finish, exchange
  <2> QED
    BY <1>1, <2>1, <2>2, <2>3, <2>4, IdleTells
<1>4. ASSUME NEW p \in Proc, FinishFails(p) \/ Crash(p)
      PROVE  Tells'
  <2>1. /\ thread' = [thread EXCEPT ![p] = IdleThread]
        /\ UNCHANGED <<jobs, lines, sent, placed>>
    BY <1>4 DEF FinishFails, Crash, db, exchange
  <2> QED
    BY <1>1, <2>1, IdleTells
<1>5. ASSUME NEW p \in Proc, PostLeaves(p)
      PROVE  Tells'
  <2>1. /\ Busy(p) /\ thread[p].at = "sending" /\ Goes(p, "out")
        /\ sent' = sent \cup {Posting(p)}
        /\ UNCHANGED <<jobs, lines, placed>>
    BY <1>5 DEF PostLeaves, Busy, db
  <2>2. "out" \in ThreadStage \ {"idle"}
    BY DEF ThreadStage
  <2>3. /\ MovesOn(p) /\ thread'[p].at = "out"
        /\ thread'[p].plan = thread[p].plan /\ thread'[p].next = thread[p].next
    BY <2>1, <2>2, GoesMoves
  <2> QED
    BY <1>1, <2>1, <2>3, PostTells
<1>6. ASSUME NEW p \in Proc, JobThread(p)
      PROVE  Tells'
  <2>1. CASE Take(p) \/ AllLines(p)
    BY <1>1, <2>1, DoneTells
  <2>2. CASE StorePlan(p)
    BY <1>1, <2>2, PreviewTells
  <2>3. CASE Plan(p)
    BY <1>1, <2>3, PlanTells
  <2>4. CASE Skips(p)
    BY <1>1, <2>4, SkipsTells
  <2>5. CASE StoreLine(p)
    BY <1>1, <2>5, StoreLineTells
  <2>6. CASE Refuses(p) \/ StopsEarly(p) \/ StoreFails(p)
    BY <1>1, <2>6, FailsTells
  <2>7. CASE Places(p) /\ ~PostLeaves(p)
    BY <1>1, <2>7, PlacesTells
  <2> QED
    BY <1>3, <1>4, <1>5, <1>6, <2>1, <2>2, <2>3, <2>4, <2>5, <2>6, <2>7 DEF JobThread, Ends
<1>7. ASSUME NEW i \in sent, Accept(i) \/ Refuse(i)
      PROVE  Tells'
  BY <1>1, <1>7, DecideTells
<1>8. ASSUME NEW p \in Proc, Claim(p)
      PROVE  Tells'
  BY <1>1, <1>8, ClaimTells
<1> QED
  BY <1>2, <1>4, <1>6, <1>7, <1>8, QuietStep DEF Next, MainLoop, Exchange

LEMMA SnapshotsFitStep ==
  ASSUME ConstantsAssumption, LInv, Next
  PROVE  SnapshotsFit'
<1>1. /\ KeepsSnapshots
      /\ \A s \in DOMAIN snapshots' : \E S : snapshots'[s].orders \in Seq(S)
      /\ IsFiniteSet(Resting)'
  BY SnapshotsKept, RestingStep DEF LInv, QInv, SnapshotsFit
<1>2. MovesJobs /\ jobs \in Seq(JobRow) /\ Shapes
  BY JobsStep DEF LInv, QInv, Shapes
<1>3. ASSUME NEW j \in DOMAIN jobs, jobs'[j].kind \in RestoreKinds
      PROVE  jobs'[j].snap \in DOMAIN snapshots'
  BY <1>1, <1>2, <1>3 DEF MovesJobs, KeepsJobs, KeepsSnapshots, LInv, SnapshotsFit
<1>4. ASSUME NEW kind \in Kinds, NEW s \in Nat, NEW managed \in SUBSET Market,
             NEW retired \in SUBSET Market, Enqueue(kind, s, managed, retired),
             kind \in RestoreKinds => s \in DOMAIN snapshots
      PROVE  \A j \in DOMAIN jobs' : jobs'[j].kind \in RestoreKinds =>
               jobs'[j].snap \in DOMAIN snapshots'
  <2>1. PICK n : n = Len(jobs) + 1
    OBVIOUS
  <2>2. Len(jobs') = n /\ jobs'[n].kind = kind /\ jobs'[n].snap = s
    BY <1>2, <1>4, <2>1, EnqueueMoves
  <2>3. \A j \in DOMAIN jobs' : j \in DOMAIN jobs \/ j = n
    BY <1>2, <2>1, <2>2 DEF MovesJobs
  <2> QED
    BY <1>1, <1>3, <1>4, <2>2, <2>3 DEF KeepsSnapshots
<1>5. \A j \in DOMAIN jobs' : jobs'[j].kind \in RestoreKinds =>
        jobs'[j].snap \in DOMAIN snapshots'
  <2>1. CASE Console
    <3>1. PICK managed \in SUBSET Farmed, retired \in SUBSET Farmed :
            \/ retired = {} /\ TakeSnapshot(managed)
            \/ \E s \in DOMAIN snapshots :
                 Preview(s, managed, retired) \/ PlaceRestore(s, managed, retired)
      BY <2>1 DEF Console
    <3>2. managed \in SUBSET Market /\ retired \in SUBSET Market /\ {} \in SUBSET Market
      BY DEF ConstantsAssumption, Market
    <3>3. /\ {"snapshot", "preview", "restore"} \subseteq Kinds /\ 0 \in Nat
          /\ "snapshot" \notin RestoreKinds
          /\ DOMAIN snapshots \subseteq Nat
      BY <1>2 DEF Shapes, Kinds, RestoreKinds
    <3>4. CASE TakeSnapshot(managed)
      BY <1>4, <3>2, <3>3, <3>4 DEF TakeSnapshot
    <3>5. CASE \E s \in DOMAIN snapshots : Preview(s, managed, retired)
      BY <1>4, <3>2, <3>3, <3>5 DEF Preview
    <3>6. CASE \E s \in DOMAIN snapshots : PlaceRestore(s, managed, retired)
      BY <1>4, <3>2, <3>3, <3>6 DEF PlaceRestore
    <3> QED
      BY <3>1, <3>4, <3>5, <3>6
  <2>2. CASE DOMAIN jobs' = DOMAIN jobs
    BY <1>3, <2>2
  <2>3. CASE \E j \in DOMAIN jobs : WaitsTooLong(j)
    BY <1>2, <2>2, <2>3, WaitMoves
  <2>4. ASSUME NEW p \in Proc, FailRunning(p) \/ Claim(p) \/ Finish(p)
        PROVE  DOMAIN jobs' = DOMAIN jobs
    <3>1. Finish(p) => thread[p].job \in DOMAIN jobs
      BY DEF Finish, LInv, QInv, ThreadsHaveJobs, Busy
    <3>2. FailRunning(p) => DOMAIN jobs' = DOMAIN jobs
      BY DEF FailRunning
    <3> QED
      BY <1>2, <2>4, <3>1, <3>2, ClaimMoves, FinishMoves
  <2>5. CASE jobs' = jobs
    BY <2>2, <2>5
  <2> QED
    BY <2>1, <2>2, <2>3, <2>4, <2>5, OthersLeaveJobs
<1> QED
  BY <1>1, <1>5 DEF SnapshotsFit

LEMMA InitLInv == ConstantsAssumption /\ Init => LInv
<1> SUFFICES ASSUME ConstantsAssumption, Init
             PROVE  LInv
  OBVIOUS
<1>1. QInv
  BY InitQInv
<1>2. jobs = <<>> /\ lines = <<>> /\ sent = {} /\ placed = {}
      /\ thread = [p \in Proc |-> IdleThread]
  BY DEF Init
<1>3. \A p \in Proc : ~Busy(p)
  BY <1>2 DEF Busy, IdleThread
<1>4. LinesFit
  <2>1. <<>> \in Seq(Action) /\ "idle" \in ThreadStage
    BY DEF ThreadStage
  <2>2. IdleThread \in ThreadRow
    BY <2>1 DEF IdleThread, ThreadRow
  <2>3. thread \in [Proc -> ThreadRow]
    BY <1>2, <2>2
  <2> QED
    BY <1>2, <2>3 DEF LinesFit
<1>5. SnapshotsFit
  <2>1. PICK es : es = [i \in DOMAIN Listed |-> [id |-> Original(Listed[i]), left |-> "full"]]
    OBVIOUS
  <2>2. snapshots = <<[orders |-> es, farmer |-> Unknown]>>
    BY <2>1 DEF Init
  <2>3. Listed \in Seq(Order) /\ \A o \in Order : \E n \in DOMAIN Listed : Listed[n] = o
    BY DEF ConstantsAssumption
  <2>4. Len(Listed) \in Nat /\ DOMAIN Listed = 1..Len(Listed)
    BY <2>3
  <2>5. \E S : es \in Seq(S)
    <3>1. PICK S : S = {es[i] : i \in 1..Len(Listed)}
      OBVIOUS
    <3>2. es \in [1..Len(Listed) -> S]
      <4>1. DOMAIN es = 1..Len(Listed) /\ es = [i \in 1..Len(Listed) |-> es[i]]
        BY <2>1, <2>4
      <4> QED
        BY <3>1, <4>1
    <3>3. PICK k \in Nat : k = Len(Listed)
      BY <2>4
    <3>4. es \in [1..k -> S]
      BY <3>2, <3>3
    <3>5. es \in Seq(S)
      BY <3>4
    <3> QED
      BY <3>5
  <2>6. \A s \in DOMAIN snapshots : \E S : snapshots[s].orders \in Seq(S)
    BY <2>2, <2>5
  <2>7. IsFiniteSet(Resting)
    <3>1. PICK ids : ids = {Original(o) : o \in Order}
      OBVIOUS
    <3>2. Resting = ids
      BY <3>1 DEF Init, Resting
    <3>3. PICK f : f = [i \in 1..Len(Listed) |-> Original(Listed[i])]
      OBVIOUS
    <3>4. f \in [1..Len(Listed) -> ids]
      BY <2>3, <2>4, <3>1, <3>3
    <3>5. \A x \in ids : \E i \in 1..Len(Listed) : f[i] = x
      BY <2>3, <2>4, <3>1, <3>3
    <3>6. ExistsSurjection(1..Len(Listed), ids)
      BY <3>4, <3>5 DEF ExistsSurjection, Surjection
    <3> QED
      BY <2>4, <3>2, <3>6, FS_NatSurjection
  <2> QED
    BY <1>2, <2>6, <2>7 DEF SnapshotsFit
<1>6. PostsAreOfLines /\ LinesTell /\ JobsTell /\ ThreadsAtWork
  BY <1>2, <1>3 DEF PostsAreOfLines, LinesTell, JobsTell, ThreadsAtWork
<1> QED
  BY <1>1, <1>4, <1>5, <1>6 DEF LInv, Tells

LEMMA LInvStep == ConstantsAssumption /\ LInv /\ [Next]_vars => LInv'
<1> SUFFICES ASSUME ConstantsAssumption, LInv, [Next]_vars
             PROVE  LInv'
  OBVIOUS
<1>1. QInv'
  BY QInvStep DEF LInv
<1>2. CASE Next
  BY <1>1, <1>2, TellsStep, SnapshotsFitStep DEF LInv
<1>3. CASE UNCHANGED vars
  <2>1. UNCHANGED <<jobs, snapshots, lines, thread, left, sent, placed>>
    BY <1>3 DEF vars, db, exchange
  <2>2. SnapshotsFit'
    BY <2>1 DEF LInv, SnapshotsFit, Resting
  <2>3. KeepsOrders
    BY <2>1 DEF KeepsOrders, OrdersOf
  <2>4. jobs \in Seq(JobRow)
    BY DEF LInv, QInv, Shapes
  <2>5. Tells'
    BY <2>1, <2>3, <2>4, QuietTells
  <2> QED
    BY <1>1, <2>2, <2>5 DEF LInv
<1> QED
  BY <1>2, <1>3

\* The posts of a restore that have no line are at one place, the next, and are one.
LEMMA OneInHand ==
  ASSUME LInv, NEW j \in DOMAIN jobs
  PROVE  Cardinality({i \in Posts(j) : i.pos \notin DOMAIN lines[j]}) <= 1
<1>1. PICK open : open = {i \in Posts(j) : i.pos \notin DOMAIN lines[j]}
  OBVIOUS
<1>2. lines[j] \in Seq(Line)
  BY DEF LInv, Tells, LinesFit, QInv, Shapes
<1>3. PICK n : n = Len(lines[j]) + 1
  OBVIOUS
<1>4. \A i \in open : i = [root |-> OrdersOf(j)[n].id.root, job |-> j, pos |-> n]
  <2> SUFFICES ASSUME NEW i \in open
               PROVE  i = [root |-> OrdersOf(j)[n].id.root, job |-> j, pos |-> n]
    OBVIOUS
  <2>1. i \in sent \cup placed /\ i.job = j /\ i.pos \notin DOMAIN lines[j]
    BY <1>1 DEF Posts
  <2>2. /\ i.pos \in 1..Len(lines[j]) + 1
        /\ i = [root |-> OrdersOf(j)[i.pos].id.root, job |-> j, pos |-> i.pos]
    BY <2>1 DEF LInv, Tells, PostsAreOfLines
  <2>3. i.pos = n
    BY <1>2, <1>3, <2>1, <2>2
  <2> QED
    BY <2>2, <2>3
<1>5. PICK x : x = [root |-> OrdersOf(j)[n].id.root, job |-> j, pos |-> n]
  OBVIOUS
<1>6. open = {} \/ open = {x}
  BY <1>4, <1>5
<1>7. Cardinality(open) = 0 \/ Cardinality(open) = 1
  <2>1. CASE open = {}
    BY <2>1, FS_EmptySet
  <2>2. CASE open = {x}
    BY <2>2, FS_Singleton
  <2> QED
    BY <1>6, <2>1, <2>2
<1> QED
  BY <1>1, <1>7

\* However a restore ends, over every history of stops, crashes, stalls, statements that raise
\* and posts without an answer, its lines tell what became of its orders, and at most the one
\* in hand has none.
THEOREM LinesTrue == Spec => []LinesAreTrue
<1>1. Init => LInv
  BY InitLInv, ConstantsAssumption
<1>2. LInv /\ [Next]_vars => LInv'
  BY LInvStep, ConstantsAssumption
<1>3. LInv => LinesAreTrue
  <2> SUFFICES ASSUME LInv, NEW j \in DOMAIN jobs
               PROVE  /\ \A n \in DOMAIN lines[j] :
                           LET posts == {i \in Posts(j) : i.pos = n} IN
                             /\ lines[j][n] = "placed" => posts # {} /\ posts \subseteq placed
                             /\ lines[j][n] \notin {"placed", "may_rest"} => posts = {}
                      /\ IsRestore(j) =>
                           /\ Cardinality({i \in Posts(j) : i.pos \notin DOMAIN lines[j]}) <= 1
                           /\ jobs[j].state = "done" =>
                                Len(lines[j]) = Len(snapshots[jobs[j].snap].orders)
    BY DEF LinesAreTrue
  <2>1. TellsPosts(j) /\ TellsEnd(j)
    BY DEF LInv, Tells, LinesTell, JobsTell
  <2>2. ASSUME NEW n \in DOMAIN lines[j]
        PROVE  LET posts == {i \in Posts(j) : i.pos = n} IN
                 /\ lines[j][n] = "placed" => posts # {} /\ posts \subseteq placed
                 /\ lines[j][n] \notin {"placed", "may_rest"} => posts = {}
    BY <2>1 DEF TellsPosts, NoPost, Posts
  <2>3. IsRestore(j) /\ jobs[j].state = "done" =>
          Len(lines[j]) = Len(snapshots[jobs[j].snap].orders)
    BY <2>1 DEF TellsEnd, OrdersOf
  <2> QED
    BY <2>2, <2>3, OneInHand
<1> QED
  BY <1>1, <1>2, <1>3, PTL DEF Spec

-----------------------------------------------------------------------------
(* A restore run again does not double what rests                          *)

\* The account's orders with a token, side and price: as many as may rest untouched.
Alike(k) == {u \in Order : KeyOf[u] = k}

\* The untouched orders that rest or may come to, and the entries of a snapshot that were.
LeftNow(i) == IF i \in sent THEN LeftOf(i) ELSE left[i]
Full(k) == {i \in Resting \cup sent : KeyOf[i.root] = k /\ LeftNow(i) = "full"}
FullEntry(e, k) == KeyOf[e.id.root] = k /\ e.left = "full"
FullEntries(orders, k) == {n \in DOMAIN orders : FullEntry(orders[n], k)}

\* The places of its plan a thread has yet to post, and those among them for k.
Onward(p) == IF thread[p].at \in {"line", "sending"} THEN thread[p].next ELSE thread[p].next + 1
Pending(p, k) ==
  {n \in FullEntries(OrdersOf(thread[p].job), k) :
     n >= Onward(p) /\ thread[p].plan[n] = "would_place"}

\* Where an order came from, and that a snapshot has it with no less than what is left.
From(i, accepted) == (\E o \in Order : i = Original(o)) \/ i \in accepted
Came(i) == From(i, placed)
KnowsItsOrders ==
  /\ \A i \in Resting : Came(i)
  /\ \A s \in DOMAIN snapshots : \A n \in DOMAIN snapshots[s].orders :
       LET e == snapshots[s].orders[n] IN
         /\ Came(e.id)
         /\ e.id \in Resting /\ left[e.id] = "full" => e.left = "full"
  /\ IsFiniteSet(sent)

\* A thread that sends an order does so because its plan says it is missing.
SendsWhatIsPlanned ==
  \A p \in Proc : thread[p].at = "sending" => thread[p].plan[thread[p].next] = "would_place"

\* No snapshot holds more of them than the account had, no more rest or may, and what a
\* restore has yet to post fits beside them.
SnapshotsFew(k) ==
  \A s \in DOMAIN snapshots :
    Cardinality(FullEntries(snapshots[s].orders, k)) <= Cardinality(Alike(k))
FullFew(k) == Cardinality(Full(k)) <= Cardinality(Alike(k))
PendingFew(p, k) ==
  thread[p].at \in Places1 =>
    Cardinality(Full(k)) + Cardinality(Pending(p, k)) <= Cardinality(Alike(k))
CountsFit ==
  \A o \in Order :
    /\ SnapshotsFew(KeyOf[o])
    /\ FullFew(KeyOf[o])
    /\ \A p \in Proc : PendingFew(p, KeyOf[o])

DInv == LInv /\ OneWorker /\ ThreadsAreAlive /\ SendsWhatIsPlanned /\ KnowsItsOrders /\ CountsFit

\* The least of some numbers: the one with the fewest of them below it.
LEMMA LeastIs ==
  ASSUME NEW W \in SUBSET Nat, IsFiniteSet(W), NEW T \in SUBSET W, T # {}
  PROVE  \E t \in T : \A m \in T : t <= m
<1>1. PICK R : R = StrictSubsetOrdering(W)
  OBVIOUS
<1>2. PICK below : below = [t \in T |-> {m \in W : m < t}]
  OBVIOUS
<1>3. PICK belows : belows = {below[t] : t \in T}
  OBVIOUS
<1>4. belows # {} /\ belows \subseteq FiniteSubsetsOf(W)
  <2>1. ASSUME NEW t \in T
        PROVE  below[t] \in SUBSET W /\ IsFiniteSet(below[t])
    <3>1. below[t] \in SUBSET W
      BY <1>2
    <3> QED
      BY <3>1, FS_Subset
  <2> QED
    BY <1>3, <2>1 DEF FiniteSubsetsOf
<1>5. IsWellFoundedOn(R, FiniteSubsetsOf(W))
  BY <1>1, FS_StrictSubsetOrderingWellFounded
<1>6. \E b \in belows : \A y \in belows : <<y, b>> \notin R
  BY <1>4, <1>5, WFMin
<1>7. PICK t \in T : \A m \in T : <<below[m], below[t]>> \notin R
  BY <1>3, <1>6
<1>8. ASSUME NEW m \in T, m < t
      PROVE  FALSE
  <2>1. m \in below[t] /\ m \notin below[m]
    BY <1>2, <1>8
  <2>2. below[m] \subseteq below[t] /\ below[t] \subseteq W
    <3>1. m \in Nat /\ t \in Nat /\ \A x \in W : x \in Nat
      OBVIOUS
    <3>2. \A x \in W : x < m => x < t
      BY <1>8, <3>1
    <3>3. below[m] = {x \in W : x < m} /\ below[t] = {x \in W : x < t}
      BY <1>2
    <3> QED
      BY <3>2, <3>3
  <2>3. <<below[m], below[t]>> \in R
    BY <1>1, <2>1, <2>2 DEF StrictSubsetOrdering
  <2> QED
    BY <1>7, <2>3
<1>9. \A m \in T : t <= m
  BY <1>8
<1> QED
  BY <1>9

\* Two sets with nothing in common.
LEMMA TogetherApart ==
  ASSUME NEW S, NEW T, IsFiniteSet(S), IsFiniteSet(T), S \cap T = {}
  PROVE  Cardinality(S \cup T) = Cardinality(S) + Cardinality(T)
<1>1. Cardinality(S \cup T) = Cardinality(S) + Cardinality(T) - Cardinality(S \cap T)
  BY FS_Union
<1>2. Cardinality(S \cap T) = 0
  BY FS_EmptySet
<1>3. Cardinality(S) \in Nat /\ Cardinality(T) \in Nat
  BY FS_CardinalityType
<1> QED
  BY <1>1, <1>2, <1>3

\* Of the numbers in W, all but the first c have more than c before or at them.
LEMMA BeyondTheFirst ==
  ASSUME NEW W \in SUBSET Nat, IsFiniteSet(W), NEW c \in Nat, NEW T \in SUBSET W, T # {},
         \A n \in T : Cardinality({m \in W : m <= n}) > c
  PROVE  Cardinality(T) + c <= Cardinality(W)
<1>1. PICK t \in T : \A m \in T : t <= m
  BY LeastIs
<1>2. PICK below \in SUBSET W : below = {m \in W : m < t}
  OBVIOUS
<1>3. IsFiniteSet(below) /\ IsFiniteSet(T)
  BY FS_Subset
<1>10. Cardinality(below) \in Nat /\ Cardinality(T) \in Nat
  BY <1>3, FS_CardinalityType
<1>0. t \in Nat /\ t \in W /\ \A x \in W : x \in Nat
  OBVIOUS
<1>4. {m \in W : m <= t} = below \cup {t} /\ t \notin below
  <2>1. \A x \in W : x <= t <=> x < t \/ x = t
    BY <1>0
  <2>2. ASSUME NEW x
        PROVE  x \in {m \in W : m <= t} <=> x \in below \cup {t}
    <3>1. x \in {m \in W : m <= t} <=> x \in W /\ x <= t
      OBVIOUS
    <3>2. x \in below <=> x \in W /\ x < t
      BY <1>2
    <3> QED
      BY <1>0, <2>1, <3>1, <3>2
  <2>3. ~(t < t)
    BY <1>0
  <2> QED
    BY <1>2, <2>2, <2>3
<1>5. Cardinality(below) >= c
  <2>1. Cardinality(below \cup {t}) = Cardinality(below) + 1
    <3>1. Cardinality(below \cup {t}) = IF t \in below THEN Cardinality(below)
                                                       ELSE Cardinality(below) + 1
      BY <1>3, FS_AddElement
    <3> QED
      BY <1>4, <3>1
  <2>2. Cardinality({m \in W : m <= t}) > c
    OBVIOUS
  <2>3. Cardinality(below \cup {t}) > c
    BY <1>4, <2>2
  <2> QED
    BY <1>10, <2>1, <2>3
<1>6. below \cap T = {} /\ below \cup T \in SUBSET W
  <2>1. \A x \in T : x \in W /\ ~(x < t)
    BY <1>0, <1>1
  <2> QED
    BY <1>2, <2>1
<1>7. Cardinality(below \cup T) = Cardinality(below) + Cardinality(T)
  BY <1>3, <1>6, TogetherApart
<1>8. Cardinality(below \cup T) <= Cardinality(W)
  BY <1>6, FS_Subset
<1>9. Cardinality(W) \in Nat
  BY FS_CardinalityType
<1> QED
  BY <1>10, <1>5, <1>7, <1>8, <1>9

\* The CLOB lists each of the account's orders once.
LEMMA ListedOnce ==
  ASSUME ConstantsAssumption
  PROVE  /\ IsFiniteSet(Order)
         /\ \A m, n \in DOMAIN Listed : Listed[m] = Listed[n] => m = n
<1>1. Listed \in Seq(Order) /\ Len(Listed) = Cardinality(Order)
      /\ \A o \in Order : \E n \in DOMAIN Listed : Listed[n] = o
  BY DEF ConstantsAssumption
<1>2. PICK k \in Nat : k = Len(Listed)
  BY <1>1
<1>3. DOMAIN Listed = 1..k /\ Listed \in [1..k -> Order]
  BY <1>1, <1>2
<1>4. Listed \in Surjection(1..k, Order)
  BY <1>1, <1>3 DEF Surjection
<1>5. IsFiniteSet(1..k) /\ Cardinality(1..k) = k
  <2>1. Cardinality(1..k) = IF 1 > k THEN 0 ELSE k - 1 + 1
    BY FS_Interval
  <2> QED
    BY <2>1, FS_Interval
<1>6. IsFiniteSet(Order)
  BY <1>4, <1>5, FS_Surjection
<1>8. Cardinality(1..k) = Cardinality(Order)
  BY <1>1, <1>2, <1>5
<1>7. Listed \in Injection(1..k, Order)
  BY <1>4, <1>5, <1>6, <1>8, FS_SurjSameCardinalityImpliesInj
<1> QED
  BY <1>3, <1>6, <1>7 DEF Injection, IsInjective

\* As many of one set as there are of another, or fewer.
LEMMA NoMoreThan ==
  ASSUME NEW S, NEW T, IsFiniteSet(T), NEW f, \A x \in S : f[x] \in T,
         \A x, y \in S : f[x] = f[y] => x = y
  PROVE  /\ IsFiniteSet(S)
         /\ Cardinality(S) <= Cardinality(T)
         /\ Cardinality(S) \in Nat /\ Cardinality(T) \in Nat
<1>1. PICK g : g = [x \in S |-> f[x]]
  OBVIOUS
<1>2. g \in [S -> T] /\ \A x, y \in S : g[x] = g[y] => x = y
  BY <1>1
<1>3. g \in Injection(S, T)
  BY <1>2 DEF Injection, IsInjective
<1> QED
  BY <1>3, FS_Injection, FS_CardinalityType

-----------------------------------------------------------------------------
(* The sets that are counted                                               *)

\* What rests was the account's or was accepted, so it is not still to be decided.
LEMMA Apart ==
  ASSUME LInv, KnowsItsOrders, NEW i \in sent
  PROVE  ~Came(i) /\ i \notin Resting
<1>1. i \notin placed /\ i.job \in DOMAIN jobs
  BY DEF LInv, Tells, PostsAreOfLines
<1>2. jobs \in Seq(JobRow)
  BY DEF LInv, QInv, Shapes
<1>3. i.job # 0
  BY <1>1, <1>2
<1>4. \A o \in Order : i # Original(o)
  BY <1>3 DEF Original
<1> QED
  BY <1>1, <1>4 DEF Came, From, KnowsItsOrders

LEMMA SequenceCounted ==
  ASSUME NEW S, NEW orders \in Seq(S), NEW k
  PROVE  /\ IsFiniteSet(FullEntries(orders, k))
         /\ DOMAIN orders \subseteq Nat
<1>1. PICK n \in Nat : n = Len(orders)
  OBVIOUS
<1>2. DOMAIN orders = 1..n
  BY <1>1
<1>3. IsFiniteSet(1..n)
  BY FS_Interval
<1>4. FullEntries(orders, k) \in SUBSET (1..n)
  BY <1>2 DEF FullEntries
<1> QED
  BY <1>2, <1>3, <1>4, FS_Subset

LEMMA EntriesCounted ==
  ASSUME LInv, NEW s \in DOMAIN snapshots, NEW k
  PROVE  /\ IsFiniteSet(FullEntries(snapshots[s].orders, k))
         /\ DOMAIN snapshots[s].orders \subseteq Nat
<1>1. PICK S : snapshots[s].orders \in Seq(S)
  BY DEF LInv, SnapshotsFit
<1> QED
  BY <1>1, SequenceCounted

LEMMA Counted ==
  ASSUME ConstantsAssumption, LInv, KnowsItsOrders, NEW k
  PROVE  /\ IsFiniteSet(Full(k)) /\ Cardinality(Full(k)) \in Nat
         /\ IsFiniteSet(Alike(k)) /\ Cardinality(Alike(k)) \in Nat
<1>1. IsFiniteSet(Resting \cup sent)
  BY FS_Union DEF LInv, SnapshotsFit, KnowsItsOrders
<1>2. Full(k) \in SUBSET (Resting \cup sent)
  BY DEF Full
<1>3. IsFiniteSet(Full(k))
  BY <1>1, <1>2, FS_Subset
<1>4. Alike(k) \in SUBSET Order
  BY DEF Alike
<1>5. IsFiniteSet(Alike(k))
  BY <1>4, ListedOnce, FS_Subset
<1> QED
  BY <1>3, <1>5, FS_CardinalityType

LEMMA PendingCounted ==
  ASSUME LInv, NEW p \in Proc, thread[p].at \in Places1, NEW k
  PROVE  /\ IsFiniteSet(Pending(p, k)) /\ Cardinality(Pending(p, k)) \in Nat
         /\ thread[p].job \in DOMAIN jobs
         /\ jobs[thread[p].job].snap \in DOMAIN snapshots
         /\ IsRestore(thread[p].job)
<1>1. Busy(p)
  BY DEF Busy, Places1, Posts1, Placing
<1>2. thread[p].job \in DOMAIN jobs /\ AtWork(p)
  BY <1>1 DEF LInv, QInv, ThreadsHaveJobs, Tells, ThreadsAtWork
<1>3. IsRestore(thread[p].job)
  BY <1>2 DEF AtWork
<1>4. jobs[thread[p].job].snap \in DOMAIN snapshots
  BY <1>2, <1>3 DEF LInv, SnapshotsFit, IsRestore, RestoreKinds
<1>5. IsFiniteSet(FullEntries(OrdersOf(thread[p].job), k))
  BY <1>4, EntriesCounted DEF OrdersOf
<1>6. Pending(p, k) \in SUBSET FullEntries(OrdersOf(thread[p].job), k)
  BY DEF Pending
<1>7. IsFiniteSet(Pending(p, k))
  BY <1>5, <1>6, FS_Subset
<1> QED
  BY <1>2, <1>3, <1>4, <1>7, FS_CardinalityType

\* The steps that leave what is posted and not decided alone.
LEMMA SentStays ==
  ASSUME Next, ~Exchange, ~\E p \in Proc : PostLeaves(p)
  PROVE  sent' = sent
<1>1. CASE Console
  BY <1>1 DEF Console, TakeSnapshot, Preview, PlaceRestore, Enqueue, exchange
<1>2. CASE \E j \in DOMAIN jobs : WaitsTooLong(j)
  BY <1>2 DEF WaitsTooLong, exchange
<1>3. ASSUME NEW p \in Proc, MainLoop(p) \/ StopSignal(p) \/ Crash(p)
      PROVE  sent' = sent
  BY <1>3 DEF MainLoop, StartWorker, FailRunning, LeaveLoop, StopWorker, Claim, StopSignal, Crash,
              exchange
<1>4. ASSUME NEW p \in Proc, Take(p) \/ StorePlan(p) \/ Plan(p) \/ Skips(p) \/ StoreLine(p)
                             \/ StoreFails(p) \/ Places(p)
      PROVE  sent' = sent
  BY <1>4 DEF Take, StorePlan, Plan, Skips, StoreLine, StoreFails, Places, Sends, Unsent,
              AnswerPosted, AnswerRejected, NoAnswer, exchange
<1>5. ASSUME NEW p \in Proc, Ends(p)
      PROVE  sent' = sent
  BY <1>5 DEF Ends, Refuses, StopsEarly, AllLines, Finish, FinishFails, exchange
<1> QED
  BY <1>1, <1>2, <1>3, <1>4, <1>5 DEF Next, JobThread

\* A post is for the order it was for.
LEMMA LeftOfKept ==
  ASSUME LInv, KeepsOrders, NEW i \in sent
  PROVE  LeftOf(i)' = LeftOf(i)
<1>1. i.job \in DOMAIN jobs /\ IsRestore(i.job)
  BY DEF LInv, Tells, PostsAreOfLines
<1>2. OrdersOf(i.job)' = OrdersOf(i.job)
  BY <1>1 DEF KeepsOrders, IsRestore, RestoreKinds
<1> QED
  BY <1>2 DEF LeftOf, OrdersOf

\* No step adds an untouched order, but a post that leaves.
LEMMA FullStep ==
  ASSUME ConstantsAssumption, LInv, KnowsItsOrders, Next, ~\E p \in Proc : PostLeaves(p), NEW k
  PROVE  Full(k)' \subseteq Full(k)
<1>1. KeepsOrders
  BY OrdersKept DEF LInv
<1>2. ASSUME NEW i \in Resting' \cup sent',
             i \in Resting \cup sent, i \in sent' <=> i \in sent,
             i \notin sent => (left'[i] = "full" => left[i] = "full"),
             LeftNow(i)' = "full"
      PROVE  LeftNow(i) = "full"
  BY <1>1, <1>2, LeftOfKept DEF LeftNow
<1>3. ASSUME NEW e \in sent, Accept(e)
      PROVE  Full(k)' \subseteq Full(k)
  <2>1. /\ sent' = sent \ {e} /\ Resting' = Resting \cup {e}
        /\ \A i \in Resting : i # e => left'[i] = left[i]
        /\ left'[e] = LeftOf(e)
    BY <1>3 DEF Accept, Resting
  <2>2. LeftNow(e)' = LeftNow(e)
    BY <2>1 DEF LeftNow
  <2>3. ASSUME NEW i \in Resting' \cup sent', i # e, LeftNow(i)' = "full"
        PROVE  i \in Resting \cup sent /\ LeftNow(i) = "full"
    BY <1>2, <2>1, <2>3
  <2> QED
    BY <2>1, <2>2, <2>3 DEF Full
<1>4. ASSUME NEW e \in sent, Refuse(e)
      PROVE  Full(k)' \subseteq Full(k)
  <2>1. sent' = sent \ {e} /\ Resting' = Resting /\ left' = left /\ e \notin Resting
    BY <1>4, Apart DEF Refuse, Resting
  <2>2. ASSUME NEW i \in Resting' \cup sent', LeftNow(i)' = "full"
        PROVE  i \in Resting \cup sent /\ LeftNow(i) = "full"
    BY <1>2, <2>1, <2>2
  <2> QED
    BY <2>2 DEF Full
<1>5. ASSUME NEW e \in Resting, Leaves(e)
      PROVE  Full(k)' \subseteq Full(k)
  <2>1. /\ sent' = sent /\ Resting' = Resting \ {e}
        /\ \A i \in Resting : i # e => left'[i] = left[i]
    BY <1>5 DEF Leaves, Resting
  <2>2. ASSUME NEW i \in Resting' \cup sent', LeftNow(i)' = "full"
        PROVE  i \in Resting \cup sent /\ LeftNow(i) = "full"
    BY <1>2, <2>1, <2>2
  <2> QED
    BY <2>2 DEF Full
<1>6. ASSUME NEW e \in Resting, Fills(e)
      PROVE  Full(k)' \subseteq Full(k)
  <2>1. /\ sent' = sent /\ Resting' = Resting
        /\ \A i \in Resting : i # e => left'[i] = left[i]
        /\ left'[e] # "full"
    BY <1>6 DEF Fills, Resting
  <2>2. ASSUME NEW i \in Resting' \cup sent', LeftNow(i)' = "full"
        PROVE  i \in Resting \cup sent /\ LeftNow(i) = "full"
    BY <1>2, <2>1, <2>2
  <2> QED
    BY <2>2 DEF Full
<1>7. CASE ~Exchange
  <2>1. left' = left /\ sent' = sent /\ Resting' = Resting
    BY <1>7, ExchangeAlone, SentStays DEF Resting
  <2>2. ASSUME NEW i \in Resting' \cup sent', LeftNow(i)' = "full"
        PROVE  i \in Resting \cup sent /\ LeftNow(i) = "full"
    BY <1>2, <2>1, <2>2
  <2> QED
    BY <2>2 DEF Full
<1> QED
  BY <1>3, <1>4, <1>5, <1>6, <1>7 DEF Exchange

\* A post that leaves adds itself, if the order it is for was untouched.
LEMMA FullGrows ==
  ASSUME ConstantsAssumption, LInv, KnowsItsOrders, Next, NEW p \in Proc, PostLeaves(p), NEW k
  PROVE  /\ Full(k)' \subseteq Full(k) \cup {Posting(p)}
         /\ Posting(p) \in Full(k)' =>
              FullEntry(OrdersOf(thread[p].job)[thread[p].next], k)
<1>1. KeepsOrders
  BY OrdersKept DEF LInv
<1>2. /\ sent' = sent \cup {Posting(p)} /\ left' = left /\ Resting' = Resting
      /\ UNCHANGED <<jobs, snapshots>>
  BY DEF PostLeaves, Resting, db
<1>3. ASSUME NEW i \in Resting' \cup sent', i # Posting(p), LeftNow(i)' = "full"
      PROVE  i \in Resting \cup sent /\ LeftNow(i) = "full"
  BY <1>1, <1>2, <1>3, LeftOfKept DEF LeftNow
<1>4. PICK post : post = Posting(p)
  OBVIOUS
<1>5. /\ post.root = OrdersOf(thread[p].job)[thread[p].next].id.root
      /\ post.job = thread[p].job /\ post.pos = thread[p].next
  BY <1>4 DEF Posting, EntryOf, JobOf, OrdersOf
<1>6. LeftNow(post)' = OrdersOf(thread[p].job)[thread[p].next].left
  BY <1>2, <1>4, <1>5 DEF LeftNow, LeftOf, OrdersOf
<1>7. post \in Full(k)' => FullEntry(OrdersOf(thread[p].job)[thread[p].next], k)
  BY <1>5, <1>6 DEF Full, FullEntry
<1> QED
  BY <1>3, <1>4, <1>7 DEF Full

-----------------------------------------------------------------------------
(* A thread on its way through its plan                                    *)

LEMMA ThreadMoves ==
  ASSUME LInv, Next, NEW p \in Proc
  PROVE  thread'[p] = thread[p] \/ JobThread(p) \/ thread'[p].at \in {"idle", "begin"}
<1>1. Shapes
  BY DEF LInv, QInv
<1>2. CASE thread' = thread
  BY <1>2
<1>3. ASSUME NEW q \in Proc, Claim(q)
      PROVE  thread'[p] = thread[p] \/ thread'[p].at \in {"idle", "begin"}
  <2>1. PICK j \in DOMAIN jobs :
          thread' = [thread EXCEPT ![q] = [IdleThread EXCEPT !.at = "begin", !.job = j]]
    BY <1>1, <1>3, ClaimMoves
  <2> QED
    BY <1>1, <2>1 DEF Shapes, IdleThread
<1>4. ASSUME NEW q \in Proc, Crash(q)
      PROVE  thread'[p] = thread[p] \/ thread'[p].at \in {"idle", "begin"}
  BY <1>1, <1>4, ThreadEnds
<1>5. ASSUME NEW q \in Proc, JobThread(q), q # p
      PROVE  thread'[p] = thread[p]
  <2>1. CASE Finish(q) \/ FinishFails(q)
    BY <1>1, <1>5, <2>1, ThreadEnds
  <2> QED
    BY <1>1, <1>5, <2>1, ThreadGoesOn
<1> QED
  BY <1>2, <1>3, <1>4, <1>5, ThreadsStay

\* With its plan made, a thread keeps it and goes on through it; it sends what is missing.
GoesThrough(p) ==
  /\ thread[p].at \in Places1
  /\ thread'[p].job = thread[p].job
  /\ thread'[p].plan = thread[p].plan
  /\ Onward(p) \in Nat /\ Onward(p)' \in Nat /\ Onward(p)' >= Onward(p)
  /\ thread'[p].at = "sending" => thread'[p].plan[thread'[p].next] = "would_place"

LEMMA GoesOnThrough ==
  ASSUME LInv, NEW p \in Proc, thread[p].at \in Places1, NEW stage \in Places1 \ {"line"},
         Goes(p, stage),
         stage = "sending" =>
           thread[p].at = "line" /\ thread[p].plan[thread[p].next] = "would_place"
  PROVE  GoesThrough(p)
<1>1. stage \in ThreadStage \ {"idle"}
  BY DEF Places1, Posts1, Placing, ThreadStage
<1>2. thread \in [Proc -> ThreadRow] /\ Busy(p)
  BY DEF LInv, Tells, LinesFit, Busy, Places1, Posts1, Placing
<1>3. /\ thread'[p].job = thread[p].job /\ thread'[p].at = stage
      /\ thread'[p].plan = thread[p].plan /\ thread'[p].next = thread[p].next
  BY <1>1, <1>2, GoesMoves DEF MovesOn
<1>4. thread[p].next \in Nat
  BY <1>2 DEF ThreadRow
<1> QED
  BY <1>3, <1>4 DEF GoesThrough, Onward

LEMMA PlacesOn ==
  ASSUME LInv, NEW p \in Proc, JobThread(p), ~Plan(p), thread'[p].at \in Places1,
         SendsWhatIsPlanned
  PROVE  GoesThrough(p)
<1>1. thread \in [Proc -> ThreadRow]
  BY DEF LInv, Tells, LinesFit
<1>2. ASSUME NEW stage \in ThreadStage \ {"idle"}, Goes(p, stage)
      PROVE  thread'[p].at = stage
  BY <1>1, <1>2 DEF Goes
<1>3. CASE Take(p) \/ StorePlan(p) \/ AllLines(p)
  <2>1. Goes(p, "done") /\ "done" \in ThreadStage \ {"idle"}
    BY <1>3 DEF Take, StorePlan, AllLines, ThreadStage
  <2> QED
    BY <1>2, <2>1 DEF Places1, Posts1, Placing
<1>4. CASE StoreFails(p) \/ Refuses(p) \/ StopsEarly(p)
  <2>1. Goes(p, "failed") /\ "failed" \in ThreadStage \ {"idle"}
    BY <1>4 DEF StoreFails, Refuses, StopsEarly, ThreadStage
  <2> QED
    BY <1>2, <2>1 DEF Places1, Posts1, Placing
<1>5. CASE Finish(p) \/ FinishFails(p)
  <2>1. thread'[p].at = "idle"
    BY <1>5, ThreadEnds DEF LInv, QInv
  <2> QED
    BY <2>1 DEF Places1, Posts1, Placing
<1>6. CASE Skips(p)
  <2>1. thread' = [thread EXCEPT ![p].next = @ + 1] /\ thread[p].at = "line"
    BY <1>6 DEF Skips, AtLine
  <2>2. PICK row : row = [thread[p] EXCEPT !.next = thread[p].next + 1]
    OBVIOUS
  <2>3. thread'[p] = row /\ thread[p] \in ThreadRow
    BY <1>1, <2>1, <2>2
  <2>4. /\ row.at = "line" /\ row.job = thread[p].job /\ row.plan = thread[p].plan
        /\ row.next = thread[p].next + 1 /\ thread[p].next \in Nat
    BY <2>1, <2>2, <2>3 DEF ThreadRow
  <2> QED
    BY <2>1, <2>3, <2>4 DEF GoesThrough, Onward, Places1
<1>7. CASE StoreLine(p)
  <2>1. PICK u : thread' = [thread EXCEPT ![p] =
                    [@ EXCEPT !.at = "line", !.next = thread[p].next + 1, !.unanswered = u]]
    BY <1>7 DEF StoreLine
  <2>2. PICK row : row = [thread[p] EXCEPT !.at = "line", !.next = thread[p].next + 1,
                                           !.unanswered = u]
    OBVIOUS
  <2>3. thread'[p] = row /\ thread[p] \in ThreadRow
    BY <1>1, <2>1, <2>2
  <2>4. /\ row.at = "line" /\ row.job = thread[p].job /\ row.plan = thread[p].plan
        /\ row.next = thread[p].next + 1 /\ thread[p].next \in Nat
    BY <2>2, <2>3 DEF ThreadRow
  <2>5. thread[p].at \in Placing /\ thread[p].at \notin {"line", "sending"}
    BY <1>7 DEF StoreLine, Placing
  <2> QED
    BY <2>3, <2>4, <2>5 DEF GoesThrough, Onward, Places1, Posts1
<1>8. ASSUME NEW stage \in Places1 \ {"line"}, Goes(p, stage), thread[p].at \in Places1,
             stage = "sending" =>
               thread[p].at = "line" /\ thread[p].plan[thread[p].next] = "would_place"
      PROVE  GoesThrough(p)
  BY <1>8, GoesOnThrough
<1>9. CASE Sends(p)
  <2>1. Goes(p, "sending") /\ thread[p].at = "line"
        /\ thread[p].plan[thread[p].next] = "would_place"
    BY <1>9 DEF Sends, AtLine
  <2> QED
    BY <1>8, <2>1 DEF Places1, Posts1
<1>10. CASE Unsent(p)
  <2>1. Goes(p, "unsent") /\ thread[p].at = "sending"
    BY <1>10 DEF Unsent
  <2> QED
    BY <1>8, <2>1 DEF Places1, Posts1, Placing
<1>11. CASE PostLeaves(p)
  <2>1. Goes(p, "out") /\ thread[p].at = "sending"
    BY <1>11 DEF PostLeaves
  <2> QED
    BY <1>8, <2>1 DEF Places1, Posts1
<1>12. CASE AnswerPosted(p)
  <2>1. Goes(p, "placed") /\ thread[p].at = "out"
    BY <1>12 DEF AnswerPosted
  <2> QED
    BY <1>8, <2>1 DEF Places1, Posts1, Placing
<1>13. CASE AnswerRejected(p)
  <2>1. Goes(p, "rejected") /\ thread[p].at = "out"
    BY <1>13 DEF AnswerRejected
  <2> QED
    BY <1>8, <2>1 DEF Places1, Posts1, Placing
<1>14. CASE NoAnswer(p)
  <2>1. Goes(p, "may_rest") /\ thread[p].at = "out"
    BY <1>14 DEF NoAnswer
  <2> QED
    BY <1>8, <2>1 DEF Places1, Posts1, Placing
<1> QED
  BY <1>3, <1>4, <1>5, <1>6, <1>7, <1>9, <1>10, <1>11, <1>12, <1>13, <1>14
     DEF JobThread, Places, Ends

\* What it has yet to post does not grow.
LEMMA PendingShrinks ==
  ASSUME LInv, KeepsOrders, NEW p \in Proc, thread[p].at \in Places1, NEW k,
         thread'[p] = thread[p] \/ GoesThrough(p)
  PROVE  Pending(p, k)' \subseteq {n \in Pending(p, k) : n >= Onward(p)'}
<1>1. IsRestore(thread[p].job) /\ thread[p].job \in DOMAIN jobs
  BY PendingCounted
<1>2. OrdersOf(thread[p].job)' = OrdersOf(thread[p].job) /\ thread'[p].job = thread[p].job
      /\ thread'[p].plan = thread[p].plan
  <2>1. thread'[p].job = thread[p].job /\ thread'[p].plan = thread[p].plan
    BY DEF GoesThrough
  <2>2. snapshots'[jobs'[thread[p].job].snap].orders = OrdersOf(thread[p].job)
    BY <1>1 DEF KeepsOrders, IsRestore, RestoreKinds, OrdersOf
  <2> QED
    BY <2>1, <2>2 DEF OrdersOf
<1>3. FullEntries(OrdersOf(thread[p].job), k)' = FullEntries(OrdersOf(thread[p].job), k)
  BY <1>2 DEF FullEntries, FullEntry
<1>4. \A n \in FullEntries(OrdersOf(thread[p].job), k) : n \in Nat
  <2>1. jobs[thread[p].job].snap \in DOMAIN snapshots
    BY PendingCounted
  <2> QED
    BY <2>1, EntriesCounted DEF FullEntries, OrdersOf
<1>5. Onward(p) \in Nat /\ Onward(p)' \in Nat /\ Onward(p)' >= Onward(p)
  <2>1. thread \in [Proc -> ThreadRow]
    BY DEF LInv, Tells, LinesFit
  <2>2. thread[p].next \in Nat
    BY <2>1 DEF ThreadRow
  <2>3. CASE thread'[p] = thread[p]
    BY <2>2, <2>3 DEF Onward
  <2>4. CASE GoesThrough(p)
    BY <2>4 DEF GoesThrough
  <2> QED
    BY <2>3, <2>4
<1> QED
  BY <1>2, <1>3, <1>4, <1>5 DEF Pending

LEMMA SendsStep ==
  ASSUME LInv, SendsWhatIsPlanned, Next
  PROVE  SendsWhatIsPlanned'
<1> SUFFICES ASSUME NEW p \in Proc, thread'[p].at = "sending"
             PROVE  thread'[p].plan[thread'[p].next] = "would_place"
  BY DEF SendsWhatIsPlanned
<1>1. CASE thread'[p] = thread[p]
  BY <1>1 DEF SendsWhatIsPlanned
<1>2. CASE Plan(p)
  <2>1. PICK plan : thread' = [thread EXCEPT ![p] =
                       [@ EXCEPT !.at = "line", !.next = 1, !.plan = plan]]
    BY <1>2 DEF Plan
  <2>2. thread \in [Proc -> ThreadRow]
    BY DEF LInv, Tells, LinesFit
  <2>3. thread'[p].at = "line"
    BY <2>1, <2>2 DEF ThreadRow
  <2> QED
    BY <2>3
<1>3. CASE JobThread(p) /\ ~Plan(p)
  BY <1>3, PlacesOn DEF GoesThrough, Places1, Posts1
<1> QED
  BY <1>1, <1>2, <1>3, ThreadMoves

-----------------------------------------------------------------------------
(* A snapshot has what rests, each once                                    *)

LEMMA NotBeforeItself ==
  ASSUME ConstantsAssumption, LInv, NEW i, Came(i)
  PROVE  ~ListedBefore(i, i)
<1>1. CASE \E o \in Order : i = Original(o)
  <2>1. i.job = 0 /\ i.pos = 0
    BY <1>1 DEF Original
  <2>2. \A m, n \in DOMAIN Listed : ~(m < n /\ Listed[m] = i.root /\ Listed[n] = i.root)
    <3>1. \A m, n \in DOMAIN Listed : Listed[m] = Listed[n] => m = n
      BY ListedOnce
    <3>2. DOMAIN Listed \subseteq Nat
      BY DEF ConstantsAssumption
    <3> QED
      BY <3>1, <3>2
  <2> QED
    BY <2>1, <2>2 DEF ListedBefore
<1>2. CASE i \in placed
  <2>1. i.job \in DOMAIN jobs /\ i.pos \in 1..Len(lines[i.job]) + 1
    BY <1>2 DEF LInv, Tells, PostsAreOfLines
  <2>2. jobs \in Seq(JobRow) /\ lines \in Seq(Seq(Line)) /\ Len(lines) = Len(jobs)
    BY DEF LInv, Tells, LinesFit, QInv, Shapes
  <2>3. i.job \in Nat /\ i.job # 0 /\ i.pos \in Nat
    BY <2>1, <2>2
  <2> QED
    BY <2>3 DEF ListedBefore
<1> QED
  BY <1>1, <1>2 DEF Came, From

LEMMA TakeFew ==
  ASSUME ConstantsAssumption, LInv, KnowsItsOrders, sent = {}, NEW k,
         NEW listed \in [1..Cardinality(Resting) -> Resting],
         \A m, n \in DOMAIN listed : m < n => ListedBefore(listed[m], listed[n])
  PROVE  Cardinality(FullEntries(EntriesOf(listed), k)) <= Cardinality(Full(k))
<1>1. PICK N \in Nat : N = Cardinality(Resting)
  BY FS_CardinalityType DEF LInv, SnapshotsFit
<1>2. DOMAIN listed = 1..N /\ \A n \in 1..N : listed[n] \in Resting
  BY <1>1
<1>3. \A m, n \in 1..N : listed[m] = listed[n] => m = n
  <2> SUFFICES ASSUME NEW m \in 1..N, NEW n \in 1..N, m < n, listed[m] = listed[n]
               PROVE  FALSE
    BY <1>1
  <2>1. ListedBefore(listed[m], listed[m])
    BY <1>2
  <2>2. Came(listed[m])
    BY <1>2 DEF KnowsItsOrders
  <2> QED
    BY <2>1, <2>2, NotBeforeItself
<1>4. \A n \in FullEntries(EntriesOf(listed), k) : n \in 1..N /\ listed[n] \in Full(k)
  BY <1>2 DEF FullEntries, FullEntry, EntriesOf, Full, LeftNow
<1>5. PICK S : S = FullEntries(EntriesOf(listed), k)
  OBVIOUS
<1>6. IsFiniteSet(Full(k))
  BY Counted
<1> QED
  BY <1>3, <1>4, <1>5, <1>6, NoMoreThan

-----------------------------------------------------------------------------
(* A plan has no more to place than is missing                             *)

\* The entries a plan looks for copies of.
Wants(j, soon, n) ==
  Barred(jobs[j], soon, OrdersOf(j)[n]) = "no" /\ OrdersOf(j)[n].id \notin Resting
WantedOf(j, soon, k) == {n \in FullEntries(OrdersOf(j), k) : Wants(j, soon, n)}
Missing(j, soon, k) ==
  {n \in FullEntries(OrdersOf(j), k) : PlanOf(jobs[j], soon)[n] = "would_place"}

\* The untouched orders the snapshot does not know, and those it does.
Strangers(j, k) == {i \in Resting \ Ids(OrdersOf(j)) : KeyOf[i.root] = k /\ left[i] = "full"}
Friends(j, k) == Full(k) \cap Ids(OrdersOf(j))

\* What is missing is wanted, and comes after as many that are as there are strangers.
LEMMA MissingIs ==
  ASSUME LInv, NEW j \in DOMAIN jobs, IsRestore(j), NEW soon, NEW k,
         NEW n \in Missing(j, soon, k)
  PROVE  /\ n \in WantedOf(j, soon, k)
         /\ ~(Cardinality({m \in WantedOf(j, soon, k) : m <= n}) <= Cardinality(Strangers(j, k)))
<1>1. PICK entries : entries = OrdersOf(j)
  OBVIOUS
<1>2. n \in DOMAIN entries /\ FullEntry(entries[n], k) /\ PlanOf(jobs[j], soon)[n] = "would_place"
  BY <1>1 DEF Missing, FullEntries
<1>3. \A e : Barred(jobs[j], soon, e) # "would_place"
  BY DEF Barred
<1>4. PICK rank : rank = {m \in 1..n : Wants(j, soon, m) /\ Key(entries[m]) = Key(entries[n])}
  OBVIOUS
<1>5. PlanOf(jobs[j], soon)[n] =
        IF Barred(jobs[j], soon, entries[n]) # "no" THEN Barred(jobs[j], soon, entries[n])
        ELSE IF ~Wants(j, soon, n) \/ Cardinality(rank) <= Cardinality(Copies(entries, entries[n]))
             THEN "live" ELSE "would_place"
  BY <1>1, <1>2, <1>4 DEF PlanOf, Wants, OrdersOf
<1>6. Wants(j, soon, n) /\ ~(Cardinality(rank) <= Cardinality(Copies(entries, entries[n])))
  BY <1>2, <1>3, <1>5
<1>7. n \in WantedOf(j, soon, k)
  BY <1>1, <1>2, <1>6 DEF WantedOf, FullEntries
<1>8. rank = {m \in WantedOf(j, soon, k) : m <= n}
  <2>1. jobs[j].snap \in DOMAIN snapshots
    BY DEF LInv, SnapshotsFit, IsRestore, RestoreKinds
  <2>2. PICK S : entries \in Seq(S)
    BY <1>1, <2>1 DEF LInv, SnapshotsFit, OrdersOf
  <2>3. PICK N \in Nat : DOMAIN entries = 1..N
    BY <2>2
  <2>4. \A m : m \in 1..n <=> m \in DOMAIN entries /\ m <= n
    BY <1>2, <2>3
  <2>5. \A m : Key(entries[m]) = Key(entries[n]) <=> FullEntry(entries[m], k)
    BY <1>2 DEF Key, FullEntry
  <2> QED
    BY <1>1, <1>4, <2>4, <2>5 DEF WantedOf, FullEntries
<1>9. Copies(entries, entries[n]) = Strangers(j, k)
  BY <1>1, <1>2 DEF Copies, Strangers, Key, FullEntry
<1> QED
  BY <1>6, <1>7, <1>8, <1>9

\* An untouched order the snapshot knows is untouched there, and is not wanted.
LEMMA FriendsFew ==
  ASSUME LInv, KnowsItsOrders, sent = {}, NEW j \in DOMAIN jobs, IsRestore(j), NEW soon, NEW k
  PROVE  Cardinality(Friends(j, k)) + Cardinality(WantedOf(j, soon, k))
           <= Cardinality(FullEntries(OrdersOf(j), k))
<1>1. PICK FE, W, H : /\ FE = FullEntries(OrdersOf(j), k) /\ W = WantedOf(j, soon, k)
                      /\ H = Friends(j, k)
  OBVIOUS
<1>2. jobs[j].snap \in DOMAIN snapshots
  BY DEF LInv, SnapshotsFit, IsRestore, RestoreKinds
<1>3. IsFiniteSet(FE)
  BY <1>1, <1>2, EntriesCounted DEF OrdersOf
<1>4. W \in SUBSET FE /\ FE \ W \in SUBSET FE
  BY <1>1 DEF WantedOf
<1>5. IsFiniteSet(W) /\ IsFiniteSet(FE \ W)
  BY <1>3, <1>4, FS_Subset
<1>6. Cardinality(FE) = Cardinality(FE \ W) + Cardinality(W)
  <2>1. (FE \ W) \cup W = FE /\ (FE \ W) \cap W = {}
    BY <1>4
  <2>2. Cardinality((FE \ W) \cup W) = Cardinality(FE \ W) + Cardinality(W)
    BY <1>5, <2>1, TogetherApart
  <2> QED
    BY <2>1, <2>2
<1>7. PICK f : f = [h \in H |-> CHOOSE n \in DOMAIN OrdersOf(j) : OrdersOf(j)[n].id = h]
  OBVIOUS
<1>8. \A h \in H : f[h] \in DOMAIN OrdersOf(j) /\ OrdersOf(j)[f[h]].id = h
  <2> SUFFICES ASSUME NEW h \in H
               PROVE  f[h] \in DOMAIN OrdersOf(j) /\ OrdersOf(j)[f[h]].id = h
    OBVIOUS
  <2>1. \E n \in DOMAIN OrdersOf(j) : OrdersOf(j)[n].id = h
    BY <1>1 DEF Friends, Ids
  <2> QED
    BY <1>7, <2>1
<1>9. \A h \in H : f[h] \in FE \ W
  <2> SUFFICES ASSUME NEW h \in H
               PROVE  f[h] \in FE \ W
    OBVIOUS
  <2>1. h \in Resting /\ KeyOf[h.root] = k /\ left[h] = "full"
    BY <1>1 DEF Friends, Full, LeftNow
  <2>2. OrdersOf(j)[f[h]].left = "full"
    BY <1>2, <1>8, <2>1 DEF KnowsItsOrders, OrdersOf
  <2> QED
    BY <1>1, <1>8, <2>1, <2>2 DEF FullEntries, FullEntry, WantedOf, Wants
<1>10. \A g, h \in H : f[g] = f[h] => g = h
  BY <1>8
<1>11. Cardinality(H) <= Cardinality(FE \ W) /\ Cardinality(H) \in Nat
       /\ Cardinality(FE \ W) \in Nat
  BY <1>5, <1>9, <1>10, NoMoreThan
<1>12. Cardinality(W) \in Nat
  BY <1>5, FS_CardinalityType
<1> QED
  BY <1>1, <1>6, <1>11, <1>12

LEMMA PlanFew ==
  ASSUME ConstantsAssumption, LInv, KnowsItsOrders, sent = {},
         NEW j \in DOMAIN jobs, IsRestore(j), NEW soon, NEW k, SnapshotsFew(k), FullFew(k)
  PROVE  Cardinality(Full(k)) + Cardinality(Missing(j, soon, k)) <= Cardinality(Alike(k))
<1>1. PICK T, W, C, H : /\ T = Missing(j, soon, k) /\ W = WantedOf(j, soon, k)
                        /\ C = Strangers(j, k) /\ H = Friends(j, k)
  OBVIOUS
<1>2. Full(k) = C \cup H /\ C \cap H = {} /\ C \in SUBSET Full(k) /\ H \in SUBSET Full(k)
  BY <1>1 DEF Full, LeftNow, Strangers, Friends
<1>3. /\ IsFiniteSet(C) /\ IsFiniteSet(H)
      /\ Cardinality(Full(k)) \in Nat /\ Cardinality(Alike(k)) \in Nat
  BY <1>2, Counted, FS_Subset
<1>4. Cardinality(C) \in Nat /\ Cardinality(H) \in Nat
  BY <1>3, FS_CardinalityType
<1>5. Cardinality(Full(k)) = Cardinality(C) + Cardinality(H)
  <2>1. Cardinality(C \cup H) = Cardinality(C) + Cardinality(H)
    BY <1>2, <1>3, TogetherApart
  <2> QED
    BY <1>2, <2>1
<1>6. CASE T = {}
  <2>1. Cardinality(T) = 0
    BY <1>6, FS_EmptySet
  <2> QED
    BY <1>1, <1>3, <2>1 DEF FullFew
<1>7. CASE T # {}
  <2>1. jobs[j].snap \in DOMAIN snapshots
    BY DEF LInv, SnapshotsFit, IsRestore, RestoreKinds
  <2>2. PICK FE : FE = FullEntries(OrdersOf(j), k)
    OBVIOUS
  <2>3. IsFiniteSet(FE) /\ FE \subseteq Nat
    BY <2>1, <2>2, EntriesCounted DEF OrdersOf, FullEntries
  <2>4. W \in SUBSET FE /\ T \in SUBSET W
    BY <1>1, <2>2, MissingIs DEF WantedOf
  <2>5. IsFiniteSet(W) /\ IsFiniteSet(T) /\ W \in SUBSET Nat
    BY <2>3, <2>4, FS_Subset
  <2>6. Cardinality(W) \in Nat /\ Cardinality(T) \in Nat /\ Cardinality(FE) \in Nat
    BY <2>3, <2>5, FS_CardinalityType
  <2>7. ASSUME NEW n \in T
        PROVE  Cardinality({m \in W : m <= n}) > Cardinality(C)
    <3>1. ~(Cardinality({m \in W : m <= n}) <= Cardinality(C))
      BY <1>1, MissingIs
    <3>2. {m \in W : m <= n} \in SUBSET W
      OBVIOUS
    <3>3. IsFiniteSet({m \in W : m <= n})
      BY <2>5, <3>2, FS_Subset
    <3>4. Cardinality({m \in W : m <= n}) \in Nat
      BY <3>3, FS_CardinalityType
    <3> QED
      BY <1>4, <3>1, <3>4
  <2>8. Cardinality(T) + Cardinality(C) <= Cardinality(W)
    BY <1>4, <1>7, <2>4, <2>5, <2>7, BeyondTheFirst
  <2>9. Cardinality(H) + Cardinality(W) <= Cardinality(FE)
    BY <1>1, <2>2, FriendsFew
  <2>10. Cardinality(FE) <= Cardinality(Alike(k))
    BY <2>1, <2>2 DEF SnapshotsFew, OrdersOf
  <2> QED
    BY <1>1, <1>3, <1>4, <1>5, <2>6, <2>8, <2>9, <2>10
<1> QED
  BY <1>6, <1>7

-----------------------------------------------------------------------------
(* The counts over a step                                                  *)

LEMMA OneThread ==
  ASSUME OneWorker, ThreadsAreAlive, NEW p \in Proc, NEW q \in Proc, Busy(p), Busy(q)
  PROVE  p = q
BY DEF OneWorker, ThreadsAreAlive, Alive

\* A snapshot that is new is of what rests now, when no post is undecided.
LEMMA NewSnapshot ==
  ASSUME LInv, Next, NEW s \in DOMAIN snapshots'
  PROVE  \/ s \in DOMAIN snapshots /\ snapshots'[s] = snapshots[s]
         \/ /\ sent = {} /\ UNCHANGED <<left, placed>>
            /\ \E listed \in [1..Cardinality(Resting) -> Resting] :
                 /\ \A m, n \in DOMAIN listed : m < n => ListedBefore(listed[m], listed[n])
                 /\ snapshots'[s].orders = EntriesOf(listed)
<1>1. CASE snapshots' = snapshots
  BY <1>1
<1>2. ASSUME NEW p \in Proc, Take(p)
      PROVE  \/ s \in DOMAIN snapshots /\ snapshots'[s] = snapshots[s]
             \/ /\ sent = {} /\ UNCHANGED <<left, placed>>
                /\ \E listed \in [1..Cardinality(Resting) -> Resting] :
                     /\ \A m, n \in DOMAIN listed : m < n => ListedBefore(listed[m], listed[n])
                     /\ snapshots'[s].orders = EntriesOf(listed)
  <2>1. sent = {} /\ UNCHANGED <<left, placed>>
    BY <1>2 DEF Take, CanRun, exchange
  <2>2. PICK listed \in [1..Cardinality(Resting) -> Resting] :
          /\ \A m, n \in DOMAIN listed : m < n => ListedBefore(listed[m], listed[n])
          /\ snapshots' = Append(snapshots,
               [orders |-> EntriesOf(listed), farmer |-> Known(JobOf(p).managed)])
    BY <1>2 DEF Take
  <2>3. PICK e : snapshots' = Append(snapshots, e) /\ e.orders = EntriesOf(listed)
    BY <2>2
  <2>4. PICK T : snapshots \in Seq(T)
    BY DEF LInv, QInv, SnapshotsAreASequence
  <2>5. snapshots \in Seq(T \cup {e}) /\ e \in T \cup {e}
    BY <2>4
  <2>6. \/ s \in DOMAIN snapshots /\ snapshots'[s] = snapshots[s]
        \/ snapshots'[s] = e
    BY <2>3, <2>5
  <2> QED
    BY <2>1, <2>2, <2>3, <2>6
<1> QED
  BY <1>1, <1>2, OnlyTakeAdds

\* What came from somewhere is untouched only if it was.
LEMMA LeftStep ==
  ASSUME LInv, KnowsItsOrders, Next
  PROVE  /\ \A i : Came(i) => From(i, placed')
         /\ \A i \in Resting' : From(i, placed')
         /\ \A i : Came(i) /\ i \in Resting' /\ left'[i] = "full" =>
              i \in Resting /\ left[i] = "full"
<1>1. ASSUME NEW e \in sent, Accept(e)
      PROVE  /\ placed \subseteq placed'
             /\ \A i \in Resting' : i \in Resting \/ i \in placed'
             /\ \A i : i # e /\ i \in Resting' => i \in Resting /\ left'[i] = left[i]
             /\ ~Came(e)
  <2>1. ~Came(e)
    BY Apart
  <2> QED
    BY <1>1, <2>1 DEF Accept, Resting
<1>2. ASSUME NEW e \in Resting, Leaves(e) \/ Fills(e)
      PROVE  /\ placed' = placed
             /\ \A i \in Resting' : i \in Resting
             /\ \A i \in Resting' : left'[i] = "full" => left[i] = "full"
  <2>1. CASE Leaves(e)
    BY <2>1 DEF Leaves, Resting
  <2>2. CASE Fills(e)
    <3>1. /\ placed' = placed /\ DOMAIN left' = DOMAIN left
          /\ \A i \in DOMAIN left : i # e => left'[i] = left[i]
          /\ left'[e] # "full"
      BY <2>2 DEF Fills, Resting
    <3> QED
      BY <3>1 DEF Resting
  <2> QED
    BY <1>2, <2>1, <2>2
<1>3. CASE UNCHANGED <<left, placed>>
  BY <1>3 DEF Came, From, KnowsItsOrders, Resting
<1>4. ASSUME NEW e \in sent, Refuse(e)
      PROVE  UNCHANGED <<left, placed>>
  BY <1>4 DEF Refuse
<1>5. CASE \E e \in sent : Accept(e)
  BY <1>1, <1>5 DEF Came, From, KnowsItsOrders
<1>6. CASE \E e \in Resting : Leaves(e) \/ Fills(e)
  BY <1>2, <1>6 DEF Came, From, KnowsItsOrders
<1> QED
  BY <1>3, <1>4, <1>5, <1>6, ExchangeAlone DEF Exchange

LEMMA SentFinite ==
  ASSUME IsFiniteSet(sent), Next
  PROVE  IsFiniteSet(sent')
<1>1. ASSUME NEW i \in sent, Accept(i) \/ Refuse(i)
      PROVE  IsFiniteSet(sent')
  <2>1. sent' = sent \ {i}
    BY <1>1 DEF Accept, Refuse
  <2> QED
    BY <2>1, FS_RemoveElement
<1>2. ASSUME NEW i \in Resting, Leaves(i) \/ Fills(i)
      PROVE  sent' = sent
  BY <1>2 DEF Leaves, Fills
<1>3. ASSUME NEW p \in Proc, PostLeaves(p)
      PROVE  IsFiniteSet(sent')
  <2>1. sent' = sent \cup {Posting(p)}
    BY <1>3 DEF PostLeaves
  <2> QED
    BY <2>1, FS_AddElement
<1> QED
  BY <1>1, <1>2, <1>3, SentStays DEF Exchange

LEMMA KnowsStep ==
  ASSUME ConstantsAssumption, LInv, KnowsItsOrders, Next
  PROVE  KnowsItsOrders'
<1>1. \A i \in Resting' : From(i, placed')
  BY LeftStep
<1>2. IsFiniteSet(sent')
  BY SentFinite DEF KnowsItsOrders
<1>3. ASSUME NEW s \in DOMAIN snapshots', NEW n \in DOMAIN snapshots'[s].orders
      PROVE  LET e == snapshots'[s].orders[n] IN
               /\ From(e.id, placed')
               /\ e.id \in Resting' /\ left'[e.id] = "full" => e.left = "full"
  <2>1. CASE s \in DOMAIN snapshots /\ snapshots'[s] = snapshots[s]
    <3>1. PICK e : e = snapshots[s].orders[n]
      OBVIOUS
    <3>2. Came(e.id) /\ (e.id \in Resting /\ left[e.id] = "full" => e.left = "full")
      BY <1>3, <2>1, <3>1 DEF KnowsItsOrders
    <3>3. From(e.id, placed') /\ (e.id \in Resting' /\ left'[e.id] = "full" => e.left = "full")
      BY <3>2, LeftStep
    <3> QED
      BY <2>1, <3>1, <3>3
  <2>2. ASSUME UNCHANGED <<left, placed>>,
               NEW listed \in [1..Cardinality(Resting) -> Resting],
               snapshots'[s].orders = EntriesOf(listed)
        PROVE  LET e == snapshots'[s].orders[n] IN
                 /\ From(e.id, placed')
                 /\ e.id \in Resting' /\ left'[e.id] = "full" => e.left = "full"
    <3>1. n \in DOMAIN listed /\ listed[n] \in Resting
          /\ snapshots'[s].orders[n] = [id |-> listed[n], left |-> left[listed[n]]]
      BY <1>3, <2>2 DEF EntriesOf
    <3>2. From(listed[n], placed')
      BY <3>1, LeftStep DEF KnowsItsOrders
    <3> QED
      BY <2>2, <3>1, <3>2
  <2> QED
    BY <2>1, <2>2, NewSnapshot
<1> QED
  BY <1>1, <1>2, <1>3 DEF KnowsItsOrders, Came, From

LEMMA SnapshotsFewStep ==
  ASSUME ConstantsAssumption, LInv, KnowsItsOrders, Next, NEW k, SnapshotsFew(k), FullFew(k)
  PROVE  SnapshotsFew(k)'
<1>1. ASSUME NEW s \in DOMAIN snapshots'
      PROVE  Cardinality(FullEntries(snapshots'[s].orders, k)) <= Cardinality(Alike(k))
  <2>1. CASE s \in DOMAIN snapshots /\ snapshots'[s] = snapshots[s]
    BY <2>1 DEF SnapshotsFew
  <2>2. ASSUME sent = {}, NEW listed \in [1..Cardinality(Resting) -> Resting],
               \A m, n \in DOMAIN listed : m < n => ListedBefore(listed[m], listed[n]),
               snapshots'[s].orders = EntriesOf(listed)
        PROVE  Cardinality(FullEntries(snapshots'[s].orders, k)) <= Cardinality(Alike(k))
    <3>1. PICK es : es = EntriesOf(listed)
      OBVIOUS
    <3>2. Cardinality(FullEntries(es, k)) <= Cardinality(Full(k))
      BY <2>2, <3>1, TakeFew
    <3>3. IsFiniteSet(FullEntries(es, k))
      <4>1. PICK S : es \in Seq(S)
        BY <3>1, EntriesFit DEF LInv, SnapshotsFit
      <4> QED
        BY <4>1, SequenceCounted
    <3>4. Cardinality(FullEntries(es, k)) \in Nat
      BY <3>3, FS_CardinalityType
    <3>5. Cardinality(Full(k)) \in Nat /\ Cardinality(Alike(k)) \in Nat
      BY Counted
    <3> QED
      BY <2>2, <3>1, <3>2, <3>4, <3>5 DEF FullFew
  <2> QED
    BY <2>1, <2>2, NewSnapshot
<1> QED
  BY <1>1 DEF SnapshotsFew, FullEntries, FullEntry, Alike

LEMMA OneMore ==
  ASSUME NEW F, NEW F1, NEW x, IsFiniteSet(F), F1 \subseteq F \cup {x}
  PROVE  Cardinality(F1) <= Cardinality(F) + 1 /\ Cardinality(F1) \in Nat
<1>1. IsFiniteSet(F \cup {x}) /\ Cardinality(F \cup {x}) <= Cardinality(F) + 1
  <2>1. Cardinality(F \cup {x}) = IF x \in F THEN Cardinality(F) ELSE Cardinality(F) + 1
    BY FS_AddElement
  <2>2. Cardinality(F) \in Nat
    BY FS_CardinalityType
  <2> QED
    BY <2>1, <2>2, FS_AddElement
<1>2. F1 \in SUBSET (F \cup {x})
  OBVIOUS
<1>3. IsFiniteSet(F1) /\ Cardinality(F1) <= Cardinality(F \cup {x})
  BY <1>1, <1>2, FS_Subset
<1>4. Cardinality(F1) \in Nat /\ Cardinality(F \cup {x}) \in Nat /\ Cardinality(F) \in Nat
  BY <1>1, <1>3, FS_CardinalityType
<1> QED
  BY <1>1, <1>3, <1>4

LEMMA OneLess ==
  ASSUME NEW P, NEW P1, NEW x \in P, IsFiniteSet(P), P1 \subseteq P \ {x}
  PROVE  Cardinality(P1) + 1 <= Cardinality(P) /\ Cardinality(P1) \in Nat
<1>1. IsFiniteSet(P \ {x}) /\ Cardinality(P \ {x}) = Cardinality(P) - 1
  BY FS_RemoveElement
<1>2. P1 \in SUBSET (P \ {x})
  OBVIOUS
<1>3. IsFiniteSet(P1) /\ Cardinality(P1) <= Cardinality(P \ {x})
  BY <1>1, <1>2, FS_Subset
<1>4. Cardinality(P1) \in Nat /\ Cardinality(P) \in Nat
  BY <1>3, FS_CardinalityType
<1> QED
  BY <1>1, <1>3, <1>4

\* The place a post leaves from was pending, if the order there was untouched.
LEMMA PostWasPending ==
  ASSUME DInv, NEW p \in Proc, PostLeaves(p), NEW k,
         FullEntry(OrdersOf(thread[p].job)[thread[p].next], k)
  PROVE  thread[p].next \in Pending(p, k)
<1>1. thread[p].at = "sending" /\ Busy(p) /\ thread[p].at \in Places1
  BY DEF PostLeaves, Busy, Places1, Posts1
<1>2. thread[p].plan[thread[p].next] = "would_place"
  BY <1>1 DEF DInv, SendsWhatIsPlanned
<1>3. PICK j, n : j = thread[p].job /\ n = thread[p].next
  OBVIOUS
<1>4. jobs[j].snap \in DOMAIN snapshots
  BY <1>1, <1>3, PendingCounted DEF DInv
<1>5. PICK S : OrdersOf(j) \in Seq(S)
  BY <1>4 DEF DInv, LInv, SnapshotsFit, OrdersOf
<1>6. n = Len(lines[j]) + 1 /\ n <= Len(OrdersOf(j)) /\ j \in DOMAIN jobs
  BY <1>1, <1>3 DEF DInv, LInv, QInv, ThreadsHaveJobs, Tells, ThreadsAtWork, AtWork, Posts1
<1>7. n \in Nat /\ n >= 1
  <2>1. Len(lines[j]) \in Nat
    BY <1>6 DEF DInv, LInv, Tells, LinesFit, QInv, Shapes
  <2> QED
    BY <1>6, <2>1
<1>8. n \in DOMAIN OrdersOf(j)
  BY <1>5, <1>6, <1>7
<1>9. Onward(p) = n
  BY <1>1, <1>3 DEF Onward
<1> QED
  BY <1>2, <1>3, <1>7, <1>8, <1>9 DEF Pending, FullEntries

LEMMA FullFewStep ==
  ASSUME ConstantsAssumption, DInv, Next, NEW o \in Order
  PROVE  FullFew(KeyOf[o])'
<1>1. PICK k, A : k = KeyOf[o] /\ A = Cardinality(Alike(k))
  OBVIOUS
<1>2. /\ IsFiniteSet(Full(k)) /\ Cardinality(Full(k)) \in Nat /\ A \in Nat
      /\ Cardinality(Full(k)) <= A
  BY <1>1, Counted DEF DInv, CountsFit, FullFew
<1>3. ASSUME NEW p \in Proc, PostLeaves(p)
      PROVE  Cardinality(Full(k)') <= A
  <2>1. /\ Full(k)' \subseteq Full(k) \cup {Posting(p)}
        /\ Posting(p) \in Full(k)' => FullEntry(OrdersOf(thread[p].job)[thread[p].next], k)
    BY <1>3, FullGrows DEF DInv
  <2>2. thread[p].at \in Places1
    BY <1>3 DEF PostLeaves, Places1, Posts1
  <2>3. CASE Posting(p) \in Full(k)'
    <3>1. thread[p].next \in Pending(p, k)
      BY <1>3, <2>1, <2>3, PostWasPending
    <3>2. IsFiniteSet(Pending(p, k)) /\ Cardinality(Pending(p, k)) \in Nat
      BY <2>2, PendingCounted DEF DInv
    <3>3. Cardinality(Pending(p, k)) >= 1
      BY <3>1, <3>2, FS_EmptySet
    <3>4. Cardinality(Full(k)) + Cardinality(Pending(p, k)) <= A
      BY <1>1, <2>2 DEF DInv, CountsFit, PendingFew
    <3>5. Cardinality(Full(k)') <= Cardinality(Full(k)) + 1 /\ Cardinality(Full(k)') \in Nat
      BY <1>2, <2>1, OneMore
    <3> QED
      BY <1>2, <3>2, <3>3, <3>4, <3>5
  <2>4. CASE Posting(p) \notin Full(k)'
    <3>1. Full(k)' \in SUBSET Full(k)
      BY <2>1, <2>4
    <3>2. IsFiniteSet(Full(k)') /\ Cardinality(Full(k)') <= Cardinality(Full(k))
      BY <1>2, <3>1, FS_Subset
    <3>3. Cardinality(Full(k)') \in Nat
      BY <3>2, FS_CardinalityType
    <3> QED
      BY <1>2, <3>2, <3>3
  <2> QED
    BY <2>3, <2>4
<1>4. ASSUME ~\E p \in Proc : PostLeaves(p)
      PROVE  Cardinality(Full(k)') <= A
  <2>1. Full(k)' \in SUBSET Full(k)
    BY <1>4, FullStep DEF DInv
  <2>2. IsFiniteSet(Full(k)') /\ Cardinality(Full(k)') <= Cardinality(Full(k))
    BY <1>2, <2>1, FS_Subset
  <2>3. Cardinality(Full(k)') \in Nat
    BY <2>2, FS_CardinalityType
  <2> QED
    BY <1>2, <2>2, <2>3
<1>5. Cardinality(Full(k)') <= A
  BY <1>3, <1>4
<1>6. Cardinality(Full(k))' <= Cardinality(Alike(k))
  BY <1>1, <1>5
<1> QED
  BY <1>1, <1>6 DEF FullFew, Alike

\* Thread p starts on its plan.
LEMMA PlanStep ==
  ASSUME ConstantsAssumption, DInv, Next, NEW p \in Proc, Plan(p), NEW o \in Order
  PROVE  PendingFew(p, KeyOf[o])'
<1>1. PICK k : k = KeyOf[o]
  OBVIOUS
<1>2. PICK soon : thread' = [thread EXCEPT ![p] =
                    [@ EXCEPT !.at = "line", !.next = 1, !.plan = PlanOf(JobOf(p), soon)]]
  BY DEF Plan
<1>3. PICK j : j = thread[p].job
  OBVIOUS
<1>4. j \in DOMAIN jobs /\ IsRestore(j) /\ sent = {}
  BY <1>3 DEF Plan, CanRun, JobOf, IsRestore, DInv, LInv, QInv, ThreadsHaveJobs, Busy
<1>5. /\ thread'[p].at = "line" /\ thread'[p].next = 1 /\ thread'[p].job = j
      /\ thread'[p].plan = PlanOf(jobs[j], soon)
  <2>1. thread \in [Proc -> ThreadRow]
    BY DEF DInv, LInv, Tells, LinesFit
  <2> QED
    BY <1>2, <1>3, <2>1 DEF ThreadRow, JobOf
<1>6. UNCHANGED <<jobs, snapshots, left, sent>>
  BY DEF Plan, db, exchange
<1>7. Full(k)' = Full(k)
  BY <1>6 DEF Full, LeftNow, LeftOf, Resting
<1>8. Pending(p, k)' \subseteq Missing(j, soon, k)
  BY <1>5, <1>6 DEF Pending, Missing, FullEntries, FullEntry, OrdersOf
<1>9. Cardinality(Full(k)) + Cardinality(Missing(j, soon, k)) <= Cardinality(Alike(k))
  BY <1>1, <1>4, PlanFew DEF DInv, CountsFit
<1>10. IsFiniteSet(Missing(j, soon, k))
  <2>1. jobs[j].snap \in DOMAIN snapshots
    BY <1>4 DEF DInv, LInv, SnapshotsFit, IsRestore, RestoreKinds
  <2>2. IsFiniteSet(FullEntries(OrdersOf(j), k))
    BY <2>1, EntriesCounted DEF DInv, OrdersOf
  <2>3. Missing(j, soon, k) \in SUBSET FullEntries(OrdersOf(j), k)
    BY DEF Missing
  <2> QED
    BY <2>2, <2>3, FS_Subset
<1>11. /\ IsFiniteSet(Pending(p, k)')
       /\ Cardinality(Pending(p, k)') <= Cardinality(Missing(j, soon, k))
  <2>1. Pending(p, k)' \in SUBSET Missing(j, soon, k)
    BY <1>8
  <2> QED
    BY <1>10, <2>1, FS_Subset
<1>12. /\ Cardinality(Pending(p, k)') \in Nat /\ Cardinality(Missing(j, soon, k)) \in Nat
       /\ Cardinality(Full(k)) \in Nat /\ Cardinality(Alike(k)) \in Nat
  BY <1>10, <1>11, Counted, FS_CardinalityType DEF DInv
<1>13. Cardinality(Full(k)) + Cardinality(Pending(p, k)') <= Cardinality(Alike(k))
  BY <1>9, <1>11, <1>12
<1>14. Cardinality(Full(k))' + Cardinality(Pending(p, k))' <= Cardinality(Alike(k))
  BY <1>7, <1>13
<1> QED
  BY <1>1, <1>14 DEF PendingFew, Alike

\* A thread that goes through its plan, or waits for another: what it posts was pending.
LEMMA PendingStep ==
  ASSUME ConstantsAssumption, DInv, Next, NEW p \in Proc, NEW o \in Order,
         thread[p].at \in Places1, thread'[p] = thread[p] \/ GoesThrough(p)
  PROVE  PendingFew(p, KeyOf[o])'
<1>1. PICK k, A : k = KeyOf[o] /\ A = Cardinality(Alike(k))
  OBVIOUS
<1>2. /\ IsFiniteSet(Full(k)) /\ Cardinality(Full(k)) \in Nat /\ A \in Nat
      /\ IsFiniteSet(Pending(p, k)) /\ Cardinality(Pending(p, k)) \in Nat
      /\ Cardinality(Full(k)) + Cardinality(Pending(p, k)) <= A
  BY <1>1, Counted, PendingCounted DEF DInv, CountsFit, PendingFew
<1>3. Pending(p, k)' \subseteq {n \in Pending(p, k) : n >= Onward(p)'}
  BY PendingShrinks, OrdersKept DEF DInv, LInv
<1>4. /\ IsFiniteSet(Pending(p, k)')
      /\ Cardinality(Pending(p, k)') <= Cardinality(Pending(p, k))
      /\ Cardinality(Pending(p, k)') \in Nat
  <2>1. Pending(p, k)' \in SUBSET Pending(p, k)
    BY <1>3
  <2>2. IsFiniteSet(Pending(p, k)') /\ Cardinality(Pending(p, k)') <= Cardinality(Pending(p, k))
    BY <1>2, <2>1, FS_Subset
  <2> QED
    BY <2>2, FS_CardinalityType
<1>5. ASSUME Full(k)' \subseteq Full(k)
      PROVE  Cardinality(Full(k)') + Cardinality(Pending(p, k)') <= A
  <2>1. Full(k)' \in SUBSET Full(k)
    BY <1>5
  <2>2. IsFiniteSet(Full(k)') /\ Cardinality(Full(k)') <= Cardinality(Full(k))
    BY <1>2, <2>1, FS_Subset
  <2>3. Cardinality(Full(k)') \in Nat
    BY <2>2, FS_CardinalityType
  <2> QED
    BY <1>2, <1>4, <2>2, <2>3
<1>6. ASSUME NEW q \in Proc, PostLeaves(q)
      PROVE  Cardinality(Full(k)') + Cardinality(Pending(p, k)') <= A
  <2>1. thread[q].at = "sending" /\ Busy(q) /\ Busy(p)
    BY <1>6 DEF PostLeaves, Busy, Places1, Posts1, Placing
  <2>2. q = p
    BY <2>1, OneThread DEF DInv
  <2>3. /\ Full(k)' \subseteq Full(k) \cup {Posting(p)}
        /\ Posting(p) \in Full(k)' => FullEntry(OrdersOf(thread[p].job)[thread[p].next], k)
    BY <1>6, <2>2, FullGrows DEF DInv
  <2>4. CASE Posting(p) \notin Full(k)'
    BY <1>5, <2>3, <2>4
  <2>5. CASE Posting(p) \in Full(k)'
    <3>1. thread[p].next \in Pending(p, k)
      BY <1>6, <2>2, <2>3, <2>5, PostWasPending
    <3>2. thread'[p].at = "out" /\ thread'[p].next = thread[p].next /\ thread[p].next \in Nat
      <4>1. thread \in [Proc -> ThreadRow]
        BY DEF DInv, LInv, Tells, LinesFit
      <4>2. Goes(p, "out") /\ "out" \in ThreadStage \ {"idle"} /\ LInv
        BY <1>6, <2>2 DEF PostLeaves, ThreadStage, DInv
      <4>3. thread'[p].at = "out" /\ thread'[p].next = thread[p].next
        BY <2>1, <4>2, GoesMoves
      <4> QED
        BY <4>1, <4>3 DEF ThreadRow
    <3>3. Onward(p)' = thread[p].next + 1
      BY <3>2 DEF Onward
    <3>4. Pending(p, k)' \subseteq Pending(p, k) \ {thread[p].next}
      BY <1>3, <3>2, <3>3
    <3>5. Cardinality(Pending(p, k)') + 1 <= Cardinality(Pending(p, k))
      BY <1>2, <3>1, <3>4, OneLess
    <3>6. Cardinality(Full(k)') <= Cardinality(Full(k)) + 1 /\ Cardinality(Full(k)') \in Nat
      BY <1>2, <2>3, OneMore
    <3> QED
      BY <1>2, <1>4, <3>5, <3>6
  <2> QED
    BY <2>4, <2>5
<1>7. Cardinality(Full(k)') + Cardinality(Pending(p, k)') <= A
  <2>1. CASE ~\E q \in Proc : PostLeaves(q)
    BY <1>5, <2>1, FullStep DEF DInv
  <2> QED
    BY <1>6, <2>1
<1>8. Cardinality(Full(k))' + Cardinality(Pending(p, k))' <= Cardinality(Alike(k))
  BY <1>1, <1>7
<1> QED
  BY <1>1, <1>8 DEF PendingFew, Alike

LEMMA CountsStep ==
  ASSUME ConstantsAssumption, DInv, Next
  PROVE  CountsFit'
<1>1. ASSUME NEW o \in Order
      PROVE  SnapshotsFew(KeyOf[o])' /\ FullFew(KeyOf[o])'
  <2>1. PICK k : k = KeyOf[o]
    OBVIOUS
  <2>2. SnapshotsFew(k) /\ FullFew(k)
    BY <2>1 DEF DInv, CountsFit
  <2>3. SnapshotsFew(k)'
    BY <2>2, SnapshotsFewStep DEF DInv
  <2> QED
    BY <2>1, <2>3, FullFewStep
<1>2. ASSUME NEW o \in Order, NEW p \in Proc
      PROVE  PendingFew(p, KeyOf[o])'
  <2>1. CASE thread'[p].at \notin Places1
    BY <2>1 DEF PendingFew
  <2>2. CASE Plan(p)
    BY <2>2, PlanStep
  <2>3. CASE thread'[p].at \in Places1 /\ thread'[p] = thread[p]
    <3>1. thread[p].at \in Places1
      BY <2>3
    <3> QED
      BY <2>3, <3>1, PendingStep
  <2>4. CASE thread'[p].at \in Places1 /\ JobThread(p) /\ ~Plan(p)
    <3>1. GoesThrough(p)
      BY <2>4, PlacesOn DEF DInv
    <3>2. thread[p].at \in Places1
      BY <3>1 DEF GoesThrough
    <3> QED
      BY <3>1, <3>2, PendingStep
  <2>5. "idle" \notin Places1 /\ "begin" \notin Places1
    BY DEF Places1, Posts1, Placing
  <2> QED
    BY <2>1, <2>2, <2>3, <2>4, <2>5, ThreadMoves DEF DInv
<1> QED
  BY <1>1, <1>2 DEF CountsFit

LEMMA InitDInv == ConstantsAssumption /\ Init => DInv
<1> SUFFICES ASSUME ConstantsAssumption, Init
             PROVE  DInv
  OBVIOUS
<1>1. LInv
  BY InitLInv
<1>2. OneWorker /\ ThreadsAreAlive /\ SendsWhatIsPlanned
  BY DEF Init, OneWorker, Alive, ThreadsAreAlive, Busy, SendsWhatIsPlanned, IdleThread
<1>3. PICK es : es = [i \in DOMAIN Listed |-> [id |-> Original(Listed[i]), left |-> "full"]]
  OBVIOUS
<1>4. /\ snapshots = <<[orders |-> es, farmer |-> Unknown]>>
      /\ left = [i \in {Original(o) : o \in Order} |-> "full"]
      /\ sent = {}
  BY <1>3 DEF Init
<1>5. /\ DOMAIN snapshots = {1} /\ snapshots[1].orders = es /\ DOMAIN es = DOMAIN Listed
      /\ \A n \in DOMAIN Listed : es[n] = [id |-> Original(Listed[n]), left |-> "full"]
      /\ \A n \in DOMAIN Listed : Listed[n] \in Order
  <2>1. PICK row : row = [orders |-> es, farmer |-> Unknown]
    OBVIOUS
  <2>2. snapshots = <<row>> /\ row.orders = es
    BY <1>4, <2>1
  <2>3. DOMAIN snapshots = {1} /\ snapshots[1].orders = es
    BY <2>2
  <2>4. \A n \in DOMAIN Listed : Listed[n] \in Order
    BY DEF ConstantsAssumption
  <2> QED
    BY <1>3, <2>3, <2>4
<1>6. KnowsItsOrders
  <2>1. \A i \in Resting : Came(i)
    BY <1>4 DEF Resting, Came, From
  <2>2. \A n \in DOMAIN es : Came(es[n].id) /\ es[n].left = "full"
    BY <1>5 DEF Came, From
  <2>3. \A s \in DOMAIN snapshots : snapshots[s].orders = es
    BY <1>5
  <2>4. \A n \in DOMAIN es :
          LET e == es[n] IN
            /\ Came(e.id)
            /\ e.id \in Resting /\ left[e.id] = "full" => e.left = "full"
    BY <2>2
  <2>5. IsFiniteSet(sent)
    BY <1>4, FS_EmptySet
  <2> QED
    BY <2>1, <2>3, <2>4, <2>5 DEF KnowsItsOrders
<1>7. ASSUME NEW k
      PROVE  SnapshotsFew(k) /\ FullFew(k)
  <2>1. IsFiniteSet(Alike(k))
    BY <1>1, <1>6, Counted
  <2>2. Cardinality(FullEntries(es, k)) <= Cardinality(Alike(k))
    <3>1. PICK FE : FE = FullEntries(es, k)
      OBVIOUS
    <3>2. \A n \in FE : n \in DOMAIN Listed /\ Listed[n] \in Alike(k)
      BY <1>5, <3>1 DEF FullEntries, FullEntry, Alike, Original
    <3>3. \A m, n \in FE : Listed[m] = Listed[n] => m = n
      BY <3>2, ListedOnce
    <3> QED
      BY <2>1, <3>1, <3>2, <3>3, NoMoreThan
  <2>3. SnapshotsFew(k)
    BY <1>5, <2>2 DEF SnapshotsFew
  <2>4. Cardinality(Full(k)) <= Cardinality(Alike(k))
    <3>1. PICK F : F = Full(k)
      OBVIOUS
    <3>2. PICK f : f = [i \in F |-> i.root]
      OBVIOUS
    <3>3. ASSUME NEW i \in F
          PROVE  f[i] \in Alike(k) /\ i = Original(f[i])
      <4>1. i \in Resting /\ KeyOf[i.root] = k
        BY <1>4, <3>1 DEF Full
      <4>2. PICK o \in Order : i = Original(o)
        BY <1>4, <4>1 DEF Resting
      <4>3. i.root = o
        BY <4>2 DEF Original
      <4> QED
        BY <3>2, <4>1, <4>2, <4>3 DEF Alike
    <3>4. \A i, j \in F : f[i] = f[j] => i = j
      BY <3>3
    <3> QED
      BY <2>1, <3>1, <3>3, <3>4, NoMoreThan
  <2> QED
    BY <2>3, <2>4 DEF FullFew
<1>8. ASSUME NEW p \in Proc, NEW k
      PROVE  PendingFew(p, k)
  <2>1. thread[p].at = "idle"
    BY DEF Init, IdleThread
  <2> QED
    BY <2>1 DEF PendingFew, Places1, Posts1, Placing
<1>9. CountsFit
  BY <1>7, <1>8 DEF CountsFit
<1> QED
  BY <1>1, <1>2, <1>6, <1>9 DEF DInv

LEMMA DInvStays ==
  ASSUME DInv, UNCHANGED vars
  PROVE  DInv'
<1>1. UNCHANGED <<jobs, snapshots, thread, ctl, status, left, sent, placed>>
  BY DEF vars, db, life, exchange
<1>2. LInv'
  BY LInvStep, ConstantsAssumption DEF DInv
<1>3. OneWorker' /\ ThreadsAreAlive' /\ SendsWhatIsPlanned'
  BY <1>1 DEF DInv, OneWorker, Alive, ThreadsAreAlive, Busy, SendsWhatIsPlanned
<1>4. KnowsItsOrders'
  BY <1>1 DEF DInv, KnowsItsOrders, Came, From, Resting
<1>5. \A k : Full(k)' = Full(k) /\ Alike(k)' = Alike(k) /\ SnapshotsFew(k)' = SnapshotsFew(k)
  BY <1>1 DEF Full, Alike, LeftNow, LeftOf, Resting, SnapshotsFew, FullEntries, FullEntry
<1>6. \A p \in Proc : \A k : Pending(p, k)' = Pending(p, k)
  BY <1>1 DEF Pending, FullEntries, FullEntry, OrdersOf, Onward
<1>7. CountsFit'
  BY <1>1, <1>5, <1>6 DEF DInv, CountsFit, FullFew, PendingFew
<1> QED
  BY <1>2, <1>3, <1>4, <1>7 DEF DInv

\* Over every sequence of snapshots, previews, restores, fills, cancels, stops, crashes and
\* statements that raise, with no worker that lives on past its replacement, the untouched
\* orders that rest or may come to rest at one token, side and price never outnumber those
\* the account had there: a restore is safe to run again.
THEOREM SafeToRunAgain == ASSUME NoStall PROVE Spec => []NeverDoubled
<1>1. Init => DInv
  BY InitDInv, ConstantsAssumption
<1>2. DInv /\ [Next]_vars => DInv'
  <2> SUFFICES ASSUME DInv, [Next]_vars
               PROVE  DInv'
    OBVIOUS
  <2>1. CASE Next
    <3>1. LInv'
      BY <2>1, LInvStep, ConstantsAssumption DEF DInv
    <3>2. OneWorker' /\ ThreadsAreAlive'
      BY <2>1, OneWorkerStep, ThreadsAreAliveStep, ConstantsAssumption DEF DInv, LInv
    <3>3. SendsWhatIsPlanned' /\ KnowsItsOrders'
      BY <2>1, SendsStep, KnowsStep, ConstantsAssumption DEF DInv
    <3>4. CountsFit'
      BY <2>1, CountsStep, ConstantsAssumption
    <3> QED
      BY <3>1, <3>2, <3>3, <3>4 DEF DInv
  <2>2. CASE UNCHANGED vars
    BY <2>2, DInvStays
  <2> QED
    BY <2>1, <2>2
<1>3. DInv => NeverDoubled
  BY DEF DInv, CountsFit, FullFew, Full, Alike, LeftNow, NeverDoubled
<1> QED
  BY <1>1, <1>2, <1>3, PTL DEF Spec
=============================================================================
