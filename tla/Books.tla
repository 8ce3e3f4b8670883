--------------------------------- MODULE Books ---------------------------------
(* The recorder of the favorite books (farm/farm_books.py: BookRecorder) between the farmer's
   flush and farm_books.db: a bounded queue, a thread that writes it, and the stop that waits for
   the thread. A sample is a number and the day it was taken. *)
EXTENDS Integers, SequencesExt

CONSTANTS QueueBatches, \* QUEUE_BATCHES
          KeptDays,     \* BOOK_KEPT_DAYS
          MaxSamples, MaxDays, MaxRuns \* bounds on the samples, the days and the runs
BooksAssumption == QueueBatches \in Nat \ {0} /\ KeptDays \in Nat

VARIABLES day, runs, taken, \* the days, the runs and the samples so far
          pc,       \* the farmer: "down", "starting", "cycle", "flush", "joining"
          samples,  \* book_samples
          queue, stop,
          thread,   \* the recorder's: "none", "waiting", "draining", "writing", "ended"
          final,    \* it is in the drain after the stop
          hand,     \* the batch it writes
          conn,     \* it opened the file
          file, written, warned, \* the rows; what was ever written, in order; what was warned of
          unsent, lost \* what runs ended with: samples never put, batches put and not written
recorder == <<queue, stop, thread, final, hand, conn>>
kept == <<file, written, warned>>
vars == <<day, runs, taken, pc, samples, recorder, kept, unsent, lost>>

\* The samples of the batches in the queue.
Queued == UNION {ToSet(queue[i]) : i \in DOMAIN queue}

Idle == /\ samples = <<>> /\ queue = <<>> /\ stop = FALSE /\ thread = "none" /\ final = FALSE
        /\ hand = <<>> /\ conn = FALSE
Init == /\ day = 1 /\ runs = 0 /\ taken = 0 /\ pc = "down" /\ Idle
        /\ file = {} /\ written = <<>> /\ warned = {} /\ unsent = {} /\ lost = {}

(***************************************************************************)
(* The farmer                                                              *)
(***************************************************************************)

NextDay == day < MaxDays /\ day' = day + 1
           /\ UNCHANGED <<runs, taken, pc, samples, recorder, kept, unsent, lost>>

Run == /\ pc = "down" /\ runs < MaxRuns /\ runs' = runs + 1 /\ pc' = "starting"
       /\ UNCHANGED <<day, taken, samples, recorder, kept, unsent, lost>>

\* The recorder starts once the farmer has; a start that raises goes down without it.
Start == /\ pc = "starting" /\ pc' = "cycle" /\ thread' = "waiting"
         /\ UNCHANGED <<day, runs, taken, samples, queue, stop, final, hand, conn, kept, unsent, lost>>

\* A cycle samples the books that are due.
Sample == /\ pc = "cycle" /\ taken < MaxSamples /\ taken' = taken + 1
          /\ samples' = Append(samples, [id |-> taken + 1, day |-> day])
          /\ UNCHANGED <<day, runs, pc, recorder, kept, unsent, lost>>

Settled == pc = "cycle" /\ pc' = "flush"
           /\ UNCHANGED <<day, runs, taken, samples, recorder, kept, unsent, lost>>

\* put: a batch that finds the queue full is dropped with a warning.
Put == IF samples = <<>> THEN UNCHANGED <<queue, warned>>
       ELSE IF Len(queue) = QueueBatches
       THEN warned' = warned \cup ToSet(samples) /\ UNCHANGED queue
       ELSE queue' = Append(queue, samples) /\ UNCHANGED warned

\* The tapes are saved first: if that raises, the samples wait for the next flush.
Flush(tapesSaved) ==
  /\ pc = "flush" /\ pc' = "cycle"
  /\ IF tapesSaved THEN Put /\ samples' = <<>> ELSE UNCHANGED <<queue, warned, samples>>
  /\ UNCHANGED <<day, runs, taken, stop, thread, final, hand, conn, file, written, unsent, lost>>

\* shutdown: the recorder is told to stop, the last flush puts nothing, and the stop is waited for.
Shutdown == /\ pc \in {"starting", "cycle", "flush"} /\ pc' = "joining" /\ stop' = TRUE
            /\ UNCHANGED <<day, runs, taken, samples, queue, thread, final, hand, conn, kept, unsent, lost>>

\* The process ends with its daemon threads: after the join or its timeout, or killed anywhere.
Exit ==
  /\ pc # "down" /\ pc' = "down"
  /\ unsent' = unsent \cup ToSet(samples)
  /\ lost' = lost \cup {<<s, stop /\ thread = "ended">> : s \in Queued \cup ToSet(hand)}
  /\ samples' = <<>> /\ queue' = <<>> /\ stop' = FALSE /\ thread' = "none" /\ final' = FALSE
  /\ hand' = <<>> /\ conn' = FALSE
  /\ UNCHANGED <<day, runs, taken, kept>>

(***************************************************************************)
(* The recorder's thread                                                   *)
(***************************************************************************)

\* Fault: a stop ends the thread without a last drain.
OnlyTicks(stopping) == IF stopping THEN "ended" ELSE "draining"

\* After a tick the queue is drained, and once more after the stop.
OnWake(stopping) == "draining"

Wake == /\ thread = "waiting" /\ thread' = OnWake(stop) /\ final' = stop
        /\ UNCHANGED <<day, runs, taken, pc, samples, queue, stop, hand, conn, kept, unsent, lost>>

Take == /\ thread = "draining"
        /\ IF queue # <<>>
           THEN thread' = "writing" /\ hand' = Head(queue) /\ queue' = Tail(queue) /\ UNCHANGED conn
           ELSE /\ thread' = IF final THEN "ended" ELSE "waiting"
                /\ conn' = (conn /\ ~final) /\ UNCHANGED <<queue, hand>>
        /\ UNCHANGED <<day, runs, taken, pc, samples, stop, final, kept, unsent, lost>>

Pruned == {s \in file : s.day >= day - KeptDays}

\* The first batch opens the file and prunes it; each is one transaction. Any of it may fail:
\* the batch is dropped with a warning, and a file once opened is not opened again.
Write(opened, pruned, recorded) ==
  /\ thread = "writing" /\ thread' = "draining" /\ hand' = <<>>
  /\ conn => opened /\ pruned
  /\ pruned => opened
  /\ recorded => pruned
  /\ conn' = opened
  /\ file' = (IF pruned /\ ~conn THEN Pruned ELSE file) \cup (IF recorded THEN ToSet(hand) ELSE {})
  /\ written' = IF recorded THEN written \o hand ELSE written
  /\ warned' = IF recorded THEN warned ELSE warned \cup ToSet(hand)
  /\ UNCHANGED <<day, runs, taken, pc, samples, queue, stop, final, unsent, lost>>

Next ==
  \/ NextDay \/ Run \/ Start \/ Sample \/ Settled \/ Shutdown \/ Exit \/ Wake \/ Take
  \/ \E tapesSaved \in BOOLEAN : Flush(tapesSaved)
  \/ \E opened, pruned, recorded \in BOOLEAN : Write(opened, pruned, recorded)
Spec == Init /\ [][Next]_vars

(***************************************************************************)
(* What the recorder promises                                              *)
(***************************************************************************)

\* Whatever the queue, the disk and the stop do: the rows are written in the order they were
\* taken and stay for KeptDays; a sample is written, or warned of, never both; one is lost
\* silently only with a run that ended before the recorder did, never after a stop it finished.
WrittenOrWarned ==
  /\ \A i \in 1..(Len(written) - 1) : written[i].id < written[i + 1].id
  /\ \A s \in ToSet(written) : s.day >= day - KeptDays => s \in file
  /\ ToSet(written) \cap warned = {}
  /\ \A gone \in lost : ~gone[2]
  /\ {s.id : s \in ToSet(written) \cup warned \cup unsent \cup {gone[1] : gone \in lost}
                   \cup Queued \cup ToSet(hand) \cup ToSet(samples)} = 1..taken
================================================================================
