-------------------------------- MODULE Triage --------------------------------
(* The Claude screens of the console (console/triage_runner.py, farm/triage.py): markets wait in
   a queue, and at most WORKERS threads take them an event batch at a time, ask for one news
   brief of the event and several judge runs of each market, and store a row for each. Claude,
   the rules and the web pages are external. *)
EXTENDS Integers, SequencesExt

CONSTANTS Markets,
          Ranked,       \* candidate_queue, best first
          Placed,       \* the markets read_markets finds
          EventOf(_),   \* a market's event; a market without one is its own
          InQuiet,      \* the markets that end within QUIET_DAYS
          Answers,      \* what the judge runs of one market may come to, a sequence of RUNS
          Pages,        \* what reading a page may give: the quotes on it, or None
          Workers, EventMarkets, TopN,
          MaxAsks, MaxRestarts, \* bounds on the requests and the restarts
          None, Raised

TriageAssumption ==
  /\ Ranked \in Seq(Markets) /\ IsInjective(Ranked) /\ Placed \subseteq Markets
  /\ Workers \in Nat \ {0} /\ EventMarkets \in Nat \ {0} /\ TopN \in Nat

VARIABLES queue, running, workers,
          thread,   \* of each worker: [at, ids, outcomes]
          top,      \* an enqueue_top under way: what it has read of done, pending and running
          rows,     \* latest_triage, by market
          done,     \* triaged_ids
          asks, restarts
kept == <<rows, done>>
vars == <<queue, running, workers, thread, top, kept, asks, restarts>>

Gone == [at |-> "gone", ids |-> <<>>, outcomes |-> <<>>]
Looking == [Gone EXCEPT !.at = "looking"]
Live == {w \in 1..Workers : thread[w].at \notin {"gone", "dead"}}

Init ==
  /\ queue = <<>> /\ running = {} /\ workers = 0 /\ thread = [w \in 1..Workers |-> Gone]
  /\ top = None /\ rows = [m \in Markets |-> None] /\ done = {} /\ asks = 0 /\ restarts = 0

(***************************************************************************)
(* The queue and its workers                                               *)
(***************************************************************************)

\* Those of the ids that are in a set, in their order: the nth is the one with n of them up to it.
Among(ids, set) ==
  LET at == {i \in DOMAIN ids : ids[i] \in set}
  IN [n \in 1..Cardinality(at) |-> ids[CHOOSE i \in at : Cardinality({j \in at : j <= i}) = n]]

\* Markets neither waiting nor running, in the order asked for.
Fresh(ids) == Among(ids, Markets \ (ToSet(queue) \cup running))

\* _enqueue, under the lock: a worker is started for each market queued, up to WORKERS.
Enqueue(ids) ==
  /\ queue' = queue \o Fresh(ids)
  /\ \E born \in SUBSET {w \in 1..Workers : thread[w].at = "gone"} :
       /\ Cardinality(born) = Min({Len(Fresh(ids)), Workers - workers})
       /\ workers' = workers + Cardinality(born)
       /\ thread' = [w \in 1..Workers |-> IF w \in born THEN Looking ELSE thread[w]]

Ask(m) ==
  /\ asks < MaxAsks /\ asks' = asks + 1 /\ Enqueue(<<m>>)
  /\ UNCHANGED <<running, top, kept, restarts>>

\* enqueue_top reads the finished, the waiting and the running markets one after the other.
TopReads ==
  /\ \/ top = None /\ asks < MaxAsks /\ asks' = asks + 1 /\ top' = <<done>>
     \/ /\ top # None /\ Len(top) < 3 /\ UNCHANGED asks
        /\ top' = Append(top, IF Len(top) = 1 THEN ToSet(queue) ELSE running)
  /\ UNCHANGED <<queue, running, workers, thread, kept, restarts>>
TopQueues ==
  /\ top # None /\ Len(top) = 3 /\ top' = None
  /\ LET ids == Among(Ranked, Markets \ UNION ToSet(top))
     IN Enqueue(SubSeq(ids, 1, Min({TopN, Len(ids)})))
  /\ UNCHANGED <<running, kept, asks, restarts>>

\* The first of event_batches: the first market's event, in the order given, up to a batch.
FirstBatch(ids) ==
  LET together == Among(ids, {m \in Placed : EventOf(m) = EventOf(ids[1])})
  IN SubSeq(together, 1, Min({EventMarkets, Len(together)}))

\* What _take leaves waiting.
Left(ids) == Among(queue, Markets \ ToSet(ids))

\* _take: alone when the database cannot be read, or cannot place the first market.
Take(w) ==
  /\ thread[w].at = "looking" /\ queue # <<>>
  /\ \E ids \in {<<Head(queue)>>} \cup (IF Head(queue) \in Placed THEN {FirstBatch(queue)} ELSE {}) :
       /\ queue' = Left(ids)
       /\ running' = running \cup ToSet(ids)
       /\ thread' = [thread EXCEPT ![w] = [at |-> "screening", ids |-> ids, outcomes |-> <<>>]]
  /\ UNCHANGED <<workers, top, kept, asks, restarts>>

\* The count drops under the lock the worker found the queue empty under.
Leave(w) ==
  /\ thread[w].at = "looking" /\ queue = <<>>
  /\ workers' = workers - 1 /\ thread' = [thread EXCEPT ![w] = Gone]
  /\ UNCHANGED <<queue, running, top, kept, asks, restarts>>

(***************************************************************************)
(* The screen of a batch                                                   *)
(***************************************************************************)

\* A judge run counts toward NEAR_IMPOSSIBLE if it says so, lists a way to YES, and its rule
\* quotes are in the rules.
NearImpossible(run) == run.answer = "near_impossible" /\ run.paths # {} /\ FALSE \notin run.paths

Decide(runs, brief, quiet) ==
  LET blocked == (\E i \in DOMAIN runs : ~runs[i].settled) \/ (\E i \in DOMAIN brief : brief[i].toward)
  IN IF runs # <<>> /\ \A i \in DOMAIN runs : NearImpossible(runs[i])
     THEN IF blocked THEN "needs_human" ELSE "near_impossible"
     ELSE IF runs # <<>> /\ ~blocked /\ quiet THEN "quiet" ELSE "needs_human"

\* A market's rules: text, blank, or a read that raised. Only those with text are asked about.
Asked(ids, rules) == Among(ids, {m \in DOMAIN rules : rules[m] = "text"})

\* Fault: the numbers a fact points at counted from zero.
BriefFromZero(facts, k) ==
  [i \in DOMAIN facts |-> [toward |-> k \in {n + 1 : n \in facts[i].numbers}, of |-> facts[i].of]]

\* parse_brief: of the kth market numbered in the prompt, which facts point toward its YES.
BriefOf(facts, k) ==
  [i \in DOMAIN facts |-> [toward |-> k \in facts[i].numbers, of |-> facts[i].of]]

\* verify_briefs: the pages are read once for the event, and one check serves every brief.
VerifyBrief(brief, page) ==
  [i \in DOMAIN brief |-> [toward |-> brief[i].toward, of |-> brief[i].of,
                           verified |-> IF page = None THEN None ELSE i \in page]]

Outcome(verdict, runs, brief) == [status |-> "ok", verdict |-> verdict, runs |-> runs, brief |-> brief]
Error == [status |-> "error", verdict |-> None, runs |-> <<>>, brief |-> <<>>]
RulesUnavailable == Outcome("needs_human", <<>>, <<>>)

\* What Claude says when asked: a fact is about some of the markets, by their numbers in the
\* prompt, and each run of a judge is about the market of its prompt.
FactsOf(asked) ==
  {<<>>} \cup {<<[numbers |-> {k \in DOMAIN asked : asked[k] \in about}, of |-> about]>> :
                 about \in SUBSET ToSet(asked)}
Told(runs, m) ==
  [i \in DOMAIN runs |->
     IF runs[i] = Raised THEN Raised
     ELSE [answer |-> runs[i].answer, paths |-> runs[i].paths, settled |-> runs[i].settled, of |-> m]]

\* _judged: one run that raised, or did not parse, stops the market's judging alone.
Judged(m, brief, calls) ==
  IF Raised \in ToSet(calls) THEN Error ELSE Outcome(Decide(calls, brief, m \in InQuiet), calls, brief)

\* screen_event, in the order asked. No facts at all when the brief raised.
ScreenEvent(asked, facts, page, said) ==
  [k \in DOMAIN asked |->
     IF facts = Raised THEN Error
     ELSE Judged(asked[k], VerifyBrief(BriefOf(facts, k), page), Told(said[asked[k]], asked[k]))]

\* Fault: the outcomes are matched with the batch, not with those asked about.
ZipBatch(ids, asked) == ids

\* The markets the outcomes of screen_event are matched with.
Zipped(ids, asked) == asked

OutcomeOf(m, ids, rules, asked, screened) ==
  LET names == Zipped(ids, asked)
      at == {k \in DOMAIN screened : names[k] = m}
  IN IF at # {} THEN screened[CHOOSE k \in at : TRUE]
     ELSE IF rules[m] = "blank" THEN RulesUnavailable ELSE Error

\* The row of an outcome.
RowOf(outcome, rules) ==
  [status |-> outcome.status, verdict |-> outcome.verdict, runs |-> outcome.runs,
   brief |-> outcome.brief, rules |-> rules]

\* screen_and_store up to its rows. A market the database lacks raises before anything is asked.
Screen(w) ==
  /\ thread[w].at = "screening" /\ ToSet(thread[w].ids) \subseteq Placed
  /\ \E rules \in [ToSet(thread[w].ids) -> {"text", "blank", "raised"}] :
       \E asked \in {Asked(thread[w].ids, rules)} :
         \E facts \in FactsOf(asked) \cup {Raised}, page \in Pages, said \in [ToSet(asked) -> Answers] :
           \E screened \in {ScreenEvent(asked, facts, page, said)} :
             thread' = [thread EXCEPT ![w] =
               [at |-> "storing", ids |-> @.ids,
                outcomes |-> [i \in DOMAIN @.ids |->
                   RowOf(OutcomeOf(@.ids[i], @.ids, rules, asked, screened), rules[@.ids[i]])]]]
  /\ UNCHANGED <<queue, running, workers, top, kept, asks, restarts>>

\* A transaction for each market, in order.
StoreTriage(w) ==
  /\ thread[w].at = "storing" /\ thread[w].outcomes # <<>>
  /\ LET m == thread[w].ids[Len(thread[w].ids) - Len(thread[w].outcomes) + 1]
         row == Head(thread[w].outcomes)
     IN /\ rows' = [rows EXCEPT ![m] = row]
        /\ done' = IF row.status = "ok" THEN done \cup {m} ELSE done
  /\ thread' = [thread EXCEPT ![w].outcomes = Tail(@)]
  /\ UNCHANGED <<queue, running, workers, top, asks, restarts>>

\* Fault: an exception of the screen ends the worker.
EndedByIt(raised) == IF raised THEN [Gone EXCEPT !.at = "dead"] ELSE Looking

\* Whatever the screen raised, the worker looks for the next batch.
AfterScreen(raised) == Looking

\* The batch is no longer running, whether stored or stopped by an exception.
Finish(w, raised) ==
  /\ thread[w].at \in {"screening", "storing"}
  /\ ~raised => thread[w].at = "storing" /\ thread[w].outcomes = <<>>
  /\ running' = running \ ToSet(thread[w].ids)
  /\ thread' = [thread EXCEPT ![w] = AfterScreen(raised)]
  /\ UNCHANGED <<queue, workers, top, kept, asks, restarts>>

\* The console restarts: what waited or ran is forgotten, what was stored stays.
Restart ==
  /\ restarts < MaxRestarts /\ restarts' = restarts + 1
  /\ queue' = <<>> /\ running' = {} /\ workers' = 0 /\ thread' = [w \in 1..Workers |-> Gone]
  /\ top' = None /\ UNCHANGED <<kept, asks>>

Next ==
  \/ \E m \in Markets : Ask(m)
  \/ TopReads \/ TopQueues \/ Restart
  \/ \E w \in 1..Workers : \/ Take(w) \/ Leave(w) \/ Screen(w) \/ StoreTriage(w)
                           \/ \E raised \in BOOLEAN : Finish(w, raised)
Spec == Init /\ [][Next]_vars

(***************************************************************************)
(* What the screens promise                                                *)
(***************************************************************************)

Holding(w) == IF thread[w].at \in {"screening", "storing"} THEN ToSet(thread[w].ids) ELSE {}

\* Whatever the database, the rules or Claude raise, and however requests fall between the
\* workers' looks: while a market waits, a worker lives to take it. No market waits twice, nor
\* while it is screened, two workers never screen the same market, and what is shown as running
\* is what some live worker holds.
WaitingIsServed ==
  /\ queue # <<>> => Live # {}
  /\ workers = Cardinality(Live)
  /\ IsInjective(queue) /\ ToSet(queue) \cap running = {}
  /\ running = UNION {Holding(w) : w \in Live}
  /\ \A v, w \in Live : v # w => Holding(v) \cap Holding(w) = {}

\* However the rules, the runs and the brief of a batch failed for some of its markets: a row
\* stored for a market rests on judge runs of that market and on facts about it, every run of
\* them. NEAR_IMPOSSIBLE needs every run to say so with news able to show it and no fact toward
\* YES, and an unasked market is only ever for a human.
OwnRow(m, row) ==
  /\ \A i \in DOMAIN row.runs : row.runs[i].of = m
  /\ \A i \in DOMAIN row.brief : row.brief[i].toward = (m \in row.brief[i].of)
  /\ row.runs = <<>> => row.verdict \in {None, "needs_human"}
  /\ row.rules = "raised" => row.status = "error"
  /\ row.rules = "blank" => row.status = "ok" /\ row.runs = <<>>
  /\ row.verdict = "near_impossible" =>
       /\ \A i \in DOMAIN row.runs : NearImpossible(row.runs[i]) /\ row.runs[i].settled
       /\ \A i \in DOMAIN row.brief : m \notin row.brief[i].of
RowsAreTheirOwn == \A m \in Markets : rows[m] # None => OwnRow(m, rows[m])

(***************************************************************************)
(* Why it holds                                                            *)
(***************************************************************************)

Shapes ==
  /\ queue \in Seq(Markets) /\ running \subseteq Markets /\ workers \in Nat
  /\ DOMAIN thread = 1..Workers /\ DOMAIN rows = Markets
  /\ \A w \in 1..Workers :
       /\ thread[w] = [at |-> thread[w].at, ids |-> thread[w].ids, outcomes |-> thread[w].outcomes]
       /\ thread[w].at \in {"gone", "looking", "screening", "storing"}
       /\ thread[w].ids \in Seq(Markets) /\ thread[w].outcomes \in Seq(ToSet(thread[w].outcomes))

\* What a worker has yet to store are the rows of the last of its markets, in their order.
OutcomesAreOwn ==
  \A w \in 1..Workers :
    thread[w].at = "storing" =>
      LET stored == Len(thread[w].ids) - Len(thread[w].outcomes)
      IN /\ stored >= 0
         /\ \A i \in DOMAIN thread[w].outcomes :
              OwnRow(thread[w].ids[stored + i], thread[w].outcomes[i])

TriInv == Shapes /\ WaitingIsServed /\ OutcomesAreOwn /\ RowsAreTheirOwn
===============================================================================
