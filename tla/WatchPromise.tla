---------------------------- MODULE WatchPromise ----------------------------
(***************************************************************************)
(* What the sniper promises the operator of a watch, without the threads,  *)
(* the events and the worker runs: the table of ends of docs/sniper.md as  *)
(* a state machine over the row and the orders on the exchange.            *)
(***************************************************************************)
EXTENDS Naturals

CONSTANTS Watch, Token, TokenOf, Dry

VARIABLES
  row,     \* the state of each row, a failed one by its reason
  asked,   \* the watches with a disarm request
  placed,  \* how many orders each watch has on the exchange
  doubt    \* the watches with a post the exchange has not decided

vars == <<row, asked, placed, doubt>>

Open == {"armed", "firing"}
NoOrderEnds == {"rehearsed", "rejected", "missed", "disarmed", "venue", "sign", "stopped"}
Ends == {"fired", "unanswered"} \cup NoOrderEnds

Init ==
  /\ row = [w \in Watch |-> "none"]
  /\ asked = {}
  /\ placed = [w \in Watch |-> 0]
  /\ doubt = {}

\* One token has at most one open watch.
Arm(w) ==
  /\ row[w] = "none"
  /\ \A v \in Watch : TokenOf[v] = TokenOf[w] => row[v] \notin Open
  /\ row' = [row EXCEPT ![w] = "armed"]
  /\ UNCHANGED <<asked, placed, doubt>>

Ask(w) ==
  /\ row[w] \in Open
  /\ asked' = asked \cup {w}
  /\ UNCHANGED <<row, placed, doubt>>

\* A post leaves for an open live watch only while none is undecided and none was accepted.
Send(w) ==
  /\ row[w] \in Open
  /\ w \notin Dry \cup doubt
  /\ placed[w] = 0
  /\ doubt' = doubt \cup {w}
  /\ UNCHANGED <<row, asked, placed>>

Decide(w) ==
  /\ w \in doubt
  /\ doubt' = doubt \ {w}
  /\ \/ placed' = [placed EXCEPT ![w] = @ + 1]
     \/ UNCHANGED placed
  /\ UNCHANGED <<row, asked>>

MarkFiring(w) ==
  /\ row[w] = "armed"
  /\ row' = [row EXCEPT ![w] = "firing"]
  /\ UNCHANGED <<asked, placed, doubt>>

\* The last word on a watch is true when it is said, and stays true: only "unanswered", and
\* "interrupted" below, leave the exchange anything to decide.
End(w, e) ==
  /\ row[w] \in Open
  /\ e = "fired" => placed[w] = 1
  /\ e \in NoOrderEnds => placed[w] = 0 /\ w \notin doubt
  /\ e = "disarmed" => w \in asked
  /\ e = "rehearsed" => w \in Dry
  /\ row' = [row EXCEPT ![w] = e]
  /\ UNCHANGED <<asked, placed, doubt>>

\* Whatever still says firing when a worker starts is interrupted, all of it at once.
Interrupt ==
  /\ row' = [w \in Watch |-> IF row[w] = "firing" THEN "interrupted" ELSE row[w]]
  /\ UNCHANGED <<asked, placed, doubt>>

Next ==
  \/ Interrupt
  \/ \E w \in Watch :
       \/ Arm(w) \/ Ask(w) \/ Send(w) \/ Decide(w) \/ MarkFiring(w)
       \/ \E e \in Ends : End(w, e)

Spec == Init /\ [][Next]_vars
=============================================================================
