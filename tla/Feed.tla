--------------------------------- MODULE Feed ---------------------------------
(* The market feed (polymarket/feed.py): one connection at a time, subscribed to a set of tokens
   another thread replaces, whose frames become Updates. The server and the wire both ways are
   external: what a side sends arrives in order, or the connection fails. Every market here has
   two tokens and a tick that changes. *)
EXTENDS Integers, FiniteSets, SequencesExt

CONSTANTS Tokens,
          Sibling(_),  \* the other token of its market
          Wire,        \* bound on what waits on the wire, each way
          MaxSets, MaxTicks, MaxFaults, \* bounds on the sets asked for, the tick changes, the failures
          None, Left   \* model values: not told yet; no longer judged

FeedAssumption ==
  /\ IsFiniteSet(Tokens) /\ None \notin {1, 2} /\ Left \notin {None, 1, 2}
  /\ \A t \in Tokens : Sibling(t) \in Tokens \ {t} /\ Sibling(Sibling(t)) = t

VARIABLES wanted,  \* self._tokens
          stop,
          pc,      \* "top", "connect", "look", "match", "recv", "deliver", "wait", "ended"
          tokens,  \* those run subscribed to
          updates, \* of the frame received, still to deliver, message by message
          up, down,\* frames to the feed, operations to the server; None without a connection
          served,  \* the server's subscription
          tick,    \* of each token's market
          heard,   \* by the consumer: each token's tick, None until told, Left once it dropped the token
          said,    \* the price last delivered
          sets, ticks, faults \* so far
connection == <<up, down, served>>
consumer == <<heard, said>>
bounds == <<sets, ticks, faults>>
vars == <<wanted, stop, pc, tokens, updates, connection, tick, consumer, bounds>>

Init ==
  /\ wanted \in SUBSET Tokens /\ stop = FALSE /\ pc = "top" /\ tokens = {} /\ updates = <<>>
  /\ up = None /\ down = None /\ served = {}
  /\ tick = [t \in Tokens |-> 1] /\ heard = [t \in Tokens |-> None] /\ said = None
  /\ sets = 0 /\ ticks = 0 /\ faults = 0

(***************************************************************************)
(* Frames                                                                  *)
(***************************************************************************)

Update(t, new, quoted) == [token |-> t, tick |-> new, quoted |-> quoted]

\* Fault: a book gives its prices before the tick they are in.
PricesFirst(m) ==
  CASE m.kind = "tick" -> <<Update(m.token, m.tick, None)>>
    [] m.kind = "book" -> <<Update(m.token, None, m.tick), Update(m.token, m.tick, None)>>
    [] m.kind = "price" -> <<Update(m.token, None, m.tick), Update(Sibling(m.token), None, m.tick)>>
    [] OTHER -> <<>>

\* The Updates of a message: a book's tick before its prices; a price change lists both tokens of
\* its market; nothing of a message it does not know.
Updates(m) ==
  CASE m.kind = "tick" -> <<Update(m.token, m.tick, None)>>
    [] m.kind = "book" -> <<Update(m.token, m.tick, None), Update(m.token, None, m.tick)>>
    [] m.kind = "price" -> <<Update(m.token, None, m.tick), Update(Sibling(m.token), None, m.tick)>>
    [] OTHER -> <<>>
ParseFrame(frame) == [i \in DOMAIN frame |-> Updates(frame[i])]

Message(kind, t, at) == [kind |-> kind, token |-> t, tick |-> at]
Each(kind, ts) ==
  LET seq == SetToSeq(ts) IN [i \in DOMAIN seq |-> Message(kind, seq[i], tick'[seq[i]])]

(***************************************************************************)
(* The server and the caller                                               *)
(***************************************************************************)

Sends(frame) == up # None /\ Len(up) < Wire /\ up' = Append(up, frame)

\* A market's tick changes: its subscribed tokens are told of it in one frame, or in their books.
TickChanges(t) ==
  /\ ticks < MaxTicks /\ ticks' = ticks + 1
  /\ tick' = [tick EXCEPT ![t] = 3 - @, ![Sibling(t)] = 3 - @]
  /\ \E here \in {served \cap {t, Sibling(t)}} :
       IF here = {} THEN UNCHANGED up ELSE \E kind \in {"tick", "book"} : Sends(Each(kind, here))
  /\ UNCHANGED <<wanted, stop, pc, tokens, updates, down, served, consumer, sets, faults>>

\* Prices of a market with a subscribed token, or a frame that is no market message.
PriceChanges(t) ==
  /\ t \in served /\ UNCHANGED tick
  /\ Sends(<<Message("price", t, tick[t])>>) \/ Sends(<<Message("other", t, None)>>)
  /\ UNCHANGED <<wanted, stop, pc, tokens, updates, down, served, consumer, bounds>>

\* The server takes an operation: who subscribes is sent the books.
Serves ==
  /\ down # None /\ down # <<>> /\ down' = Tail(down) /\ UNCHANGED tick
  /\ IF Head(down).sub
     THEN served' = served \cup Head(down).ids /\ Sends(Each("book", Head(down).ids))
     ELSE served' = served \ Head(down).ids /\ UNCHANGED up
  /\ UNCHANGED <<wanted, stop, pc, tokens, updates, consumer, bounds>>

\* Another thread asks for other tokens. What it hears of one it dropped is not judged again: an
\* old book may come after the token is asked for once more.
SetTokens(ts) ==
  /\ sets < MaxSets /\ sets' = sets + 1 /\ ts # wanted /\ wanted' = ts
  /\ heard' = [t \in Tokens |-> IF t \in wanted \ ts THEN Left ELSE heard[t]]
  /\ said' = IF said # None /\ said.token \notin ts THEN None ELSE said
  /\ UNCHANGED <<stop, pc, tokens, updates, connection, tick, ticks, faults>>

Stop == ~stop /\ stop' = TRUE
        /\ UNCHANGED <<wanted, pc, tokens, updates, connection, tick, consumer, bounds>>

(***************************************************************************)
(* run and _listen                                                         *)
(***************************************************************************)

Closed == up' = None /\ down' = None /\ served' = {} /\ updates' = <<>>

\* While the set is empty no connection is held.
Top ==
  /\ pc = "top" /\ tokens' = wanted
  /\ pc' = IF stop THEN "ended" ELSE IF wanted = {} THEN "top" ELSE "connect"
  /\ UNCHANGED <<wanted, stop, updates, connection, tick, consumer, bounds>>

Op(subscribe, ids) == [sub |-> subscribe, ids |-> ids]

Connect ==
  /\ pc = "connect" /\ pc' = "look"
  /\ up' = <<>> /\ down' = <<Op(TRUE, tokens)>> /\ served' = {}
  /\ UNCHANGED <<wanted, stop, tokens, updates, tick, consumer, bounds>>

\* The set is looked at, and then read: another thread may replace it in between.
Look ==
  /\ pc = "look"
  /\ IF stop \/ wanted = {} THEN pc' = "top" /\ Closed ELSE pc' = "match" /\ UNCHANGED <<updates, connection>>
  /\ UNCHANGED <<wanted, stop, tokens, tick, consumer, bounds>>

\* Fault: tokens that left the set stay subscribed.
OnlyNew(new, old) == IF new \ old = {} THEN <<>> ELSE <<Op(TRUE, new \ old)>>

Operations(new, old) ==
  (IF new \ old = {} THEN <<>> ELSE <<Op(TRUE, new \ old)>>)
  \o (IF old \ new = {} THEN <<>> ELSE <<Op(FALSE, old \ new)>>)

Match ==
  /\ pc = "match" /\ pc' = "recv"
  /\ Len(down) <= Wire /\ down' = down \o Operations(wanted, tokens)
  /\ tokens' = wanted
  /\ UNCHANGED <<wanted, stop, updates, up, served, tick, consumer, bounds>>

\* A frame, or none within RECV_S.
Recv ==
  /\ pc = "recv"
  /\ IF up = <<>> THEN pc' = "look" /\ UNCHANGED <<up, updates>>
     ELSE pc' = "deliver" /\ up' = Tail(up) /\ updates' = ParseFrame(Head(up))
  /\ UNCHANGED <<wanted, stop, tokens, down, served, tick, consumer, bounds>>

\* on_update takes an update for a token in the set. The consumer ignores one it dropped.
Hears(u) ==
  IF u.token \notin wanted \/ heard[u.token] = Left THEN UNCHANGED consumer
  ELSE IF u.tick # None THEN heard' = [heard EXCEPT ![u.token] = u.tick] /\ UNCHANGED said
  ELSE said' = [token |-> u.token, quoted |-> u.quoted, in |-> heard[u.token]] /\ UNCHANGED heard

\* One update after the other, in the order of the messages.
Deliver ==
  /\ pc = "deliver"
  /\ IF updates = <<>> THEN pc' = "look" /\ UNCHANGED <<updates, consumer>>
     ELSE IF Head(updates) = <<>> THEN updates' = Tail(updates) /\ UNCHANGED <<pc, consumer>>
     ELSE /\ updates' = [updates EXCEPT ![1] = Tail(@)] /\ UNCHANGED pc
          /\ IF Head(Head(updates)).token \in tokens
             THEN Hears(Head(Head(updates))) ELSE UNCHANGED consumer
  /\ UNCHANGED <<wanted, stop, tokens, connection, tick, bounds>>

\* The connection fails, or on_update raises: on_error, then RECONNECT_S, unless stopping.
Raised ==
  /\ pc \in {"connect", "match", "recv", "deliver"}
  /\ faults < MaxFaults /\ faults' = faults + 1
  /\ Closed /\ pc' = IF stop THEN "ended" ELSE "wait"
  /\ UNCHANGED <<wanted, stop, tokens, tick, consumer, sets, ticks>>

Wait == pc = "wait" /\ pc' = "top"
        /\ UNCHANGED <<wanted, stop, tokens, updates, connection, tick, consumer, bounds>>

Next ==
  \/ \E t \in Tokens : TickChanges(t) \/ PriceChanges(t)
  \/ \E ts \in SUBSET Tokens : SetTokens(ts)
  \/ Serves \/ Stop \/ Top \/ Connect \/ Look \/ Match \/ Recv \/ Deliver \/ Raised \/ Wait
Spec == Init /\ [][Next]_vars

(***************************************************************************)
(* What the feed promises                                                  *)
(***************************************************************************)

\* What the server serves once the operations on the wire arrive: the last that names a token
\* decides of it.
Names(i, t) == i \in DOMAIN down /\ t \in down[i].ids
ToBeServed ==
  {t \in Tokens : \/ t \in served /\ \A i \in DOMAIN down : ~Names(i, t)
                  \/ \E i \in DOMAIN down : /\ Names(i, t) /\ down[i].sub
                                            /\ \A j \in DOMAIN down : Names(j, t) => j <= i}

\* However the set changes while the feed connects, listens or reconnects, and wherever the
\* connection fails: what the server will serve is what the feed filters by, and a price the
\* consumer is given for a token it never dropped is in the tick it last heard for it, if any.
FeedIsFaithful ==
  /\ down # None => ToBeServed = tokens
  /\ said # None => said.in \in {None, said.quoted}
===============================================================================
