------------------------------ MODULE FeedProofs ------------------------------
(* Feed keeps its promises for every set of tokens, every wire and every number of failures:
   what the server will serve is what run filters by, and a price is in the tick its consumer
   last heard. *)
EXTENDS Feed, FiniteSetTheorems, FunctionTheorems, SequenceTheorems, TLAPS

Ticks == {1, 2}
Messages == [kind : {"tick", "book", "price"}, token : Tokens, tick : Ticks]
              \cup [kind : {"other"}, token : Tokens, tick : {None}]
Upds == [token : Tokens, tick : Ticks, quoted : {None}]
          \cup [token : Tokens, tick : {None}, quoted : Ticks]
Ops == [sub : BOOLEAN, ids : SUBSET Tokens]

Connected == pc \in {"look", "match", "recv", "deliver"}

\* The state is what the declarations say; nothing of a connection outlives it.
Shapes ==
  /\ wanted \subseteq Tokens /\ tokens \subseteq Tokens /\ served \subseteq Tokens
  /\ tick \in [Tokens -> Ticks] /\ \A t \in Tokens : tick[Sibling(t)] = tick[t]
  /\ heard \in [Tokens -> Ticks \cup {None, Left}]
  /\ updates \in Seq(Seq(Upds)) /\ (pc # "deliver" => updates = <<>>)
  /\ pc \in {"top", "connect", "look", "match", "recv", "deliver", "wait", "ended"}
  /\ Connected => up \in Seq(Seq(Messages)) /\ down \in Seq(Ops)
  /\ ~Connected => up = None /\ down = None /\ served = {}

\* A message that tells a token's tick, one that prices it, and an update that tells it.
Tells(m, t) == m.kind \in {"tick", "book"} /\ m.token = t
Prices(m, t) == m.kind = "price" /\ t \in {m.token, Sibling(m.token)}
Says(u, t) == u.token = t /\ u.tick # None

\* Whatever names a token the consumer never dropped, the feed filters by it and it is wanted.
NamedAt(t) ==
  /\ t \in tokens \/ heard[t] # None => t \in wanted
  /\ pc = "connect" /\ heard[t] # None => t \in tokens
  /\ Connected =>
       /\ t \in served => t \in tokens
       /\ \A i \in DOMAIN down : t \in down[i].ids => t \in tokens /\ down[i].sub
       /\ \A i \in DOMAIN up : \A n \in DOMAIN up[i] : Tells(up[i][n], t) => t \in tokens
       /\ \A g \in DOMAIN updates : \A k \in DOMAIN updates[g] : Says(updates[g][k], t) => t \in tokens
Named == \A t \in Tokens : heard[t] # Left => NamedAt(t)

\* b is the tick a consumer that heard h will have heard of the token after the frame in hand,
\* and the prices in hand are in it, or come before any.
PricedIn(h, b, t, group, k) ==
  /\ b \in {None, group[k].quoted}
  /\ \/ h \in {None, group[k].quoted}
     \/ \E j \in DOMAIN group : j < k /\ Says(group[j], t)
HandSays(us, h, b, t) ==
  /\ \A g \in DOMAIN us : \A k \in DOMAIN us[g] : us[g][k].token = t =>
       /\ us[g][k].tick # None => us[g][k].tick = b
       /\ us[g][k].tick = None => PricedIn(h, b, t, us[g], k)
  /\ b # h => \E g \in DOMAIN us : \E k \in DOMAIN us[g] : Says(us[g][k], t)

\* c[i] is the one it will have heard after the frame i of the wire.
FrameSays(frame, before, after, t) ==
  /\ \A n \in DOMAIN frame : Tells(frame[n], t) => frame[n].tick = after
  /\ after # before => \E n \in DOMAIN frame : Tells(frame[n], t)
  /\ \A n \in DOMAIN frame : Prices(frame[n], t) => {before, after} \subseteq {None, frame[n].tick}
WireSays(w, c, t) ==
  /\ c \in [0..Len(w) -> Ticks \cup {None}]
  /\ \A i \in 1..Len(w) : FrameSays(w[i], c[i - 1], c[i], t)

\* The last one is the token's tick, once the server serves it; a token it heard of in an
\* earlier connection is in the first operation of this one.
EndsIn(last, t) ==
  /\ t \in served => last = tick[t]
  /\ t \notin served /\ last # None =>
       served = {} /\ down # <<>> /\ t \in Head(down).ids /\ Head(down).sub
LeadAt(t) ==
  \E c : WireSays(up, c, t) /\ HandSays(updates, heard[t], c[0], t) /\ EndsIn(c[Len(up)], t)
TicksLead == Connected => \A t \in Tokens : heard[t] # Left => LeadAt(t)

\* What the operations of a wire make of a subscription to t.
WillServe(sv, w, t) ==
  \/ t \in sv /\ \A i \in DOMAIN w : t \notin w[i].ids
  \/ \E i \in DOMAIN w : /\ t \in w[i].ids /\ w[i].sub
                         /\ \A j \in DOMAIN w : t \in w[j].ids => j <= i
Filters == Connected => \A t \in Tokens : WillServe(served, down, t) <=> t \in tokens
SaidIn == said # None => said.in \in {None, said.quoted}

FInv == Shapes /\ Named /\ TicksLead /\ Filters /\ SaidIn

-----------------------------------------------------------------------------
(* Frames                                                                  *)

\* A set as a sequence has each of its elements.
LEMMA SeqHasEach ==
  ASSUME NEW S, IsFiniteSet(S)
  PROVE  /\ SetToSeq(S) \in Seq(S)
         /\ \A s \in S : \E i \in DOMAIN SetToSeq(S) : SetToSeq(S)[i] = s
<1> DEFINE n == Cardinality(S)
           f == SetToSeq(S)
<1>1. n \in Nat /\ ExistsBijection(1..n, S)
  BY FS_CardinalityType, FS_NatBijection, FS_CountingElements
<1>2. \E g \in [1..n -> S] : IsInjective(g)
  BY <1>1 DEF ExistsBijection, Bijection, Injection, IsInjective
<1>3. f \in [1..n -> S] /\ IsInjective(f)
  BY <1>2 DEF SetToSeq
<1>4. f \in Injection(1..n, S)
  BY <1>3 DEF Injection, IsInjective
<1> DEFINE image == {f[i] : i \in 1..n}
<1>5. image \subseteq S /\ Cardinality(image) = n
  <2>1. f \in Bijection(1..n, image)
    BY <1>3 DEF Bijection, Injection, Surjection, IsInjective
  <2>2. IsFiniteSet(1..n) /\ Cardinality(1..n) = n
    BY <1>1, FS_Interval
  <2>3. Cardinality(image) = n
    BY <2>1, <2>2, FS_Bijection DEF ExistsBijection
  <2> QED BY <1>3, <2>3
<1>6. image = S
  BY <1>5, FS_Subset
<1> QED
  BY <1>1, <1>3, <1>6

\* A frame made for tokens tells each its tick, and is about no other.
LEMMA EachTells ==
  ASSUME FeedAssumption, tick' \in [Tokens -> Ticks], NEW ts \in SUBSET Tokens,
         NEW kind \in {"tick", "book"}
  PROVE  /\ Each(kind, ts) \in Seq(Messages)
         /\ \A n \in DOMAIN Each(kind, ts) :
              LET m == Each(kind, ts)[n] IN
                m.kind = kind /\ m.token \in ts /\ m.tick = tick'[m.token]
         /\ \A t \in ts : \E n \in DOMAIN Each(kind, ts) : Each(kind, ts)[n].token = t
<1>1. PICK s : s = SetToSeq(ts)
  OBVIOUS
<1>2. s \in Seq(ts) /\ \A t \in ts : \E i \in DOMAIN s : s[i] = t
  <2>1. IsFiniteSet(ts)
    BY FS_Subset DEF FeedAssumption
  <2> QED BY <1>1, <2>1, SeqHasEach
<1>3. Each(kind, ts) = [i \in DOMAIN s |-> Message(kind, s[i], tick'[s[i]])]
  BY <1>1 DEF Each
<1>4. \A i \in DOMAIN s : s[i] \in ts /\ Message(kind, s[i], tick'[s[i]]) \in Messages
  BY <1>2, ElementOfSeq DEF Message, Messages, Ticks
<1>5. DOMAIN s = 1..Len(s) /\ Len(s) \in Nat
  BY <1>2, LenProperties
<1>6. Each(kind, ts) \in Seq(Messages)
  BY <1>3, <1>4, <1>5, IsASeq
<1> QED
  BY <1>2, <1>3, <1>4, <1>6 DEF Message

\* A frame more on the wire.
LEMMA WireGrows ==
  ASSUME NEW w \in Seq(Seq(Messages)), NEW t \in Tokens, NEW c, WireSays(w, c, t),
         NEW frame, NEW after \in Ticks \cup {None}, FrameSays(frame, c[Len(w)], after, t)
  PROVE  \E d : WireSays(Append(w, frame), d, t) /\ d[0] = c[0] /\ d[Len(w) + 1] = after
<1> DEFINE l == Len(w)
           v == Append(w, frame)
<1>1. l \in Nat /\ Len(v) = l + 1 /\ v[l + 1] = frame /\ \A i \in 1..l : v[i] = w[i]
  BY AppendProperties, LenProperties
<1>2. PICK d : d = [i \in 0..(l + 1) |-> IF i = l + 1 THEN after ELSE c[i]]
  OBVIOUS
<1>3. d \in [0..(l + 1) -> Ticks \cup {None}]
  BY <1>1, <1>2 DEF WireSays
<1>4. ASSUME NEW i \in 1..(l + 1)
      PROVE  FrameSays(v[i], d[i - 1], d[i], t)
  <2>1. CASE i = l + 1
    BY <1>1, <1>2, <2>1
  <2>2. CASE i \in 1..l
    <3>1. d[i] = c[i] /\ d[i - 1] = c[i - 1]
      BY <1>1, <1>2, <2>2
    <3> QED BY <1>1, <2>2, <3>1 DEF WireSays
  <2> QED BY <1>1, <2>1, <2>2
<1> HIDE DEF l, v
<1>5. WireSays(v, d, t)
  BY <1>1, <1>3, <1>4 DEF WireSays
<1>6. d[0] = c[0] /\ d[l + 1] = after
  BY <1>1, <1>2
<1> QED
  BY <1>5, <1>6 DEF l, v

\* The frame received leaves the wire and is in hand.
LEMMA WireShrinks ==
  ASSUME NEW w \in Seq(Seq(Messages)), w # <<>>, NEW t \in Tokens, NEW c, WireSays(w, c, t)
  PROVE  \E d : WireSays(Tail(w), d, t) /\ d[0] = c[1] /\ d[Len(Tail(w))] = c[Len(w)]
<1> DEFINE l == Len(w)
           v == Tail(w)
<1>1. /\ l \in Nat /\ l >= 1 /\ Len(v) = l - 1
      /\ \A i \in 1..(l - 1) : v[i] = w[i + 1]
  BY HeadTailProperties, LenProperties, EmptySeq
<1>2. PICK d : d = [i \in 0..(l - 1) |-> c[i + 1]]
  OBVIOUS
<1>3. d \in [0..(l - 1) -> Ticks \cup {None}]
  BY <1>1, <1>2 DEF WireSays
<1>4. ASSUME NEW i \in 1..(l - 1)
      PROVE  FrameSays(v[i], d[i - 1], d[i], t)
  <2>1. d[i] = c[i + 1] /\ d[i - 1] = c[i]
    BY <1>1, <1>2
  <2>2. FrameSays(w[i + 1], c[(i + 1) - 1], c[i + 1], t)
    BY <1>1 DEF WireSays
  <2> QED BY <1>1, <2>1, <2>2
<1> HIDE DEF l, v
<1>5. WireSays(v, d, t)
  BY <1>1, <1>3, <1>4 DEF WireSays
<1>6. d[0] = c[1] /\ d[l - 1] = c[l]
  BY <1>1, <1>2
<1> QED
  BY <1>1, <1>5, <1>6 DEF l, v

\* What a message becomes: its ticks are told before its prices, and of no other token.
LEMMA UpdatesOf ==
  ASSUME FeedAssumption, NEW m \in Messages
  PROVE  /\ Updates(m) \in Seq(Upds)
         /\ \A k \in DOMAIN Updates(m) : LET u == Updates(m)[k] IN
              /\ u.tick # None => Tells(m, u.token) /\ u.tick = m.tick
              /\ u.tick = None => u.quoted = m.tick /\ m.tick \in Ticks
              /\ u.tick = None =>
                   \/ Prices(m, u.token)
                   \/ Tells(m, u.token) /\ \E j \in DOMAIN Updates(m) : j < k /\ Says(Updates(m)[j], u.token)
         /\ \A t \in Tokens : Tells(m, t) => \E k \in DOMAIN Updates(m) : Says(Updates(m)[k], t)
<1>1. m.token \in Tokens /\ Sibling(m.token) \in Tokens /\ None \notin Ticks
  BY DEF Messages, FeedAssumption, Ticks
<1>2. CASE m.kind = "tick"
  <2>1. Updates(m) = <<Update(m.token, m.tick, None)>>
    BY <1>2 DEF Updates
  <2>2. m.tick \in Ticks
    BY <1>2 DEF Messages
  <2> QED BY <1>1, <1>2, <2>1, <2>2 DEF Update, Upds, Tells, Says, Prices
<1>3. CASE m.kind = "book"
  <2>1. Updates(m) = <<Update(m.token, m.tick, None), Update(m.token, None, m.tick)>>
    BY <1>3 DEF Updates
  <2>2. m.tick \in Ticks
    BY <1>3 DEF Messages
  <2>3. /\ DOMAIN Updates(m) = {1, 2} /\ Updates(m) \in Seq(Upds)
        /\ Updates(m)[1] = Update(m.token, m.tick, None)
        /\ Updates(m)[2] = Update(m.token, None, m.tick)
    BY <1>1, <2>1, <2>2 DEF Update, Upds
  <2> QED BY <1>1, <1>3, <2>2, <2>3 DEF Update, Tells, Says
<1>4. CASE m.kind = "price"
  <2>1. Updates(m) = <<Update(m.token, None, m.tick), Update(Sibling(m.token), None, m.tick)>>
    BY <1>4 DEF Updates
  <2>2. m.tick \in Ticks
    BY <1>4 DEF Messages
  <2>3. /\ DOMAIN Updates(m) = {1, 2} /\ Updates(m) \in Seq(Upds)
        /\ Updates(m)[1] = Update(m.token, None, m.tick)
        /\ Updates(m)[2] = Update(Sibling(m.token), None, m.tick)
    BY <1>1, <2>1, <2>2 DEF Update, Upds
  <2> QED BY <1>1, <1>4, <2>2, <2>3 DEF Update, Tells, Says, Prices
<1>5. CASE m.kind = "other"
  <2>1. Updates(m) = <<>>
    BY <1>5 DEF Updates
  <2> QED BY <1>5, <2>1 DEF Tells
<1> QED
  BY <1>2, <1>3, <1>4, <1>5 DEF Messages

\* The operation that comes last on the wire decides of the tokens it names.
LEMMA LastDecides ==
  ASSUME NEW w \in Seq(Ops), NEW op \in Ops, NEW sv, NEW t
  PROVE  WillServe(sv, Append(w, op), t) <=> IF t \in op.ids THEN op.sub ELSE WillServe(sv, w, t)
<1> DEFINE n == Len(w)
           v == Append(w, op)
<1>1. /\ n \in Nat /\ DOMAIN w = 1..n /\ DOMAIN v = 1..(n + 1)
      /\ v[n + 1] = op /\ \A i \in 1..n : v[i] = w[i]
  BY AppendProperties, LenProperties
<1> HIDE DEF n, v
<1>2. CASE t \in op.ids
  <2>1. n + 1 \in DOMAIN v /\ \A i \in DOMAIN v : n + 1 <= i => i = n + 1
    BY <1>1
  <2>2. \A j \in DOMAIN v : j <= n + 1
    BY <1>1
  <2> QED BY <1>1, <1>2, <2>1, <2>2 DEF WillServe, v
<1>3. CASE t \notin op.ids
  <2>1. \A i \in DOMAIN v : t \in v[i].ids => i \in 1..n
    BY <1>1, <1>3
  <2> QED BY <1>1, <1>3, <2>1 DEF WillServe, v
<1> QED
  BY <1>2, <1>3

\* The operation the server takes does to its subscription what it promised to.
LEMMA FirstIsServed ==
  ASSUME NEW w \in Seq(Ops), w # <<>>, NEW sv, NEW t
  PROVE  WillServe(IF Head(w).sub THEN sv \cup Head(w).ids ELSE sv \ Head(w).ids, Tail(w), t)
           <=> WillServe(sv, w, t)
<1> DEFINE n == Len(w)
           v == Tail(w)
           next == IF w[1].sub THEN sv \cup w[1].ids ELSE sv \ w[1].ids
<1>1. /\ n \in Nat /\ n >= 1 /\ DOMAIN w = 1..n /\ DOMAIN v = 1..(n - 1) /\ Head(w) = w[1]
      /\ \A i \in 1..(n - 1) : v[i] = w[i + 1]
  BY HeadTailProperties, LenProperties, EmptySeq
<1>2. \A i \in 2..n : i - 1 \in 1..(n - 1) /\ v[i - 1] = w[i]
  BY <1>1
<1> HIDE DEF n, v
<1>3. CASE \E i \in 2..n : t \in w[i].ids
  <2>1. ASSUME WillServe(next, v, t)
        PROVE  WillServe(sv, w, t)
    <3>1. PICK i \in 1..(n - 1) : /\ t \in v[i].ids /\ v[i].sub
                                  /\ \A j \in 1..(n - 1) : t \in v[j].ids => j <= i
      BY <1>1, <1>2, <1>3, <2>1 DEF WillServe
    <3>2. i + 1 \in 1..n /\ t \in w[i + 1].ids /\ w[i + 1].sub
      BY <1>1, <3>1
    <3>3. ASSUME NEW j \in 1..n, t \in w[j].ids
          PROVE  j <= i + 1
      BY <1>1, <1>2, <3>1, <3>3
    <3> QED BY <1>1, <3>2, <3>3 DEF WillServe
  <2>2. ASSUME WillServe(sv, w, t)
        PROVE  WillServe(next, v, t)
    <3>1. PICK i \in 1..n : /\ t \in w[i].ids /\ w[i].sub
                            /\ \A j \in 1..n : t \in w[j].ids => j <= i
      <4>1. \E i \in 1..n : t \in w[i].ids
        BY <1>1, <1>3
      <4> QED BY <1>1, <2>2, <4>1 DEF WillServe
    <3>2. i \in 2..n
      BY <1>1, <1>3, <3>1
    <3>3. i - 1 \in 1..(n - 1) /\ t \in v[i - 1].ids /\ v[i - 1].sub
      BY <1>2, <3>1, <3>2
    <3>4. ASSUME NEW j \in 1..(n - 1), t \in v[j].ids
          PROVE  j <= i - 1
      <4>1. j + 1 \in 1..n /\ t \in w[j + 1].ids
        BY <1>1, <3>4
      <4>2. j + 1 <= i
        BY <3>1, <4>1
      <4> QED BY <1>1, <4>2
    <3> QED BY <1>1, <3>3, <3>4 DEF WillServe
  <2> QED BY <1>1, <2>1, <2>2 DEF v
<1>4. CASE \A i \in 2..n : t \notin w[i].ids
  <2>1. \A i \in 1..(n - 1) : t \notin v[i].ids
    BY <1>1, <1>4
  <2>2. WillServe(next, v, t) <=> t \in next
    BY <1>1, <2>1 DEF WillServe
  <2>3. CASE t \in w[1].ids
    <3>1. \A i \in 1..n : t \in w[i].ids => i = 1
      BY <1>1, <1>4
    <3>2. WillServe(sv, w, t) <=> w[1].sub
      BY <1>1, <2>3, <3>1 DEF WillServe
    <3> QED BY <1>1, <2>2, <2>3, <3>2 DEF v
  <2>4. CASE t \notin w[1].ids
    <3>1. \A i \in 1..n : t \notin w[i].ids
      BY <1>1, <1>4, <2>4
    <3>2. WillServe(sv, w, t) <=> t \in sv
      BY <1>1, <3>1 DEF WillServe
    <3> QED BY <1>1, <2>2, <2>4, <3>2 DEF v
  <2> QED BY <2>3, <2>4
<1> QED
  BY <1>3, <1>4

-----------------------------------------------------------------------------
(* The server, the wire and the caller                                     *)

\* What a step leaves as it was keeps what rests on it.
LEMMA Frame ==
  ASSUME FInv, UNCHANGED <<wanted, pc, tokens, updates, connection, tick, consumer>>
  PROVE  FInv'
BY DEF FInv, Shapes, Named, NamedAt, TicksLead, LeadAt, WireSays, EndsIn, Filters, SaidIn, Connected, connection, consumer

\* A frame on the wire that says of each token what is so leaves the rest as it was.
LEMMA SendKeeps ==
  ASSUME FeedAssumption, FInv, Connected, NEW frame \in Seq(Messages), up' = Append(up, frame),
         UNCHANGED <<wanted, pc, tokens, updates, consumer>>,
         Connected', Shapes', Filters', served \subseteq served',
         \A t \in Tokens : heard[t] # Left =>
            /\ \A i \in DOMAIN down' : t \in down'[i].ids => t \in tokens /\ down'[i].sub
            /\ t \in served' => t \in tokens
            /\ \A n \in DOMAIN frame : Tells(frame[n], t) => t \in served',
         \A t \in Tokens, last \in Ticks \cup {None} :
            heard[t] # Left /\ EndsIn(last, t) =>
              \E after \in Ticks \cup {None} : FrameSays(frame, last, after, t) /\ EndsIn(after, t)'
  PROVE  FInv'
<1>1. up \in Seq(Seq(Messages)) /\ Len(up) \in Nat
  BY LenProperties DEF FInv, Shapes
<1>2. /\ DOMAIN up = 1..Len(up) /\ DOMAIN up' = 1..(Len(up) + 1)
      /\ up'[Len(up) + 1] = frame /\ \A i \in 1..Len(up) : up'[i] = up[i]
  BY <1>1, AppendProperties, LenProperties
<1>3. Named'
  <2> SUFFICES ASSUME NEW t \in Tokens, heard[t] # Left
               PROVE  NamedAt(t)'
    BY DEF Named, consumer
  <2>1. NamedAt(t) /\ pc # "connect"
    BY DEF FInv, Named, Connected
  <2>2. ASSUME NEW i \in DOMAIN up', NEW n \in DOMAIN up'[i], Tells(up'[i][n], t)
        PROVE  t \in tokens
    BY <1>2, <2>1, <2>2 DEF NamedAt
  <2> QED BY <2>1, <2>2 DEF NamedAt, Connected, consumer
<1>4. TicksLead'
  <2> SUFFICES ASSUME NEW t \in Tokens, heard[t] # Left
               PROVE  LeadAt(t)'
    BY DEF TicksLead, consumer
  <2>1. PICK c : WireSays(up, c, t) /\ HandSays(updates, heard[t], c[0], t) /\ EndsIn(c[Len(up)], t)
    BY DEF FInv, TicksLead, LeadAt
  <2>2. c[Len(up)] \in Ticks \cup {None}
    BY <1>1, <2>1 DEF WireSays
  <2>3. PICK after \in Ticks \cup {None} : FrameSays(frame, c[Len(up)], after, t) /\ EndsIn(after, t)'
    BY <2>1, <2>2
  <2>4. PICK d : WireSays(up', d, t) /\ d[0] = c[0] /\ d[Len(up')] = after
    <3>1. Len(up') = Len(up) + 1
      BY <1>1, AppendProperties
    <3> QED BY <1>1, <2>1, <2>3, <3>1, WireGrows
  <2> QED BY <2>1, <2>3, <2>4 DEF LeadAt, consumer
<1> QED
  BY <1>3, <1>4 DEF FInv, SaidIn, consumer

LEMMA TickChangesKeeps ==
  ASSUME FeedAssumption, FInv, NEW t \in Tokens, TickChanges(t)
  PROVE  FInv'
<1> DEFINE here == served \cap {t, Sibling(t)}
<1>1. /\ wanted' = wanted /\ pc' = pc /\ tokens' = tokens /\ updates' = updates /\ down' = down
      /\ served' = served /\ heard' = heard /\ said' = said
  BY DEF TickChanges, consumer
<1>2. /\ tick' = [tick EXCEPT ![t] = 3 - @, ![Sibling(t)] = 3 - @]
      /\ tick \in [Tokens -> Ticks] /\ Sibling(t) \in Tokens \ {t}
  BY DEF TickChanges, FInv, Shapes, FeedAssumption
<1>3. /\ tick' \in [Tokens -> Ticks]
      /\ \A s \in Tokens : tick'[s] = IF s \in {t, Sibling(t)} THEN 3 - tick[s] ELSE tick[s]
  BY <1>2 DEF Ticks
<1>4. \A s \in Tokens : tick'[Sibling(s)] = tick'[s]
  BY <1>3 DEF FInv, Shapes, FeedAssumption
<1>5. CASE here = {}
  <2>1. up' = up
    BY <1>5 DEF TickChanges
  <2>2. Shapes'
    BY <1>1, <1>3, <1>4, <2>1 DEF FInv, Shapes, Connected
  <2>3. Named' /\ Filters' /\ SaidIn'
    BY <1>1, <2>1 DEF FInv, Named, NamedAt, Filters, SaidIn, Connected
  <2>4. TicksLead'
    <3> SUFFICES ASSUME Connected, NEW s \in Tokens, heard[s] # Left
                 PROVE  LeadAt(s)'
      BY <1>1 DEF TicksLead, Connected
    <3>1. PICK c : WireSays(up, c, s) /\ HandSays(updates, heard[s], c[0], s) /\ EndsIn(c[Len(up)], s)
      BY DEF FInv, TicksLead, LeadAt
    <3>2. s \in served => tick'[s] = tick[s]
      BY <1>3, <1>5
    <3>3. WireSays(up', c, s)
      BY <2>1, <3>1 DEF WireSays
    <3>4. EndsIn(c[Len(up)], s)'
      BY <1>1, <2>1, <3>1, <3>2 DEF EndsIn
    <3> QED BY <1>1, <2>1, <3>1, <3>3, <3>4 DEF LeadAt
  <2> QED BY <2>2, <2>3, <2>4 DEF FInv
<1>6. CASE here # {}
  <2>0. PICK h \in SUBSET Tokens : h = here
    BY DEF FInv, Shapes
  <2>1. PICK kind \in {"tick", "book"} : up' = Append(up, Each(kind, h))
    BY <1>6, <2>0 DEF TickChanges, Sends
  <2>2. Connected /\ Connected'
    BY <1>1, <1>6 DEF FInv, Shapes, Connected
  <2>3. PICK frame : frame = Each(kind, h)
    OBVIOUS
  <2>5. /\ frame \in Seq(Messages)
        /\ \A n \in DOMAIN frame :
             frame[n].kind = kind /\ frame[n].token \in here /\ frame[n].tick = tick'[frame[n].token]
        /\ \A s \in here : \E n \in DOMAIN frame : frame[n].token = s
    <3>1. /\ Each(kind, h) \in Seq(Messages)
          /\ \A n \in DOMAIN Each(kind, h) :
              LET m == Each(kind, h)[n] IN
                m.kind = kind /\ m.token \in h /\ m.tick = tick'[m.token]
          /\ \A t_1 \in h : \E n \in DOMAIN Each(kind, h) : Each(kind, h)[n].token = t_1
      BY <1>3, EachTells
    <3> QED BY <2>0, <2>3, <3>1
  <2>6. Shapes'
    <3>1. up' \in Seq(Seq(Messages))
      BY <2>1, <2>2, <2>3, <2>5, AppendProperties DEF FInv, Shapes
    <3> QED BY <1>1, <1>3, <1>4, <2>2, <3>1 DEF FInv, Shapes, Connected
  <2>7. Filters'
    BY <1>1 DEF FInv, Filters, Connected
  <2>8. ASSUME NEW s \in Tokens, heard[s] # Left
        PROVE  /\ \A i \in DOMAIN down' : s \in down'[i].ids => s \in tokens /\ down'[i].sub
               /\ s \in served' => s \in tokens
               /\ \A n \in DOMAIN frame : Tells(frame[n], s) => s \in served'
    BY <1>1, <2>2, <2>5, <2>8 DEF FInv, Named, NamedAt, Tells
  <2>9. ASSUME NEW s \in Tokens, NEW last \in Ticks \cup {None}, heard[s] # Left, EndsIn(last, s)
        PROVE  \E after \in Ticks \cup {None} : FrameSays(frame, last, after, s) /\ EndsIn(after, s)'
    <3>1. \A n \in DOMAIN frame : ~Prices(frame[n], s)
      BY <2>5 DEF Prices
    <3>2. CASE s \in here
      <4>1. PICK after \in Ticks : after = tick'[s]
        BY <1>3
      <4>2. FrameSays(frame, last, after, s)
        BY <2>5, <3>1, <3>2, <4>1 DEF FrameSays, Tells
      <4>3. EndsIn(after, s)'
        BY <1>1, <3>2, <4>1 DEF EndsIn
      <4> QED BY <4>2, <4>3
    <3>3. CASE s \notin here
      <4>1. FrameSays(frame, last, last, s)
        BY <2>5, <3>1, <3>3 DEF FrameSays, Tells
      <4>2. s \in served => tick'[s] = tick[s]
        BY <1>3, <3>3
      <4>3. EndsIn(last, s)'
        BY <1>1, <1>6, <2>9, <4>2 DEF EndsIn
      <4> QED BY <4>1, <4>3
    <3> QED BY <3>2, <3>3
  <2> QED
    BY <1>1, <2>1, <2>2, <2>3, <2>5, <2>6, <2>7, <2>8, <2>9, SendKeeps DEF consumer
<1> QED
  BY <1>5, <1>6

LEMMA PriceChangesKeeps ==
  ASSUME FeedAssumption, FInv, NEW t \in Tokens, PriceChanges(t)
  PROVE  FInv'
<1>1. /\ wanted' = wanted /\ pc' = pc /\ tokens' = tokens /\ updates' = updates /\ down' = down
      /\ served' = served /\ heard' = heard /\ said' = said /\ tick' = tick
  BY DEF PriceChanges, consumer
<1>2. Connected /\ Connected' /\ t \in served
  BY <1>1 DEF PriceChanges, FInv, Shapes, Connected
<1>3. PICK m : /\ up' = Append(up, <<m>>)
              /\ m \in {Message("price", t, tick[t]), Message("other", t, None)}
  BY DEF PriceChanges, Sends
<1>4. m \in Messages /\ m.kind \in {"price", "other"} /\ (m.kind = "price" => m.token = t /\ m.tick = tick[t])
  BY <1>3 DEF Message, Messages, FInv, Shapes
<1> DEFINE frame == <<m>>
<1>5. frame \in Seq(Messages) /\ DOMAIN frame = {1} /\ frame[1] = m
  BY <1>4
<1> HIDE DEF frame
<1>6. Shapes'
  <2>1. up' \in Seq(Seq(Messages))
    BY <1>2, <1>3, <1>5, AppendProperties DEF FInv, Shapes, frame
  <2> QED BY <1>1, <1>2, <2>1 DEF FInv, Shapes, Connected
<1>7. Filters'
  BY <1>1 DEF FInv, Filters, WillServe, Connected
<1>8. ASSUME NEW s \in Tokens, heard[s] # Left
      PROVE  /\ \A i \in DOMAIN down' : s \in down'[i].ids => s \in tokens /\ down'[i].sub
             /\ s \in served' => s \in tokens
             /\ \A n \in DOMAIN frame : Tells(frame[n], s) => s \in served'
  BY <1>1, <1>2, <1>4, <1>5, <1>8 DEF FInv, Named, NamedAt, Tells
<1>9. ASSUME NEW s \in Tokens, NEW last \in Ticks \cup {None}, heard[s] # Left, EndsIn(last, s)
      PROVE  \E after \in Ticks \cup {None} : FrameSays(frame, last, after, s) /\ EndsIn(after, s)'
  <2>1. EndsIn(last, s)'
    BY <1>1, <1>9 DEF EndsIn
  <2>2. \A n \in DOMAIN frame : ~Tells(frame[n], s)
    BY <1>4, <1>5 DEF Tells
  <2>3. s \in {t, Sibling(t)} => last \in {None, tick[t]}
    <3>1. s \in {t, Sibling(t)} => tick[s] = tick[t]
      BY DEF FInv, Shapes
    <3>2. s \notin served => last = None
      BY <1>2, <1>9 DEF EndsIn
    <3> QED BY <1>9, <3>1, <3>2 DEF EndsIn
  <2>4. FrameSays(frame, last, last, s)
    BY <1>4, <1>5, <2>2, <2>3 DEF FrameSays, Prices
  <2> QED BY <2>1, <2>4
<1>10. up' = Append(up, frame)
  BY <1>3 DEF frame
<1> QED
  BY <1>1, <1>2, <1>5, <1>6, <1>7, <1>8, <1>9, <1>10, SendKeeps DEF consumer

LEMMA ServesKeeps ==
  ASSUME FeedAssumption, FInv, Serves
  PROVE  FInv'
<1> DEFINE op == Head(down)
<1>1. /\ wanted' = wanted /\ pc' = pc /\ tokens' = tokens /\ updates' = updates /\ down' = Tail(down)
      /\ heard' = heard /\ said' = said /\ tick' = tick /\ down # <<>> /\ down # None
      /\ served' = IF op.sub THEN served \cup op.ids ELSE served \ op.ids
  BY DEF Serves, consumer
<1>2. Connected /\ Connected' /\ down \in Seq(Ops)
  BY <1>1 DEF FInv, Shapes, Connected
<1>3. /\ op \in Ops /\ op = down[1] /\ 1 \in DOMAIN down /\ down' \in Seq(Ops)
      /\ \A i \in DOMAIN down' : i + 1 \in DOMAIN down /\ down'[i] = down[i + 1]
  BY <1>1, <1>2, HeadTailProperties, LenProperties, EmptySeq
<1> HIDE DEF op
<1>4. Filters'
  <2>1. \A t \in Tokens : WillServe(served', down', t) <=> WillServe(served, down, t)
    BY <1>1, <1>2, FirstIsServed DEF op
  <2> QED BY <1>1, <1>2, <2>1 DEF FInv, Filters
<1>5. ASSUME NEW t \in Tokens, heard[t] # Left
      PROVE  /\ \A i \in DOMAIN down' : t \in down'[i].ids => t \in tokens /\ down'[i].sub
             /\ t \in op.ids => t \in tokens /\ op.sub
             /\ t \in served' => t \in tokens
  BY <1>1, <1>2, <1>3, <1>5 DEF FInv, Named, NamedAt
<1>6. CASE op.sub
  <2>0. PICK h \in SUBSET Tokens : h = op.ids
    BY <1>3 DEF Ops
  <2>1. served' = served \cup h /\ up' = Append(up, Each("book", h))
    BY <1>1, <1>6, <2>0 DEF Serves, Sends, op
  <2>2. tick' \in [Tokens -> Ticks]
    BY <1>1 DEF FInv, Shapes
  <2>3. PICK frame : frame = Each("book", h)
    OBVIOUS
  <2>4. /\ frame \in Seq(Messages)
        /\ \A n \in DOMAIN frame :
             frame[n].kind = "book" /\ frame[n].token \in h /\ frame[n].tick = tick[frame[n].token]
        /\ \A s \in h : \E n \in DOMAIN frame : frame[n].token = s
    <3>1. /\ Each("book", h) \in Seq(Messages)
          /\ \A n \in DOMAIN Each("book", h) :
              LET m == Each("book", h)[n] IN
                m.kind = "book" /\ m.token \in h /\ m.tick = tick'[m.token]
          /\ \A s \in h : \E n \in DOMAIN Each("book", h) : Each("book", h)[n].token = s
      BY <2>2, EachTells
    <3> QED BY <1>1, <2>3, <3>1
  <2>5. Shapes'
    <3>1. up' \in Seq(Seq(Messages))
      BY <1>2, <2>1, <2>3, <2>4, AppendProperties DEF FInv, Shapes
    <3> QED BY <1>1, <1>2, <1>3, <2>1, <3>1 DEF FInv, Shapes, Connected
  <2>6. ASSUME NEW s \in Tokens, heard[s] # Left
        PROVE  /\ \A i \in DOMAIN down' : s \in down'[i].ids => s \in tokens /\ down'[i].sub
               /\ s \in served' => s \in tokens
               /\ \A n \in DOMAIN frame : Tells(frame[n], s) => s \in served'
    BY <1>5, <2>1, <2>4, <2>6 DEF Tells
  <2>7. ASSUME NEW s \in Tokens, NEW last \in Ticks \cup {None}, heard[s] # Left, EndsIn(last, s)
        PROVE  \E after \in Ticks \cup {None} : FrameSays(frame, last, after, s) /\ EndsIn(after, s)'
    <3>1. \A n \in DOMAIN frame : ~Prices(frame[n], s)
      BY <2>4 DEF Prices
    <3>2. CASE s \in h
      <4>1. PICK after \in Ticks : after = tick[s]
        BY DEF FInv, Shapes
      <4>2. FrameSays(frame, last, after, s)
        BY <2>4, <3>1, <3>2, <4>1 DEF FrameSays, Tells
      <4>3. EndsIn(after, s)'
        BY <1>1, <2>1, <3>2, <4>1 DEF EndsIn
      <4> QED BY <4>2, <4>3
    <3>3. CASE s \notin h
      <4>1. FrameSays(frame, last, last, s)
        BY <2>4, <3>1, <3>3 DEF FrameSays, Tells
      <4>2. s \notin served => last = None
        BY <2>0, <2>7, <3>3 DEF EndsIn, op
      <4>3. EndsIn(last, s)'
        BY <1>1, <2>1, <2>7, <3>3, <4>2 DEF EndsIn
      <4> QED BY <4>1, <4>3
    <3> QED BY <3>2, <3>3
  <2>8. served \subseteq served' /\ up' = Append(up, frame)
    BY <2>1, <2>3
  <2> QED
    BY <1>1, <1>2, <1>4, <2>4, <2>5, <2>6, <2>7, <2>8, SendKeeps DEF consumer
<1>7. CASE ~op.sub
  <2>1. served' = served \ op.ids /\ up' = up
    BY <1>1, <1>7 DEF Serves, op
  <2>2. Shapes'
    BY <1>1, <1>2, <1>3, <2>1 DEF FInv, Shapes, Connected
  <2>3. Named'
    <3> SUFFICES ASSUME NEW t \in Tokens, heard[t] # Left
                 PROVE  NamedAt(t)'
      BY <1>1 DEF Named
    <3>1. NamedAt(t)
      BY DEF FInv, Named
    <3> QED BY <1>1, <1>2, <1>5, <2>1, <3>1 DEF NamedAt, Connected
  <2>4. TicksLead'
    <3> SUFFICES ASSUME NEW t \in Tokens, heard[t] # Left
                 PROVE  LeadAt(t)'
      BY <1>1 DEF TicksLead
    <3>1. PICK c : WireSays(up, c, t) /\ HandSays(updates, heard[t], c[0], t) /\ EndsIn(c[Len(up)], t)
      BY <1>2 DEF FInv, TicksLead, LeadAt
    <3>2. t \notin op.ids /\ (t \notin served => c[Len(up)] = None)
      BY <1>5, <1>7, <3>1 DEF EndsIn, op
    <3>3. t \in served' <=> t \in served
      BY <2>1, <3>2
    <3>4. EndsIn(c[Len(up)], t)'
      BY <1>1, <2>1, <3>1, <3>2, <3>3 DEF EndsIn
    <3> QED BY <1>1, <2>1, <3>1, <3>4 DEF LeadAt
  <2>5. SaidIn'
    BY <1>1 DEF FInv, SaidIn
  <2> QED BY <1>4, <2>2, <2>3, <2>4, <2>5 DEF FInv
<1> QED
  BY <1>6, <1>7

LEMMA SetTokensKeeps ==
  ASSUME FeedAssumption, FInv, NEW ts \in SUBSET Tokens, SetTokens(ts)
  PROVE  FInv'
<1>1. /\ pc' = pc /\ tokens' = tokens /\ updates' = updates /\ up' = up /\ down' = down
      /\ served' = served /\ tick' = tick /\ wanted' = ts
      /\ heard' = [t \in Tokens |-> IF t \in wanted \ ts THEN Left ELSE heard[t]]
      /\ said' \in {None, said}
  BY DEF SetTokens, connection
<1>2. Shapes'
  BY <1>1 DEF FInv, Shapes, Connected
<1>3. \A t \in Tokens : heard'[t] # Left => heard'[t] = heard[t] /\ t \notin wanted \ ts
  BY <1>1
<1>4. Named'
  <2> SUFFICES ASSUME NEW t \in Tokens, heard'[t] # Left
               PROVE  NamedAt(t)'
    BY DEF Named
  <2>1. NamedAt(t)
    BY <1>3 DEF FInv, Named
  <2> QED BY <1>1, <1>3, <2>1 DEF NamedAt, Connected
<1>5. TicksLead'
  <2> SUFFICES ASSUME Connected, NEW t \in Tokens, heard'[t] # Left
               PROVE  LeadAt(t)'
    BY <1>1 DEF TicksLead, Connected
  <2>1. PICK c : WireSays(up, c, t) /\ HandSays(updates, heard[t], c[0], t) /\ EndsIn(c[Len(up)], t)
    BY <1>3 DEF FInv, TicksLead, LeadAt
  <2>2. EndsIn(c[Len(up)], t)'
    BY <1>1, <2>1 DEF EndsIn
  <2> QED BY <1>1, <1>3, <2>1, <2>2 DEF LeadAt
<1>6. Filters' /\ SaidIn'
  BY <1>1 DEF FInv, Filters, SaidIn, Connected
<1> QED
  BY <1>2, <1>4, <1>5, <1>6 DEF FInv

-----------------------------------------------------------------------------
(* run and _listen                                                         *)

LEMMA TopKeeps ==
  ASSUME FInv, Top
  PROVE  FInv'
<1>1. /\ wanted' = wanted /\ updates' = updates /\ up' = up /\ down' = down /\ served' = served
      /\ tick' = tick /\ heard' = heard /\ said' = said /\ tokens' = wanted
      /\ pc = "top" /\ pc' \in {"ended", "top", "connect"}
  BY DEF Top, connection, consumer
<1>2. ~Connected /\ ~Connected'
  BY <1>1 DEF Connected
<1>3. Shapes'
  BY <1>1, <1>2 DEF FInv, Shapes
<1>4. Named'
  BY <1>1, <1>2 DEF FInv, Named, NamedAt
<1> QED
  BY <1>1, <1>2, <1>3, <1>4 DEF FInv, TicksLead, Filters, SaidIn

LEMMA ConnectKeeps ==
  ASSUME FInv, Connect
  PROVE  FInv'
<1>1. /\ wanted' = wanted /\ updates' = updates /\ tokens' = tokens
      /\ tick' = tick /\ heard' = heard /\ said' = said
      /\ pc = "connect" /\ pc' = "look" /\ up' = <<>> /\ served' = {} /\ down' = <<Op(TRUE, tokens)>>
  BY DEF Connect, consumer
<1>2. ~Connected /\ Connected' /\ updates = <<>> /\ tokens \subseteq Tokens
  BY <1>1 DEF FInv, Shapes, Connected
<1>3. PICK op : op = Op(TRUE, tokens)
  OBVIOUS
<1>4. op \in Ops /\ op.sub /\ op.ids = tokens /\ down' = <<op>>
  BY <1>1, <1>2, <1>3 DEF Op, Ops
<1>5. down' \in Seq(Ops) /\ DOMAIN down' = {1} /\ down'[1] = op /\ down' # <<>> /\ Head(down') = op
  BY <1>4
<1>6. Shapes'
  <2>1. up' \in Seq(Seq(Messages)) /\ served' \subseteq Tokens
    BY <1>1
  <2> QED BY <1>1, <1>2, <1>5, <2>1 DEF FInv, Shapes
<1>7. Named'
  <2>1. DOMAIN up' = {} /\ DOMAIN updates' = {}
    BY <1>1, <1>2
  <2> SUFFICES ASSUME NEW t \in Tokens, heard[t] # Left
               PROVE  NamedAt(t)'
    BY <1>1 DEF Named
  <2>2. NamedAt(t)
    BY DEF FInv, Named
  <2> QED BY <1>1, <1>2, <1>4, <1>5, <2>1, <2>2 DEF NamedAt
<1>8. TicksLead'
  <2> SUFFICES ASSUME NEW t \in Tokens, heard[t] # Left
               PROVE  LeadAt(t)'
    BY <1>1 DEF TicksLead
  <2>1. heard[t] \in Ticks \cup {None} /\ (heard[t] # None => t \in tokens)
    BY <1>1 DEF FInv, Shapes, Named, NamedAt
  <2>2. PICK c : c = [i \in 0..0 |-> heard[t]]
    OBVIOUS
  <2>3. Len(up') = 0 /\ c[0] = heard[t] /\ c \in [0..0 -> Ticks \cup {None}]
    BY <1>1, <2>1, <2>2
  <2>4. WireSays(up', c, t)
    BY <2>3 DEF WireSays
  <2>5. HandSays(<<>>, heard[t], c[0], t)
    BY <2>3 DEF HandSays
  <2>6. EndsIn(c[Len(up)], t)'
    BY <1>1, <1>4, <1>5, <2>1, <2>3 DEF EndsIn
  <2> QED BY <1>1, <1>2, <2>4, <2>5, <2>6 DEF LeadAt
<1>9. Filters'
  <2>1. \A t \in Tokens : WillServe({}, down', t) <=> t \in tokens
    BY <1>4, <1>5 DEF WillServe
  <2> QED BY <1>1, <2>1 DEF Filters
<1> QED
  BY <1>1, <1>6, <1>7, <1>8, <1>9 DEF FInv, SaidIn

\* Nothing is left of a connection.
LEMMA ClosedKeeps ==
  ASSUME FInv, Closed, pc' \in {"top", "wait", "ended"}, UNCHANGED <<wanted, tokens, tick, consumer>>
  PROVE  FInv'
<1>1. ~Connected' /\ heard' = heard /\ said' = said
  BY DEF Connected, consumer
<1>2. Shapes'
  BY <1>1 DEF FInv, Shapes, Closed
<1>3. Named'
  BY <1>1 DEF FInv, Named, NamedAt
<1> QED
  BY <1>1, <1>2, <1>3 DEF FInv, TicksLead, Filters, SaidIn

LEMMA LookKeeps ==
  ASSUME FInv, Look
  PROVE  FInv'
<1>1. CASE stop \/ wanted = {}
  <2>1. Closed /\ pc' = "top" /\ UNCHANGED <<wanted, tokens, tick, consumer>>
    BY <1>1 DEF Look
  <2> QED BY <2>1, ClosedKeeps
<1>2. CASE ~(stop \/ wanted = {})
  <2>1. /\ wanted' = wanted /\ updates' = updates /\ up' = up /\ down' = down /\ served' = served
        /\ tick' = tick /\ heard' = heard /\ said' = said /\ tokens' = tokens
        /\ pc = "look" /\ pc' = "match"
    BY <1>2 DEF Look, connection, consumer
  <2>2. Connected /\ Connected'
    BY <2>1 DEF Connected
  <2>3. Shapes' /\ Named'
    BY <2>1, <2>2 DEF FInv, Shapes, Named, NamedAt
  <2>4. TicksLead'
    BY <2>1, <2>2 DEF FInv, TicksLead, LeadAt, EndsIn
  <2> QED BY <2>1, <2>2, <2>3, <2>4 DEF FInv, Filters, SaidIn
<1> QED
  BY <1>1, <1>2

\* The operations that bring a set to another are added to a wire w, which becomes v.
Brought(sv, w, v, new, old) ==
  /\ v \in Seq(Ops) /\ (w # <<>> => v # <<>> /\ Head(v) = Head(w))
  /\ \A i \in DOMAIN v : \/ i \in DOMAIN w /\ v[i] = w[i]
                         \/ v[i] = Op(TRUE, new \ old)
                         \/ v[i] = Op(FALSE, old \ new)
  /\ \A t \in Tokens : WillServe(sv, v, t) <=>
       t \in new \ old \/ (t \notin old \ new /\ WillServe(sv, w, t))

LEMMA Brings ==
  ASSUME NEW new \in SUBSET Tokens, NEW old \in SUBSET Tokens, NEW w \in Seq(Ops), NEW sv,
         NEW v, v = w \o Operations(new, old)
  PROVE  Brought(sv, w, v, new, old)
<1>1. PICK add : add = Op(TRUE, new \ old)
  OBVIOUS
<1>2. PICK drop : drop = Op(FALSE, old \ new)
  OBVIOUS
<1>3. /\ add \in Ops /\ add.sub /\ add.ids = new \ old
      /\ drop \in Ops /\ ~drop.sub /\ drop.ids = old \ new
  BY <1>1, <1>2 DEF Op, Ops
<1>4. \E x \in Seq(Ops) :
        /\ x = IF new \ old = {} THEN w ELSE Append(w, add)
        /\ v = IF old \ new = {} THEN x ELSE Append(x, drop)
  <2>1. Operations(new, old) = (IF new \ old = {} THEN <<>> ELSE <<add>>) \o (IF old \ new = {} THEN <<>> ELSE <<drop>>)
    BY <1>1, <1>2 DEF Operations
  <2>2. w \o <<add>> = Append(w, add) /\ Append(w, add) \in Seq(Ops)
    BY <1>3
  <2>3. /\ w \o <<>> = w /\ <<>> \o <<drop>> = <<drop>> /\ <<add>> \o <<>> = <<add>>
        /\ w \o <<drop>> = Append(w, drop)
        /\ w \o (<<add>> \o <<drop>>) = Append(Append(w, add), drop)
    BY <1>3
  <2>4. <<>> \o <<>> = <<>>
    OBVIOUS
  <2> QED BY <2>1, <2>2, <2>3, <2>4
<1>5. PICK x \in Seq(Ops) :
        /\ x = IF new \ old = {} THEN w ELSE Append(w, add)
        /\ v = IF old \ new = {} THEN x ELSE Append(x, drop)
  BY <1>4
<1>6. v \in Seq(Ops)
  BY <1>3, <1>5
<1>7. /\ Len(w) \in Nat /\ DOMAIN w = 1..Len(w) /\ Len(x) \in Nat /\ DOMAIN x = 1..Len(x)
      /\ Len(x) >= Len(w) /\ Len(v) >= Len(x) /\ DOMAIN v = 1..Len(v)
      /\ \A i \in 1..Len(x) : (i \in 1..Len(w) /\ x[i] = w[i]) \/ x[i] = add
      /\ \A i \in 1..Len(v) : (i \in 1..Len(x) /\ v[i] = x[i]) \/ v[i] = drop
      /\ \A i \in 1..Len(w) : x[i] = w[i] /\ v[i] = w[i]
  <2>1. /\ Len(w) \in Nat /\ DOMAIN w = 1..Len(w) /\ Len(x) \in Nat /\ DOMAIN x = 1..Len(x)
        /\ DOMAIN v = 1..Len(v)
    BY <1>5, <1>6, LenProperties
  <2>2. /\ Len(x) >= Len(w) /\ \A i \in 1..Len(w) : x[i] = w[i]
        /\ \A i \in 1..Len(x) : (i \in 1..Len(w) /\ x[i] = w[i]) \/ x[i] = add
    BY <1>3, <1>5, <2>1, AppendProperties
  <2>3. /\ Len(v) >= Len(x) /\ \A i \in 1..Len(x) : v[i] = x[i]
        /\ \A i \in 1..Len(v) : (i \in 1..Len(x) /\ v[i] = x[i]) \/ v[i] = drop
    BY <1>3, <1>5, <2>1, AppendProperties
  <2> QED BY <2>1, <2>2, <2>3
<1>8. w # <<>> => v # <<>> /\ Head(v) = Head(w)
  <2> SUFFICES ASSUME w # <<>> PROVE v # <<>> /\ Head(v) = Head(w)
    OBVIOUS
  <2>1. Len(w) >= 1 /\ Head(w) = w[1]
    BY <1>7, EmptySeq, HeadTailProperties
  <2>2. v # <<>> /\ Head(v) = v[1]
    BY <1>6, <1>7, <2>1, EmptySeq, HeadTailProperties
  <2> QED BY <1>7, <2>1, <2>2
<1>9. ASSUME NEW t \in Tokens
      PROVE  WillServe(sv, v, t) <=> t \in new \ old \/ (t \notin old \ new /\ WillServe(sv, w, t))
  <2>1. WillServe(sv, x, t) <=> t \in new \ old \/ WillServe(sv, w, t)
    <3>1. WillServe(sv, Append(w, add), t) <=> IF t \in add.ids THEN add.sub ELSE WillServe(sv, w, t)
      BY <1>3, LastDecides
    <3> QED BY <1>3, <1>5, <3>1
  <2>2. WillServe(sv, v, t) <=> t \notin old \ new /\ WillServe(sv, x, t)
    <3>1. WillServe(sv, Append(x, drop), t) <=> IF t \in drop.ids THEN drop.sub ELSE WillServe(sv, x, t)
      BY <1>3, LastDecides
    <3> QED BY <1>3, <1>5, <3>1
  <2> QED BY <2>1, <2>2
<1>10. \A i \in DOMAIN v : (i \in DOMAIN w /\ v[i] = w[i]) \/ v[i] = add \/ v[i] = drop
  BY <1>7
<1> QED
  BY <1>1, <1>2, <1>6, <1>8, <1>9, <1>10 DEF Brought

LEMMA MatchKeeps ==
  ASSUME FInv, Match
  PROVE  FInv'
<1>1. /\ wanted' = wanted /\ updates' = updates /\ up' = up /\ served' = served
      /\ tick' = tick /\ heard' = heard /\ said' = said /\ tokens' = wanted
      /\ pc = "match" /\ pc' = "recv" /\ down' = down \o Operations(wanted, tokens)
  BY DEF Match, consumer
<1>2. /\ Connected /\ Connected' /\ down \in Seq(Ops)
      /\ wanted \in SUBSET Tokens /\ tokens \in SUBSET Tokens
  BY <1>1 DEF FInv, Shapes, Connected
<1>3. /\ down' \in Seq(Ops) /\ (down # <<>> => down' # <<>> /\ Head(down') = Head(down))
      /\ \A i \in DOMAIN down' : \/ i \in DOMAIN down /\ down'[i] = down[i]
                                \/ down'[i] = Op(TRUE, wanted \ tokens)
                                \/ down'[i] = Op(FALSE, tokens \ wanted)
      /\ \A t \in Tokens : WillServe(served, down', t) <=>
           t \in wanted \ tokens \/ (t \notin tokens \ wanted /\ WillServe(served, down, t))
  <2>1. PICK new \in SUBSET Tokens, old \in SUBSET Tokens, w \in Seq(Ops), sv \in SUBSET Tokens :
          new = wanted /\ old = tokens /\ w = down /\ sv = served
    BY <1>2 DEF FInv, Shapes
  <2>2. PICK v : v = w \o Operations(new, old)
    OBVIOUS
  <2>3. Brought(sv, w, v, new, old)
    BY <2>2, Brings
  <2>4. down' = v
    BY <1>1, <2>1, <2>2
  <2> QED BY <2>1, <2>3, <2>4 DEF Brought
<1>4. Shapes'
  BY <1>1, <1>2, <1>3 DEF FInv, Shapes
<1>5. Named'
  <2> SUFFICES ASSUME NEW t \in Tokens, heard[t] # Left
               PROVE  NamedAt(t)'
    BY <1>1 DEF Named
  <2>1. NamedAt(t)
    BY DEF FInv, Named
  <2>2. ASSUME NEW i \in DOMAIN down', t \in down'[i].ids
        PROVE  t \in wanted /\ down'[i].sub
    BY <1>2, <1>3, <2>1, <2>2 DEF NamedAt, Op
  <2> QED BY <1>1, <1>2, <2>1, <2>2 DEF NamedAt
<1>6. TicksLead'
  <2> SUFFICES ASSUME NEW t \in Tokens, heard[t] # Left
               PROVE  LeadAt(t)'
    BY <1>1 DEF TicksLead
  <2>1. PICK c : WireSays(up, c, t) /\ HandSays(updates, heard[t], c[0], t) /\ EndsIn(c[Len(up)], t)
    BY <1>2 DEF FInv, TicksLead, LeadAt
  <2>2. EndsIn(c[Len(up)], t)'
    BY <1>1, <1>3, <2>1 DEF EndsIn
  <2> QED BY <1>1, <2>1, <2>2 DEF LeadAt
<1>7. Filters'
  <2>1. \A t \in Tokens : WillServe(served, down, t) <=> t \in tokens
    BY <1>2 DEF FInv, Filters
  <2>2. \A t \in Tokens : WillServe(served', down', t) <=> t \in wanted
    BY <1>1, <1>3, <2>1
  <2> QED BY <1>1, <2>2 DEF Filters
<1> QED
  BY <1>1, <1>4, <1>5, <1>6, <1>7 DEF FInv, SaidIn

LEMMA RecvKeeps ==
  ASSUME FeedAssumption, FInv, Recv
  PROVE  FInv'
<1>1. /\ wanted' = wanted /\ down' = down /\ served' = served
      /\ tick' = tick /\ heard' = heard /\ said' = said /\ tokens' = tokens /\ pc = "recv"
  BY DEF Recv, consumer
<1>2. Connected /\ up \in Seq(Seq(Messages)) /\ updates = <<>>
  BY <1>1 DEF FInv, Shapes, Connected
<1>3. CASE up = <<>>
  <2>1. pc' = "look" /\ up' = up /\ updates' = updates
    BY <1>3 DEF Recv
  <2>2. Connected'
    BY <2>1 DEF Connected
  <2>3. Shapes' /\ Named'
    BY <1>1, <1>2, <2>1, <2>2 DEF FInv, Shapes, Named, NamedAt
  <2>4. TicksLead'
    BY <1>1, <1>2, <2>1, <2>2 DEF FInv, TicksLead, LeadAt, EndsIn
  <2> QED BY <1>1, <1>2, <2>2, <2>3, <2>4 DEF FInv, Filters, SaidIn
<1>4. CASE up # <<>>
  <2>1. pc' = "deliver" /\ up' = Tail(up) /\ updates' = ParseFrame(Head(up))
    BY <1>4 DEF Recv
  <2>2. Connected'
    BY <2>1 DEF Connected
  <2>3. PICK frame \in Seq(Messages) : frame = Head(up)
    BY <1>2, <1>4, HeadTailProperties
  <2>4. /\ frame = up[1] /\ 1 \in DOMAIN up /\ up' \in Seq(Seq(Messages)) /\ 1 \in 1..Len(up)
        /\ \A i \in DOMAIN up' : i + 1 \in DOMAIN up /\ up'[i] = up[i + 1]
    BY <1>2, <1>4, <2>1, <2>3, HeadTailProperties, LenProperties, EmptySeq
  <2>5. DOMAIN frame = 1..Len(frame) /\ Len(frame) \in Nat /\ \A n \in DOMAIN frame : frame[n] \in Messages
    BY LenProperties, ElementOfSeq
  <2>6. updates' = [n \in 1..Len(frame) |-> Updates(frame[n])]
    BY <2>1, <2>3, <2>5 DEF ParseFrame
  <2>7. updates' \in Seq(Seq(Upds))
    <3>1. \A n \in 1..Len(frame) : Updates(frame[n]) \in Seq(Upds)
      BY <2>5, UpdatesOf
    <3> QED BY <2>5, <2>6, <3>1, IsASeq
  <2>8. DOMAIN updates' = DOMAIN frame /\ \A n \in DOMAIN frame : updates'[n] = Updates(frame[n])
    BY <2>5, <2>6
  <2>9. Shapes'
    BY <1>1, <1>2, <2>1, <2>2, <2>4, <2>7 DEF FInv, Shapes
  <2>10. Named'
    <3> SUFFICES ASSUME NEW t \in Tokens, heard[t] # Left
                 PROVE  NamedAt(t)'
      BY <1>1 DEF Named
    <3>1. NamedAt(t)
      BY DEF FInv, Named
    <3>2. ASSUME NEW i \in DOMAIN up', NEW n \in DOMAIN up'[i], Tells(up'[i][n], t)
          PROVE  t \in tokens
      BY <1>2, <2>4, <3>1, <3>2 DEF NamedAt
    <3>3. ASSUME NEW g \in DOMAIN updates', NEW k \in DOMAIN updates'[g], Says(updates'[g][k], t)
          PROVE  t \in tokens
      <4>1. g \in DOMAIN frame /\ Tells(frame[g], t)
        BY <2>5, <2>8, <3>3, UpdatesOf DEF Says
      <4> QED BY <1>2, <2>4, <3>1, <4>1 DEF NamedAt
    <3> QED BY <1>1, <1>2, <2>1, <3>1, <3>2, <3>3 DEF NamedAt
  <2>11. TicksLead'
    <3> SUFFICES ASSUME NEW t \in Tokens, heard[t] # Left
                 PROVE  LeadAt(t)'
      BY <1>1 DEF TicksLead
    <3>1. PICK c : WireSays(up, c, t) /\ HandSays(updates, heard[t], c[0], t) /\ EndsIn(c[Len(up)], t)
      BY <1>2 DEF FInv, TicksLead, LeadAt
    <3>2. PICK d : WireSays(up', d, t) /\ d[0] = c[1] /\ d[Len(up')] = c[Len(up)]
      BY <1>2, <1>4, <2>1, <3>1, WireShrinks
    <3>3. PICK h, b : h = heard[t] /\ b = d[0]
      OBVIOUS
    <3>4. c[0] = h
      BY <1>2, <3>1, <3>3 DEF HandSays
    <3>5. FrameSays(frame, h, b, t)
      <4>1. FrameSays(up[1], c[1 - 1], c[1], t)
        BY <2>4, <3>1 DEF WireSays
      <4> QED BY <2>4, <3>2, <3>3, <3>4, <4>1
    <3>6. ASSUME NEW g \in DOMAIN updates', NEW k \in DOMAIN updates'[g], updates'[g][k].token = t
          PROVE  /\ updates'[g][k].tick # None => updates'[g][k].tick = b
                 /\ updates'[g][k].tick = None => PricedIn(h, b, t, updates'[g], k)
      <4>1. PICK m \in Messages : m = frame[g] /\ g \in DOMAIN frame /\ updates'[g] = Updates(m)
        BY <2>5, <2>8
      <4>2. PICK u : u = Updates(m)[k] /\ k \in DOMAIN Updates(m) /\ u.token = t
        BY <3>6, <4>1
      <4>3. /\ u.tick # None => Tells(m, t) /\ u.tick = m.tick
            /\ u.tick = None => u.quoted = m.tick
            /\ u.tick = None =>
                 \/ Prices(m, t)
                 \/ Tells(m, t) /\ \E j \in DOMAIN Updates(m) : j < k /\ Says(Updates(m)[j], t)
        BY <4>2, UpdatesOf
      <4>4. /\ Tells(m, t) => m.tick = b
            /\ Prices(m, t) => {h, b} \subseteq {None, m.tick}
        BY <3>5, <4>1 DEF FrameSays
      <4>5. u.tick = None => PricedIn(h, b, t, Updates(m), k)
        BY <4>2, <4>3, <4>4 DEF PricedIn
      <4> QED BY <4>1, <4>2, <4>3, <4>4, <4>5
    <3>7. ASSUME b # h
          PROVE  \E g \in DOMAIN updates' : \E k \in DOMAIN updates'[g] : Says(updates'[g][k], t)
      <4>1. PICK n \in DOMAIN frame : Tells(frame[n], t)
        BY <3>5, <3>7 DEF FrameSays
      <4>2. \E k \in DOMAIN Updates(frame[n]) : Says(Updates(frame[n])[k], t)
        BY <2>5, <4>1, UpdatesOf
      <4> QED BY <2>8, <4>1, <4>2
    <3>8. HandSays(updates', h, b, t)
      BY <3>6, <3>7 DEF HandSays
    <3>9. PICK last : last = c[Len(up)]
      OBVIOUS
    <3>10. EndsIn(last, t)'
      BY <1>1, <3>1, <3>9 DEF EndsIn
    <3> QED BY <1>1, <3>2, <3>3, <3>8, <3>9, <3>10 DEF LeadAt, EndsIn
  <2>12. Filters' /\ SaidIn'
    BY <1>1, <1>2 DEF FInv, Filters, SaidIn
  <2> QED BY <2>9, <2>10, <2>11, <2>12 DEF FInv
<1> QED
  BY <1>3, <1>4

\* A group all of whose updates are delivered is dropped.
LEMMA HandDrops ==
  ASSUME NEW us \in Seq(Seq(Upds)), us # <<>>, Head(us) = <<>>,
         NEW h, NEW b, NEW t, HandSays(us, h, b, t)
  PROVE  HandSays(Tail(us), h, b, t)
<1> DEFINE v == Tail(us)
<1>1. /\ Len(us) \in Nat /\ Len(us) >= 1 /\ DOMAIN us = 1..Len(us) /\ DOMAIN v = 1..(Len(us) - 1)
      /\ us[1] = <<>> /\ \A i \in 1..(Len(us) - 1) : v[i] = us[i + 1]
  BY HeadTailProperties, LenProperties, EmptySeq
<1> HIDE DEF v
<1>2. \A i \in DOMAIN v : i + 1 \in DOMAIN us /\ v[i] = us[i + 1]
  BY <1>1
<1>3. ASSUME b # h
      PROVE  \E g \in DOMAIN v : \E k \in DOMAIN v[g] : Says(v[g][k], t)
  <2>1. PICK g \in DOMAIN us : \E k \in DOMAIN us[g] : Says(us[g][k], t)
    BY <1>3 DEF HandSays
  <2>2. g # 1
    BY <1>1, <2>1
  <2>3. g - 1 \in DOMAIN v /\ v[g - 1] = us[g]
    BY <1>1, <2>2
  <2> QED BY <2>1, <2>3
<1>4. \A g \in DOMAIN v : \A k \in DOMAIN v[g] : v[g][k].token = t =>
        /\ v[g][k].tick # None => v[g][k].tick = b
        /\ v[g][k].tick = None => PricedIn(h, b, t, v[g], k)
  BY <1>2 DEF HandSays
<1>5. HandSays(v, h, b, t)
  BY <1>3, <1>4 DEF HandSays
<1> QED
  BY <1>5 DEF v

\* An update is delivered: the consumer heard what it tells of t, or nothing of it.
LEMMA HandTold ==
  ASSUME FeedAssumption, NEW us \in Seq(Seq(Upds)), us # <<>>, Head(us) # <<>>, NEW t \in Tokens,
         NEW h, NEW b, NEW next, HandSays(us, h, b, t),
         next = IF Says(Head(Head(us)), t) THEN Head(Head(us)).tick ELSE h
  PROVE  HandSays([us EXCEPT ![1] = Tail(@)], next, b, t)
<1> DEFINE v == [us EXCEPT ![1] = Tail(@)]
<1>1. /\ Len(us) \in Nat /\ 1 \in DOMAIN us /\ DOMAIN us = 1..Len(us) /\ DOMAIN v = DOMAIN us
      /\ v[1] = Tail(us[1]) /\ \A g \in DOMAIN us \ {1} : v[g] = us[g]
      /\ us[1] \in Seq(Upds) /\ Head(us) = us[1]
  BY HeadTailProperties, LenProperties, EmptySeq
<1> HIDE DEF v
<1> DEFINE u == us[1][1]
<1>2. /\ Head(us[1]) = u /\ 1 \in DOMAIN us[1] /\ u \in Upds
      /\ \A k \in DOMAIN v[1] : k \in Nat /\ k >= 1 /\ k + 1 \in DOMAIN us[1] /\ v[1][k] = us[1][k + 1]
      /\ \A k \in DOMAIN us[1] \ {1} : k \in Nat /\ k - 1 \in DOMAIN v[1] /\ v[1][k - 1] = us[1][k]
  <2>1. us[1] # <<>>
    BY <1>1
  <2>2. /\ Len(us[1]) \in Nat /\ Len(us[1]) >= 1 /\ DOMAIN us[1] = 1..Len(us[1])
        /\ DOMAIN v[1] = 1..(Len(us[1]) - 1)
        /\ \A i \in 1..(Len(us[1]) - 1) : v[1][i] = us[1][i + 1]
        /\ Head(us[1]) = u
    BY <1>1, <2>1, HeadTailProperties, LenProperties, EmptySeq
  <2>3. u \in Upds
    BY <1>1, <2>2, ElementOfSeq
  <2> QED BY <2>2, <2>3
<1> HIDE DEF u
<1>3. Says(u, t) => b = next /\ b # None
  BY <1>1, <1>2 DEF HandSays, Says, u
<1>4. ASSUME NEW g \in DOMAIN us, NEW k \in DOMAIN us[g], us[g][k].token = t
      PROVE  /\ us[g][k].tick # None => us[g][k].tick = b
             /\ us[g][k].tick = None => b \in {None, us[g][k].quoted}
             /\ us[g][k].tick = None => h \in {None, us[g][k].quoted}
                                         \/ \E j \in DOMAIN us[g] : j < k /\ Says(us[g][j], t)
  BY <1>4 DEF HandSays, PricedIn
<1>5. ASSUME NEW g \in DOMAIN v, NEW k \in DOMAIN v[g], v[g][k].token = t
      PROVE  /\ v[g][k].tick # None => v[g][k].tick = b
             /\ v[g][k].tick = None => PricedIn(next, b, t, v[g], k)
  <2>1. CASE g = 1
    <3>1. k \in Nat /\ k + 1 \in DOMAIN us[1] /\ v[1][k] = us[1][k + 1]
      BY <1>2, <2>1
    <3>2. /\ v[g][k].tick # None => v[g][k].tick = b
          /\ v[g][k].tick = None => b \in {None, v[g][k].quoted}
          /\ v[g][k].tick = None => h \in {None, v[g][k].quoted}
                                     \/ \E j \in DOMAIN us[1] : j < k + 1 /\ Says(us[1][j], t)
      <4>1. v[g][k] = us[1][k + 1] /\ us[1][k + 1].token = t
        BY <1>5, <2>1, <3>1
      <4>2. /\ us[1][k + 1].tick # None => us[1][k + 1].tick = b
            /\ us[1][k + 1].tick = None => b \in {None, us[1][k + 1].quoted}
            /\ us[1][k + 1].tick = None =>
                 h \in {None, us[1][k + 1].quoted} \/ \E j \in DOMAIN us[1] : j < k + 1 /\ Says(us[1][j], t)
        BY <1>1, <1>4, <3>1, <4>1
      <4> QED BY <4>1, <4>2
    <3>3. CASE Says(u, t)
      BY <1>3, <3>2, <3>3 DEF PricedIn
    <3>4. CASE ~Says(u, t)
      <4>1. ASSUME NEW j \in DOMAIN us[1], j < k + 1, Says(us[1][j], t)
            PROVE  \E i \in DOMAIN v[1] : i < k /\ Says(v[1][i], t)
        <5>1. j # 1
          BY <3>4, <4>1 DEF u
        <5>2. j - 1 \in DOMAIN v[1] /\ j - 1 < k /\ v[1][j - 1] = us[1][j]
          BY <1>2, <3>1, <4>1, <5>1
        <5> QED BY <4>1, <5>2
      <4>2. next = h
        BY <1>1, <1>2, <3>4
      <4> QED BY <2>1, <3>2, <4>1, <4>2 DEF PricedIn
    <3> QED BY <3>3, <3>4
  <2>2. CASE g # 1
    <3>1. g \in DOMAIN us /\ v[g] = us[g]
      BY <1>1, <2>2
    <3>2. Says(u, t) => next = b
      BY <1>3
    <3>3. ~Says(u, t) => next = h
      BY <1>1, <1>2
    <3> QED BY <1>4, <1>5, <3>1, <3>2, <3>3, <1>3 DEF PricedIn
  <2> QED BY <2>1, <2>2
<1>6. ASSUME b # next
      PROVE  \E g \in DOMAIN v : \E k \in DOMAIN v[g] : Says(v[g][k], t)
  <2>1. ~Says(u, t) /\ b # h
    BY <1>1, <1>2, <1>3, <1>6
  <2>0. PICK g \in DOMAIN us : \E k \in DOMAIN us[g] : Says(us[g][k], t)
    BY <2>1 DEF HandSays
  <2>2. PICK k \in DOMAIN us[g] : Says(us[g][k], t)
    BY <2>0
  <2>3. CASE g = 1
    <3>1. k # 1
      BY <2>1, <2>2, <2>3 DEF u
    <3>2. k - 1 \in DOMAIN v[1] /\ v[1][k - 1] = us[1][k]
      BY <1>2, <2>3, <3>1
    <3> QED BY <1>1, <2>2, <2>3, <3>2
  <2>4. CASE g # 1
    BY <1>1, <2>2, <2>4
  <2> QED BY <2>3, <2>4
<1>7. HandSays(v, next, b, t)
  BY <1>5, <1>6 DEF HandSays
<1> QED
  BY <1>7 DEF v

LEMMA DeliverKeeps ==
  ASSUME FeedAssumption, FInv, Deliver
  PROVE  FInv'
<1>1. /\ wanted' = wanted /\ up' = up /\ down' = down /\ served' = served
      /\ tick' = tick /\ tokens' = tokens /\ pc = "deliver"
  BY DEF Deliver, connection
<1>2. Connected /\ updates \in Seq(Seq(Upds))
  BY <1>1 DEF FInv, Shapes, Connected
<1>3. CASE updates = <<>>
  <2>1. pc' = "look" /\ updates' = updates /\ heard' = heard /\ said' = said
    BY <1>3 DEF Deliver, consumer
  <2>2. Connected'
    BY <2>1 DEF Connected
  <2>3. Shapes' /\ Named'
    BY <1>1, <1>2, <1>3, <2>1, <2>2 DEF FInv, Shapes, Named, NamedAt
  <2>4. TicksLead'
    BY <1>1, <1>2, <2>1, <2>2 DEF FInv, TicksLead, LeadAt, EndsIn
  <2> QED BY <1>1, <1>2, <2>1, <2>2, <2>3, <2>4 DEF FInv, Filters, SaidIn
<1>4. CASE updates # <<>> /\ Head(updates) = <<>>
  <2>1. pc' = pc /\ updates' = Tail(updates) /\ heard' = heard /\ said' = said
    BY <1>4 DEF Deliver, consumer
  <2>2. Connected' /\ updates' \in Seq(Seq(Upds))
    BY <1>1, <1>2, <1>4, <2>1, HeadTailProperties DEF Connected
  <2>3. \A g \in DOMAIN updates' : g + 1 \in DOMAIN updates /\ updates'[g] = updates[g + 1]
    BY <1>2, <1>4, <2>1, HeadTailProperties, LenProperties, EmptySeq
  <2>4. Shapes'
    BY <1>1, <1>2, <2>1, <2>2 DEF FInv, Shapes
  <2>5. Named'
    <3> SUFFICES ASSUME NEW t \in Tokens, heard[t] # Left
                 PROVE  NamedAt(t)'
      BY <2>1 DEF Named
    <3>1. NamedAt(t)
      BY DEF FInv, Named
    <3> QED BY <1>1, <1>2, <2>1, <2>3, <3>1 DEF NamedAt
  <2>6. TicksLead'
    <3> SUFFICES ASSUME NEW t \in Tokens, heard[t] # Left
                 PROVE  LeadAt(t)'
      BY <2>1 DEF TicksLead
    <3>1. PICK c : WireSays(up, c, t) /\ HandSays(updates, heard[t], c[0], t) /\ EndsIn(c[Len(up)], t)
      BY <1>2 DEF FInv, TicksLead, LeadAt
    <3>2. HandSays(updates', heard[t], c[0], t)
      BY <1>2, <1>4, <2>1, <3>1, HandDrops
    <3> QED BY <1>1, <2>1, <3>1, <3>2 DEF LeadAt, EndsIn
  <2> QED BY <1>1, <1>2, <2>1, <2>2, <2>4, <2>5, <2>6 DEF FInv, Filters, SaidIn
<1>5. CASE updates # <<>> /\ Head(updates) # <<>>
  <2>1. PICK u \in Upds : u = Head(Head(updates)) /\ u = updates[1][1] /\ 1 \in DOMAIN updates /\ 1 \in DOMAIN updates[1]
    <3>1. Head(updates) \in Seq(Upds) /\ Head(updates) = updates[1] /\ 1 \in DOMAIN updates
      BY <1>2, <1>5, HeadTailProperties, LenProperties, EmptySeq
    <3>2. Head(updates[1]) \in Upds /\ Head(updates[1]) = updates[1][1] /\ 1 \in DOMAIN updates[1]
      BY <1>5, <3>1, HeadTailProperties, LenProperties, EmptySeq
    <3> QED BY <3>1, <3>2
  <2>2. /\ pc' = pc /\ updates' = [updates EXCEPT ![1] = Tail(@)]
        /\ IF u.token \in tokens THEN Hears(u) ELSE UNCHANGED consumer
    BY <1>5, <2>1 DEF Deliver
  <2>3. Connected'
    BY <1>1, <2>2 DEF Connected
  <2>4. /\ u.token \in Tokens /\ (u.tick # None => u.tick \in Ticks)
        /\ Left \notin Ticks /\ None # Left /\ None \notin Ticks
    BY DEF Upds, Ticks, FeedAssumption
  <2>5. /\ updates' \in Seq(Seq(Upds)) /\ DOMAIN updates' = DOMAIN updates
        /\ \A g \in DOMAIN updates \ {1} : updates'[g] = updates[g]
        /\ \A k \in DOMAIN updates'[1] : k + 1 \in DOMAIN updates[1] /\ updates'[1][k] = updates[1][k + 1]
    <3>1. updates[1] \in Seq(Upds) /\ updates[1] # <<>>
      BY <1>2, <1>5, <2>1, HeadTailProperties, ElementOfSeq, LenProperties
    <3>2. /\ Tail(updates[1]) \in Seq(Upds)
          /\ \A k \in DOMAIN Tail(updates[1]) : k + 1 \in DOMAIN updates[1] /\ Tail(updates[1])[k] = updates[1][k + 1]
      BY <3>1, HeadTailProperties, LenProperties, EmptySeq
    <3>3. updates' \in Seq(Seq(Upds))
      BY <1>2, <2>1, <2>2, <3>2, ExceptSeq
    <3>4. /\ DOMAIN updates' = DOMAIN updates /\ updates'[1] = Tail(updates[1])
          /\ \A g \in DOMAIN updates \ {1} : updates'[g] = updates[g]
      BY <2>1, <2>2
    <3> QED BY <3>2, <3>3, <3>4
  <2>6. heard \in [Tokens -> Ticks \cup {None, Left}]
    BY DEF FInv, Shapes
  \* What the consumer has heard of each token afterwards.
  <2>7. ASSUME NEW t \in Tokens, heard'[t] # Left
        PROVE  /\ heard[t] # Left
               /\ heard'[t] = IF Says(u, t) THEN u.tick ELSE heard[t]
               /\ heard'[t] # None => t \in wanted
    <3>1. heard[t] # Left
      BY <2>2, <2>4, <2>6, <2>7 DEF Hears, consumer
    <3>2. NamedAt(t)
      BY <3>1 DEF FInv, Named
    <3>3. Says(u, t) => t \in tokens /\ t \in wanted
      BY <1>2, <2>1, <3>2 DEF NamedAt
    <3>4. Says(u, t) => heard' = [heard EXCEPT ![t] = u.tick]
      BY <2>2, <3>1, <3>3 DEF Hears, Says
    <3>5. ~Says(u, t) => heard'[t] = heard[t]
      BY <2>2, <2>4, <2>6 DEF Hears, Says, consumer
    <3> QED BY <2>6, <3>1, <3>2, <3>3, <3>4, <3>5 DEF NamedAt
  <2>8. Shapes'
    <3>1. heard' \in [Tokens -> Ticks \cup {None, Left}]
      BY <2>2, <2>4, <2>6 DEF Hears, consumer
    <3> QED BY <1>1, <1>2, <2>2, <2>3, <2>5, <3>1 DEF FInv, Shapes
  <2>9. Named'
    <3> SUFFICES ASSUME NEW t \in Tokens, heard'[t] # Left
                 PROVE  NamedAt(t)'
      BY DEF Named
    <3>1. NamedAt(t)
      BY <2>7 DEF FInv, Named
    <3>2. ASSUME NEW g \in DOMAIN updates', NEW k \in DOMAIN updates'[g], Says(updates'[g][k], t)
          PROVE  t \in tokens
      <4>1. CASE g = 1
        <5>1. k + 1 \in DOMAIN updates[1] /\ Says(updates[1][k + 1], t)
          BY <2>5, <3>2, <4>1
        <5> QED BY <1>2, <2>1, <3>1, <5>1 DEF NamedAt
      <4>2. CASE g # 1
        BY <1>2, <2>5, <3>1, <3>2, <4>2 DEF NamedAt
      <4> QED BY <4>1, <4>2
    <3> QED BY <1>1, <1>2, <2>2, <2>7, <3>1, <3>2 DEF NamedAt
  <2>10. TicksLead'
    <3> SUFFICES ASSUME NEW t \in Tokens, heard'[t] # Left
                 PROVE  LeadAt(t)'
      BY DEF TicksLead
    <3>1. PICK c : WireSays(up, c, t) /\ HandSays(updates, heard[t], c[0], t) /\ EndsIn(c[Len(up)], t)
      BY <1>2, <2>7 DEF FInv, TicksLead, LeadAt
    <3>2. PICK us \in Seq(Seq(Upds)) : us = updates
      BY <1>2
    <3>3. PICK h, next, b : h = heard[t] /\ next = heard'[t] /\ b = c[0]
      OBVIOUS
    <3>4. HandSays([us EXCEPT ![1] = Tail(@)], next, b, t)
      BY <1>5, <2>1, <2>7, <3>1, <3>2, <3>3, HandTold
    <3> QED BY <1>1, <2>2, <3>1, <3>2, <3>3, <3>4 DEF LeadAt, EndsIn
  <2>11. SaidIn'
    <3>1. CASE said' = said
      BY <3>1 DEF FInv, SaidIn
    <3>2. CASE said' # said
      <4>1. PICK t \in Tokens : t = u.token /\ heard[t] # Left
        BY <2>2, <2>4, <3>2 DEF Hears, consumer
      <4>2. u.tick = None /\ said' = [token |-> t, quoted |-> u.quoted, in |-> heard[t]]
        BY <2>2, <3>2, <4>1 DEF Hears, consumer
      <4>3. PICK c : HandSays(updates, heard[t], c[0], t)
        BY <1>2, <4>1 DEF FInv, TicksLead, LeadAt
      <4>4. PricedIn(heard[t], c[0], t, updates[1], 1)
        BY <2>1, <4>1, <4>2, <4>3 DEF HandSays
      <4>5. \A j \in DOMAIN updates[1] : ~(j < 1)
        <5>1. updates[1] \in Seq(Upds)
          BY <1>2, <2>1, ElementOfSeq, LenProperties
        <5> QED BY <5>1, LenProperties
      <4>6. heard[t] \in {None, u.quoted}
        BY <2>1, <4>4, <4>5 DEF PricedIn
      <4> QED BY <4>2, <4>6 DEF SaidIn
    <3> QED BY <3>1, <3>2
  <2> QED BY <1>1, <1>2, <2>3, <2>8, <2>9, <2>10, <2>11 DEF FInv, Filters
<1> QED
  BY <1>3, <1>4, <1>5

-----------------------------------------------------------------------------
(* The theorem                                                             *)

LEMMA StepKeeps ==
  ASSUME FeedAssumption, FInv, [Next]_vars
  PROVE  FInv'
<1>1. CASE UNCHANGED vars
  BY <1>1, Frame DEF vars, connection, consumer
<1>2. CASE \E t \in Tokens : TickChanges(t) \/ PriceChanges(t)
  BY <1>2, TickChangesKeeps, PriceChangesKeeps
<1>3. CASE \E ts \in SUBSET Tokens : SetTokens(ts)
  BY <1>3, SetTokensKeeps
<1>4. CASE Serves
  BY <1>4, ServesKeeps
<1>5. CASE Stop
  BY <1>5, Frame DEF Stop
<1>6. CASE Top
  BY <1>6, TopKeeps
<1>7. CASE Connect
  BY <1>7, ConnectKeeps
<1>8. CASE Look
  BY <1>8, LookKeeps
<1>9. CASE Match
  BY <1>9, MatchKeeps
<1>10. CASE Recv
  BY <1>10, RecvKeeps
<1>11. CASE Deliver
  BY <1>11, DeliverKeeps
<1>12. CASE Raised
  <2>1. Closed /\ pc' \in {"top", "wait", "ended"} /\ UNCHANGED <<wanted, tokens, tick, consumer>>
    BY <1>12 DEF Raised
  <2> QED BY <2>1, ClosedKeeps
<1>13. CASE Wait
  <2>1. /\ wanted' = wanted /\ updates' = updates /\ up' = up /\ down' = down /\ served' = served
        /\ tick' = tick /\ heard' = heard /\ said' = said /\ tokens' = tokens /\ pc = "wait" /\ pc' = "top"
    BY <1>13 DEF Wait, connection, consumer
  <2>2. ~Connected /\ ~Connected'
    BY <2>1 DEF Connected
  <2>3. Shapes' /\ Named'
    BY <2>1, <2>2 DEF FInv, Shapes, Named, NamedAt
  <2> QED BY <2>1, <2>2, <2>3 DEF FInv, TicksLead, Filters, SaidIn
<1> QED
  BY <1>1, <1>2, <1>3, <1>4, <1>5, <1>6, <1>7, <1>8, <1>9, <1>10, <1>11, <1>12, <1>13 DEF Next

\* For every set of tokens, length of the wire and number of sets, tick changes and failures: what
\* the server will serve is what run filters by, and a price the consumer is given for a token it
\* never dropped is in the tick it last heard for it, if any.
THEOREM FeedKeepsFaith ==
  ASSUME FeedAssumption
  PROVE  Spec => []FeedIsFaithful
<1>1. Init => FInv
  <2> SUFFICES ASSUME Init PROVE FInv
    OBVIOUS
  <2>1. ~Connected /\ pc = "top" /\ updates = <<>>
    BY DEF Init, Connected
  <2>2. Shapes
    <3>1. tick \in [Tokens -> Ticks] /\ \A t \in Tokens : tick[Sibling(t)] = tick[t]
      BY DEF Init, Ticks, FeedAssumption
    <3> QED BY <2>1, <3>1 DEF Init, Shapes
  <2>3. Named
    BY <2>1 DEF Init, Named, NamedAt
  <2> QED BY <2>1, <2>2, <2>3 DEF Init, FInv, TicksLead, Filters, SaidIn
<1>2. FInv /\ [Next]_vars => FInv'
  BY StepKeeps
<1>3. FInv => FeedIsFaithful
  <2> SUFFICES ASSUME FInv PROVE FeedIsFaithful
    OBVIOUS
  <2>1. ASSUME down # None
        PROVE  ToBeServed = tokens
    <3>1. Connected
      BY <2>1 DEF FInv, Shapes
    <3>2. \A t \in Tokens : WillServe(served, down, t) <=> t \in tokens
      BY <3>1 DEF FInv, Filters
    <3>3. tokens \subseteq Tokens
      BY DEF FInv, Shapes
    <3> QED BY <3>2, <3>3 DEF ToBeServed, WillServe, Names
  <2> QED BY <2>1 DEF FInv, SaidIn, FeedIsFaithful
<1> QED
  BY <1>1, <1>2, <1>3, PTL DEF Spec
===============================================================================
