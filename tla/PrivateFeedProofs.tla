-------------------------- MODULE PrivateFeedProofs --------------------------
(***************************************************************************)
(* Proof that the streams of PrivateOrders implement OrderFeed, for all    *)
(* values of the constants: what a consumer is given is the live view of   *)
(* its own account, at a position the account has reached and never at an  *)
(* earlier one than before, although a stream's cursor is lost, refused    *)
(* and asked for anew.                                                     *)
(***************************************************************************)
EXTENDS PrivateConsumersProofs, MCPrivateOrdersFeed

-----------------------------------------------------------------------------
(* Where the streams and their consumers are.                              *)

Shown(h)     == IF h = NoCursor THEN NoView ELSE ViewAt(h)
Reached(s)   == log[stream[s].channel]     \* the position of s's account
AsksFor(p)   == p.kind = "subscribe"

\* A stream's orders are the view at the position held, which its account has reached.
PlaceInv ==
    \A s \in Streams :
       /\ held[s] \in Cursors
       /\ stream[s].cursor \in {NoCursor, held[s]}
       /\ stream[s].orders = Shown(held[s])
       /\ IF stream[s].channel = NoChannel THEN held[s] = NoCursor ELSE held[s] <= Reached(s)

\* What a stream has yet to read, or to ask for, does not lead it back.
AheadInv ==
    /\ \A b \in req.bySub :
          Ahead(net, b.sub, stream[b.s].seq, held[b.s], stream[b.s].channel, Reached(b.s))
    /\ \A p \in req.pending : AsksFor(p) =>
          Ahead(net, p.id, 0, held[p.s], stream[p.s].channel, Reached(p.s))

\* A consumer was shown its stream's account, at no later position than the stream holds.
ShownInv ==
    \A c \in Consumers :
       /\ at[c] \in Cursors
       /\ consumer[c].view = Shown(at[c])
       /\ IF consumer[c].s = NoStream THEN at[c] = NoCursor
          ELSE stream[consumer[c].s].channel # NoChannel /\ at[c] <= held[consumer[c].s]

FeedInv == OrdersInv /\ PlaceInv /\ AheadInv /\ ShownInv

-----------------------------------------------------------------------------
(* The accounts move forward, and a stream keeps its channel.              *)

LEMMA CursorOrder == /\ NoCursor \in Cursors /\ NoCursor = -1
                     /\ \A h \in Cursors : h \in Int /\ NoCursor <= h /\ (h # NoCursor => h \in Nat /\ h \in Positions)
BY LastUnit DEF Cursors, NoCursor

LEMMA LogStays ==
    ASSUME [Next]_vars
    PROVE  UNCHANGED log \/ \E ch \in Channels : AccountMoves(ch)
<1>1. App \/ UNCHANGED vars => UNCHANGED log
  BY DEF App, Connect, Remove, Disconnect, vars, env
<1>2. RunMicrotask \/ FetchSettles \/ ReconnectTimer \/ (\E s \in Streams : RetryTimer(s)) \/ SocketOpens => UNCHANGED log
  BY DEF RunMicrotask, FetchSettles, ReconnectTimer, RetryTimer, SocketOpens, env
<1>3. SocketCloses \/ HeartbeatTimer \/ OnFrame \/ OnGarbledFrame => UNCHANGED log
  BY DEF SocketCloses, HeartbeatTimer, Closed, OnFrame, OnGarbledFrame, env
<1>4. CallConsumer \/ CallsDone \/ NextStream \/ Resume => UNCHANGED log
  BY DEF CallConsumer, CallsDone, NextStream, Resume, env
<1>5. ServerSends \/ FrameLost \/ ConnectionEnds => UNCHANGED log
  BY DEF ServerSends, FrameLost, ConnectionEnds
<1> QED BY <1>1, <1>2, <1>3, <1>4, <1>5 DEF Next, Client, Server

LEMMA LogClimbs ==
    ASSUME TypeOK, TypeOK', [Next]_vars
    PROVE  \A ch \in Channels : log[ch] \in Nat /\ log'[ch] \in Nat /\ log[ch] <= log'[ch]
<1>1. \A ch \in Channels : log[ch] \in Nat /\ log'[ch] \in Nat
  BY LastUnit DEF TypeOK
<1>2. ASSUME NEW ch \in Channels, AccountMoves(ch)
      PROVE  \A d \in Channels : log[d] <= log'[d]
  <2>1. log' = [log EXCEPT ![ch] = @ + 1] /\ log \in [Channels -> Positions]
    BY <1>2 DEF AccountMoves, TypeOK
  <2> QED BY <1>1, <2>1
<1> QED BY <1>1, <1>2, LogStays

LEMMA ChannelsStay ==
    ASSUME OrdersInv, [Next]_vars
    PROVE  \A s \in Streams : stream[s].channel # NoChannel => stream'[s].channel = stream[s].channel
<1>1. TypeOK /\ TypeOK' /\ Created /\ RequestsInv /\ InStep /\ AgreeInv
  BY StepKeepsTypes DEF OrdersInv
<1>2. ASSUME NEW c \in Consumers, NEW ch \in Channels, Connect(c, ch), NEW s \in Streams, stream[s].channel # NoChannel
      PROVE  stream'[s].channel = stream[s].channel
  <2>1. stream \in [Streams -> StreamObject]
    BY <1>1 DEF TypeOK
  <2>2. Join(c, subs[ch]) => stream'[s].channel = stream[s].channel
    BY <2>1 DEF Join, StreamObject
  <2>3. ASSUME NEW t \in Streams, Establish(c, ch, t)
        PROVE  stream'[s].channel = stream[s].channel
    <3>1. t # s
      BY <1>2, <2>3 DEF Establish
    <3> QED BY <2>1, <2>3, <3>1 DEF Establish
  <2> QED BY <1>2, <2>2, <2>3 DEF Connect
<1>3. ASSUME NEW c \in Consumers, Remove(c), NEW s \in Streams
      PROVE  stream'[s].channel = stream[s].channel
  BY <1>1, <1>3 DEF Remove, TypeOK, StreamObject
<1>4. ASSUME Disconnect, NEW s \in Streams
      PROVE  stream'[s].channel = stream[s].channel
  BY <1>1, <1>4 DEF Disconnect, TypeOK, StreamObject
<1>5. CASE Client \/ Server
  <2>1. Continues \/ Terminates \/ RunMicrotask \/ CallConsumer \/ CallsDone
    BY <1>1, <1>5, ClientContinues
  <2>2. ASSUME NEW t \in Current, Torn(t)
        PROVE  \A s \in Streams : stream'[s].channel = stream[s].channel
    BY <2>2 DEF Torn
  <2>3. CASE RunMicrotask
    <3>1. \/ UNCHANGED stream
          \/ \E t : IsCurrent(t) /\ Teardown(t, stream[t])
      BY <2>3 DEF RunMicrotask, core
    <3>2. ASSUME NEW t, IsCurrent(t), Teardown(t, stream[t])
          PROVE  \A s \in Streams : stream'[s].channel = stream[s].channel
      <4>1. t \in Streams /\ t \in Current /\ stream[t] \in StreamObject
        BY <1>1, <3>2, CurrentStreams DEF IsCurrent, TypeOK
      <4>2. Torn(t)
        BY <1>1, <3>2, <4>1, TeardownTears
      <4> QED BY <2>2, <4>1, <4>2
    <3> QED BY <3>1, <3>2
  <2>4. CASE CallConsumer \/ CallsDone
    BY <2>4 DEF CallConsumer, CallsDone, core
  <2> QED BY <2>1, <2>2, <2>3, <2>4 DEF Continues, Steady, Terminates
<1>6. CASE UNCHANGED vars
  BY <1>6 DEF vars, core
<1> QED BY <1>2, <1>3, <1>4, <1>5, <1>6 DEF Next, App

-----------------------------------------------------------------------------
(* What a step tells a consumer.                                           *)

Alike(c) == /\ consumer'[c].s = consumer[c].s
            /\ consumer'[c].state = consumer[c].state /\ consumer'[c].view = consumer[c].view

Hushes == \A c \in Consumers : Alike(c)

\* Consumer c joins a stream of the account ch.
Attaches(c, ch) ==
    /\ UNCHANGED log /\ consumer[c].s = NoStream
    /\ consumer'[c].s \in Streams /\ stream'[consumer'[c].s].channel = ch
    /\ consumer'[c].state = consumer[c].state /\ consumer'[c].view = consumer[c].view
    /\ \A d \in Consumers \ {c} : Alike(d)

\* Consumer c is told the orders of its stream, or of the link, or else.
Informs(c) ==
    /\ UNCHANGED <<log, stream>> /\ consumer[c].s \in Streams /\ consumer'[c].s = consumer[c].s
    /\ \/ consumer'[c].state = consumer[c].state /\ consumer'[c].view = stream[consumer[c].s].orders
       \/ consumer'[c].state \in Links /\ consumer'[c].view = consumer[c].view
       \/ Alike(c)
    /\ \A d \in Consumers \ {c} : Alike(d)

LEMMA CallTells ==
    ASSUME OrdersInv, CallConsumer
    PROVE  Hushes \/ \E c \in Consumers : Informs(c)
<1> DEFINE job == Head(turn)
<1>1. PICK c \in Callable(job) :
        consumer' = IF job.do = "report" THEN consumer ELSE [consumer EXCEPT ![c] = Told(@, job.ev)]
  BY DEF CallConsumer
<1>2. turn # <<>> /\ UNCHANGED <<stream, log>> /\ TypeOK /\ AgreeInv
  BY DEF CallConsumer, core, env, OrdersInv
<1>3. /\ job.do \in {"deliver", "report", "call"} /\ c \in job.left
      /\ job.do \in {"deliver", "report"} => c \in stream[job.s].consumers
      /\ job.do = "deliver" => consumer[c].caughtUp
  BY DEF Callable, Attached
<1>4. /\ job \in CallJobs /\ job.s \in Streams /\ job.ev \in Events /\ c \in Consumers
      /\ consumer[c] \in Held /\ job \in Due
  <2>1. job \in CallJobs /\ job.s \in Streams /\ job.ev \in Events /\ job.left \subseteq Consumers /\ job \in Due
    BY <1>2, <1>3, TurnType, JobFields, TurnParts
  <2> QED BY <1>2, <1>3, <2>1 DEF TypeOK
<1> HIDE DEF job
<1>5. CASE job.do = "report"
  BY <1>1, <1>5 DEF Hushes, Alike
<1> DEFINE h == Told(consumer[c], job.ev)
<1>6. /\ h.s = consumer[c].s
      /\ job.ev.type \in Links => h.state = job.ev.type /\ h.view = consumer[c].view
      /\ job.ev.type = "snapshot" => h.state = consumer[c].state /\ h.view = job.ev.view
      /\ job.ev.type = "unit" => /\ h.state = consumer[c].state
                                 /\ consumer[c].view # NoView => h.view = Apply(consumer[c].view, job.ev.pos)
      /\ job.ev.type = "stale" => h.state = consumer[c].state /\ h.view = consumer[c].view
      /\ job.ev.type \in Links \cup OrderNews \cup {"stale"}
  BY <1>4, ToldFields
<1> HIDE DEF h
<1>7. job.do # "report" => consumer'[c] = h /\ \A d \in Consumers \ {c} : consumer'[d] = consumer[d]
  BY <1>1, <1>2, <1>4 DEF TypeOK, h
<1>8. CASE job.do = "deliver"
  <2>1. IsCurrent(job.s) /\ consumer[c].s = job.s
    BY <1>2, <1>3, <1>4, <1>8 DEF AgreeInv, JoinInv
  <2>2. TrueTo(job.s, job.ev) /\ NewsTo(job.s, c, job.ev)
    BY <1>2, <1>3, <1>4, <1>8, <2>1 DEF AgreeInv, TellInv, CallsTrue
  <2>3. job.ev.type = "snapshot" \/ job.ev.type = "unit" =>
          h.state = consumer[c].state /\ h.view = stream[job.s].orders
    BY <1>6, <2>2 DEF TrueTo, NewsTo
  <2>4. job.ev.type \in Links => h.state \in Links /\ h.view = consumer[c].view
    BY <1>6
  <2>5. Informs(c)
    BY <1>2, <1>4, <1>6, <1>7, <1>8, <2>1, <2>3, <2>4 DEF Informs, Alike, OrderNews
  <2> QED BY <1>4, <2>5
<1>9. CASE job.do = "call"
  <2>1. job.ev.type = "disconnected" /\ consumer[c].s = job.s
    BY <1>2, <1>3, <1>4, <1>9 DEF AgreeInv, TellInv, CallsTrue
  <2>2. Informs(c)
    BY <1>2, <1>4, <1>6, <1>7, <1>9, <2>1 DEF Informs, Alike, Links
  <2> QED BY <1>4, <2>2
<1> QED BY <1>3, <1>5, <1>8, <1>9

LEMMA StepTells ==
    ASSUME OrdersInv, [Next]_vars
    PROVE  \/ Hushes
           \/ \E c \in Consumers, ch \in Channels : Attaches(c, ch)
           \/ \E c \in Consumers : Informs(c)
<1>1. TypeOK /\ TypeOK' /\ Created /\ RequestsInv /\ InStep /\ AgreeInv
  BY StepKeepsTypes DEF OrdersInv
<1>2. consumer' = consumer => Hushes
  BY DEF Hushes, Alike
<1>3. ASSUME NEW c \in Consumers, NEW ch \in Channels, Connect(c, ch)
      PROVE  Attaches(c, ch)
  <2>1. UNCHANGED log /\ consumer[c].s = NoStream
    BY <1>3 DEF Connect
  <2>2. ASSUME NEW s \in Streams, s = subs[ch], Join(c, s)
        PROVE  Attaches(c, ch)
    <3>1. stream[s].channel = ch /\ IsCurrent(s)
      <4>1. IsCurrent(s)
        BY <2>2, SentinelAssumption DEF IsCurrent, Current
      <4> QED BY <1>1, <2>2, <4>1, OwnNames
    <3>2. stream'[s].channel = stream[s].channel
      BY <1>1, <2>2 DEF Join, TypeOK, StreamObject
    <3>3. /\ consumer'[c].s = s /\ consumer'[c].state = consumer[c].state /\ consumer'[c].view = consumer[c].view
          /\ \A d \in Consumers \ {c} : consumer'[d] = consumer[d]
      BY <1>1, <2>2 DEF Join, TypeOK, Held
    <3> QED BY <2>1, <3>1, <3>2, <3>3 DEF Attaches, Alike
  <2>3. ASSUME NEW s \in Streams, Establish(c, ch, s)
        PROVE  Attaches(c, ch)
    <3>1. stream'[s].channel = ch
      BY <1>1, <2>3 DEF Establish, TypeOK, StreamObject
    <3>2. /\ consumer'[c].s = s /\ consumer'[c].state = consumer[c].state /\ consumer'[c].view = consumer[c].view
          /\ \A d \in Consumers \ {c} : consumer'[d] = consumer[d]
      BY <1>1, <2>3 DEF Establish, TypeOK, Held
    <3> QED BY <2>1, <3>1, <3>2 DEF Attaches, Alike
  <2>4. subs[ch] # NoStream => subs[ch] \in Streams
    BY <1>1 DEF TypeOK, MaybeStream
  <2> QED BY <1>3, <2>2, <2>3, <2>4 DEF Connect
<1>4. (\E c \in Consumers : Remove(c)) \/ Disconnect \/ UNCHANGED vars => consumer' = consumer
  BY DEF Remove, Disconnect, vars
<1>5. CASE Client \/ Server
  <2>1. Continues \/ Terminates \/ RunMicrotask \/ CallConsumer \/ CallsDone
    BY <1>1, <1>5, ClientContinues
  <2>2. Continues \/ Terminates \/ CallsDone => consumer' = consumer
    BY DEF Continues, Terminates, CallsDone
  <2>3. CASE RunMicrotask
    <3>1. consumer' = consumer \/ \E c : consumer' = [consumer EXCEPT ![c].caughtUp = TRUE]
      BY <2>3 DEF RunMicrotask, CatchUp
    <3>2. ASSUME NEW c, consumer' = [consumer EXCEPT ![c].caughtUp = TRUE], NEW d \in Consumers
          PROVE  Alike(d)
      BY <1>1, <3>2 DEF Alike, TypeOK, Held
    <3> QED BY <1>2, <3>1, <3>2 DEF Hushes
  <2> QED BY <1>2, <2>1, <2>2, <2>3, CallTells
<1> QED BY <1>2, <1>3, <1>4, <1>5 DEF Next, App

-----------------------------------------------------------------------------
(* The place of a stream.                                                  *)

LEMMA AheadGrows ==
    ASSUME NEW n \in Network, NEW x, NEW k, NEW h, NEW ch, NEW top \in Int, NEW t \in Int, top <= t,
           Ahead(n, x, k, h, ch, top)
    PROVE  Ahead(n, x, k, h, ch, t)
<1>1. /\ \A f \in Sent(n) : f.pos \in Int
      /\ \A r \in n.srv : r.pos \in Int
  BY SentFields
<1> QED BY <1>1 DEF Ahead

\* Nothing is known of a name that is not in use.
LEMMA NewAhead ==
    ASSUME NEW n \in Network, NEW x, x \notin Subs(n), NEW h, NEW ch, NEW top
    PROVE  Ahead(n, x, 0, h, ch, top)
<1>1. \A f \in Sent(n) : f.sub = x => f.seq = 0
  BY SentFields DEF Subs
<1>2. \A r \in n.srv : r.sub # x
  BY DEF Subs
<1> QED BY <1>1, <1>2 DEF Ahead

\* What is held, by what has become of the cursor.
LEMMA HeldNext ==
    ASSUME Record, NEW s \in Streams
    PROVE  held'[s] = IF stream'[s].cursor = NoCursor THEN held[s] ELSE stream'[s].cursor
BY DEF Record

LEMMA HeldStays ==
    ASSUME Record, PlaceInv, NEW s \in Streams, stream'[s].cursor \in {stream[s].cursor, NoCursor}
    PROVE  held'[s] = held[s]
BY HeldNext DEF PlaceInv

\* A stream that reads a frame stays where it is, or goes to the frame's position.
LEMMA ReadsAhead ==
    ASSUME OrdersInv, PlaceInv, AheadInv, Record, NEW b \in req.bySub, NEW f \in Sent(net), NEW r, Advanced(b, f, r)
    PROVE  /\ b.s \in Streams /\ stream[b.s].channel \in Channels
           /\ stream'[b.s] = r /\ r.channel = stream[b.s].channel /\ r.seq = f.seq /\ r.seq \in Nat
           /\ stream[b.s].seq \in Nat /\ f.seq > stream[b.s].seq
           /\ \A t \in Streams \ {b.s} : stream'[t] = stream[t]
           /\ held'[b.s] \in Cursors /\ held[b.s] <= held'[b.s] /\ held'[b.s] <= Reached(b.s)
           /\ held'[b.s] = held[b.s] \/ held'[b.s] = f.pos
           /\ r.cursor \in {NoCursor, held'[b.s]} /\ r.orders = Shown(held'[b.s])
<1> DEFINE s == b.s
<1>1. TypeOK /\ RequestsInv /\ b.s \in Streams
  BY DEF OrdersInv, TypeOK, Tables
<1>2. net \in Network /\ f.seq \in Nat /\ f.pos \in Cursors /\ stream[s].seq \in Nat
  BY <1>1, SentFields DEF TypeOK, StreamObject
<1>3. stream[s].channel \in Channels /\ log[stream[s].channel] \in Int /\ stream[s].channel # NoChannel
  <2>1. stream[s].channel \in Channels
    BY <1>1, OwnNames
  <2> QED BY <1>1, <2>1, LastUnit, SentinelAssumption DEF TypeOK
<1>4. /\ f.sub = b.sub /\ f.seq = stream[s].seq + 1
      /\ stream' = [stream EXCEPT ![s] = r] /\ After(f, stream[s], r)
  BY DEF Advanced
<1>5. stream'[s] = r /\ \A t \in Streams \ {s} : stream'[t] = stream[t]
  BY <1>1, <1>4 DEF TypeOK
<1>6. f.pos <= Reached(s) /\ (f.pos = NoCursor \/ held[s] <= f.pos)
  BY <1>2, <1>4 DEF AheadInv, Ahead
<1>7. /\ held[s] \in Cursors /\ held[s] <= Reached(s) /\ held[s] \in Int
      /\ stream[s].cursor \in {NoCursor, held[s]} /\ stream[s].orders = Shown(held[s])
  BY <1>1, <1>3, CursorOrder DEF PlaceInv
<1>8. held'[s] = IF r.cursor = NoCursor THEN held[s] ELSE r.cursor
  BY <1>1, <1>5, HeldNext
<1>9. CASE r.cursor = stream[s].cursor /\ r.orders = stream[s].orders
  <2>1. held'[s] = held[s]
    BY <1>7, <1>8, <1>9
  <2> QED BY <1>1, <1>2, <1>3, <1>4, <1>5, <1>7, <1>9, <2>1 DEF After
<1>10. CASE r.cursor = f.pos /\ f.pos # NoCursor
  <2>1. held'[s] = f.pos /\ r.orders = ViewAt(f.pos) /\ Shown(f.pos) = ViewAt(f.pos)
    BY <1>4, <1>8, <1>10 DEF After, Shown
  <2> QED BY <1>1, <1>2, <1>3, <1>4, <1>5, <1>6, <1>7, <1>10, <2>1 DEF After
<1> QED BY <1>4, <1>9, <1>10 DEF After

\* Whatever a step does, the streams hold the same or later positions of their
\* accounts, and what is held is what their orders show.
LEMMA PlaceMoves ==
    ASSUME OrdersInv, PlaceInv, AheadInv, Record, [Next]_vars
    PROVE  \A s \in Streams :
              /\ held'[s] \in Cursors /\ held[s] <= held'[s]
              /\ stream'[s].cursor \in {NoCursor, held'[s]} /\ stream'[s].orders = Shown(held'[s])
              /\ held'[s] = held[s] \/ (stream[s].channel # NoChannel /\ held'[s] <= Reached(s))
<1>1. TypeOK /\ Proceeds
  BY StepProceeds DEF OrdersInv
<1>2. ASSUME NEW s \in Streams, stream'[s].orders = stream[s].orders,
             stream'[s].cursor \in {stream[s].cursor, NoCursor}
      PROVE  /\ held'[s] \in Cursors /\ held[s] <= held'[s] /\ held'[s] = held[s]
             /\ stream'[s].cursor \in {NoCursor, held'[s]} /\ stream'[s].orders = Shown(held'[s])
  <2>1. held'[s] = held[s]
    BY <1>2, HeldStays
  <2>2. /\ held[s] \in Cursors /\ stream[s].cursor \in {NoCursor, held[s]}
        /\ stream[s].orders = Shown(held[s])
    BY DEF PlaceInv
  <2>3. held[s] \in Int /\ held[s] <= held[s]
    <3>1. held[s] \in Int
      BY <2>2, CursorOrder, Zenon
    <3> QED BY <3>1
  <2> QED BY <1>2, <2>1, <2>2, <2>3
<1>3. CASE Carries
  BY <1>2, <1>3 DEF Carries, GoesOn, Restarts
<1>4. CASE \E f \in fetches : Accepted(f)
  BY <1>2, <1>4 DEF Accepted
<1>5. ASSUME NEW id, NEW t, Subscribes(id, t), NEW s \in Streams
      PROVE  stream'[s].orders = stream[s].orders /\ stream'[s].cursor \in {stream[s].cursor, NoCursor}
  BY <1>5 DEF Subscribes
<1>6. ASSUME NEW b \in req.bySub, NEW f \in Sent(net), NEW r, Advanced(b, f, r), NEW s \in Streams
      PROVE  /\ held'[s] \in Cursors /\ held[s] <= held'[s]
             /\ stream'[s].cursor \in {NoCursor, held'[s]} /\ stream'[s].orders = Shown(held'[s])
             /\ held'[s] = held[s] \/ (stream[s].channel # NoChannel /\ held'[s] <= Reached(s))
  <2>1. CASE s = b.s
    <3>1. stream[s].channel # NoChannel
      BY <1>6, <2>1, ReadsAhead, SentinelAssumption
    <3> QED BY <1>6, <2>1, <3>1, ReadsAhead
  <2>2. CASE s # b.s
    <3>1. stream'[s] = stream[s]
      BY <1>6, <2>2, ReadsAhead
    <3> QED BY <1>2, <3>1
  <2> QED BY <2>1, <2>2
<1> QED BY <1>1, <1>2, <1>3, <1>4, <1>5, <1>6 DEF Proceeds

LEMMA StepKeepsPlace ==
    ASSUME OrdersInv, PlaceInv, AheadInv, Record, [Next]_vars
    PROVE  PlaceInv'
<1>1. TypeOK /\ TypeOK'
  BY StepKeepsTypes DEF OrdersInv
<1>2. ASSUME NEW s \in Streams
      PROVE  IF stream'[s].channel = NoChannel THEN held'[s] = NoCursor ELSE held'[s] <= log'[stream'[s].channel]
  <2>1. /\ held[s] \in Int /\ held'[s] \in Int
        /\ held'[s] = held[s] \/ (stream[s].channel # NoChannel /\ held'[s] <= Reached(s))
    BY PlaceMoves, CursorOrder DEF PlaceInv
  <2>2. /\ stream[s].channel \in Channels \cup {NoChannel} /\ stream'[s].channel \in Channels \cup {NoChannel}
    BY <1>1 DEF TypeOK, StreamObject
  <2>3. CASE stream[s].channel = NoChannel
    <3>1. held'[s] = NoCursor
      BY <2>1, <2>3 DEF PlaceInv
    <3>2. stream'[s].channel # NoChannel => log'[stream'[s].channel] \in Nat
      BY <1>1, <2>2, LogClimbs
    <3> QED BY <3>1, <3>2, CursorOrder
  <2>4. CASE stream[s].channel # NoChannel
    <3>1. stream'[s].channel = stream[s].channel
      BY <2>4, ChannelsStay
    <3>2. Reached(s) \in Nat /\ log'[stream[s].channel] \in Nat /\ Reached(s) <= log'[stream[s].channel]
      BY <1>1, <2>2, <2>4, LogClimbs DEF Reached
    <3>3. held'[s] <= Reached(s)
      BY <2>1, <2>4 DEF PlaceInv
    <3> QED BY <2>1, <2>4, <3>1, <3>2, <3>3
  <2> QED BY <2>3, <2>4
<1> QED BY <1>2, PlaceMoves DEF PlaceInv, Shown, Reached

-----------------------------------------------------------------------------
(* The frames ahead of a stream.                                           *)

\* A stream with a name or a request has an account, and keeps it.
LEMMA Grounded ==
    ASSUME OrdersInv, PlaceInv, [Next]_vars, NEW s \in Streams, IsCurrent(s)
    PROVE  /\ stream[s].channel \in Channels /\ stream'[s].channel = stream[s].channel
           /\ held[s] \in Cursors /\ held[s] <= Reached(s)
           /\ Reached(s) \in Int /\ Reached(s)' \in Int /\ Reached(s) <= Reached(s)'
           /\ stream[s].seq \in Nat
<1>1. TypeOK /\ TypeOK' /\ RequestsInv
  BY StepKeepsTypes DEF OrdersInv
<1>2. stream[s].channel \in Channels /\ stream[s].channel # NoChannel
  BY <1>1, OwnNames, SentinelAssumption
<1>3. stream'[s].channel = stream[s].channel
  BY <1>2, ChannelsStay
<1>4. /\ log[stream[s].channel] \in Nat /\ log'[stream[s].channel] \in Nat
      /\ log[stream[s].channel] <= log'[stream[s].channel]
  BY <1>1, <1>2, LogClimbs
<1>5. held[s] \in Cursors /\ held[s] <= Reached(s) /\ stream[s].seq \in Nat
  BY <1>1, <1>2 DEF PlaceInv, TypeOK, StreamObject
<1> QED BY <1>2, <1>3, <1>4, <1>5 DEF Reached

\* A step that keeps what is ahead of the readers keeps it ahead of a stream.
LEMMA StillAhead ==
    ASSUME OrdersInv, PlaceInv, Record, [Next]_vars, NEW s \in Streams, IsCurrent(s), held'[s] = held[s],
           NEW x, NEW k \in Nat, Ahead(net', x, k, held[s], stream[s].channel, Reached(s))
    PROVE  Ahead(net', x, k, held'[s], stream'[s].channel, Reached(s)')
<1>1. net' \in Network
  BY StepKeepsTypes DEF OrdersInv, TypeOK
<1>2. /\ Reached(s) \in Int /\ Reached(s)' \in Int /\ Reached(s) <= Reached(s)'
      /\ stream'[s].channel = stream[s].channel
  BY Grounded
<1>3. Ahead(net', x, k, held[s], stream[s].channel, Reached(s)')
  BY <1>1, <1>2, AheadGrows
<1> QED BY <1>2, <1>3

LEMMA KeepsAhead ==
    ASSUME OrdersInv, PlaceInv, [Next]_vars, NEW s \in Streams, IsCurrent(s), Keeps(net, net'),
           NEW x, NEW k \in Nat, Ahead(net, x, k, held[s], stream[s].channel, Reached(s))
    PROVE  Ahead(net', x, k, held[s], stream[s].channel, Reached(s))
<1>1. stream[s].channel \in Channels /\ held[s] \in Cursors /\ held[s] <= log[stream[s].channel]
  BY Grounded DEF Reached
<1> QED BY <1>1 DEF Keeps, Reached

LEMMA Askers ==
    ASSUME OrdersInv
    PROVE  /\ \A b \in req.bySub : b.s \in Streams /\ IsCurrent(b.s) /\ b.sub = stream[b.s].sub /\ b.sub # 0
           /\ \A p \in req.pending : p.s \in Streams /\ IsCurrent(p.s)
<1>1. TypeOK /\ RequestsInv
  BY DEF OrdersInv
<1>2. (\A b \in req.bySub : b.s \in Streams) /\ (\A p \in req.pending : p.s \in Streams)
  BY <1>1 DEF TypeOK, Tables, Requests
<1> QED BY <1>1, <1>2, OwnNames

LEMMA CarriesAhead ==
    ASSUME OrdersInv, PlaceInv, AheadInv, Record, [Next]_vars, Carries
    PROVE  AheadInv'
<1>1. TypeOK /\ TypeOK' /\ RequestsInv /\ RequestsInv' /\ InStep /\ (Outcome \/ SocketOpens)
  BY StepKeepsOrders, StepDoes DEF OrdersInv
<1>2. /\ \A b \in req'.bySub : b \in req.bySub /\ b.s \in Streams /\ GoesOn(b.s)
                               /\ stream'[b.s].sub = b.sub /\ b.sub # 0
      /\ \A p \in req'.pending : p.kind = "subscribe" =>
            /\ p.s \in Streams
            /\ (p \in req.pending /\ GoesOn(p.s)) \/ p.id \notin Subs(net')
  BY <1>1, CarriesNames
<1>3. Keeps(net, net') /\ net' \in Network
  BY <1>1 DEF Carries, TypeOK
<1>4. ASSUME NEW b \in req'.bySub
      PROVE  Ahead(net', b.sub, stream'[b.s].seq, held'[b.s], stream'[b.s].channel, Reached(b.s)')
  <2>1. /\ b \in req.bySub /\ b.s \in Streams /\ IsCurrent(b.s) /\ stream'[b.s].seq = stream[b.s].seq
        /\ stream'[b.s].cursor = stream[b.s].cursor
    BY <1>2, Askers DEF GoesOn
  <2>2. stream[b.s].seq \in Nat /\ held'[b.s] = held[b.s]
    BY <2>1, Grounded, HeldStays
  <2>3. Ahead(net', b.sub, stream[b.s].seq, held[b.s], stream[b.s].channel, Reached(b.s))
    BY <1>3, <2>1, <2>2, KeepsAhead DEF AheadInv
  <2>4. Ahead(net', b.sub, stream[b.s].seq, held'[b.s], stream'[b.s].channel, Reached(b.s)')
    BY <2>1, <2>2, <2>3, StillAhead
  <2> QED BY <2>1, <2>4
<1>5. ASSUME NEW p \in req'.pending, AsksFor(p)
      PROVE  Ahead(net', p.id, 0, held'[p.s], stream'[p.s].channel, Reached(p.s)')
  <2>1. CASE p \in req.pending /\ GoesOn(p.s)
    <3>1. p.s \in Streams /\ IsCurrent(p.s) /\ held'[p.s] = held[p.s]
      BY <2>1, Askers, HeldStays DEF GoesOn
    <3>2. Ahead(net', p.id, 0, held[p.s], stream[p.s].channel, Reached(p.s))
      BY <1>3, <1>5, <2>1, <3>1, KeepsAhead DEF AheadInv
    <3> QED BY <3>1, <3>2, StillAhead
  <2>2. CASE p.id \notin Subs(net')
    BY <1>3, <2>2, NewAhead
  <2> QED BY <1>2, <1>5, <2>1, <2>2 DEF AsksFor
<1> QED BY <1>4, <1>5 DEF AheadInv, Reached, AsksFor

LEMMA AcceptAhead ==
    ASSUME OrdersInv, PlaceInv, AheadInv, Record, [Next]_vars, NEW f \in fetches, Accepted(f)
    PROVE  AheadInv'
<1> DEFINE q == Request(f.id, "subscribe", f.s)
<1>1. /\ q \in req.pending /\ q.id = f.id /\ q.s = f.s /\ f.kind = "subscribe" /\ UNCHANGED <<stream, req>>
      /\ \A x : \A k \in Nat, h \in Cursors, ch \in Channels :
            x # f.id /\ h <= log[ch] /\ Ahead(net, x, k, h, ch, log[ch]) => Ahead(net', x, k, h, ch, log[ch])
      /\ \A h \in Cursors :
            h <= log[stream[f.s].channel] /\ stream[f.s].cursor \in {h, NoCursor}
            => Ahead(net', f.id, 0, h, stream[f.s].channel, log[stream[f.s].channel])
  BY DEF Accepted, Request
<1>2. /\ \A p \in req.pending : p.id = f.id => p = q
      /\ \A b \in req.bySub : b.sub # f.id
  BY <1>1 DEF OrdersInv, RequestsInv, IdsInv
<1> HIDE DEF q
<1>3. ASSUME NEW s \in Streams, IsCurrent(s), NEW x, NEW k \in Nat, x # f.id,
             Ahead(net, x, k, held[s], stream[s].channel, Reached(s))
      PROVE  Ahead(net', x, k, held'[s], stream'[s].channel, Reached(s)')
  <2>1. held'[s] = held[s]
    BY <1>1, HeldStays
  <2>2. stream[s].channel \in Channels /\ held[s] \in Cursors /\ held[s] <= log[stream[s].channel]
    BY <1>3, Grounded DEF Reached
  <2>3. Ahead(net', x, k, held[s], stream[s].channel, Reached(s))
    BY <1>1, <1>3, <2>2 DEF Reached
  <2> QED BY <1>3, <2>1, <2>3, StillAhead
<1>4. ASSUME NEW b \in req.bySub
      PROVE  Ahead(net', b.sub, stream[b.s].seq, held'[b.s], stream'[b.s].channel, Reached(b.s)')
  <2>1. b.s \in Streams /\ IsCurrent(b.s) /\ b.sub # f.id
    BY <1>2, Askers
  <2>2. stream[b.s].seq \in Nat
    BY <2>1, Grounded
  <2> QED BY <1>3, <2>1, <2>2 DEF AheadInv
<1>5. ASSUME NEW p \in req.pending, AsksFor(p)
      PROVE  Ahead(net', p.id, 0, held'[p.s], stream'[p.s].channel, Reached(p.s)')
  <2>1. p.s \in Streams /\ IsCurrent(p.s)
    BY Askers
  <2>2. CASE p.id = f.id
    <3>1. p.s = f.s /\ held'[p.s] = held[p.s] /\ stream[p.s].cursor \in {held[p.s], NoCursor}
      BY <1>1, <1>2, <2>1, <2>2, HeldStays DEF PlaceInv
    <3>2. held[p.s] \in Cursors /\ held[p.s] <= Reached(p.s)
      BY <2>1, Grounded
    <3>3. Ahead(net', p.id, 0, held[p.s], stream[p.s].channel, Reached(p.s))
      BY <1>1, <2>2, <3>1, <3>2 DEF Reached
    <3> QED BY <2>1, <3>1, <3>3, StillAhead
  <2>3. CASE p.id # f.id
    BY <1>3, <1>5, <2>1, <2>3 DEF AheadInv
  <2> QED BY <2>2, <2>3
<1> QED BY <1>1, <1>4, <1>5 DEF AheadInv, Reached, AsksFor

LEMMA SubscribesAhead ==
    ASSUME OrdersInv, PlaceInv, AheadInv, Record, [Next]_vars, NEW id, NEW s, Subscribes(id, s)
    PROVE  AheadInv'
<1> DEFINE q == Request(id, "subscribe", s)
<1>1. /\ q \in req.pending /\ q.id = id /\ q.s = s /\ AsksFor(q) /\ Keeps(net, net')
      /\ req'.pending \subseteq req.pending /\ req'.bySub = req.bySub \cup {[sub |-> id, s |-> s]}
      /\ \A t \in Streams \ {s} : stream'[t] = stream[t]
      /\ stream'[s].cursor = stream[s].cursor /\ stream'[s].seq = 0
  BY DEF Subscribes, Request, AsksFor
<1>2. s \in Streams /\ IsCurrent(s) /\ stream[s].sub = 0
  <2>1. s \in Streams /\ IsCurrent(s)
    BY <1>1, Askers
  <2> QED BY <1>1, <2>1 DEF OrdersInv, RequestsInv, Settled, Tidy, Asking, AsksFor
<1> HIDE DEF q
<1>3. ASSUME NEW t \in Streams, IsCurrent(t), NEW x, NEW k \in Nat,
             Ahead(net, x, k, held[t], stream[t].channel, Reached(t))
      PROVE  Ahead(net', x, k, held'[t], stream'[t].channel, Reached(t)')
  <2>1. held'[t] = held[t]
    <3>1. stream'[t].cursor = stream[t].cursor
      BY <1>1
    <3> QED BY <3>1, HeldStays
  <2>2. Ahead(net', x, k, held[t], stream[t].channel, Reached(t))
    BY <1>1, <1>3, KeepsAhead
  <2> QED BY <1>3, <2>1, <2>2, StillAhead
<1>4. ASSUME NEW b \in req'.bySub
      PROVE  Ahead(net', b.sub, stream'[b.s].seq, held'[b.s], stream'[b.s].channel, Reached(b.s)')
  <2>1. CASE b = [sub |-> id, s |-> s]
    <3>1. Ahead(net, id, 0, held[s], stream[s].channel, Reached(s))
      BY <1>1 DEF AheadInv
    <3>2. Ahead(net', id, 0, held'[s], stream'[s].channel, Reached(s)')
      BY <1>2, <1>3, <3>1
    <3>3. b.sub = id /\ b.s = s
      BY <2>1
    <3> QED BY <1>1, <3>2, <3>3
  <2>2. CASE b \in req.bySub
    <3>1. b.s \in Streams /\ IsCurrent(b.s) /\ b.s # s
      BY <1>2, <2>2, Askers
    <3>2. stream[b.s].seq \in Nat /\ stream'[b.s] = stream[b.s]
      BY <1>1, <3>1, Grounded
    <3>3. Ahead(net', b.sub, stream[b.s].seq, held'[b.s], stream'[b.s].channel, Reached(b.s)')
      BY <1>3, <2>2, <3>1, <3>2 DEF AheadInv
    <3> QED BY <3>2, <3>3
  <2> QED BY <1>1, <2>1, <2>2
<1>5. ASSUME NEW p \in req'.pending, AsksFor(p)
      PROVE  Ahead(net', p.id, 0, held'[p.s], stream'[p.s].channel, Reached(p.s)')
  <2>1. p \in req.pending /\ p.s \in Streams /\ IsCurrent(p.s)
    BY <1>1, Askers
  <2> QED BY <1>3, <1>5, <2>1 DEF AheadInv
<1> QED BY <1>4, <1>5 DEF AheadInv, Reached, AsksFor

LEMMA AdvancesAhead ==
    ASSUME OrdersInv, PlaceInv, AheadInv, Record, [Next]_vars,
           NEW b \in req.bySub, NEW f \in Sent(net), NEW r, Advanced(b, f, r)
    PROVE  AheadInv'
<1> DEFINE s == b.s
<1>1. /\ UNCHANGED req /\ f.sub = b.sub /\ Keeps(net, net') /\ Sent(net') \subseteq Sent(net) /\ net'.srv = net.srv
  BY DEF Advanced
<1>2. /\ s \in Streams /\ stream[s].channel \in Channels
      /\ stream'[s] = r /\ r.channel = stream[s].channel /\ r.seq = f.seq
      /\ stream[s].seq \in Nat /\ f.seq > stream[s].seq
      /\ \A t \in Streams \ {s} : stream'[t] = stream[t]
      /\ held'[s] \in Cursors /\ held[s] <= held'[s]
      /\ held'[s] = held[s] \/ held'[s] = f.pos
  BY ReadsAhead
<1>3. IsCurrent(s) /\ b.sub = stream[s].sub /\ b.sub # 0 /\ Asking(s) = {}
  BY <1>2, Askers, OwnNames DEF OrdersInv
<1>4. /\ net \in Network /\ net' \in Network /\ f.seq \in Nat /\ f.seq > 0 /\ Climbs(net)
      /\ held[s] \in Int /\ held'[s] \in Int
      /\ \A g \in Sent(net) : g.seq \in Nat /\ g.pos \in Int
      /\ \A q \in net.srv : q.pos \in Int
  <2>1. TypeOK /\ TypeOK' /\ InStep
    BY StepKeepsTypes DEF OrdersInv
  <2>2. net \in Network /\ net' \in Network /\ Climbs(net)
    BY <2>1 DEF TypeOK, InStep, InOrder
  <2>3. held[s] \in Cursors
    BY <1>2 DEF PlaceInv
  <2>4. f.seq \in Nat /\ f.seq > 0
    <3>1. f.seq \in Nat
      BY <2>2, SentFields
    <3> QED BY <1>2, <3>1
  <2>5. held[s] \in Int /\ held'[s] \in Int
    BY <1>2, <2>3, CursorOrder
  <2>6. \A g \in Sent(net) : g.seq \in Nat /\ g.pos \in Int
    BY <2>2, SentFields
  <2>7. \A q \in net.srv : q.pos \in Int
    BY <2>2, SentFields
  <2> QED BY <2>2, <2>4, <2>5, <2>6, <2>7
<1> HIDE DEF s
<1>5. Ahead(net', b.sub, f.seq, held'[s], stream[s].channel, Reached(s))
  <2>1. Ahead(net, b.sub, stream[s].seq, held[s], stream[s].channel, Reached(s))
    BY DEF AheadInv, s
  <2>2. ASSUME NEW g \in Sent(net'), g.sub = b.sub, g.seq > f.seq
        PROVE  g.pos <= Reached(s) /\ (g.pos = NoCursor \/ held'[s] <= g.pos)
    <3>1. g \in Sent(net) /\ f.pos <= g.pos
      BY <1>1, <1>4, <2>2 DEF Climbs
    <3>2. g.pos <= Reached(s) /\ (g.pos = NoCursor \/ held[s] <= g.pos)
      BY <1>2, <1>4, <2>1, <2>2, <3>1 DEF Ahead
    <3> QED BY <1>2, <3>1, <3>2
  <2>3. ASSUME NEW q \in net'.srv, q.sub = b.sub
        PROVE  q.ch = stream[s].channel /\ q.pos <= Reached(s) /\ (q.pos = NoCursor \/ held'[s] <= q.pos)
    <3>1. q \in net.srv /\ f.pos <= q.pos
      BY <1>1, <1>4, <2>3 DEF Climbs
    <3>2. q.ch = stream[s].channel /\ q.pos <= Reached(s) /\ (q.pos = NoCursor \/ held[s] <= q.pos)
      BY <2>1, <2>3, <3>1 DEF Ahead
    <3> QED BY <1>2, <3>1, <3>2
  <2> QED BY <2>2, <2>3 DEF Ahead
<1>6. Ahead(net', b.sub, f.seq, held'[s], stream'[s].channel, Reached(s)')
  <2>1. Reached(s) \in Int /\ Reached(s)' \in Int /\ Reached(s) <= Reached(s)' /\ stream'[s].channel = stream[s].channel
    BY <1>2, <1>3, Grounded
  <2>2. Ahead(net', b.sub, f.seq, held'[s], stream[s].channel, Reached(s)')
    BY <1>4, <1>5, <2>1, AheadGrows
  <2> QED BY <2>1, <2>2
<1>7. ASSUME NEW t \in Streams, IsCurrent(t), t # s, NEW x, NEW k \in Nat,
             Ahead(net, x, k, held[t], stream[t].channel, Reached(t))
      PROVE  Ahead(net', x, k, held'[t], stream'[t].channel, Reached(t)')
  <2>1. held'[t] = held[t]
    <3>1. stream'[t].cursor = stream[t].cursor
      BY <1>2, <1>7
    <3> QED BY <3>1, HeldStays
  <2>2. Ahead(net', x, k, held[t], stream[t].channel, Reached(t))
    BY <1>1, <1>7, KeepsAhead
  <2> QED BY <1>7, <2>1, <2>2, StillAhead
<1>8. ASSUME NEW c \in req.bySub
      PROVE  Ahead(net', c.sub, stream'[c.s].seq, held'[c.s], stream'[c.s].channel, Reached(c.s)')
  <2>1. c.s \in Streams /\ IsCurrent(c.s) /\ c.sub = stream[c.s].sub
    BY Askers
  <2>2. CASE c.s = s
    <3>1. c.sub = b.sub
      BY <1>3, <2>1, <2>2
    <3> QED BY <1>2, <1>6, <2>2, <3>1
  <2>3. CASE c.s # s
    <3>1. stream[c.s].seq \in Nat /\ stream'[c.s] = stream[c.s]
      BY <1>2, <2>1, <2>3, Grounded
    <3>2. Ahead(net', c.sub, stream[c.s].seq, held'[c.s], stream'[c.s].channel, Reached(c.s)')
      BY <1>7, <2>1, <2>3, <3>1 DEF AheadInv
    <3> QED BY <3>1, <3>2
  <2> QED BY <2>2, <2>3
<1>9. ASSUME NEW p \in req.pending, AsksFor(p)
      PROVE  Ahead(net', p.id, 0, held'[p.s], stream'[p.s].channel, Reached(p.s)')
  <2>1. p.s \in Streams /\ IsCurrent(p.s) /\ p.s # s
    BY <1>3, <1>9, Askers DEF Asking, AsksFor
  <2> QED BY <1>7, <1>9, <2>1 DEF AheadInv
<1> QED BY <1>1, <1>8, <1>9 DEF AheadInv, Reached, AsksFor

LEMMA StepKeepsAhead ==
    ASSUME OrdersInv, PlaceInv, AheadInv, Record, [Next]_vars
    PROVE  AheadInv'
<1>1. Proceeds
  BY StepProceeds DEF OrdersInv
<1> QED BY <1>1, CarriesAhead, AcceptAhead, SubscribesAhead, AdvancesAhead DEF Proceeds

-----------------------------------------------------------------------------
(* What the consumers are shown.                                           *)

LEMMA ShownNext ==
    ASSUME Record, NEW c \in Consumers
    PROVE  at'[c] = IF consumer'[c].view = consumer[c].view THEN at[c] ELSE held[consumer[c].s]
BY DEF Record

LEMMA StepKeepsShown ==
    ASSUME FeedInv, Record, [Next]_vars
    PROVE  ShownInv'
<1>1. /\ OrdersInv /\ PlaceInv /\ AheadInv /\ ShownInv /\ TypeOK /\ TypeOK'
      /\ \A s \in Streams : held[s] \in Int /\ held'[s] \in Int /\ held[s] <= held'[s]
      /\ \A s \in Streams : stream[s].channel # NoChannel => stream'[s].channel # NoChannel
  <2>1. OrdersInv /\ PlaceInv /\ AheadInv /\ ShownInv /\ TypeOK /\ TypeOK'
    BY StepKeepsOrders DEF FeedInv, OrdersInv
  <2> QED BY <2>1, PlaceMoves, ChannelsStay, CursorOrder DEF PlaceInv
<1>2. \A c \in Consumers : consumer[c].s \in Streams \cup {NoStream}
  BY <1>1 DEF TypeOK, Held, MaybeStream
<1> DEFINE Good(c) == /\ at'[c] \in Cursors
                      /\ consumer'[c].view = Shown(at'[c])
                      /\ IF consumer'[c].s = NoStream THEN at'[c] = NoCursor
                         ELSE stream'[consumer'[c].s].channel # NoChannel /\ at'[c] <= held'[consumer'[c].s]
<1>3. ASSUME NEW c \in Consumers, Alike(c)
      PROVE  Good(c)
  <2>1. at'[c] = at[c] /\ consumer'[c].s = consumer[c].s /\ consumer'[c].view = consumer[c].view
    BY <1>3, ShownNext DEF Alike
  <2>2. at[c] \in Cursors /\ at[c] \in Int /\ consumer[c].view = Shown(at[c])
    BY <1>1, CursorOrder DEF ShownInv
  <2>3. CASE consumer[c].s = NoStream
    BY <1>1, <2>1, <2>2, <2>3 DEF ShownInv
  <2>4. CASE consumer[c].s # NoStream
    <3>1. consumer[c].s \in Streams /\ stream[consumer[c].s].channel # NoChannel /\ at[c] <= held[consumer[c].s]
      BY <1>1, <1>2, <2>4 DEF ShownInv
    <3> QED BY <1>1, <2>1, <2>2, <2>4, <3>1
  <2> QED BY <2>3, <2>4
<1>4. ASSUME NEW c \in Consumers, NEW ch \in Channels, Attaches(c, ch)
      PROVE  Good(c)
  <2>1. at'[c] = at[c] /\ at[c] = NoCursor /\ consumer'[c].view = Shown(at[c])
    BY <1>1, <1>4, ShownNext DEF Attaches, ShownInv
  <2>2. consumer'[c].s \in Streams /\ stream'[consumer'[c].s].channel # NoChannel /\ consumer'[c].s # NoStream
    BY <1>4, SentinelAssumption DEF Attaches
  <2>3. NoCursor <= held'[consumer'[c].s]
    BY <1>1, <2>2, PlaceMoves, CursorOrder
  <2> QED BY <2>1, <2>2, <2>3, CursorOrder
<1>5. ASSUME NEW c \in Consumers, Informs(c)
      PROVE  Good(c)
  <2> DEFINE s == consumer[c].s
  <2>1. s \in Streams /\ s # NoStream /\ consumer'[c].s = s /\ stream' = stream
    BY <1>5, SentinelAssumption DEF Informs
  <2>2. /\ at[c] \in Cursors /\ consumer[c].view = Shown(at[c])
        /\ stream[s].channel # NoChannel /\ at[c] <= held[s] /\ at[c] \in Int
        /\ held[s] \in Cursors /\ stream[s].orders = Shown(held[s])
    BY <1>1, <2>1, CursorOrder DEF ShownInv, PlaceInv
  <2>3. CASE consumer'[c].view = consumer[c].view
    <3>1. at'[c] = at[c]
      BY <2>3, ShownNext
    <3> QED BY <1>1, <2>1, <2>2, <2>3, <3>1
  <2>4. CASE consumer'[c].view # consumer[c].view
    <3>1. at'[c] = held[s] /\ consumer'[c].view = stream[s].orders
      BY <1>5, <2>4, ShownNext DEF Informs, Alike
    <3> QED BY <1>1, <2>1, <2>2, <3>1
  <2> QED BY <2>3, <2>4
<1>6. \A c \in Consumers : Good(c)
  <2>1. CASE Hushes
    BY <1>3, <2>1 DEF Hushes
  <2>2. ASSUME NEW d \in Consumers, NEW ch \in Channels, Attaches(d, ch), NEW c \in Consumers
        PROVE  Good(c)
    <3>1. c # d => Alike(c)
      BY <2>2 DEF Attaches
    <3> QED BY <1>3, <1>4, <2>2, <3>1
  <2>3. ASSUME NEW d \in Consumers, Informs(d), NEW c \in Consumers
        PROVE  Good(c)
    <3>1. c # d => Alike(c)
      BY <2>3 DEF Informs
    <3> QED BY <1>3, <1>5, <2>3, <3>1
  <2> HIDE DEF Good
  <2> QED BY <1>1, <2>1, <2>2, <2>3, StepTells
<1> QED BY <1>6 DEF ShownInv, Shown

LEMMA InitFeed == FeedInit => FeedInv
<1> SUFFICES ASSUME FeedInit PROVE FeedInv
  OBVIOUS
<1>1. Init /\ OrdersInv
  BY InitOrders DEF FeedInit
<1>2. \A s \in Streams : stream[s] = NewStream /\ held[s] = NoCursor
  BY <1>1 DEF FeedInit, Init
<1>3. PlaceInv
  BY <1>2, CursorOrder DEF PlaceInv, NewStream, Shown
<1>4. AheadInv
  BY <1>1 DEF Init, AheadInv
<1>5. ShownInv
  BY <1>1, CursorOrder DEF FeedInit, Init, ShownInv, Shown
<1> QED BY <1>1, <1>3, <1>4, <1>5 DEF FeedInv

LEMMA StepKeepsFeed == FeedInv /\ [Next /\ Record]_feedVars => FeedInv'
<1> SUFFICES ASSUME FeedInv, [Next /\ Record]_feedVars
             PROVE  FeedInv'
  OBVIOUS
<1>1. CASE Next /\ Record
  <2>1. OrdersInv' /\ PlaceInv' /\ AheadInv'
    BY <1>1, StepKeepsOrders, StepKeepsPlace, StepKeepsAhead DEF FeedInv
  <2> QED BY <1>1, <2>1, StepKeepsShown DEF FeedInv
<1>2. CASE UNCHANGED feedVars
  <2>1. UNCHANGED vars /\ UNCHANGED <<held, at>>
    BY <1>2 DEF feedVars
  <2>2. UNCHANGED <<stream, req, consumer, net, log>>
    BY <2>1 DEF vars, core, env
  <2>3. OrdersInv'
    BY <2>1, StepKeepsOrders DEF FeedInv
  <2>4. PlaceInv' /\ ShownInv'
    BY <2>1, <2>2 DEF FeedInv, PlaceInv, ShownInv, Shown, Reached
  <2>5. AheadInv'
    BY <2>1, <2>2 DEF FeedInv, AheadInv, Ahead, Sent, Reached, AsksFor
  <2> QED BY <2>3, <2>4, <2>5 DEF FeedInv
<1> QED BY <1>1, <1>2

-----------------------------------------------------------------------------
(* The refinement.                                                         *)

\* The account consumer c joined.
AccountOf(c) == IF consumer[c].s = NoStream THEN NoChannel ELSE stream[consumer[c].s].channel

\* Every consumer was given a view at the recorded position.
LEMMA FeedShows ==
    ASSUME FeedInv
    PROVE  ConsumerFeed = [c \in Consumers |-> [channel |-> AccountOf(c), state |-> consumer[c].state, at |-> at[c]]]
<1>1. ASSUME NEW c \in Consumers
      PROVE  (IF consumer[c].view = NoView THEN NoCursor
              ELSE IF at[c] \in Positions /\ consumer[c].view = ViewAt(at[c]) THEN at[c] ELSE Untrue) = at[c]
  <2>1. at[c] \in Cursors /\ consumer[c].view = Shown(at[c])
    BY DEF FeedInv, ShownInv
  <2>2. CASE at[c] = NoCursor
    BY <2>1, <2>2 DEF Shown
  <2>3. CASE at[c] # NoCursor
    <3>1. at[c] \in Positions /\ consumer[c].view = ViewAt(at[c])
      BY <2>1, <2>3, CursorOrder DEF Shown
    <3>2. ViewAt(at[c]) # NoView
      BY <2>1, ViewTypes
    <3> QED BY <3>1, <3>2
  <2> QED BY <2>2, <2>3
<1> QED BY <1>1 DEF ConsumerFeed, AccountOf

LEMMA FeedSteps ==
    ASSUME FeedInv, FeedInv', [Next /\ Record]_feedVars
    PROVE  [Feed!Next]_Feed!feedVars
<1> DEFINE Given(c) == [channel |-> AccountOf(c), state |-> consumer[c].state, at |-> at[c]]
<1>1. ConsumerFeed = [c \in Consumers |-> Given(c)] /\ ConsumerFeed' = [c \in Consumers |-> Given(c)']
  <2>1. FeedInv => ConsumerFeed = [c \in Consumers |-> [channel |-> AccountOf(c), state |-> consumer[c].state, at |-> at[c]]]
    BY FeedShows
  <2>2. (FeedInv => ConsumerFeed = [c \in Consumers |-> [channel |-> AccountOf(c), state |-> consumer[c].state, at |-> at[c]]])'
    BY FeedShows, PTL
  <2> QED BY <2>1, <2>2
<1>2. CASE UNCHANGED feedVars
  <2>1. UNCHANGED <<log, stream, consumer, held, at>>
    BY <1>2 DEF feedVars, vars, core, env
  <2>2. ConsumerFeed' = ConsumerFeed
    BY <1>1, <2>1 DEF AccountOf
  <2> QED BY <2>1, <2>2 DEF Feed!feedVars
<1>3. CASE Next /\ Record
  <2>1. OrdersInv /\ PlaceInv /\ ShownInv /\ Record /\ [Next]_vars /\ TypeOK /\ TypeOK'
    BY <1>3 DEF FeedInv, OrdersInv
  <2>2. ASSUME NEW c \in Consumers, Alike(c)
        PROVE  Given(c)' = Given(c)
    <3>1. at'[c] = at[c] /\ consumer'[c].s = consumer[c].s /\ consumer'[c].state = consumer[c].state
      BY <2>1, <2>2, ShownNext DEF Alike
    <3>2. AccountOf(c)' = AccountOf(c)
      <4>1. CASE consumer[c].s = NoStream
        BY <3>1, <4>1 DEF AccountOf
      <4>2. CASE consumer[c].s # NoStream
        <5>1. consumer[c].s \in Streams /\ stream[consumer[c].s].channel # NoChannel
          BY <2>1, <4>2 DEF ShownInv, TypeOK, Held, MaybeStream
        <5>2. stream'[consumer[c].s].channel = stream[consumer[c].s].channel
          BY <2>1, <5>1, ChannelsStay
        <5> QED BY <3>1, <4>2, <5>2 DEF AccountOf
      <4> QED BY <4>1, <4>2
    <3> QED BY <3>1, <3>2
  <2>3. CASE Hushes
    <3>1. ConsumerFeed' = ConsumerFeed
      BY <1>1, <2>2, <2>3 DEF Hushes
    <3>2. CASE UNCHANGED log
      BY <3>1, <3>2 DEF Feed!feedVars
    <3>3. ASSUME NEW ch \in Channels, AccountMoves(ch)
          PROVE  Feed!Move(ch)
      BY <3>1, <3>3 DEF Feed!Move, AccountMoves
    <3> QED BY <2>1, <3>2, <3>3, LogStays DEF Feed!Next
  <2>4. ASSUME NEW c \in Consumers, NEW ch \in Channels, Attaches(c, ch)
        PROVE  Feed!Attach(c, ch)
    <3>1. /\ at'[c] = at[c] /\ consumer'[c].state = consumer[c].state
          /\ AccountOf(c) = NoChannel /\ AccountOf(c)' = ch /\ UNCHANGED log
      <4>1. consumer'[c].s # NoStream
        BY <2>4, SentinelAssumption DEF Attaches
      <4> QED BY <2>1, <2>4, <4>1, ShownNext DEF Attaches, AccountOf
    <3>2. Given(c) = [channel |-> NoChannel, state |-> consumer[c].state, at |-> at[c]]
          /\ Given(c)' = [channel |-> ch, state |-> consumer[c].state, at |-> at[c]]
      BY <3>1
    <3>3. \A d \in Consumers \ {c} : Given(d)' = Given(d)
      BY <2>2, <2>4 DEF Attaches
    <3> HIDE DEF Given
    <3>4. ConsumerFeed' = [ConsumerFeed EXCEPT ![c].channel = ch]
      BY <1>1, <3>2, <3>3
    <3>5. ConsumerFeed[c].channel = NoChannel
      BY <1>1, <3>2
    <3> QED BY <3>1, <3>4, <3>5 DEF Feed!Attach
  <2>5. ASSUME NEW c \in Consumers, Informs(c)
        PROVE  \/ UNCHANGED <<log, ConsumerFeed>>
               \/ Feed!Show(c)
               \/ \E state \in {"connected", "disconnected"} : Feed!Switch(c, state)
    <3> DEFINE s == consumer[c].s
               ch == stream[s].channel
    <3>1. UNCHANGED <<log, stream>> /\ s \in Streams /\ s # NoStream /\ consumer'[c].s = s
      BY <2>5, SentinelAssumption DEF Informs
    <3>2. /\ ch \in Channels /\ at[c] \in Int /\ at[c] <= held[s] /\ consumer[c].view = Shown(at[c])
          /\ NoCursor <= at[c] /\ held[s] \in Int /\ held[s] <= log[ch] /\ stream[s].orders = Shown(held[s])
      <4>1. stream[s].channel # NoChannel /\ stream[s].channel \in Channels \cup {NoChannel}
        BY <2>1, <3>1 DEF ShownInv, TypeOK, StreamObject
      <4> QED BY <2>1, <3>1, <4>1, CursorOrder DEF ShownInv, PlaceInv, Reached
    <3>3. AccountOf(c) = ch /\ AccountOf(c)' = ch
      BY <3>1 DEF AccountOf
    <3>4. \A d \in Consumers \ {c} : Given(d)' = Given(d)
      BY <2>2, <2>5 DEF Informs
    <3>5. /\ Given(c) = [channel |-> ch, state |-> consumer[c].state, at |-> at[c]]
          /\ Given(c)' = [channel |-> ch, state |-> consumer'[c].state, at |-> at'[c]]
      BY <3>3
    <3> HIDE DEF Given, ch
    <3>6. ConsumerFeed[c].channel = ch /\ ConsumerFeed[c].state = consumer[c].state /\ ConsumerFeed[c].at = at[c]
      BY <1>1, <3>5
    <3>7. CASE Alike(c)
      <4>1. Given(c)' = Given(c)
        BY <2>2, <3>7
      <4> QED BY <1>1, <3>1, <3>4, <4>1
    <3>8. CASE consumer'[c].state = consumer[c].state /\ consumer'[c].view = stream[s].orders
                 /\ consumer'[c].view # consumer[c].view
      <4>1. at'[c] = held[s]
        BY <2>1, <3>8, ShownNext
      <4>2. held[s] # at[c]
        BY <3>2, <3>8
      <4>3. held[s] \in 0 .. log[ch] /\ held[s] > at[c]
        <5>1. log[ch] \in Int
          <6>1. log \in [Channels -> Positions]
            BY <2>1 DEF TypeOK
          <6>2. log[ch] \in Positions
            BY <3>2, <6>1
          <6>3. log[ch] \in Nat
            BY <6>2, LastUnit, Zenon
          <6> QED BY <6>3
        <5> QED BY <3>2, <4>2, <5>1, CursorOrder
      <4>4. ConsumerFeed' = [ConsumerFeed EXCEPT ![c].at = held[s]]
        BY <1>1, <3>4, <3>5, <3>8, <4>1
      <4>5. Feed!Show(c)
        BY <3>1, <3>2, <3>6, <4>3, <4>4 DEF Feed!Show
      <4> QED BY <4>5
    <3>9. CASE consumer'[c].state \in Links /\ consumer'[c].view = consumer[c].view
                 /\ consumer'[c].state # consumer[c].state
      <4> DEFINE state == consumer'[c].state
      <4>1. at'[c] = at[c] /\ state \in {"connected", "disconnected"}
        BY <2>1, <3>9, ShownNext DEF Links
      <4>2. ConsumerFeed' = [ConsumerFeed EXCEPT ![c].state = state]
        BY <1>1, <3>4, <3>5, <4>1
      <4>3. Feed!Switch(c, state)
        BY <3>1, <3>2, <3>6, <3>9, <4>2 DEF Feed!Switch
      <4> QED BY <4>1, <4>3
    <3> QED BY <2>5, <3>1, <3>7, <3>8, <3>9 DEF Informs, Alike
  <2>6. (\E c \in Consumers, ch \in Channels : Feed!Attach(c, ch)) => Feed!Next
    BY DEF Feed!Next
  <2>7. (\E c \in Consumers : Feed!Show(c)) \/ (\E c \in Consumers, state \in {"connected", "disconnected"} : Feed!Switch(c, state))
        => Feed!Next
    BY DEF Feed!Next
  <2>8. UNCHANGED <<log, ConsumerFeed>> => UNCHANGED Feed!feedVars
    BY DEF Feed!feedVars
  <2> QED BY <2>1, <2>3, <2>4, <2>5, <2>6, <2>7, <2>8, StepTells
<1> QED BY <1>2, <1>3

LEMMA FeedStarts == FeedInit => Feed!Init
<1> SUFFICES ASSUME FeedInit PROVE Feed!Init
  OBVIOUS
<1>1. FeedInv /\ Init /\ at = [c \in Consumers |-> NoCursor]
  BY InitFeed DEF FeedInit
<1>2. ConsumerFeed = [c \in Consumers |-> [channel |-> AccountOf(c), state |-> consumer[c].state, at |-> at[c]]]
  BY <1>1, FeedShows
<1>3. \A c \in Consumers : AccountOf(c) = NoChannel /\ consumer[c].state = "pending" /\ at[c] = NoCursor
  BY <1>1 DEF Init, AccountOf
<1> QED BY <1>1, <1>2, <1>3 DEF Init, Feed!Init, Feed!Nowhere, NoCursor

\* Whatever sockets, tokens, cursors and retries there are, a consumer is given its own
\* account's live view, at positions the account has reached and that never move back.
THEOREM OrdersImplementOrderFeed == FeedSpec => ImplementsOrderFeed
<1>1. FeedInit => FeedInv /\ Feed!Init
  BY InitFeed, FeedStarts
<1>2. FeedInv /\ [Next /\ Record]_feedVars => FeedInv'
  BY StepKeepsFeed
<1>3. FeedInv /\ FeedInv' /\ [Next /\ Record]_feedVars => [Feed!Next]_Feed!feedVars
  BY FeedSteps
<1> QED BY <1>1, <1>2, <1>3, PTL DEF FeedSpec, ImplementsOrderFeed, Feed!Spec
==============================================================================
